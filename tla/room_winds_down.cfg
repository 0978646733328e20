CONSTANTS
    Peer = {p}
    Vps = {v1, v2}
    Tls = {v2}
    Dial = {d1}
    Invite = {i1}
    Accept = {a1}
    NoFlow = NoFlow
    NoPeer = NoPeer
    MaxFlows = 2
    MaxRooms = 1
SPECIFICATION FairSpec
ACTION_CONSTRAINT FewFlows
CHECK_DEADLOCK FALSE
PROPERTY ToldSessionEnds
PROPERTY StoppedListenerLeaves
PROPERTY PhantomHeals
