CONSTANTS
    Peer = {p, q}
    Vps = {v1}
    Tls = {}
    Dial = {d1}
    Invite = {i1}
    Accept = {a1}
    NoFlow = NoFlow
    NoPeer = NoPeer
    MaxFlows = 2
    MaxRooms = 1
SPECIFICATION AloneSpec
ACTION_CONSTRAINT FewFlows
CHECK_DEADLOCK FALSE
INVARIANT TypeOK
INVARIANT ActiveIsPumped
INVARIANT ConnectingIsOwned
INVARIANT ConnectedIsPumped
INVARIANT PeersAreTracked
INVARIANT PeersHaveCards
INVARIANT LiveSessionShows
PROPERTY IdlingCleansUp
