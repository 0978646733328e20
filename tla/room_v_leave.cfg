CONSTANTS
    Peer = {p}
    Vps = {v1}
    Tls = {}
    Dial = {}
    Invite = {}
    Accept = {}
    NoFlow = NoFlow
    NoPeer = NoPeer
SPECIFICATION FairSpec
CHECK_DEADLOCK FALSE
PROPERTY LeavingReachesServer
