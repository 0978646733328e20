SPECIFICATION LateSpec
CONSTANTS
    Peer = {p1, p2}
    Room = {r1}
    Port = {voip, udp}
    Primary = voip
    Blocked = {voip}
    Addr = {a1, a2, a3}
    None = None
    MaxFlight = 1
    MaxStarts = 3
    MaxDups = 0
    Early = p1
    Late = p2
PROPERTY LockSpreads
CHECK_DEADLOCK FALSE
