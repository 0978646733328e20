SPECIFICATION Spec
CONSTANTS
    Peer = {p1, p2}
    Room = {r1, r2}
    Port = {voip, udp}
    Primary = voip
    Blocked = {voip}
    Addr = {a1, a2}
    None = None
    MaxFlight = 2
    MaxStarts = 3
    MaxDups = 1
INVARIANTS
    TypeOK
    HeardIsRegistered
    NeverHearsItself
    ActiveIsOpen
CHECK_DEADLOCK FALSE
