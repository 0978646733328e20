CONSTANTS
    Client = {a, b}
    Conn = {k1, k2, k3}
    Code = {r1}
    NoClient = NoClient
    NoConn = NoConn
    NoCode = NoCode
SPECIFICATION Spec
CHECK_DEADLOCK FALSE
INVARIANT JoinedIsListed
