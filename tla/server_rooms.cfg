CONSTANTS
    Client = {a, b, c}
    Conn = {k1, k2, k3}
    Code = {r1, r2}
    NoClient = NoClient
    NoConn = NoConn
    NoCode = NoCode
SPECIFICATION Spec
CHECK_DEADLOCK FALSE
SYMMETRY Symmetry
INVARIANT TypeOK
INVARIANT EntriesAreOwned
INVARIANT OpenHasMembers
INVARIANT ViewsConverge
