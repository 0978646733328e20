CONSTANTS
    Client = {1, 2}
    Conn = {1, 2}
    None = None
SPECIFICATION FairSpec
CHECK_DEADLOCK FALSE
INVARIANT TypeOK
INVARIANT AgreedRoles
PROPERTY NothingHangs
