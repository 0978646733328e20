CONSTANTS
    Live = {gain}
    Device = {input}
    Plain = {nickname}
    Id = peer_id
    NoFile = NoFile
    Torn = Torn
    MaxChanges = 3
    MaxLaunches = 2
SPECIFICATION FairSpec
CHECK_DEADLOCK FALSE
INVARIANT TypeOK
INVARIANT FileIsWhole
INVARIANT UnsavedIsPending
INVARIANT RunningFollows
PROPERTY NothingGoesBack
PROPERTY EditsReachFile
