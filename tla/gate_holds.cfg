CONSTANTS
    Key = {x, y}
    NoKey = NoKey
    Loopback = {TRUE, FALSE}
SPECIFICATION PresenceSpec
INVARIANT PresenceTypeOK
INVARIANT MutedIsSilent
INVARIANT KeyUpIsSilent
 
INVARIANT ToldIsTrue
