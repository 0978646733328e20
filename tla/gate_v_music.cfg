CONSTANTS
    Key = {x}
    NoKey = NoKey
    Loopback = {FALSE}
SPECIFICATION Spec
INVARIANT MicFollowsGate
