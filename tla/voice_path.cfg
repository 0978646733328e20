CONSTANTS
    Pump = {u1, u2}
    Session = {s1, s2}
    NoSession = NoSession
    NoPump = NoPump
    Waiting = Waiting
    MaxFrames = 2
    PacketLen = 1
    Prebuffer = 4
    MaxPop = 3
    MaxArrivals = 7
SPECIFICATION VoiceSpec
CHECK_DEADLOCK FALSE
INVARIANT VoiceTypeOK
INVARIANT OwnOrder
INVARIANT NoStuckAudio
INVARIANT RecentOnly
PROPERTY Routed
PROPERTY FrameHanded
