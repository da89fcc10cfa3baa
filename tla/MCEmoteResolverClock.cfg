CONSTANTS
    a = a
    b = b
    B = B
    n1 = n1
    n2 = n2
    n3 = n3
    Channels = {a, b}
    Names = {n1, n2, n3}
    Ffz = Ffz
    Bttv = Bttv
    SevenTv = SevenTv
    NoChannel = NoChannel
    NoSource = NoSource
    ChannelEmotes <- MCChannelEmotes
    GlobalEmotes <- MCGlobalEmotes
    TTL = 2
    RawValues <- MCRawValues
    Lower <- MCLower
    MaxClock = 4
    ClockMayGoBack = TRUE

SPECIFICATION Spec

INVARIANT
    CrossChannelFresh
