CONSTANTS
    p1 = p1
    p2 = p2
    e1 = e1
    e2 = e2
    c1 = c1
    ra = ra
    ra2 = ra2
    rb = rb
    rx = rx
    Blank = Blank
    RawUrls = {ra, ra2, rb, rx}
    Providers = {p1, p2}
    Names = {e1}
    Channels = {c1}
    Global = Global
    NoEmote = NoEmote
    NoFile = NoFile
    Garbage = Garbage
    CacheKey <- MCCacheKey
    Served <- MCServed
    Normalize <- MCNormalize
    ListValues <- MCListValuesSmall
    MaxLoads <- MCMaxLoads

SPECIFICATION Spec

INVARIANT
    GlobalMapFollowsSettings
