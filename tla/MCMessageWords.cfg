CONSTANTS
    Cheer = Cheer
    Hello = Hello
    NoBits = NoBits
    CheerPrefixes = {Cheer}
    Words <- MCPieces
    BitsTags <- MCBitsTags
    MaxWords = 4
    MaxRecursion <- MCMaxRecursion
    WordLists <- MCWordLists
    OccurrenceSets <- MCWellFormed

SPECIFICATION Spec

CHECK_DEADLOCK FALSE

INVARIANTS
    TypeOK
    OccurrencesStrictlySorted
    RenderingCoversText
    EmotesNotLost
    BitsAccounted
    CheerRecursionBounded
    RenderedInOrder
    ReplyContextAtMostOnce
    TimestampFollowsGap
