CONSTANTS
    Cheer = Cheer
    Hello = Hello
    NoBits = NoBits
    CheerPrefixes = {Cheer}
    Words <- MCWords
    BitsTags <- MCBitsTagsNegative
    MaxWords = 3
    MaxRecursion <- MCMaxRecursion

SPECIFICATION Spec

INVARIANTS
    CheerRecursionBounded
