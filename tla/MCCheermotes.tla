---------------------------- MODULE MCCheermotes ----------------------------
(* Messages of up to three words, each a cheer of 1 to 3 bits or another   *)
(* word.                                                                   *)
EXTENDS Cheermotes

CONSTANTS Cheer, Hello

MCWords == [prefix : {Cheer, Hello}, value : 1..3]

\* No tag, a zero tag, and tags that cover one, some or all of the cheers.
MCBitsTags == 0..4

\* A negative tag, as a malformed or hostile server could send.
MCBitsTagsNegative == -1..2

\* Deep enough for a tag of 1 to pay a cheer of 3 in steps.
MCMaxRecursion == 4

=============================================================================
