--------------------------- MODULE MCMessageWords ---------------------------
(* Contents of up to three words and three characters with up to three    *)
(* occurrences of names one or two characters long; text pieces that are a *)
(* cheer of 1 to 3 bits or a word of any class; bits tags of 0 to 3.      *)
EXTENDS MessageWords, MessageHeader, SequencesExt

CONSTANTS Cheer, Hello

ContentLength(ws) == FoldLeft(LAMBDA acc, l : acc + l, 0, ws) + Len(ws) - 1

\* Words of 0 to 3 characters (0: two spaces in a row), three in all.
MCWordLists ==
    {ws \in UNION {[1..k -> 0..3] : k \in 1..3} :
        FoldLeft(LAMBDA acc, l : acc + l, 0, ws) \in 1..3}

\* Up to max occurrences, declared in index order, anywhere in the content.
OccurrenceLists(ws, max) ==
    UNION {{[i \in 1..k |-> [id |-> i, start |-> st[i], end |-> st[i] + ln[i]]] :
               st \in [1..k -> 0..(ContentLength(ws) - 1)],
               ln \in [1..k -> 1..2]} : k \in 0..max}

\* The shape operators of the walk, apart from any message.
Shape == INSTANCE EmoteOccurrences
            WITH WordLists <- {}, OccurrenceSets <- {}, words <- <<>>,
                 declared <- <<>>, occs <- <<>>, out <- <<>>, built <- FALSE

\* What well-formed tags declare: each occurrence inside a word, two of
\* them either at the same span (a duplicate) or disjoint.
WellFormed(ws, s) ==
    \A i, j \in 1..Len(s) :
        /\ Shape!InOneWord(ws, s[i])
        /\ (s[i].start = s[j].start /\ s[i].end = s[j].end)
           \/ ~Shape!Overlap(s[i], s[j])

MCWellFormed == [ws \in MCWordLists |->
                    {s \in OccurrenceLists(ws, 3) : WellFormed(ws, s)}]

\* A word of every class, and cheers of 1 to 3 bits (plain text when the
\* message has no bits left for them).
MCPieces == [prefix : {Hello}, value : {1}, class : Classes]
            \cup [prefix : {Cheer}, value : 1..3, class : {"text"}]

MCBitsTags == 0..3

\* Deep enough for a tag of 1 to pay a cheer of 3 in steps.
MCMaxRecursion == 4

-----------------------------------------------------------------------------
(* The header at the front of the builder's elements (MessageHeader), over *)
(* every combination of settings, arguments, tags and thread.             *)

FrontIsHeader == elements[1].kind = "header"

\* The reply context is rendered at most once: parseThread (on the raw
\* compact header setting) and the compact header (on compactHeaderLayout)
\* never both quote the replied-to author or text.
ReplyContextAtMostOnce == FrontIsHeader => EveryHeaderRepliesOnce

\* The timestamp of the header section follows the clamped gap threshold:
\* in gaps-only mode, shown after more than 400 minutes of silence or on the
\* channel's first timed message, never within a minute, whatever the
\* gap setting holds.
TimestampFollowsGap == FrontIsHeader => EveryTimestampFollowsGap

=============================================================================
