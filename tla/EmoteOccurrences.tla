------------------------- MODULE EmoteOccurrences -------------------------
(***************************************************************************)
(* Twitch emote occurrences in the word walk of the message builder        *)
(* (src/messages/MessageBuilder.cpp: makeIrcMessage 3006-3026,             *)
(* doesWordContainATwitchEmote, MessageBuilder::addWords).                 *)
(*                                                                         *)
(* The occurrences the IRC tags declare are sorted by start and            *)
(* deduplicated by start; the content is split on single spaces and walked *)
(* word by word with a character cursor and an iterator over the           *)
(* occurrences: an occurrence that fits in the current word is emitted as  *)
(* an emote after the text before it, the rest of the word as text.        *)
(*                                                                         *)
(* The content is abstracted to the lengths of its words; an occurrence   *)
(* to its declaration index, start and end (exclusive, end - start being   *)
(* the length of its name); an element to its kind and the range of       *)
(* content positions it renders.  The emoji split and addTextOrEmote of a  *)
(* text piece are one text element.                                        *)
(***************************************************************************)
EXTENDS Naturals, Sequences, SequencesExt

CONSTANTS
    WordLists,      \* the contents: sequences of word lengths
    OccurrenceSets  \* per content, the sets of occurrence lists declared

Occurrence == [id : Nat, start : Nat, end : Nat]

\* An element renders at least one character.
Element == {e \in [kind : {"text", "emote"}, from : Nat, to : Nat, id : Nat] :
                e.from < e.to}

VARIABLES
    words,      \* content.split(' '), as word lengths
    declared,   \* parseTwitchEmotes(...), in declaration order
    occs,       \* twitchEmotes after sort and unique
    out,        \* the elements addWords emitted
    built       \* addWords has run for this message

vars == <<words, declared, occs, out, built>>

TypeOK ==
    /\ words \in WordLists
    /\ declared \in Seq(Occurrence)
    /\ occs \in Seq(Occurrence)
    /\ out \in Seq(Element)
    /\ built \in BOOLEAN

-----------------------------------------------------------------------------
(* Sort and unique                                                         *)

\* std::ranges::sort by start is not stable: any order of the occurrences
\* with nondecreasing starts is an outcome the library may produce.
SortedByStart(s) ==
    {p \in SetToSeqs(Range(s)) :
        \A i \in 1..(Len(p) - 1) : p[i].start <= p[i + 1].start}

\* Faulty variant: unique is not applied.
UniqueKeepsAll(s) == s

\* std::ranges::unique with equal starts, then erase: the first of each run
\* of equal starts is kept.
UniqueByStart(s) ==
    FoldLeft(LAMBDA acc, o :
                 IF acc # <<>> /\ Last(acc).start = o.start THEN acc
                 ELSE Append(acc, o),
             <<>>, s)

-----------------------------------------------------------------------------
(* addWords                                                                *)

Text(from, to) == [kind |-> "text", from |-> from, to |-> to, id |-> 0]

Emote(o) == [kind |-> "emote", from |-> o.start, to |-> o.end, id |-> o.id]

\* Faulty variant: an emote ending exactly at the end of the word is taken
\* not to fit.
DoesWordContainATwitchEmoteStrict(os, it, cursor, len) ==
    /\ it <= Len(os)
    /\ ~(os[it].start < cursor \/ os[it].end >= cursor + len)

\* doesWordContainATwitchEmote: the iterator's occurrence lies within the
\* word that starts at the cursor.
DoesWordContainATwitchEmote(os, it, cursor, len) ==
    /\ it <= Len(os)
    /\ ~(os[it].start < cursor \/ os[it].end > cursor + len)

\* Faulty variant: after an emote that ends the word the cursor does not
\* step over the space.
EmoteEndsWordNoSpace(cursor, n) == cursor + n

\* The emote ended the word: the cursor steps over its name and the space.
EmoteEndsWord(cursor, n) == cursor + n + 1

\* The while loop over one non-empty word of length len at the cursor,
\* then the trailing text: the new iterator, cursor and output.
RECURSIVE WalkWord(_, _, _, _, _)
WalkWord(os, it, cursor, len, acc) ==
    IF ~DoesWordContainATwitchEmote(os, it, cursor, len)
    THEN [it |-> it, cursor |-> cursor + len + 1,
          out |-> acc \o <<Text(cursor, cursor + len)>>]
    ELSE LET o == os[it]
             n == o.end - o.start
         IN IF o.start = cursor
            THEN IF len = n
                 THEN [it |-> it + 1, cursor |-> EmoteEndsWord(cursor, n),
                       out |-> Append(acc, Emote(o))]
                 ELSE WalkWord(os, it + 1, cursor + n, len - n,
                               Append(acc, Emote(o)))
            ELSE WalkWord(os, it, o.start, len - (o.start - cursor),
                          Append(acc, Text(cursor, o.start)))

\* Faulty variant: the check for an empty word is missing.
AddWordsNoEmptyCheck(ws, os) ==
    LET step(st, len) == WalkWord(os, st.it, st.cursor, len, st.out)
    IN FoldLeft(step, [it |-> 1, cursor |-> 0, out |-> <<>>], ws).out

\* addWords: an empty word (two spaces in a row) only moves the cursor.
AddWords(ws, os) ==
    LET step(st, len) ==
            IF len = 0 THEN [st EXCEPT !.cursor = @ + 1]
            ELSE WalkWord(os, st.it, st.cursor, len, st.out)
    IN FoldLeft(step, [it |-> 1, cursor |-> 0, out |-> <<>>], ws).out

-----------------------------------------------------------------------------
(* Messages                                                                *)

Init ==
    /\ words \in WordLists
    /\ declared \in OccurrenceSets[words]
    /\ occs = <<>>
    /\ out = <<>>
    /\ built = FALSE

\* makeIrcMessage from the tags to addWords.
BuildWords ==
    /\ ~built
    /\ \E s \in SortedByStart(declared) :
          /\ occs' = UniqueByStart(s)
          /\ out' = AddWords(words, UniqueByStart(s))
    /\ built' = TRUE
    /\ UNCHANGED <<words, declared>>

\* Each message is built independently of the others: a behaviour builds
\* one message and ends.
Next == BuildWords

Spec == Init /\ [][Next]_vars

-----------------------------------------------------------------------------
(* Properties                                                              *)

\* Start position of word i of ws.
WordStart(ws, i) == FoldLeft(LAMBDA acc, l : acc + l + 1, 0, SubSeq(ws, 1, i - 1))

\* The content positions that hold a character (not a separating space).
Characters(ws) ==
    FoldLeft(LAMBDA acc, i :
                 acc \o [k \in 1..ws[i] |-> WordStart(ws, i) + k - 1],
             <<>>, [i \in 1..Len(ws) |-> i])

Positions(e) == [k \in 1..(e.to - e.from) |-> e.from + k - 1]

\* Occurrence o lies inside a single word.
InOneWord(ws, o) ==
    \E i \in 1..Len(ws) :
        /\ WordStart(ws, i) <= o.start
        /\ o.end <= WordStart(ws, i) + ws[i]
        /\ o.start < o.end

Overlap(a, b) == a.start < b.end /\ b.start < a.end

\* The occurrences kept for the walk have strictly increasing starts (spec,
\* invariants of segmentation).
OccurrencesStrictlySorted ==
    built => \A i \in 1..(Len(occs) - 1) : occs[i].start < occs[i + 1].start

\* The elements addWords emits render every character of the content once,
\* in order, and nothing else: the cursor arithmetic over emotes at the
\* start, middle and end of a word and over empty words never drops,
\* repeats or shifts a character.
RenderingCoversText ==
    built => FoldLeft(LAMBDA acc, e : acc \o Positions(e), <<>>, out)
                = Characters(words)

\* Every kept occurrence that lies inside one word and overlaps no other
\* kept occurrence is rendered as that emote.
EmotesNotLost ==
    built =>
        \A i \in 1..Len(occs) :
            (/\ InOneWord(words, occs[i])
             /\ \A j \in 1..Len(occs) : j # i => ~Overlap(occs[i], occs[j]))
            => \E k \in 1..Len(out) : out[k] = Emote(occs[i])

=============================================================================
