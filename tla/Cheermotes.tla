---------------------------- MODULE Cheermotes ----------------------------
(***************************************************************************)
(* Cheermote accounting of the message builder                             *)
(* (src/messages/MessageBuilder.cpp: makeIrcMessage's bits tag,            *)
(* addTextOrEmote and tryAppendCheermote).                                 *)
(*                                                                         *)
(* A message carrying a "bits" tag starts with bitsLeft = the tag's value. *)
(* Each word that the channel's cheermote lookup recognises is consumed by *)
(* tryAppendCheermote: without stacking, a cheer of value v costs v bits;  *)
(* when fewer are left the word is rewritten with the numeral v - bitsLeft *)
(* and tried again (recursively).  With stacking, the first cheer is shown *)
(* once with a counter of the bits and later ones are swallowed.           *)
(*                                                                         *)
(* A word is abstracted to its cheer prefix and numeral; the channel's     *)
(* cheerEmote lookup (outside src/) is the set CheerPrefixes, its regex    *)
(* matches a positive numeral.  The stack depth of the recursion is        *)
(* bounded by MaxRecursion: a deeper recursion exhausts the stack.         *)
(***************************************************************************)
EXTENDS Integers, Sequences, SequencesExt

CONSTANTS
    CheerPrefixes,  \* prefixes the channel's cheermote sets define
    Words,          \* the words a message is made of: [prefix, value]
    BitsTags,       \* integer values of the bits tag
    NoBits,         \* the message has no bits tag
    MaxWords,       \* bound on the words of a message
    MaxRecursion    \* stack depth at which the recursion overflows

ASSUME /\ BitsTags \subseteq Int
       /\ MaxRecursion \in Nat

Elements == [kind : {"cheer", "counter"}, amount : Int]

VARIABLES
    tag,          \* the message's bits tag (history)
    hasBits,      \* textState.hasBits
    bitsLeft,     \* textState.bitsLeft
    bitsStacked,  \* textState.bitsStacked
    stackBits,    \* the stackBits setting while this message is built
    words,        \* words of the message not yet walked
    shown,        \* bits elements emitted so far
    overflow      \* the recursion exhausted the stack

vars == <<tag, hasBits, bitsLeft, bitsStacked, stackBits, words, shown,
          overflow>>

TypeOK ==
    /\ tag \in BitsTags \cup {NoBits}
    /\ hasBits \in BOOLEAN
    /\ bitsLeft \in {0} \cup BitsTags
    /\ bitsStacked \in BOOLEAN
    /\ stackBits \in BOOLEAN
    /\ words \in Seq(Words) /\ Len(words) <= MaxWords
    /\ shown \in Seq(Elements)
    /\ overflow \in BOOLEAN

MessageWords == UNION {[1..k -> Words] : k \in 0..MaxWords}

\* makeIrcMessage: a fresh TextState, seeded from the bits tag if present,
\* for the words of the message.
Init ==
    \E t \in BitsTags \cup {NoBits}, ws \in MessageWords :
        /\ tag = t
        /\ hasBits = (t # NoBits)
        /\ bitsLeft = IF t # NoBits THEN t ELSE 0
        /\ bitsStacked = FALSE
        /\ stackBits \in BOOLEAN
        /\ words = ws
        /\ shown = <<>>
        /\ overflow = FALSE

-----------------------------------------------------------------------------
(* tryAppendCheermote(state, string)                                       *)

\* The outcome of one call: Success or Failure, the new bitsLeft and
\* bitsStacked, the elements appended, and whether the stack overflowed.
Outcome(ok, bl, st, els, ovf) ==
    [ok |-> ok, bitsLeft |-> bl, stacked |-> st, els |-> els, overflow |-> ovf]

\* The lookup cheerEmote(string) finds a set and its regex matches.
IsCheer(w) == w.prefix \in CheerPrefixes /\ w.value > 0

\* Faulty variant: bitsLeft is not reduced by the cheer shown.
SpendNothing(bl, v) == bl

\* state.bitsLeft -= cheerValue
Spend(bl, v) == bl - v

\* Faulty variant: the numeral is chopped and the same number appended.
RewrittenSame(w, bl) == w

\* The rewritten word: the numeral chopped and cheerValue - bitsLeft
\* appended.
Rewritten(w, bl) == [w EXCEPT !.value = w.value - bl]

\* Faulty variant: the bitsStacked early return is missing.
AlreadyStackedIgnored(st) == FALSE

\* The early return of stacking mode once the message has its cheer.
AlreadyStacked(st) == st

RECURSIVE TryAppendCheermote(_, _, _, _, _)
TryAppendCheermote(stack, bl, st, w, depth) ==
    IF bl = 0 \/ ~IsCheer(w) THEN Outcome(FALSE, bl, st, <<>>, FALSE)
    ELSE IF stack
    THEN IF AlreadyStacked(st) THEN Outcome(TRUE, bl, st, <<>>, FALSE)
         ELSE Outcome(TRUE, bl, TRUE, <<[kind |-> "counter", amount |-> bl]>>,
                      FALSE)
    ELSE IF bl >= w.value
    THEN Outcome(TRUE, Spend(bl, w.value), st,
                 <<[kind |-> "cheer", amount |-> w.value]>>, FALSE)
    ELSE IF depth = MaxRecursion THEN Outcome(TRUE, bl, st, <<>>, TRUE)
    ELSE TryAppendCheermote(stack, bl, st, Rewritten(w, bl), depth + 1)

-----------------------------------------------------------------------------
(* The word walk                                                           *)

\* addTextOrEmote on the next word: a cheermote when the message has bits
\* and tryAppendCheermote succeeds; otherwise the word goes on to the emote,
\* link and mention lookups, which do not touch the bits state.
AddTextOrEmote ==
    /\ words # <<>> /\ ~overflow
    /\ LET r == TryAppendCheermote(stackBits, bitsLeft, bitsStacked,
                                   Head(words), 0) IN
       IF hasBits /\ r.ok
       THEN /\ bitsLeft' = r.bitsLeft
            /\ bitsStacked' = r.stacked
            /\ shown' = shown \o r.els
            /\ overflow' = r.overflow
       ELSE UNCHANGED <<bitsLeft, bitsStacked, shown, overflow>>
    /\ words' = Tail(words)
    /\ UNCHANGED <<tag, hasBits, stackBits>>

\* The builder moves on to the next message.
NextMessage ==
    /\ words = <<>> \/ overflow
    /\ \E t \in BitsTags \cup {NoBits}, ws \in MessageWords :
        /\ tag' = t
        /\ hasBits' = (t # NoBits)
        /\ bitsLeft' = IF t # NoBits THEN t ELSE 0
        /\ bitsStacked' = FALSE
        /\ stackBits' \in BOOLEAN
        /\ words' = ws
        /\ shown' = <<>>
        /\ overflow' = FALSE

Next == AddTextOrEmote \/ NextMessage

Spec == Init /\ [][Next]_vars

-----------------------------------------------------------------------------
(* Properties                                                              *)

SpentOn(els) ==
    FoldLeft(LAMBDA acc, e : acc + (IF e.kind = "cheer" THEN e.amount ELSE 0),
             0, els)

\* The bits shown are the bits of the tag.  Without stacking, the amounts
\* on the cheer elements and the bits still left add up to the tag, and no
\* more is spent than the tag holds; with stacking, only one counter is
\* shown and it holds the whole tag.
BitsAccounted ==
    tag # NoBits /\ tag >= 0 =>
        IF stackBits
        THEN /\ Len(shown) <= 1
             /\ \A i \in DOMAIN shown : shown[i].amount = tag
        ELSE /\ SpentOn(shown) + bitsLeft = tag
             /\ bitsLeft >= 0

\* The rewriting recursion ends: "the numeral strictly shrinks each call"
\* (spec, failure modes), so no bits tag makes it exhaust the stack.
CheerRecursionBounded == ~overflow

=============================================================================
