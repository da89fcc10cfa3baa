-------------------------- MODULE MCEmoteResolver --------------------------
(* Two channels that both provide n2 (through different providers), a     *)
(* code only the second provides, and a global code.  B is the upper-case *)
(* form of b's one-character name.                                         *)
EXTENDS EmoteResolver, TLC

CONSTANTS a, b, B, n1, n2, n3

MCChannelEmotes ==
    [c \in Channels |->
        [p \in Providers |->
            CASE c = a /\ p = Ffz     -> {n2}
              [] c = b /\ p = SevenTv -> {n2, n3}
              [] c = b /\ p = Bttv    -> {n1}
              [] OTHER                -> {}]]

\* The allow and block settings: empty, or naming the second channel with
\* padding, a '#' and upper case, which normalization must see through.
MCRawValues == {<<>>, <<" ", "#", B>>}

MCLower == B :> b

MCGlobalEmotes == [p \in Providers |-> IF p = Bttv THEN {n1} ELSE {}]

=============================================================================
