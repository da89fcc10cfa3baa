--------------------------- MODULE MCCustomEmotes ---------------------------
(* Model of the custom emote provider cache: two base URLs, one code, one  *)
(* channel, two loads.                                                      *)
EXTENDS CustomEmotes, TLC

CONSTANTS p1, p2, e1, e2, c1, ra, ra2, rb, rx

\* Distinct hosts: each base URL has its own cache file.
MCCacheKey == [p \in {p1, p2} |-> p]

\* Both base URLs list e1 globally, so the later answer decides which one
\* wins, and only the second lists the other codes; in the channel the
\* second lists nothing.
MCServed ==
    [s \in Scopes |->
        IF s = Global THEN [p \in {p1, p2} |-> IF p = p1 THEN {e1} ELSE Names]
                      ELSE [p \in {p1, p2} |-> IF p = p1 THEN {e1} ELSE {}]]

\* ra and ra2 are the same base URL written with and without a trailing
\* slash; rx is blank.
MCNormalize ==
    [r \in RawUrls |-> IF r \in {ra, ra2} THEN p1 ELSE IF r = rb THEN p2 ELSE Blank]

\* For the channel run: the legacy URL alone, or both base URLs with a
\* blank entry and a duplicate.
MCListValuesSmall == {<<>>, <<ra, rx, ra2, rb>>}

MCMaxLoads == 2

=============================================================================
