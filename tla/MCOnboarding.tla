---------------------------- MODULE MCOnboarding ----------------------------
(* Two user ids with one username each; a legacy profile that is absent,   *)
(* or holds settings.json, the window layout and perhaps an unparsable     *)
(* file ahead of them, and up to two accounts (MCAccountLists).  The       *)
(* redeem endpoint answers with one of the packs below, each reaching a    *)
(* different exit of applyIntegrationPack, all with the bearer t1; an      *)
(* earlier run's uploader may hold either token, the self-host page t2.    *)
EXTENDS Onboarding

CONSTANTS u1, u2, n1, n2, Other, t1, t2

MCFileNames == {SettingsFile, LayoutFile, Other}

MCUserNames == [u \in {u1, u2} |-> IF u = u1 THEN {n1} ELSE {n2}]

SettingsJson == [name |-> SettingsFile, eligible |-> TRUE, parses |-> TRUE]
LayoutJson == [name |-> LayoutFile, eligible |-> TRUE, parses |-> TRUE]
BrokenJson == [name |-> Other, eligible |-> TRUE, parses |-> FALSE]

A1 == [uid |-> u1, name |-> n1, complete |-> TRUE]
A2 == [uid |-> u2, name |-> n2, complete |-> TRUE]
Blank2 == [uid |-> u2, name |-> n2, complete |-> FALSE]

\* No account; one; one after a blank one of the same id (skipped); the
\* same id twice (the first kept).
MCAccountLists == {<<>>, <<A1>>, <<Blank2, A2>>, <<A1, A1>>}

NoLegacy == [found |-> FALSE, current |-> NoName, files |-> <<>>, accounts |-> <<>>]

\* No legacy profile: the scheduler alone.
MCNoLegacyProfile == {NoLegacy}

\* A profile with settings.json and one account.
MCOneLegacyProfile ==
    {[found |-> TRUE, current |-> n1, files |-> <<SettingsJson, LayoutJson>>,
      accounts |-> <<[uid |-> u1, name |-> n1, complete |-> TRUE]>>]}

MCLegacyProfiles ==
    {NoLegacy}
    \cup
    [found : {TRUE},
     current : {NoName, n1},
     files : {<<BrokenJson, SettingsJson, LayoutJson>>},
     accounts : MCAccountLists]

PackWith(valid, header, secretsEmpty, secretListed, imports, oauth) ==
    [valid |-> valid, header |-> header, token |-> t1, secretsEmpty |-> secretsEmpty,
     secretListed |-> secretListed, imports |-> imports, oauth |-> oauth]

\* Rejected by a check; a literal bearer; a placeholder with its secret,
\* with secrets naming others, with no secrets; an invalid oauth member
\* after the import; a failing import; no Authorization header.
MCPacks ==
    {PackWith(FALSE, "literal", TRUE, FALSE, TRUE, "absent"),
     PackWith(TRUE, "literal", TRUE, FALSE, TRUE, "object"),
     PackWith(TRUE, "placeholder", FALSE, TRUE, TRUE, "absent"),
     PackWith(TRUE, "placeholder", FALSE, FALSE, TRUE, "object"),
     PackWith(TRUE, "placeholder", TRUE, FALSE, TRUE, "absent"),
     PackWith(TRUE, "literal", TRUE, FALSE, TRUE, "badKeys"),
     PackWith(TRUE, "literal", TRUE, FALSE, FALSE, "absent"),
     PackWith(TRUE, "none", TRUE, FALSE, TRUE, "absent")}

\* The unparsable file is never copied, so whether its name exists in the
\* settings directory does not matter: it does not.
MCEarlierDisks == {d \in [MCFileNames -> {"none", "own"}] : d[Other] = "none"}

\* An earlier run's uploader: none, or t2 moved to the keychain.
MCEarlierUploaders ==
    {[auth |-> "none", token |-> NoToken, origin |-> "own"],
     [auth |-> "reference", token |-> t2, origin |-> "own"]}

=============================================================================
