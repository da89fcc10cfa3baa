---------------------------- MODULE LegacyImport ----------------------------
(***************************************************************************)
(* Import of a legacy Chatterino profile (src/util/OpenEmoteImport.cpp and *)
(* importLegacyTwitchAccounts in src/Application.cpp), as operators over   *)
(* the state the onboarding dialog's accept handler changes.               *)
(*                                                                         *)
(* A profile is the first directory findLegacySettingsDirectories finds:   *)
(* whether there is one, the JSON files in it, in directory order, and the *)
(* "accounts" object of its settings.json.  A file is abstracted to its    *)
(* name, whether it passes the name, type and size filters, and whether it *)
(* parses as a JSON object or array; an account to its user id, username   *)
(* and whether all four credential fields are non-blank.  The contents of  *)
(* the current settings directory are the origin of each file: none, the   *)
(* profile's own, or copied from the legacy profile.                       *)
(***************************************************************************)
EXTENDS Naturals, Sequences, SequencesExt

CONSTANTS
    FileNames,        \* names of the JSON files a profile directory holds
    SettingsFile,     \* "settings.json"
    LayoutFile,       \* "window-layout.json", the one file overwritten
    Uids,             \* Twitch user ids
    Names,            \* Twitch usernames
    NoName,           \* an empty username
    MaxImportedFiles  \* MAX_IMPORTED_SETTINGS_FILES

Origins == {"none", "own", "legacy"}

LegacyFile == [name : FileNames, eligible : BOOLEAN, parses : BOOLEAN]

LegacyAccount == [uid : Uids, name : Names, complete : BOOLEAN]

-----------------------------------------------------------------------------
(* loadLegacyTwitchAccounts and pickImportedCurrentUsername               *)

\* The accounts of the profile, in object order: blank ones skipped, the
\* first of each user id kept.
LoadLegacyTwitchAccounts(accs) ==
    FoldLeft(LAMBDA acc, a :
                 IF ~a.complete \/ \E i \in 1..Len(acc) : acc[i].uid = a.uid
                 THEN acc
                 ELSE Append(acc, a),
             <<>>, accs)

\* The new current username, or NoName for std::nullopt.
PickImportedCurrentUsername(legacyCurrent, imported, existing) ==
    IF legacyCurrent # NoName /\ legacyCurrent \in Range(imported)
    THEN legacyCurrent
    ELSE IF existing # NoName THEN NoName
    ELSE IF imported = <<>> THEN NoName
    ELSE imported[1]

-----------------------------------------------------------------------------
(* importLegacySettingsFiles                                               *)

\* A destination that exists is kept, but for the window layout.
CopyAllowed(disk, f) == disk[f.name] = "none" \/ f.name = LayoutFile

\* The loop over the source directory's files with its considered counter.
\* fails is the set of file names whose QFile::copy fails.  The result is
\* the new directory contents and the names copied.
ImportLegacySettingsFiles(files, disk, fails) ==
    LET step(st, f) ==
            IF ~f.eligible \/ st.stop THEN st
            ELSE IF st.considered >= MaxImportedFiles
            THEN [st EXCEPT !.stop = TRUE]
            ELSE LET s1 == [st EXCEPT !.considered = @ + 1] IN
                 IF ~f.parses \/ ~CopyAllowed(s1.disk, f) THEN s1
                 ELSE LET removed == IF f.name = LayoutFile
                                     THEN [s1.disk EXCEPT ![f.name] = "none"]
                                     ELSE s1.disk
                      IN IF f.name \in fails
                         THEN [s1 EXCEPT !.disk = removed]
                         ELSE [s1 EXCEPT !.disk = [removed EXCEPT ![f.name] = "legacy"],
                                         !.copied = @ \cup {f.name}]
    IN FoldLeft(step, [considered |-> 0, stop |-> FALSE, disk |-> disk,
                       copied |-> {}], files)

-----------------------------------------------------------------------------
(* importLegacyTwitchAccounts (Application.cpp)                            *)

\* Every loaded account is written under /accounts/uid<id>, replacing what
\* was there; then the current user is picked and the users reloaded.  The
\* result is the new accounts (id to username), token origins and current
\* user.
ImportLegacyTwitchAccounts(accs, legacyCurrent, accounts, tokens, current) ==
    LET loaded == LoadLegacyTwitchAccounts(accs)
        ids == {loaded[i].uid : i \in 1..Len(loaded)}
        at(u) == CHOOSE i \in 1..Len(loaded) : loaded[i].uid = u
        names == [i \in 1..Len(loaded) |-> loaded[i].name]
        pick == PickImportedCurrentUsername(legacyCurrent, names, current)
    IN [accounts |-> [u \in Uids |-> IF u \in ids THEN loaded[at(u)].name
                                     ELSE accounts[u]],
        tokens |-> [u \in Uids |-> IF u \in ids THEN "legacy" ELSE tokens[u]],
        current |-> IF loaded # <<>> /\ pick # NoName THEN pick ELSE current,
        count |-> Len(loaded)]

=============================================================================
