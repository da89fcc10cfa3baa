--------------------------- MODULE CrashRecovery ---------------------------
(***************************************************************************)
(* Crash recovery preferences across process runs                          *)
(* (src/singletons/CrashHandler.cpp, src/widgets/dialogs/                  *)
(* LastRunCrashDialog.cpp).                                                *)
(*                                                                         *)
(* Two preferences, "restart after a crash" and "always upload crash       *)
(* reports", live in a JSON recovery file.  A CrashHandler object keeps a  *)
(* copy of both and rewrites the whole file from that copy on every save;  *)
(* the last-run crash dialog saves the upload preference through a static  *)
(* function that reads the file instead.  At start-up installCrashHandler  *)
(* reads the file to configure crashpad (upload on or off, restart on or   *)
(* off for this process), and in developer mode the object's upload flag   *)
(* is forced on in memory.                                                 *)
(*                                                                         *)
(* The process goes down (crash or exit) and starts again any number of    *)
(* times; a crash can interrupt a write between truncate and write.        *)
(***************************************************************************)
EXTENDS Naturals

CONSTANTS
    NoFile,      \* the recovery file does not exist
    Corrupt,     \* the recovery file is empty or not a JSON object
    Builds,      \* subset of {"debug", "release"}: binaries the user runs
    DevEnvs,     \* values of OPENEMOTE_DEV_CRASH_REPORTS: "unset", "0", "1"
    TornWrites,  \* whether a crash can interrupt writeRecoverySettings
    ApplyFails   \* whether applyCrashUploadPreference can fail (the crashpad
                 \* database cannot be opened or its settings not written)

Settings == [recover : BOOLEAN, upload : BOOLEAN]

Defaults == [recover |-> FALSE, upload |-> FALSE]

\* The environment a process runs in: build type, dev variable, and whether
\* OPENEMOTE_CRASH_UPLOAD_URL is set to a non-blank value.
RunEnvs == [build : Builds, dev : DevEnvs, override : BOOLEAN]

Phases == {"down", "installed", "running"}

\* The URL the crashpad handler is started with: none (no web upload), the
\* default https://openemote.com/crash, or OPENEMOTE_CRASH_UPLOAD_URL.
UploadUrls == {"none", "default", "override"}

VARIABLES
    file,            \* the recovery file
    member,          \* shouldRecover_ / shouldUploadCrashReports_
    phase,           \* down; crashpad installed; CrashHandler constructed
    run,             \* the environment of the current process
    crashpadUploads, \* crashpad database: uploads enabled
    uploadUrl,       \* the upload URL of the running crashpad handler
    pending,         \* the crashpad database holds reports not yet uploaded
    canRestart,      \* crashpad annotation of this process: restart on crash
    dialogOpen,      \* this process was restarted and shows the crash dialog
    restartPending,  \* the crashpad handler will restart the process
    recoverExpected  \* history: the user's restart choice (default off)

handlerVars == <<crashpadUploads, uploadUrl>>

vars == <<file, member, phase, run, crashpadUploads, uploadUrl, pending,
          canRestart, dialogOpen, restartPending, recoverExpected>>

TypeOK ==
    /\ file \in Settings \cup {NoFile, Corrupt}
    /\ member \in Settings
    /\ phase \in Phases
    /\ run \in RunEnvs
    /\ crashpadUploads \in BOOLEAN
    /\ uploadUrl \in UploadUrls
    /\ pending \in BOOLEAN
    /\ canRestart \in BOOLEAN
    /\ dialogOpen \in BOOLEAN
    /\ restartPending \in BOOLEAN
    /\ recoverExpected \in BOOLEAN

Init ==
    /\ file = NoFile
    /\ member = Defaults
    /\ phase = "down"
    /\ run \in RunEnvs
    /\ crashpadUploads = FALSE
    /\ uploadUrl = "none"
    /\ pending = FALSE
    /\ canRestart = FALSE
    /\ dialogOpen = FALSE
    /\ restartPending = FALSE
    /\ recoverExpected = FALSE

-----------------------------------------------------------------------------
(* Pure helpers                                                            *)

\* readRecoverySettings: nullopt unless the file is an object with a bool
\* shouldRecover.
ReadRecoverySettings(f) == IF f \in Settings THEN f ELSE NoFile

\* isCrashUploadForcedInDevMode: debug builds unless the variable is "0";
\* release builds only when it is 1.
IsDevForced(r) ==
    IF r.build = "debug" THEN r.dev # "0" ELSE r.dev = "1"

\* The upload notice of the crash dialog: in developer mode, uploaded to
\* the override URL or kept local; else kept local unless the user sends.
UploadNotice(r) ==
    CASE IsDevForced(r) /\ r.override -> "devOverride"
      [] IsDevForced(r) -> "devLocal"
      [] OTHER -> "localUnlessSent"

\* loadShouldUploadCrashReports
LoadShouldUpload(f) == ReadRecoverySettings(f) # NoFile /\ f.upload

\* shouldUploadCrashReportsAtRuntime
ShouldUploadAtRuntime(r, persisted) ==
    IF IsDevForced(r) THEN r.override ELSE persisted

\* Faulty variant: the URL is chosen without looking at developer mode.
CrashUploadUrlIgnoringDevMode(r) ==
    IF r.override THEN "override" ELSE "default"

\* crashUploadUrlForRuntime: no URL in developer mode without an override;
\* else crashUploadUrl, the override if the variable is set, the default
\* otherwise.
CrashUploadUrlForRuntime(r) ==
    IF IsDevForced(r) /\ ~r.override THEN "none"
    ELSE IF r.override THEN "override" ELSE "default"

\* applyCrashUploadPreference: the crashpad database's upload flag after
\* SetUploadsEnabled(enabled); if the database cannot be opened or written
\* the flag keeps the value an earlier process left.
ApplyCrashUploadPreference(enabled) ==
    {enabled} \cup (IF ApplyFails THEN {crashpadUploads} ELSE {})

\* canRestart: release builds only, and only with a valid file saying so.
CanRestart(r, f) ==
    r.build = "release" /\ ReadRecoverySettings(f) # NoFile /\ f.recover

\* The process dies: crashpad restarts it when this process's annotation
\* said so.
GoDown ==
    /\ phase' = "down"
    /\ restartPending' = canRestart
    /\ dialogOpen' = FALSE
    /\ pending' = TRUE

\* writeRecoverySettings(s): the file is truncated, then written.  With torn
\* writes a crash between the two leaves an empty file; the user's choices
\* are then lost and the defaults become what the file should hold.
Write(s, expected) ==
    \/ /\ file' = s
       /\ UNCHANGED pending
       /\ expected
    \/ /\ TornWrites
       /\ file' = Corrupt
       /\ GoDown
       /\ recoverExpected' = FALSE

-----------------------------------------------------------------------------
(* Process start                                                           *)

\* installCrashHandler: read the persisted preference, configure uploads in
\* the crashpad database, annotate whether to restart on a crash and start
\* the handler with the runtime upload URL.
Install(r) ==
    /\ run' = r
    /\ crashpadUploads' \in
           ApplyCrashUploadPreference(ShouldUploadAtRuntime(r, LoadShouldUpload(file)))
    /\ uploadUrl' = CrashUploadUrlForRuntime(r)
    /\ canRestart' = CanRestart(r, file)
    /\ phase' = "installed"

\* A start by the user: no crash dialog.
StartProcess ==
    /\ phase = "down" /\ ~restartPending
    /\ \E r \in RunEnvs : Install(r)
    /\ dialogOpen' = FALSE
    /\ UNCHANGED <<file, member, restartPending, pending, recoverExpected>>

\* The crashpad handler restarts the process with the same environment and
\* --crash-recovery: the last-run crash dialog is shown.
Restart ==
    /\ phase = "down" /\ restartPending
    /\ Install(run)
    /\ dialogOpen' = TRUE
    /\ restartPending' = FALSE
    /\ UNCHANGED <<file, member, pending, recoverExpected>>

\* Faulty variant: *optSettings is used without checking it holds a value.
ConstructHandlerUnchecked ==
    /\ phase = "installed"
    /\ member' = ReadRecoverySettings(file)
    /\ phase' = "running"
    /\ UNCHANGED <<file, restartPending, dialogOpen, recoverExpected,
                   run, handlerVars, pending, canRestart>>

\* CrashHandler::CrashHandler: load both flags from the file, or save the
\* defaults through saveShouldRecover(false) and
\* saveShouldUploadCrashReports(false); then force uploads on in memory in
\* developer mode.
ConstructHandler ==
    /\ phase = "installed"
    /\ LET loaded == ReadRecoverySettings(file)
           forced(s) == IF IsDevForced(run) THEN [s EXCEPT !.upload = TRUE]
                        ELSE s
       IN IF loaded # NoFile
          THEN /\ member' = forced(loaded)
               /\ phase' = "running"
               /\ UNCHANGED <<file, restartPending, dialogOpen, pending,
                              recoverExpected>>
          ELSE /\ member' = forced(Defaults)
               /\ Write(Defaults, /\ phase' = "running"
                                  /\ UNCHANGED <<restartPending, dialogOpen,
                                                 recoverExpected>>)
    /\ UNCHANGED <<run, handlerVars, canRestart>>

-----------------------------------------------------------------------------
(* Saves                                                                   *)

\* CrashHandler::saveShouldRecover: the whole file from the members.
SaveShouldRecover(v) ==
    /\ phase = "running"
    /\ member' = [member EXCEPT !.recover = v]
    /\ Write([member EXCEPT !.recover = v],
             /\ recoverExpected' = v
             /\ UNCHANGED <<phase, restartPending, dialogOpen>>)
    /\ UNCHANGED <<run, handlerVars, canRestart>>

\* CrashHandler::saveShouldUploadCrashReports(bool): the same, for uploads.
SaveShouldUploadCrashReports(v) ==
    /\ phase = "running"
    /\ member' = [member EXCEPT !.upload = v]
    /\ Write([member EXCEPT !.upload = v],
             UNCHANGED <<phase, restartPending, dialogOpen, recoverExpected>>)
    /\ UNCHANGED <<run, handlerVars, canRestart>>

\* Faulty variant: the static save starts from the defaults instead of the file.
StaticSaveFromDefaults(f, enabled) == [Defaults EXCEPT !.upload = enabled]

\* CrashHandler::saveShouldUploadCrashReports(paths, enabled): the file's
\* settings (or the defaults) with the upload flag replaced.
StaticSave(f, enabled) ==
    IF ReadRecoverySettings(f) # NoFile THEN [f EXCEPT !.upload = enabled]
    ELSE [Defaults EXCEPT !.upload = enabled]

\* "Send crash report": enable uploads in crashpad for this session (a
\* failure only shows a warning), then persist the "always send" checkbox
\* through the static save.  The button exists only outside developer mode.
DialogSend(keep) ==
    /\ dialogOpen /\ phase # "down"
    /\ ~IsDevForced(run)
    /\ crashpadUploads' \in ApplyCrashUploadPreference(TRUE)
    /\ Write(StaticSave(file, keep),
             /\ dialogOpen' = FALSE
             /\ UNCHANGED <<phase, restartPending, recoverExpected>>)
    /\ UNCHANGED <<member, run, uploadUrl, canRestart>>

\* "Ok": the dialog closes and nothing is saved.
DialogOk ==
    /\ dialogOpen /\ phase # "down"
    /\ dialogOpen' = FALSE
    /\ UNCHANGED <<file, member, phase, run, handlerVars, pending, canRestart,
                   restartPending, recoverExpected>>

-----------------------------------------------------------------------------
(* The process goes down                                                   *)

Crash ==
    /\ phase # "down"
    /\ GoDown
    /\ UNCHANGED <<file, member, run, handlerVars, canRestart,
                   recoverExpected>>

\* A normal exit (Application::stop resets the handler; nothing is saved).
Exit ==
    /\ phase = "running"
    /\ phase' = "down"
    /\ restartPending' = FALSE
    /\ dialogOpen' = FALSE
    /\ UNCHANGED <<file, member, run, handlerVars, pending, canRestart,
                   recoverExpected>>

\* The crashpad handler of the running process uploads the reports its
\* database holds, if uploads are enabled there and it has an upload URL.
Upload ==
    /\ phase # "down"
    /\ pending /\ crashpadUploads /\ uploadUrl # "none"
    /\ pending' = FALSE
    /\ UNCHANGED <<file, member, phase, run, handlerVars, canRestart,
                   dialogOpen, restartPending, recoverExpected>>

Next ==
    \/ StartProcess
    \/ Restart
    \/ ConstructHandler
    \/ \E v \in BOOLEAN : SaveShouldRecover(v) \/ SaveShouldUploadCrashReports(v)
    \/ \E keep \in BOOLEAN : DialogSend(keep)
    \/ DialogOk
    \/ Upload
    \/ Crash
    \/ Exit

Spec == Init /\ [][Next]_vars

-----------------------------------------------------------------------------
(* Properties                                                              *)

\* The restart-after-crash preference on disk is the user's last choice (or
\* the default after the file was lost), whatever mix of member saves, the
\* dialog's static save, restarts and crashes came in between.
RecoverChoicePersisted ==
    file \in Settings => file.recover = recoverExpected

\* A step of the crashpad handler that uploads the database's reports.
Uploads == pending /\ ~pending'

\* "Developer mode is enabled: crash reports stay local by default (no web
\* upload)": the handler of a developer-mode process without an override
\* URL never uploads, even when the crashpad database still has uploads on
\* from an earlier process and SetUploadsEnabled(false) failed.
DevModeStaysLocal == [][Uploads => UploadNotice(run) # "devLocal"]_vars

=============================================================================
