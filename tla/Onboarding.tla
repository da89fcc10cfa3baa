---------------------------- MODULE Onboarding ----------------------------
(***************************************************************************)
(* The first-run onboarding scheduler (src/Application.cpp:                *)
(* showOpenEmoteOnboardingIfNeeded and Application::run).                  *)
(*                                                                         *)
(* Application::run shows the main window and asks for the onboarding      *)
(* dialog.  The request claims a process-wide atomic "scheduled" flag and  *)
(* arms a 100 ms single-shot timer.  When the timer fires the dialog is    *)
(* opened on the main window, unless the window is missing or hidden, or   *)
(* another modal dialog is up or the window is minimized: then the flag is *)
(* released and the request is repeated by a retry timer, at most a fixed  *)
(* number of times counted on one atomic counter shared by both kinds of   *)
(* wait.  The dialog runs a nested event loop; when it closes the settings *)
(* record that the current revision was shown.                             *)
(*                                                                         *)
(* When the dialog is accepted the legacy profile found when the timer     *)
(* fired may be imported (LegacyImport): its JSON files into the settings  *)
(* directory and its Twitch accounts into the settings document, which is *)
(* then saved.  The self-host page may set the image uploader up with a   *)
(* plain bearer.                                                           *)
(*                                                                         *)
(* Application::initialize, before run, may post the ticket of an          *)
(* integration URL to the redeem endpoint; the answer's pack is applied    *)
(* (IntegrationPack) whenever the event loop delivers it, the onboarding   *)
(* dialog's nested loop included.                                          *)
(*                                                                         *)
(* The login dialog (src/widgets/dialogs/LoginDialog.cpp) may be used at *)
(* any time once the window is up: pasted credentials, or those the        *)
(* OpenEmote handoff bridge answers with, log a user in.                   *)
(*                                                                         *)
(* The window, the other dialogs, settings saves and quitting are the      *)
(* environment.  Timer delays are abstracted away: a pending timer fires   *)
(* at some later step.  A settings save writes the whole in-memory         *)
(* document to settings.json (pajlada::Settings, outside src/).            *)
(***************************************************************************)
EXTENDS Naturals, LegacyImport, IntegrationPack

CONSTANTS
    Revision,          \* OPENEMOTE_ONBOARDING_REVISION
    MaxParentRetries,  \* maxParentRetries
    MaxModalRetries,   \* maxModalRetries
    LegacyProfiles,    \* the legacy profiles the machine may hold
    UserNames,         \* for each user id, the usernames it may carry
    Packs,             \* the packs the redeem endpoint may answer with
    SelfHostToken      \* the token typed on the self-host page

ASSUME Revision \in Nat \ {0} /\ MaxParentRetries \in Nat /\ MaxModalRetries \in Nat

Timers == {"none", "first", "retry"}

VARIABLES
    shown,       \* openEmoteOnboardingShown
    revision,    \* openEmoteOnboardingRevision
    skipped,     \* isFramelessEmbed or OPENEMOTE_SKIP_ONBOARDING
    running,     \* Application::run has been called
    scheduled,   \* OPENEMOTE_ONBOARDING_SCHEDULED
    retries,     \* OPENEMOTE_ONBOARDING_PARENT_RETRIES
    timer,       \* the single-shot timer pending, if any
    dialogOpen,  \* the onboarding dialog's exec() is running
    visible,     \* the main window exists and is visible
    obstructed,  \* another modal widget is active or the window is minimized
    quitting,    \* ABOUT_TO_QUIT or closingDown()
    modalWaits,  \* history: waits in the modal branch since the last reset
    gaveUp,      \* history: the branch that gave up, or "no"
    legacy,      \* the legacy profile on this machine
    diskFiles,   \* the JSON files of the settings directory, by origin
    accounts,    \* /accounts/uid<id>/username, NoName if absent
    tokens,      \* the origin of /accounts/uid<id>/oauthToken
    current,     \* accounts.twitch.currentUsername
    imported,    \* history: the files the last import reported copied
    redeem,      \* the integration ticket's redeem request
    uploader,    \* the image uploader settings
    keychain     \* Credentials openemote/imageUploaderBearer

schedVars == <<shown, revision, skipped, running, scheduled, retries, timer,
               dialogOpen, visible, obstructed, quitting, modalWaits, gaveUp>>
profileVars == <<legacy, diskFiles, accounts, tokens, current, imported>>
uploadVars == <<redeem, uploader, keychain>>
vars == <<schedVars, profileVars, uploadVars>>

TypeOK ==
    /\ shown \in BOOLEAN
    /\ revision \in 0..Revision
    /\ skipped \in BOOLEAN
    /\ running \in BOOLEAN
    /\ scheduled \in BOOLEAN
    /\ retries \in 0..(MaxParentRetries + MaxModalRetries + 1)
    /\ timer \in Timers
    /\ dialogOpen \in BOOLEAN
    /\ visible \in BOOLEAN
    /\ obstructed \in BOOLEAN
    /\ quitting \in BOOLEAN
    /\ modalWaits \in 0..(MaxModalRetries + 1)
    /\ gaveUp \in {"no", "parent", "modal"}
    /\ legacy \in LegacyProfiles
    /\ diskFiles \in [FileNames -> Origins]
    /\ accounts \in [Uids -> Names \cup {NoName}]
    /\ tokens \in [Uids -> Origins]
    /\ current \in Names \cup {NoName}
    /\ imported \subseteq FileNames
    /\ redeem \in {"unsent", "none", "pending", "applied", "failed"}
    /\ uploader \in Uploader
    /\ keychain \in Tokens \cup {NoToken}

\* The JSON files an earlier run may have left in the settings directory.
EarlierDisks == [FileNames -> {"none", "own"}]

\* The uploader settings an earlier run may have left: none, a bearer typed
\* in plain text, or one an earlier pack moved to the keychain.
EarlierUploaders ==
    {[auth |-> "none", token |-> NoToken, origin |-> "own"]}
    \cup [auth : {"plain", "reference"}, token : Tokens, origin : {"own"}]

\* An account present in the settings, as an earlier run left it.
Present(u) == accounts[u] # NoName

\* The settings are those of an earlier run: none on a first run, or a
\* profile never shown, shown for an older revision or for this one, with
\* the accounts logged in then; some JSON files may already exist.
Init ==
    /\ legacy \in LegacyProfiles
    /\ diskFiles \in EarlierDisks
    /\ shown \in IF diskFiles[SettingsFile] = "own" THEN BOOLEAN ELSE {FALSE}
    /\ revision \in {Revision - 1, Revision}
    /\ accounts \in IF diskFiles[SettingsFile] = "own"
                     THEN {a \in [Uids -> Names \cup {NoName}] :
                              \A u \in Uids : a[u] \in UserNames[u] \cup {NoName}}
                     ELSE {[u \in Uids |-> NoName]}
    /\ tokens = [u \in Uids |-> IF Present(u) THEN "own" ELSE "none"]
    /\ current \in {NoName} \cup {accounts[u] : u \in Uids}
    /\ imported = {}
    /\ redeem = "unsent"
    /\ uploader \in EarlierUploaders
    /\ keychain = IF uploader.auth = "reference" THEN uploader.token ELSE NoToken
    /\ skipped \in BOOLEAN
    /\ running = FALSE
    /\ scheduled = FALSE
    /\ retries = 0
    /\ timer = "none"
    /\ dialogOpen = FALSE
    /\ visible = FALSE
    /\ obstructed \in BOOLEAN
    /\ quitting = FALSE
    /\ modalWaits = 0
    /\ gaveUp = "no"

AlreadyDone == shown /\ revision >= Revision

-----------------------------------------------------------------------------
(* showOpenEmoteOnboardingIfNeeded                                         *)

\* The early returns, then the compare-exchange on the flag and the 100 ms
\* timer; idle is the pending timer when nothing is armed.
ShowIfNeeded(idle) ==
    IF AlreadyDone \/ skipped \/ scheduled
    THEN UNCHANGED scheduled /\ timer' = idle
    ELSE scheduled' = TRUE /\ timer' = "first"

\* Application::run: the main window is shown, then onboarding requested.
Run ==
    /\ ~running /\ redeem # "unsent"
    /\ running' = TRUE
    /\ visible' = TRUE
    /\ ShowIfNeeded(timer)
    /\ UNCHANGED <<shown, revision, skipped, retries, dialogOpen, obstructed,
                   quitting, modalWaits, gaveUp, profileVars, uploadVars>>

\* The retry timer fires and calls showOpenEmoteOnboardingIfNeeded again.
RetryFires ==
    /\ timer = "retry"
    /\ ShowIfNeeded("none")
    /\ UNCHANGED <<shown, revision, skipped, running, retries, dialogOpen,
                   visible, obstructed, quitting, modalWaits, gaveUp,
                   profileVars, uploadVars>>

\* Faulty variant: scheduleRetry arms the timer without releasing the flag.
ScheduleRetryKeepingFlag == timer' = "retry" /\ UNCHANGED scheduled

\* scheduleRetry: release the flag, arm the retry timer.
ScheduleRetry == scheduled' = FALSE /\ timer' = "retry"

\* Faulty variant: the retry limit is not checked.
WaitNoLimit(limit, branch) ==
    retries' = retries + 1 /\ ScheduleRetry /\ UNCHANGED gaveUp

\* One wait of a branch: count it on the shared counter, retry while the
\* branch's own limit allows, else release the flag and stop.
Wait(limit, branch) ==
    /\ retries' = retries + 1
    /\ IF retries + 1 <= limit
       THEN ScheduleRetry /\ UNCHANGED gaveUp
       ELSE scheduled' = FALSE /\ timer' = "none" /\ gaveUp' = branch

\* Faulty variant: the dialog opens over another modal dialog.
FirstFiresIgnoringModal ==
    /\ timer = "first"
    /\ \/ /\ quitting \/ AlreadyDone
          /\ scheduled' = FALSE /\ timer' = "none"
          /\ UNCHANGED <<retries, dialogOpen, modalWaits, gaveUp>>
       \/ /\ ~quitting /\ ~AlreadyDone /\ ~visible
          /\ Wait(MaxParentRetries, "parent")
          /\ UNCHANGED <<dialogOpen, modalWaits>>
       \/ /\ ~quitting /\ ~AlreadyDone /\ visible
          /\ retries' = 0 /\ modalWaits' = 0
          /\ dialogOpen' = TRUE /\ timer' = "none"
          /\ UNCHANGED <<scheduled, gaveUp>>
    /\ UNCHANGED <<shown, revision, skipped, running, visible, obstructed,
                   quitting, profileVars, uploadVars>>

\* The 100 ms timer's lambda, up to dialog.exec().
FirstFires ==
    /\ timer = "first"
    /\ \/ /\ quitting \/ AlreadyDone
          /\ scheduled' = FALSE /\ timer' = "none"
          /\ UNCHANGED <<retries, dialogOpen, modalWaits, gaveUp>>
       \/ /\ ~quitting /\ ~AlreadyDone /\ ~visible
          /\ Wait(MaxParentRetries, "parent")
          /\ UNCHANGED <<dialogOpen, modalWaits>>
       \/ /\ ~quitting /\ ~AlreadyDone /\ visible /\ obstructed
          /\ Wait(MaxModalRetries, "modal")
          /\ modalWaits' = modalWaits + 1
          /\ UNCHANGED dialogOpen
       \/ /\ ~quitting /\ ~AlreadyDone /\ visible /\ ~obstructed
          /\ retries' = 0 /\ modalWaits' = 0
          /\ dialogOpen' = TRUE /\ timer' = "none"
          /\ UNCHANGED <<scheduled, gaveUp>>
    /\ UNCHANGED <<shown, revision, skipped, running, visible, obstructed,
                   quitting, profileVars, uploadVars>>

\* The Twitch accounts the profile's settings.json holds once loaded, as
\* counted for the import page when the timer fired.
LegacyAccountCount == Len(LoadLegacyTwitchAccounts(legacy.accounts))

\* The self-host page, with streamer mode on and a valid https base URL
\* (else a warning and nothing written): the uploader posts to the
\* self-host endpoints with the OpenEmote headers, joined with newlines,
\* and "Authorization: Bearer <token>" first if a token was typed.
SelfHostUploader(withToken) ==
    [auth |-> IF withToken THEN "plain" ELSE "none",
     token |-> IF withToken THEN SelfHostToken ELSE NoToken,
     origin |-> "selfHost"]

\* The profile's files copied into the settings directory (some copies may
\* fail), if that was asked for.
ImportFiles(doFiles) ==
    IF doFiles
    THEN \E fails \in SUBSET FileNames :
            LET files == ImportLegacySettingsFiles(legacy.files, diskFiles, fails)
            IN diskFiles' = files.disk /\ imported' = files.copied
    ELSE UNCHANGED diskFiles /\ imported' = {}

\* The profile's Twitch accounts imported, if that was asked for.
ImportAccounts(doAccounts) ==
    LET accs == ImportLegacyTwitchAccounts(legacy.accounts, legacy.current,
                                           accounts, tokens, current)
    IN IF doAccounts
       THEN accounts' = accs.accounts /\ tokens' = accs.tokens /\ current' = accs.current
       ELSE UNCHANGED <<accounts, tokens, current>>

\* exec() returns, rejected or accepted.  If it was accepted: the layout
\* and feature settings are written to the document (not distinguished
\* here), the self-host page's uploader, then, as checked on the import
\* page, the profile's files and accounts are imported.  Accepted or not,
\* the revision is recorded, a save requested and the flag released.
DialogCloses ==
    /\ dialogOpen
    /\ \/ /\ ImportFiles(FALSE) /\ ImportAccounts(FALSE)
          /\ UNCHANGED uploader
       \/ \E importSettings \in IF legacy.found THEN BOOLEAN ELSE {FALSE},
            importLogin \in IF LegacyAccountCount > 0 THEN BOOLEAN ELSE {FALSE},
            selfHost \in {"none", "token", "noToken"} :
            /\ ImportFiles(importSettings)
            /\ ImportAccounts(importLogin /\ legacy.found)
            /\ uploader' = IF selfHost # "none"
                           THEN SelfHostUploader(selfHost = "token")
                           ELSE uploader
    /\ dialogOpen' = FALSE
    /\ shown' = TRUE /\ revision' = Revision
    /\ scheduled' = FALSE
    /\ UNCHANGED <<skipped, running, retries, timer, visible, obstructed,
                   quitting, modalWaits, gaveUp, legacy, redeem, keychain>>

-----------------------------------------------------------------------------
(* The integration ticket (applyOpenEmoteIntegrationFromArgs)              *)

\* Application::initialize, before run: without an integration URL, or
\* with one whose ticket query item is blank, nothing is sent; else the
\* ticket is posted to the redeem endpoint.
RequestRedeem ==
    /\ redeem = "unsent"
    /\ redeem' \in {"none", "pending"}
    /\ UNCHANGED <<schedVars, profileVars, uploader, keychain>>

\* The answer reaches the event loop: on success its pack (the "pack"
\* member, or the whole answer) is applied; on error only a warning.
RedeemAnswered ==
    /\ running /\ redeem = "pending"
    /\ \/ \E p \in Packs :
            LET r == ApplyIntegrationPack(p, uploader, keychain) IN
            /\ redeem' = IF r.ok THEN "applied" ELSE "failed"
            /\ uploader' = r.uploader
            /\ keychain' = r.keychain
       \/ redeem' = "failed" /\ UNCHANGED <<uploader, keychain>>
    /\ UNCHANGED <<schedVars, profileVars>>

-----------------------------------------------------------------------------
(* The login dialog                                                        *)

\* logInWithCredentials: with a blank field, an error box and nothing
\* written; else the account written under /accounts/uid<id> (its token
\* the user's own), the users reloaded, the user made current and a save
\* requested.
LogInWithCredentials(u, name, complete) ==
    IF complete
    THEN /\ accounts' = [accounts EXCEPT ![u] = name]
         /\ tokens' = [tokens EXCEPT ![u] = "own"]
         /\ current' = name
    ELSE UNCHANGED <<accounts, tokens, current>>

\* "Paste login info": the clipboard's key=value pairs, cleared first.
PasteLogin ==
    /\ running
    /\ \E u \in Uids : \E name \in UserNames[u], complete \in BOOLEAN :
          LogInWithCredentials(u, name, complete)
    /\ UNCHANGED <<schedVars, legacy, diskFiles, imported, uploadVars>>

\* The advanced tab's "Add user": the button is enabled only while all
\* four fields hold text (refreshButtons).
AddUser ==
    /\ running
    /\ \E u \in Uids : \E name \in UserNames[u] : LogInWithCredentials(u, name, TRUE)
    /\ UNCHANGED <<schedVars, legacy, diskFiles, imported, uploadVars>>

\* What the bridge's JSON answer holds, as extractCredentialsFromJson sees
\* it: a "credentials" and a "data" member (absent, not an object, or an
\* object with or without all four credentials), and the root's own
\* fields.  An object is complete when tryReadCredentialField finds a
\* non-blank string under one of the aliases of each field.
HandoffPayloads ==
    [credentials : {"absent", "notObject", "incomplete", "complete"},
     data : {"absent", "notObject", "incomplete", "complete"},
     root : {"incomplete", "complete"}]

\* extractCredentialsFromJson: the fields are read from "credentials" if it
\* is an object, else from "data" if it is one, else from the root.
ExtractCredentials(p) ==
    LET IsObject(v) == v \in {"incomplete", "complete"}
        payload == IF IsObject(p.credentials) THEN p.credentials
                   ELSE IF IsObject(p.data) THEN p.data ELSE p.root
    IN payload = "complete"

\* "Connect from OpenEmote" and the bridge's answer: with no bridge URL
\* configured (environment or setting, which a pack may write) a warning;
\* else the button is disabled until the answer: a warning on error, an
\* information box when the credentials are incomplete, else the login.
\* Nothing in this model reads the button's state, so the request and its
\* answer are one step.
Handoff ==
    /\ running
    /\ \/ \E found \in {ExtractCredentials(p) : p \in HandoffPayloads} :
            IF found
            THEN \E u \in Uids : \E name \in UserNames[u] :
                    LogInWithCredentials(u, name, TRUE)
            ELSE UNCHANGED <<accounts, tokens, current>>
       \/ UNCHANGED <<accounts, tokens, current>>
    /\ UNCHANGED <<schedVars, legacy, diskFiles, imported, uploadVars>>

-----------------------------------------------------------------------------
(* The environment                                                         *)

\* The main window is hidden or shown again (tray, other screens).
ToggleVisible ==
    /\ running
    /\ visible' = ~visible
    /\ UNCHANGED <<shown, revision, skipped, running, scheduled, retries,
                   timer, dialogOpen, obstructed, quitting, modalWaits, gaveUp,
                   profileVars, uploadVars>>

\* A settings or login dialog opens or closes, or the window is minimized
\* or restored.
ToggleObstructed ==
    /\ obstructed' = ~obstructed
    /\ UNCHANGED <<shown, revision, skipped, running, scheduled, retries,
                   timer, dialogOpen, visible, quitting, modalWaits, gaveUp,
                   profileVars, uploadVars>>

\* A settings save (the one the dialog requests, or any other) writes the
\* in-memory document, the profile's own, over settings.json.
SaveSettings ==
    /\ diskFiles' = [diskFiles EXCEPT ![SettingsFile] = "own"]
    /\ UNCHANGED <<schedVars, legacy, accounts, tokens, current, imported,
                   uploadVars>>

Quit ==
    /\ running /\ ~quitting
    /\ quitting' = TRUE
    /\ UNCHANGED <<shown, revision, skipped, running, scheduled, retries,
                   timer, dialogOpen, visible, obstructed, modalWaits, gaveUp,
                   profileVars, uploadVars>>

Next ==
    \/ Run
    \/ RetryFires
    \/ FirstFires
    \/ DialogCloses
    \/ SaveSettings
    \/ RequestRedeem
    \/ RedeemAnswered
    \/ PasteLogin
    \/ AddUser
    \/ Handoff
    \/ ToggleVisible
    \/ ToggleObstructed
    \/ Quit

\* Qt fires a pending single-shot timer once the event loop runs, and the
\* loop runs, nested in exec() included; the user and the window manager
\* owe nothing.
Spec == Init /\ [][Next]_vars /\ WF_vars(FirstFires) /\ WF_vars(RetryFires)

-----------------------------------------------------------------------------
(* Properties                                                              *)

\* The scheduled flag is never left set with nothing pending: while no
\* onboarding dialog is open, a claimed flag is eventually released (or the
\* dialog opens), so a later request is never shut out for the rest of the
\* process by a retry that kept the flag.
ScheduleNeverStuck ==
    (scheduled /\ ~dialogOpen) ~> (~scheduled \/ dialogOpen)

\* "Avoid stacking startup dialogs": while another dialog is up the
\* scheduler waits up to maxModalRetries times for it before giving up.
ModalWaitHonoured ==
    gaveUp = "modal" => modalWaits > MaxModalRetries

\* The current user of the account controller names an account of the
\* settings: after a legacy import the user picked is one that was
\* imported, or the one already current is kept.  Not checked by a run:
\* with one username per user id it holds; with two it fails when the
\* import writes an older name over the account the current user
\* (logged in under the newer one) points to (see README.md).
CurrentUserHasAccount ==
    current # NoName => \E u \in Uids : accounts[u] = current

\* "Import existing Chatterino settings into OpenEmote profile": a settings
\* file the import reported copied stays the legacy one in the settings
\* directory.
ImportedSettingsKept ==
    SettingsFile \in imported => diskFiles[SettingsFile] = "legacy"

\* persistAuthorizationSecret's promise: an Authorization header that
\* refers to the keychain is backed there by the bearer it was written for,
\* and once a redeemed pack is applied its bearer is no longer in the
\* settings in plain text, whatever the uploader held before, the order of
\* the import and the keychain write, and the onboarding around it.
UploaderBearerInKeychain ==
    /\ uploader.auth = "reference" => keychain = uploader.token
    /\ redeem = "applied" /\ uploader.origin = "pack" => uploader.auth # "plain"

\* The scheduler as its promise: the timer armed by a request is the
\* outstanding offer, the dialog in exec() the open one, the settings'
\* shown flag at the current revision onboarding done.
Offer == INSTANCE OnboardingOffer
             WITH offer <- IF dialogOpen THEN "open"
                           ELSE IF timer # "none" THEN "pending" ELSE "idle",
                  done <- AlreadyDone

\* showOpenEmoteOnboardingIfNeeded implements OnboardingOffer: through
\* every interleaving of its two timers, the retries, the claim flag, the
\* window and other dialogs, quitting and the accept handler, the dialog
\* opens only on an outstanding request, over a visible window with no
\* other modal dialog, before quitting and while not done, and once
\* accepted is never offered again.
OffersOnboarding == Offer!Spec

=============================================================================
