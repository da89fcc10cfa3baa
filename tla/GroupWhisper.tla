--------------------------- MODULE GroupWhisper ---------------------------
(***************************************************************************)
(* Secure group whispers: the /gw command (src/controllers/commands/       *)
(* builtin/twitch/SendWhisper.cpp, sendGroupWhisper and                    *)
(* sendOneGroupWhisper) and the envelope and thread helpers of             *)
(* src/util/OpenEmoteSecureGroupWhisper.hpp.                               *)
(*                                                                         *)
(* Group definitions (anchor channel and members) live in a settings       *)
(* string that every command loads and saves whole; each group's secret    *)
(* lives in the credential store.  "/gw send" captures the definition and *)
(* the sender's name, then reads the secret asynchronously; the callback   *)
(* encodes one envelope, whispers it to every member but the sender        *)
(* (each whisper going out from the account that is current when it is    *)
(* sent) and echoes the plaintext into the group's local thread.           *)
(*                                                                         *)
(* Names, secrets and texts are model values; a name that fails            *)
(* normalizeGroupName is BadName, an empty secret NoSecret.  The           *)
(* credential store (outside src/) applies writes in call order and a read *)
(* returns what it holds when the read completes.  Helix lookups and sends *)
(* succeed.  Messages of a local thread are not evicted.                   *)
(***************************************************************************)
EXTENDS Naturals, FiniteSets

CONSTANTS
    Groups,      \* valid, normalized group names
    BadName,     \* a group argument normalizeGroupName rejects
    Users,       \* normalized Twitch logins
    Anon,        \* the anonymous account
    Secrets,     \* non-empty secrets
    NoSecret,    \* an empty secret or a missing credential
    TwitchChans, \* Twitch channels (normalized names)
    OtherChan,   \* a channel that is not a Twitch channel
    NoAnchor,    \* a definition without an anchor channel
    MaxSends     \* bound on /gw send commands

Chans == TwitchChans \cup {OtherChan}

Def == [exists : BOOLEAN, channel : TwitchChans \cup {NoAnchor},
        members : SUBSET Users]

None == [exists |-> FALSE, channel |-> NoAnchor, members |-> {}]

Envelope == [group : Groups, channel : TwitchChans, text : 1..MaxSends,
             key : Secrets]

Pending == [id : 1..MaxSends, group : Groups, anchor : TwitchChans,
            members : SUBSET Users, sender : Users, feedback : Chans]

VARIABLES
    enabled,   \* openEmoteEnableSecureGroupWhispers
    account,   \* the current Twitch account
    defs,      \* openEmoteSecureGroupDefinitions, parsed (None: absent)
    keychain,  \* the credential "groupwhisper/<group>" of each group
    pending,   \* /gw send commands whose secret read has not completed
    nsends,    \* /gw send commands issued (the id of the text)
    whispers,  \* the whispers sent: sender, recipient, envelope
    local,     \* the thread messages echoed locally
    threads,   \* threadState(): (channel, group) -> thread number, 0 none
    nthreads,  \* thread roots created
    notice     \* the last system message posted

vars == <<enabled, account, defs, keychain, pending, nsends, whispers, local,
          threads, nthreads, notice>>

Notices == {"none", "disabled", "usage", "anon", "list", "invalid",
            "emptySecret", "created", "unknown", "keyUpdated", "member",
            "deleted", "noAnchor", "missingKey"}

TypeOK ==
    /\ enabled \in BOOLEAN
    /\ account \in Users \cup {Anon}
    /\ defs \in [Groups -> Def]
    /\ keychain \in [Groups -> Secrets \cup {NoSecret}]
    /\ pending \subseteq Pending
    /\ nsends \in 0..MaxSends
    /\ whispers \subseteq [from : Users, to : Users, env : Envelope]
    /\ local \subseteq [chan : Chans, group : Groups, thread : Nat,
                        sender : Users, text : 1..MaxSends]
    /\ threads \in [Chans \X Groups -> Nat]
    /\ nthreads \in Nat
    /\ notice \in Notices

Init ==
    /\ enabled = TRUE
    /\ account \in Users
    /\ defs = [g \in Groups |-> None]
    /\ keychain = [g \in Groups |-> NoSecret]
    /\ pending = {}
    /\ nsends = 0
    /\ whispers = {}
    /\ local = {}
    /\ threads = [k \in Chans \X Groups |-> 0]
    /\ nthreads = 0
    /\ notice = "none"

Exists(g) == g \in Groups /\ defs[g].exists

-----------------------------------------------------------------------------
(* The command                                                             *)

\* The early returns of sendGroupWhisper before it dispatches on the
\* action: the feature off, too few words, an anonymous account.
Refused ==
    \/ ~enabled /\ notice' = "disabled"
    \/ enabled /\ notice' = "usage"
    \/ enabled /\ account = Anon /\ notice' = "anon"

Ready == enabled /\ account # Anon

OnlyNotice == UNCHANGED <<enabled, account, defs, keychain, pending, nsends,
                          whispers, local, threads, nthreads>>

CommandRefused == Refused /\ OnlyNotice

\* /gw list: one line per group, or "No secure groups configured."
List == Ready /\ notice' = "list" /\ OnlyNotice

\* /gw create <group> <members_csv> <secret>: the anchor is the channel the
\* command runs in when it is a Twitch channel; the user is a member.
Create(ctx, g, ms, s) ==
    /\ Ready
    /\ \/ g = BadName /\ notice' = "invalid" /\ OnlyNotice
       \/ /\ g # BadName /\ s = NoSecret
          /\ notice' = "emptySecret" /\ OnlyNotice
       \/ /\ g # BadName /\ s # NoSecret
          /\ keychain' = [keychain EXCEPT ![g] = s]
          /\ defs' = [defs EXCEPT ![g] =
                        [exists |-> TRUE,
                         channel |-> IF ctx \in TwitchChans THEN ctx
                                     ELSE NoAnchor,
                         members |-> ms \cup {account}]]
          /\ notice' = "created"
          /\ UNCHANGED <<enabled, account, pending, nsends, whispers, local,
                         threads, nthreads>>

\* /gw key <group> <secret>
Key(g, s) ==
    /\ Ready
    /\ \/ ~Exists(g) /\ notice' = "unknown" /\ OnlyNotice
       \/ Exists(g) /\ s = NoSecret /\ notice' = "emptySecret" /\ OnlyNotice
       \/ /\ Exists(g) /\ s # NoSecret
          /\ keychain' = [keychain EXCEPT ![g] = s]
          /\ notice' = "keyUpdated"
          /\ UNCHANGED <<enabled, account, defs, pending, nsends, whispers,
                         local, threads, nthreads>>

\* /gw add and /gw remove <group> <member>
ChangeMember(g, u, add) ==
    /\ Ready
    /\ \/ ~Exists(g) /\ notice' = "unknown" /\ OnlyNotice
       \/ /\ Exists(g)
          /\ defs' = [defs EXCEPT ![g].members =
                        IF add THEN @ \cup {u} ELSE @ \ {u}]
          /\ notice' = "member"
          /\ UNCHANGED <<enabled, account, keychain, pending, nsends,
                         whispers, local, threads, nthreads>>

\* /gw delete <group>: the definition, then the credential.
Delete(g) ==
    /\ Ready
    /\ \/ ~Exists(g) /\ notice' = "unknown" /\ OnlyNotice
       \/ /\ Exists(g)
          /\ defs' = [defs EXCEPT ![g] = None]
          /\ keychain' = [keychain EXCEPT ![g] = NoSecret]
          /\ notice' = "deleted"
          /\ UNCHANGED <<enabled, account, pending, nsends, whispers, local,
                         threads, nthreads>>

\* /gw send <group> <message>: a group without an anchor takes the current
\* Twitch channel as its anchor (saved); the secret is then read
\* asynchronously with the definition and sender captured.
Send(ctx, g) ==
    /\ Ready
    /\ nsends < MaxSends
    /\ \/ ~Exists(g) /\ notice' = "unknown" /\ OnlyNotice
       \/ /\ Exists(g)
          /\ defs[g].channel = NoAnchor /\ ctx \notin TwitchChans
          /\ notice' = "noAnchor" /\ OnlyNotice
       \/ /\ Exists(g)
          /\ defs[g].channel # NoAnchor \/ ctx \in TwitchChans
          /\ LET anchor == IF defs[g].channel # NoAnchor THEN defs[g].channel
                           ELSE ctx
             IN /\ defs' = [defs EXCEPT ![g].channel = anchor]
                /\ pending' = pending \cup
                     {[id |-> nsends + 1, group |-> g, anchor |-> anchor,
                       members |-> defs[g].members, sender |-> account,
                       feedback |-> ctx]}
          /\ nsends' = nsends + 1
          /\ UNCHANGED <<enabled, account, keychain, whispers, local, threads,
                         nthreads, notice>>

-----------------------------------------------------------------------------
(* The secret read completes                                               *)

\* encodeEnvelope: empty on an empty secret (the other inputs are checked
\* by the command); otherwise an envelope only that secret opens.
EncodeEnvelope(g, c, t, s) == [group |-> g, channel |-> c, text |-> t, key |-> s]

\* ensureThread: the live thread of (channel, group), or a new root.
EnsureThread(c, g) ==
    IF threads[<<c, g>>] # 0
    THEN /\ UNCHANGED <<threads, nthreads>>
    ELSE /\ nthreads' = nthreads + 1
         /\ threads' = [threads EXCEPT ![<<c, g>>] = nthreads + 1]

\* sendOneGroupWhisper: the Helix whisper to one member goes out from the
\* account current when it is called.  Helix refuses the anonymous account,
\* which has no user id, and a whisper to the sending account itself
\* (WhisperSelf); either error is only a system message.
SendOneGroupWhisper(m, env) ==
    IF account \in {Anon, m} THEN {}
    ELSE {[from |-> account, to |-> m, env |-> env]}

\* appendThreadMessage: the channel's thread for the group (ensureThread),
\* then a whisper message "sender: text" added to it and to the channel.
\* Its early return on an empty text is never taken: /gw send refuses one.
AppendThreadMessage(c, g, sender, text) ==
    /\ EnsureThread(c, g)
    /\ local' = local \cup {[chan |-> c, group |-> g, thread |-> threads'[<<c, g>>],
                             sender |-> sender, text |-> text]}

\* The echo's channels: the feedback channel, unless it is not a Twitch
\* channel and getChannelOrEmpty finds the anchor channel (whether it is
\* joined is not modelled).
EchoTargets(p) ==
    IF p.feedback \in TwitchChans THEN {p.feedback} ELSE {p.feedback, p.anchor}

\* The callback of Credentials::get: a missing secret is reported;
\* otherwise each member but the captured sender is whispered through
\* sendOneGroupWhisper, which sends from the account current now, and the
\* plaintext is appended to the local thread under the captured sender.
KeyArrives(p) ==
    /\ p \in pending
    /\ pending' = pending \ {p}
    /\ \/ /\ keychain[p.group] = NoSecret
          /\ notice' = "missingKey"
          /\ UNCHANGED <<whispers, local, threads, nthreads>>
       \/ /\ keychain[p.group] # NoSecret
          /\ \E c \in EchoTargets(p) :
             LET env == EncodeEnvelope(p.group, p.anchor, p.id,
                                       keychain[p.group])
             IN /\ whispers' = whispers \cup
                      UNION {SendOneGroupWhisper(m, env) : m \in p.members \ {p.sender}}
                /\ AppendThreadMessage(c, p.group, p.sender, p.id)
          /\ UNCHANGED notice
    /\ UNCHANGED <<enabled, account, defs, keychain, nsends>>

-----------------------------------------------------------------------------
(* The environment                                                         *)

ToggleEnabled ==
    /\ enabled' = ~enabled
    /\ UNCHANGED <<account, defs, keychain, pending, nsends, whispers, local,
                   threads, nthreads, notice>>

\* The user switches to another account or logs out.
SwitchAccount(u) ==
    /\ u # account
    /\ account' = u
    /\ UNCHANGED <<enabled, defs, keychain, pending, nsends, whispers, local,
                   threads, nthreads, notice>>

Next ==
    \/ CommandRefused
    \/ List
    \/ \E ctx \in Chans, g \in Groups \cup {BadName}, ms \in SUBSET Users,
          s \in Secrets \cup {NoSecret} : Create(ctx, g, ms, s)
    \/ \E g \in Groups \cup {BadName}, s \in Secrets \cup {NoSecret} : Key(g, s)
    \/ \E g \in Groups \cup {BadName}, u \in Users, add \in BOOLEAN :
          ChangeMember(g, u, add)
    \/ \E g \in Groups \cup {BadName} : Delete(g)
    \/ \E ctx \in Chans, g \in Groups \cup {BadName} : Send(ctx, g)
    \/ \E p \in pending : KeyArrives(p)
    \/ ToggleEnabled
    \/ \E u \in Users \cup {Anon} : SwitchAccount(u)

Spec == Init /\ [][Next]_vars

-----------------------------------------------------------------------------
(* Properties                                                              *)

\* The thread echo names the account the group's members received the
\* message from: for every whisper of a send, the local message of that
\* send shows its sender as the author.
SentAsShown ==
    \A w \in whispers :
        \A l \in local : l.text = w.env.text => l.sender = w.from

=============================================================================
