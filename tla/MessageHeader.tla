---------------------------- MODULE MessageHeader ----------------------------
(***************************************************************************)
(* The header that makeIrcMessage (src/src/messages/MessageBuilder.cpp)    *)
(* builds before the words: the sender's ignore check, the channel point   *)
(* reward, the channel name, parseThread's reply line, the moderation      *)
(* buttons, the badges, the OpenEmote compact header and appendUsername.   *)
(* The header is a synchronous function of the settings, the parse         *)
(* arguments, the tags and the thread the caller found, so it is modelled  *)
(* as operators over every combination of those inputs.  An element is its *)
(* kind and the message it refers to: the sender, the replied-to message   *)
(* (the parent, the thread's root, the reply tags, or "[Blocked user]").   *)
(* Colours, fonts, links, display names and the flags the header sets are  *)
(* left out: no element depends on them.                                    *)
(***************************************************************************)
EXTENDS Integers, Sequences

\* What the caller of makeIrcMessage hands over, with the settings read.
\* thread: no thread found, a thread with no parent message (the root is
\* the replied-to message), or a thread and its parent message.
\* reply: the reply-parent-* tags, their display name and body absent,
\* empty or set, and whether isIgnored holds for the parent's user.
HeaderInputs ==
    [botCompat : BOOLEAN, compactSetting : BOOLEAN,
     action : BOOLEAN, whisper : {"none", "sent", "received"},
     ignoredSender : BOOLEAN,
     reward : {"none", "unknown", "found"},
     sender : {"broadcaster", "mod", "viewer"}, staffOrBroadcaster : BOOLEAN,
     thread : {"none", "root", "parent"},
     reply : [id : BOOLEAN, name : {"absent", "empty", "set"},
              body : {"absent", "empty", "set"}, blocked : BOOLEAN]]

El(kind, ref) == [kind |-> kind, ref |-> ref]

\* allowIgnore with isIgnored on the content and the sender: no message.
Built(in) == ~in.ignoredSender

\* A reward id that names a known reward appends the reward's elements
\* first; an unknown one only sets a flag.
RewardElements(in) ==
    IF in.reward = "found" THEN <<El("reward", "none")>> ELSE <<>>

\* appendChannelName: "#channel", linked to the channel.
AppendChannelName == <<El("channelName", "none")>>

\* The message parseThread quotes when a thread was found.
ThreadRoot(in) == IF in.thread = "parent" THEN "parent" ELSE "root"

\* parseThread with the thread branch's early return on the compact
\* header setting dropped.
ParseThreadIgnoringCompact(in) ==
    CASE in.thread # "none" ->
            <<El("replyCurve", "none"), El("replyingTo", "none"),
              El("replyAuthor", ThreadRoot(in)),
              El("replyText", ThreadRoot(in))>>
      [] in.reply.id /\ ~in.compactSetting
                     /\ in.reply.name # "absent" /\ in.reply.body # "absent" ->
            <<El("replyCurve", "none"), El("replyingTo", "none")>>
            \o IF in.reply.blocked THEN <<El("replyText", "blocked")>>
               ELSE <<El("replyAuthor", "tags"), El("replyText", "tags")>>
      [] OTHER -> <<>>

\* parseThread: with a thread, the references are set and, unless the
\* compact header setting is on, a reply line with the root's author and
\* text; with only the reply tags and the setting off, a reply line from
\* the tags when both the name and the body tag are present, showing
\* "[Blocked user]" instead of the author and body when isIgnored holds.
ParseThread(in) ==
    CASE in.thread # "none" ->
            IF in.compactSetting THEN <<>>
            ELSE <<El("replyCurve", "none"), El("replyingTo", "none"),
                   El("replyAuthor", ThreadRoot(in)),
                   El("replyText", ThreadRoot(in))>>
      [] in.reply.id /\ ~in.compactSetting
                     /\ in.reply.name # "absent" /\ in.reply.body # "absent" ->
            <<El("replyCurve", "none"), El("replyingTo", "none")>>
            \o IF in.reply.blocked THEN <<El("replyText", "blocked")>>
               ELSE <<El("replyAuthor", "tags"), El("replyText", "tags")>>
      [] OTHER -> <<>>

\* The moderation buttons, unless the sender is the broadcaster, or a
\* moderator while the user is neither staff nor the broadcaster.
ModerationElements(in) ==
    IF in.sender = "broadcaster"
       \/ (in.sender = "mod" /\ ~in.staffOrBroadcaster)
    THEN <<>> ELSE <<El("moderation", "none")>>

\* compactAuthorMode has a literal false in its conjunction.
CompactAuthorMode(in) == FALSE

CompactHeaderLayout(in) ==
    /\ ~in.botCompat /\ in.compactSetting
    /\ in.whisper = "none" /\ ~in.action

\* Twitch, Chatterino, FFZ, BTTV and 7TV badges (compactAuthorMode would
\* only parse the tags).
BadgeElements(in) ==
    IF CompactAuthorMode(in) THEN <<>> ELSE <<El("badges", "none")>>

\* The message the compact header quotes when a thread was found.
CompactThreadRoot(in) == IF in.thread = "parent" THEN "parent" ELSE "root"

\* The compact header: the author, then with a thread "-> root: text";
\* else, with a non-empty reply display name tag, "-> name" and ": body"
\* when the body tag is not empty.  isIgnored is not consulted.
CompactHeader(in) ==
    IF ~CompactHeaderLayout(in) THEN <<>>
    ELSE <<El("author", "sender")>>
         \o CASE in.thread # "none" ->
                    <<El("arrow", "none"),
                      El("replyAuthor", CompactThreadRoot(in)),
                      El("colon", "none"),
                      El("replyText", CompactThreadRoot(in))>>
              [] in.reply.name = "set" ->
                    <<El("arrow", "none"), El("replyAuthor", "tags")>>
                    \o IF in.reply.body = "set"
                       THEN <<El("colon", "none"), El("replyText", "tags")>>
                       ELSE <<>>
              [] OTHER -> <<>>

\* appendUsername: nothing for a sent whisper (its branch is a TODO); for
\* a received one the sender, "->" and the current user; else the sender
\* (with a colon unless the message is an action).
AppendUsername(in) ==
    CASE in.whisper = "sent" -> <<>>
      [] in.whisper = "received" ->
            <<El("username", "sender"), El("arrow", "none"),
              El("username", "self")>>
      [] OTHER -> <<El("username", "sender")>>

UsernameElements(in) ==
    IF ~CompactHeaderLayout(in) THEN AppendUsername(in) ELSE <<>>

\* The header in the order makeIrcMessage appends it; the reply button
\* and the identity rail spacer need compactAuthorMode and never appear.
Header(in) ==
    IF ~Built(in) THEN <<>>
    ELSE RewardElements(in) \o AppendChannelName
         \o ParseThread(in) \o ModerationElements(in) \o BadgeElements(in)
         \o CompactHeader(in) \o UsernameElements(in)

-----------------------------------------------------------------------------
(* The timestamp that makeIrcMessage appends after the header section,     *)
(* when shouldRenderOpenEmoteTimestamp says so.  The channel is never null *)
(* (makeIrcMessage asserts it).  timed: some message of the channel has a *)
(* valid time; gap: secsTo from the newest such message to this one.      *)
(* alwaysUsers: the CSV is                                                 *)
(* blank, lists the sender (trimmed, case-insensitively), or only others.  *)

Gaps == {-60, 0, 59, 60, 299, 300, 23999, 24000, 24001}

TimestampInputs ==
    [show : BOOLEAN, alwaysSystem : BOOLEAN, systemFlag : BOOLEAN,
     alwaysUsers : {"blank", "sender", "others"}, loginBlank : BOOLEAN,
     gapsOnly : BOOLEAN, gapMinutes : {-1, 0, 1, 5, 400, 401},
     timed : BOOLEAN, gap : Gaps]

\* The gap setting read as seconds without the clamp.
ThresholdSecondsUnclamped(t) == t.gapMinutes * 60

\* std::clamp(openEmoteTimestampGapMinutes, 1, 400) * 60.
ThresholdSeconds(t) ==
    (IF t.gapMinutes < 1 THEN 1
     ELSE IF t.gapMinutes > 400 THEN 400 ELSE t.gapMinutes) * 60

\* Timestamps shown, and: always for system, moderation, subscription and
\* timeout messages under that setting; always for a listed sender; always
\* unless gaps-only; else for the first timed message of the channel or
\* after a gap of at least the threshold.
ShouldRenderTimestamp(t) ==
    /\ t.show
    /\ \/ t.alwaysSystem /\ t.systemFlag
       \/ t.alwaysUsers = "sender" /\ ~t.loginBlank
       \/ ~t.gapsOnly
       \/ ~t.timed
       \/ t.gap >= ThresholdSeconds(t)

-----------------------------------------------------------------------------
(* Properties, over every input                                            *)

Count(els, kind) == Len(SelectSeq(els, LAMBDA e : e.kind = kind))

\* parseThread and the compact header read the compact header setting
\* differently (the raw setting against compactHeaderLayout with its bot,
\* whisper and action exclusions): whatever the settings and the message,
\* the replied-to author and text are never both rendered twice, once by
\* each.
EveryHeaderRepliesOnce ==
    \A in \in HeaderInputs :
        Count(Header(in), "replyAuthor") <= 1 /\ Count(Header(in), "replyText") <= 1

\* In gaps-only mode, for a message neither listed nor a system message,
\* whatever the gap setting holds: a timestamp after more than 400 minutes
\* of silence in the channel, or when nothing in it has a time, and none
\* less than a minute after the channel's newest timed message.
EveryTimestampFollowsGap ==
    \A t \in TimestampInputs :
        t.show /\ t.gapsOnly /\ ~(t.alwaysSystem /\ t.systemFlag)
               /\ t.alwaysUsers # "sender" =>
            /\ ~t.timed => ShouldRenderTimestamp(t)
            /\ t.timed /\ t.gap > 400 * 60 => ShouldRenderTimestamp(t)
            /\ t.timed /\ t.gap < 60 => ~ShouldRenderTimestamp(t)

=============================================================================
