--------------------------- MODULE MCMessageHeader ---------------------------
(***************************************************************************)
(* One makeIrcMessage call per state: the header of a message for each     *)
(* combination of the header inputs, checked element by element.          *)
(***************************************************************************)
EXTENDS MessageHeader

VARIABLE input   \* what the caller of makeIrcMessage hands over

Init == input \in HeaderInputs

\* Building a message changes nothing the next one reads.
Next == UNCHANGED input

Spec == Init /\ [][Next]_input

\* The message a reply preview must quote (spec.md, message builder, step
\* 8): the parent the caller found, else the thread's root; with no thread,
\* the reply tags' name and body, or the "blocked user" placeholder when
\* isIgnored holds for the parent's user.
RepliedTo ==
    CASE input.thread = "parent" -> "parent"
      [] input.thread = "root" -> "root"
      [] input.reply.blocked -> "blocked"
      [] OTHER -> "tags"

\* A message the builder renders as a reply: a thread was found, or the
\* reply tags carry an id, a display name and a body.  Whispers have no
\* replies.
IsReply ==
    /\ Built(input) /\ input.whisper = "none"
    /\ \/ input.thread # "none"
       \/ input.reply.id /\ input.reply.name = "set" /\ input.reply.body # "absent"

ReplyElements == {i \in DOMAIN Header(input) :
                      Header(input)[i].kind \in {"replyAuthor", "replyText"}}

\* Reply-thread rendering (spec.md, message builder, step 8), through
\* whichever of parseThread's "Replying to" line and the compact header's
\* "-> target: body" the settings select: a reply always shows the message
\* it replies to, every reply author and text element quotes that message,
\* and a blocked user's reply is shown only as the placeholder.
ReplyQuotesRepliedTo ==
    /\ IsReply => ReplyElements # {}
    /\ \A i \in ReplyElements : Header(input)[i].ref = RepliedTo

=============================================================================
