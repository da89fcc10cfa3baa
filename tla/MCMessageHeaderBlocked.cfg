SPECIFICATION Spec

INVARIANT
    ReplyQuotesRepliedTo
