---------------------------- MODULE MessageWords ----------------------------
(***************************************************************************)
(* The body of makeIrcMessage: the word walk, the cheermote accounting and *)
(* the elements the builder appends (src/messages/MessageBuilder.cpp:      *)
(* makeIrcMessage 2995-3026, addWords, addTextOrEmote, tryAppendEmote,     *)
(* addLink, appendOrEmplaceText, tryAppendCheermote).                      *)
(*                                                                         *)
(* One message carries emote occurrences and, perhaps, a bits tag.  The    *)
(* walk of EmoteOccurrences splits the content into Twitch emotes and text *)
(* pieces; in the order of the walk, each Twitch emote is appended as an   *)
(* emote element and each text piece goes through addTextOrEmote: the     *)
(* cheermote accounting of Cheermotes, then the emote lookup (with         *)
(* zero-width layering onto the element before), link and mention          *)
(* detection, and plain text merged into the text element before it.       *)
(* The walk's cursor and iterator never depend on the elements, so the     *)
(* walk is one step and its items are then appended one at a time.         *)
(*                                                                         *)
(* A text piece is abstracted to a word of Cheermotes, its cheer prefix    *)
(* and numeral, plus its class: what parseEmote, linkparser::parse and the *)
(* mention regexes make of it.  An element is abstracted to its kind and   *)
(* the items it renders, by their position in the walk.                    *)
(***************************************************************************)
EXTENDS Naturals, Sequences, SequencesExt

CONSTANTS
    WordLists, OccurrenceSets,                         \* of EmoteOccurrences
    CheerPrefixes, Words, BitsTags, NoBits, MaxWords,  \* of Cheermotes
    MaxRecursion

\* What the lookups make of a text piece: plain text; an emote of the
\* channel or global maps (an emoji alike); a zero-width emote, with
\* enableZeroWidthEmotes on; a link alone or with text glued before and
\* after it; an @mention, or a chatter's name with findAllUsernames on,
\* followed by more text.
Classes == {"text", "emote", "zeroWidth", "link", "linkAffixed", "mentionRest"}

\* The item for a Twitch emote of the walk.
TwitchItem == [prefix |-> "twitch", value |-> 0, class |-> "twitch"]

ElementKinds == {"header", "emote", "layered", "text", "link", "mention", "bits"}

VARIABLES
    content, declared, occs, out, built,               \* the word walk
    tag, hasBits, bitsLeft, bitsStacked, stackBits,    \* the TextState
    shown, overflow,                                   \* the bits shown
    items,      \* the walk's Twitch emotes and text pieces, in order
    done,       \* the items appended so far
    elements,   \* the builder's elements after the header
    dropped     \* the items that left no element (history)

walkVars == <<content, declared, occs, out, built>>
textVars == <<tag, hasBits, bitsLeft, bitsStacked, stackBits, shown, overflow>>
buildVars == <<items, done, elements, dropped>>
vars == <<walkVars, textVars, buildVars>>

Walk == INSTANCE EmoteOccurrences WITH words <- content

IsWord(x) == x.class # "twitch"

\* The text pieces not yet appended are the words of Cheermotes.
Text == INSTANCE Cheermotes
            WITH words <- SelectSeq(SubSeq(items, done + 1, Len(items)), IsWord)

Element == [kind : ElementKinds, content : Seq(Nat)]

TypeOK ==
    /\ Walk!TypeOK /\ Text!TypeOK
    /\ items \in Seq(Words \cup {TwitchItem})
    /\ done \in 0..Len(items)
    /\ elements \in Seq(Element)
    /\ dropped \subseteq 1..done

\* The TextState of makeIrcMessage, seeded from the bits tag if present.
TextStateInit ==
    /\ tag \in BitsTags \cup {NoBits}
    /\ hasBits = (tag # NoBits)
    /\ bitsLeft = IF tag # NoBits THEN tag ELSE 0
    /\ bitsStacked = FALSE
    /\ stackBits \in BOOLEAN
    /\ shown = <<>>
    /\ overflow = FALSE

\* The header (badges and the username, or the compact author line) is
\* never an emote or plain text element.
Init ==
    /\ Walk!Init /\ TextStateInit
    /\ items = <<>> /\ done = 0 /\ dropped = {}
    /\ elements = <<[kind |-> "header", content |-> <<>>]>>

\* The number of text pieces among the first i elements of the walk.
TextPieces(els, i) == Len(SelectSeq(SubSeq(els, 1, i), LAMBDA e : e.kind = "text"))

\* The walk's elements with its k-th text piece replaced by ws[k].
WalkItems(els, ws) ==
    [i \in 1..Len(els) |-> IF els[i].kind = "text" THEN ws[TextPieces(els, i)]
                           ELSE TwitchItem]

\* addWords: the walk, and the items it hands on, in order.
AddWords ==
    /\ Walk!BuildWords
    /\ \E ws \in [1..TextPieces(out', Len(out')) -> Words] :
          items' = WalkItems(out', ws)
    /\ UNCHANGED <<textVars, done, elements, dropped>>

-----------------------------------------------------------------------------
(* The elements                                                            *)

Back(els) == els[Len(els)]

NewElement(kind, i) == [kind |-> kind, content |-> <<i>>]

\* Remainder text of a split word: the rest of item i, in the element of
\* the item itself.
Rest == [kind |-> "text", content |-> <<>>]

\* Faulty variant: a zero-width emote replaces the emote it lands on.
TryAppendEmoteBaseLost(els, w, i) ==
    IF w.class = "zeroWidth" /\ Back(els).kind \in {"emote", "layered"}
    THEN [els EXCEPT ![Len(els)] = [kind |-> "layered", content |-> <<i>>]]
    ELSE Append(els, NewElement("emote", i))

\* tryAppendEmote once parseEmote found the emote: a zero-width emote is
\* merged into an emote element before it, which becomes a layered one, or
\* into a layered element as one more layer; anything else is appended.
TryAppendEmote(els, w, i) ==
    IF w.class = "zeroWidth" /\ Back(els).kind = "emote"
    THEN [els EXCEPT ![Len(els)] = [kind |-> "layered",
                                    content |-> Back(els).content \o <<i>>]]
    ELSE IF w.class = "zeroWidth" /\ Back(els).kind = "layered"
    THEN [els EXCEPT ![Len(els)].content = @ \o <<i>>]
    ELSE Append(els, NewElement("emote", i))

\* appendOrEmplaceText: the text joins a plain text element before it
\* (not a mention, link or bits amount; every text element addTextOrEmote
\* leaves last has its trailing space and the message's text colour).
AppendOrEmplaceText(els, i) ==
    IF Back(els).kind = "text"
    THEN [els EXCEPT ![Len(els)].content = @ \o <<i>>]
    ELSE Append(els, NewElement("text", i))

\* addLink: the text glued before the link, with no trailing space, the
\* link, and the text glued after it.
AddLink(els, w, i) ==
    IF w.class = "linkAffixed"
    THEN els \o <<Rest, NewElement("link", i), Rest>>
    ELSE Append(els, NewElement("link", i))

\* The rest of addTextOrEmote, once the word was not a cheermote.
AddNonCheer(els, w, i) ==
    IF w.class \in {"emote", "zeroWidth"} THEN TryAppendEmote(els, w, i)
    ELSE IF w.class \in {"link", "linkAffixed"} THEN AddLink(els, w, i)
    ELSE IF w.class = "mentionRest"
    THEN els \o <<NewElement("mention", i), Rest>>
    ELSE AppendOrEmplaceText(els, i)

\* addWords appends the next Twitch emote of the walk.
EmplaceTwitchEmote ==
    /\ built /\ done < Len(items)
    /\ items[done + 1] = TwitchItem
    /\ elements' = Append(elements, NewElement("emote", done + 1))
    /\ done' = done + 1
    /\ UNCHANGED <<walkVars, textVars, items, dropped>>

\* addTextOrEmote on the next text piece: tryAppendCheermote if the message
\* has bits; on Failure the emote, link, mention and text branches.  A
\* cheer's static and animated emotes and its amount are one bits element.
AddTextOrEmote ==
    /\ built /\ done < Len(items) /\ ~overflow
    /\ IsWord(items[done + 1])
    /\ LET i == done + 1
           w == items[i]
           r == Text!TryAppendCheermote(stackBits, bitsLeft, bitsStacked, w, 0)
       IN IF hasBits /\ r.ok
          THEN /\ bitsLeft' = r.bitsLeft
               /\ bitsStacked' = r.stacked
               /\ shown' = shown \o r.els
               /\ overflow' = r.overflow
               /\ elements' = IF r.els = <<>> THEN elements
                              ELSE Append(elements, NewElement("bits", i))
               /\ dropped' = IF r.els = <<>> THEN dropped \cup {i} ELSE dropped
          ELSE /\ elements' = AddNonCheer(elements, w, i)
               /\ UNCHANGED <<bitsLeft, bitsStacked, shown, overflow, dropped>>
    /\ done' = done + 1
    /\ UNCHANGED <<walkVars, tag, hasBits, stackBits, items>>

\* Each message is built from its own tags and content with a fresh
\* TextState, so a behaviour builds one message and ends.
Next == AddWords \/ EmplaceTwitchEmote \/ AddTextOrEmote

Spec == Init /\ [][Next]_vars

-----------------------------------------------------------------------------
(* Properties                                                              *)

\* The occurrences kept for the walk have strictly increasing starts: the
\* sort and unique by start of makeIrcMessage leave no duplicate.
OccurrencesStrictlySorted == Walk!OccurrencesStrictlySorted

\* The elements addWords emits render every character of the content once,
\* in order: the cursor arithmetic over emotes at the start, middle and end
\* of a word and over empty words never drops, repeats or shifts one.
RenderingCoversText == Walk!RenderingCoversText

\* A kept occurrence inside one word and overlapping no other is rendered.
EmotesNotLost == Walk!EmotesNotLost

\* The bits shown are the bits of the tag, over all the text pieces of the
\* walk: without stacking the cheers and the bits left add up to the tag,
\* with stacking one counter holds the whole tag.
BitsAccounted == Text!BitsAccounted

\* tryAppendCheermote's rewriting recursion ends for every piece.
CheerRecursionBounded == Text!CheerRecursionBounded

\* Every item appended so far is rendered by exactly one element, in the
\* order of the walk, but the cheers stacking mode swallows: merging a
\* zero-width emote into the element before it (releaseBack and a new
\* layered element), merging text into a text element, and the elements a
\* link or mention adds around it never lose, repeat or reorder a word.
RenderedInOrder ==
    FlattenSeq([k \in 1..Len(elements) |-> elements[k].content])
        = SelectSeq([k \in 1..done |-> k], LAMBDA k : k \notin dropped)

=============================================================================
