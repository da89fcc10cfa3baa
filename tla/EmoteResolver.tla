--------------------------- MODULE EmoteResolver ---------------------------
(***************************************************************************)
(* Emote lookup of the message builder (src/messages/MessageBuilder.cpp):  *)
(* parseEmote and the cross-channel emote cache it consults last.          *)
(*                                                                         *)
(* parseEmote looks a word up in the channel's FFZ, BTTV and 7TV maps,     *)
(* then in the global ones, and, when cross-channel emotes are enabled, in *)
(* a function-static cache merged from every open channel the allow/block  *)
(* policy admits.  The cache is rebuilt when the settings signature        *)
(* differs from the one it was built with, or when the wall clock says it *)
(* is TTL_MS old; channels opening and closing do not invalidate it.       *)
(*                                                                         *)
(* The emote maps of the channels and the globals are constants: the      *)
(* builder only reads them.  Time is counted in TTL-sized units.           *)
(***************************************************************************)
EXTENDS Naturals, Sequences, SequencesExt

CONSTANTS
    Channels,        \* normalized names of the Twitch channels
    Names,           \* words looked up
    Ffz, Bttv, SevenTv,
    ChannelEmotes,   \* per channel and provider: the codes of its map
    GlobalEmotes,    \* per provider: the codes of its global map
    NoChannel,       \* parseEmote called with twitchChannel == nullptr
    NoSource,        \* a code no channel of the cache provides
    TTL,             \* TTL_MS
    RawValues,       \* the strings the allow and block settings take
    Lower,           \* QString::toLower on the characters it changes
    MaxClock,        \* bound on the wall clock
    ClockMayGoBack   \* whether the wall clock can be set back

Providers == {Ffz, Bttv, SevenTv}

\* The order parseEmote consults the providers of one tier in.
LookupOrder == <<Ffz, Bttv, SevenTv>>

\* A setting string is a sequence of characters: a channel's name is the
\* one-character sequence of the channel; ",", "|", "#" and " " are strings.
\* The signature is a string of the same kind.
Signature == Seq(Channels \cup DOMAIN Lower \cup {",", "|", "#", " ", "0", "1"})

CacheMap == [Providers -> [Names -> Channels \cup {NoSource}]]

ASSUME /\ ChannelEmotes \in [Channels -> [Providers -> SUBSET Names]]
       /\ GlobalEmotes \in [Providers -> SUBSET Names]
       /\ Lower \in [DOMAIN Lower -> Channels]
       /\ RawValues \subseteq Signature
       /\ TTL \in Nat \ {0}

VARIABLES
    enabled,         \* openEmoteEnableCrossChannelEmotes
    allowlistOnly,   \* openEmoteCrossChannelEmotesAllowlistMode
    allow,           \* openEmoteCrossChannelEmotesAllowChannels
    block,           \* openEmoteCrossChannelEmotesBlockChannels
    open,            \* the channels forEachChannel visits
    clock,           \* QDateTime::currentMSecsSinceEpoch()
    cache,           \* crossChannelEmoteCache(): signature, builtAtMs, maps
    age,             \* history: real time since the cache was built (capped)
    resolved         \* history: the result of the parseEmote call just made

vars == <<enabled, allowlistOnly, allow, block, open, clock, cache, age,
          resolved>>

NoResult == [tier |-> "none", provider |-> NoSource, source |-> NoSource]

\* What a parseEmote call yields: nothing, or an emote of a provider's
\* channel map, global map, or cross-channel map (with the channel it came
\* from).
Results ==
    {NoResult}
    \cup [tier : {"channel", "cross"}, provider : Providers, source : Channels]
    \cup [tier : {"global"}, provider : Providers, source : {NoSource}]

EmptyCacheMap == [p \in Providers |-> [n \in Names |-> NoSource]]

TypeOK ==
    /\ enabled \in BOOLEAN
    /\ allowlistOnly \in BOOLEAN
    /\ allow \in RawValues
    /\ block \in RawValues
    /\ open \subseteq Channels
    /\ clock \in 0..MaxClock
    /\ cache \in [sig : Signature, builtAt : 0..MaxClock,
                  map : CacheMap]
    /\ age \in 0..TTL
    /\ resolved \in Results

Init ==
    /\ enabled \in BOOLEAN
    /\ allowlistOnly \in BOOLEAN
    /\ allow \in RawValues
    /\ block \in RawValues
    /\ open \in SUBSET Channels
    /\ clock = 0
    /\ cache = [sig |-> <<>>, builtAt |-> 0, map |-> EmptyCacheMap]
    /\ age = TTL
    /\ resolved = NoResult

-----------------------------------------------------------------------------
(* The cache                                                               *)

\* crossChannelEmoteCacheSignature(): "%1|%2|%3|%4" over the two flags as
\* "1" or "0" and the two raw setting strings.
Flag(v) == IF v THEN "1" ELSE "0"

CurrentSignature ==
    <<Flag(enabled), "|", Flag(allowlistOnly), "|">> \o allow \o <<"|">> \o block

\* csv.split(',', Qt::SkipEmptyParts)
SplitSkipEmpty(csv) ==
    SelectSeq(FoldLeft(LAMBDA parts, ch :
                           IF ch = "," THEN Append(parts, <<>>)
                           ELSE [parts EXCEPT ![Len(parts)] = Append(@, ch)],
                       <<<<>>>>, csv),
              LAMBDA part : part # <<>>)

\* normalizeCrossChannelName: trimmed, lower-cased, leading '#'s removed.
NormalizeCrossChannelName(name) ==
    LET first == SelectInSeq(name, LAMBDA ch : ch # " ")
        last == SelectLastInSeq(name, LAMBDA ch : ch # " ")
        trimmed == IF first = 0 THEN <<>> ELSE SubSeq(name, first, last)
        lower == [k \in DOMAIN trimmed |->
                     IF trimmed[k] \in DOMAIN Lower THEN Lower[trimmed[k]]
                     ELSE trimmed[k]]
        start == SelectInSeq(lower, LAMBDA ch : ch # "#")
    IN IF start = 0 THEN <<>> ELSE SubSeq(lower, start, Len(lower))

\* parseCrossChannelSet: the non-empty normalized entries.
ParseCrossChannelSet(csv) ==
    {NormalizeCrossChannelName(e) : e \in ToSet(SplitSkipEmpty(csv))} \ {<<>>}

\* isCrossChannelAllowed over the parsed lists: never a blocked channel; in
\* allowlist mode only an allowed one.
IsCrossChannelAllowed(c) ==
    /\ <<c>> \notin ParseCrossChannelSet(block)
    /\ allowlistOnly => <<c>> \in ParseCrossChannelSet(allow)

\* Faulty variant: the signature is not compared.
CacheReusableAnySignature(now) == now - cache.builtAt < TTL

\* The early return of getCrossChannelEmoteCache.  The clock difference is
\* signed: a clock set back makes it negative.
CacheReusable(now) ==
    cache.sig = CurrentSignature /\ now - cache.builtAt < TTL

\* mergeInto over the admitted channels in visiting order: for each code the
\* first channel whose map of that provider has it.
MergeInto(order, p) ==
    [n \in Names |->
        LET i == SelectInSeq(order, LAMBDA c : n \in ChannelEmotes[c][p]) IN
        IF i = 0 THEN NoSource ELSE order[i]]

\* The rebuild: cleared maps, new signature and time; filled only when the
\* feature is enabled.
Rebuilt(now, order) ==
    [sig |-> CurrentSignature, builtAt |-> now,
     map |-> IF ~enabled THEN EmptyCacheMap
             ELSE [p \in Providers |->
                      MergeInto(SelectSeq(order, IsCrossChannelAllowed), p)]]

\* getCrossChannelEmoteCache(), with forEachChannel visiting the open
\* channels in some order.
GetCrossChannelEmoteCache ==
    \/ /\ CacheReusable(clock)
       /\ UNCHANGED <<cache, age>>
    \/ /\ ~CacheReusable(clock)
       /\ \E order \in SetToSeqs(open) : cache' = Rebuilt(clock, order)
       /\ age' = 0

-----------------------------------------------------------------------------
(* parseEmote(twitchChannel, name)                                         *)

ChannelHit(ctx, n) ==
    IF ctx = NoChannel THEN 0
    ELSE SelectInSeq(LookupOrder, LAMBDA p : n \in ChannelEmotes[ctx][p])

GlobalHit(n) == SelectInSeq(LookupOrder, LAMBDA p : n \in GlobalEmotes[p])

\* Faulty variant: the FFZ lookup's result is used without the end check.
CrossHitUnchecked(map, n) == 1

CrossHit(map, n) == SelectInSeq(LookupOrder, LAMBDA p : map[p][n] # NoSource)

ParseEmote(ctx, n) ==
    /\ ctx \in open \cup {NoChannel}
    /\ \/ /\ ChannelHit(ctx, n) # 0
          /\ resolved' = [tier |-> "channel", source |-> ctx,
                          provider |-> LookupOrder[ChannelHit(ctx, n)]]
          /\ UNCHANGED <<cache, age>>
       \/ /\ ChannelHit(ctx, n) = 0 /\ GlobalHit(n) # 0
          /\ resolved' = [tier |-> "global", source |-> NoSource,
                          provider |-> LookupOrder[GlobalHit(n)]]
          /\ UNCHANGED <<cache, age>>
       \/ /\ ChannelHit(ctx, n) = 0 /\ GlobalHit(n) = 0
          /\ ~enabled
          /\ resolved' = NoResult
          /\ UNCHANGED <<cache, age>>
       \/ /\ ChannelHit(ctx, n) = 0 /\ GlobalHit(n) = 0
          /\ enabled
          /\ GetCrossChannelEmoteCache
          /\ LET i == CrossHit(cache'.map, n) IN
             resolved' = IF i = 0 THEN NoResult
                         ELSE [tier |-> "cross", provider |-> LookupOrder[i],
                               source |-> cache'.map[LookupOrder[i]][n]]
    /\ UNCHANGED <<enabled, allowlistOnly, allow, block, open, clock>>

-----------------------------------------------------------------------------
(* The completion source (src/controllers/completion/sources/EmoteSource)  *)
(*                                                                         *)
(* initializeFromChannel lists the emotes the popup offers in a Twitch     *)
(* channel, reading the same settings and open channels as the builder but *)
(* through its own copies of normalizeChannelName, parseChannelSet and     *)
(* isAllowedCrossChannel, and skipping the channel itself.  The list is an *)
(* operator of the state it is built in; emojis and Twitch emotes are      *)
(* outside Names.                                                          *)

\* normalizeChannelName and parseChannelSet of EmoteSource.cpp, a copy of
\* the builder's.
ParseChannelSet(csv) == ParseCrossChannelSet(csv)

\* Faulty variant: the block list is not consulted.
IsAllowedCrossChannelNoBlock(c) == allowlistOnly => <<c>> \in ParseChannelSet(allow)

\* isAllowedCrossChannel of EmoteSource.cpp.
IsAllowedCrossChannelInCompletion(c) ==
    /\ <<c>> \notin ParseChannelSet(block)
    /\ allowlistOnly => <<c>> \in ParseChannelSet(allow)

\* addEmotes of one map: an item per code, with its provider and channel.
MapItems(tier, p, c, codes) ==
    {[tier |-> tier, provider |-> p, source |-> c, code |-> n] : n \in codes}

\* initializeFromChannel(ctx): the channel's maps, then with cross-channel
\* emotes enabled the maps of every other open channel the policy admits,
\* then the global maps.
CompletionItems(ctx) ==
    LET others == {c \in open : c # ctx /\ IsAllowedCrossChannelInCompletion(c)} IN
    UNION {MapItems("channel", p, ctx, ChannelEmotes[ctx][p]) : p \in Providers}
    \cup (IF ~enabled THEN {}
          ELSE UNION {MapItems("cross", p, c, ChannelEmotes[c][p]) :
                          p \in Providers, c \in others})
    \cup UNION {MapItems("global", p, NoSource, GlobalEmotes[p]) : p \in Providers}

CompletionCodes(ctx) == {i.code : i \in CompletionItems(ctx)}

-----------------------------------------------------------------------------
(* The environment: settings, channels, time                               *)

ChangeSetting ==
    /\ \/ enabled' = ~enabled /\ UNCHANGED <<allowlistOnly, allow, block>>
       \/ allowlistOnly' = ~allowlistOnly /\ UNCHANGED <<enabled, allow, block>>
       \/ \E s \in RawValues :
             s # allow /\ allow' = s /\ UNCHANGED <<enabled, allowlistOnly, block>>
       \/ \E s \in RawValues :
             s # block /\ block' = s /\ UNCHANGED <<enabled, allowlistOnly, allow>>
    /\ resolved' = NoResult
    /\ UNCHANGED <<open, clock, cache, age>>

OpenChannel(c) ==
    /\ c \notin open
    /\ open' = open \cup {c}
    /\ resolved' = NoResult
    /\ UNCHANGED <<enabled, allowlistOnly, allow, block, clock, cache, age>>

CloseChannel(c) ==
    /\ c \in open
    /\ open' = open \ {c}
    /\ resolved' = NoResult
    /\ UNCHANGED <<enabled, allowlistOnly, allow, block, clock, cache, age>>

\* One unit of real time passes; the wall clock follows it.
Tick ==
    /\ clock < MaxClock
    /\ clock' = clock + 1
    /\ age' = IF age < TTL THEN age + 1 ELSE TTL
    /\ resolved' = NoResult
    /\ UNCHANGED <<enabled, allowlistOnly, allow, block, open, cache>>

\* The wall clock is set back (NTP correction, user change): no real time
\* passes.
ClockSetBack ==
    /\ ClockMayGoBack
    /\ \E t \in 0..(clock - 1) : clock' = t
    /\ resolved' = NoResult
    /\ UNCHANGED <<enabled, allowlistOnly, allow, block, open, cache, age>>

Next ==
    \/ \E ctx \in Channels \cup {NoChannel}, n \in Names : ParseEmote(ctx, n)
    \/ ChangeSetting
    \/ \E c \in Channels : OpenChannel(c) \/ CloseChannel(c)
    \/ Tick
    \/ ClockSetBack

Spec == Init /\ [][Next]_vars

-----------------------------------------------------------------------------
(* Properties                                                              *)

\* A cross-channel emote is only taken while the feature is enabled and from
\* a channel the current allow/block policy admits: every policy change
\* alters the signature, so the next lookup rebuilds the cache.
CrossChannelPolicyRespected ==
    resolved.tier = "cross" =>
        enabled /\ IsCrossChannelAllowed(resolved.source)

\* A cross-channel emote comes from a cache built less than TTL_MS of real
\* time ago, so a channel that closed or lost the emote stops supplying it
\* within the TTL window.
CrossChannelFresh == resolved.tier = "cross" => age < TTL

\* The completion popup and the renderer agree: when a code the popup lists
\* for a channel is sent there and parseEmote (re)builds the cross-channel
\* cache from the same settings and open channels, it renders as an emote.
\* EmoteSource applies its own copy of the allow/block policy and skips the
\* channel itself, so a divergence between the two copies would offer
\* emotes that arrive as plain text.  (A step that leaves the settings, the
\* channels and the clock alone and yields no emote is a lookup.)
CompletedEmotesRender ==
    [][/\ resolved' = NoResult /\ ~CacheReusable(clock)
       /\ UNCHANGED <<enabled, allowlistOnly, allow, block, open, clock>>
       => \A ctx \in open : \A n \in CompletionCodes(ctx) : ~ParseEmote(ctx, n)]_vars

=============================================================================
