---------------------------- MODULE CustomEmotes ----------------------------
(***************************************************************************)
(* The custom emote provider cache (src/providers/custom/CustomEmotes.cpp). *)
(*                                                                         *)
(* One map of emotes for the global scope (global_) and one per channel id *)
(* (channelEmotes_).  A load resets the map, merges each configured base   *)
(* URL's cache file in order, and issues one NetworkRequest per base URL.  *)
(* Every response callback runs later, on the GUI thread, one at a time,   *)
(* in whatever order the network delivers them, and merges its body into  *)
(* the map that exists when it runs.  Settings changes of the global       *)
(* toggle and of the base URLs re-run loadGlobalEmotes synchronously.      *)
(*                                                                         *)
(* An emote is abstracted to the base URL whose body defined it; a body    *)
(* to the set of codes it lists (or Garbage when it is not an emote list). *)
(***************************************************************************)
EXTENDS Naturals, Sequences, SequencesExt

CONSTANTS
    Providers,   \* normalized base URLs (model values)
    Names,       \* emote codes
    Channels,    \* channel ids whose emotes are loaded
    Global,      \* the "global" cache scope
    NoEmote,     \* no entry for a code in a map
    NoFile,      \* no cache file for a scope and key
    Garbage,     \* a 200 response whose body is not an emote list
    RawUrls,     \* values a base URL setting entry can hold
    Blank,       \* an entry that normalizes to the empty string
    Normalize,   \* normalizeBaseUrl: RawUrls -> Providers \cup {Blank}
    ListValues,  \* customEmoteApiBaseUrls, already split into its entries
    CacheKey,    \* host of a base URL: Providers -> cache keys
    Served,      \* what /v1/emotes/global and /v1/emotes/twitch/<id> list
    MaxLoads     \* bound on loads that issue requests

Scopes == {Global} \cup Channels
Keys == {CacheKey[p] : p \in Providers}
LoadId == 1..MaxLoads
Body == [from : Providers, names : SUBSET Names] \cup {Garbage}
EmoteMap == [Names -> Providers \cup {NoEmote}]
Request == [scope : Scopes, p : Providers, load : LoadId]

ASSUME /\ Global \notin Channels
       /\ Served \in [Scopes -> [Providers -> SUBSET Names]]
       /\ Normalize \in [RawUrls -> Providers \cup {Blank}]
       /\ ListValues \subseteq Seq(RawUrls)

VARIABLES
    globalEnabled,   \* setting enableCustomEmoteGlobalEmotes
    channelEnabled,  \* setting enableCustomEmoteChannelEmotes
    baseUrlSetting,  \* setting customEmoteApiBaseUrl (the legacy single URL)
    baseUrlsSetting, \* setting customEmoteApiBaseUrls
    disk,            \* provider emotes cache files: scope -> key -> body
    emotes,          \* global_ and channelEmotes_: scope -> EmoteMap
    pending,         \* requests whose callback has not run yet
    nLoads,          \* loads that issued requests so far
    load,            \* per load: its scope, manualRefresh and cacheHit
    refreshNotified, \* loads whose shared refreshNotified flag is set
    errorNotified,   \* loads whose shared errorNotified flag is set
    alive,           \* per load: the captured weak_ptr<Channel> still locks
    notices,         \* per load: system messages posted to the channel
    answered,        \* history: well-formed bodies delivered per load
    current          \* history: the load that last reset each scope (0: none)

vars == <<globalEnabled, channelEnabled, baseUrlSetting, baseUrlsSetting, disk, emotes, pending,
          nLoads, load, refreshNotified, errorNotified, alive, notices,
          answered, current>>

EMPTY == [n \in Names |-> NoEmote]

NoNotices == [reloaded |-> 0, failed |-> 0, fallback |-> 0]

TypeOK ==
    /\ globalEnabled \in BOOLEAN
    /\ channelEnabled \in BOOLEAN
    /\ baseUrlSetting \in RawUrls
    /\ baseUrlsSetting \in ListValues
    /\ disk \in [Scopes -> [Keys -> Body \cup {NoFile}]]
    /\ emotes \in [Scopes -> EmoteMap]
    /\ pending \subseteq Request
    /\ nLoads \in 0..MaxLoads
    /\ load \in [LoadId -> [scope : Scopes, manual : BOOLEAN,
                            cacheHit : BOOLEAN]]
    /\ refreshNotified \subseteq LoadId
    /\ errorNotified \subseteq LoadId
    /\ alive \in [LoadId -> BOOLEAN]
    /\ notices \in [LoadId -> [reloaded : Nat, failed : Nat, fallback : Nat]]
    /\ answered \in [LoadId -> SUBSET Body]
    /\ current \in [Scopes -> 0..MaxLoads]

Init ==
    /\ globalEnabled \in BOOLEAN
    /\ channelEnabled \in BOOLEAN
    /\ baseUrlSetting \in RawUrls
    /\ baseUrlsSetting \in ListValues
    /\ disk = [s \in Scopes |-> [k \in Keys |-> NoFile]]
    /\ emotes = [s \in Scopes |-> EMPTY]
    /\ pending = {}
    /\ nLoads = 0
    /\ load = [l \in LoadId |-> [scope |-> Global, manual |-> FALSE,
                                 cacheHit |-> FALSE]]
    /\ refreshNotified = {}
    /\ errorNotified = {}
    /\ alive = [l \in LoadId |-> FALSE]
    /\ notices = [l \in LoadId |-> NoNotices]
    /\ answered = [l \in LoadId |-> {}]
    /\ current = [s \in Scopes |-> 0]

-----------------------------------------------------------------------------
(* Helpers                                                                 *)

\* addIfValid: append a normalized entry unless it is empty or already seen.
AddIfValid(out, raw) ==
    IF Normalize[raw] = Blank \/ Normalize[raw] \in Range(out) THEN out
    ELSE Append(out, Normalize[raw])

\* normalizedBaseUrls(): the list setting's entries, deduplicated in order;
\* the single legacy URL only when the list yields nothing.
NormalizedBaseUrls(list, single) ==
    LET out == FoldLeft(AddIfValid, <<>>, list) IN
    IF out = <<>> THEN AddIfValid(<<>>, single) ELSE out

BaseUrls == NormalizedBaseUrls(baseUrlsSetting, baseUrlSetting)

\* extractEmotesArray + parseEmotes: the codes a body defines, each bound
\* to the emote of the base URL that served it; nothing for a malformed body.
ParseEmotes(body) ==
    IF body \in {NoFile, Garbage} THEN [n \in {} |-> NoEmote]
    ELSE [n \in body.names |-> body.from]

\* Faulty variant: the merge replaces the map by the overlay.
ReplaceByOverlay(base, overlay) ==
    IF DOMAIN overlay = {} THEN base
    ELSE [n \in Names |-> IF n \in DOMAIN overlay THEN overlay[n] ELSE NoEmote]

\* mergeEmoteMaps: an empty overlay keeps base; otherwise base with every
\* code of the overlay set to the overlay's emote.
MergeEmoteMaps(base, overlay) ==
    IF DOMAIN overlay = {} THEN base
    ELSE [n \in Names |-> IF n \in DOMAIN overlay THEN overlay[n] ELSE base[n]]

\* A cache callback or onSuccess: merge the parsed body into the map.
MergeBody(map, body) == MergeEmoteMaps(map, ParseEmotes(body))

\* Faulty variant: the first cache file is stored without parseEmotes.
ReadCachesUnparsed(s, urls) ==
    IF urls = <<>> THEN EMPTY
    ELSE [n \in Names |-> disk[s][CacheKey[Head(urls)]]]

\* The readProviderEmotesCache calls of a load, one per base URL in order.
ReadCaches(s, urls) ==
    FoldLeft(LAMBDA m, p : MergeBody(m, disk[s][CacheKey[p]]), EMPTY, urls)

\* Whether any of those calls found a cache file.
CacheHit(s, urls) == \E i \in 1..Len(urls) : disk[s][CacheKey[urls[i]]] # NoFile

\* The requests a load issues: one per base URL.
Requests(s, urls, l) == {[scope |-> s, p |-> urls[i], load |-> l] : i \in 1..Len(urls)}

\* The body a provider returns for a request: its listing, or a malformed one.
Bodies(r) == {[from |-> r.p, names |-> Served[r.scope][r.p]], Garbage}

-----------------------------------------------------------------------------
(* loadGlobalEmotes(), run with the given settings.                        *)

LoadGlobal(enabled, urls) ==
    \/ /\ ~enabled \/ urls = <<>>
       /\ emotes' = [emotes EXCEPT ![Global] = EMPTY]
       /\ current' = [current EXCEPT ![Global] = 0]
       /\ UNCHANGED <<disk, pending, nLoads, load, alive>>
    \/ /\ enabled /\ urls # <<>>
       /\ nLoads < MaxLoads
       /\ LET l == nLoads + 1 IN
          /\ emotes' = [emotes EXCEPT ![Global] = ReadCaches(Global, urls)]
          /\ pending' = pending \cup Requests(Global, urls, l)
          /\ nLoads' = l
          /\ load' = [load EXCEPT ![l] = [scope |-> Global, manual |-> FALSE,
                                          cacheHit |-> CacheHit(Global, urls)]]
          /\ current' = [current EXCEPT ![Global] = l]
          /\ UNCHANGED <<disk, alive>>

\* Any caller of loadGlobalEmotes (start-up, reload).
LoadGlobalEmotes ==
    /\ LoadGlobal(globalEnabled, BaseUrls)
    /\ UNCHANGED <<globalEnabled, channelEnabled, baseUrlSetting,
                   baseUrlsSetting, refreshNotified,
                   errorNotified, notices, answered>>

\* enableCustomEmoteGlobalEmotes changes; its connected callback reloads.
ToggleGlobalEnabled ==
    /\ globalEnabled' = ~globalEnabled
    /\ LoadGlobal(~globalEnabled, BaseUrls)
    /\ UNCHANGED <<channelEnabled, baseUrlSetting, baseUrlsSetting,
                   refreshNotified, errorNotified, notices, answered>>

\* customEmoteApiBaseUrl changes; its connected callback reloads global.
ChangeBaseUrl(raw) ==
    /\ raw # baseUrlSetting
    /\ baseUrlSetting' = raw
    /\ LoadGlobal(globalEnabled, NormalizedBaseUrls(baseUrlsSetting, raw))
    /\ UNCHANGED <<globalEnabled, channelEnabled, baseUrlsSetting,
                   refreshNotified, errorNotified, notices, answered>>

\* customEmoteApiBaseUrls changes; its connected callback reloads global.
ChangeBaseUrls(list) ==
    /\ list # baseUrlsSetting
    /\ baseUrlsSetting' = list
    /\ LoadGlobal(globalEnabled, NormalizedBaseUrls(list, baseUrlSetting))
    /\ UNCHANGED <<globalEnabled, channelEnabled, baseUrlSetting,
                   refreshNotified, errorNotified, notices, answered>>

\* enableCustomEmoteChannelEmotes changes; nothing here reloads channels.
ToggleChannelEnabled ==
    /\ channelEnabled' = ~channelEnabled
    /\ UNCHANGED <<globalEnabled, baseUrlSetting, baseUrlsSetting, disk,
                   emotes, pending, nLoads,
                   load, refreshNotified, errorNotified, alive, notices,
                   answered, current>>

-----------------------------------------------------------------------------
(* loadChannelEmotes(channel, channelId, name, manualRefresh)              *)

LoadChannelEmotes(c, manual) ==
    LET baseUrls == BaseUrls IN
    /\ \/ /\ ~channelEnabled \/ baseUrls = <<>>
          /\ emotes' = [emotes EXCEPT ![c] = EMPTY]
          /\ current' = [current EXCEPT ![c] = 0]
          /\ UNCHANGED <<pending, nLoads, load, alive>>
       \/ /\ channelEnabled /\ baseUrls # <<>>
          /\ nLoads < MaxLoads
          /\ LET l == nLoads + 1 IN
             /\ emotes' = [emotes EXCEPT ![c] = ReadCaches(c, baseUrls)]
             /\ pending' = pending \cup Requests(c, baseUrls, l)
             /\ nLoads' = l
             /\ load' = [load EXCEPT ![l] = [scope |-> c, manual |-> manual,
                                             cacheHit |-> CacheHit(c, baseUrls)]]
             /\ alive' = [alive EXCEPT ![l] = TRUE]
             /\ current' = [current EXCEPT ![c] = l]
    /\ UNCHANGED <<globalEnabled, channelEnabled, baseUrlSetting,
                   baseUrlsSetting, disk, refreshNotified, errorNotified,
                   notices, answered>>

\* The channel object is destroyed: every weak_ptr captured for it expires.
CloseChannel(c) ==
    /\ \E l \in LoadId : load[l].scope = c /\ alive[l]
    /\ alive' = [l \in LoadId |-> IF load[l].scope = c THEN FALSE ELSE alive[l]]
    /\ UNCHANGED <<globalEnabled, channelEnabled, baseUrlSetting,
                   baseUrlsSetting, disk, emotes, pending, nLoads, load,
                   refreshNotified, errorNotified, notices, answered, current>>

-----------------------------------------------------------------------------
(* Response callbacks                                                      *)

\* Faulty variant: a plain read of the flag instead of the exchange.
NotifyReloadedUnshared(l) == load[l].manual /\ alive[l]

\* Faulty variant: the result of errorNotified->exchange(true) is inverted.
NotifyFailedInverted(l) == alive[l] /\ load[l].manual /\ l \in errorNotified

\* `manualRefresh && shared && !refreshNotified->exchange(true)`
NotifyReloaded(l) ==
    load[l].manual /\ alive[l] /\ l \notin refreshNotified

\* `!shared || !manualRefresh || errorNotified->exchange(true)` is false
NotifyFailed(l) ==
    alive[l] /\ load[l].manual /\ l \notin errorNotified

\* onSuccess: write the cache file, merge the body into the map of the
\* scope as it is now, and for a channel maybe post "reloaded".
OnSuccess(r, body) ==
    /\ pending' = pending \ {r}
    /\ disk' = [disk EXCEPT ![r.scope][CacheKey[r.p]] = body]
    /\ emotes' = [emotes EXCEPT ![r.scope] = MergeBody(@, body)]
    /\ IF r.scope # Global /\ NotifyReloaded(r.load)
          THEN /\ refreshNotified' = refreshNotified \cup {r.load}
               /\ notices' = [notices EXCEPT ![r.load].reloaded = @ + 1]
          ELSE UNCHANGED <<refreshNotified, notices>>
    /\ answered' = [answered EXCEPT ![r.load] =
                       IF body = Garbage THEN @ ELSE @ \cup {body}]
    /\ UNCHANGED <<globalEnabled, channelEnabled, baseUrlSetting,
                   baseUrlsSetting, nLoads, load, errorNotified, alive, current>>

\* onError (timeouts included): global only logs; a manual channel refresh
\* posts one failure notice, and the cache fallback notice on a cache hit.
OnError(r) ==
    /\ pending' = pending \ {r}
    /\ IF r.scope # Global /\ NotifyFailed(r.load)
          THEN /\ errorNotified' = errorNotified \cup {r.load}
               /\ notices' = [notices EXCEPT
                     ![r.load].failed = @ + 1,
                     ![r.load].fallback = @ + (IF load[r.load].cacheHit THEN 1 ELSE 0)]
          ELSE UNCHANGED <<errorNotified, notices>>
    /\ UNCHANGED <<globalEnabled, channelEnabled, baseUrlSetting,
                   baseUrlsSetting, disk, emotes, nLoads, load, refreshNotified,
                   alive, answered, current>>

Respond(r) ==
    /\ r \in pending
    /\ \/ \E body \in Bodies(r) : OnSuccess(r, body)
       \/ OnError(r)

-----------------------------------------------------------------------------

Next ==
    \/ LoadGlobalEmotes
    \/ ToggleGlobalEnabled
    \/ \E raw \in RawUrls : ChangeBaseUrl(raw)
    \/ \E list \in ListValues : ChangeBaseUrls(list)
    \/ ToggleChannelEnabled
    \/ \E c \in Channels, manual \in BOOLEAN : LoadChannelEmotes(c, manual)
    \/ \E c \in Channels : CloseChannel(c)
    \/ \E r \in pending : Respond(r)

\* Every request ends in onSuccess or onError: the requests carry a timeout
\* (30 s global, 25 s channel), so a callback always runs eventually.
Fairness == \A r \in Request : WF_vars(Respond(r))

Spec == Init /\ [][Next]_vars /\ Fairness

-----------------------------------------------------------------------------
(* Properties                                                              *)

\* A manual channel refresh posts "Custom emotes reloaded." at most once and
\* the failure notice at most once, however many base URLs answer, and the
\* "Using cached custom emotes" notice only with a failure notice of a load
\* that did read a cache file (the shared refreshNotified/errorNotified flags).
NoticeOncePerLoad ==
    \A l \in LoadId :
        /\ notices[l].reloaded <= 1
        /\ notices[l].failed <= 1
        /\ notices[l].fallback <= notices[l].failed
        /\ notices[l].fallback > 0 => load[l].cacheHit

\* Every emote listed by a well-formed response of the load that last reset
\* a map is in that map: a later response, from another base URL or a
\* malformed one, merges into the map and never drops what an earlier
\* response of the same load added.
AnsweredEmotesPresent ==
    \A s \in Scopes : current[s] # 0 =>
        \A b \in answered[current[s]] : \A n \in b.names : emotes[s][n] # NoEmote

\* A manual refresh of an open channel is always answered: once its requests
\* are issued, the user eventually sees "reloaded" or the failure notice.
ManualRefreshAnswered ==
    \A l \in LoadId :
        (l <= nLoads /\ load[l].manual /\ alive[l])
            ~> (notices[l].reloaded + notices[l].failed >= 1 \/ ~alive[l])

\* While custom global emotes are disabled, global_ holds no emote, and it
\* only holds emotes of base URLs that are configured now.
GlobalMapFollowsSettings ==
    \A n \in Names :
        emotes[Global][n] # NoEmote =>
            globalEnabled /\ emotes[Global][n] \in Range(BaseUrls)

=============================================================================
