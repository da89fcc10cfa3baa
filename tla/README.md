# TLA+ models of OpenEmote

This directory holds TLA+ specifications of parts of OpenEmote, a Chatterino
fork (sources under `src/`), and the TLC configurations that check them.
`PROJECT.json` lists every component, every run, the source lines each
definition models (`map`), the faulty variants each property must detect
(`mutants`), what the runs found (`findings`) and the hazards of the code.

## The system and its parts

| Part | Source | State and concurrency | Status |
|---|---|---|---|
| Custom emote provider cache | `providers/custom/CustomEmotes.cpp` | one global map and one map per channel; cache files on disk; one HTTP request per base URL whose callbacks run later on the GUI thread; setting callbacks reload | **modelled** (`CustomEmotes`) |
| Emote resolution and cross-channel cache | `messages/MessageBuilder.cpp` `parseEmote`, `getCrossChannelEmoteCache` | a fixed provider order; a function-static TTL cache keyed by a settings signature, timed by the wall clock | **modelled** (`EmoteResolver`) |
| Twitch emote occurrences and the word walk | `MessageBuilder.cpp` `makeIrcMessage`, `addWords`, `doesWordContainATwitchEmote` | synchronous; occurrences sorted (unstably) and deduplicated, then a cursor and an iterator walk the words | **modelled** (`EmoteOccurrences`, composed with `Cheermotes` in `MessageWords`) |
| Message body elements | `MessageBuilder.cpp` `addTextOrEmote`, `tryAppendEmote`, `addLink`, `appendOrEmplaceText` | the element list: zero-width layering replaces the last element, text merges into it | **modelled** (`MessageWords`) |
| Message header | `MessageBuilder.cpp` `makeIrcMessage` header section, `parseThread`, `appendUsername` | synchronous: a branch table over settings, tags and the thread found | **partly** (`MessageHeader`; highlights and system messages not modelled) |
| Timestamp gap rule | `MessageBuilder.cpp` `shouldRenderOpenEmoteTimestamp` | a pure function of the settings and the channel's newest timed message | **modelled** (`MessageHeader`) |
| Cheermotes | `MessageBuilder.cpp` `tryAppendCheermote` | a `bitsLeft` counter consumed by recursion | **modelled** (`Cheermotes`) |
| Crash recovery settings | `singletons/CrashHandler.cpp`, `widgets/dialogs/LastRunCrashDialog.cpp` | a JSON file plus an in-memory copy; two save paths; dev-mode forcing | **modelled** (`CrashRecovery`) |
| Secure group whispers | `util/OpenEmoteSecureGroupWhisper.hpp`, `commands/builtin/twitch/SendWhisper.cpp` | groups and keys in settings and the keychain; an asynchronous key read; a mutex-guarded thread registry | **partly** (`GroupWhisper`) |
| Legacy settings import | `util/OpenEmoteImport.cpp`, `Application.cpp` `importLegacyTwitchAccounts` | a scan of a legacy profile's JSON files with a cap, copies into the settings directory, accounts written into the settings document | **partly** (`LegacyImport`, applied by `Onboarding`) |
| API client | `providers/openemote/OpenEmoteApiClient.cpp` | a revision protocol with `304` | not modelled: nothing in `src/` calls it |
| Integration pack | `util/OpenEmoteIntegration.cpp`, `Application.cpp` `applyOpenEmoteIntegrationFromArgs` | a redeem request sent before `run()`, answered at any time; settings written in steps, a bearer moved to the keychain | **modelled** (`IntegrationPack`, applied by `Onboarding`) |
| Platform registry | `providers/platform/PlatformRegistry.cpp` | a list of two adapters filled once at start-up; the adapters' methods are empty | not modelled: no state changes after start-up |
| Onboarding scheduler | `Application.cpp` `showOpenEmoteOnboardingIfNeeded` | an atomic "scheduled" flag and a retry counter shared by two retry loops; the accept handler imports a legacy profile and saves | **modelled** (`Onboarding`, refining `OnboardingOffer`) |
| Login dialog | `widgets/dialogs/LoginDialog.cpp` | paste, add-user and handoff logins write an account and the current user; the handoff's callbacks use the dialog | **partly** (in `Onboarding`) |
| Emote completion source | `completion/sources/EmoteSource.cpp` `initializeFromChannel` | the popup's list built from the open channels with its own copy of the cross-channel policy | **partly** (in `EmoteResolver`) |
| Layout engine, chrono helpers | tests only, `chrono.hpp` | no implementation in the repository / pure functions | see `PROJECT.json` |

How the parts interact: the message builder resolves each word through
`parseEmote`, which reads the emote maps of the channel, the global providers
and, last, the cross-channel cache built from every open channel's maps. The
custom emote cache exposes `globalEmote`/`channelEmote` to code outside `src/`
(the Twitch channel), which is not in this repository. The crash handler
and onboarding run at start-up, outside the message path; the onboarding
dialog's accept handler is the one caller of the legacy import. Start-up
also posts an integration ticket whose answer may write the image uploader
settings while the onboarding dialog is open, where the self-host page
writes them too; the login dialog writes the same accounts and current user
as the import.

## CustomEmotes (modelled)

`CustomEmotes.tla` models `CustomEmotes.cpp` as one state machine.

* **State.** `emotes[s]` is `global_` (`s = Global`) or `channelEmotes_[id]`;
  an emote is abstracted to the base URL whose body defined it, a map to a
  function from codes to base URLs or `NoEmote`. `disk[s][k]` is the provider
  cache file of scope `s` and cache key `k` (the host of a base URL).
  `pending` holds the requests whose callback has not yet run. Per load,
  `load[l]` holds its scope, `manualRefresh` and `cacheHit`; `refreshNotified`
  and `errorNotified` are the shared atomic flags; `alive[l]` is whether the
  captured `weak_ptr<Channel>` still locks; `notices[l]` counts the system
  messages posted. The settings are the two toggles and the two raw base URL
  settings; `BaseUrls` is `normalizedBaseUrls()` of them. `answered` and
  `current` are history variables: the well-formed bodies each load received,
  and the load that last reset each scope.
* **Actions.** `LoadGlobalEmotes`, `ToggleGlobalEnabled`, `ChangeBaseUrl`,
  `ChangeBaseUrls` (the three setting callbacks of the constructor each run
  `loadGlobalEmotes` in the same step), `LoadChannelEmotes(c, manual)`,
  `ToggleChannelEnabled` (nothing reloads), `CloseChannel(c)` (the channel
  object dies), and `Respond(r)`, which is `OnSuccess` with the provider's
  listing or a malformed body, or `OnError` (timeouts included). A load is one
  step: the reset, the synchronous cache reads folded in URL order
  (`ReadCaches`) and the issuing of the requests.
* **Bodies.** `Garbage` is a body that is valid JSON but holds no emote list
  (an error object): `parseEmotes` yields nothing and the cache read reports
  a hit. `readProviderEmotesCache`/`writeProviderEmotesCache` are not in
  `src/`; they are taken to read synchronously and to overwrite the file.
* **Fairness.** Weak fairness on every `Respond(r)`: each request carries a
  timeout (30 s global, 25 s channel), so `onSuccess` or `onError` always
  runs eventually. User actions get no fairness.

### Runs

| Run | Config | Checks | Result |
|---|---|---|---|
| `custom_emotes_channel` | `MCCustomEmotes.cfg` | `TypeOK`, `NoticeOncePerLoad`, `AnsweredEmotesPresent`, `ManualRefreshAnswered` | pass |
| `custom_emotes_stale_response` | `MCCustomEmotesStale.cfg` | `GlobalMapFollowsSettings` | violation (finding) |

* `NoticeOncePerLoad`: however many base URLs answer a manual refresh and in
  whatever order, the channel gets at most one "reloaded" and at most one
  failure notice, and the cache-fallback notice only with a failure of a load
  that read a cache file.
* `ManualRefreshAnswered`: a manual refresh of a channel that stays open
  always ends with a notice.
* `AnsweredEmotesPresent`: every emote listed by a well-formed answer of the
  latest load of a scope is in that scope's map; later answers, malformed
  ones included, only add.
* `GlobalMapFollowsSettings` is violated: with the global toggle off, or a
  base URL removed, a response of the earlier load still in flight merges its
  emotes into the cleared `global_` (see `findings`).

**Bounds.** Two base URLs (two hosts, distinct cache files) so that answers
interleave and conflict. Each raw URL setting is either empty or holds the
legacy URL, a blank entry, the same URL with a trailing slash and the second
URL, so `normalizedBaseUrls` drops a blank and a duplicate and merges the two
settings. One channel, two codes and two loads in all: enough for a first
load to write a cache file and a second, manual one to hit it, with both
answers of each load in either order, each succeeding, failing or malformed,
the channel closing at any point, and a global load overlapping a settings
change (the stale-response run). Globally the first base URL lists one code
and the second both, so an answer that replaced the map instead of merging
into it would lose a code; in the channel the second lists nothing.

## EmoteResolver (modelled)

`EmoteResolver.tla` models `parseEmote` and `getCrossChannelEmoteCache`
(`MessageBuilder.cpp` 1500-1725).

* **State.** The four cross-channel settings (the allow/block lists as the
  raw strings the user typed, sequences of characters), the set of open channels, the wall clock, and the static cache: its
  signature, `builtAtMs` and the merged FFZ/BTTV/7TV maps, each code mapped to
  the channel it was taken from. `age` (real time since the last rebuild,
  capped at the TTL) and `resolved` (the result of the lookup just made) are
  history variables. The policy parses the strings as the code does
  (split on `,` skipping empty parts; trimmed, lower-cased, leading `#`s
  removed), and the signature is the string `%1|%2|%3|%4` the code formats,
  compared as a string. Because the raw strings may contain `|`, two
  different policies can share a signature (allow `a`, block `|b` against
  allow `a|`, block `b`). With such a pair among the values,
  `CrossChannelPolicyRespected` fails in four steps: the cache built while
  b was allowed keeps serving b's emotes until the TTL expires. The spec
  accepts that staleness for unnoticed settings changes, so it is listed as
  a hazard, and the run's strings hold no `|`.
* **Actions.** `ParseEmote(ctx, n)` is one whole call: channel maps, global
  maps, then, when enabled, the cache check, possibly a rebuild over the open
  channels in any visiting order, and the cross lookup. The environment
  changes settings, opens and closes channels, lets time pass (`Tick`) and,
  in one configuration, sets the wall clock back (`ClockSetBack`).
* **Completion source.** `CompletionItems(ctx)` is `initializeFromChannel`
  (`EmoteSource.cpp` 138-245) for a Twitch channel in the current state: the
  channel's own maps, with the feature on the maps of every other open
  channel its own `isAllowedCrossChannel` admits, and the global maps. It is
  an operator rather than state: the popup builds it when it opens, from the
  settings and channels of that moment, and the property compares it with a
  lookup made in the same state.
* **Runs.** `emote_resolver` (pass, the clock may be set back):
  `CrossChannelPolicyRespected`, a cross-channel emote is only taken while the
  feature is on and from a channel the current policy admits;
  `CompletedEmotesRender` (an action property), a lookup of a code the
  completion popup lists for the channel, made while the cache is rebuilt,
  renders an emote: the popup's copy of the policy and its skip of the
  current channel never offer what the builder drops. Under a cache reused
  within its TTL the two may disagree (a channel opened since the rebuild);
  that window is the one the spec accepts, so it is a hazard, not a property.
  `emote_resolver_clock_back` (violation): `CrossChannelFresh`, a
  cross-channel emote comes from a cache built less than the TTL of real time
  ago, fails once the clock is set back: the cache is reused after more than
  the TTL of real time (a finding against the spec's "stale for up to the TTL
  window"). With a clock that only moves forward the property holds.
* **Bounds.** Two channels that both provide one code through different
  providers, one code only the second provides, and a global code; allow and
  block strings each empty or `" #B"` (the second channel behind padding, a
  `#` and upper case: enough to block it and to allowlist it, and only a
  correct normalization sees it); TTL 2 units and the clock up to 4, so a cache can expire
  and be rebuilt, and the clock can go back by more than a TTL. No fairness:
  the properties are safety properties.

## CrashRecovery (modelled)

`CrashRecovery.tla` models `CrashHandler.cpp` and the buttons of
`LastRunCrashDialog.cpp` over many process lifetimes.

* **State.** `file` is the recovery file (`NoFile`, `Corrupt` for an empty
  or unparsable one, or a record of `shouldRecover` and
  `shouldUploadCrashReports`); `member` is the CrashHandler object's copy;
  `phase` is down, crashpad installed, or CrashHandler constructed; `run` is
  the build type and the two environment variables of the current process;
  `crashpadUploads` is the crashpad database's upload flag, which outlives
  the process; `uploadUrl` and `canRestart` are what `installCrashHandler`
  gave the handler of this process; `pending` says the database holds
  reports not yet uploaded; `dialogOpen` and `restartPending` follow the
  crash dialog and crashpad's restart. `recoverExpected` is a history
  variable: the user's last restart choice, reset to the default when a
  torn write destroyed the file.
* **Actions.** `StartProcess` (any build and environment) and `Restart`
  (crashpad, same environment, dialog shown) both run `Install`, which sets the database flag through
  `ApplyCrashUploadPreference` (with `ApplyFails`, a failure leaves the flag
  an earlier process set) and the URL through `CrashUploadUrlForRuntime`;
  `ConstructHandler` is the constructor, at any point after installation, so
  the dialog may act before or after it (where the dialog is created is
  outside `src/`); `SaveShouldRecover` and `SaveShouldUploadCrashReports` are
  the member saves (in `src/` only the constructor calls them; the settings
  page that also does is outside it); `DialogSend(keep)` and `DialogOk` are
  the dialog's buttons (Send enables uploads for the session, or fails and
  warns); `Upload` is the handler sending the pending reports; `Crash` and
  `Exit` end the process, a crash leaving a report. Every write (`Write`)
  may be torn: truncated, then the process crashes.
* **Runs.** `crash_recovery` (pass, debug and release builds, every value of
  `OPENEMOTE_DEV_CRASH_REPORTS`, torn writes): `RecoverChoicePersisted`, the
  restart preference on disk is always the user's last choice or the
  default; and `DevModeStaysLocal`, the dialog's "crash reports stay local"
  in developer mode without an override URL: no upload happens there, even
  when the database still has uploads on from an earlier process and
  resetting it failed (the empty URL is what keeps the reports local).
  No run states "reports leave only with the user's consent". The ways it
  could fail all need a caller outside `src/`. The member saves write a
  stale upload flag back after the dialog's static save, or persist the
  developer-mode forced flag. Both need the settings page, and the first
  also needs the crash dialog acting after the `CrashHandler` exists. The
  third way is a failed reset of the crashpad database after a "Send crash
  report" session, and whether it breaks a promise depends on when the
  dialog is shown. These stay hazards in `PROJECT.json`.
* **Dialog text.** `UploadNotice` is the dialog's choice among its three
  upload notices ("uploaded ... using the configured override URL", "stay
  local by default", "stored locally unless you explicitly choose to send
  them"). It is chosen from the same dev-mode and override checks the
  handler uses. `DevModeStaysLocal` is stated as "no upload while the
  dialog says reports stay local".
* **Bounds.** The state space is finite without bounds: two booleans on
  disk and in memory, two builds, three values of the dev variable, the URL
  override on or off, and the database flags. No fairness: the properties
  are invariants and action properties.

## Cheermotes (modelled)

`Cheermotes.tla` models the cheer path of the word walk: the `bits` tag
seeding `TextState` in `makeIrcMessage`, the cheer branch of
`addTextOrEmote`, and `tryAppendCheermote` as a RECURSIVE operator with the
stack depth bounded by `MaxRecursion`. A word is a prefix and a numeral;
`TwitchChannel::cheerEmote` and its regex (outside `src/`) are a set of
prefixes matching positive numerals. Each step walks one word; the next
message starts when the words run out.

* `BitsAccounted` (the amounts on the cheer elements and the bits left add
  up to the tag, never below zero; with `stackBits`, chosen per message, at
  most one counter is shown, holding the whole tag) and
  `CheerRecursionBounded` (the rewrite recursion ends for every non-negative
  tag) are checked in `message_words`, over the text pieces the word walk
  actually produces (see `MessageWords`).
* `cheermotes_negative_bits` (violation): a tag of -1 and the word `Cheer1`
  recurse without end (finding against the spec's "the numeral strictly
  shrinks each call").
* **Bounds** (of the violation run, `MCCheermotesNegative.cfg`). Messages of
  up to three words from {Cheer, Hello} x {1, 2, 3}, tags -1 to 2, and a recursion
  depth of 4, enough for a tag of 1 to pay a cheer of 3.

## EmoteOccurrences (modelled)

`EmoteOccurrences.tla` models the Twitch emote path of `makeIrcMessage`
(`MessageBuilder.cpp` 3005-3026) and `addWords` (3711-3807) with
`doesWordContainATwitchEmote`. The content is a sequence of word lengths, an
occurrence its declaration index, start and end, an element its kind and the
content positions it renders.

* **Actions.** `BuildWords` is the whole build: `SortedByStart` gives every
  order `std::ranges::sort` (not stable) may produce, `UniqueByStart` keeps
  the first of each run of equal starts, and `AddWords` folds `WalkWord` (a
  RECURSIVE operator for the inner while loop) over the words. A behaviour
  builds one message and stops, so the run has `CHECK_DEADLOCK FALSE`:
  messages are independent and nothing carries over between them.
* **Properties**, checked in `message_words` (see `MessageWords`): `OccurrencesStrictlySorted` (what
  `unique` leaves has strictly increasing starts), `RenderingCoversText`
  (every character is rendered once, in order; the cursor arithmetic never
  drifts) and `EmotesNotLost` (each kept occurrence inside one word that
  overlaps no other is rendered as its emote).
* **Bounds.** Those of `message_words`: every well-formed list of up to three
  occurrences, duplicates at one start included.
* **Not covered.** Which duplicate survives the unstable sort is not checked:
  libstdc++ sorts up to 16 elements by insertion sort, which keeps
  declaration order. Offsets shifted onto a space by ignore phrases
  (`processIgnorePhrases`, outside `src/`), which stall the iterator, are
  listed as a hazard.

## MessageWords (modelled)

`MessageWords.tla` models the body of `makeIrcMessage`: the word walk
composed with the cheermote accounting and the elements the builder
appends. `Walk` is `EmoteOccurrences` with its words bound to `content`,
`Text` is `Cheermotes` with its words bound to the text pieces not yet
appended.

* **State.** The walk's variables; the `TextState` seeded from the bits tag
  (`makeIrcMessage` 2995-3004); `items`, the walk's Twitch emotes and text
  pieces in order; `done`, how many were appended; `elements`, the builder's
  elements after the header, each a kind (emote, layered emote, text, link,
  mention, bits) and the items it renders; `dropped`, the cheers stacking
  mode swallowed (a history variable).
* **Actions.** `AddWords` is the walk (one step: its cursor and iterator
  never read the elements) and the items it hands on, each text piece any
  word of `Words`. `EmplaceTwitchEmote` appends the walk's next Twitch
  emote. `AddTextOrEmote` is the whole of `addTextOrEmote` for the next
  piece: `tryAppendCheermote` when the message has bits (a cheer's static
  and animated emotes and its amount are one bits element, the amount text
  last); otherwise `tryAppendEmote` (a zero-width emote merges into an emote
  element before it, which becomes a layered one, or into a layered
  element), `addLink` (a glued prefix, the link, a glued suffix), the
  mention branches (the mention and its remainder text) and
  `appendOrEmplaceText` (text joins a plain text element before it).
* **Abstractions.** A text piece is a cheer prefix and numeral plus its
  class: what `parseEmote`, the emoji parser, `linkparser::parse` and the
  mention regexes (all outside `src/`) make of it. The two settings that
  gate branches (`enableZeroWidthEmotes`, `findAllUsernames`) are folded
  into the classes: with a setting off the piece behaves as another class.
  The header before the body is never an emote or plain text element
  (username, compact author line or reply preview), so it is one `header`
  element. Colours and trailing spaces are left out: every text element
  `addTextOrEmote` can leave last has the message's text colour and its
  trailing space.
* **Run.** `message_words` (pass), over one message per behaviour
  (`CHECK_DEADLOCK FALSE`: messages share nothing): the three walk
  properties and the two cheer properties above; `RenderedInOrder`, every
  appended item is rendered by exactly one element, in walk order, but the
  cheers stacking swallows (releasing an emote to re-emplace it as a layered
  one, merging text, and the extra elements of links and mentions never
  lose, repeat or reorder a word).
* **Bounds.** Contents of up to three words and three characters (an emote
  at the start, middle and end of a word, two emotes in one word and empty
  words all occur); text pieces `Hello` of each of the six classes or a
  cheer of 1 to 3 bits; tags none or 0 to 3. With four characters the run
  takes six minutes; every mutant of the walk is still detected at three.

## MessageHeader (partly modelled)

`MessageHeader.tla` models the header `makeIrcMessage` builds before the
words, and the timestamp rule it applies after the header. Both are
synchronous functions of their inputs, so they are operators, not actions.
The `message_words` run checks them over every combination of their
inputs, as invariants that hold in every state whose first element is the
header. `MCMessageHeader.tla` checks the header on its own: one
`makeIrcMessage` input per state.

* **Header.** `HeaderInputs` is every combination of the two layout
  settings, the action and whisper flags, the sender's role, the reward
  lookup, the thread the caller found and the reply tags. `Header` joins, in
  the code's order, `RewardElements`, `AppendChannelName`, `ParseThread`,
  `ModerationElements`, `BadgeElements`, `CompactHeader` and
  `UsernameElements`. An element is its kind and the message it refers to.
  Colours, links and display names are left out.
* **Timestamps.** `ShouldRenderTimestamp` is
  `shouldRenderOpenEmoteTimestamp`, with `ThresholdSeconds` the clamped gap
  setting. Gaps around the clamp bounds (59/60 s, 400/401 min) and
  negative gaps (clock skew) are included.
* **Properties** (pass, in `message_words`):
  * `ReplyContextAtMostOnce`: `parseThread` reads the raw compact setting
    and the compact header reads `compactHeaderLayout`. Even so, the
    replied-to author and text are never rendered twice.
  * `TimestampFollowsGap`: in gaps-only mode, whatever the gap setting
    (including 0 and 401), a message after more than 400 minutes of silence
    gets a timestamp. So does a message in a channel with nothing timed.
    One less than a minute after the newest timed message does not.
* **Run** `reply_quote_blocked` (violation, finding):
  `ReplyQuotesRepliedTo` is spec.md's message builder step 8. A reply
  always shows the message it replies to, every reply element quotes that
  message, and a blocked user's reply shows only the placeholder. It fails
  in two ways:
  * `parseThread` returns early on the raw compact header setting. The
    compact header is drawn only under `compactHeaderLayout`, which also
    excludes actions and bot-compatibility mode. So a `/me` reply with the
    setting on shows no reply context at all. This is the input TLC
    reports.
  * The compact header quotes a reply known only by its tags by name and
    body without the `isIgnored` check. So a blocked user's message is
    shown where `parseThread` would show "[Blocked user]".
* **Not modelled here.** Highlights and system messages, whose formatting
  no property tells apart.

## Onboarding (modelled)

`Onboarding.tla` models `showOpenEmoteOnboardingIfNeeded`, the call in
`Application::run` and the `ABOUT_TO_QUIT` flag of `aboutToQuit`, and
composes with it the start-up's integration ticket and the login dialog,
which write the same settings.

* **State.** The two persisted settings (`shown`, `revision`), the skip
  conditions, the atomic `scheduled` flag and retry counter, the pending
  single-shot timer (`first` for the 100 ms lambda, `retry` for a retry),
  whether the dialog's `exec()` is running, and the environment: main window
  visible, another modal dialog up or the window minimized (`obstructed`),
  quitting. `modalWaits` and `gaveUp` are history variables. The redeem
  request's state, the image uploader settings (`uploader`: the form of
  its Authorization header, the token, who wrote it) and the keychain's
  `openemote/imageUploaderBearer`.
* **Actions.** `Run`; `RetryFires` (the retry timer calls the function
  again); `FirstFires` (the whole lambda up to `exec()`: the quit and
  already-shown exits, the hidden-window and obstructed waits through `Wait`,
  or the dialog opening with the counter reset); `DialogCloses` (the whole
  accept handler: if accepted and the import page says so, the legacy files
  are copied by `ImportLegacySettingsFiles` and the accounts imported by
  `ImportLegacyTwitchAccounts`; accepted or not, the revision is recorded
  and the flag released; the self-host page's uploader, `SelfHostUploader`,
  a plain bearer or none); `SaveSettings`, a save of the in-memory settings
  document over `settings.json` (the one the handler requests, or any later
  one). `RequestRedeem` (in `initialize`, before `Run`: no URL or a blank
  ticket sends nothing) and `RedeemAnswered` (once the event loop runs: the
  pack applied by `ApplyIntegrationPack`, or an error). `PasteLogin`,
  `AddUser` and `Handoff` call `LogInWithCredentials` (nothing written if a
  field is blank). `Handoff` reads the answer's credentials through
  `ExtractCredentials`, the `credentials` object, else `data`, else the
  root. An object there with a field missing fails the handoff, even when
  a later candidate holds all three. `HandoffPayloads` are the object or
  non-object cases of each candidate. `ToggleVisible`, `ToggleObstructed` and `Quit` are the
  environment.
* **Integration pack** (`IntegrationPack.tla`). A pack is abstracted to
  whether it passes the checks (every one returns before anything is
  written), its Authorization header (none, a literal bearer, a
  `${secret:name}` placeholder), whether `secrets` is empty or names the
  placeholder, whether `importSettings` succeeds and its `oauth` member.
  `ResolvedAuth` is `resolveSecretPlaceholders`, `PersistAuthorizationSecret`
  moves a plain bearer to the keychain and rewrites the header as a
  reference; `ApplyIntegrationPack` runs them in the code's order, with the
  `oauth` checks after the import.
* **Login dialog.** The handoff request and its answer are one step: nothing
  in the model reads the disabled button. The dialog's lifetime while the
  request is in flight is not modelled (see the hazards).
* **Legacy import** (`LegacyImport.tla`). A profile is what
  `findLegacySettingsDirectories` finds first: found or not, its JSON files in
  directory order (name, whether the name, type and size filters pass,
  whether it parses) and its accounts (user id, name, whether all four
  fields are non-blank), and the legacy current user. The settings directory
  is the origin of each file: none, the profile's own, or legacy.
  `ImportLegacySettingsFiles` folds the copy loop with its considered cap,
  the skip of existing files but the layout, the layout removed before its
  copy, and copies that fail; `LoadLegacyTwitchAccounts` skips blank accounts
  and keeps the first of each user id; `PickImportedCurrentUsername` is the
  three-way choice of the current user.
* **Assumptions.** `Settings::requestSave` and pajlada's save are outside
  `src/`: a save writes the whole in-memory document, which did not read a
  file copied behind its back. `importSettings` (the image uploader's) is
  outside `src/` too: it replaces the uploader settings, headers joined
  with `;`, or fails writing nothing. A bearer token holds no `;`, `{` or
  `}`.
* **Refinement** (`OnboardingOffer.tla`). The abstract specification says
  what the scheduler promises, without timers, flag or counters: an offer
  is idle, pending or open; `Start` (the window shown and onboarding
  requested) makes one pending unless onboarding is done or the request is
  ignored; `Open` only while the window is visible, unobstructed, not
  quitting and onboarding not done; `Drop` gives a pending offer up; `Close`
  marks onboarding done; the environment moves the window, the dialogs and
  quitting. `Onboarding`'s `Offer` instance maps `dialogOpen` to an open
  offer, an armed timer to a pending one and `AlreadyDone` to done.
* **Fairness.** Weak fairness on the two timer actions: Qt fires a pending
  single-shot timer once its event loop runs, and the loop keeps running,
  nested inside other dialogs' `exec()` too. The window, the dialogs and the
  user get none.
* **Runs.** `onboarding` (pass): `ScheduleNeverStuck`, a claimed flag is
  always released or leads to the dialog, so no later request is shut out;
  `UploaderBearerInKeychain`, an Authorization header that refers to the
  keychain is backed there by the token it was written for, and a pack
  applied successfully leaves no plain bearer of its own, whether the
  answer comes before, during or after the onboarding dialog;
  `OffersOnboarding`, the scheduler implements `OnboardingOffer`: the
  checks the lambda repeats when its timer fires (done, quitting, window,
  other dialogs) keep the dialog from opening on a stale request, and an
  accepted onboarding is never offered again.
  `onboarding_settings_import` (violation, finding): `ImportedSettingsKept`,
  a `settings.json` the import copied stays the legacy one, fails: the save
  the handler requests writes the in-memory document over it.
  `onboarding_modal_budget` (violation, finding): `ModalWaitHonoured`, the
  scheduler waits `maxModalRetries` times for another dialog before giving
  up, fails because the hidden-window waits are counted on the same counter.
* **Observed, not a run.** `CurrentUserHasAccount`: the current user names
  an account. It holds with one username per user id. Give `u1` a second
  name in `MCUserNames` and check it in `MCOnboarding`, and TLC finds it
  violated in five steps:
  1. The existing account is logged in under its newer name.
  2. The onboarding import writes the legacy profile's older name over the
     account (`Application.cpp:617`).
  3. With no legacy current user to pick, `pickImportedCurrentUsername`
     keeps the current name, which no account carries any more.
  The legacy current user is matched by exact name, while the code ignores
  case; the model keeps names distinct, so this changes nothing here.
* **Bounds.** In the budget run the limits 40 and 30 are scaled to 4 and 3,
  which keeps their order, with no legacy profile; in the passing run to 1
  and 0, so that a wait is retried in one branch and gives up in the other,
  and there is room for the import, the pack and the logins. Three files
  (settings, layout, other), a cap of 2 files, the profile's broken JSON
  file first (so it pushes the layout past the cap); the broken file is
  never copied, so its name is absent from the settings directory at the
  start. Two user ids, and legacy profiles with no account, one, one after a
  blank one of the same id, or the same id twice, and a legacy current user
  that is or is not imported. Eight packs with the bearer `t1`, one per exit
  of `applyIntegrationPack` and per placeholder case; an earlier uploader
  with no bearer or with `t2` in the keychain; the self-host token `t2`.
  The violation runs use one profile with `settings.json` and one account,
  or none.

## GroupWhisper (partly modelled)

`GroupWhisper.tla` models the `/gw` command of `SendWhisper.cpp` and the
helpers of `OpenEmoteSecureGroupWhisper.hpp` it uses.

* **State.** The feature toggle, the current account, the parsed group
  definitions (anchor channel, member set), the credential of each group,
  the `/gw send` commands waiting for their secret, the whispers sent (from,
  to, envelope), the local thread echoes and `threadState()`.
* **Actions.** One per `/gw` action, each with its early returns
  (`CommandRefused`, `List`, `Create`, `Key`, `ChangeMember`, `Delete`,
  `Send`), and `KeyArrives`, the callback of the secret read: the missing key
  notice, or one envelope whispered to each captured member but the
  captured sender (`SendOneGroupWhisper`: Helix refuses the anonymous
  account and a whisper to the sending account itself, `WhisperSelf`), plus the echo through `AppendThreadMessage` and `ensureThread`. The environment
  toggles the feature and switches or logs out the account.
* **Abstractions.** An envelope is the record of its group, channel, text
  and secret: `encodeEnvelope` refuses empty inputs and otherwise only that
  secret opens it. The credential store (outside `src/`) applies writes in
  call order, and a read returns what it holds when it completes.
  `parseEnvelope`/`decodeEnvelope` have no caller in `src/` and are not
  modelled.
* **Run.** `group_whisper_account_switch` (violation, finding):
  `SentAsShown`, the echo names the account the members received the message
  from, fails when the account changes while the secret is read, because
  `sendOneGroupWhisper` looks the current account up again.
* **Bounds.** One group plus an invalid name, three users, one secret, one
  Twitch channel and one other channel, one send. This is the smallest
  setting in which a member other than the sender exists and the account
  can switch to a third user, so no whisper goes to the sending account
  itself. In the trace, u2 sends to the group {u1, u2}, switches to u3, and
  u1 receives the message from u3.

## Not modelled, and why

These parts were read in full. None of them has a state change, an
interleaving or a statement of intent that a model could add to the runs
above, except where a part is noted as partly modelled:

* **Platform registry.** `Application::initialize` fills it once with two
  adapters whose ids differ. The duplicate check never fires, and the
  adapters' `initialize`, `connect` and `aboutToQuit` are empty.
* **API client.** Nothing in `src/` calls it.
* **Group whispers.** `parseEnvelope` and `decodeEnvelope` have no caller in
  `src/`.
* **Layout engine.** Only its tests are in the repository; there is no
  implementation to translate.
* **Crash dialog text and the chrono helpers.** Formatting only. The one
  sentence of the dialog that states a promise, its upload notice, is
  `UploadNotice`.
* **Crash handler argument encoding** (`encodeArguments`,
  `CrashHandler.cpp` 155-167). It joins the restart arguments with `+`
  after doubling each `+`. The encoding is not injective: `["a+", "b"]` and
  `["a", "+b"]` both become `a+++b`, and an empty first argument is lost.
  The decoder is in the crash handler executable, outside `src/`. Its
  behaviour cannot be checked against the code, so no run states it.
* **Message highlights and system messages.** Formatting of the element
  list that no property tells apart.

Also left out: widget construction, drawing, crashpad installation, JSON
and URL formatting, and the keystream cipher (abstracted to an opaque
function where it is needed).
