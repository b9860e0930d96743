# Formal models of OOF RL

OOF RL is a desktop companion for Rocket League: one Go process that reads the
game's local API, turns its packets into events, feeds them to a match recorder
and to WASM plugins, and serves pages to its own window and to browsers. This
directory holds TLA+ models of the parts where goroutines meet, where state
outlives the code that made it, or where an algorithm decides what happens; the
TLC configurations that check them; and proofs that hold for every size.

Contents

1. The system: components, state, interactions
2. The modules and how they correspond to the code
3. What is checked, with which bounds
4. Fairness
5. What is proved
6. Findings
7. What is not modelled
8. Plan
9. Running the checks

---

## 1. The system

| component | source | state it keeps | operations | module |
|---|---|---|---|---|
| Event bus | `internal/oofevents/impl.go` | buffered channel of 256 events, subscriber lists, `stopped`, a `cancelled` flag per subscription | `Start`, `Stop`, `Publish*`, `Subscribe*`, `Cancel`, the dispatcher | EventBus |
| Event translator | `internal/rlevents/translator.go` | GUID of the match in progress, overtime flag | one handler per packet kind | Translator |
| Match recorder, history store | `internal/histstore/recorder.go`, `store.go`, `schema.go`, `internal/db/db.go` | the current match in memory; matches, players, goals and ticks in SQLite | one handler per event; the statements they run | HistRecorder, HistStore |
| WASM plugin host | `internal/wasmhost/host.go`, `http_bridge.go`, `routes.go` | queue of 64 events, subscriptions, worker, mutex around the guest | `Init`, `Shutdown`, closures, worker, HTTP requests, `ApplySettings` | WasmPlugin |
| Plugin registration and lifecycle | `internal/core/server.go`, `internal/plugin/plugin.go` | registered plugins, disabled set | load, validate, sort, init, shut down | PluginStart |
| Rocket League connection | `internal/rl/client.go` 123-203 | the TCP connection, a reconnect token | `Run`, `connect`, `Reconnect`, one goroutine per connection | RLConnection, Feed |
| Packet capture, INI | `internal/rl/client.go` 188-505 | raw packets of the match in memory, the players seen | append, flush to files, abort | PacketCapture, Feed |
| MMR cache | `internal/mmr/cache.go` | generation, calls in flight, entries in SQLite | `Lookup`, `Invalidate` | MMRCache |
| MMR providers | `internal/mmr/fallback.go`, `trackergg/`, `rlstats/` | none | scrape, fall back | - |
| Update checker | `internal/update/update.go`, `handlers.go`, part of `web/app.js` | the last status, what the page shows | `Check`, `RunPeriodic`, the two routes, the push, the poll | UpdateChecker, Semver |
| WebSocket hub | `internal/hub/hub.go` | connected pages | `Register`, `Unregister`, `Broadcast` | - |
| Configuration and HTTP handlers | `internal/config/config.go`, `internal/core/handlers.go`, `middleware.go` | the live configuration and its file | read, change, save | Settings |
| Single instance, logs | `internal/singleinstance`, `internal/logging` | lock file, rotated log | acquire, release, rotate | - |
| Bundled plugin files | `plugin_bundle.go` | files in the plugin directory | copy what differs | - |
| Plugin logic | `plugins/session`, `dejavu`, `ballchasing` and three more | sessions; one cached answer; uploads | event and HTTP handlers inside the guest | Session, DejaVu, Ballchasing |
| Pages, overlay, SDK, tools | `web/`, `internal/overlay`, `sdk/`, `tools/`, `scripts/` | view state | rendering, window calls, encoding | - |

### How they interact

    Rocket League --TCP--> rl.Client --call--> Translator --Publish--> EventBus
                            |     |                                       |
                   capture files  +--hub.Broadcast--> pages   dispatcher, one at a time
                                                                          |
              +-------------------+---------------------------+-----------+
              v                   v                           v
         Recorder            plugin closures           mmr Invalidate
              |                   | queue of 64               |
           SQLite            worker --mutex--> guest <--mutex-- HTTP requests
                                                              |
                                     pages --HTTP--> mmr.CachedProvider
                                     pages --HTTP--> config --> file, plugins, Reconnect

* The client hands every packet first to the capture and then to the translator, in
  its reading goroutine; the translator publishes and never waits: a full bus drops.
* The dispatcher calls recorder and cache synchronously, and plugin closures,
  which enqueue without waiting: a full queue drops.
* HTTP handlers run beside everything and enter the guests, the cache, the update
  checker and the configuration; those that change the configuration ask the client
  to reconnect.
* Guests read what the recorder wrote through host functions, which answer from the
  same database.
* `main.go` shuts plugins down, then stops the bus, then the HTTP server
  (197-200): requests are still served while plugins shut down, and events are
  still dispatched.
* All tables share one SQLite connection (`db.go` 27).

### What is hard here, and what makes each component correct

* *Event bus* - publish tests `stopped` and sends later, Stop closes the channel;
  subscriber lists change under the dispatcher; Cancel does not wait. Correct when
  subscribers see a sub-sequence of the accepted events in order, miss none that
  was accepted, and Stop returns only after the drain.
* *Recorder* - events arrive late, lost or repeated, in any order, through restarts
  and failing statements. Correct when data never ends up under another match, no
  match stays open by accident, outcomes are final, and a replay or a leaving player
  does not spoil the final snapshot.
* *Plugin host* - four kinds of goroutine around a guest that is not
  goroutine-safe, with a mutex that is held while a client sends its request. Correct
  when the guest runs one call at a time, shutdown comes after the last event, and it ends
  if no client stalls.
* *Plugin startup* - any dependency graph the installed files make. Correct when
  requirements come first and startup is refused exactly when they cannot be met.
* *Translator* - correct when the published events alone tell a subscriber which
  match is on.
* *Connection* - goroutines of dead connections compete for a reconnect token.
  Correct when a request to reconnect is never lost.
* *Capture* - connections break in a match, and the setting is read several times for
  one packet while a request changes it, and each file may fail. Correct when what is
  written is of one connection and, unless its own metadata or a change of the setting say
  otherwise, holds every packet from the first that names the match to the match end. A
  capture of the podium, which lacks the match, and players of a match that broke off
  with its connection are what the code lets through (section 6).
* *Settings* - a setting lives in the configuration, its file and the memory of the
  plugins; nothing locks it, each step may fail, and the file is truncated before it
  is written. Correct when what a request alone was acknowledged is there after every
  crash until another request begins, a failed post of the configuration leaves it alone
  (but for the list of disabled plugins: section 6), and plugins have what the
  configuration says as long as they refuse nothing and requests do not overlap. A change
  lost to an overlap, or to a crash within a later save, is not promised to survive.
* *MMR cache* - lookups race with match boundaries and share calls. Correct when one
  call runs at a time, a hit is of this match, and a failure does not hide ranks
  that are stored.
* *Update checker* - checks overtake one another, pushes get lost. Correct when the
  page ends up with the truth and no offer leads back.
* *Session* - times lose their fractions on the way to the database and not in memory.
  Correct when sessions that follow each other lose no match and count none twice.
* *Deja Vu* - one answer is cached while events are late or dropped and the history
  grows. Correct when an answer is what a new query would give.
* *Ballchasing* - the service, the database and the file system fail one by one. Correct
  when no replay is deleted that the service never accepted, and replays written in time
  meet their own matches.

---

## 2. The modules

`PROJECT.json` maps every definition to its lines; this section says what each
module abstracts and why.

**OrderedBroadcast** is the abstract specification: one log of accepted entries, one
dispatcher, each entry handed to each subscriber at most once and in order, any
entry may be skipped for any subscriber. **EventBus** implements it
(`BroadcastSpec`), and so does the event queue of **WasmPlugin**, with the worker as
the only subscriber and another mapping of the variables.

**EventBus** (`impl.go`). Publish is two steps, the test of `stopped` and the
non-blocking send; between them the channel may fill up or be closed. Stop is three
steps. The dispatcher takes an event, copies the subscriber lists, tests each
`cancelled` flag and calls the handler, each a step of its own; a handler may panic,
be cancelled while it runs, and subscribe or cancel others. Of an event the type and
the certainty are kept. `log`, `seen`, `subAt`, `cancelAt` and `sawRunning` are
history: no guard reads them.

**Journal** is the abstract specification of the history: a page per match, opened once
by the only writer, filled when the writer leaves it, never changed again; a page left
without an outcome is marked as lost, one that was written to for another match as
borrowed. Leaving a page and opening the next is one step, as it is one handler.

**HistStore** holds the writing statements of `store.go` as operators on a database
value, **HistRecorder** the handlers of `recorder.go`. A handler is one action, with
the flush, the end of the old match and every store call it makes; store calls may
fail one by one (`StoreErrors`). The database is one value because every statement
runs on one connection; it includes `last_insert_rowid`, which the code reads after
an upsert. Of clocks only "more than 5 seconds" and the match they came from matter,
of players the match of their snapshot and whether their touches are live.
`own`, `holds`, `foreign` and `orphans` are history. HistRecorder implements Journal
(`JournalSpec`) with the rows as pages, the row that the recorder inserted as the current
page, `orphans` as the lost and `foreign` as the borrowed ones.

**WasmPlugin** (`host.go`, `http_bridge.go`). Main runs Init and Shutdown, the
dispatcher enters a closure for each event, the worker receives, locks and calls, HTTP
handlers lock, read the body of their request, call, and write the answer, all of it with
the mutex held. The closed flag of the queue, the cancelled subscriptions and
the wait for the worker are separate steps in the order of the code. The recovered
panic of a late send is a step that loses the event.

**Translator** (`translator.go`). One action per kind of packet, for any GUID or none.
`out` is what the packet published; `seenGuid` and `seenOvertime` fold the published
events the way a subscriber must.

**RLConnection** (`client.go` 123-203). The token is a channel of capacity one; every
connection leaves a goroutine that may take the token, close its connection (again)
and put the token back.

**PacketCapture** (`client.go` 188-441). `handle` reads the setting up to three times
for one packet, and an HTTP request may change it between two of them: a packet is
one action with three readings. The buffer keeps what makes a capture worth having: the
connections its packets came from, whether the first is the first of its connection that
names the match, whether one is missing, whether the last ends it. A directory that cannot
be made drops the packets; of the two files of a chunk the second may fail, or both, and
`complete` says whether the metadata then count every chunk. `file` is what the last step
wrote; `switched`, `heard`, `named` and `over` are history.

**Feed** composes the last three: a packet goes through the capture and the translator
in one call, a lost connection drops what is captured while the translator remembers
its match, and an HTTP handler changes the setting, may then fail to save, and
otherwise asks for a reconnect.

**Settings** (`handlers.go` 24-56, 251-350; `config.go`; `ApplySettings` of `host.go`).
One request is a sequence of steps: the change (of a copy for `/api/config`, of the live
configuration for `/api/settings`), the plugins one after the other, `os.Create`, which
truncates, the write, the swap and the answer. Any step may fail, the process may crash
between any two, and requests overlap as nothing locks them. Of the configuration the
model has one number that `Load` fills in when it is 0, the list of disabled plugins, and
the settings with a key, one of which older files hold at the top level (the migration).
The copy that `/api/config` decodes into shares the array of that list with the live
configuration: decoding writes over the live one (`Overwritten`), also when another field
has the wrong type and the post is refused (`RejectConfig`). `promise`, `mixed` and a
request's `alone` and `before` are history.

**Session** (`plugins/session/logic.go`). The clock counts ticks, several to a second;
what is saved is cut to the second, as is the start of a match when it is read, and
`since` is not. `chain` remembers the sessions saved one after the other.

**DejaVu** (`plugins/dejavu/logic.go`). The plugin hears of the game through a bounded
queue, late; a recall is one step, since calls into the guest exclude one another. The
SQL of the encounters is a set of rows, the aggregation folds over them, and the property
counts the history anew. `answer` is the last answer, `stayed` history.

**Ballchasing** (`plugins/ballchasing/logic.go`). Upload, sync, purge and the matching of
files to matches. The service may take a file and not say so; the database may refuse a
row and the operating system a removal. Which matches the query yields depends on how the
driver writes times, so any may be missing; the start of a match is cut to the second as
it is read (`StartedAt`), the time of a file is not. A file that a sync finds is recorded
under the name the service has for it, so one the user has renamed counts as not
uploaded. `accepted` and `removed` are history.

**Guests** composes the last three as they run: in one process, each in a guest of its
own, so that a step is a step of one of them.

**MMRCache** (`cache.go`). For one player. A lookup loads the generation, reads the
entry, joins the call in flight or leads one, stores, closes and unregisters; each of
these is a step, and match boundaries, expiry and the deadline of the request come
between any two. A restart keeps the entry and forgets the generation.

**Semver** is the comparison of `update.go` 228-364 as a relation on parsed versions;
**UpdateChecker** has the checker, the manifests of the two channels, the user who
installs and one page. A check chooses its channel, reads, records under the lock,
announces outside it and answers, each a step; any number of checks run at once. The
rolling dev manifest and the stable one follow the rule the comments at
`update.go` 28-35 state; they are external.

**PluginStart** (`server.go`). Plugins are records of an ID and a list of
requirements, which may repeat. Files are read in order, the count and the queue
of `topoSort` are the code's; the queue is a set, since the order among plugins that
are ready is of no consequence to what is claimed.

The **MC** modules give the constants values and say what a run chooses at its start;
**EventBusProofs, RecorderProofs, FeedProofs, WasmProofs, SettingsProofs,
MMRCacheProofs, UpdateProofs** and **PluginProofs** (PluginStart and Guests) hold the theorems.

Definitions that nothing but `PROJECT.json` refers to, each before the definition that it
resembles, are not part of a specification: each is that definition with a plausible
slip, and replacing the definition by it makes one property fail, which `PROJECT.json`
lists under `mutants`. They show that every property depends on the code it is about.

---

## 3. What is checked

| run | instance | question |
|---|---|---|
| EventBus | two publishers, two subscribers, a stop | Does the bus implement the ordered broadcast? Is no accepted event missed or repeated, does Cancel stop all but the event in hand, does Stop drain and return, and who can hit the closed channel? |
| HistRecorder | two matches with failing statements and restarts; one match with every roster of two players (0.7 million states) | Does data stay with its match, no row stay open, is the store a journal whose pages are opened and filled once, is every forfeit a lead, and are live touch counts kept, and does the roster not get smaller, until the final flush? |
| WasmPlugin | main, dispatcher, worker, two requests | One guest call at a time, shutdown after the drain, shutdown returns if no client stalls, and the queue is again an ordered broadcast. |
| Feed | four connections and three reconnects; two connections with all packets of two matches, a switched capture and failing files (0.2 million) | Is a reconnect lost, does it happen? Is a capture that does not say otherwise whole, and whose players does it list? Can a subscriber follow match and overtime from the events alone, across connections too? |
| MMRCache | two lookups, two boundaries, a restart | One call at a time, hits of this match, fallback, every lookup returns. |
| Settings | two requests, two plugins, four posts that may not decode, crashes, torn files (0.6 million) | Does what was acknowledged survive, does a failed post of the configuration touch only the list of disabled plugins, do plugins hold what the configuration says? |
| Guests | plugins that start, with every dependency graph out of eight lists for three of them; three that work, one at a time (1.3 million) | Are requirements initialised first, and is a start refused exactly when unsound? Is a match lost between sessions or counted differently live and saved? Are cached answers fresh and errors retried? Is a replay removed that was never accepted, or shown with another match though written in time? |
| UpdateChecker | three releases, two builds, two checkers | No offer of what ran before, every offer announced, the page catches up. |
| HistRecorder_upsert, WasmPlugin_overlap, MMRCache_restart, Settings_alias | | the violations of section 6 |

### Bounds, and why they are enough

* *EventBus*: two publishers, capacity 1 and three publishes let one publisher be
  between test and send while the other fills the channel or Stop closes it; a
  typed, filtered and a catch-all subscription exercise both lists. More of either
  repeats the same pairs; the theorems cover the rest.
* *HistRecorder*: two matches and two rows let every event of one arrive in the other, a
  rejoin after a restart included; one goal (`MaxScore`) makes a lead, and `EndMatch`
  fails, without which a row stays open; goals, stored as stat feeds are, come only in
  the other scene. In that scene two players are needed for
  one to leave while the other stays, and `UpsertMatch` fails, so that a roster is also
  held without a match and the next packet tries again. The scene is chosen at the
  start, and so is the match in the second one.
* *WasmPlugin*: capacity 2 and six events fill the queue and overflow it; two
  handlers contend for the mutex with the worker.
* *Feed*: four connections allow three dead goroutines beside the live one, three
  reconnects a token in the channel, one in passing and one more. With packets, two
  connections are enough for a match that begins on one and ends on the other; packet
  kinds that all parts treat alike are taken once, and a GUID that nobody reads is
  not varied (`MCPackets`). A connection breaks there as it is read; that Rocket League
  closes one unseen belongs to the other scene. The scene stops when both matches are over: a podium of the
  first, with and without the second in between, comes before that.
* *Settings*: two requests overlap in every way; of two plugins one refuses while the
  other has taken its values; the four posts are the number with the list, one key, the
  other, and everything, with the first key cleared. The list has two entries, so that a
  posted one of one writes over a part. The file may begin absent, or hold a legacy key
  and any list.
* *Guests*: two ticks to a second are the least with a fraction; two sessions and two
  matches let a match fall on the moment between. Two matches, one of an earlier run,
  three players, of whom one has no stable id, a third team and a queue of one let
  rosters grow, events be dropped and an answer go stale. Two replays compete for
  the matches of three seconds, which with two ticks each have files in the second of a
  start, before and after it. Three plugins that start are the smallest number with a
  diamond's count, a circle of three and a circle beside a plugin that is not part of it.
* *MMRCache*: two lookups are a leader and a follower; two boundaries put one before
  and one during a call; a third lookup would be a second follower, which the
  theorems cover.
* *UpdateChecker*: a stable release, a prerelease of the next and its release make
  the chain a dev-mode user lives through; a release may come again after another,
  which gives every order of manifests. One request beside the periodic check is
  enough for them to overtake each other. `ChainIsOrdered`, which TLC evaluates in
  this run, compares `IsNewer` with fifteen versions in the order of
  `docs/dev/auto-update.md` and of the Semantic Versioning document.

Counters that the code leaves unbounded are bounded in guards (`MaxPublish`,
`MaxEvents`, `MaxDials`, `MaxReconnects`, `MaxBoundaries`, `MaxCalls`, `MaxExpiries`,
`MaxRestarts`, `MaxRowid`, `MaxScore`, `MaxTime` (given as `SessionTime` and
`PlayTime`), `MaxMatches`, `MaxSaved`); each is named in its module.

`CHECK_DEADLOCK FALSE` is set where the system really stops (the bus and a plugin
after their shutdown, startup when it is refused or everything is shut down) and where
a bound stops it (Feed, Guests, MMRCache); the liveness properties of Feed and MMRCache
show that nothing waits there for ever.

---

## 4. Fairness

* EventBus: the dispatcher goroutine and the goroutine in Stop are scheduled.
  Publishers are not assumed to do anything.
* WasmPlugin: main goes on with a shutdown it began, the worker receives and leaves
  its loop, and the guest's calls end (wazero calls are assumed to return). The
  worker's lock is strongly fair, since Go's mutex hands itself to a waiter after a
  millisecond. An answer is written, or fails, within the server's `WriteTimeout`. Init,
  new requests and the dispatcher owe nothing. For the body of a request nothing in the
  code vouches, so it is not fairness but a premise of the property (`ClientsGoOn`):
  `serveHTTP` reads it with the mutex held, and the server has no `ReadTimeout`.
* Feed: Run is scheduled and its dials end, a closed connection's read fails,
  and the goroutines of each connection go on. Rocket League is not assumed to close
  anything or to send packets, nor handlers to do anything.
* MMRCache: each lookup's next step, nothing about match boundaries or deadlines. A
  provider that panics is left out: nothing is deferred around the call (`cache.go`
  140), so it would stay in the map, open, and every later lookup of that player
  would wait for it until its own deadline.
* UpdateChecker: requests for manifests end (30 s timeout), the page polls, the
  periodic check begins. Not every periodic check fails: strong fairness of
  a fetch, without which nobody could promise that a page catches up.
* HistRecorder, Settings, Guests and PluginStart state safety only and assume no fairness.

---

## 5. What is proved

All proofs are by TLAPS, from the assumptions named in the modules (`BusAssumption`,
`FeedAssumption`, `SettingsAssumption` and the like: they only give constants
their types) and for every value of the constants.

* **EventBusProofs.** `TypeCorrect`, `PublicationOrder`, `BufferCorrect`,
  `Completeness`, `PromptCancel`, `DrainOnStop`, `PanicWindow` and `Refinement`
  (the bus implements OrderedBroadcast). The invariants that are not inductive by
  themselves are strengthened in EventBus' last section: order needs that nobody
  still to be called has been handed the current event (`FreshInv`) and that lists
  hold a subscription once (`RegistryInv`); completeness needs that everybody due
  the event has it or is still to be called (`CoverInv`); promptness that a
  subscription cancelled between test and call is charged the current event only
  (`InFlightInv`).
* **RecorderProofs.** `RecorderTypes`, `OwnDataStored`, `OnlyCurrentOpen`,
  `StoreIsAJournal`, `OutcomesStay`, `ForfeitsLead`, `LiveTouches` and `RosterStays`, for
  any number of matches, players and rows and any failing statements. The inductive
  invariant is what recorder and database have to do with each other: the recorder's row
  is one that it opened, of its own match, and still as it was inserted until it is
  flushed once (`RecInv`), and whatever else is open is marked as left (`DbInv`). Every
  statement keeps `Sound` and only lets rows evolve in one direction (`Evolves`), so each
  handler is a chain of statements: what a flush leaves (`Stays`), then what an upsert
  adds (`Begins`), then a statement that changes no row (`Same`), which together are one
  step of Journal (`OneTurn`). `HeldAfter` says what a packet does to the roster.
* **FeedProofs.** `ReconnectIsKept`, `PacketsOfOneConnection`, `EventsTellTheState`,
  `RestartsAreNamed`, `WholeCaptures` and `OwnPlayers`, of the composition, for any number
  of connections and matches. `FeedInv` joins the invariants of the three parts; the
  capture's says that a buffer that is not empty belongs to the connection that is read,
  has the match's name, and misses nothing unless the setting was switched; and that it
  began with the match's first packet on that connection unless the match was over.
  `OwnPlayers` says that players are forgotten at a match end; it does not say that they are
  of the captured match, and after a lost connection they need not be.
* **WasmProofs.** `GuestCallsAlone`, `DrainedBeforeShutdown` and `QueueRefines` (the
  queue implements OrderedBroadcast), for any number of requests and any capacity. Who
  is in the guest holds the mutex unless nobody else can be there (`GuestInv`); what the
  worker took is what it hands over next, and once it is gone the queue is empty
  (`QueueInv`).
* **SettingsProofs.** `AcknowledgedIsKept`, `FailureIsHarmless` and `PluginsAgree`, for
  any number of requests, plugins and keys. A request that is alone stays the only one
  busy, so that what it copied is what is live (`AloneInv`); a promise implies that
  nothing is under way and the file is whole (`PromiseInv`); a post that failed alone has
  left what it found, but for the list it wrote over (`FailureIsHarmless`); a plugin lags the
  configuration only in keys that a request still has to give it (`HeldInv`).
* **MMRCacheProofs.** `OneCallAtATime`, `CallsAreLed`, `KeepsServing` and
  `FreshHits`. The argument: the map's call belongs to exactly one leader
  (`Ownership`); what the store promised a lookup it finds or holds (`Fallback`); in
  the first run of the process the generation is the number of boundaries and no
  entry is older than its generation (`Age`, which a restart ends: section 6).
* **UpdateProofs.** `VersionsAreOrdered` and `VersionsCompare`: the comparison is
  irreflexive and transitive, and of two versions that differ in numbers or prerelease one
  is above the other, for all versions (the first place where they differ is a least
  number). `NoPhantomDowngrade` uses the order: every version that ran before is below
  the one that runs, or was not a version at all, and every recorded or shown offer is
  above the running one. `OffersReachPages`: a status is recorded with the obligation to
  announce it, unless the one before it made the same offer.
* **PluginProofs**, of PluginStart: `TypeCorrect`, `RequirementsComeFirst` and
  `SortIsComplete`, for every finite list of plugin files. The heart is that the count
  kept of a plugin is the number of places in its list that name a plugin not yet sorted
  (`Sorting`); so what is queued has everything it requires before it (`Ordered`), nothing
  of a circle is ever sorted, and what is left when the queue is empty is itself a circle.
* **PluginProofs**, of Guests: `GuestsAreTyped` and the six properties of the plugins.
  * *Session*: `SessionsLoseNothing` and `ShownSessionIsSaved`, for any number of matches
    and sessions and any ticks to a second. While a session runs, every moment since the
    chain began lies in a saved session or after the start of the running one
    (`Covered`), and sessions saved one after the other meet in no more than the second
    they share (`Overlaps`, `Ends`). The rest is the arithmetic of cutting a clock to
    seconds, which keeps the order of moments (`Seconds`, `SecondsAreOrdered`).
  * *Deja Vu*: `KeptAnswersAreFresh` and `RetriesAskAgain`, for any finite rosters and
    matches and a queue of any size. A kept answer was right about the history it was read
    from (`KeptIsRight`), and what is recorded since is of the match that is on and so is
    left out by every query of it, while the plugin has not left the match (`Stays`,
    `OtherMatchesCount`). That the aggregation is right at all is `AggregatesCount`: after
    any part of the rows, in any order, each entry counts the matches in that part, which
    is proved by induction over the fold.
  * *Ballchasing*: `NothingIsLost`, because whatever the plugin holds for uploaded the
    service once accepted (`BcInv`), and `ReplaysAreMatched`, for any number of replays and
    matches and any ticks to a second: of one replay that was written before the second in
    which the next match begins, and before any other file in its match's time, whatever
    the others are. The matching gives each match to the best replay left, recursively
    (`MatchingUnfolds`, `MatchingIsRight`).

Induction over data comes from the well-foundedness of `<` on the naturals: a set of
naturals that is not empty has a least element (`LeastNatural`), so a statement about all
of them is proved from its least counterexample (`Induction`), stated of a set and not of
an operator; `FoldsExist` shows with it that the recursive function behind a fold over a
finite set exists. Of the constants, Guests assumes that the matches and players of an
instance are finite sets, as a history is; how many there are is open.

Some theorems state what no run checks, because the properties that are checked rest on
it or, like `OutcomesStay`, follow from them: the type invariants, `PublicationOrder`,
`BufferCorrect`, `CallsAreLed`, `PacketsOfOneConnection`, `VersionsAreOrdered` and
`VersionsCompare`.

Every safety property of the passing runs is proved. Only model-checked is liveness
(`StopReturns`, `ShutdownReturns`, `ReconnectHappens`, `LookupsReturn`, `PageCatchesUp`):
liveness under fairness, and ENABLED, are out of reach of the provers used here. The
findings of section 6 are counterexamples and stay with TLC.

---

## 6. Findings

Four runs end in a violation of something the repository says of itself:

* **HistRecorder_upsert** - `UpsertMatch` returns `LastInsertId`. When the row exists
  already the upsert inserts nothing and SQLite leaves the id of the last row inserted
  into *any* table of the connection. `store_test.go` 66-67 expects the row's own id,
  and passes because nothing else is inserted in between. A match that is joined again
  after a restart may be recorded under another match's id.
* **WasmPlugin_overlap** - `Shutdown` calls `plugin_shutdown` without the mutex that
  "serializes all calls into the WASM module" (`host.go` 62), while HTTP is served.
* **MMRCache_restart** - generations start at 0 with the process, entries keep theirs
  in the database: after a relaunch within the TTL an entry of an older match is a hit,
  against `docs/dev/mmr-providers.md` 113.
* **Settings_alias** - `handleConfig` decodes into a copy, since "a decode error partway
  through the JSON must not leave the live config half-mutated" (`handlers.go` 30-32). The
  copy is one of the struct; it copies the map of settings and not the slice
  `DisabledPlugins` (`config.go` 36), into whose array `json` decodes. A post with a
  shorter list and a field of the wrong type is answered with 400 and has changed the
  live list; so does one that then fails to save.

Smaller disagreements that were met, and are described by the models as the code has
them, without a run of their own:

* `docs/dev/event-bus.md` 208: "All `Publish` calls enqueue"; a full buffer drops the
  event (`impl.go` 60).
* `docs/dev/event-bus.md` 98: `match.started` is the "First GUID assignment for a
  match"; a match first seen in an update packet only advances the GUID and is never
  announced as started (`translator.go` 190).
* `recorder.go` 97: "Replay packets: preserve live touch counts"; a player whom no
  earlier snapshot holds starts with the replay's counts.
* `host.go` 358: "no new events will be enqueued after this"; a closure that passed the
  bus's test of its flag before the cancel may still send.
* `docs/dev/mmr-providers.md` 111: "fetch each player **once per match**"; a failed
  fetch is repeated at the next lookup.
* `docs/dev/api.md` 164 gives the cache a TTL of 5 seconds, `main.go` 86 of 3 minutes.
* Plugins are shut down in the reverse order of their registration, which is that of
  their file names, and not of their initialisation: a plugin may be shut down before
  one that requires it. No document promises otherwise.
* `plugins/ballchasing/assets/view.js` 329: "Only replays already on Ballchasing will be
  removed"; the purge goes by what the plugin recorded, so a replay that was deleted on the
  service since is removed here too (`ChangeRemote`, then `HandlePurge`).
  `OnlyUploadedAreRemoved` promises no more than that the service once accepted it.

What the models show the code to do, that no document excludes:

* *Session* - "new session" ignores what the insert returned: a failed insert loses the
  session (`handleNew`). A match begun in the second in which the session began is
  missing from the live view and counted once it is saved.
* *Deja Vu* - whoever leaves for another match without an end and comes back may be
  given the answer read before (the condition `stayed` of `AnswersAreFresh`).
* *Ballchasing* - the query compares times as text, so it may miss matches. A replay
  written in the second in which the next match begins fits that match, whose start is cut
  to the second (`imports.go` 139-149), and is shown with it; a replay written later
  still takes the match of another, if that has none yet.
* *Plugin host* - a request whose client stops in the middle of its body holds the
  mutex of the plugin, and with it the worker, other requests and Shutdown, for as long as
  the connection stays open (`http_bridge.go` 23-31).
* *Recorder, translator* - a match that is left without its end leaves its overtime flag
  to the next one until a clock packet comes; `SubscribersKeepUp` does not see it, as
  subscribers are told the same. A forfeit is judged by the last clock and scores
  that came, of whichever match; `ForfeitIsALead` asks only for a lead in what is stored.
* *MMR cache* - a follower whose own client is still there gets the error of a leader
  whose client went away; a call begun before a match boundary may overwrite the entry
  of a later one, or be shared by a lookup begun after the boundary. `HitsAreOfThisMatch`
  holds in spite of that, as each entry has the generation that its leader read.
* *Settings* - two requests that overlap may lose one's change, or tear the file, which
  the properties leave out by name (`alone`, `mixed`); a key changed by `/api/config`
  reaches the plugins at the next start only.
* *Capture* - switching the setting in a match yields a part of it. State updates that
  come more than ten seconds after the end of a match open another capture of it, of its
  podium (`client.go` 282). The players of a match that broke off with its connection are
  listed in the capture of the next.

---

## 7. What is not modelled

* Parsing and formatting: JSON, TOML, INI, the scraped pages, the SDK's encoding, the
  marshalling of guest memory, and the host functions that pass a guest's calls on
  (`imports.go`): pure conversions or calls of components that are modelled.
* Rendering and windows: `web/`, `internal/overlay`, plugin assets.
* Queries of the history pages and handlers that only read or serve files.
* Routes: `Register`'s conflict test is a backstop behind the rule that a plugin's
  routes live under `/api/<its ID>/`, and IDs are unique (`PluginStart`).
* The hub: a set under a mutex, of which UpdateChecker uses that a push may be lost.
* The start of the program: the lock of the operating system, log rotation and the
  seeding of plugin files run once, before any concurrency, and are repeated at the
  next start.
* MMR providers: stateless; a fixed order of attempts, whose outcome enters MMRCache.
* The three other plugins (live view, dashboard, ranks) keep no state of consequence.
* Build tools and scripts.
* The length of the queues (256, 64) and of times (5 s, 30 s, 3 min) are
  constants or nondeterminism.

---

## 8. Plan

Done, in this order: EventBus with its abstract specification and proofs; HistStore and
HistRecorder; WasmPlugin; Translator; RLConnection; MMRCache; UpdateChecker; PluginStart;
PacketCapture and Feed; Settings; Session, DejaVu and Ballchasing; the proofs of Feed,
WasmPlugin, Settings and HistRecorder; Journal, and that HistRecorder implements it; Guests
and its proofs.

What would come next, the most important first:

1. **Recording**: Translator, EventBus and HistRecorder composed end to end, with the
   bus's drops: which of the recorder's properties survive a lossy, ordered feed, and
   which need none of its tolerance for disorder.
2. **Hub**: one writer per page, dead pages removed, what a page may miss; composed with
   UpdateChecker.
3. **Startup**: lock, log rotation, seeding of plugin files with crashes, then
   PluginStart.
4. The fallback of MMR providers below MMRCache, and the INI file.

An abstract specification worth stating: an *atomic configuration register* that Settings
implements as long as requests do not overlap.

---

## 9. Running the checks

    tlc -workers 2 -config EventBus.cfg MCEventBus.tla
    tlapm PluginProofs.tla

`PROJECT.json` names the module of every configuration. The longest runs
(HistRecorder, Feed, Guests) take some two minutes on two cores.
