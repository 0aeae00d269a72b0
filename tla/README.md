# Formal model of briihass

briihass is a bridge between Ruckus vRIoT access points and Home Assistant
(HA).  Access points (APs) POST the BLE adverts they hear; the bridge decides in
which zone each tracked beacon is, and publishes that over MQTT.  Everything
runs in one Go process with a Postgres database behind it.

This directory holds TLA+ modules translated from the Go source, TLC
configurations that check them on small instances, and TLAPS proofs.

## The system

| part | state | operations | talks to |
|---|---|---|---|
| ingest handler (`internal/ingest`) | none of its own: one goroutine per request | POST of a batch of adverts: admit, capture, parse, identify, look up, record, submit; POST of a heartbeat | parser, `Engine.IsTracked`, `Engine.Submit`, both writers, heartbeat holder |
| advert parser (`internal/parser`, `internal/ids`) | none: pure functions | `Parse`, `Identify`, `ParseAdvert`, `ParseAdvertDebug` | ingest, admin packet page |
| presence engine (`internal/presence`) | topology, tunables, resolved cache, per-beacon state | `Submit`, `Tick`, `ApplyTunables`, `ApplyTopology`, `RepublishAll`, `RestoreState`, `Snapshot` | events channel, presence_state table |
| configuration (`internal/config`) | none: documents and their validation | `Validate`, `ResolveFor`, `NewTopology` | engine, admin |
| MQTT publisher (`internal/mqtt`) | bounded queue, `seen`/`seenIDs`, declared sensors | `Publish`, `RemoveEntity`, `RepublishOrphans`, `ResyncDiscovery`, `Run`, OnConnect, birth message | paho, retained topics of the broker |
| batch writers (`internal/store`) | bounded channel, current batch, counters | `Submit`, `Run`, flush with one retry, drain | Postgres |
| admin UI (`internal/admin`) | none of its own: store and engine | promote, demote, zones, tunables, settings, refresh, resync | store, engine, publisher |
| retention (`internal/store`) | none: reads the settings snapshot | hourly prune of two tables | Postgres |
| main (`cmd/briihass`) | goroutines, root context, heartbeat holder | boot, warm restore, pumps, persist every 5 s, shutdown, final flush | all |

What is hard here: requests, ticks, operators, paho callbacks, pumps and writers
are goroutines that meet in a mutex or a non-blocking channel operation; three
bounded channels drop on overflow (the event channel the newest, the other two
the oldest); the broker and the database fail and come back; the process is
restarted from state that is up to five seconds old; the sticky, decay, grace
and away timers interact with every other event.  `PROJECT.json` lists these
hazards with the line where each bites and the properties aimed at it.

What makes each part correct:

* engine: arrivals immediate and never invented, zone changes confirmed,
  departures only after the sticky window and no later than `t_away_max_s`,
  every change announced, caches in step with the configuration;
* publisher: no retained state goes back in time; what it believes it has
  declared is retained; the broker ends up with the engine's state; what a demotion
  leaves behind is accounted for, and can still be found;
* writers: each row is in exactly one place or one counter, duplicates are
  bounded, drops are reported, shutdown drains and ends;
* parser: offsets stay in the buffer, a damaged record costs an advert nothing
  but itself, the operator's view agrees with ingest's;
* ingest and retention: each advert ends in exactly one counter, a row tells the
  truth about its POST, is kept for the retention window and then goes;
* process: a clean shutdown hands the last state to the next pod, Home Assistant
  is not taken back by a restart, and shutdown ends although handlers and
  goroutines may be stuck;
* admin: the tables can always be turned into a topology; engine, admin server and
  settings snapshot follow them, unless requests overlapped or the operator was told.

## Modules

| module | models |
|---|---|
| `PresenceEngine` | `engine.go`, `state.go`, `internal/config`, persistence and warm boot |
| `PresenceContract` | abstract specification: what consumers of published states are promised |
| `MCPresenceEngine` | instances |
| `MCPresenceCore` | the engine with history variables `lead` (an independent count of confirmations) and `ticked` |
| `PresenceEngineProofs` | inductive invariant, refinement of `PresenceContract`, arrivals and the sticky window, proved |
| `PresenceCoreProofs` | what a tick leaves behind and that moves are confirmed, proved with the history of `MCPresenceCore` |
| `Publisher` | `publisher.go`, the two pumps of `main.go`, `RepublishAll`'s emission, and what admin promote, demote and refresh hand to the publisher |
| `MCPublisher` | instances |
| `PublisherProofs` | types, what `seen` asserts, what demotions leave behind, orphans and the order of states, proved |
| `BatchWriter` | `writer.go`, `raw_posts_writer.go` |
| `WriterContract` | abstract specification: what handlers and tables are promised of a writer |
| `MCBatchWriter` | instances |
| `AdminSync` | the admin requests of `devices.go`, `zones.go`, `tunables.go`, `settings.go` over the tables of `internal/store`, and boot |
| `MCAdminSync` | instances |
| `AdminSyncProofs` | types, buildable tables, and that engine and documents follow the tables, proved |
| `BatchWriterProofs` | accounting of rows and reports, copies in the table, the drain, and refinement of `WriterContract`, proved |
| `AdvertParser` | `decode.go`, `advert.go`, `debug.go`, the key constructors of `internal/ids` |
| `MCAdvertParser` | the adverts to parse |
| `AdvertParserProofs` | framing, agreement of the three walks and the identity of a packet, proved |
| `Retention` | `retention.go`, `PruneOlderThan`, the two tables and what reaches them |
| `Ingest` | `handler.go` as `main.go` wires it; extends `Retention`, which it composes with the handlers |
| `MCIngest` | POST bodies and budgets |
| `IngestProofs` | accounting of adverts, heartbeats, the retention window, and a row's reading and envelope, proved; `Retention`'s writers against `WriterContract` |
| `Lifecycle` | `run` of `main.go`: boot, goroutines, shutdown, over several pods |
| `MCLifecycle` | instances |
| `LifecycleProofs` | types, the final flush and warm restarts, proved |

### PresenceEngine

One action per exported method of `Engine`, since each holds the mutex to its
end.  `recomputeOne` is an operator with one named operator per case of the Go
function (`NoPresence`, `Arrive`, `InZone`, `Hysteresis`, `Confirm`), returning
the new beacon state and whether an event is emitted.  `closestInPresence` is a
set: on a tie Go's map order decides.  `Restart` boots from the store's topology
and tunables, with the saved rows or, when they cannot be loaded, without.

Abstractions: whole seconds; integer RSSI, the EWMA rounded down; alpha in
`AlphaUnit`-ths.  `ApplyTopology` goes through the resolved cache as the code's two
loops do: `Resolve` resolves every name of the topology anew, `Prune` deletes the
names it no longer has.  Battery, temperature, AP names and raw RSSI do not
influence the state machine and are left out, and so are metrics hooks.

### Publisher

Here the engine is reduced to a version number per beacon (how many states it has
published) and the set of sensors its frames have shown.  An event carries a copy of
both; a retained topic holds the version it was rendered from, so that "newer" and
"current" can be stated.  `enqueue` is three non-blocking selects, hence up to three
steps, run by the pump and by any number of admin requests (`Requests`), each with
the removes it has yet to enqueue (`todo`): one for a demotion, one per orphan for a
refresh.  The remove is an item like any other: it waits behind earlier ones, may be
evicted, refused or published into an outage, and an event of the same beacon that
has not yet reached the queue is handled after it.  `handle` is unfolded into its
publishes and the locked `mark`, because `clearSeen` may run between them.  The
history `excused` names the beacons whose last remove was lost, or was enqueued with
an event of theirs still upstream; `GhostsExplained` says that only they can be left
behind.  The history `forgot` names the entities that the broker retained when
`seen` was last cleared, or whose remove was published into an outage, and that no
event has declared since; `OrphansVisible` says that a refresh finds all others.  A
publish on a link that is down is lost (QoS 0).  `LoseConnection` and `Reconnect`
are paho's and external; a wiped broker is one without persistence.  Marshalling
never fails in the model. "state" stands for the tracker's state and the telemetry
topic, which `handle` publishes one right after the other.

### BatchWriter

Rows are identities.  Both writers are the same algorithm; `keyed`, chosen in
`Init`, says which one is meant: a raw post brings its primary key, so an insert
that repeats a committed one is refused.  An insert attempt has four outcomes:
success, error without a commit, error after a commit (a timeout), refusal.

`WriterContract` is what the rest of the system may know of a writer: rows are
handed over, and are with the writer until a batch of them is inserted or lost;
an insert may commit without an answer, and then its rows stay with the writer.
`WriterKeepsContract` says that `BatchWriter` implements it, with the rows in a
request's hands, in the channel and in the batch as the rows with the writer.

### AdminSync

The database tables are one record; the engine's topology and tunables, the
server's `current` and the settings snapshot are the copies of it.  A request is
validated on arrival (`Begin`), executes its statement (`Write`: refused, executed,
or failed with or without a commit) and then takes one step per query, per engine
call and per publisher call, because no lock spans them.  `RemoveEntity` and
`Reconcile` end the request with or without an error; what becomes of the removes is
in `Publisher`, and what a topology does to beacon state in `PresenceEngine`.
`Restart` boots from the tables.  Form values are members of small sets, `Blank`
standing for every value a constructor rejects; a tunables or settings document is
one value.

Two history variables state what can be expected.  `doubt` holds the copies last
touched by a request that overlapped another one, `told` those whose failure an
operator was shown and which no request has put right since; a request that runs
alone and succeeds takes the copies it establishes out of both.  The passing
properties excuse both, so they are about failures that must not pass as a success
and about repair; what an overlap alone does to the topology is shown by
`stale_apply`, whose property excuses only what the operator was told.

### AdvertParser

A buffer is a sequence of octets and one step is one turn of the loop over its
(length, type, value) records.  The source has that loop three times; the model runs
the three over the same buffer at the same time (`adv`, `debug`, `legacy`), so that
one invariant can compare them.  A decoder returns `None` where the code returns
`nil` or an error.  A record with the iBeacon signature is decoded when it has 25
octets or more, as in the code.  Formatting of hex, UUIDs and
keys is injective and left out; trimming and lower-casing are not, and are modelled,
trimming with every white space character of Unicode as UTF-8 encodes it.  An
expansion code of an Eddystone URL becomes a symbol outside the octets, so that the
text it stands for is not mistaken for white space.  The reference against which
`Identify` is checked, in `IdentityOfPacket`, is stated over the list of records as
a whole: which record decides, not how a loop gets there.

### Ingest and Retention

A request is a record with a program counter in `req`; the handler yields wherever
another goroutine can interfere: after the settings are read, after the envelope is
handed over, between lookup and `Submit`, between the heartbeat holder and the
gauge.  `count` holds the metrics the accounting is about, and `applied`, what the
engine took.  What an advert parses to is chosen by the instance, since
`AdvertParser` is about that.  The writers are two sets of rows, any part of which
is inserted, lost, or inserted without an answer and kept for one more insert, as
`WriterContract` allows (`BatchWriter` has their detail); an envelope is stamped at
its insert and refused when the table has its id.  Time is counted in days; the
prune is two statements, each of which may fail before or after its commit.
`bodies`, `received` and `hbOverlap` are history.

### Lifecycle

The published zones of all beacons are one version number, so that an older state is
a smaller number; 0 is the cold state.  Each pod is a process with its engine, the
way to Home Assistant, the goroutines that touch presence state, the persister's and
the final flush's transaction, and the requests in flight.  `phase` is the place in
`run`, and the two timeouts of the shutdown are steps of their own.  After
`pub.Close` (`Disconnect`) `run` still has to close the connection pool, which waits
with no deadline for the connections of handlers and goroutines that outlived their
own waits (`poolHeld`); every statement has a context that ends within seconds or
with the root context, but the `SaveAll` of the tunables, which has the request's
(`poolHeldSave`).  A goroutine exits at any time after the context is done, leaving
what is in its channel; a periodic save under way at that time may still commit.
Any event on its way to Home Assistant may be lost, not only the oldest: the
publisher's queue evicts behind the item that `Run` holds, and refuses at its end.
`Surge` says whether the deployment starts the next pod beside the old one.  Two
history variables state what can be expected: `clean` (this pod's shutdown met no
timeout and no failure) and `disturbed` (a crash, a failed load or final flush, or a
drain that timed out, at any time).  A boot that fails before the engine exists
(database, seed, topology, settings) ends `run` and is not modelled.

## Runs

Passing runs:

| run | instance | what it shows |
|---|---|---|
| `presence_core` | 1 beacon, 3 APs (office, den, unmapped), 2 readings, times 0..3 | `BackingCoherent`, `TickClearsStale`, `OffFadedAP`, `ArrivalImmediate`, `ArrivalGrounded`, `MovesConfirmed` |
| `presence_config` | 2 beacons, 2 APs, 2 topologies, 2 tunables documents, times 0..2 | `TypeOK`, `ConfigCoherent`, `EmittedIsCurrent`, `StickyHold`, `ContractHolds` (refinement) |
| `publisher` | 2 beacons, 2 requests at a time, channels of 2, 2 inputs | `TypeOK`, `SeenIsAsserted`, `GhostsExplained`, `OrphansVisible`, `NoRegress`, `StateConverges` |
| `writer_batches` | 4 rows (1 refused), 2 requests, channel of 1, batches of 2 | `Accounted`, `RetryBounded`, `WrittenIsStored`, `DropsReported`, `EarlyRowsDrained`, `ShutdownCompletes`, `WriterKeepsContract` (refinement) |
| `admin_sync` | 2 beacons, names, labels, documents; 2 request goroutines, 3 requests; all symmetric | `TypeOK`, `NeverBricked`, `EngineFollowsStore`, `DocumentsFollowStore` |
| `advert_parser` | adverts of up to 3 of 19 sample records and 5 endings | `Framed`, `IdentityOfPacket`, `WalksAgree` |
| `ingest` | 1 beacon, 3 bodies, 2 handlers at a time, 5 budgets of inputs | `AdvertsAccounted`, `RowsTellTheirPost`, `HeartbeatsAgree`, `KeptForWindow`, `ExpiredGone` |
| `lifecycle` | 2 pods in turn, 2 zone changes, 1 POST in flight, a queue of 2 | `FlushFresh`, `WarmRestart`, `RunReturns`, `Converges` |

Runs that exhibit a statement of the code's own comments which the code does not
keep (`findings` in `PROJECT.json` quotes them):

| run | statement | what happens |
|---|---|---|
| `config_lost` | reconnecting re-sends every config | a config published into the outage is marked as seen after the reconnect cleared the map |
| `shutdown_burst` | a SIGTERM during a burst loses nothing silently | the writer drains before the listener stops |
| `stale_apply` | promote and demote "take effect immediately" | of two overlapping requests the one that listed the tables first applies last, and undoes the other in the engine |
| `rollout` | the final flush lets "the next pod" boot "with the freshest zones" | in a rollout with `maxSurge: 1` the next pod has booted already, from an older row, and publishes it |

Other places where the code does less than a comment or a document suggests, with
the passing property that states what does hold:

* `recomputeOne` says it cannot stay on a faded AP; it does while the closest AP
  is on no zone map.  `OffFadedAP` has exactly that exception.
* `ApplyTopology` says it preserves the published zone; its synthetic pass moves
  a beacon to its closest AP's zone without hysteresis, also when no label
  changed.  `ContractHolds` and `EmittedIsCurrent` say that the move is announced.
* ADR-0001 calls the state machine idempotent on duplicate sightings; the engine
  does not look at the advert's timestamp, and a POST delivered twice moves the
  EWMA twice and counts as two confirmations.  `MovesConfirmed` counts it so too.
* ADR-0007 promises "no more orphan" entities "after a beacon is retired" (lines 93
  and 94).  `RemoveEntity` only enqueues: the remove may be lost, and an event emitted
  before `ApplyTopology` may be handled after it and declare the entity again.
  `GhostsExplained` has exactly these exceptions.
* `publisher.go:531` says that a beacon demoted while the bridge was down is removed
  "on the next refresh". The refresh looks in `seen`, which a restart, a reconnect or
  a birth empties, and an untracked beacon emits nothing that would refill it.
  `OrphansVisible` says what a refresh does find.
* `main.go:113` calls the settings snapshot the "in-memory mirror of settings row". Of
  two overlapping saves one may have the row and the other the snapshot, until the
  next save or restart; the same holds of the tunables and their copies.
  `DocumentsFollowStore` excuses documents whose last saves overlapped.
* `advert.go:82` says "The exactly-25-bytes requirement is enforced in
  decodeIBeaconPayload". `decodeIBeaconPayload` refuses only fewer than 25 octets
  (line 96), reads the first 25 of a longer record, and the advert gets its identity
  from them.  The model does the same, one of its samples is such a record, and
  `IdentityOfPacket` holds with "25 or more".
* `metrics.go:102` calls the gauge the "most recent" heartbeat's count.  The holder's
  mutex does not cover the gauge, so of two overlapping heartbeats the earlier one may
  set it last.  `HeartbeatsAgree` leaves that overlap out, until the next heartbeat
  that runs alone.

Why the bounds are enough.  *Engine*: the timers are 1 or 2 seconds, so three
seconds let a sticky window, a silence and a decay begin, overlap and end in every
order; the two readings lie on either side of the floor, and smoothing and decay
reach every value between; `confirm` is 2, so a counter can be started, interrupted
and completed (`MaxLead` bounds only the history that counts along).  The two
topologies of `presence_config` differ by a promotion, a rename that hands a name
over to another beacon, a relabelled AP and an unmapped AP; the documents by sticky
windows and an override.  *Publisher*: channels of two and two beacons fill up with
one burst of telemetry, so every drop and every race on a freed slot happens, and a
remove is evicted or refused; two inputs give each pair of an outage, a change, a
demotion, a birth, a refresh and a restart, two requests each pair of demotions at
the same time.  *Writers*: a channel of one and two requests give the lost race for
the freed slot; batches of two give full and partial batches; the writer ends, so
neither of its runs checks for deadlock.  *Admin*: two
goroutines and three requests give every overlap of two requests, followed by a
refresh or another change that runs alone; the run starts from every content of the
tables.  It may stop when its requests are used up, so neither it nor `stale_apply`
checks for deadlock.  *Parser*: three records give every pair
of an identity and what may come before and after it, with every decoder fed a good
value, one octet too few, and nothing, the iBeacon's also octets too many; no state
outlives a record but the fields of `Advert`, so longer adverts repeat these cases.
*Ingest*: each budget of `MCBudgets` aims at one kind of interference (two POSTs and
a change of allowlist or settings, two POSTs and a failure, one POST that ages
through failing prunes, three heartbeats, a heartbeat beside a POST); two handlers
at a time give every overlap of two.  *Lifecycle*: a predecessor and a successor
with two versions are enough for a state that is published, saved, flushed or lost
on one side and seen on the other; a queue of two has an event to lose behind
another one, and is soon full.  The last pod may end, so this run and `rollout` do
not check for deadlock.

Fairness.  `publisher` and `config_lost` assume that each goroutine
of `main.go` keeps running (weak fairness of its step), that paho reconnects, and
that the 20 s telemetry tick comes when the previous burst has gone through (a burst
is one message per beacon; in the code the tick does not wait, so `StateConverges`
says nothing of a burst that takes more than 20 s).  Sightings, operators, births
and outages are never forced.  `writer_batches` assumes weak fairness of `Run`
(every attempt ends within its 5 s timeout) and strong fairness of the choice of
`ctx.Done()`, because Go's select picks a ready case at random.  `ingest` assumes
only that the retention goroutine keeps running; failures are bounded by the budget.
`lifecycle` assumes that `run` itself goes on (its waits have deadlines, but for the
pool's), that the tickers of the telemetry pump and the persister fire, and that of
the saves and publishes tried again and again some succeed (strong fairness:
database and broker are not gone for good).  Nothing is assumed of handlers and of
goroutines at shutdown but that the contexts of their statements end (weak fairness
of `StatementEnds`), which the pool waits for: `RunReturns` holds although they may
hang, except in a `SaveAll`, for which nothing is assumed.  The other runs of the
second table are refuted by a finite behaviour.

Every property of a passing run has a mutant: a definition preceded by a comment
"Variant of ... with a bug", under which the run's property is violated.

## Proofs

Every safety property that a passing run checks is also a theorem, for every
value of the constants that satisfies the named assumptions.  `theorems` in
`PROJECT.json` lists the results with the property each one states.

### Presence engine

`PresenceEngineProofs` is about every set of beacons, APs, names, labels,
readings, topologies and tunables documents (`NumbersAssumption`,
`EmptyAssumption`, `InputsAssumption`).

`Inv` is the conjunction of `TypeOK`, `ConfigCoherent`, `BackingCoherent` and
`EmittedIsCurrent`.  None is inductive alone: a beacon's parameters are read from
the cache under its name, so the type of a new state needs `ConfigCoherent`; that
`Hysteresis` may read the EWMA of the candidate needs `BackingCoherent`; the
refinement (`EngineImplementsContract`) needs `EmittedIsCurrent`.  `recomputeOne`
is dealt with once: `RecomputeOutcome` says that its result is a well-formed state
that stays, arrives, moves or departs as the contract allows and emits when it
changes (`Outcome`), with one lemma per case of the Go function.  `Submit`, `Tick`
and `ApplyTopology` follow from it, beacon by beacon.  The three action properties
`StickyHold`, `ArrivalGrounded` and `ArrivalImmediate` follow from `Inv` and from
further lemmas on `recomputeOne`: which of its exits clears a zone, which sets one
and with which AP, and which leaves a beacon at not_home.

`PresenceCoreProofs` has the same assumptions and `LeadAssumption`: the history
`lead` counts at least as far as the largest `confirm` less one, so that its bound
`MaxLead` never decides.  `TicksClearStale` and `TicksLeaveFadedAPs` hold since a
tick sends every beacon through `recomputeOne` at the time the property reads
(`RecomputeSettles`).  `MovesAreConfirmed` needs `Counted`: the engine has counted
no confirmation of its candidate that the history, which is reset by its own rule,
has not; a reset the code forgot would break it.

### Publisher

`PublisherProofs` is about every set of beacons and sensors and all capacities
(`BoundsAssumption`, `NoneAssumption`).  `Shape` (types, and that what `Run` has
left to do of an item is one of four lists of steps, or none) gives `TypeOK`.
`RunInv` adds to `SeenIsAsserted` what holds between the publish of a config and the
locked mark: the config has reached the broker unless `seen` was cleared meanwhile,
it has every declared sensor, and a removal has forgotten its entity.  `OrphanInv`
adds to `OrphansVisible` that an entity that `Run` is about to leave alone is in
`seen` or in `forgot`.

`GhostInv` is the argument for `GhostsExplained`: of an untracked beacon that is not
excused no event is upstream any more, or a request has yet to hand its remove over;
its remove is in a request's hands, or behind every event of the beacon in the
queue, or `Run` is carrying it out, or nothing is left of it (`Leaving`).  An append
of another item, an eviction at the head and a step of `Run` keep that order; an
item put in front would not.

For `NoRegress` the places a state passes through (engine, event channel, pump,
queue, `Run`, broker) are ordered, and `OrderInv` says that what each place holds
is no newer than anything further up, and that channel and queue are sorted per
beacon.  `Flow` says, variable by variable, what any step does: a state moves one
place down, is dropped, or is new.  `Flow` is proved action by action, and
`OrderInv` is inductive by `Flow` alone, without looking at the actions again.

### Writers

`BatchWriterProofs` is about every channel and batch size and every finite set of
producers (`SizesAssumption`, `ProducersAssumption`, `RowsAssumption`).  `IInv` is
the type invariant by parts (`TypeOK`, which no run repeats), `Accounted`,
`DropsReported`, and `OwingRetries`: a request that owes the report of an eviction
is at its last select and has a row in its hands.  Without it a retry that queues
its row could not be matched with the eviction before it.  The set of producers has
to be finite because both properties count the calls in progress; `ProducerStep` and
`OneMore` reduce a step of one call to adding or removing one element.

`RInv` is about single rows.  `Placed`: a row is in one request's hands, at one
place of the channel or at one place of the batch.  `Copied`: only a batch past
its first attempt has rows in the table, one copy each, and no key refuses the
second.  `CountedStored`: the rows counted as written are stored beside those of
the batch.  `DrainOrder`: after the drain none of the rows that the cancellation
found is in the channel.  `RetriesBounded`, `WrittenRowsStored` and
`EarlyRowsAlwaysDrained` follow.

`WriterImplementsContract` is the refinement, step by step: a first `Submit` hands a
row over; an eviction and a failed retry lose one; an attempt inserts the batch,
inserts it unanswered, or, when it was the last one and failed, loses it; what is
left moves a row from one place inside the writer to another.  `Placed` is needed
for it: were a row in the channel and in the batch, ending the batch would not be
the end of it.

### Admin

`AdminSyncProofs` is about every set of beacons, names, APs, labels, documents and
request goroutines (`BoundAssumption`, `AbsentAssumption`).  `IInv` adds three
facts to the properties.  `Exclusive`: a request that is still alone is the only
one in progress.  `AloneReads`: what it has read is what the tables hold, and after
its apply so does the engine.  `Covered`: the engine is behind the tables only if
the topology is excused (in doubt, or its failure told) or a request is rebuilding
it, where a refresh counts only once it has been overlapped, since a refresh that
fails on its own excuses nothing.
`NeverBricked` needs validity of what an `apply` is about to hand over
(`Buildable`).  `EndIInv` and `OnIInv` treat the two shapes of a step, ending a
request and going on, once for all actions.

`SInv` does the same for the documents: a document's copies are the tables', or
excused, or a request carries the new one.  A request that is alone holds what the
tables hold (`Holds`).

### Parser

`AdvertParserProofs` is about every set of sequences of octets
(`BuffersAssumption`, `NoneAssumption`).  `FrameInv` is the tiling of the buffer
record by record; `WalkInv` relates the errors and the iBeacons of the three walks
to the sets of records that look like one and that hold a complete one;
`IdInv` says which record each field of the decoded advert comes from (the last
iBeacon, the last decodable frame, the name rule), from which the answer of
`Identify` follows by cases.

### Ingest and retention

`IngestProofs` is about every set of POSTs, any number of handlers and all windows
and budgets (`RetentionAssumption`, `IngestAssumption`, `PostsAssumption`: a body is
a finite list of events, timestamps are integers, and an euid is empty or one of
`EUIDs`).  `Shape` says what a handler holds at each step.  Four arguments rest on
it.

* `HbInv`: unless heartbeats overlap there is one at a time, and what it has stored
  is what it is about to show.
* `KeptInv`: the cutoff of a cycle under way lies a window before the clock, the
  time of a row is its event's, or that of its reception, and its key and reading
  are what pass 1 computed of its POST (`RowTold`).
* `AccInv`: the two sums, over the finite set of events still ahead (`AllAhead`).
  Each step of pass 2 takes one element out of it and capture adds the parsed
  events of one POST, disjoint from the others.
* `EnvInv`: handlers work on different POSTs; rows of a POST still being handled
  have its handler's toggle and id; every id in use was taken from the sequence
  before; an envelope has no time while it is with the writer, so that a batch has
  each id once, and the key of the table sees to the rest: an envelope keeps its
  identity when it is stamped at its insert, also one that was inserted unanswered
  and is still with the writer.

What pass 1 computes is a recursion over the events of a POST.  The library's
induction theorems take an operator as a parameter, which the provers cannot
instantiate; the least-number principle (`NatLeast`, from the well-foundedness of
`<`) takes a set.  `ReadingsKept` uses it three times over: that a last reading of
each euid exists among the first n events, hence that a function satisfies the
recursive equation, hence that the recursive definition does and its value after n
events is the last reading among them, or none.  `RowsAlwaysTellTheirPost` joins it
with the envelopes.

`ObsCovered` and `RawCovered` close the gap between the two levels: a step that
`WriterContract` allows of the rows with a writer and those in its table (of their
ids, for the envelopes), with the rest left alone, is a step that `Retention`
takes.  So what is proved of `Ingest` needs nothing of the writers but the contract
that `BatchWriter` was proved to implement, up to the bound on failures.

### Process

`LifecycleProofs` is about any number of pods, zone changes and requests in flight
and any capacity (`LifecycleAssumption`).  Types hold in general.  `FlushFresh` and
`WarmRestart` are proved for a deployment that starts a pod only when the last one
has ended (`Surge = FALSE`, the hypothesis of both theorems); the run `rollout`
shows what happens otherwise.  `IInv` follows the order of the shutdown: which
goroutines and saves can still exist in each phase (`Orderly`), that from the
drain on nothing changes what a clean flush writes (`Fresh`), that the events on
their way to Home Assistant are in order between its state and the engine's
(`Ahead`), and that between two pods the table is no older than what Home Assistant
shows (`BootsWarm`).

### Only model-checked

Liveness (`StateConverges`, `ShutdownCompletes`, `ExpiredGone`, `RunReturns`,
`Converges`): outside the prover's reach, like `ENABLED`.

## Not modelled

HTML rendering, authentication and HTTP plumbing of the admin UI, metrics, the
capture tool, JSON and YAML formats: input and output with no control of their
own.  Of the parser, the lists of service UUIDs and the labels, which only the
packet page shows; of `internal/ids`, slugs and entity ids; of `main.go`, the
readiness endpoint, the rate-limited warnings and the environment's credentials.

## Plan

1. `PresenceEngine`, `PresenceContract`, `Publisher`, `BatchWriter`, `AdminSync`,
   `AdvertParser`, `Retention`, `Ingest`, `Lifecycle`: modelled and checked.  Done.
2. Proofs of every safety property the runs check, and of the two refinements.
   Done.
3. Statements that join two modules.  Done for the writers (`WriterContract`).  The
   events the engine emits and the publisher's way to Home Assistant are still
   specified on each side on its own: `Publisher` counts states as versions,
   `Lifecycle` has one queue that loses any of its events.
