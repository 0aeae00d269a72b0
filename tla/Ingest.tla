------------------------------- MODULE Ingest -------------------------------
(***************************************************************************)
(* The ingest server (internal/ingest/handler.go) as main.go wires it: one *)
(* goroutine per POST, the engine's allowlist, the settings snapshot, the  *)
(* id sequence of raw_posts, the writers, and the heartbeat holder, with   *)
(* the tables and the retention worker of Retention behind them.           *)
(*                                                                         *)
(* Abstractions.  A POST's body is a member of Posts; an event is what     *)
(* AdvertParser makes of its advert: `parses`, `key` (None: anonymous) and *)
(* `tele` (an Eddystone-TLM reading or None), with the POST's device_euid  *)
(* and timestamp.  RSSI, AP and names are copied and never looked at here. *)
(* The rate-limited warnings are logging.                                  *)
(***************************************************************************)
EXTENDS Retention, SequencesExt

CONSTANTS MaxRequests,  \* bound on handlers that run at a time
          Beacons,      \* identities
          Posts,        \* bodies of /ingest POSTs: sequences of events
          OnlineCounts, \* numbers of gateways a heartbeat may list
          EUIDs,        \* device_euid values
          None,         \* nil
          NoEUID        \* the empty device_euid

VARIABLES req,          \* the handler of each goroutine
          bodies,       \* history: the events of each POST that arrived; a
                        \* POST is named by its place here
          tracked,      \* Engine.beacons' domain: what IsTracked answers from
          nextID,       \* raw_posts_id_seq
          count,        \* metrics: see Counters
          hbOnline,     \* heartbeatState.online (its length)
          hbGauge,      \* HeartbeatGateways
          hbOverlap     \* history: the last heartbeat began while another one
                        \* was being handled

ingestVars == <<req, bodies, tracked, nextID, count, hbOnline, hbGauge, hbOverlap>>
vars == <<retentionVars, ingestVars>>

\* events: accepted for handling; kinds: AdvertsByKind; applied: sightings the
\* engine took.  The others are the metrics of the same name.
Counters == {"events", "parserErrors", "anonymous", "kinds", "unknown",
             "badTimestamp", "applied", "rejected"}

ASSUME IngestAssumption ==
    MaxRequests \in Nat /\ None \notin Nat

Requests == 1..MaxRequests

Idle == [pc |-> "idle"]

\* A POST gets a goroutine of its own; r is the first free number for it.
Arrives(r, kind) ==
    /\ Input(kind)
    /\ req[r].pc = "idle"
    /\ \A q \in 1..(r - 1) : req[q].pc # "idle"

Bump(c) == count' = [count EXCEPT ![c] = @ + 1]

Init ==
    /\ RetentionInit
    /\ req = [r \in Requests |-> Idle]
    /\ bodies = <<>>
    /\ tracked \in SUBSET Beacons
    /\ nextID = 1
    /\ count = [c \in Counters |-> 0]
    /\ hbOnline = 0 /\ hbGauge = 0 /\ hbOverlap = FALSE

-----------------------------------------------------------------------------
(* What a handler computes from its own POST.                              *)

\* items of pass 1: the events whose advert parsed.
Items(events) == SelectSeq(events, LAMBDA ev : ev.parses)

\* A POST is a list of events; timestamps are integers, and euids are known.
ASSUME PostsAssumption ==
    \A p \in Posts : /\ p \in Seq(Range(p))
                     /\ \A k \in 1..Len(Items(p)) : /\ Items(p)[k].ts \in Int
                                                     /\ Items(p)[k].euid \in EUIDs \cup {NoEUID}

NoTelemetry == [e \in EUIDs \cup {NoEUID} |-> None]

\* Variant of keepTelemetry with a bug: readings without an euid are kept under
\* the empty one.
keepTelemetryLoose(tel, ev) ==
    IF ev.parses /\ ev.tele # None THEN [tel EXCEPT ![ev.euid] = ev.tele] ELSE tel

\* One turn of pass 1: the last reading of an euid wins, an empty euid is never
\* a key.
keepTelemetry(tel, ev) ==
    IF ev.parses /\ ev.tele # None /\ ev.euid # NoEUID
    THEN [tel EXCEPT ![ev.euid] = ev.tele] ELSE tel

euidTelemetry(events) ==
    LET after[n \in 0..Len(events)] ==
            IF n = 0 THEN NoTelemetry ELSE keepTelemetry(after[n - 1], events[n])
    IN  after[Len(events)]

\* Variant of ObservedAt with a bug: a missing timestamp is kept.
ObservedAtRaw(ev) == ev.ts

\* msToTime, and the server's clock for a timestamp that is not positive.
ObservedAt(ev) == IF ev.ts <= 0 THEN now ELSE ev.ts

\* The ObservationRecord; `received`, when it was handled, is history.
RowOf(r, ev, isTracked) ==
    [post |-> req[r].post, k |-> req[r].k, key |-> ev.key, at |-> ObservedAt(ev),
     battery |-> euidTelemetry(req[r].events)[ev.euid],
     hex |-> req[r].cfg.hex, rawPostID |-> req[r].id, tracked |-> isTracked,
     received |-> now]

-----------------------------------------------------------------------------
(* /ingest                                                                 *)

\* requireAuth, readBody or json.Unmarshal answers 405, 403, 401 or 400.
Reject(r) ==
    /\ Arrives(r, "post")
    /\ bodies' = Append(bodies, <<>>)
    /\ Bump("rejected")
    /\ UNCHANGED <<now, settings, queued, tables, runner, req, tracked, nextID, hbOnline, hbGauge, hbOverlap>>

\* The body decodes; the capture settings are read, once for the POST.
Accept(r, events) ==
    /\ Arrives(r, "post")
    /\ bodies' = Append(bodies, events)
    /\ req' = [req EXCEPT ![r] = [pc |-> "capture", post |-> Len(bodies) + 1, events |-> events,
                                  cfg |-> settings, id |-> None, k |-> 1]]
    /\ UNCHANGED <<now, settings, queued, tables, runner, tracked, nextID, count, hbOnline, hbGauge, hbOverlap>>

\* maybeRecordRawPost: capture is off; or an id is allocated and the envelope
\* handed to its writer; or the allocation fails or times out, and the POST goes
\* on without capture (an id taken by a lost answer is a gap in the sequence).
RecordRawPost(r, next) ==
    \/ /\ ~req[r].cfg.full
       /\ req' = [req EXCEPT ![r] = next]
       /\ UNCHANGED <<queued, nextID, budget>>
    \/ /\ req[r].cfg.full
       /\ req' = [req EXCEPT ![r] = [next EXCEPT !.id = nextID]]
       /\ queued' = [queued EXCEPT !.raw = @ \cup
                        {[id |-> nextID, post |-> req[r].post, at |-> 0]}]
       /\ nextID' = nextID + 1
       /\ UNCHANGED budget
    \/ /\ req[r].cfg.full /\ Input("fault")
       /\ req' = [req EXCEPT ![r] = next]
       /\ nextID' \in {nextID, nextID + 1}
       /\ UNCHANGED queued

\* Capture, then pass 1 over the events: what does not parse is counted there.
Capture(r) ==
    /\ req[r].pc = "capture"
    /\ RecordRawPost(r, [req[r] EXCEPT !.pc = "items"])
    /\ LET events == req[r].events
       IN  count' = [count EXCEPT !["events"] = @ + Len(events),
                                  !["parserErrors"] = @ + Len(events) - Len(Items(events))]
    /\ UNCHANGED <<now, settings, tables, runner,
                   bodies, tracked, hbOnline, hbGauge, hbOverlap>>

Item(r) == Items(req[r].events)[req[r].k]

AtItem(r) == req[r].pc = "items" /\ req[r].k <= Len(Items(req[r].events))

\* Pass 2, an advert without an identity.
Anonymous(r) ==
    /\ AtItem(r) /\ Item(r).key = None
    /\ Bump("anonymous")
    /\ req' = [req EXCEPT ![r].k = @ + 1]
    /\ UNCHANGED <<retentionVars, bodies, tracked, nextID, hbOnline, hbGauge, hbOverlap>>

\* Variant of AfterLookup with a bug: an untracked beacon is submitted too.
AfterLookupAlways(r, isTracked) == [req[r] EXCEPT !.pc = "submit"]

\* Only a tracked beacon goes on to PresenceSubmit.
AfterLookup(r, isTracked) ==
    IF isTracked THEN [req[r] EXCEPT !.pc = "submit"] ELSE [req[r] EXCEPT !.k = @ + 1]

\* Pass 2, an identity: BeaconLookup, the counters, the observation row.
Observe(r) ==
    /\ AtItem(r) /\ Item(r).key # None
    /\ LET ev == Item(r)
           isTracked == ev.key \in tracked
       IN  /\ count' = [count EXCEPT !["kinds"] = @ + 1,
                                     !["unknown"] = @ + IF isTracked THEN 0 ELSE 1,
                                     !["badTimestamp"] = @ + IF ev.ts <= 0 THEN 1 ELSE 0]
           /\ queued' = [queued EXCEPT !.obs = @ \cup {RowOf(r, ev, isTracked)}]
           /\ req' = [req EXCEPT ![r] = AfterLookup(r, isTracked)]
    /\ UNCHANGED <<now, settings, tables, runner, budget,
                   bodies, tracked, nextID, hbOnline, hbGauge, hbOverlap>>

\* Engine.Submit, with the engine's own look at its map: a beacon demoted since
\* the lookup is dropped there and counted by OnUnknownBeacon.
Submit(r) ==
    /\ req[r].pc = "submit"
    /\ Bump(IF Item(r).key \in tracked THEN "applied" ELSE "unknown")
    /\ req' = [req EXCEPT ![r] = [req[r] EXCEPT !.pc = "items", !.k = @ + 1]]
    /\ UNCHANGED <<retentionVars, bodies, tracked, nextID, hbOnline, hbGauge, hbOverlap>>

\* 200.
Finish(r) ==
    /\ req[r].pc = "items" /\ ~AtItem(r)
    /\ req' = [req EXCEPT ![r] = Idle]
    /\ UNCHANGED <<retentionVars, bodies, tracked, nextID, count, hbOnline, hbGauge, hbOverlap>>

-----------------------------------------------------------------------------
(* /heartbeat                                                              *)

HbSteps == {"hb", "hbSet", "hbGauge"}
HbRunning == {r \in Requests : req[r].pc \in HbSteps}

Heartbeat(r, n) ==
    /\ Arrives(r, "beat")
    /\ bodies' = Append(bodies, <<>>)
    /\ req' = [req EXCEPT ![r] = [pc |-> "hb", post |-> Len(bodies) + 1, online |-> n,
                                  cfg |-> settings, id |-> None]]
    /\ hbOverlap' = (HbRunning # {})
    /\ UNCHANGED <<now, settings, queued, tables, runner, tracked, nextID, count, hbOnline, hbGauge>>

HeartbeatCapture(r) ==
    /\ req[r].pc = "hb"
    /\ RecordRawPost(r, [req[r] EXCEPT !.pc = "hbSet"])
    /\ UNCHANGED <<now, settings, tables, runner,
                   bodies, tracked, count, hbOnline, hbGauge, hbOverlap>>

\* heartbeatState.set, under its mutex.
OnHeartbeat(r) ==
    /\ req[r].pc = "hbSet"
    /\ hbOnline' = req[r].online
    /\ req' = [req EXCEPT ![r].pc = "hbGauge"]
    /\ UNCHANGED <<retentionVars, bodies, tracked, nextID, count, hbGauge, hbOverlap>>

\* Variant of GaugeValue with a bug: the gauge is left as it was.
GaugeValueStale(r) == hbGauge

GaugeValue(r) == req[r].online

\* HeartbeatGateways.Set, and 200.
HeartbeatDone(r) ==
    /\ req[r].pc = "hbGauge"
    /\ hbGauge' = GaugeValue(r)
    /\ req' = [req EXCEPT ![r] = Idle]
    /\ UNCHANGED <<retentionVars, bodies, tracked, nextID, count, hbOnline, hbOverlap>>

-----------------------------------------------------------------------------
(* The admin requests that reach this state (AdminSync).                   *)

\* ApplyTopology after a promotion or a demotion.
Retrack(b) ==
    /\ Input("edit")
    /\ tracked' = IF b \in tracked THEN tracked \ {b} ELSE tracked \cup {b}
    /\ UNCHANGED <<now, settings, queued, tables, runner, req, bodies, nextID, count, hbOnline, hbGauge, hbOverlap>>

\* SettingsSnapshot.Replace.
ReplaceSettings(s) ==
    /\ Input("edit") /\ s # settings
    /\ settings' = s
    /\ UNCHANGED <<now, queued, tables, runner,
                   req, bodies, tracked, nextID, count, hbOnline, hbGauge, hbOverlap>>

Settings == [days : Windows, hex : BOOLEAN, full : BOOLEAN]

Handle(r) ==
    \/ Capture(r) \/ Anonymous(r) \/ Observe(r) \/ Submit(r) \/ Finish(r)
    \/ HeartbeatCapture(r) \/ OnHeartbeat(r) \/ HeartbeatDone(r)

Next ==
    \/ RetentionNext /\ UNCHANGED ingestVars
    \/ \E r \in Requests :
          \/ Reject(r) \/ Handle(r)
          \/ \E p \in Posts : Accept(r, p)
          \/ \E n \in OnlineCounts : Heartbeat(r, n)
    \/ \E b \in Beacons : Retrack(b)
    \/ \E s \in Settings : ReplaceSettings(s)

Spec == Init /\ [][Next]_vars

\* The retention goroutine keeps running: its ticker fires and its statements
\* return.  The clock, the handlers, the writers and the operator need not move.
FairSpec ==
    /\ Spec
    /\ WF_vars((StartPrune \/ PruneObservations \/ PruneRawPosts) /\ UNCHANGED ingestVars)

-----------------------------------------------------------------------------
(* Properties.                                                             *)

InFlight == {r \in Requests : req[r].pc \in {"items", "submit"}}

\* The events of r's POST that pass 2 has yet to look up, by their place.
Ahead(r) ==
    (IF req[r].pc = "submit" THEN req[r].k + 1 ELSE req[r].k)..Len(Items(req[r].events))

AllAhead == UNION {{r} \X Ahead(r) : r \in InFlight}

\* No advert is lost or counted twice: each event of a POST has failed to parse,
\* is anonymous, is identified, or is still ahead in its handler; each
\* identified one was applied by the engine, or counted as unknown once (by
\* the handler's lookup or, after a demotion in between, by the engine), or
\* is about to be submitted.
AdvertsAccounted ==
    /\ count["events"] = count["parserErrors"] + count["anonymous"] + count["kinds"]
                           + Cardinality(AllAhead)
    /\ count["kinds"] = count["applied"] + count["unknown"]
                           + Cardinality({r \in InFlight : req[r].pc = "submit"})

Rows == queued.obs \cup tables.obs
Envelopes == queued.raw \cup tables.raw

\* The reading of a row is the last one of the same, non-empty euid in its POST,
\* before or after the advert itself.
OwnReading ==
    \A row \in Rows :
        LET events == bodies[row.post]
            ev == Items(events)[row.k]
            Reading(j) == /\ events[j].parses /\ events[j].tele # None
                          /\ events[j].euid = ev.euid /\ ev.euid # NoEUID
        IN  /\ row.key = ev.key
            /\ IF \E j \in DOMAIN events : Reading(j)
               THEN \E j \in DOMAIN events :
                       /\ Reading(j) /\ row.battery = events[j].tele
                       /\ \A n \in DOMAIN events : n > j => ~Reading(n)
               ELSE row.battery = None

\* All rows of a POST were recorded under one setting of the toggles and point
\* to one envelope; an envelope it points to is that of its own POST, also one
\* whose insert is being retried, and the table has it once.
OwnEnvelope ==
    /\ \A row, other \in Rows : row.post = other.post =>
          row.hex = other.hex /\ row.rawPostID = other.rawPostID
    /\ \A row \in Rows, env \in Envelopes : row.rawPostID = env.id => row.post = env.post
    /\ \A env, other \in Envelopes : env.id = other.id => env.post = other.post
    /\ \A env, other \in tables.raw : env.id = other.id => env = other

\* An observation tells the truth about its POST however POSTs, toggles and
\* promotions interleave: its reading and its envelope are those of the POST.
RowsTellTheirPost == OwnReading /\ OwnEnvelope

\* retention_days is a promise: while an AP's clock is not behind, an observation
\* is kept for the whole window the prune read, counted from its reception,
\* also when the event brought no usable timestamp.
KeptForWindow ==
    [][\A row \in tables.obs \ tables'.obs :
          LET ts == Items(bodies[row.post])[row.k].ts
          IN  ts <= 0 \/ ts >= row.received => now - row.received > runner.days]_vars

\* Disk use is bounded: once the operator and the clock are quiet, nothing older
\* than the window is left in either table, failed cycles notwithstanding.
ExpiredGone ==
    <>[](\A t \in {"obs", "raw"} : \A row \in tables[t] : row.at >= now - settings.days)

\* The status page and the metric agree on the gateways online whenever no
\* heartbeat is being handled, unless the last heartbeats overlapped; the next
\* one that runs alone brings them together again.
HeartbeatsAgree == HbRunning = {} /\ ~hbOverlap => hbOnline = hbGauge

=============================================================================
