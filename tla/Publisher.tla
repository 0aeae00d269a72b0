----------------------------- MODULE Publisher -----------------------------
(***************************************************************************)
(* The path of presence events to Home Assistant: engine -> events channel *)
(* -> pump (main.go) -> publisher queue -> Run -> retained broker topics   *)
(* (internal/mqtt/publisher.go), with the admin operations that feed it.   *)
(*                                                                         *)
(* The engine is PresenceEngine seen from here: per beacon the number of   *)
(* published states so far (ver) and the sensors its frames have shown     *)
(* (tlm, the voltage and temperature readings).  An event is a copy of     *)
(* them; the state and telemetry topics hold the version they were         *)
(* rendered from.  Legacy topics and the availability topic are left out.  *)
(***************************************************************************)
EXTENDS Integers, Sequences, FiniteSets

CONSTANTS Beacons,      \* beacons an operator may track
          Sensors,      \* optional sensor components
          None,         \* no retained payload
          EventsCap,    \* capacity of the events channel
          QueueCap,     \* Options.BufferSize
          Requests,     \* goroutines that serve admin requests
          MaxInputs     \* bound: state changes, operator requests, HA births
                        \* and outages together

ASSUME BoundsAssumption ==
    EventsCap \in Nat \ {0} /\ QueueCap \in Nat \ {0} /\ MaxInputs \in Nat

ASSUME NoneAssumption == None \notin Nat /\ \A s \in SUBSET Sensors : None # s

ASSUME RequestsAssumption == "pump" \notin Requests

VARIABLES tracked,   \* allowlist, in the store and in the engine
          ver,       \* number of the engine's current published state
          tlm,       \* sensors in the engine's last telemetry
          emitting,  \* beacons an ongoing RepublishAll has yet to emit
          events,    \* the events channel
          caller,    \* enqueue calls of the pump and of the admin requests
          todo,      \* removes each admin request has yet to enqueue
          queue,     \* Publisher.queue
          work,      \* what Run still has to do for the item it took
          seen,      \* Publisher.seen (and seenIDs)
          declared,  \* Publisher.hasVoltage / hasTemp
          broker,    \* retained payload per beacon and topic
          link,      \* "up", "down", or "fresh" (up, OnConnect not yet run)
          reassert,  \* a birth/resync has cleared seen, RepublishAll is due
          raced,     \* history: entities marked seen after a clearSeen that
                     \* came between their handle's first look and the mark
          cleared,   \* history: clearSeen ran since Run took its item
          forgot,    \* history: entities that the broker retained when seen was
                     \* cleared, or whose remove was lost in an outage, and
                     \* that were not declared since
          excused,   \* history: beacons whose last remove was overtaken by an
                     \* event of theirs, evicted, or lost on the way
          inputs     \* number of inputs so far

engineVars == <<tracked, ver, tlm>>
queueVars  == <<caller, todo, queue>>
runVars    == <<work, seen, declared, broker, raced, cleared, forgot>>
linkVars   == <<link, reassert>>
vars == <<engineVars, emitting, events, queueVars, runVars, linkVars, excused, inputs>>

Callers == {"pump"} \cup Requests

\* "state" stands for the tracker's state and the JSON telemetry topic, which
\* handle publishes one after the other.
Topics == {"config", "state"}

Event(b)    == [kind |-> "event", beacon |-> b, ver |-> ver[b], tlm |-> tlm[b]]
Removal(b)  == [kind |-> "remove", beacon |-> b, ver |-> 0, tlm |-> {}]
NoItem      == [kind |-> "none"]
Idle        == [pc |-> "idle", item |-> NoItem]

IsRemove(item, b) == item.kind = "remove" /\ item.beacon = b
IsEvent(item, b)  == item.kind = "event" /\ item.beacon = b

\* An event of b has left the engine and has not reached the queue.
Upstream(b) == \/ \E i \in DOMAIN events : IsEvent(events[i], b)
               \/ IsEvent(caller["pump"].item, b)

\* A remove of b is still to be enqueued, queued or handled.
Removing(b) ==
    \/ \E q \in Requests : b \in todo[q] \/ IsRemove(caller[q].item, b)
    \/ \E i \in DOMAIN queue : IsRemove(queue[i], b)
    \/ work # <<>> /\ Head(work).beacon = b /\ Head(work).val = None

\* What becomes of a remove that is thrown away.
Excuse(item) == IF item.kind = "remove" THEN excused \cup {item.beacon} ELSE excused

Input == inputs < MaxInputs /\ inputs' = inputs + 1

-----------------------------------------------------------------------------
(* The engine's side: emit never blocks, a full channel drops the newest.  *)

emit(ev) == events' = IF Len(events) < EventsCap THEN Append(events, ev) ELSE events

\* A sighting or tick publishes a new state, or only brings telemetry.  The
\* engine's mutex keeps it out of an ongoing RepublishAll.
ChangeState(b, sensors) ==
    /\ emitting = {} /\ b \in tracked
    /\ Input
    /\ ver' = [ver EXCEPT ![b] = @ + 1]
    /\ tlm' = [tlm EXCEPT ![b] = @ \cup sensors]
    /\ emit([kind |-> "event", beacon |-> b, ver |-> ver'[b], tlm |-> tlm'[b]])
    /\ UNCHANGED <<tracked, emitting, queueVars, runVars, linkVars, excused>>

\* RepublishAll after a birth or a resync.
Reassert ==
    /\ reassert /\ emitting = {}
    /\ emitting' = tracked
    /\ reassert' = FALSE
    /\ UNCHANGED <<engineVars, events, queueVars, runVars, link, excused, inputs>>

\* Nothing of an earlier burst is on its way.
Drained ==
    /\ emitting = {} /\ events = <<>> /\ queue = <<>> /\ work = <<>>
    /\ caller["pump"] = Idle

\* The telemetry pump: RepublishAll every 20 s, long after the last burst of
\* events has gone through (a resync may come at any time).
TelemetryTick ==
    /\ Drained
    /\ emitting' = tracked
    /\ UNCHANGED <<engineVars, events, queueVars, runVars, linkVars, excused, inputs>>

\* One iteration of RepublishAll's loop, in map order.
EmitNext(b) ==
    /\ b \in emitting
    /\ emitting' = emitting \ {b}
    /\ emit(Event(b))
    /\ UNCHANGED <<engineVars, queueVars, runVars, linkVars, excused, inputs>>

-----------------------------------------------------------------------------
(* enqueue, called by the event pump and by the admin request: three       *)
(* non-blocking selects, other goroutines running in between.  The first   *)
(* is one step with what the caller did just before.                       *)

Return(c)  == caller' = [caller EXCEPT ![c] = Idle]
Goto(c, l) == caller' = [caller EXCEPT ![c].pc = l]

\* Variant of enqueue with a bug: the queue has no bound.
enqueueUnbounded(c, item) == queue' = Append(queue, item) /\ UNCHANGED caller

\* enqueue's first select, by a caller that is idle.
enqueue(c, item) ==
    IF Len(queue) < QueueCap
    THEN queue' = Append(queue, item) /\ UNCHANGED caller
    ELSE /\ caller' = [caller EXCEPT ![c] = [pc |-> "evict", item |-> item]]
         /\ UNCHANGED queue

\* Pump: ev := <-events; pub.Publish(ev).
Pump ==
    /\ caller["pump"] = Idle /\ events # <<>>
    /\ enqueue("pump", Head(events))
    /\ events' = Tail(events)
    /\ UNCHANGED <<engineVars, emitting, todo, runVars, linkVars, excused, inputs>>

EvictOldest(c) ==
    /\ caller[c].pc = "evict"
    /\ IF queue = <<>> THEN UNCHANGED <<queue, excused>>
       ELSE queue' = Tail(queue) /\ excused' = Excuse(Head(queue))
    /\ Goto(c, "retry")
    /\ UNCHANGED <<engineVars, emitting, events, todo, runVars, linkVars, inputs>>

\* Variant of RetryEnqueue with a bug: the item goes to the head of the queue.
RetryAtHead(c) ==
    /\ caller[c].pc = "retry"
    /\ IF Len(queue) < QueueCap
       THEN queue' = <<caller[c].item>> \o queue /\ UNCHANGED excused
       ELSE excused' = Excuse(caller[c].item) /\ UNCHANGED queue
    /\ Return(c)
    /\ UNCHANGED <<engineVars, emitting, events, todo, runVars, linkVars, inputs>>

\* When even the retry finds no room the new item is dropped.
RetryEnqueue(c) ==
    /\ caller[c].pc = "retry"
    /\ IF Len(queue) < QueueCap
       THEN queue' = Append(queue, caller[c].item) /\ UNCHANGED excused
       ELSE excused' = Excuse(caller[c].item) /\ UNCHANGED queue
    /\ Return(c)
    /\ UNCHANGED <<engineVars, emitting, events, todo, runVars, linkVars, inputs>>

-----------------------------------------------------------------------------
(* Admin requests, as far as they concern the publisher: `tracked` changes *)
(* with ApplyTopology.  What the table and the engine hold while rebuilds   *)
(* overlap or fail is AdminSync's.                                         *)

\* handleDevicePromote: a new beacon starts at not_home, with no event.
Promote(b) ==
    /\ emitting = {} /\ b \notin tracked
    /\ Input
    /\ tracked' = tracked \cup {b}
    /\ ver' = [ver EXCEPT ![b] = @ + 1]
    /\ tlm' = [tlm EXCEPT ![b] = {}]
    /\ UNCHANGED <<emitting, events, queueVars, runVars, linkVars, excused>>

\* A goroutine that serves no request.
Free(q) == caller[q] = Idle /\ todo[q] = {}

\* handleDeviceDemote: the engine forgets the beacon, then RemoveEntity.
Demote(q, b) ==
    /\ Free(q) /\ emitting = {} /\ b \in tracked
    /\ Input
    /\ tracked' = tracked \ {b}
    /\ todo' = [todo EXCEPT ![q] = {b}]
    /\ UNCHANGED <<ver, tlm, emitting, events, caller, queue, runVars, linkVars, excused>>

\* RemoveEntity, and RepublishOrphans' loop: removes are enqueued in turn.  An
\* event of the beacon that is still upstream will overtake this one.
AdminRemove(q, b) ==
    /\ b \in todo[q] /\ caller[q] = Idle
    /\ todo' = [todo EXCEPT ![q] = @ \ {b}]
    /\ enqueue(q, Removal(b))
    /\ excused' = IF Upstream(b) THEN excused \cup {b} ELSE excused \ {b}
    /\ UNCHANGED <<engineVars, emitting, events, runVars, linkVars, inputs>>

\* handleDevicesRefreshEngine / reconcileOrphans: seen minus the allowlist.
RefreshEngine(q) ==
    /\ Free(q) /\ emitting = {}
    /\ Input
    /\ todo' = [todo EXCEPT ![q] = seen \ tracked]
    /\ UNCHANGED <<engineVars, emitting, events, caller, queue, runVars, linkVars, excused>>

-----------------------------------------------------------------------------
(* The connection.  paho drops a QoS-0 publish while the link is down.     *)

clearSeen ==
    /\ seen' = {}
    /\ declared' = [b \in Beacons |-> {}]
    /\ cleared' = TRUE
    /\ raced' = {}
    /\ forgot' = {b \in Beacons : broker[b]["config"] # None}

\* An outage; `wipe`: the broker comes back without its retained messages.
LoseConnection(wipe) ==
    /\ link # "down"
    /\ Input
    /\ link' = "down"
    /\ broker' = IF wipe THEN [b \in Beacons |-> [t \in Topics |-> None]] ELSE broker
    /\ UNCHANGED <<engineVars, emitting, events, queueVars, work, seen, declared,
                   raced, cleared, forgot, reassert, excused>>

\* paho's automatic reconnect; the OnConnect handler runs on its own goroutine.
Reconnect ==
    /\ link = "down"
    /\ link' = "fresh"
    /\ UNCHANGED <<engineVars, emitting, events, queueVars, runVars, reassert, excused, inputs>>

OnConnect ==
    /\ link = "fresh"
    /\ link' = "up"
    /\ clearSeen
    /\ UNCHANGED <<engineVars, emitting, events, queueVars, work, broker, reassert, excused, inputs>>

\* onBirthMessage (needs the connection) and ResyncDiscovery (does not).
ClearAndReassert ==
    /\ ~reassert
    /\ Input
    /\ clearSeen
    /\ reassert' = TRUE
    /\ UNCHANGED <<engineVars, emitting, events, queueVars, work, broker, link, excused>>

-----------------------------------------------------------------------------
(* The process dies or is restarted: everything in memory is gone, wherever *)
(* each goroutine was.  The allowlist and the broker's topics survive; the *)
(* engine boots into a published state of its own.                         *)

Restart ==
    /\ Input
    /\ ver' = [b \in Beacons |-> ver[b] + 1]
    /\ tlm' = [b \in Beacons |-> {}]
    /\ emitting' = {} /\ events' = <<>> /\ queue' = <<>> /\ work' = <<>>
    /\ caller' = [c \in Callers |-> Idle]
    /\ todo' = [q \in Requests |-> {}] /\ reassert' = FALSE
    /\ link' = "down"
    /\ clearSeen
    /\ excused' = excused \cup {b \in Beacons : Removing(b)}
    /\ UNCHANGED <<tracked, broker>>

-----------------------------------------------------------------------------
(* Run.  The steps of handle and handleRemove are a list of publishes and  *)
(* one `mark`, which sets the seen and declared entries under the mutex.   *)

Put(b, topic, val) == [op |-> "publish", beacon |-> b, topic |-> topic, val |-> val]
Mark(b, sensors)   == [op |-> "mark", beacon |-> b, topic |-> "config", val |-> sensors]

\* The discovery config is sent on first sight and when a sensor appears.
NeedConfig(ev) ==
    ev.beacon \notin seen \/ ~(ev.tlm \subseteq declared[ev.beacon])

\* Variants of handle with a bug: the entity is marked before its config is
\* published; the state is published only with a config.
handleMarkFirst(ev) ==
    LET b == ev.beacon
        sensors == declared[b] \cup ev.tlm
        config == IF NeedConfig(ev)
                  THEN <<Mark(b, sensors), Put(b, "config", sensors)>> ELSE <<>>
    IN  config \o <<Put(b, "state", ev.ver)>>

handleOnce(ev) ==
    LET b == ev.beacon
        sensors == declared[b] \cup ev.tlm
    IN  IF NeedConfig(ev)
        THEN <<Put(b, "config", sensors), Mark(b, sensors), Put(b, "state", ev.ver)>>
        ELSE <<Put(b, "config", sensors)>>

handle(ev) ==
    LET b == ev.beacon
        sensors == declared[b] \cup ev.tlm
        config == IF NeedConfig(ev)
                  THEN <<Put(b, "config", sensors), Mark(b, sensors)>> ELSE <<>>
    IN  config \o <<Put(b, "state", ev.ver)>>

\* Variant of handleRemove with a bug: the config is left behind.
handleRemoveState(b) == <<Put(b, "state", None)>>

handleRemove(b) ==
    <<Put(b, "config", None), Put(b, "state", None)>>

\* Take an item and look it up under the mutex; a remove forgets the entity
\* before it publishes.
Receive ==
    /\ work = <<>> /\ queue # <<>>
    /\ LET item == Head(queue)
           b == item.beacon
       IN  IF item.kind = "remove"
           THEN /\ work' = handleRemove(b)
                /\ seen' = seen \ {b}
                /\ declared' = [declared EXCEPT ![b] = {}]
                /\ raced' = raced \ {b}
           ELSE work' = handle(item) /\ UNCHANGED <<seen, declared, raced>>
    /\ queue' = Tail(queue)
    /\ cleared' = FALSE
    /\ UNCHANGED <<engineVars, emitting, events, caller, todo, broker, forgot,
                   linkVars, excused, inputs>>

\* publishOne: retained, QoS 0, errors only counted.
PublishOne ==
    /\ work # <<>> /\ Head(work).op = "publish"
    /\ LET p == Head(work)
       IN  IF link = "down"
           THEN /\ UNCHANGED broker
                /\ excused' = IF p.val = None THEN excused \cup {p.beacon} ELSE excused
                /\ forgot' = IF p.topic = "config" /\ p.val = None
                             THEN forgot \cup {p.beacon} ELSE forgot
           ELSE /\ broker' = [broker EXCEPT ![p.beacon][p.topic] = p.val]
                /\ forgot' = IF p.topic = "config" THEN forgot \ {p.beacon} ELSE forgot
                /\ UNCHANGED excused
    /\ work' = Tail(work)
    /\ UNCHANGED <<engineVars, emitting, events, queueVars, seen, declared, raced,
                   cleared, linkVars, inputs>>

\* The entity is marked whether or not its config reached the broker.
MarkSeen ==
    /\ work # <<>> /\ Head(work).op = "mark"
    /\ LET p == Head(work)
       IN  /\ seen' = seen \cup {p.beacon}
           /\ declared' = [declared EXCEPT ![p.beacon] = p.val]
           /\ raced' = IF cleared THEN raced \cup {p.beacon} ELSE raced \ {p.beacon}
    /\ work' = Tail(work)
    /\ UNCHANGED <<engineVars, emitting, events, queueVars, broker, cleared,
                   forgot, linkVars, excused, inputs>>

-----------------------------------------------------------------------------

\* Boot: main waits for the first connection (a broker that is down at boot
\* is an outage that comes first) and only then starts the goroutines.
Init ==
    /\ tracked = Beacons
    /\ ver = [b \in Beacons |-> 1]
    /\ tlm = [b \in Beacons |-> {}]
    /\ emitting = {}
    /\ events = <<>>
    /\ caller = [c \in Callers |-> Idle]
    /\ todo = [q \in Requests |-> {}]
    /\ queue = <<>>
    /\ work = <<>>
    /\ seen = {}
    /\ declared = [b \in Beacons |-> {}]
    /\ broker = [b \in Beacons |-> [t \in Topics |-> None]]
    /\ link = "up"
    /\ reassert = FALSE
    /\ raced = {}
    /\ cleared = FALSE
    /\ forgot = {}
    /\ excused = {}
    /\ inputs = 0

EnqueueStep(c) == EvictOldest(c) \/ RetryEnqueue(c)

RunStep == Receive \/ PublishOne \/ MarkSeen

Next ==
    \/ \E b \in Beacons, sensors \in SUBSET Sensors : ChangeState(b, sensors)
    \/ Reassert
    \/ TelemetryTick
    \/ \E b \in Beacons : EmitNext(b)
    \/ Pump
    \/ \E c \in Callers : EnqueueStep(c)
    \/ \E b \in Beacons : Promote(b)
    \/ \E q \in Requests, b \in Beacons : Demote(q, b) \/ AdminRemove(q, b)
    \/ \E q \in Requests : RefreshEngine(q)
    \/ \E wipe \in BOOLEAN : LoseConnection(wipe)
    \/ Reconnect
    \/ OnConnect
    \/ ClearAndReassert
    \/ Restart
    \/ RunStep

\* The goroutines of main.go keep running, and paho keeps reconnecting.
\* Sightings, operators, outages and births are never forced to happen.
Fairness ==
    /\ WF_vars(Reassert) /\ WF_vars(TelemetryTick)
    /\ WF_vars(\E b \in Beacons : EmitNext(b))
    /\ WF_vars(Pump)
    /\ \A c \in Callers : WF_vars(EnqueueStep(c))
    /\ \A q \in Requests : WF_vars(\E b \in Beacons : AdminRemove(q, b))
    /\ WF_vars(Reconnect) /\ WF_vars(OnConnect)
    /\ WF_vars(RunStep)

Spec == Init /\ [][Next]_vars

FairSpec == Spec /\ Fairness

-----------------------------------------------------------------------------
(* Properties.                                                             *)

Items == [kind : {"event", "remove"}, beacon : Beacons, ver : Nat, tlm : SUBSET Sensors]

Payloads(topic) == IF topic = "config" THEN SUBSET Sensors ELSE Nat

\* Type correctness; the channels never exceed their capacity.
TypeOK ==
    /\ tracked \subseteq Beacons /\ emitting \subseteq tracked
    /\ ver \in [Beacons -> Nat] /\ tlm \in [Beacons -> SUBSET Sensors]
    /\ events \in Seq(Items) /\ Len(events) <= EventsCap
    /\ queue \in Seq(Items) /\ Len(queue) <= QueueCap
    /\ \A c \in Callers : \/ caller[c] = Idle
                          \/ /\ caller[c].pc \in {"evict", "retry"}
                             /\ caller[c].item \in Items
    /\ todo \in [Requests -> SUBSET Beacons]
    /\ seen \subseteq Beacons /\ raced \subseteq seen
    /\ excused \subseteq Beacons /\ forgot \subseteq Beacons
    /\ declared \in [Beacons -> SUBSET Sensors]
    /\ \A b \in Beacons, t \in Topics : broker[b][t] = None \/ broker[b][t] \in Payloads(t)
    /\ link \in {"up", "down", "fresh"} /\ reassert \in BOOLEAN /\ cleared \in BOOLEAN

\* Run is between the first and the last step of an item of b.
Working(b) == work # <<>> /\ Head(work).beacon = b

\* Whatever is dropped, duplicated or lost on the way, a retained state is
\* only ever replaced by one the engine published later: a single pump, a
\* FIFO queue evicted at its head and a single Run keep each beacon's order.
NoRegress ==
    [][\A b \in Beacons :
          LET old == broker[b]["state"]
              new == broker'[b]["state"]
          IN  old # None /\ new # None => old <= new]_vars

\* What Run believes it has declared, the broker retains: while the link is
\* up, an entity in `seen` has a retained config with every declared sensor.
\* The one exception is an entity whose mark overtook a clearSeen.
SeenIsAsserted ==
    link = "up" =>
       \A b \in seen \ raced : /\ broker[b]["config"] # None
                               /\ declared[b] \subseteq broker[b]["config"]

\* A demotion leaves nothing behind: once no remove of an untracked beacon is on
\* its way, the publisher has forgotten it and the broker retains nothing of it,
\* unless its last remove was thrown away (evicted, refused by a full queue,
\* published into an outage, or gone with the process), or was enqueued while an
\* event of the beacon was still on its way to the queue, which then declares
\* the entity again.
GhostsExplained ==
    \A b \in Beacons \ tracked :
       Removing(b) \/ b \in excused
       \/ (b \notin seen /\ \A t \in Topics : broker[b][t] = None)

\* Whatever was cleared, restarted or lost before, an entity that this process has
\* declared since can be found by RepublishOrphans, so that a refresh heals a
\* demotion whose remove was dropped from a full queue: seen has every entity that
\* the broker retains, but those of before a clearSeen that no event has declared
\* again, and those whose remove was published into an outage.
OrphansVisible ==
    \A b \in Beacons \ forgot :
       broker[b]["config"] # None => b \in seen \/ Working(b)

\* Once changes, operator edits and outages stop, the broker's state topic of
\* every tracked beacon settles on the state the engine publishes.
StateConverges == <>[](\A b \in tracked : broker[b]["state"] = ver[b])

-----------------------------------------------------------------------------
(* A statement of the code's comments that the code does not keep.          *)

\* publisher.go, OnConnect: reconnecting will "force Discovery to be re-sent
\* for every known beacon"; handle: never "leaving HA without a config
\* forever".  Once the outages are over every tracked beacon has a config.
ConfigConverges == <>[](\A b \in tracked : broker[b]["config"] # None)

=============================================================================
