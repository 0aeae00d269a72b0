----------------------------- MODULE Lifecycle -----------------------------
(***************************************************************************)
(* The life of the process (cmd/briihass/main.go, run): boot with the      *)
(* presence state of the table, the goroutines, and the orderly shutdown,  *)
(* over several pods one after the other or overlapping in a rollout.      *)
(*                                                                         *)
(* Abstractions.  The published zones of all beacons are one version: each *)
(* change the engine makes is a new number, so a smaller one is an older   *)
(* state; 0 is the cold state, everyone not_home.  The events channel, the *)
(* publisher's queue and the broker are one FIFO, `out`, into `ha`; their  *)
(* detail is Publisher's.  Of the goroutines behind the WaitGroup those    *)
(* that touch presence state are kept; the writers are BatchWriter's and   *)
(* the pruner Retention's; at the end any of them, or a handler, may still *)
(* have a connection of the pool.  Timeouts may come at any time.          *)
(***************************************************************************)
EXTENDS Naturals, SequencesExt

CONSTANTS MaxPods,      \* bound on pods ever started
          MaxVersion,   \* bound on zone changes
          MaxInflight,  \* bound on POSTs in flight at one pod
          OutCap,       \* capacity of the way to Home Assistant
          Surge,        \* a rollout starts the next pod beside the last one
          None          \* nothing

VARIABLES pods,   \* per pod, the state of its process
          world,  \* the version the latest zone change produced
          saved,  \* the rows of presence_state
          ha,     \* what Home Assistant shows
          disturbed  \* history: a crash, a load or a final flush that failed,
                     \* a drain that timed out

vars == <<pods, world, saved, ha, disturbed>>

ASSUME LifecycleAssumption ==
    /\ MaxPods \in Nat /\ MaxVersion \in Nat /\ MaxInflight \in Nat
    /\ OutCap \in Nat \ {0}
    /\ Surge \in BOOLEAN
    /\ None \notin Nat

Pods == 1..MaxPods

\* tickers: Engine.Run and the telemetry pump; pump: the event pump with
\* Publisher.Run; persister: the 5 s flush of presence_state.
Goroutines == {"tickers", "pump", "persister"}

\* phase: none, up, signalled (the root context is done), shutdown (the
\*   listeners close), draining, flushing, closing; pool, poolHeld, poolHeldSave
\*   (the pool closes; a statement, or a SaveAll, has a connection); closed,
\*   crashed.
\* zone: the engine's version; out: events on their way; running: goroutines;
\* save, flush: the version a SavePresenceState of the persister, of the final
\* flush, is writing; inflight: POSTs in their handlers.
\* clean: history, its shutdown met no timeout and no failure.
NoPod == [phase |-> "none", zone |-> 0, out |-> <<>>, running |-> {},
          save |-> None, flush |-> None, inflight |-> 0, clean |-> TRUE]

Alive(p) == pods[p].phase \notin {"none", "closed", "crashed"}

\* What run does after the final flush.
Pooling == {"pool", "poolHeld", "poolHeldSave"}
Leaving == {"closing"} \cup Pooling

\* The engine exists and handlers may still run.
Serving(p) == pods[p].phase \in {"up", "signalled", "shutdown", "draining",
                                 "flushing"} \cup Leaving

Init ==
    /\ pods = [p \in Pods |-> NoPod]
    /\ world = 0
    /\ saved = 0
    /\ ha = 0
    /\ disturbed = FALSE

-----------------------------------------------------------------------------
(* Boot.                                                                   *)

\* The deployment starts the next pod, after the last one ended or, in a
\* rollout with maxSurge 1, beside it; its engine begins with `version`.
Start(p, version) ==
    LET beside == {q \in Pods : Alive(q)}
    IN  /\ pods[p].phase = "none"
        /\ \A q \in 1..(p - 1) : pods[q].phase # "none"
        /\ beside = {} \/ (Surge /\ beside = {p - 1})
        /\ pods' = [pods EXCEPT ![p] = [NoPod EXCEPT !.phase = "up", !.zone = version,
                                                     !.running = Goroutines]]
        /\ disturbed' = (disturbed \/ version # saved)
        /\ UNCHANGED <<world, saved, ha>>

\* LoadPresenceState, RestoreState; then the goroutines and the listeners.
Boot(p) == Start(p, saved)

\* The load fails: a cold start.
BootCold(p) == Start(p, 0)

-----------------------------------------------------------------------------
(* Service.                                                                *)

\* Engine.emit: the newest event is dropped when the channel is full.
emit(out, version) == IF Len(out) < OutCap THEN Append(out, version) ELSE out

\* The listener takes a POST until Shutdown closes it.
Request(p) ==
    /\ pods[p].phase \in {"up", "signalled"}
    /\ pods[p].inflight < MaxInflight
    /\ pods' = [pods EXCEPT ![p].inflight = @ + 1]
    /\ UNCHANGED <<world, saved, ha, disturbed>>

\* The engine moves a beacon and emits the event.
Changed(pod) == [pod EXCEPT !.zone = world + 1, !.out = emit(@, world + 1)]

\* A handler submits its sightings (or an admin request applies a topology),
\* which changes a zone, and returns.
Submit(p) ==
    /\ Serving(p) /\ pods[p].inflight > 0 /\ world < MaxVersion
    /\ world' = world + 1
    /\ pods' = [pods EXCEPT ![p] = [Changed(pods[p]) EXCEPT !.inflight = @ - 1]]
    /\ UNCHANGED <<saved, ha, disturbed>>

\* A handler returns with no zone changed.
Return(p) ==
    /\ Serving(p) /\ pods[p].inflight > 0
    /\ pods' = [pods EXCEPT ![p].inflight = @ - 1]
    /\ UNCHANGED <<world, saved, ha, disturbed>>

\* Engine.Run: a tick sends a beacon away (with everyone away, it cannot).
Tick(p) ==
    /\ "tickers" \in pods[p].running /\ pods[p].zone # 0 /\ world < MaxVersion
    /\ world' = world + 1
    /\ pods' = [pods EXCEPT ![p] = Changed(@)]
    /\ UNCHANGED <<saved, ha, disturbed>>

\* Variant of RepublishAll with a bug: beacons that are not home are left out.
RepublishAllPresent(p) ==
    /\ "tickers" \in pods[p].running /\ pods[p].zone # 0
    /\ pods' = [pods EXCEPT ![p].out = emit(@, pods[p].zone)]
    /\ UNCHANGED <<world, saved, ha, disturbed>>

\* The telemetry pump: RepublishAll emits the current state.
RepublishAll(p) ==
    /\ "tickers" \in pods[p].running
    /\ pods' = [pods EXCEPT ![p].out = emit(@, pods[p].zone)]
    /\ UNCHANGED <<world, saved, ha, disturbed>>

\* The event pump hands an event on and the broker has it, until pub.Close.
Publish(p) ==
    /\ "pump" \in pods[p].running /\ pods[p].out # <<>>
    /\ pods[p].phase \notin Pooling
    /\ ha' = Head(pods[p].out)
    /\ pods' = [pods EXCEPT ![p].out = Tail(@)]
    /\ UNCHANGED <<world, saved, disturbed>>

\* An event is lost: published with the link down, evicted from the publisher's
\* queue, or refused by it after another caller took the place that was freed.
Lose(p) ==
    /\ "pump" \in pods[p].running
    /\ \E i \in 1..Len(pods[p].out) : pods' = [pods EXCEPT ![p].out = RemoveAt(@, i)]
    /\ UNCHANGED <<world, saved, ha, disturbed>>

\* persistPresence, the periodic one: the snapshot is taken...
Snapshot(p) ==
    /\ pods[p].phase = "up" /\ pods[p].save = None
    /\ pods' = [pods EXCEPT ![p].save = pods[p].zone]
    /\ UNCHANGED <<world, saved, ha, disturbed>>

\* ... and its transaction commits, at the latest as the root context ends,
\* whether or not its answer arrives.
Saved(p) ==
    /\ pods[p].save # None
    /\ saved' = pods[p].save
    /\ pods' = [pods EXCEPT ![p].save = None]
    /\ UNCHANGED <<world, ha, disturbed>>

\* SavePresenceState fails without a commit, and is logged.
SaveFails(p) ==
    /\ pods[p].save # None
    /\ pods' = [pods EXCEPT ![p].save = None]
    /\ UNCHANGED <<world, saved, ha, disturbed>>

-----------------------------------------------------------------------------
(* Shutdown.                                                               *)

Enter(p, from, to) ==
    /\ pods[p].phase = from
    /\ pods' = [pods EXCEPT ![p].phase = to]
    /\ UNCHANGED <<world, saved, ha, disturbed>>

\* SIGTERM, or a listener that fails calls stop(): the root context is done.
Stop(p) == Enter(p, "up", "signalled")

\* A goroutine sees ctx.Done(): whatever is still in its channel stays there.
Exit(p, g) ==
    /\ pods[p].phase # "up"
    /\ g \in pods[p].running
    /\ g = "persister" => pods[p].save = None
    /\ pods' = [pods EXCEPT ![p].running = @ \ {g}]
    /\ UNCHANGED <<world, saved, ha, disturbed>>

\* Server.Shutdown closes the listeners.
Shutdown(p) == Enter(p, "signalled", "shutdown")

\* Shutdown returns: no handler is left.
Quiet(p) == pods[p].inflight = 0 /\ Enter(p, "shutdown", "draining")

\* Shutdown gives up after 5 s: handlers go on.
ShutdownTimeout(p) ==
    /\ pods[p].phase = "shutdown" /\ pods[p].inflight > 0
    /\ pods' = [pods EXCEPT ![p].phase = "draining", ![p].clean = FALSE]
    /\ UNCHANGED <<world, saved, ha, disturbed>>

\* Variant of Drain with a bug: the goroutines are not waited for.
DrainAtOnce(p) == Enter(p, "draining", "flushing")

\* wg.Wait returns.
Drain(p) == pods[p].running = {} /\ Enter(p, "draining", "flushing")

\* Variant of DrainTimeout with a bug: the drain has no deadline.
DrainNoDeadline(p) == FALSE

\* drainCtx expires after 3 s with a goroutine still running.
DrainTimeout(p) ==
    /\ pods[p].phase = "draining" /\ pods[p].running # {}
    /\ pods' = [pods EXCEPT ![p].phase = "flushing", ![p].clean = FALSE]
    /\ disturbed' = TRUE
    /\ UNCHANGED <<world, saved, ha>>

\* The final persistPresence: its snapshot...
FlushSnapshot(p) ==
    /\ pods[p].phase = "flushing" /\ pods[p].flush = None
    /\ pods' = [pods EXCEPT ![p].flush = pods[p].zone]
    /\ UNCHANGED <<world, saved, ha, disturbed>>

\* Variant of FlushSaved with a bug: nothing is written.
FlushSkipped(p) ==
    /\ pods[p].flush # None
    /\ pods' = [pods EXCEPT ![p].phase = "closing", ![p].flush = None]
    /\ UNCHANGED <<world, saved, ha, disturbed>>

\* ... and its SavePresenceState commits,
FlushSaved(p) ==
    /\ pods[p].flush # None
    /\ saved' = pods[p].flush
    /\ pods' = [pods EXCEPT ![p].phase = "closing", ![p].flush = None]
    /\ UNCHANGED <<world, ha, disturbed>>

\* or fails, or times out before or after its commit.
FlushFails(p) ==
    /\ pods[p].flush # None
    /\ saved' \in {saved, pods[p].flush}
    /\ pods' = [pods EXCEPT ![p].phase = "closing", ![p].flush = None, ![p].clean = FALSE]
    /\ disturbed' = TRUE
    /\ UNCHANGED <<world, ha>>

\* pub.Close.  After it run is over but for the deferred tunStore.Close, which
\* has no deadline: it waits for every connection that the statements of
\* handlers and goroutines have, if any outlived their own wait.
Disconnect(p) ==
    /\ pods[p].phase = "closing"
    /\ \E to \in Pooling :
         /\ to # "pool" => ~pods[p].clean
         /\ to = "poolHeldSave" => pods[p].inflight > 0
         /\ pods' = [pods EXCEPT ![p].phase = to]
    /\ UNCHANGED <<world, saved, ha, disturbed>>

\* The statement ends, at the latest with its own context.
StatementEnds(p) == Enter(p, "poolHeld", "pool")

\* SaveAll has the request's context, which has no deadline: it ends when
\* Postgres answers or the browser goes.
SaveAllEnds(p) == Enter(p, "poolHeldSave", "pool")

\* tunStore.Close returns, and so does run; the engine's last state is kept for
\* FlushFresh.
ClosePool(p) ==
    /\ pods[p].phase = "pool" /\ pods[p].save = None
    /\ pods' = [pods EXCEPT ![p] =
          [NoPod EXCEPT !.phase = "closed", !.clean = pods[p].clean,
                        !.zone = IF pods[p].clean THEN pods[p].zone ELSE 0]]
    /\ UNCHANGED <<world, saved, ha, disturbed>>

\* A crash or an eviction.
Crash(p) ==
    /\ Alive(p)
    /\ pods' = [pods EXCEPT ![p] = [NoPod EXCEPT !.phase = "crashed"]]
    /\ disturbed' = TRUE
    /\ UNCHANGED <<world, saved, ha>>

-----------------------------------------------------------------------------
Next ==
    \E p \in Pods :
       \/ Boot(p) \/ BootCold(p)
       \/ Request(p) \/ Submit(p) \/ Return(p) \/ Tick(p)
       \/ RepublishAll(p) \/ Publish(p) \/ Lose(p)
       \/ Snapshot(p) \/ Saved(p) \/ SaveFails(p)
       \/ Stop(p) \/ Shutdown(p) \/ Quiet(p) \/ ShutdownTimeout(p)
       \/ Drain(p) \/ DrainTimeout(p)
       \/ FlushSnapshot(p) \/ FlushSaved(p) \/ FlushFails(p)
       \/ Disconnect(p) \/ StatementEnds(p) \/ SaveAllEnds(p) \/ ClosePool(p)
       \/ Crash(p)
       \/ \E g \in Goroutines : Exit(p, g)

Spec == Init /\ [][Next]_vars

\* main's own steps, which only the pool can hold up.
MainStep(p) ==
    \/ Shutdown(p) \/ Quiet(p) \/ ShutdownTimeout(p) \/ Drain(p) \/ DrainTimeout(p)
    \/ FlushSnapshot(p) \/ FlushSaved(p) \/ FlushFails(p)
    \/ Disconnect(p) \/ ClosePool(p)

\* The contexts of all statements but SaveAll's end; the tickers fire; of the
\* saves and publishes tried again and again some succeed (database and broker
\* are not gone for good).
FairSpec ==
    /\ Spec
    /\ \A p \in Pods :
          /\ WF_vars(MainStep(p))
          /\ WF_vars(StatementEnds(p))
          /\ WF_vars(RepublishAll(p))
          /\ WF_vars(Snapshot(p))
          /\ SF_vars(Saved(p))
          /\ SF_vars(Publish(p))

-----------------------------------------------------------------------------
(* Properties.                                                             *)

\* ADR-0006: the final flush lets the freshest zones survive a SIGTERM.  While
\* no pod follows one that ended cleanly, presence_state is exactly
\* the last state of its engine: no tick, late sighting or periodic save slips
\* in after the flush (the order Shutdown, drain, flush of run).
FlushFresh ==
    \A p \in Pods :
       /\ pods[p].phase = "closed" /\ pods[p].clean
       /\ \A q \in (p + 1)..MaxPods : pods[q].phase = "none"
       => saved = pods[p].zone

\* ADR-0006, restarts boot warm: unless the history was disturbed, Home
\* Assistant is never shown an older state than it already had, however often
\* the process restarts, with events lost at shutdown and handlers that
\* outlive it.
WarmRestart == [][ha' >= ha \/ disturbed]_vars

\* main.go: once the root context is done run ends, by the deadlines of its waits
\* and, as the pool closes, of the statements still in progress: no handler and
\* no goroutine can hold it up, but a save of the tunables that has no deadline.
RunReturns ==
    \A p \in Pods :
       pods[p].phase = "signalled" ~> ~Alive(p) \/ pods[p].phase = "poolHeldSave"

\* A pod left alone brings both Home Assistant and presence_state to its own
\* state, whatever its predecessors lost or wrote.
Settled(p) ==
    /\ pods[p].phase = "up"
    /\ \A q \in Pods \ {p} : ~Alive(q)

Converges ==
    \A p \in Pods :
       <>[]Settled(p) => <>[](ha = pods[p].zone /\ saved = pods[p].zone)

=============================================================================
