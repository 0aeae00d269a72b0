-------------------------- MODULE LifecycleProofs --------------------------
(***************************************************************************)
(* Proofs about Lifecycle: what one pod at a time guarantees of the final  *)
(* flush and of the boot that follows it, for any number of pods, zone     *)
(* changes, requests in flight and any capacity of the way to Home         *)
(* Assistant.  Types hold in a rollout too; the rest is proved for a       *)
(* deployment that starts a pod after the last one ended (Surge is FALSE): *)
(* the run Rollout shows that it fails otherwise.                          *)
(***************************************************************************)
EXTENDS Lifecycle, TLAPS, SequenceTheorems

-----------------------------------------------------------------------------
(* The inductive invariant.                                                *)

Phases == {"none", "up", "signalled", "shutdown", "draining", "flushing",
           "closing", "pool", "poolHeld", "poolHeldSave", "closed", "crashed"}

PodStates == [phase : Phases, zone : Nat, out : Seq(Nat),
              running : SUBSET Goroutines, save : Nat \cup {None},
              flush : Nat \cup {None}, inflight : Nat, clean : BOOLEAN]

Typed ==
    /\ pods \in [Pods -> PodStates]
    /\ world \in Nat /\ saved \in Nat /\ ha \in Nat
    /\ disturbed \in BOOLEAN

\* Pods are started in order, and each only once its predecessors ended.
Succession ==
    \A p, q \in Pods :
       p < q /\ pods[q].phase # "none" => pods[p].phase # "none" /\ ~Alive(p)

\* Where each goroutine and each write of presence_state may still be found.
Orderly(pod) ==
    /\ pod.phase \in {"none", "closed", "crashed"} =>
          pod.running = {} /\ pod.inflight = 0
    /\ pod.phase = "up" => pod.running = Goroutines
    /\ pod.save # None => "persister" \in pod.running
    /\ pod.flush # None => pod.phase = "flushing"
    /\ pod.phase \in {"draining", "flushing"} \cup Leaving /\ pod.clean =>
          pod.inflight = 0
    /\ pod.phase \in {"flushing"} \cup Leaving /\ (pod.clean \/ ~disturbed) =>
          pod.running = {}

\* From the snapshot of a clean final flush on, the engine stands still and
\* presence_state goes to its state.
Fresh(pod) ==
    /\ pod.flush # None /\ pod.clean => pod.flush = pod.zone
    /\ pod.phase \in Leaving /\ pod.clean => saved = pod.zone

\* What Home Assistant has, as far as it may not be taken back.
Floor == IF disturbed THEN 0 ELSE ha

\* The events on their way are in order, none older than Home Assistant's
\* state and none newer than the engine's.
Ascending(lo, s, hi) ==
    /\ lo <= hi
    /\ \A i \in 1..Len(s) : lo <= s[i] /\ s[i] <= hi
    /\ \A i, j \in 1..Len(s) : i <= j => s[i] <= s[j]

\* Home Assistant is never ahead of an engine, of a final flush or of the rows
\* the next pod boots with.
Ahead(pod) ==
    /\ pod.phase \notin {"none", "closed", "crashed"} =>
          Ascending(Floor, pod.out, pod.zone) /\ pod.zone <= world
    /\ pod.flush # None => Floor <= pod.flush
    /\ pod.phase \in Leaving => Floor <= saved

\* Nothing that was or will be written is from the future.
Past == saved <= world /\ \A p \in Pods : /\ pods[p].save # None => pods[p].save <= world
                                          /\ pods[p].flush # None => pods[p].flush <= world

BootsWarm == (\A p \in Pods : ~Alive(p)) => Floor <= saved

IInv ==
    /\ Typed
    /\ Succession
    /\ \A p \in Pods : Orderly(pods[p])
    /\ \A p \in Pods : Fresh(pods[p])
    /\ FlushFresh
    /\ \A p \in Pods : Ahead(pods[p])
    /\ Past
    /\ BootsWarm

-----------------------------------------------------------------------------
(* Types, and the shape of a step.                                         *)

\* The steps of one pod.
Moves(p) ==
    \/ Boot(p) \/ BootCold(p)
    \/ Request(p) \/ Submit(p) \/ Return(p) \/ Tick(p)
    \/ RepublishAll(p) \/ Publish(p) \/ Lose(p)
    \/ Snapshot(p) \/ Saved(p) \/ SaveFails(p)
    \/ Stop(p) \/ Shutdown(p) \/ Quiet(p) \/ ShutdownTimeout(p)
    \/ Drain(p) \/ DrainTimeout(p)
    \/ FlushSnapshot(p) \/ FlushSaved(p) \/ FlushFails(p)
    \/ Disconnect(p) \/ StatementEnds(p) \/ SaveAllEnds(p) \/ ClosePool(p)
    \/ Crash(p)
    \/ \E g \in Goroutines : Exit(p, g)

\* Next is a step of one pod.
LEMMA NextMoves == Next <=> \E p \in Pods : Moves(p)
  BY DEF Next, Moves

\* Engine.emit keeps a channel of versions.
LEMMA EmitType ==
    ASSUME NEW s \in Seq(Nat), NEW v \in Nat
    PROVE  emit(s, v) \in Seq(Nat)
  BY DEF emit

\* A pod that was not started is a pod.
LEMMA NoPodType == NoPod \in PodStates
  BY DEF NoPod, PodStates, Phases

\* A step of p that leaves it with these fields, and every other pod as it was.
Becomes(p, phase, zone, out, running, save, flush, inflight, clean) ==
    /\ pods' \in [Pods -> PodStates]
    /\ pods'[p].phase = phase /\ pods'[p].zone = zone /\ pods'[p].out = out
    /\ pods'[p].running = running /\ pods'[p].save = save /\ pods'[p].flush = flush
    /\ pods'[p].inflight = inflight /\ pods'[p].clean = clean
    /\ \A q \in Pods \ {p} : pods'[q] = pods[q]

\* One EXCEPT is such a step.
LEMMA Put ==
    ASSUME Typed, NEW p \in Pods, NEW n \in PodStates, pods' = [pods EXCEPT ![p] = n]
    PROVE  Becomes(p, n.phase, n.zone, n.out, n.running, n.save, n.flush,
                   n.inflight, n.clean)
  <1>1. pods' \in [Pods -> PodStates] /\ pods'[p] = n
    BY DEF Typed
  <1>2. \A q \in Pods \ {p} : pods'[q] = pods[q]
    BY DEF Typed
  <1> QED
    BY <1>1, <1>2 DEF Becomes

\* Fields of a pod keep their types.
LEMMA SetFields ==
    ASSUME NEW d \in PodStates
    PROVE  /\ \A x \in Nat : [d EXCEPT !.inflight = x] \in PodStates
           /\ \A x \in Seq(Nat) : [d EXCEPT !.out = x] \in PodStates
           /\ \A x \in Nat, y \in Seq(Nat) : [d EXCEPT !.zone = x, !.out = y] \in PodStates
  BY DEF PodStates

\* The fields of a pod, by name.
LEMMA PodFields ==
    ASSUME Typed, NEW p \in Pods
    PROVE  /\ pods[p] \in PodStates
           /\ pods[p].phase \in Phases /\ pods[p].zone \in Nat
           /\ pods[p].out \in Seq(Nat) /\ pods[p].running \subseteq Goroutines
           /\ pods[p].save \in Nat \cup {None} /\ pods[p].flush \in Nat \cup {None}
           /\ pods[p].inflight \in Nat /\ pods[p].clean \in BOOLEAN
  BY DEF Typed, PodStates

\* The engine's part of a step.
LEMMA ChangedType ==
    ASSUME NEW d \in PodStates, world \in Nat
    PROVE  Changed(d) \in PodStates /\ Changed(d).inflight = d.inflight
  <1>1. d.out \in Seq(Nat)
    BY DEF PodStates
  <1>2. world + 1 \in Nat
    OBVIOUS
  <1>3. emit(d.out, world + 1) \in Seq(Nat)
    BY <1>1, <1>2, EmitType
  <1>4. Changed(d) \in PodStates
    BY <1>2, <1>3, SetFields DEF Changed
  <1> QED
    BY <1>4 DEF Changed, PodStates

\* The fields the engine's part of a step leaves.
LEMMA ChangedFields ==
    ASSUME NEW d \in PodStates
    PROVE  LET n == Changed(d)
           IN  /\ n.phase = d.phase /\ n.zone = world + 1
               /\ n.out = emit(d.out, world + 1) /\ n.running = d.running
               /\ n.save = d.save /\ n.flush = d.flush
               /\ n.inflight = d.inflight /\ n.clean = d.clean
  BY DEF Changed, PodStates

\* What Boot leaves its pod with.
LEMMA BootEffect ==
    ASSUME Typed, NEW p \in Pods, Boot(p)
    PROVE  /\ Becomes(p, "up", saved, <<>>,
                      Goroutines, None, None,
                      0, TRUE)
           /\ pods[p].phase = "none"
           /\ \A q \in Pods : q < p => pods[q].phase # "none"
           /\ Surge = FALSE => \A q \in Pods : ~Alive(q)
           /\ UNCHANGED <<world, saved, ha, disturbed>>
  <1> DEFINE n == [NoPod EXCEPT !.phase = "up", !.zone = saved, !.running = Goroutines]
  <1>1. n \in PodStates
    BY PodFields, NoPodType, LifecycleAssumption DEF Typed, PodStates, Phases
  <1>2. /\ n.phase = "up" /\ n.zone = saved
        /\ n.out = <<>> /\ n.running = Goroutines
        /\ n.save = None /\ n.flush = None
        /\ n.inflight = 0 /\ n.clean = TRUE
    BY PodFields DEF PodStates, NoPod
  <1>3. pods' = [pods EXCEPT ![p] = n]
    BY DEF Boot, Start, Typed
  <1>4. Becomes(p, "up", saved, <<>>,
                Goroutines, None, None,
                0, TRUE)
    BY <1>1, <1>2, <1>3, Put
  <1>5. /\ pods[p].phase = "none"
        /\ \A q \in Pods : q < p => pods[q].phase # "none"
        /\ Surge = FALSE => \A q \in Pods : ~Alive(q)
        /\ UNCHANGED <<world, saved, ha, disturbed>>
    BY DEF Boot, Start, Typed, Pods
  <1> QED
    BY <1>4, <1>5

\* What BootCold leaves its pod with.
LEMMA BootColdEffect ==
    ASSUME Typed, NEW p \in Pods, BootCold(p)
    PROVE  /\ Becomes(p, "up", 0, <<>>,
                      Goroutines, None, None,
                      0, TRUE)
           /\ pods[p].phase = "none"
           /\ \A q \in Pods : q < p => pods[q].phase # "none"
           /\ Surge = FALSE => \A q \in Pods : ~Alive(q)
           /\ disturbed' = (disturbed \/ 0 # saved)
           /\ UNCHANGED <<world, saved, ha>>
  <1> DEFINE n == [NoPod EXCEPT !.phase = "up", !.zone = 0, !.running = Goroutines]
  <1>1. n \in PodStates
    BY PodFields, NoPodType, LifecycleAssumption DEF Typed, PodStates, Phases
  <1>2. /\ n.phase = "up" /\ n.zone = 0
        /\ n.out = <<>> /\ n.running = Goroutines
        /\ n.save = None /\ n.flush = None
        /\ n.inflight = 0 /\ n.clean = TRUE
    BY PodFields DEF PodStates, NoPod
  <1>3. pods' = [pods EXCEPT ![p] = n]
    BY DEF BootCold, Start, Typed
  <1>4. Becomes(p, "up", 0, <<>>,
                Goroutines, None, None,
                0, TRUE)
    BY <1>1, <1>2, <1>3, Put
  <1>5. /\ pods[p].phase = "none"
        /\ \A q \in Pods : q < p => pods[q].phase # "none"
        /\ Surge = FALSE => \A q \in Pods : ~Alive(q)
        /\ disturbed' = (disturbed \/ 0 # saved)
        /\ UNCHANGED <<world, saved, ha>>
    BY DEF BootCold, Start, Typed, Pods
  <1> QED
    BY <1>4, <1>5

\* What Request leaves its pod with.
LEMMA RequestEffect ==
    ASSUME Typed, NEW p \in Pods, Request(p)
    PROVE  /\ Becomes(p, pods[p].phase, pods[p].zone, pods[p].out,
                      pods[p].running, pods[p].save, pods[p].flush,
                      pods[p].inflight + 1, pods[p].clean)
           /\ pods[p].phase \in {"up", "signalled"}
           /\ UNCHANGED <<world, saved, ha, disturbed>>
  <1> DEFINE n == [pods[p] EXCEPT !.inflight = @ + 1]
  <1>1. pods[p].inflight + 1 \in Nat
    BY PodFields
  <1>2. n \in PodStates
    BY <1>1, PodFields, SetFields
  <1>3. /\ n.phase = pods[p].phase /\ n.zone = pods[p].zone
        /\ n.out = pods[p].out /\ n.running = pods[p].running
        /\ n.save = pods[p].save /\ n.flush = pods[p].flush
        /\ n.inflight = pods[p].inflight + 1 /\ n.clean = pods[p].clean
    BY PodFields DEF PodStates
  <1>4. pods' = [pods EXCEPT ![p] = n]
    BY DEF Request, Typed
  <1> QED
    BY <1>2, <1>3, <1>4, Put DEF Request

\* What Submit leaves its pod with.
LEMMA SubmitEffect ==
    ASSUME Typed, NEW p \in Pods, Submit(p)
    PROVE  /\ Becomes(p, pods[p].phase, world + 1, emit(pods[p].out, world + 1),
                      pods[p].running, pods[p].save, pods[p].flush,
                      pods[p].inflight - 1, pods[p].clean)
           /\ Serving(p) /\ pods[p].inflight > 0
           /\ world' = world + 1
           /\ UNCHANGED <<saved, ha, disturbed>>
  <1> DEFINE n == [Changed(pods[p]) EXCEPT !.inflight = @ - 1]
  <1>1. Changed(pods[p]) \in PodStates
    BY PodFields, ChangedType DEF Typed
  <1>2. Changed(pods[p]).inflight - 1 \in Nat
    BY ChangedType, PodFields DEF Submit, Typed
  <1>3. n \in PodStates
    BY <1>1, <1>2, SetFields
  <1>4. /\ n.phase = pods[p].phase /\ n.zone = world + 1
        /\ n.out = emit(pods[p].out, world + 1) /\ n.running = pods[p].running
        /\ n.save = pods[p].save /\ n.flush = pods[p].flush
        /\ n.inflight = pods[p].inflight - 1 /\ n.clean = pods[p].clean
    BY PodFields, ChangedFields, ChangedType DEF Typed, PodStates
  <1>5. pods' = [pods EXCEPT ![p] = n]
    BY DEF Submit, Typed
  <1> QED
    BY <1>3, <1>4, <1>5, Put DEF Submit

\* What Return leaves its pod with.
LEMMA ReturnEffect ==
    ASSUME Typed, NEW p \in Pods, Return(p)
    PROVE  /\ Becomes(p, pods[p].phase, pods[p].zone, pods[p].out,
                      pods[p].running, pods[p].save, pods[p].flush,
                      pods[p].inflight - 1, pods[p].clean)
           /\ Serving(p) /\ pods[p].inflight > 0
           /\ UNCHANGED <<world, saved, ha, disturbed>>
  <1> DEFINE n == [pods[p] EXCEPT !.inflight = @ - 1]
  <1>1. pods[p].inflight - 1 \in Nat
    BY PodFields DEF Return
  <1>2. n \in PodStates
    BY <1>1, PodFields, SetFields
  <1>3. /\ n.phase = pods[p].phase /\ n.zone = pods[p].zone
        /\ n.out = pods[p].out /\ n.running = pods[p].running
        /\ n.save = pods[p].save /\ n.flush = pods[p].flush
        /\ n.inflight = pods[p].inflight - 1 /\ n.clean = pods[p].clean
    BY PodFields DEF PodStates
  <1>4. pods' = [pods EXCEPT ![p] = n]
    BY DEF Return, Typed
  <1> QED
    BY <1>2, <1>3, <1>4, Put DEF Return

\* What Tick leaves its pod with.
LEMMA TickEffect ==
    ASSUME Typed, NEW p \in Pods, Tick(p)
    PROVE  /\ Becomes(p, pods[p].phase, world + 1, emit(pods[p].out, world + 1),
                      pods[p].running, pods[p].save, pods[p].flush,
                      pods[p].inflight, pods[p].clean)
           /\ "tickers" \in pods[p].running
           /\ world' = world + 1
           /\ UNCHANGED <<saved, ha, disturbed>>
  <1> DEFINE n == Changed(pods[p])
  <1>1. Changed(pods[p]) \in PodStates
    BY PodFields, ChangedType DEF Typed
  <1>2. n \in PodStates
    BY <1>1
  <1>3. /\ n.phase = pods[p].phase /\ n.zone = world + 1
        /\ n.out = emit(pods[p].out, world + 1) /\ n.running = pods[p].running
        /\ n.save = pods[p].save /\ n.flush = pods[p].flush
        /\ n.inflight = pods[p].inflight /\ n.clean = pods[p].clean
    BY PodFields, ChangedFields, ChangedType DEF Typed, PodStates
  <1>4. pods' = [pods EXCEPT ![p] = n]
    BY DEF Tick, Typed
  <1> QED
    BY <1>2, <1>3, <1>4, Put DEF Tick

\* What RepublishAll leaves its pod with.
LEMMA RepublishAllEffect ==
    ASSUME Typed, NEW p \in Pods, RepublishAll(p)
    PROVE  /\ Becomes(p, pods[p].phase, pods[p].zone, emit(pods[p].out, pods[p].zone),
                      pods[p].running, pods[p].save, pods[p].flush,
                      pods[p].inflight, pods[p].clean)
           /\ "tickers" \in pods[p].running
           /\ UNCHANGED <<world, saved, ha, disturbed>>
  <1> DEFINE n == [pods[p] EXCEPT !.out = emit(@, pods[p].zone)]
  <1>1. emit(pods[p].out, pods[p].zone) \in Seq(Nat)
    BY PodFields, EmitType
  <1>2. n \in PodStates
    BY <1>1, PodFields, SetFields
  <1>3. /\ n.phase = pods[p].phase /\ n.zone = pods[p].zone
        /\ n.out = emit(pods[p].out, pods[p].zone) /\ n.running = pods[p].running
        /\ n.save = pods[p].save /\ n.flush = pods[p].flush
        /\ n.inflight = pods[p].inflight /\ n.clean = pods[p].clean
    BY PodFields DEF PodStates
  <1>4. pods' = [pods EXCEPT ![p] = n]
    BY DEF RepublishAll, Typed
  <1> QED
    BY <1>2, <1>3, <1>4, Put DEF RepublishAll

\* What Publish leaves its pod with.
LEMMA PublishEffect ==
    ASSUME Typed, NEW p \in Pods, Publish(p)
    PROVE  /\ Becomes(p, pods[p].phase, pods[p].zone, Tail(pods[p].out),
                      pods[p].running, pods[p].save, pods[p].flush,
                      pods[p].inflight, pods[p].clean)
           /\ "pump" \in pods[p].running /\ pods[p].out # <<>>
           /\ ha' = Head(pods[p].out)
           /\ UNCHANGED <<world, saved, disturbed>>
  <1> DEFINE n == [pods[p] EXCEPT !.out = Tail(@)]
  <1>1. Tail(pods[p].out) \in Seq(Nat)
    BY PodFields DEF Publish
  <1>2. n \in PodStates
    BY <1>1, PodFields, SetFields
  <1>3. /\ n.phase = pods[p].phase /\ n.zone = pods[p].zone
        /\ n.out = Tail(pods[p].out) /\ n.running = pods[p].running
        /\ n.save = pods[p].save /\ n.flush = pods[p].flush
        /\ n.inflight = pods[p].inflight /\ n.clean = pods[p].clean
    BY PodFields DEF PodStates
  <1>4. pods' = [pods EXCEPT ![p] = n]
    BY DEF Publish, Typed
  <1> QED
    BY <1>2, <1>3, <1>4, Put DEF Publish

\* What is left on the way when the i-th event is lost.
LEMMA Removed ==
    ASSUME NEW s \in Seq(Nat), NEW i \in 1..Len(s)
    PROVE  /\ RemoveAt(s, i) \in Seq(Nat) /\ Len(RemoveAt(s, i)) = Len(s) - 1
           /\ \A j \in 1..(Len(s) - 1) :
                 RemoveAt(s, i)[j] = IF j < i THEN s[j] ELSE s[j + 1]
  <1> DEFINE a == SubSeq(s, 1, i - 1)
             b == SubSeq(s, i + 1, Len(s))
  <1>0. /\ Len(s) \in Nat /\ i \in Nat /\ 1 <= i /\ i <= Len(s)
        /\ \A j \in 1..Len(s) : s[j] \in Nat
    OBVIOUS
  <1>1. /\ a \in Seq(Nat) /\ Len(a) = i - 1 /\ \A j \in 1..(i - 1) : a[j] = s[j]
        /\ b \in Seq(Nat) /\ Len(b) = Len(s) - i
        /\ \A j \in 1..(Len(s) - i) : b[j] = s[i + j]
    <2>1. /\ \A j \in 1..(i - 1) : s[j] \in Nat
          /\ \A j \in (i + 1)..Len(s) : s[j] \in Nat
      BY <1>0
    <2>2. /\ a \in Seq(Nat) /\ Len(a) = IF 1 <= i - 1 THEN (i - 1) - 1 + 1 ELSE 0
          /\ \A j \in 1..((i - 1) - 1 + 1) : a[j] = s[1 + j - 1]
      BY <1>0, <2>1, SubSeqProperties
    <2>3. /\ b \in Seq(Nat)
          /\ Len(b) = IF i + 1 <= Len(s) THEN Len(s) - (i + 1) + 1 ELSE 0
          /\ \A j \in 1..(Len(s) - (i + 1) + 1) : b[j] = s[(i + 1) + j - 1]
      BY <1>0, <2>1, SubSeqProperties
    <2> HIDE DEF a, b
    <2>4. (i - 1) - 1 + 1 = i - 1 /\ Len(s) - (i + 1) + 1 = Len(s) - i
      BY <1>0
    <2>5. \A j \in Int : 1 + j - 1 = j /\ (i + 1) + j - 1 = i + j
      BY <1>0
    <2>6. \A j \in 1..(i - 1) : a[j] = s[j]
      BY <2>2, <2>4, <2>5
    <2>7. ASSUME NEW j \in 1..(Len(s) - i) PROVE b[j] = s[i + j]
      <3>1. j \in 1..(Len(s) - (i + 1) + 1) /\ (i + 1) + j - 1 = i + j
        BY <1>0
      <3>2. b[j] = s[(i + 1) + j - 1]
        BY <2>3, <3>1
      <3> QED
        BY <3>1, <3>2
    <2>8. Len(a) = i - 1
      BY <1>0, <2>2
    <2>9. Len(b) = Len(s) - i
      BY <1>0, <2>3
    <2> QED
      BY <2>2, <2>3, <2>6, <2>7, <2>8, <2>9
  <1>2. RemoveAt(s, i) = a \o b
    BY DEF RemoveAt
  <1> HIDE DEF a, b
  <1>3. a \o b \in Seq(Nat) /\ Len(a \o b) = Len(s) - 1
    <2>1. a \o b \in Seq(Nat) /\ Len(a \o b) = Len(a) + Len(b)
      BY <1>1, ConcatProperties
    <2>2. Len(a) + Len(b) = Len(s) - 1
      BY <1>0, <1>1
    <2> QED
      BY <2>1, <2>2
  <1>4. ASSUME NEW j \in 1..(Len(s) - 1)
        PROVE  (a \o b)[j] = IF j < i THEN s[j] ELSE s[j + 1]
    <2>1. (a \o b)[j] = IF j <= Len(a) THEN a[j] ELSE b[j - Len(a)]
      <3>1. j \in 1..(Len(a) + Len(b))
        BY <1>0, <1>1
      <3> QED
        BY <1>1, <3>1, ConcatProperties
    <2>2. CASE j < i
      <3>1. j \in 1..(i - 1) /\ j <= Len(a)
        BY <1>0, <1>1, <2>2
      <3>2. a[j] = s[j]
        BY <1>1, <3>1
      <3> QED
        BY <2>1, <2>2, <3>1, <3>2
    <2>3. CASE ~(j < i)
      <3>1. j - Len(a) \in 1..(Len(s) - i) /\ i + (j - Len(a)) = j + 1 /\ ~(j <= Len(a))
        <4>1. Len(a) = i - 1
          BY <1>1
        <4> QED
          BY <1>0, <2>3, <4>1
      <3>2. b[j - Len(a)] = s[i + (j - Len(a))]
        BY <1>1, <3>1
      <3> QED
        BY <2>1, <2>3, <3>1, <3>2
    <2> QED
      BY <2>2, <2>3
  <1> QED
    BY <1>2, <1>3, <1>4

\* What Lose leaves its pod with.
LEMMA LoseEffect ==
    ASSUME Typed, NEW p \in Pods, Lose(p)
    PROVE  /\ \E i \in 1..Len(pods[p].out) :
                 Becomes(p, pods[p].phase, pods[p].zone, RemoveAt(pods[p].out, i),
                         pods[p].running, pods[p].save, pods[p].flush,
                         pods[p].inflight, pods[p].clean)
           /\ "pump" \in pods[p].running
           /\ UNCHANGED <<world, saved, ha, disturbed>>
  <1>1. PICK i \in 1..Len(pods[p].out) :
           pods' = [pods EXCEPT ![p].out = RemoveAt(@, i)]
    BY DEF Lose
  <1> DEFINE n == [pods[p] EXCEPT !.out = RemoveAt(@, i)]
  <1>2. RemoveAt(pods[p].out, i) \in Seq(Nat)
    BY PodFields, Removed
  <1>3. n \in PodStates
    BY <1>2, PodFields, SetFields
  <1>4. /\ n.phase = pods[p].phase /\ n.zone = pods[p].zone
        /\ n.out = RemoveAt(pods[p].out, i) /\ n.running = pods[p].running
        /\ n.save = pods[p].save /\ n.flush = pods[p].flush
        /\ n.inflight = pods[p].inflight /\ n.clean = pods[p].clean
    BY PodFields DEF PodStates
  <1>5. pods' = [pods EXCEPT ![p] = n]
    BY <1>1 DEF Typed
  <1> HIDE DEF n
  <1> QED
    BY <1>3, <1>4, <1>5, Put DEF Lose

\* What Snapshot leaves its pod with.
LEMMA SnapshotEffect ==
    ASSUME Typed, NEW p \in Pods, Snapshot(p)
    PROVE  /\ Becomes(p, pods[p].phase, pods[p].zone, pods[p].out,
                      pods[p].running, pods[p].zone, pods[p].flush,
                      pods[p].inflight, pods[p].clean)
           /\ pods[p].phase = "up"
           /\ UNCHANGED <<world, saved, ha, disturbed>>
  <1> DEFINE n == [pods[p] EXCEPT !.save = pods[p].zone]
  <1>1. n \in PodStates
    BY PodFields, NoPodType, LifecycleAssumption DEF Typed, PodStates, Phases
  <1>2. /\ n.phase = pods[p].phase /\ n.zone = pods[p].zone
        /\ n.out = pods[p].out /\ n.running = pods[p].running
        /\ n.save = pods[p].zone /\ n.flush = pods[p].flush
        /\ n.inflight = pods[p].inflight /\ n.clean = pods[p].clean
    BY PodFields DEF PodStates
  <1>3. pods' = [pods EXCEPT ![p] = n]
    BY DEF Snapshot, Typed
  <1> QED
    BY <1>1, <1>2, <1>3, Put DEF Snapshot

\* What Saved leaves its pod with.
LEMMA SavedEffect ==
    ASSUME Typed, NEW p \in Pods, Saved(p)
    PROVE  /\ Becomes(p, pods[p].phase, pods[p].zone, pods[p].out,
                      pods[p].running, None, pods[p].flush,
                      pods[p].inflight, pods[p].clean)
           /\ pods[p].save # None
           /\ saved' = pods[p].save
           /\ UNCHANGED <<world, ha, disturbed>>
  <1> DEFINE n == [pods[p] EXCEPT !.save = None]
  <1>1. n \in PodStates
    BY PodFields, NoPodType, LifecycleAssumption DEF Typed, PodStates, Phases
  <1>2. /\ n.phase = pods[p].phase /\ n.zone = pods[p].zone
        /\ n.out = pods[p].out /\ n.running = pods[p].running
        /\ n.save = None /\ n.flush = pods[p].flush
        /\ n.inflight = pods[p].inflight /\ n.clean = pods[p].clean
    BY PodFields DEF PodStates
  <1>3. pods' = [pods EXCEPT ![p] = n]
    BY DEF Saved, Typed
  <1> QED
    BY <1>1, <1>2, <1>3, Put DEF Saved

\* What SaveFails leaves its pod with.
LEMMA SaveFailsEffect ==
    ASSUME Typed, NEW p \in Pods, SaveFails(p)
    PROVE  /\ Becomes(p, pods[p].phase, pods[p].zone, pods[p].out,
                      pods[p].running, None, pods[p].flush,
                      pods[p].inflight, pods[p].clean)
           /\ pods[p].save # None
           /\ UNCHANGED <<world, saved, ha, disturbed>>
  <1> DEFINE n == [pods[p] EXCEPT !.save = None]
  <1>1. n \in PodStates
    BY PodFields, NoPodType, LifecycleAssumption DEF Typed, PodStates, Phases
  <1>2. /\ n.phase = pods[p].phase /\ n.zone = pods[p].zone
        /\ n.out = pods[p].out /\ n.running = pods[p].running
        /\ n.save = None /\ n.flush = pods[p].flush
        /\ n.inflight = pods[p].inflight /\ n.clean = pods[p].clean
    BY PodFields DEF PodStates
  <1>3. pods' = [pods EXCEPT ![p] = n]
    BY DEF SaveFails, Typed
  <1> QED
    BY <1>1, <1>2, <1>3, Put DEF SaveFails

\* What Stop leaves its pod with.
LEMMA StopEffect ==
    ASSUME Typed, NEW p \in Pods, Stop(p)
    PROVE  /\ Becomes(p, "signalled", pods[p].zone, pods[p].out,
                      pods[p].running, pods[p].save, pods[p].flush,
                      pods[p].inflight, pods[p].clean)
           /\ pods[p].phase = "up"
           /\ UNCHANGED <<world, saved, ha, disturbed>>
  <1> DEFINE n == [pods[p] EXCEPT !.phase = "signalled"]
  <1>1. n \in PodStates
    BY PodFields, NoPodType, LifecycleAssumption DEF Typed, PodStates, Phases
  <1>2. /\ n.phase = "signalled" /\ n.zone = pods[p].zone
        /\ n.out = pods[p].out /\ n.running = pods[p].running
        /\ n.save = pods[p].save /\ n.flush = pods[p].flush
        /\ n.inflight = pods[p].inflight /\ n.clean = pods[p].clean
    BY PodFields DEF PodStates
  <1>3. pods' = [pods EXCEPT ![p] = n]
    BY DEF Stop, Enter, Typed
  <1> QED
    BY <1>1, <1>2, <1>3, Put DEF Stop, Enter

\* What Exit leaves its pod with.
LEMMA ExitEffect ==
    ASSUME Typed, NEW p \in Pods, NEW g \in Goroutines, Exit(p, g)
    PROVE  /\ Becomes(p, pods[p].phase, pods[p].zone, pods[p].out,
                      pods[p].running \ {g}, pods[p].save, pods[p].flush,
                      pods[p].inflight, pods[p].clean)
           /\ pods[p].phase # "up"
           /\ g \in pods[p].running
           /\ g = "persister" => pods[p].save = None
           /\ UNCHANGED <<world, saved, ha, disturbed>>
  <1> DEFINE n == [pods[p] EXCEPT !.running = @ \ {g}]
  <1>1. n \in PodStates
    BY PodFields, NoPodType, LifecycleAssumption DEF Typed, PodStates, Phases
  <1>2. /\ n.phase = pods[p].phase /\ n.zone = pods[p].zone
        /\ n.out = pods[p].out /\ n.running = pods[p].running \ {g}
        /\ n.save = pods[p].save /\ n.flush = pods[p].flush
        /\ n.inflight = pods[p].inflight /\ n.clean = pods[p].clean
    BY PodFields DEF PodStates
  <1>3. pods' = [pods EXCEPT ![p] = n]
    BY DEF Exit, Typed
  <1> QED
    BY <1>1, <1>2, <1>3, Put DEF Exit

\* What Shutdown leaves its pod with.
LEMMA ShutdownEffect ==
    ASSUME Typed, NEW p \in Pods, Shutdown(p)
    PROVE  /\ Becomes(p, "shutdown", pods[p].zone, pods[p].out,
                      pods[p].running, pods[p].save, pods[p].flush,
                      pods[p].inflight, pods[p].clean)
           /\ pods[p].phase = "signalled"
           /\ UNCHANGED <<world, saved, ha, disturbed>>
  <1> DEFINE n == [pods[p] EXCEPT !.phase = "shutdown"]
  <1>1. n \in PodStates
    BY PodFields, NoPodType, LifecycleAssumption DEF Typed, PodStates, Phases
  <1>2. /\ n.phase = "shutdown" /\ n.zone = pods[p].zone
        /\ n.out = pods[p].out /\ n.running = pods[p].running
        /\ n.save = pods[p].save /\ n.flush = pods[p].flush
        /\ n.inflight = pods[p].inflight /\ n.clean = pods[p].clean
    BY PodFields DEF PodStates
  <1>3. pods' = [pods EXCEPT ![p] = n]
    BY DEF Shutdown, Enter, Typed
  <1> QED
    BY <1>1, <1>2, <1>3, Put DEF Shutdown, Enter

\* What Quiet leaves its pod with.
LEMMA QuietEffect ==
    ASSUME Typed, NEW p \in Pods, Quiet(p)
    PROVE  /\ Becomes(p, "draining", pods[p].zone, pods[p].out,
                      pods[p].running, pods[p].save, pods[p].flush,
                      pods[p].inflight, pods[p].clean)
           /\ pods[p].phase = "shutdown" /\ pods[p].inflight = 0
           /\ UNCHANGED <<world, saved, ha, disturbed>>
  <1> DEFINE n == [pods[p] EXCEPT !.phase = "draining"]
  <1>1. n \in PodStates
    BY PodFields, NoPodType, LifecycleAssumption DEF Typed, PodStates, Phases
  <1>2. /\ n.phase = "draining" /\ n.zone = pods[p].zone
        /\ n.out = pods[p].out /\ n.running = pods[p].running
        /\ n.save = pods[p].save /\ n.flush = pods[p].flush
        /\ n.inflight = pods[p].inflight /\ n.clean = pods[p].clean
    BY PodFields DEF PodStates
  <1>3. pods' = [pods EXCEPT ![p] = n]
    BY DEF Quiet, Enter, Typed
  <1> QED
    BY <1>1, <1>2, <1>3, Put DEF Quiet, Enter

\* What ShutdownTimeout leaves its pod with.
LEMMA ShutdownTimeoutEffect ==
    ASSUME Typed, NEW p \in Pods, ShutdownTimeout(p)
    PROVE  /\ Becomes(p, "draining", pods[p].zone, pods[p].out,
                      pods[p].running, pods[p].save, pods[p].flush,
                      pods[p].inflight, FALSE)
           /\ pods[p].phase = "shutdown"
           /\ UNCHANGED <<world, saved, ha, disturbed>>
  <1> DEFINE n == [pods[p] EXCEPT !.phase = "draining", !.clean = FALSE]
  <1>1. n \in PodStates
    BY PodFields, NoPodType, LifecycleAssumption DEF Typed, PodStates, Phases
  <1>2. /\ n.phase = "draining" /\ n.zone = pods[p].zone
        /\ n.out = pods[p].out /\ n.running = pods[p].running
        /\ n.save = pods[p].save /\ n.flush = pods[p].flush
        /\ n.inflight = pods[p].inflight /\ n.clean = FALSE
    BY PodFields DEF PodStates
  <1>3. pods' = [pods EXCEPT ![p] = n]
    BY DEF ShutdownTimeout, Typed
  <1> QED
    BY <1>1, <1>2, <1>3, Put DEF ShutdownTimeout

\* What Drain leaves its pod with.
LEMMA DrainEffect ==
    ASSUME Typed, NEW p \in Pods, Drain(p)
    PROVE  /\ Becomes(p, "flushing", pods[p].zone, pods[p].out,
                      pods[p].running, pods[p].save, pods[p].flush,
                      pods[p].inflight, pods[p].clean)
           /\ pods[p].phase = "draining" /\ pods[p].running = {}
           /\ UNCHANGED <<world, saved, ha, disturbed>>
  <1> DEFINE n == [pods[p] EXCEPT !.phase = "flushing"]
  <1>1. n \in PodStates
    BY PodFields, NoPodType, LifecycleAssumption DEF Typed, PodStates, Phases
  <1>2. /\ n.phase = "flushing" /\ n.zone = pods[p].zone
        /\ n.out = pods[p].out /\ n.running = pods[p].running
        /\ n.save = pods[p].save /\ n.flush = pods[p].flush
        /\ n.inflight = pods[p].inflight /\ n.clean = pods[p].clean
    BY PodFields DEF PodStates
  <1>3. pods' = [pods EXCEPT ![p] = n]
    BY DEF Drain, Enter, Typed
  <1> QED
    BY <1>1, <1>2, <1>3, Put DEF Drain, Enter

\* What DrainTimeout leaves its pod with.
LEMMA DrainTimeoutEffect ==
    ASSUME Typed, NEW p \in Pods, DrainTimeout(p)
    PROVE  /\ Becomes(p, "flushing", pods[p].zone, pods[p].out,
                      pods[p].running, pods[p].save, pods[p].flush,
                      pods[p].inflight, FALSE)
           /\ pods[p].phase = "draining"
           /\ disturbed' = TRUE
           /\ UNCHANGED <<world, saved, ha>>
  <1> DEFINE n == [pods[p] EXCEPT !.phase = "flushing", !.clean = FALSE]
  <1>1. n \in PodStates
    BY PodFields, NoPodType, LifecycleAssumption DEF Typed, PodStates, Phases
  <1>2. /\ n.phase = "flushing" /\ n.zone = pods[p].zone
        /\ n.out = pods[p].out /\ n.running = pods[p].running
        /\ n.save = pods[p].save /\ n.flush = pods[p].flush
        /\ n.inflight = pods[p].inflight /\ n.clean = FALSE
    BY PodFields DEF PodStates
  <1>3. pods' = [pods EXCEPT ![p] = n]
    BY DEF DrainTimeout, Typed
  <1> QED
    BY <1>1, <1>2, <1>3, Put DEF DrainTimeout

\* What FlushSnapshot leaves its pod with.
LEMMA FlushSnapshotEffect ==
    ASSUME Typed, NEW p \in Pods, FlushSnapshot(p)
    PROVE  /\ Becomes(p, pods[p].phase, pods[p].zone, pods[p].out,
                      pods[p].running, pods[p].save, pods[p].zone,
                      pods[p].inflight, pods[p].clean)
           /\ pods[p].phase = "flushing"
           /\ UNCHANGED <<world, saved, ha, disturbed>>
  <1> DEFINE n == [pods[p] EXCEPT !.flush = pods[p].zone]
  <1>1. n \in PodStates
    BY PodFields, NoPodType, LifecycleAssumption DEF Typed, PodStates, Phases
  <1>2. /\ n.phase = pods[p].phase /\ n.zone = pods[p].zone
        /\ n.out = pods[p].out /\ n.running = pods[p].running
        /\ n.save = pods[p].save /\ n.flush = pods[p].zone
        /\ n.inflight = pods[p].inflight /\ n.clean = pods[p].clean
    BY PodFields DEF PodStates
  <1>3. pods' = [pods EXCEPT ![p] = n]
    BY DEF FlushSnapshot, Typed
  <1> QED
    BY <1>1, <1>2, <1>3, Put DEF FlushSnapshot

\* What FlushSaved leaves its pod with.
LEMMA FlushSavedEffect ==
    ASSUME Typed, NEW p \in Pods, FlushSaved(p)
    PROVE  /\ Becomes(p, "closing", pods[p].zone, pods[p].out,
                      pods[p].running, pods[p].save, None,
                      pods[p].inflight, pods[p].clean)
           /\ pods[p].flush # None
           /\ saved' = pods[p].flush
           /\ UNCHANGED <<world, ha, disturbed>>
  <1> DEFINE n == [pods[p] EXCEPT !.phase = "closing", !.flush = None]
  <1>1. n \in PodStates
    BY PodFields, NoPodType, LifecycleAssumption DEF Typed, PodStates, Phases
  <1>2. /\ n.phase = "closing" /\ n.zone = pods[p].zone
        /\ n.out = pods[p].out /\ n.running = pods[p].running
        /\ n.save = pods[p].save /\ n.flush = None
        /\ n.inflight = pods[p].inflight /\ n.clean = pods[p].clean
    BY PodFields DEF PodStates
  <1>3. pods' = [pods EXCEPT ![p] = n]
    BY DEF FlushSaved, Typed
  <1> QED
    BY <1>1, <1>2, <1>3, Put DEF FlushSaved

\* What FlushFails leaves its pod with.
LEMMA FlushFailsEffect ==
    ASSUME Typed, NEW p \in Pods, FlushFails(p)
    PROVE  /\ Becomes(p, "closing", pods[p].zone, pods[p].out,
                      pods[p].running, pods[p].save, None,
                      pods[p].inflight, FALSE)
           /\ pods[p].flush # None
           /\ saved' \in {saved, pods[p].flush}
           /\ disturbed' = TRUE
           /\ UNCHANGED <<world, ha>>
  <1> DEFINE n == [pods[p] EXCEPT !.phase = "closing", !.flush = None, !.clean = FALSE]
  <1>1. n \in PodStates
    BY PodFields, NoPodType, LifecycleAssumption DEF Typed, PodStates, Phases
  <1>2. /\ n.phase = "closing" /\ n.zone = pods[p].zone
        /\ n.out = pods[p].out /\ n.running = pods[p].running
        /\ n.save = pods[p].save /\ n.flush = None
        /\ n.inflight = pods[p].inflight /\ n.clean = FALSE
    BY PodFields DEF PodStates
  <1>3. pods' = [pods EXCEPT ![p] = n]
    BY DEF FlushFails, Typed
  <1> QED
    BY <1>1, <1>2, <1>3, Put, ZenonT(60) DEF FlushFails

\* What Disconnect leaves its pod with.
LEMMA DisconnectEffect ==
    ASSUME Typed, NEW p \in Pods, Disconnect(p)
    PROVE  /\ \E to \in Pooling :
                 Becomes(p, to, pods[p].zone, pods[p].out,
                         pods[p].running, pods[p].save, pods[p].flush,
                         pods[p].inflight, pods[p].clean)
           /\ pods[p].phase = "closing"
           /\ UNCHANGED <<world, saved, ha, disturbed>>
  <1>1. PICK to \in Pooling : pods' = [pods EXCEPT ![p].phase = to]
    BY DEF Disconnect
  <1> DEFINE n == [pods[p] EXCEPT !.phase = to]
  <1>2. n \in PodStates
    BY PodFields DEF PodStates, Phases, Pooling
  <1>3. /\ n.phase = to /\ n.zone = pods[p].zone
        /\ n.out = pods[p].out /\ n.running = pods[p].running
        /\ n.save = pods[p].save /\ n.flush = pods[p].flush
        /\ n.inflight = pods[p].inflight /\ n.clean = pods[p].clean
    BY PodFields DEF PodStates
  <1>4. pods' = [pods EXCEPT ![p] = n]
    BY <1>1 DEF Typed
  <1> HIDE DEF n
  <1>5. Becomes(p, to, pods[p].zone, pods[p].out,
                pods[p].running, pods[p].save, pods[p].flush,
                pods[p].inflight, pods[p].clean)
    BY <1>2, <1>3, <1>4, Put
  <1> QED
    BY <1>5 DEF Disconnect

\* What the end of a statement leaves its pod with.
LEMMA ReleaseEffect ==
    ASSUME Typed, NEW p \in Pods, StatementEnds(p) \/ SaveAllEnds(p)
    PROVE  /\ Becomes(p, "pool", pods[p].zone, pods[p].out,
                      pods[p].running, pods[p].save, pods[p].flush,
                      pods[p].inflight, pods[p].clean)
           /\ pods[p].phase \in Pooling
           /\ UNCHANGED <<world, saved, ha, disturbed>>
  <1> DEFINE n == [pods[p] EXCEPT !.phase = "pool"]
  <1>1. n \in PodStates
    BY PodFields DEF PodStates, Phases
  <1>2. /\ n.phase = "pool" /\ n.zone = pods[p].zone
        /\ n.out = pods[p].out /\ n.running = pods[p].running
        /\ n.save = pods[p].save /\ n.flush = pods[p].flush
        /\ n.inflight = pods[p].inflight /\ n.clean = pods[p].clean
    BY PodFields DEF PodStates
  <1>3. pods' = [pods EXCEPT ![p] = n]
    BY DEF StatementEnds, SaveAllEnds, Enter, Typed
  <1> QED
    BY <1>1, <1>2, <1>3, Put DEF StatementEnds, SaveAllEnds, Enter, Pooling

\* What ClosePool leaves its pod with.
LEMMA ClosePoolEffect ==
    ASSUME Typed, NEW p \in Pods, ClosePool(p)
    PROVE  /\ Becomes(p, "closed", IF pods[p].clean THEN pods[p].zone ELSE 0,
                      <<>>, {}, None, None, 0, pods[p].clean)
           /\ pods[p].phase = "pool"
           /\ UNCHANGED <<world, saved, ha, disturbed>>
  <1> DEFINE n == [NoPod EXCEPT !.phase = "closed", !.clean = pods[p].clean,
                                 !.zone = IF pods[p].clean THEN pods[p].zone ELSE 0]
  <1>1. n \in PodStates
    BY PodFields, NoPodType, LifecycleAssumption DEF Typed, PodStates, Phases
  <1>2. /\ n.phase = "closed" /\ n.zone = (IF pods[p].clean THEN pods[p].zone ELSE 0)
        /\ n.out = <<>> /\ n.running = {}
        /\ n.save = None /\ n.flush = None
        /\ n.inflight = 0 /\ n.clean = pods[p].clean
    BY PodFields DEF PodStates, NoPod
  <1>3. pods' = [pods EXCEPT ![p] = n]
    BY DEF ClosePool, Typed
  <1>4. Becomes(p, "closed", IF pods[p].clean THEN pods[p].zone ELSE 0,
                <<>>, {}, None, None, 0, pods[p].clean)
    BY <1>1, <1>2, <1>3, Put
  <1>5. /\ pods[p].phase = "pool"
        /\ UNCHANGED <<world, saved, ha, disturbed>>
    BY DEF ClosePool, Typed
  <1> QED
    BY <1>4, <1>5

\* What Crash leaves its pod with.
LEMMA CrashEffect ==
    ASSUME Typed, NEW p \in Pods, Crash(p)
    PROVE  /\ Becomes(p, "crashed", 0, <<>>,
                      {}, None, None,
                      0, TRUE)
           /\ Alive(p)
           /\ disturbed' = TRUE
           /\ UNCHANGED <<world, saved, ha>>
  <1> DEFINE n == [NoPod EXCEPT !.phase = "crashed"]
  <1>1. n \in PodStates
    BY PodFields, NoPodType, LifecycleAssumption DEF Typed, PodStates, Phases
  <1>2. /\ n.phase = "crashed" /\ n.zone = 0
        /\ n.out = <<>> /\ n.running = {}
        /\ n.save = None /\ n.flush = None
        /\ n.inflight = 0 /\ n.clean = TRUE
    BY PodFields DEF PodStates, NoPod
  <1>3. pods' = [pods EXCEPT ![p] = n]
    BY DEF Crash, Typed
  <1> QED
    BY <1>1, <1>2, <1>3, Put DEF Crash

-----------------------------------------------------------------------------
(* What a step does to the pods and to the tables.                       *)

\* The types are kept by every step, and a step changes one pod only.
LEMMA TypedStep ==
    ASSUME Typed, NEW p \in Pods, Moves(p)
    PROVE  Typed' /\ \A q \in Pods \ {p} : pods'[q] = pods[q]
  <1> USE DEF Typed, Becomes
  <1>1. CASE Boot(p)
    BY <1>1, BootEffect, PodFields
  <1>2. CASE BootCold(p)
    BY <1>2, BootColdEffect, PodFields
  <1>3. CASE Request(p)
    BY <1>3, RequestEffect, PodFields
  <1>4. CASE Submit(p)
    BY <1>4, SubmitEffect, PodFields
  <1>5. CASE Return(p)
    BY <1>5, ReturnEffect, PodFields
  <1>6. CASE Tick(p)
    BY <1>6, TickEffect, PodFields
  <1>7. CASE RepublishAll(p)
    BY <1>7, RepublishAllEffect, PodFields
  <1>8. CASE Publish(p)
    BY <1>8, PublishEffect, PodFields
  <1>9. CASE Lose(p)
    BY <1>9, LoseEffect, PodFields
  <1>10. CASE Snapshot(p)
    BY <1>10, SnapshotEffect, PodFields
  <1>11. CASE Saved(p)
    BY <1>11, SavedEffect, PodFields
  <1>12. CASE SaveFails(p)
    BY <1>12, SaveFailsEffect, PodFields
  <1>13. CASE Stop(p)
    BY <1>13, StopEffect, PodFields
  <1>14. CASE Shutdown(p)
    BY <1>14, ShutdownEffect, PodFields
  <1>15. CASE Quiet(p)
    BY <1>15, QuietEffect, PodFields
  <1>16. CASE ShutdownTimeout(p)
    BY <1>16, ShutdownTimeoutEffect, PodFields
  <1>17. CASE Drain(p)
    BY <1>17, DrainEffect, PodFields
  <1>18. CASE DrainTimeout(p)
    BY <1>18, DrainTimeoutEffect, PodFields
  <1>19. CASE FlushSnapshot(p)
    BY <1>19, FlushSnapshotEffect, PodFields
  <1>20. CASE FlushSaved(p)
    BY <1>20, FlushSavedEffect, PodFields
  <1>21. CASE FlushFails(p)
    BY <1>21, FlushFailsEffect, PodFields
  <1>22. CASE ClosePool(p)
    BY <1>22, ClosePoolEffect, PodFields
  <1>23. CASE Crash(p)
    BY <1>23, CrashEffect, PodFields
  <1>24. CASE \E g \in Goroutines : Exit(p, g)
    BY <1>24, ExitEffect, PodFields
  <1>25. CASE Disconnect(p)
    BY <1>25, DisconnectEffect, PodFields
  <1>26. CASE StatementEnds(p) \/ SaveAllEnds(p)
    BY <1>26, ReleaseEffect, PodFields
  <1> QED
    BY <1>1, <1>2, <1>3, <1>4, <1>5, <1>6, <1>7, <1>8, <1>9, <1>10, <1>11,
       <1>12, <1>13, <1>14, <1>15, <1>16, <1>17, <1>18, <1>19, <1>20, <1>21,
       <1>22, <1>23, <1>24, <1>25, <1>26 DEF Moves

\* A step is the start of a pod after the others ended, or a step of a live
\* one, which only ClosePool leaves closed.
Begins(p) ==
    /\ pods[p].phase = "none" /\ pods'[p].phase = "up"
    /\ \A q \in Pods : q < p => pods[q].phase # "none"
    /\ \A q \in Pods : ~Alive(q)
    /\ saved' = saved /\ ha' = ha

Lives(p) ==
    /\ Alive(p)
    /\ pods'[p].phase # "none"
    /\ pods'[p].phase = "closed" => ClosePool(p)

\* One pod at a time, every step is one of the two.
LEMMA Mover ==
    ASSUME Surge = FALSE, Typed, NEW p \in Pods, Moves(p), Orderly(pods[p])
    PROVE  Begins(p) \/ Lives(p)
  <1> USE DEF Becomes
  <1>1. CASE Boot(p)
    BY <1>1, BootEffect, PodFields DEF Begins, Lives, Alive, Orderly, Phases
  <1>2. CASE BootCold(p)
    BY <1>2, BootColdEffect, PodFields DEF Begins, Lives, Alive, Orderly, Phases
  <1>3. CASE Request(p)
    BY <1>3, RequestEffect, PodFields DEF Begins, Lives, Alive, Orderly, Phases
  <1>4. CASE Submit(p)
    BY <1>4, SubmitEffect, PodFields DEF Begins, Lives, Alive, Orderly, Phases
  <1>5. CASE Return(p)
    BY <1>5, ReturnEffect, PodFields DEF Begins, Lives, Alive, Orderly, Phases
  <1>6. CASE Tick(p)
    BY <1>6, TickEffect, PodFields DEF Begins, Lives, Alive, Orderly, Phases
  <1>7. CASE RepublishAll(p)
    BY <1>7, RepublishAllEffect, PodFields DEF Begins, Lives, Alive, Orderly, Phases
  <1>8. CASE Publish(p)
    BY <1>8, PublishEffect, PodFields DEF Begins, Lives, Alive, Orderly, Phases
  <1>9. CASE Lose(p)
    BY <1>9, LoseEffect, PodFields DEF Begins, Lives, Alive, Orderly, Phases
  <1>10. CASE Snapshot(p)
    BY <1>10, SnapshotEffect, PodFields DEF Begins, Lives, Alive, Orderly, Phases
  <1>11. CASE Saved(p)
    BY <1>11, SavedEffect, PodFields DEF Begins, Lives, Alive, Orderly, Phases
  <1>12. CASE SaveFails(p)
    BY <1>12, SaveFailsEffect, PodFields DEF Begins, Lives, Alive, Orderly, Phases
  <1>13. CASE Stop(p)
    BY <1>13, StopEffect, PodFields DEF Begins, Lives, Alive, Orderly, Phases
  <1>14. CASE Shutdown(p)
    BY <1>14, ShutdownEffect, PodFields DEF Begins, Lives, Alive, Orderly, Phases
  <1>15. CASE Quiet(p)
    BY <1>15, QuietEffect, PodFields DEF Begins, Lives, Alive, Orderly, Phases
  <1>16. CASE ShutdownTimeout(p)
    BY <1>16, ShutdownTimeoutEffect, PodFields DEF Begins, Lives, Alive, Orderly, Phases
  <1>17. CASE Drain(p)
    BY <1>17, DrainEffect, PodFields DEF Begins, Lives, Alive, Orderly, Phases
  <1>18. CASE DrainTimeout(p)
    BY <1>18, DrainTimeoutEffect, PodFields DEF Begins, Lives, Alive, Orderly, Phases
  <1>19. CASE FlushSnapshot(p)
    BY <1>19, FlushSnapshotEffect, PodFields DEF Begins, Lives, Alive, Orderly, Phases
  <1>20. CASE FlushSaved(p)
    BY <1>20, FlushSavedEffect, PodFields DEF Begins, Lives, Alive, Orderly, Phases
  <1>21. CASE FlushFails(p)
    BY <1>21, FlushFailsEffect, PodFields DEF Begins, Lives, Alive, Orderly, Phases
  <1>22. CASE ClosePool(p)
    BY <1>22, ClosePoolEffect, PodFields DEF Begins, Lives, Alive, Orderly, Phases
  <1>23. CASE Crash(p)
    BY <1>23, CrashEffect, PodFields DEF Begins, Lives, Alive, Orderly, Phases
  <1>24. CASE \E g \in Goroutines : Exit(p, g)
    BY <1>24, ExitEffect, PodFields DEF Begins, Lives, Alive, Orderly, Phases
  <1>25. CASE Disconnect(p)
    BY <1>25, DisconnectEffect, PodFields DEF Begins, Lives, Alive, Orderly, Phases, Pooling
  <1>26. CASE StatementEnds(p) \/ SaveAllEnds(p)
    BY <1>26, ReleaseEffect, PodFields DEF Begins, Lives, Alive, Orderly, Phases, Pooling
  <1> QED
    BY <1>1, <1>2, <1>3, <1>4, <1>5, <1>6, <1>7, <1>8, <1>9, <1>10, <1>11,
       <1>12, <1>13, <1>14, <1>15, <1>16, <1>17, <1>18, <1>19, <1>20, <1>21,
       <1>22, <1>23, <1>24, <1>25, <1>26 DEF Moves

\* What no step does: a disturbed history stays one, only a crash makes a pod
\* crashed, versions grow one by one, and Home Assistant sees what is published.
LEMMA StepLimits ==
    ASSUME Typed, NEW p \in Pods, Moves(p)
    PROVE  /\ disturbed => disturbed'
           /\ Alive(p) /\ pods'[p].phase = "crashed" => disturbed'
           /\ world' = world \/ world' = world + 1
           /\ ha' = ha \/ Publish(p)
  <1> USE DEF Becomes, Alive
  <1>1. CASE Boot(p)
    BY <1>1, BootEffect
  <1>2. CASE BootCold(p)
    BY <1>2, BootColdEffect
  <1>3. CASE Request(p)
    BY <1>3, RequestEffect
  <1>4. CASE Submit(p)
    BY <1>4, SubmitEffect
  <1>5. CASE Return(p)
    BY <1>5, ReturnEffect
  <1>6. CASE Tick(p)
    BY <1>6, TickEffect
  <1>7. CASE RepublishAll(p)
    BY <1>7, RepublishAllEffect
  <1>8. CASE Publish(p)
    BY <1>8, PublishEffect
  <1>9. CASE Lose(p)
    BY <1>9, LoseEffect
  <1>10. CASE Snapshot(p)
    BY <1>10, SnapshotEffect
  <1>11. CASE Saved(p)
    BY <1>11, SavedEffect
  <1>12. CASE SaveFails(p)
    BY <1>12, SaveFailsEffect
  <1>13. CASE Stop(p)
    BY <1>13, StopEffect
  <1>14. CASE Shutdown(p)
    BY <1>14, ShutdownEffect
  <1>15. CASE Quiet(p)
    BY <1>15, QuietEffect
  <1>16. CASE ShutdownTimeout(p)
    BY <1>16, ShutdownTimeoutEffect
  <1>17. CASE Drain(p)
    BY <1>17, DrainEffect
  <1>18. CASE DrainTimeout(p)
    BY <1>18, DrainTimeoutEffect
  <1>19. CASE FlushSnapshot(p)
    BY <1>19, FlushSnapshotEffect
  <1>20. CASE FlushSaved(p)
    BY <1>20, FlushSavedEffect
  <1>21. CASE FlushFails(p)
    BY <1>21, FlushFailsEffect
  <1>22. CASE ClosePool(p)
    BY <1>22, ClosePoolEffect
  <1>23. CASE Crash(p)
    BY <1>23, CrashEffect
  <1>24. CASE \E g \in Goroutines : Exit(p, g)
    BY <1>24, ExitEffect
  <1>25. CASE Disconnect(p)
    BY <1>25, DisconnectEffect DEF Pooling
  <1>26. CASE StatementEnds(p) \/ SaveAllEnds(p)
    BY <1>26, ReleaseEffect DEF Pooling
  <1> QED
    BY <1>1, <1>2, <1>3, <1>4, <1>5, <1>6, <1>7, <1>8, <1>9, <1>10, <1>11,
       <1>12, <1>13, <1>14, <1>15, <1>16, <1>17, <1>18, <1>19, <1>20, <1>21,
       <1>22, <1>23, <1>24, <1>25, <1>26 DEF Moves

-----------------------------------------------------------------------------
(* The order of events on their way.                                       *)

\* An event newer than all keeps the order, whether it is dropped or not.
LEMMA AscendingEmit ==
    ASSUME NEW s \in Seq(Nat), NEW lo \in Nat, NEW hi \in Nat, NEW v \in Nat,
           Ascending(lo, s, hi), hi <= v
    PROVE  Ascending(lo, emit(s, v), v)
  <1>1. CASE emit(s, v) = s
    BY <1>1 DEF Ascending
  <1>2. CASE emit(s, v) = Append(s, v)
    <2>1. /\ Len(Append(s, v)) = Len(s) + 1
          /\ \A i \in 1..Len(s) : Append(s, v)[i] = s[i] /\ s[i] \in Nat
          /\ Append(s, v)[Len(s) + 1] = v
      OBVIOUS
    <2>2. Len(s) \in Nat /\ \A i \in 1..(Len(s) + 1) : i \in 1..Len(s) \/ i = Len(s) + 1
      OBVIOUS
    <2> QED
      BY <1>2, <2>1, <2>2 DEF Ascending
  <1> QED
    BY <1>1, <1>2 DEF emit

\* The oldest event bounds the others.
LEMMA AscendingTail ==
    ASSUME NEW s \in Seq(Nat), NEW lo \in Nat, NEW hi \in Nat,
           Ascending(lo, s, hi), s # <<>>
    PROVE  /\ Head(s) \in Nat /\ lo <= Head(s)
           /\ Ascending(Head(s), Tail(s), hi)
           /\ Ascending(lo, Tail(s), hi)
  <1>1. Len(s) \in Nat /\ Len(s) >= 1 /\ Head(s) = s[1]
    OBVIOUS
  <1>2. Len(Tail(s)) = Len(s) - 1 /\ \A i \in 1..Len(Tail(s)) : Tail(s)[i] = s[i + 1]
    OBVIOUS
  <1>3. \A i \in 1..Len(Tail(s)) : i + 1 \in 1..Len(s)
    BY <1>1, <1>2
  <1>4. \A i \in 1..Len(s) : s[i] \in Nat
    OBVIOUS
  <1> QED
    BY <1>1, <1>2, <1>3, <1>4 DEF Ascending

\* A lost event leaves the others in order.
LEMMA AscendingRemoved ==
    ASSUME NEW s \in Seq(Nat), NEW lo \in Nat, NEW hi \in Nat, NEW i \in 1..Len(s),
           Ascending(lo, s, hi)
    PROVE  Ascending(lo, RemoveAt(s, i), hi)
  <1> DEFINE t == RemoveAt(s, i)
             From(j) == IF j < i THEN j ELSE j + 1
  <1>1. Len(t) = Len(s) - 1 /\ \A j \in 1..(Len(s) - 1) : t[j] = s[From(j)]
    BY Removed
  <1>2. \A j \in 1..(Len(s) - 1) : From(j) \in 1..Len(s)
    OBVIOUS
  <1>3. \A j, k \in 1..(Len(s) - 1) : j <= k => From(j) <= From(k)
    OBVIOUS
  <1> HIDE DEF t, From
  <1>4. Ascending(lo, t, hi)
    BY <1>1, <1>2, <1>3 DEF Ascending
  <1> QED
    BY <1>4 DEF t

\* A lower bound may be lowered.
LEMMA AscendingLower ==
    ASSUME NEW s \in Seq(Nat), NEW lo \in Nat, NEW low \in Nat, NEW hi \in Nat,
           Ascending(lo, s, hi), low <= lo
    PROVE  Ascending(low, s, hi)
  <1>1. \A i \in 1..Len(s) : s[i] \in Nat
    OBVIOUS
  <1> QED
    BY <1>1 DEF Ascending

-----------------------------------------------------------------------------
(* Every step keeps the invariant: the pods beside the one that moves.     *)

\* The floor is a version.
LEMMA FloorType ==
    ASSUME Typed
    PROVE  Floor \in Nat
  BY DEF Floor, Typed

\* While Home Assistant stands still, what may not be taken back does not grow.
LEMMA FloorStep ==
    ASSUME Typed, ha' = ha, disturbed => disturbed'
    PROVE  Floor' <= Floor /\ Floor' \in Nat
  BY DEF Floor, Typed

\* No two pods are alive at once.
LEMMA Alone ==
    ASSUME Succession, NEW p \in Pods, NEW q \in Pods, Alive(p), Alive(q)
    PROVE  p = q
  <1>1. p \in Nat /\ q \in Nat
    BY DEF Pods
  <1>2. ~(p < q) /\ ~(q < p)
    BY DEF Succession, Alive
  <1> QED
    BY <1>1, <1>2

\* Pods still start in order and one after the other.
LEMMA SuccessionStep ==
    ASSUME Surge = FALSE, IInv, NEW p \in Pods, Moves(p)
    PROVE  Succession'
  <1>1. Typed' /\ \A q \in Pods \ {p} : pods'[q] = pods[q]
    BY TypedStep DEF IInv
  <1>2. Begins(p) \/ Lives(p)
    BY Mover DEF IInv
  <1>3. SUFFICES ASSUME NEW a \in Pods, NEW b \in Pods, a < b, pods'[b].phase # "none"
                 PROVE  pods'[a].phase # "none" /\ Alive(a)' = FALSE
    BY DEF Succession, Alive
  <1>4. a # b
    BY <1>3 DEF Pods
  <1>5. CASE a # p /\ b # p
    BY <1>1, <1>3, <1>5 DEF IInv, Succession, Alive
  <1>6. CASE b = p
    BY <1>1, <1>2, <1>3, <1>4, <1>6 DEF IInv, Succession, Alive, Begins, Lives
  <1>7. CASE a = p
    BY <1>1, <1>2, <1>3, <1>4, <1>7 DEF IInv, Succession, Alive, Begins, Lives
  <1> QED
    BY <1>5, <1>6, <1>7

\* A step of one pod disturbs no other: only a live pod writes presence_state
\* or reaches Home Assistant, and then no other is alive.
LEMMA OthersKept ==
    ASSUME Surge = FALSE, IInv, NEW p \in Pods, Moves(p), NEW q \in Pods, q # p
    PROVE  Orderly(pods[q])' /\ Fresh(pods[q])' /\ Ahead(pods[q])'
  <1>1. Typed /\ Typed' /\ pods'[q] = pods[q]
    BY TypedStep DEF IInv
  <1>2. Begins(p) \/ Lives(p)
    BY Mover DEF IInv
  <1>3. (disturbed => disturbed') /\ world <= world'
    BY <1>1, StepLimits DEF Typed
  <1>4. Orderly(pods[q]) /\ Fresh(pods[q]) /\ Ahead(pods[q])
    BY DEF IInv
  <1>5. Orderly(pods[q])'
    BY <1>1, <1>3, <1>4 DEF Orderly
  <1>6. CASE Alive(p)
    <2>1. ~Alive(q)
      BY <1>6, Alone DEF IInv
    <2>2. pods[q].phase \in {"none", "closed", "crashed"} /\ pods[q].flush = None
      BY <2>1, <1>4 DEF Alive, Orderly
    <2> QED
      BY <1>1, <1>5, <2>2 DEF Fresh, Ahead, Leaving, Pooling
  <1>7. CASE ~Alive(p)
    <2>1. saved' = saved /\ ha' = ha
      BY <1>2, <1>7 DEF Begins, Lives
    <2>2. Floor' <= Floor /\ Floor' \in Nat /\ Floor \in Nat
      BY <1>1, <1>3, <2>1, FloorStep, FloorType
    <2>3. pods[q].zone \in Nat /\ pods[q].out \in Seq(Nat) /\ pods[q].flush \in Nat \cup {None}
      BY <1>1, PodFields
    <2>4. Fresh(pods[q])'
      BY <1>1, <1>4, <2>1 DEF Fresh
    <2>5. Ascending(Floor, pods[q].out, pods[q].zone) =>
             Ascending(Floor', pods[q].out, pods[q].zone)
      BY <2>2, <2>3, AscendingLower
    <2>6. Ahead(pods[q])'
      BY <1>1, <1>3, <1>4, <2>1, <2>2, <2>3, <2>5 DEF Ahead, Typed
    <2> QED
      BY <1>5, <2>4, <2>6
  <1> QED
    BY <1>6, <1>7

-----------------------------------------------------------------------------
(* Every step keeps the invariant: the pod that moves.                     *)

\* Goroutines, saves and flushes stay where they belong.
LEMMA OrderlyStep ==
    ASSUME Typed, NEW p \in Pods, Moves(p), Orderly(pods[p])
    PROVE  Orderly(pods[p])'
  <1> USE DEF Becomes, Orderly, Goroutines, Leaving, Pooling
  <1>1. CASE Boot(p)
    BY <1>1, BootEffect, PodFields DEF Phases
  <1>2. CASE BootCold(p)
    BY <1>2, BootColdEffect, PodFields DEF Phases
  <1>3. CASE Request(p)
    BY <1>3, RequestEffect, PodFields DEF Phases
  <1>4. CASE Submit(p)
    BY <1>4, SubmitEffect, PodFields DEF Phases
  <1>5. CASE Return(p)
    BY <1>5, ReturnEffect, PodFields DEF Phases
  <1>6. CASE Tick(p)
    BY <1>6, TickEffect, PodFields DEF Phases
  <1>7. CASE RepublishAll(p)
    BY <1>7, RepublishAllEffect, PodFields DEF Phases
  <1>8. CASE Publish(p)
    BY <1>8, PublishEffect, PodFields DEF Phases
  <1>9. CASE Lose(p)
    BY <1>9, LoseEffect, PodFields DEF Phases
  <1>10. CASE Snapshot(p)
    BY <1>10, SnapshotEffect, PodFields DEF Phases
  <1>11. CASE Saved(p)
    BY <1>11, SavedEffect, PodFields DEF Phases
  <1>12. CASE SaveFails(p)
    BY <1>12, SaveFailsEffect, PodFields DEF Phases
  <1>13. CASE Stop(p)
    BY <1>13, StopEffect, PodFields DEF Phases
  <1>14. CASE Shutdown(p)
    BY <1>14, ShutdownEffect, PodFields DEF Phases
  <1>15. CASE Quiet(p)
    BY <1>15, QuietEffect, PodFields DEF Phases
  <1>16. CASE ShutdownTimeout(p)
    BY <1>16, ShutdownTimeoutEffect, PodFields DEF Phases
  <1>17. CASE Drain(p)
    BY <1>17, DrainEffect, PodFields DEF Phases
  <1>18. CASE DrainTimeout(p)
    BY <1>18, DrainTimeoutEffect, PodFields DEF Phases
  <1>19. CASE FlushSnapshot(p)
    BY <1>19, FlushSnapshotEffect, PodFields DEF Phases
  <1>20. CASE FlushSaved(p)
    BY <1>20, FlushSavedEffect, PodFields DEF Phases
  <1>21. CASE FlushFails(p)
    BY <1>21, FlushFailsEffect, PodFields DEF Phases
  <1>22. CASE ClosePool(p)
    BY <1>22, ClosePoolEffect, PodFields DEF Phases
  <1>23. CASE Crash(p)
    BY <1>23, CrashEffect, PodFields DEF Phases
  <1>24. CASE \E g \in Goroutines : Exit(p, g)
    BY <1>24, ExitEffect, PodFields DEF Phases
  <1>25. CASE Disconnect(p)
    BY <1>25, DisconnectEffect, PodFields DEF Phases
  <1>26. CASE StatementEnds(p) \/ SaveAllEnds(p)
    BY <1>26, ReleaseEffect, PodFields DEF Phases
  <1> QED
    BY <1>1, <1>2, <1>3, <1>4, <1>5, <1>6, <1>7, <1>8, <1>9, <1>10, <1>11,
       <1>12, <1>13, <1>14, <1>15, <1>16, <1>17, <1>18, <1>19, <1>20, <1>21,
       <1>22, <1>23, <1>24, <1>25, <1>26 DEF Moves

\* Once the final flush has its snapshot, a clean pod's engine moves no more.
LEMMA FreshStep ==
    ASSUME Typed, NEW p \in Pods, Moves(p), Orderly(pods[p]), Fresh(pods[p])
    PROVE  Fresh(pods[p])'
  <1> USE DEF Becomes, Orderly, Fresh, Leaving, Pooling
  <1>1. CASE Boot(p)
    BY <1>1, BootEffect, PodFields DEF Phases
  <1>2. CASE BootCold(p)
    BY <1>2, BootColdEffect, PodFields DEF Phases
  <1>3. CASE Request(p)
    BY <1>3, RequestEffect, PodFields DEF Phases
  <1>4. CASE Submit(p)
    BY <1>4, SubmitEffect, PodFields DEF Phases
  <1>5. CASE Return(p)
    BY <1>5, ReturnEffect, PodFields DEF Phases
  <1>6. CASE Tick(p)
    BY <1>6, TickEffect, PodFields DEF Phases
  <1>7. CASE RepublishAll(p)
    BY <1>7, RepublishAllEffect, PodFields DEF Phases
  <1>8. CASE Publish(p)
    BY <1>8, PublishEffect, PodFields DEF Phases
  <1>9. CASE Lose(p)
    BY <1>9, LoseEffect, PodFields DEF Phases
  <1>10. CASE Snapshot(p)
    BY <1>10, SnapshotEffect, PodFields DEF Phases
  <1>11. CASE Saved(p)
    BY <1>11, SavedEffect, PodFields DEF Phases
  <1>12. CASE SaveFails(p)
    BY <1>12, SaveFailsEffect, PodFields DEF Phases
  <1>13. CASE Stop(p)
    BY <1>13, StopEffect, PodFields DEF Phases
  <1>14. CASE Shutdown(p)
    BY <1>14, ShutdownEffect, PodFields DEF Phases
  <1>15. CASE Quiet(p)
    BY <1>15, QuietEffect, PodFields DEF Phases
  <1>16. CASE ShutdownTimeout(p)
    BY <1>16, ShutdownTimeoutEffect, PodFields DEF Phases
  <1>17. CASE Drain(p)
    BY <1>17, DrainEffect, PodFields DEF Phases
  <1>18. CASE DrainTimeout(p)
    BY <1>18, DrainTimeoutEffect, PodFields DEF Phases
  <1>19. CASE FlushSnapshot(p)
    BY <1>19, FlushSnapshotEffect, PodFields DEF Phases
  <1>20. CASE FlushSaved(p)
    BY <1>20, FlushSavedEffect, PodFields DEF Phases
  <1>21. CASE FlushFails(p)
    BY <1>21, FlushFailsEffect, PodFields DEF Phases
  <1>22. CASE ClosePool(p)
    BY <1>22, ClosePoolEffect, PodFields DEF Phases
  <1>23. CASE Crash(p)
    BY <1>23, CrashEffect, PodFields DEF Phases
  <1>24. CASE \E g \in Goroutines : Exit(p, g)
    BY <1>24, ExitEffect, PodFields DEF Phases
  <1>25. CASE Disconnect(p)
    BY <1>25, DisconnectEffect, PodFields DEF Phases
  <1>26. CASE StatementEnds(p) \/ SaveAllEnds(p)
    BY <1>26, ReleaseEffect, PodFields DEF Phases
  <1> QED
    BY <1>1, <1>2, <1>3, <1>4, <1>5, <1>6, <1>7, <1>8, <1>9, <1>10, <1>11,
       <1>12, <1>13, <1>14, <1>15, <1>16, <1>17, <1>18, <1>19, <1>20, <1>21,
       <1>22, <1>23, <1>24, <1>25, <1>26 DEF Moves

\* What is written is not from the future.
LEMMA PastStep ==
    ASSUME Typed, Past, NEW p \in Pods, Moves(p), Ahead(pods[p])
    PROVE  Past'
  <1>0. world \in Nat /\ saved \in Nat
    BY DEF Typed
  <1> USE <1>0 DEF Becomes, Past
  <1>1. CASE Boot(p)
    BY <1>1, BootEffect, PodFields, ZenonT(60)
  <1>2. CASE BootCold(p)
    BY <1>2, BootColdEffect, PodFields, ZenonT(60)
  <1>3. CASE Request(p)
    BY <1>3, RequestEffect, PodFields
  <1>4. CASE Submit(p)
    BY <1>4, SubmitEffect, PodFields
  <1>5. CASE Return(p)
    BY <1>5, ReturnEffect, PodFields
  <1>6. CASE Tick(p)
    BY <1>6, TickEffect, PodFields
  <1>7. CASE RepublishAll(p)
    BY <1>7, RepublishAllEffect, PodFields
  <1>8. CASE Publish(p)
    BY <1>8, PublishEffect, PodFields
  <1>9. CASE Lose(p)
    BY <1>9, LoseEffect, PodFields
  <1>10. CASE Snapshot(p)
    BY <1>10, SnapshotEffect, PodFields DEF Ahead
  <1>11. CASE Saved(p)
    BY <1>11, SavedEffect, PodFields
  <1>12. CASE SaveFails(p)
    BY <1>12, SaveFailsEffect, PodFields
  <1>13. CASE Stop(p)
    BY <1>13, StopEffect, PodFields
  <1>14. CASE Shutdown(p)
    BY <1>14, ShutdownEffect, PodFields
  <1>15. CASE Quiet(p)
    BY <1>15, QuietEffect, PodFields
  <1>16. CASE ShutdownTimeout(p)
    <2>1. /\ pods'[p].save = pods[p].save /\ pods'[p].flush = pods[p].flush
          /\ world' = world /\ saved' = saved
          /\ \A q \in Pods \ {p} : pods'[q] = pods[q]
      BY <1>16, ShutdownTimeoutEffect
    <2> QED
      BY <2>1, PodFields
  <1>17. CASE Drain(p)
    BY <1>17, DrainEffect, PodFields
  <1>18. CASE DrainTimeout(p)
    <2>1. /\ pods'[p].save = pods[p].save /\ pods'[p].flush = pods[p].flush
          /\ world' = world /\ saved' = saved
          /\ \A q \in Pods \ {p} : pods'[q] = pods[q]
      BY <1>18, DrainTimeoutEffect
    <2> QED
      BY <2>1, PodFields
  <1>19. CASE FlushSnapshot(p)
    BY <1>19, FlushSnapshotEffect, PodFields DEF Ahead
  <1>20. CASE FlushSaved(p)
    BY <1>20, FlushSavedEffect, PodFields
  <1>21. CASE FlushFails(p)
    <2>1. /\ pods'[p].save = pods[p].save /\ pods'[p].flush = None
          /\ world' = world /\ saved' \in {saved, pods[p].flush} /\ pods[p].flush # None
          /\ \A q \in Pods \ {p} : pods'[q] = pods[q]
      BY <1>21, FlushFailsEffect
    <2> QED
      BY <2>1, PodFields
  <1>22. CASE ClosePool(p)
    BY <1>22, ClosePoolEffect, PodFields
  <1>23. CASE Crash(p)
    BY <1>23, CrashEffect, PodFields, ZenonT(60)
  <1>24. CASE \E g \in Goroutines : Exit(p, g)
    BY <1>24, ExitEffect, PodFields
  <1>25. CASE Disconnect(p)
    <2>1. /\ pods'[p].save = pods[p].save /\ pods'[p].flush = pods[p].flush
          /\ world' = world /\ saved' = saved
          /\ \A q \in Pods \ {p} : pods'[q] = pods[q]
      BY <1>25, DisconnectEffect
    <2> QED
      BY <2>1, PodFields
  <1>26. CASE StatementEnds(p) \/ SaveAllEnds(p)
    BY <1>26, ReleaseEffect, PodFields
  <1> QED
    BY <1>1, <1>2, <1>3, <1>4, <1>5, <1>6, <1>7, <1>8, <1>9, <1>10, <1>11,
       <1>12, <1>13, <1>14, <1>15, <1>16, <1>17, <1>18, <1>19, <1>20, <1>21,
       <1>22, <1>23, <1>24, <1>25, <1>26 DEF Moves

\* A live pod that goes on with what it has stays ahead of Home Assistant.
LEMMA AheadKept ==
    ASSUME Typed, NEW p \in Pods, Ahead(pods[p]), Alive(p),
           pods'[p].out = pods[p].out, pods'[p].zone = pods[p].zone,
           pods'[p].flush = pods[p].flush,
           pods'[p].phase \in Leaving => pods[p].phase \in Leaving,
           saved' = saved, ha' = ha, world' = world, disturbed => disturbed'
    PROVE  Ahead(pods[p])'
  <1>1. Floor' <= Floor /\ Floor' \in Nat /\ Floor \in Nat
    BY FloorStep, FloorType
  <1>2. /\ pods[p].out \in Seq(Nat) /\ pods[p].zone \in Nat /\ saved \in Nat
        /\ pods[p].flush \in Nat \cup {None}
    BY PodFields DEF Typed
  <1>3. Ascending(Floor', pods[p].out, pods[p].zone) /\ pods[p].zone <= world
    BY <1>1, <1>2, AscendingLower DEF Ahead, Alive
  <1> QED
    BY <1>1, <1>2, <1>3 DEF Ahead

\* A pod whose engine moves, or repeats itself, is ahead with what it emits.
LEMMA AheadEmits ==
    ASSUME Typed, NEW p \in Pods, Ahead(pods[p]), Alive(p), NEW v \in Nat,
           pods[p].zone <= v, v <= world', pods'[p].zone = v,
           pods'[p].out = emit(pods[p].out, v), pods'[p].flush = pods[p].flush,
           pods'[p].phase = pods[p].phase,
           saved' = saved, ha' = ha, disturbed' = disturbed
    PROVE  Ahead(pods[p])'
  <1>1. Floor' = Floor /\ Floor \in Nat
    BY FloorType DEF Floor
  <1>2. pods[p].out \in Seq(Nat) /\ pods[p].zone \in Nat
    BY PodFields
  <1>3. Ascending(Floor, pods[p].out, pods[p].zone)
    BY DEF Ahead, Alive
  <1>4. Ascending(Floor, emit(pods[p].out, v), v)
    BY <1>1, <1>2, <1>3, AscendingEmit
  <1> QED
    BY <1>1, <1>4 DEF Ahead

\* A pod on its way stays ahead of Home Assistant, and so do its final flush
\* and what that leaves.
LEMMA AheadStep ==
    ASSUME Surge = FALSE, Typed, Past, BootsWarm, NEW p \in Pods, Moves(p),
           Orderly(pods[p]), Ahead(pods[p])
    PROVE  Ahead(pods[p])'
  <1> USE DEF Leaving, Pooling
  <1>a. Begins(p) \/ Lives(p)
    BY Mover
  <1>b. /\ pods[p].out \in Seq(Nat) /\ pods[p].zone \in Nat
        /\ pods[p].flush \in Nat \cup {None} /\ pods[p].save \in Nat \cup {None}
        /\ world \in Nat /\ saved \in Nat /\ ha \in Nat /\ Floor \in Nat
    BY PodFields, FloorType DEF Typed
  <1>c. disturbed => disturbed'
    BY StepLimits
  <1>1. CASE Boot(p)
    <2>1. /\ pods'[p].phase = "up" /\ pods'[p].zone = saved /\ pods'[p].out = <<>>
          /\ pods'[p].flush = None /\ world' = world
      BY <1>1, BootEffect DEF Becomes
    <2>2. Floor <= saved
      BY <1>1, BootEffect DEF BootsWarm
    <2>3. Floor' <= saved
      <3>1. ha' = ha /\ disturbed' = disturbed
        BY <1>1, BootEffect
      <3>2. Floor' = Floor
        BY <3>1 DEF Floor
      <3> QED
        BY <2>2, <3>2
    <2>4. Ascending(Floor', <<>>, saved) /\ saved <= world
      BY <1>b, <2>3 DEF Ascending, Past
    <2> QED
      BY <2>1, <2>4 DEF Ahead
  <1>2. CASE BootCold(p)
    <2>1. /\ pods'[p].phase = "up" /\ pods'[p].zone = 0 /\ pods'[p].out = <<>>
          /\ pods'[p].flush = None /\ world' = world
      BY <1>2, BootColdEffect DEF Becomes
    <2>2. Floor <= saved
      BY <1>2, BootColdEffect DEF BootsWarm
    <2>3. Floor' <= 0
      <3>1. CASE saved = 0
        <4>1. Floor' <= Floor
          BY <1>c, <1>2, BootColdEffect, FloorStep
        <4> QED
          BY <1>b, <2>2, <3>1, <4>1, <1>2, BootColdEffect DEF Floor
      <3>2. CASE saved # 0
        <4>1. disturbed'
          BY <3>2, <1>2, BootColdEffect
        <4>2. Floor' = 0
          BY <4>1 DEF Floor
        <4> QED
          BY <4>2
      <3> QED
        BY <3>1, <3>2
    <2>4. Ascending(Floor', <<>>, 0) /\ 0 <= world
      BY <1>b, <2>3 DEF Ascending, Past
    <2> QED
      BY <2>1, <2>4 DEF Ahead
  <1>3. CASE Request(p)
    <2>1. Alive(p)
      BY <1>a, <1>3, RequestEffect DEF Begins, Lives, Becomes
    <2> QED
      BY <2>1, <1>c, <1>3, RequestEffect, AheadKept DEF Becomes
  <1>4. CASE Submit(p)
    <2>1. Alive(p) /\ pods[p].zone <= world
      BY <1>a, <1>4, SubmitEffect DEF Begins, Lives, Becomes, Ahead, Alive
    <2>2. /\ pods'[p].zone = (world + 1) /\ pods'[p].out = emit(pods[p].out, (world + 1))
          /\ pods'[p].flush = pods[p].flush /\ pods'[p].phase = pods[p].phase
          /\ UNCHANGED <<saved, ha, disturbed>>
      BY <1>4, SubmitEffect DEF Becomes
    <2>3. (world + 1) \in Nat /\ pods[p].zone <= (world + 1) /\ (world + 1) <= world'
      BY <1>b, <2>1, <1>4, SubmitEffect
    <2> QED
      BY <2>1, <2>2, <2>3, AheadEmits
  <1>5. CASE Return(p)
    <2>1. Alive(p)
      BY <1>a, <1>5, ReturnEffect DEF Begins, Lives, Becomes
    <2> QED
      BY <2>1, <1>c, <1>5, ReturnEffect, AheadKept DEF Becomes
  <1>6. CASE Tick(p)
    <2>1. Alive(p) /\ pods[p].zone <= world
      BY <1>a, <1>6, TickEffect DEF Begins, Lives, Becomes, Ahead, Alive
    <2>2. /\ pods'[p].zone = (world + 1) /\ pods'[p].out = emit(pods[p].out, (world + 1))
          /\ pods'[p].flush = pods[p].flush /\ pods'[p].phase = pods[p].phase
          /\ UNCHANGED <<saved, ha, disturbed>>
      BY <1>6, TickEffect DEF Becomes
    <2>3. (world + 1) \in Nat /\ pods[p].zone <= (world + 1) /\ (world + 1) <= world'
      BY <1>b, <2>1, <1>6, TickEffect
    <2> QED
      BY <2>1, <2>2, <2>3, AheadEmits
  <1>7. CASE RepublishAll(p)
    <2>1. Alive(p) /\ pods[p].zone <= world
      BY <1>a, <1>7, RepublishAllEffect DEF Begins, Lives, Becomes, Ahead, Alive
    <2>2. /\ pods'[p].zone = pods[p].zone /\ pods'[p].out = emit(pods[p].out, pods[p].zone)
          /\ pods'[p].flush = pods[p].flush /\ pods'[p].phase = pods[p].phase
          /\ UNCHANGED <<saved, ha, disturbed>>
      BY <1>7, RepublishAllEffect DEF Becomes
    <2>3. pods[p].zone \in Nat /\ pods[p].zone <= pods[p].zone /\ pods[p].zone <= world'
      BY <1>b, <2>1, <1>7, RepublishAllEffect
    <2> QED
      BY <2>1, <2>2, <2>3, AheadEmits
  <1>8. CASE Publish(p)
    <2>1. Alive(p)
      BY <1>a, <1>8, PublishEffect DEF Begins, Lives, Becomes, Orderly
    <2>2. pods[p].phase \in {"flushing"} \cup Leaving => disturbed
      BY <1>8, PublishEffect DEF Orderly
    <2>3. Ascending(Floor, pods[p].out, pods[p].zone) /\ pods[p].zone <= world
      BY <2>1 DEF Ahead, Alive
    <2>4. /\ Head(pods[p].out) \in Nat
          /\ Ascending(Head(pods[p].out), Tail(pods[p].out), pods[p].zone)
          /\ Ascending(Floor, Tail(pods[p].out), pods[p].zone)
      BY <1>b, <2>3, <1>8, PublishEffect, AscendingTail
    <2>5. Floor' = IF disturbed THEN 0 ELSE Head(pods[p].out)
      BY <1>8, PublishEffect DEF Floor
    <2>6. Ascending(Floor', Tail(pods[p].out), pods[p].zone)
      BY <2>4, <2>5 DEF Floor
    <2>7. pods[p].flush # None => Floor' <= pods[p].flush
      BY <1>b, <2>2, <2>5 DEF Orderly
    <2>8. pods[p].phase \in Leaving => Floor' <= saved
      BY <1>b, <2>2, <2>5
    <2> QED
      BY <2>3, <2>6, <2>7, <2>8, <1>8, PublishEffect DEF Ahead, Becomes
  <1>9. CASE Lose(p)
    <2>1. Alive(p)
      BY <1>a, <1>9, LoseEffect DEF Begins, Lives, Becomes, Orderly
    <2>2. pods[p].phase \in {"flushing"} \cup Leaving => disturbed
      BY <1>9, LoseEffect DEF Orderly
    <2>3. Ascending(Floor, pods[p].out, pods[p].zone) /\ pods[p].zone <= world
      BY <2>1 DEF Ahead, Alive
    <2>4. \A i \in 1..Len(pods[p].out) :
             Ascending(Floor, RemoveAt(pods[p].out, i), pods[p].zone)
      BY <1>b, <2>3, AscendingRemoved
    <2>5. Floor' = Floor
      BY <1>9, LoseEffect DEF Floor
    <2> QED
      BY <2>3, <2>4, <2>5, <1>9, LoseEffect DEF Ahead, Becomes
  <1>10. CASE Snapshot(p)
    <2>1. Alive(p)
      BY <1>a, <1>10, SnapshotEffect DEF Begins, Lives, Becomes
    <2> QED
      BY <2>1, <1>c, <1>10, SnapshotEffect, AheadKept DEF Becomes
  <1>11. CASE Saved(p)
    <2>1. Alive(p) /\ pods[p].phase # "none"
      BY <1>a, <1>11, SavedEffect DEF Begins, Lives, Becomes, Orderly, Alive
    <2>2. pods[p].phase \in Leaving => disturbed
      BY <1>11, SavedEffect DEF Orderly
    <2>3. Floor' = Floor /\ (disturbed => Floor = 0)
      BY <1>11, SavedEffect DEF Floor
    <2>4. pods[p].phase \in Leaving => Floor' <= saved'
      <3>1. saved' \in Nat
        BY <1>b, <1>11, SavedEffect
      <3>2. pods[p].phase \in Leaving => Floor' = 0
        BY <2>2, <2>3
      <3> QED
        BY <3>1, <3>2
    <2> QED
      BY <2>1, <2>3, <2>4, <1>11, SavedEffect DEF Ahead, Becomes
  <1>12. CASE SaveFails(p)
    <2>1. Alive(p)
      BY <1>a, <1>12, SaveFailsEffect DEF Begins, Lives, Becomes
    <2> QED
      BY <2>1, <1>c, <1>12, SaveFailsEffect, AheadKept DEF Becomes
  <1>13. CASE Stop(p)
    <2>1. Alive(p)
      BY <1>a, <1>13, StopEffect DEF Begins, Lives, Becomes
    <2> QED
      BY <2>1, <1>c, <1>13, StopEffect, AheadKept DEF Becomes
  <1>14. CASE Shutdown(p)
    <2>1. Alive(p)
      BY <1>a, <1>14, ShutdownEffect DEF Begins, Lives, Becomes
    <2> QED
      BY <2>1, <1>c, <1>14, ShutdownEffect, AheadKept DEF Becomes
  <1>15. CASE Quiet(p)
    <2>1. Alive(p)
      BY <1>a, <1>15, QuietEffect DEF Begins, Lives, Becomes
    <2> QED
      BY <2>1, <1>c, <1>15, QuietEffect, AheadKept DEF Becomes
  <1>16. CASE ShutdownTimeout(p)
    <2>1. Alive(p)
      BY <1>a, <1>16, ShutdownTimeoutEffect DEF Begins, Lives, Becomes
    <2> QED
      BY <2>1, <1>c, <1>16, ShutdownTimeoutEffect, AheadKept DEF Becomes
  <1>17. CASE Drain(p)
    <2>1. Alive(p)
      BY <1>a, <1>17, DrainEffect DEF Begins, Lives, Becomes
    <2> QED
      BY <2>1, <1>c, <1>17, DrainEffect, AheadKept DEF Becomes
  <1>18. CASE DrainTimeout(p)
    <2>1. Alive(p)
      BY <1>a, <1>18, DrainTimeoutEffect DEF Begins, Lives, Becomes
    <2> QED
      BY <2>1, <1>c, <1>18, DrainTimeoutEffect, AheadKept DEF Becomes
  <1>19. CASE FlushSnapshot(p)
    <2>1. Alive(p) /\ pods[p].phase = "flushing"
      BY <1>19, FlushSnapshotEffect DEF Alive
    <2>2. Floor' = Floor
      BY <1>19, FlushSnapshotEffect DEF Floor
    <2>3. Floor <= pods[p].zone
      BY <2>1 DEF Ahead, Ascending
    <2> QED
      BY <2>1, <2>2, <2>3, <1>19, FlushSnapshotEffect DEF Ahead, Becomes
  <1>20. CASE FlushSaved(p)
    <2>1. pods[p].phase = "flushing" /\ Floor <= pods[p].flush
      BY <1>20, FlushSavedEffect DEF Orderly, Ahead
    <2>2. Floor' = Floor
      BY <1>20, FlushSavedEffect DEF Floor
    <2> QED
      BY <2>1, <2>2, <1>20, FlushSavedEffect DEF Ahead, Becomes
  <1>21. CASE FlushFails(p)
    <2>1. pods[p].phase = "flushing"
      BY <1>21, FlushFailsEffect DEF Orderly
    <2>2. Floor' = 0
      BY <1>21, FlushFailsEffect DEF Floor
    <2>3. Ascending(Floor, pods[p].out, pods[p].zone) /\ pods[p].zone <= world
      BY <2>1 DEF Ahead
    <2>4. Ascending(0, pods[p].out, pods[p].zone)
      BY <1>b, <2>3, AscendingLower
    <2>5. saved' \in Nat
      BY <1>b, <1>21, FlushFailsEffect
    <2>6. /\ pods'[p].out = pods[p].out /\ pods'[p].zone = pods[p].zone
          /\ pods'[p].flush = None /\ world' = world
      BY <1>21, FlushFailsEffect DEF Becomes
    <2> QED
      BY <2>2, <2>3, <2>4, <2>5, <2>6 DEF Ahead
  <1>22. CASE ClosePool(p)
    BY <1>22, ClosePoolEffect DEF Becomes, Ahead
  <1>23. CASE Crash(p)
    BY <1>23, CrashEffect DEF Becomes, Ahead
  <1>24. CASE \E g \in Goroutines : Exit(p, g)
    <2>1. PICK g \in Goroutines : Exit(p, g)
      BY <1>24
    <2>2. Alive(p)
      BY <1>a, <2>1, ExitEffect DEF Begins, Lives, Becomes, Orderly
    <2> QED
      BY <2>1, <2>2, <1>c, ExitEffect, AheadKept DEF Becomes
  <1>25. CASE Disconnect(p)
    <2>1. Alive(p) /\ pods[p].phase = "closing"
      BY <1>25, DisconnectEffect DEF Alive
    <2> QED
      BY <2>1, <1>c, <1>25, DisconnectEffect, AheadKept DEF Becomes
  <1>26. CASE StatementEnds(p) \/ SaveAllEnds(p)
    <2>1. Alive(p) /\ pods[p].phase \in Leaving
      BY <1>26, ReleaseEffect DEF Alive
    <2> QED
      BY <2>1, <1>c, <1>26, ReleaseEffect, AheadKept DEF Becomes
  <1> QED
    BY <1>1, <1>2, <1>3, <1>4, <1>5, <1>6, <1>7, <1>8, <1>9, <1>10, <1>11,
       <1>12, <1>13, <1>14, <1>15, <1>16, <1>17, <1>18, <1>19, <1>20, <1>21,
       <1>22, <1>23, <1>24, <1>25, <1>26 DEF Moves

-----------------------------------------------------------------------------
(* The theorems.                                                           *)

\* The table keeps the state of the last pod that ended cleanly.
LEMMA FlushFreshStep ==
    ASSUME Surge = FALSE, IInv, NEW p \in Pods, Moves(p)
    PROVE  FlushFresh'
  <1>1. Typed /\ \A q \in Pods \ {p} : pods'[q] = pods[q]
    BY TypedStep DEF IInv
  <1>2. Begins(p) \/ Lives(p)
    BY Mover DEF IInv
  <1>3. SUFFICES ASSUME NEW r \in Pods, pods'[r].phase = "closed", pods'[r].clean,
                        \A q \in (r + 1)..MaxPods : pods'[q].phase = "none"
                 PROVE  saved' = pods'[r].zone
    BY DEF FlushFresh
  <1>4. CASE r = p
    <2>1. ClosePool(p)
      BY <1>2, <1>3, <1>4 DEF Begins, Lives
    <2>2. /\ pods[p].phase \in Leaving /\ saved' = saved
          /\ pods'[p].clean = pods[p].clean
          /\ pods'[p].zone = IF pods[p].clean THEN pods[p].zone ELSE 0
      BY <1>1, <2>1, ClosePoolEffect DEF Becomes, Leaving, Pooling
    <2>3. pods[p].clean => saved = pods[p].zone
      BY <2>2 DEF IInv, Fresh
    <2> QED
      BY <1>3, <1>4, <2>2, <2>3
  <1>5. CASE r # p
    <2>1. pods[r].phase = "closed" /\ pods[r].clean /\ pods'[r].zone = pods[r].zone
      BY <1>1, <1>3, <1>5
    <2>2. ~(r < p)
      <3>1. SUFFICES ASSUME r < p PROVE FALSE
        OBVIOUS
      <3>2. p \in (r + 1)..MaxPods
        BY <3>1 DEF Pods
      <3>3. pods'[p].phase # "none"
        BY <1>2 DEF Begins, Lives
      <3> QED
        BY <1>3, <3>2, <3>3
    <2>3. p < r
      BY <1>5, <2>2 DEF Pods
    <2>4. pods[p].phase # "none" /\ ~Alive(p)
      BY <2>1, <2>3 DEF IInv, Succession
    <2> QED
      BY <1>2, <2>4 DEF Begins, Lives
  <1> QED
    BY <1>4, <1>5

\* When the last live pod is gone, the rows it left are not behind Home
\* Assistant.
LEMMA BootsWarmStep ==
    ASSUME Surge = FALSE, IInv, NEW p \in Pods, Moves(p)
    PROVE  BootsWarm'
  <1>1. Typed /\ Typed'
    BY TypedStep DEF IInv
  <1>2. SUFFICES ASSUME \A q \in Pods : ~Alive(q)'
                 PROVE  Floor' <= saved'
    BY DEF BootsWarm
  <1>3. Begins(p) \/ Lives(p)
    BY Mover DEF IInv
  <1>4. Alive(p) /\ pods'[p].phase \in {"closed", "crashed"}
    BY <1>2, <1>3 DEF Begins, Lives, Alive
  <1>5. CASE pods'[p].phase = "closed"
    <2>1. pods[p].phase \in Leaving /\ saved' = saved /\ Floor' = Floor
      BY <1>1, <1>3, <1>5, ClosePoolEffect DEF Begins, Lives, Floor, Leaving, Pooling
    <2> QED
      BY <2>1 DEF IInv, Ahead
  <1>6. CASE pods'[p].phase = "crashed"
    <2>1. disturbed'
      BY <1>1, <1>4, <1>6, StepLimits
    <2>2. Floor' = 0
      BY <2>1 DEF Floor
    <2> QED
      BY <1>1, <2>2 DEF Typed
  <1> QED
    BY <1>4, <1>5, <1>6

\* The invariant holds at first.
LEMMA IInvInit == Init => IInv
  <1>1. SUFFICES ASSUME Init PROVE IInv
    OBVIOUS
  <1>2. Typed
    BY <1>1, NoPodType DEF Init, Typed
  <1>3. \A p \in Pods : /\ pods[p].phase = "none" /\ pods[p].running = {}
                       /\ pods[p].save = None /\ pods[p].flush = None
                       /\ pods[p].inflight = 0
    BY <1>1 DEF Init, NoPod
  <1>4. saved = 0 /\ world = 0 /\ Floor = 0
    BY <1>1 DEF Init, Floor
  <1>5. Succession /\ FlushFresh
    BY <1>3 DEF Succession, FlushFresh
  <1>6. \A p \in Pods : Orderly(pods[p]) /\ Fresh(pods[p]) /\ Ahead(pods[p])
    BY <1>3 DEF Orderly, Fresh, Ahead, Leaving, Pooling
  <1>7. Past /\ BootsWarm
    BY <1>3, <1>4 DEF Past, BootsWarm
  <1> QED
    BY <1>2, <1>5, <1>6, <1>7 DEF IInv

\* Every step keeps it, one pod at a time.
LEMMA IInvStep ==
    ASSUME Surge = FALSE, IInv, [Next]_vars
    PROVE  IInv'
  <1>1. CASE UNCHANGED vars
    BY <1>1 DEF vars, IInv, Typed, Succession, Alive, Orderly, Fresh, FlushFresh,
                Ahead, Floor, Past, BootsWarm
  <1>2. CASE Next
    <2>1. PICK p \in Pods : Moves(p)
      BY <1>2, NextMoves
    <2>2. Typed'
      BY <2>1, TypedStep DEF IInv
    <2>3. \A q \in Pods : Orderly(pods[q])' /\ Fresh(pods[q])' /\ Ahead(pods[q])'
      BY <2>1, OthersKept, OrderlyStep, FreshStep, AheadStep DEF IInv
    <2>4. Succession' /\ FlushFresh' /\ Past' /\ BootsWarm'
      BY <2>1, SuccessionStep, FlushFreshStep, PastStep, BootsWarmStep DEF IInv
    <2> QED
      BY <2>2, <2>3, <2>4 DEF IInv
  <1> QED
    BY <1>1, <1>2

\* Every variable keeps its type, in a rollout too.
THEOREM TypeCorrect == Spec => []Typed
  <1>1. Init => Typed
    BY IInvInit DEF IInv
  <1>2. Typed /\ [Next]_vars => Typed'
    <2>1. SUFFICES ASSUME Typed, [Next]_vars PROVE Typed'
      OBVIOUS
    <2>2. CASE UNCHANGED vars
      BY <2>1, <2>2 DEF vars, Typed
    <2>3. CASE Next
      BY <2>1, <2>3, NextMoves, TypedStep
    <2> QED
      BY <2>1, <2>2, <2>3
  <1> QED
    BY <1>1, <1>2, PTL DEF Spec

\* One pod at a time, the invariant always holds.
LEMMA Invariant ==
    ASSUME Surge = FALSE
    PROVE  Spec => []IInv
  <1>1. IInv /\ [Next]_vars => IInv'
    BY IInvStep
  <1> QED
    BY <1>1, IInvInit, PTL DEF Spec

\* One pod at a time, the final flush keeps the freshest zones: after a clean
\* shutdown presence_state is the last state of the engine, until the next pod
\* starts (run and persistPresence of main.go; ADR-0006).
THEOREM FinalFlushIsFresh ==
    ASSUME Surge = FALSE
    PROVE  Spec => []FlushFresh
  <1>1. IInv => FlushFresh
    BY DEF IInv
  <1> QED
    BY <1>1, Invariant, PTL

\* One pod at a time and nothing disturbed, Home Assistant is never shown an
\* older state than it had, however often the process restarts (ADR-0006).
THEOREM RestartsWarm ==
    ASSUME Surge = FALSE
    PROVE  Spec => WarmRestart
  <1>1. IInv /\ [Next]_vars => [ha' >= ha \/ disturbed]_vars
    <2>1. SUFFICES ASSUME IInv, Next PROVE ha' >= ha \/ disturbed
      BY DEF vars
    <2>2. PICK p \in Pods : Moves(p)
      BY <2>1, NextMoves
    <2>3. Typed /\ Orderly(pods[p]) /\ Ahead(pods[p]) /\ ha \in Nat
      BY <2>1 DEF IInv, Typed
    <2>4. CASE ha' = ha
      BY <2>3, <2>4
    <2>5. CASE Publish(p)
      <3>1. Alive(p) /\ pods[p].out # <<>> /\ ha' = Head(pods[p].out)
        BY <2>3, <2>5, PublishEffect DEF Orderly, Alive
      <3>2. Ascending(Floor, pods[p].out, pods[p].zone)
        BY <2>3, <3>1 DEF Ahead, Alive
      <3>3. Floor <= ha' /\ ha' \in Nat
        BY <2>3, <3>1, <3>2, AscendingTail, PodFields, FloorType
      <3> QED
        BY <2>3, <3>3 DEF Floor
    <2> QED
      BY <2>2, <2>3, <2>4, <2>5, StepLimits
  <1> QED
    BY <1>1, Invariant, PTL DEF Spec, WarmRestart

=============================================================================
