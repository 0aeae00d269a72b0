--------------------------- MODULE PublisherProofs ---------------------------
(***************************************************************************)
(* Proofs about the publisher for every set of beacons and sensors and     *)
(* every capacity of the channels: types and capacities, that what Run     *)
(* believes it has declared is retained, that orphans stay visible, that   *)
(* every entity a demotion leaves behind has its reason, and that a        *)
(* retained state is never replaced by an older one.                       *)
(***************************************************************************)
EXTENDS Publisher, TLAPS, SequenceTheorems

-----------------------------------------------------------------------------
(* Shapes.                                                                 *)

EventItems == {x \in Items : x.kind = "event"}
RemoveItems == {x \in Items : x.kind = "remove"}

\* A caller of enqueue is idle or holds an item of its own kind.
Holding(S) == [pc : {"evict", "retry"}, item : S]

CallersOK ==
    /\ DOMAIN caller = Callers
    /\ caller["pump"] = Idle \/ caller["pump"] \in Holding(EventItems)
    /\ \A q \in Requests : caller[q] = Idle \/ caller[q] \in Holding(RemoveItems)

BrokerOK ==
    /\ DOMAIN broker = Beacons
    /\ \A b \in Beacons :
          /\ DOMAIN broker[b] = Topics
          /\ broker[b]["config"] \in (SUBSET Sensors) \cup {None}
          /\ broker[b]["state"] \in Nat \cup {None}

\* What Run has left of the item it took: a config for the sensors s and its
\* mark, the mark alone, the state alone, or both topics of a removal.
ConfigWork(b, s, v) == <<Put(b, "config", s), Mark(b, s), Put(b, "state", v)>>
MarkWork(b, s, v) == <<Mark(b, s), Put(b, "state", v)>>
StateWork(b, v) == <<Put(b, "state", v)>>
RemoveWork(b) == <<Put(b, "config", None), Put(b, "state", None)>>

WorkOK ==
    \/ work = <<>>
    \/ \E b \in Beacons, s \in SUBSET Sensors, v \in Nat : work = ConfigWork(b, s, v)
    \/ \E b \in Beacons, s \in SUBSET Sensors, v \in Nat : work = MarkWork(b, s, v)
    \/ \E b \in Beacons, v \in Nat \cup {None} : work = StateWork(b, v)
    \/ \E b \in Beacons : work = RemoveWork(b)

EngineOK ==
    /\ tracked \subseteq Beacons /\ emitting \subseteq tracked
    /\ ver \in [Beacons -> Nat] /\ tlm \in [Beacons -> SUBSET Sensors]

ChannelsOK ==
    /\ events \in Seq(EventItems) /\ Len(events) <= EventsCap
    /\ queue \in Seq(Items) /\ Len(queue) <= QueueCap

SeenOK ==
    /\ seen \subseteq Beacons /\ raced \subseteq seen
    /\ declared \in [Beacons -> SUBSET Sensors]
    /\ cleared \in BOOLEAN /\ forgot \subseteq Beacons

Shape ==
    /\ EngineOK /\ ChannelsOK /\ CallersOK /\ SeenOK /\ BrokerOK /\ WorkOK
    /\ todo \in [Requests -> SUBSET Beacons]
    /\ link \in {"up", "down", "fresh"} /\ reassert \in BOOLEAN

-----------------------------------------------------------------------------
(* What Run has declared.                                                  *)

Asserts(b, s) == broker[b]["config"] # None /\ s \subseteq broker[b]["config"]

\* At its mark a config has reached the broker, unless seen was cleared in
\* between; the config on its way has every declared sensor; and a removal has
\* forgotten its entity.
MarkAsserted ==
    \A b \in Beacons, s \in SUBSET Sensors, v \in Nat :
        work = MarkWork(b, s, v) /\ link = "up" /\ ~cleared => Asserts(b, s)
ConfigGrows ==
    \A b \in Beacons, s \in SUBSET Sensors, v \in Nat :
        work = ConfigWork(b, s, v) => declared[b] \subseteq s
RemovalForgotten ==
    \A b \in Beacons : work = RemoveWork(b) => b \notin seen

RunInv == SeenIsAsserted /\ MarkAsserted /\ ConfigGrows /\ RemovalForgotten

-----------------------------------------------------------------------------
(* Orphans.                                                                *)

\* An entity that Run is about to leave alone is seen, gone or forgotten.
LeftSeen ==
    \A b \in Beacons \ forgot, v \in Nat \cup {None} :
        work = StateWork(b, v) /\ broker[b]["config"] # None => b \in seen

OrphanInv == OrphansVisible /\ LeftSeen

-----------------------------------------------------------------------------
(* The order of states, from the broker back to the engine.                *)

\* n is not newer than what is upstream of the pump, the queue, Run, the broker.
BelowEvents(n, b) ==
    /\ n <= ver[b]
    /\ \A k \in 1..Len(events) : events[k].beacon = b => n <= events[k].ver
BelowPump(n, b) ==
    /\ BelowEvents(n, b)
    /\ caller["pump"] # Idle /\ caller["pump"].item.beacon = b => n <= caller["pump"].item.ver
BelowQueue(n, b) ==
    /\ BelowPump(n, b)
    /\ \A k \in 1..Len(queue) :
          queue[k].kind = "event" /\ queue[k].beacon = b => n <= queue[k].ver
\* The state that the list w is about to publish.
Due(w, b, v) ==
    \/ w = StateWork(b, v)
    \/ \E s \in SUBSET Sensors : w = MarkWork(b, s, v) \/ w = ConfigWork(b, s, v)
BelowWork(n, b) ==
    /\ BelowQueue(n, b)
    /\ \A v \in Nat : Due(work, b, v) /\ v # None => n <= v

Sorted(q) ==
    \A j, k \in 1..Len(q) :
        j <= k /\ q[j].kind = "event" /\ q[k].kind = "event" /\ q[j].beacon = q[k].beacon
            => q[j].ver <= q[k].ver

\* What each place holds is not newer than anything further up.
EventsOrdered ==
    /\ Sorted(events)
    /\ \A k \in 1..Len(events) : events[k].ver <= ver[events[k].beacon]
PumpOrdered ==
    caller["pump"] # Idle => BelowEvents(caller["pump"].item.ver, caller["pump"].item.beacon)
QueueOrdered ==
    /\ Sorted(queue)
    /\ \A k \in 1..Len(queue) : queue[k].kind = "event" => BelowPump(queue[k].ver, queue[k].beacon)
WorkOrdered ==
    \A b \in Beacons, v \in Nat : Due(work, b, v) /\ v # None => BelowQueue(v, b)
BrokerOrdered ==
    \A b \in Beacons : broker[b]["state"] # None => BelowWork(broker[b]["state"], b)

OrderInv == EventsOrdered /\ PumpOrdered /\ QueueOrdered /\ WorkOrdered /\ BrokerOrdered

-----------------------------------------------------------------------------
(* Run's steps.                                                            *)

\* The first step of a list and what is left of it.
LEMMA WorkHead ==
    ASSUME NEW b, NEW s, NEW v
    PROVE  /\ /\ ConfigWork(b, s, v) # <<>>
              /\ Head(ConfigWork(b, s, v)) = Put(b, "config", s)
              /\ Tail(ConfigWork(b, s, v)) = MarkWork(b, s, v)
           /\ /\ MarkWork(b, s, v) # <<>>
              /\ Head(MarkWork(b, s, v)) = Mark(b, s)
              /\ Tail(MarkWork(b, s, v)) = StateWork(b, v)
           /\ /\ StateWork(b, v) # <<>>
              /\ Head(StateWork(b, v)) = Put(b, "state", v)
              /\ Tail(StateWork(b, v)) = <<>>
           /\ /\ RemoveWork(b) # <<>>
              /\ Head(RemoveWork(b)) = Put(b, "config", None)
              /\ Tail(RemoveWork(b)) = StateWork(b, None)
BY DEF ConfigWork, MarkWork, StateWork, RemoveWork

\* A list tells its kind and its item.
LEMMA WorkUnique ==
    ASSUME NEW b, NEW s, NEW v, NEW c, NEW u, NEW w
    PROVE  /\ ConfigWork(b, s, v) = ConfigWork(c, u, w) => b = c /\ s = u /\ v = w
           /\ MarkWork(b, s, v) = MarkWork(c, u, w) => b = c /\ s = u /\ v = w
           /\ StateWork(b, v) = StateWork(c, w) => b = c /\ v = w
           /\ RemoveWork(b) = RemoveWork(c) => b = c
           /\ ConfigWork(b, s, v) # MarkWork(c, u, w)
           /\ ConfigWork(b, s, v) # StateWork(c, w)
           /\ ConfigWork(b, s, v) # RemoveWork(c)
           /\ MarkWork(b, s, v) # StateWork(c, w)
           /\ MarkWork(b, s, v) # RemoveWork(c)
           /\ StateWork(b, v) # RemoveWork(c)
<1>1. /\ Len(ConfigWork(b, s, v)) = 3 /\ Len(MarkWork(c, u, w)) = 2
      /\ Len(MarkWork(b, s, v)) = 2
      /\ Len(StateWork(c, w)) = 1 /\ Len(RemoveWork(c)) = 2
      /\ Len(StateWork(b, v)) = 1
  BY DEF ConfigWork, MarkWork, StateWork, RemoveWork
<1>2. MarkWork(b, s, v)[1].op = "mark" /\ RemoveWork(c)[1].op = "publish"
  BY DEF MarkWork, RemoveWork, Put, Mark
<1>3. ConfigWork(b, s, v) = ConfigWork(c, u, w) => b = c /\ s = u /\ v = w
  <2>1. \A x, y, z : /\ ConfigWork(x, y, z)[1].beacon = x
                     /\ ConfigWork(x, y, z)[1].val = y
                     /\ ConfigWork(x, y, z)[3].val = z
    BY DEF ConfigWork, Put, Mark
  <2> QED
    BY <2>1
<1>4. MarkWork(b, s, v) = MarkWork(c, u, w) => b = c /\ s = u /\ v = w
  <2>1. \A x, y, z : /\ MarkWork(x, y, z)[1].beacon = x
                     /\ MarkWork(x, y, z)[1].val = y
                     /\ MarkWork(x, y, z)[2].val = z
    BY DEF MarkWork, Put, Mark
  <2> QED
    BY <2>1
<1>5. StateWork(b, v) = StateWork(c, w) => b = c /\ v = w
  <2>1. \A x, z : StateWork(x, z)[1].beacon = x /\ StateWork(x, z)[1].val = z
    BY DEF StateWork, Put
  <2> QED
    BY <2>1
<1>6. RemoveWork(b) = RemoveWork(c) => b = c
  <2>1. \A x : RemoveWork(x)[1].beacon = x
    BY DEF RemoveWork, Put
  <2> QED
    BY <2>1
<1> QED
  BY <1>1, <1>2, <1>3, <1>4, <1>5, <1>6

\* The broker's topics after a publish of x.
Stores(b, t, x) ==
    /\ DOMAIN broker' = DOMAIN broker
    /\ \A c \in Beacons :
          /\ DOMAIN broker'[c] = DOMAIN broker[c]
          /\ \A u \in Topics :
                broker'[c][u] = IF link # "down" /\ c = b /\ u = t THEN x ELSE broker[c][u]

\* What the publish of the config x does to forgot.
Forgets(b, x) ==
    forgot' = IF link # "down" THEN forgot \ {b}
              ELSE IF x = None THEN forgot \cup {b} ELSE forgot

LEMMA PublishForgets ==
    ASSUME PublishOne, NEW b, NEW s \in SUBSET Sensors, NEW v
    PROVE  /\ work = ConfigWork(b, s, v) => Forgets(b, s)
           /\ work = StateWork(b, v) => forgot' = forgot
           /\ work = RemoveWork(b) => Forgets(b, None)
<1> DEFINE p == Head(work)
<1>1. forgot' = IF link = "down"
                THEN IF p.topic = "config" /\ p.val = None
                     THEN forgot \cup {p.beacon} ELSE forgot
                ELSE IF p.topic = "config" THEN forgot \ {p.beacon} ELSE forgot
  BY DEF PublishOne
<1> HIDE DEF p
<1>2. ASSUME NEW x, p = Put(b, "config", x) PROVE Forgets(b, x)
  <2>1. p.beacon = b /\ p.topic = "config" /\ p.val = x
    BY <1>2 DEF Put
  <2> QED
    BY <1>1, <2>1 DEF Forgets
<1>3. ASSUME p = Put(b, "state", v) PROVE forgot' = forgot
  <2>1. p.topic = "state"
    BY <1>3 DEF Put
  <2> QED
    BY <1>1, <2>1
<1> QED
  BY <1>2, <1>3, WorkHead DEF p

\* One publish, by the item it belongs to.
LEMMA PublishEffect ==
    ASSUME Shape, PublishOne
    PROVE  \/ \E b \in Beacons, s \in SUBSET Sensors, v \in Nat :
                 /\ work = ConfigWork(b, s, v) /\ work' = MarkWork(b, s, v)
                 /\ Stores(b, "config", s)
           \/ \E b \in Beacons, v \in Nat \cup {None} :
                 /\ work = StateWork(b, v) /\ work' = <<>>
                 /\ Stores(b, "state", v)
           \/ \E b \in Beacons :
                 /\ work = RemoveWork(b) /\ work' = StateWork(b, None)
                 /\ Stores(b, "config", None)
<1> DEFINE p == Head(work)
<1>1. /\ work # <<>> /\ p.op = "publish" /\ work' = Tail(work)
      /\ broker' = IF link = "down" THEN broker
                   ELSE [broker EXCEPT ![p.beacon][p.topic] = p.val]
  BY DEF PublishOne
<1>2. ASSUME NEW b \in Beacons, NEW t \in Topics, NEW x, p = Put(b, t, x)
      PROVE  Stores(b, t, x)
  <2>1. p.beacon = b /\ p.topic = t /\ p.val = x
    BY <1>2 DEF Put
  <2>2. CASE link = "down"
    BY <1>1, <2>2 DEF Stores
  <2>3. CASE link # "down"
    <3>1. broker' = [broker EXCEPT ![b][t] = x]
      BY <1>1, <2>1, <2>3
    <3>2. DOMAIN broker = Beacons /\ \A c \in Beacons : DOMAIN broker[c] = Topics
      BY DEF Shape, BrokerOK
    <3> QED
      BY <2>3, <3>1, <3>2 DEF Stores
  <2> QED
    BY <2>2, <2>3
<1>3. "config" \in Topics /\ "state" \in Topics
  BY DEF Topics
<1> HIDE DEF p
<1>4. ASSUME NEW b \in Beacons, NEW s \in SUBSET Sensors, NEW v \in Nat,
             work = ConfigWork(b, s, v)
      PROVE  work' = MarkWork(b, s, v) /\ Stores(b, "config", s)
  BY <1>1, <1>2, <1>3, <1>4, WorkHead DEF p
<1>5. ASSUME NEW b \in Beacons, NEW v \in Nat \cup {None}, work = StateWork(b, v)
      PROVE  work' = <<>> /\ Stores(b, "state", v)
  BY <1>1, <1>2, <1>3, <1>5, WorkHead DEF p
<1>6. ASSUME NEW b \in Beacons, work = RemoveWork(b)
      PROVE  work' = StateWork(b, None) /\ Stores(b, "config", None)
  BY <1>1, <1>2, <1>3, <1>6, WorkHead DEF p
<1>7. ASSUME NEW b \in Beacons, NEW s \in SUBSET Sensors, NEW v \in Nat,
             work = MarkWork(b, s, v)
      PROVE  FALSE
  <2>1. p = Mark(b, s)
    BY <1>7, WorkHead DEF p
  <2> QED
    BY <1>1, <2>1 DEF Mark
<1> QED
  BY <1>1, <1>4, <1>5, <1>6, <1>7 DEF Shape, WorkOK

\* The mark of an entity.
LEMMA MarkEffect ==
    ASSUME Shape, MarkSeen
    PROVE  \E b \in Beacons, s \in SUBSET Sensors, v \in Nat :
              /\ work = MarkWork(b, s, v) /\ work' = StateWork(b, v)
              /\ seen' = seen \cup {b}
              /\ declared' = [declared EXCEPT ![b] = s]
              /\ cleared => raced' = raced \cup {b}
              /\ ~cleared => raced' = raced \ {b}
<1> DEFINE p == Head(work)
<1>1. /\ work # <<>> /\ p.op = "mark" /\ work' = Tail(work)
      /\ seen' = seen \cup {p.beacon}
      /\ declared' = [declared EXCEPT ![p.beacon] = p.val]
      /\ raced' = IF cleared THEN raced \cup {p.beacon} ELSE raced \ {p.beacon}
  BY DEF MarkSeen
<1>2. \A b, t, x : p # Put(b, t, x)
  BY <1>1 DEF Put
<1> HIDE DEF p
<1>3. PICK b \in Beacons, s \in SUBSET Sensors, v \in Nat : work = MarkWork(b, s, v)
  <2>1. \A b, s, v : /\ work # ConfigWork(b, s, v) /\ work # StateWork(b, v)
                     /\ work # RemoveWork(b)
    BY <1>2, WorkHead DEF p
  <2> QED
    BY <1>1, <2>1 DEF Shape, WorkOK
<1>4. p = Mark(b, s) /\ Tail(work) = StateWork(b, v)
  BY <1>3, WorkHead DEF p
<1>5. p.beacon = b /\ p.val = s
  BY <1>4 DEF Mark
<1> QED
  BY <1>1, <1>3, <1>4, <1>5

\* The steps of an event.
LEMMA HandleSteps ==
    ASSUME NEW ev
    PROVE  /\ NeedConfig(ev) =>
                handle(ev) = ConfigWork(ev.beacon, declared[ev.beacon] \cup ev.tlm, ev.ver)
           /\ ~NeedConfig(ev) => handle(ev) = StateWork(ev.beacon, ev.ver)
<1>1. ASSUME NEW x, NEW y, NEW z PROVE <<x, y>> \o <<z>> = <<x, y, z>>
  <2> DEFINE S == {x, y, z}
             l == <<x, y>> \o <<z>>
  <2>1. <<x, y>> \in Seq(S) /\ <<z>> \in Seq(S) /\ <<x, y, z>> \in Seq(S)
        /\ Len(<<x, y>>) = 2 /\ Len(<<z>>) = 1 /\ Len(<<x, y, z>>) = 3
    OBVIOUS
  <2>2. /\ l \in Seq(S) /\ Len(l) = Len(<<x, y>>) + Len(<<z>>)
        /\ \A k \in 1..(Len(<<x, y>>) + Len(<<z>>)) :
              l[k] = IF k <= Len(<<x, y>>) THEN <<x, y>>[k] ELSE <<z>>[k - Len(<<x, y>>)]
    BY <2>1, ConcatProperties
  <2> HIDE DEF l, S
  <2>3. Len(l) = 3 /\ l[1] = x /\ l[2] = y /\ l[3] = z
    BY <2>1, <2>2
  <2>4. \A k \in 1..3 : k = 1 \/ k = 2 \/ k = 3
    OBVIOUS
  <2>5. \A k \in 1..Len(l) : l[k] = <<x, y, z>>[k]
    BY <2>3, <2>4
  <2>6. l = <<x, y, z>>
    BY <2>1, <2>2, <2>3, <2>5, SeqEqual
  <2> QED
    BY <2>6 DEF l
<1>2. \A z : <<>> \o <<z>> = <<z>>
  OBVIOUS
<1>3. CASE NeedConfig(ev)
  BY <1>1, <1>3 DEF handle, ConfigWork
<1>4. CASE ~NeedConfig(ev)
  BY <1>2, <1>4 DEF handle, StateWork
<1> QED
  BY <1>3, <1>4

\* Run takes an item: it forgets the entity of a removal, and sends a config
\* for an entity it has not seen or whose sensors have grown.
LEMMA ReceiveEffect ==
    ASSUME Shape, Receive
    PROVE  /\ work = <<>> /\ queue # <<>> /\ Head(queue) \in Items
           /\ queue' = Tail(queue) /\ cleared' = FALSE
           /\ \/ \E b \in Beacons :
                    /\ Head(queue).kind = "remove" /\ Head(queue).beacon = b
                    /\ work' = RemoveWork(b) /\ seen' = seen \ {b}
                    /\ declared' = [declared EXCEPT ![b] = {}] /\ raced' = raced \ {b}
              \/ \E b \in Beacons, s \in SUBSET Sensors, v \in Nat :
                    /\ Head(queue).kind = "event" /\ Head(queue).beacon = b
                    /\ Head(queue).ver = v
                    /\ UNCHANGED <<seen, declared, raced>>
                    /\ \/ work' = ConfigWork(b, s, v) /\ declared[b] \subseteq s
                       \/ work' = StateWork(b, v) /\ b \in seen
<1> DEFINE item == Head(queue)
           b == item.beacon
           s == declared[b] \cup item.tlm
<1>1. /\ work = <<>> /\ queue # <<>> /\ queue' = Tail(queue) /\ cleared' = FALSE
  BY DEF Receive
<1>2. item \in Items
  BY <1>1, HeadTailProperties DEF Shape, ChannelsOK
<1>3. b \in Beacons /\ item.ver \in Nat /\ item.tlm \in SUBSET Sensors
      /\ item.kind \in {"event", "remove"}
  BY <1>2 DEF Items
<1>4. s \in SUBSET Sensors /\ declared[b] \subseteq s
  BY <1>3 DEF Shape, SeenOK
<1>5. CASE item.kind = "remove"
  BY <1>1, <1>2, <1>3, <1>5 DEF Receive, handleRemove, RemoveWork
<1>6. CASE item.kind = "event"
  <2>1. work' = handle(item) /\ UNCHANGED <<seen, declared, raced>>
    BY <1>6 DEF Receive
  <2>2. CASE NeedConfig(item)
    <3>1. work' = ConfigWork(b, s, item.ver)
      BY <2>1, <2>2, HandleSteps
    <3> HIDE DEF item, b, s
    <3> QED
      BY <1>1, <1>2, <1>3, <1>4, <1>6, <2>1, <3>1 DEF item, b
  <2>3. CASE ~NeedConfig(item)
    <3>1. work' = StateWork(b, item.ver)
      BY <2>1, <2>3, HandleSteps
    <3>2. b \in seen
      BY <2>3 DEF NeedConfig
    <3> HIDE DEF item, b, s
    <3> QED
      BY <1>1, <1>2, <1>3, <1>4, <1>6, <2>1, <3>1, <3>2 DEF item, b
  <2> QED
    BY <2>2, <2>3
<1> QED
  BY <1>3, <1>5, <1>6

-----------------------------------------------------------------------------
(* The channels.                                                           *)

\* A channel with one more item.
LEMMA Appended ==
    ASSUME NEW S, NEW q \in Seq(S), NEW x \in S
    PROVE  /\ Append(q, x) \in Seq(S) /\ Len(q) \in Nat
           /\ Len(Append(q, x)) = Len(q) + 1
           /\ \A k \in 1..Len(q) : Append(q, x)[k] = q[k]
           /\ Append(q, x)[Len(q) + 1] = x
BY AppendProperties, LenProperties

\* A channel without its head.
LEMMA Taken ==
    ASSUME NEW S, NEW q \in Seq(S), q # <<>>
    PROVE  /\ Tail(q) \in Seq(S) /\ Len(Tail(q)) \in Nat /\ Len(q) = Len(Tail(q)) + 1
           /\ \A k \in 1..Len(Tail(q)) : Tail(q)[k] = q[k + 1] /\ k + 1 \in 1..Len(q)
           /\ 1 \in 1..Len(q) /\ Head(q) = q[1] /\ Head(q) \in S
<1>1. /\ Head(q) \in S /\ Tail(q) \in Seq(S) /\ Len(Tail(q)) = Len(q) - 1
      /\ \A k \in 1..Len(Tail(q)) : Tail(q)[k] = q[k + 1]
      /\ Len(q) \in Nat \ {0}
  BY HeadTailProperties, EmptySeq
<1>2. Len(Tail(q)) \in Nat /\ Len(q) = Len(Tail(q)) + 1 /\ 1 \in 1..Len(q)
      /\ \A k \in 1..Len(Tail(q)) : k + 1 \in 1..Len(q)
  BY <1>1
<1>3. Head(q) = q[1]
  OBVIOUS
<1> QED
  BY <1>1, <1>2, <1>3

\* An event of the engine reaches the channel, or finds it full.
Emitted(ev) == events' = events \/ (events' = Append(events, ev) /\ Len(events) < EventsCap)

\* The engine's emits.
LEMMA EmitEffect ==
    ASSUME NEW ev, emit(ev)
    PROVE  Emitted(ev)
BY DEF emit, Emitted

\* The first select of enqueue.
Offered(c, item) ==
    \/ /\ Len(queue) < QueueCap /\ queue' = Append(queue, item) /\ caller' = caller
    \/ /\ caller' = [caller EXCEPT ![c] = [pc |-> "evict", item |-> item]]
       /\ queue' = queue

\* Either the item is in the queue or the caller goes on with it.
LEMMA EnqueueEffect ==
    ASSUME NEW c, NEW item, enqueue(c, item)
    PROVE  Offered(c, item)
BY DEF enqueue, Offered

-----------------------------------------------------------------------------
(* Shape: initially, and step by step.                                     *)

\* At boot.
LEMMA ShapeInit == Init => Shape
<1> SUFFICES ASSUME Init PROVE Shape
  OBVIOUS
<1>1. EngineOK
  BY DEF Init, EngineOK
<1>2. ChannelsOK
  <2>1. events = <<>> /\ queue = <<>> /\ Len(<<>>) = 0
    BY EmptySeq DEF Init
  <2>2. <<>> \in Seq(EventItems) /\ <<>> \in Seq(Items)
    BY EmptySeq
  <2>3. 0 <= EventsCap /\ 0 <= QueueCap
    BY BoundsAssumption
  <2> QED
    BY <2>1, <2>2, <2>3 DEF ChannelsOK
<1>3. CallersOK
  BY RequestsAssumption DEF Init, CallersOK, Callers
<1>4. BrokerOK
  <2>1. /\ DOMAIN broker = Beacons
        /\ \A b \in Beacons : broker[b] = [t \in Topics |-> None]
    BY DEF Init
  <2>2. "config" \in Topics /\ "state" \in Topics
    BY DEF Topics
  <2> QED
    BY <2>1, <2>2 DEF BrokerOK
<1>5. WorkOK /\ SeenOK
  BY DEF Init, WorkOK, SeenOK
<1> QED
  BY <1>1, <1>2, <1>3, <1>4, <1>5 DEF Init, Shape

\* The events channel after an emit.
LEMMA EmittedOK ==
    ASSUME ChannelsOK, NEW ev \in EventItems, Emitted(ev), queue' = queue
    PROVE  ChannelsOK'
<1>1. CASE events' = events
  BY <1>1 DEF ChannelsOK
<1>2. CASE events' = Append(events, ev) /\ Len(events) < EventsCap
  <2>1. events \in Seq(EventItems)
    BY DEF ChannelsOK
  <2>2. events' \in Seq(EventItems) /\ Len(events') = Len(events) + 1 /\ Len(events) \in Nat
    BY <1>2, <2>1, Appended
  <2>3. Len(events') <= EventsCap
    BY <1>2, <2>2, BoundsAssumption
  <2> QED
    BY <2>2, <2>3 DEF ChannelsOK
<1> QED
  BY <1>1, <1>2 DEF Emitted

\* The queue with one more item.
LEMMA QueuedOK ==
    ASSUME ChannelsOK, NEW x \in Items, Len(queue) < QueueCap, queue' = Append(queue, x)
    PROVE  queue' \in Seq(Items) /\ Len(queue') <= QueueCap
<1>1. queue \in Seq(Items)
  BY DEF ChannelsOK
<1>2. queue' \in Seq(Items) /\ Len(queue') = Len(queue) + 1 /\ Len(queue) \in Nat
  BY <1>1, Appended
<1> QED
  BY <1>2, BoundsAssumption

\* The queue and its caller after the first select.
LEMMA OfferedOK ==
    ASSUME ChannelsOK, CallersOK, NEW c \in Callers, NEW x \in Items, Offered(c, x),
           c = "pump" => x \in EventItems, c # "pump" => x \in RemoveItems
    PROVE  queue' \in Seq(Items) /\ Len(queue') <= QueueCap /\ CallersOK'
<1>1. CASE Len(queue) < QueueCap /\ queue' = Append(queue, x) /\ caller' = caller
  BY <1>1, QueuedOK DEF CallersOK
<1>2. CASE /\ caller' = [caller EXCEPT ![c] = [pc |-> "evict", item |-> x]]
           /\ queue' = queue
  <2>1. c = "pump" \/ c \in Requests
    BY DEF Callers
  <2>2. /\ DOMAIN caller' = Callers /\ caller'[c] = [pc |-> "evict", item |-> x]
        /\ \A d \in Callers : d # c => caller'[d] = caller[d]
    BY <1>2 DEF CallersOK
  <2>3. /\ c = "pump" => caller'[c] \in Holding(EventItems)
        /\ c # "pump" => caller'[c] \in Holding(RemoveItems)
    BY <2>2 DEF Holding
  <2>4. CallersOK'
    BY <2>1, <2>2, <2>3, RequestsAssumption DEF CallersOK, Callers
  <2> QED
    BY <1>2, <2>4 DEF ChannelsOK
<1> QED
  BY <1>1, <1>2 DEF Offered

\* Events and removals are items.
LEMMA ItemsMade ==
    ASSUME NEW b \in Beacons, NEW n \in Nat, NEW s \in SUBSET Sensors
    PROVE  /\ [kind |-> "event", beacon |-> b, ver |-> n, tlm |-> s] \in EventItems
           /\ Removal(b) \in RemoveItems
           /\ EventItems \subseteq Items /\ RemoveItems \subseteq Items
BY DEF EventItems, RemoveItems, Items, Removal

\* The engine's steps.
LEMMA EngineShape ==
    ASSUME Shape,
           \/ \E b \in Beacons, sensors \in SUBSET Sensors : ChangeState(b, sensors)
           \/ Reassert \/ TelemetryTick \/ \E b \in Beacons : EmitNext(b)
    PROVE  Shape'
<1>1. EngineOK /\ ChannelsOK /\ CallersOK /\ SeenOK /\ BrokerOK /\ WorkOK
      /\ todo \in [Requests -> SUBSET Beacons]
      /\ link \in {"up", "down", "fresh"} /\ reassert \in BOOLEAN
  BY DEF Shape
<1>2. ASSUME UNCHANGED <<queueVars, runVars, link>>, reassert' \in BOOLEAN,
             EngineOK', ChannelsOK'
      PROVE  Shape'
  <2>1. CallersOK' /\ SeenOK' /\ BrokerOK' /\ WorkOK'
    BY <1>1, <1>2 DEF CallersOK, SeenOK, BrokerOK, WorkOK, queueVars, runVars
  <2> QED
    BY <1>1, <1>2, <2>1 DEF Shape, queueVars, runVars
<1>3. ASSUME NEW b \in Beacons, NEW sensors \in SUBSET Sensors, ChangeState(b, sensors)
      PROVE  Shape'
  <2> DEFINE ev == [kind |-> "event", beacon |-> b, ver |-> ver'[b], tlm |-> tlm'[b]]
  <2>1. /\ ver' = [ver EXCEPT ![b] = ver[b] + 1]
        /\ tlm' = [tlm EXCEPT ![b] = tlm[b] \cup sensors]
        /\ emit(ev) /\ tracked' = tracked /\ emitting' = emitting
        /\ UNCHANGED <<queueVars, runVars, linkVars>>
    BY <1>3 DEF ChangeState
  <2>2. ver' \in [Beacons -> Nat] /\ tlm' \in [Beacons -> SUBSET Sensors]
    BY <1>1, <2>1 DEF EngineOK
  <2>3. EngineOK'
    BY <1>1, <2>1, <2>2 DEF EngineOK
  <2>4. ev \in EventItems
    BY <2>2, ItemsMade
  <2> HIDE DEF ev
  <2>5. ChannelsOK'
    BY <1>1, <2>1, <2>4, EmitEffect, EmittedOK DEF queueVars
  <2> QED
    BY <1>1, <1>2, <2>1, <2>3, <2>5 DEF linkVars
<1>4. CASE Reassert \/ TelemetryTick
  <2>1. /\ emitting' = tracked /\ UNCHANGED <<engineVars, events, queueVars, runVars, link>>
        /\ reassert' \in BOOLEAN
    BY <1>1, <1>4 DEF Reassert, TelemetryTick, linkVars
  <2>2. EngineOK' /\ ChannelsOK'
    BY <1>1, <2>1 DEF EngineOK, ChannelsOK, engineVars, queueVars
  <2> QED
    BY <1>2, <2>1, <2>2
<1>5. ASSUME NEW b \in Beacons, EmitNext(b) PROVE Shape'
  <2>1. /\ emitting' = emitting \ {b} /\ emit(Event(b))
        /\ UNCHANGED <<engineVars, queueVars, runVars, linkVars>>
    BY <1>5 DEF EmitNext
  <2>2. Event(b) \in EventItems
    BY <1>1, ItemsMade DEF EngineOK, Event
  <2>3. ChannelsOK'
    BY <1>1, <2>1, <2>2, EmitEffect, EmittedOK DEF queueVars
  <2>4. EngineOK'
    BY <1>1, <2>1 DEF EngineOK, engineVars
  <2> QED
    BY <1>1, <1>2, <2>1, <2>3, <2>4 DEF linkVars
<1> QED
  BY <1>3, <1>4, <1>5

\* The pump and the selects of enqueue.
LEMMA EnqueueShape ==
    ASSUME Shape,
           \/ Pump \/ \E c \in Callers : EnqueueStep(c)
           \/ \E q \in Requests, b \in Beacons : AdminRemove(q, b)
    PROVE  Shape'
<1>1. EngineOK /\ ChannelsOK /\ CallersOK /\ SeenOK /\ BrokerOK /\ WorkOK
      /\ todo \in [Requests -> SUBSET Beacons]
      /\ link \in {"up", "down", "fresh"} /\ reassert \in BOOLEAN
  BY DEF Shape
<1>2. ASSUME UNCHANGED <<engineVars, emitting, runVars, linkVars>>, todo' \in [Requests -> SUBSET Beacons],
             events' \in Seq(EventItems) /\ Len(events') <= EventsCap,
             queue' \in Seq(Items) /\ Len(queue') <= QueueCap, CallersOK'
      PROVE  Shape'
  <2>1. EngineOK' /\ SeenOK' /\ BrokerOK' /\ WorkOK' /\ ChannelsOK'
    BY <1>1, <1>2 DEF EngineOK, SeenOK, BrokerOK, WorkOK, ChannelsOK, engineVars, runVars
  <2> QED
    BY <1>1, <1>2, <2>1 DEF Shape, linkVars
<1>3. CASE Pump
  <2>1. /\ events # <<>> /\ enqueue("pump", Head(events)) /\ events' = Tail(events)
        /\ UNCHANGED <<engineVars, emitting, todo, runVars, linkVars>>
    BY <1>3 DEF Pump
  <2>2. events \in Seq(EventItems) /\ Len(events) <= EventsCap
    BY <1>1 DEF ChannelsOK
  <2>3. /\ Head(events) \in EventItems /\ events' \in Seq(EventItems)
        /\ Len(events') \in Nat /\ Len(events) = Len(events') + 1
    BY <2>1, <2>2, Taken
  <2>4. Len(events') <= EventsCap
    BY <2>2, <2>3, BoundsAssumption
  <2>5. Offered("pump", Head(events)) /\ "pump" \in Callers /\ Head(events) \in Items
    BY <2>1, <2>3, EnqueueEffect DEF Callers, EventItems
  <2>6. queue' \in Seq(Items) /\ Len(queue') <= QueueCap /\ CallersOK'
    BY <1>1, <2>3, <2>5, OfferedOK
  <2> QED
    BY <1>1, <1>2, <2>1, <2>3, <2>4, <2>6
<1>4. ASSUME NEW q \in Requests, NEW b \in Beacons, AdminRemove(q, b) PROVE Shape'
  <2>1. /\ enqueue(q, Removal(b)) /\ todo' = [todo EXCEPT ![q] = @ \ {b}]
        /\ UNCHANGED <<engineVars, emitting, events, runVars, linkVars>>
    BY <1>4 DEF AdminRemove
  <2>2. Removal(b) \in RemoveItems /\ Removal(b) \in Items
    BY ItemsMade DEF Removal, RemoveItems, Items
  <2>3. Offered(q, Removal(b)) /\ q \in Callers /\ q # "pump"
    BY <2>1, EnqueueEffect, RequestsAssumption DEF Callers
  <2>4. queue' \in Seq(Items) /\ Len(queue') <= QueueCap /\ CallersOK'
    BY <1>1, <2>2, <2>3, OfferedOK
  <2> QED
    BY <1>1, <1>2, <2>1, <2>4 DEF ChannelsOK
<1>5. ASSUME NEW c \in Callers, EvictOldest(c) PROVE Shape'
  <2>1. /\ caller[c].pc = "evict" /\ caller' = [caller EXCEPT ![c].pc = "retry"]
        /\ queue' = IF queue = <<>> THEN queue ELSE Tail(queue)
        /\ UNCHANGED <<engineVars, emitting, events, todo, runVars, linkVars>>
    BY <1>5 DEF EvictOldest, Goto
  <2>2. queue' \in Seq(Items) /\ Len(queue') <= QueueCap
    <3>1. queue \in Seq(Items) /\ Len(queue) <= QueueCap
      BY <1>1 DEF ChannelsOK
    <3>2. CASE queue = <<>>
      BY <2>1, <3>1, <3>2
    <3>3. CASE queue # <<>>
      <4>1. queue' \in Seq(Items) /\ Len(queue') \in Nat /\ Len(queue) = Len(queue') + 1
        BY <2>1, <3>1, <3>3, Taken
      <4> QED
        BY <3>1, <4>1, BoundsAssumption
    <3> QED
      BY <3>2, <3>3
  <2>3. CallersOK'
    <3>1. /\ DOMAIN caller' = Callers /\ caller'[c] = [caller[c] EXCEPT !.pc = "retry"]
          /\ \A d \in Callers : d # c => caller'[d] = caller[d]
      BY <1>1, <2>1 DEF CallersOK
    <3>2. caller[c] # Idle
      BY <2>1 DEF Idle
    <3>3. ASSUME NEW S, caller[c] \in Holding(S) PROVE caller'[c] \in Holding(S)
      BY <3>1, <3>3 DEF Holding
    <3> QED
      BY <1>1, <3>1, <3>2, <3>3, RequestsAssumption DEF CallersOK, Callers
  <2> QED
    BY <1>1, <1>2, <2>1, <2>2, <2>3 DEF ChannelsOK
<1>6. ASSUME NEW c \in Callers, RetryEnqueue(c) PROVE Shape'
  <2>1. /\ caller[c].pc = "retry" /\ caller' = [caller EXCEPT ![c] = Idle]
        /\ queue' = IF Len(queue) < QueueCap THEN Append(queue, caller[c].item) ELSE queue
        /\ UNCHANGED <<engineVars, emitting, events, todo, runVars, linkVars>>
    BY <1>6 DEF RetryEnqueue, Return
  <2>2. caller[c].item \in Items
    <3>1. caller[c] # Idle
      BY <2>1 DEF Idle
    <3>2. caller[c] \in Holding(EventItems) \/ caller[c] \in Holding(RemoveItems)
      BY <1>1, <3>1 DEF CallersOK, Callers
    <3> QED
      BY <3>2 DEF Holding, EventItems, RemoveItems
  <2>3. queue' \in Seq(Items) /\ Len(queue') <= QueueCap
    <3>1. CASE Len(queue) < QueueCap
      BY <1>1, <2>1, <2>2, <3>1, QueuedOK
    <3>2. CASE ~(Len(queue) < QueueCap)
      BY <1>1, <2>1, <3>2 DEF ChannelsOK
    <3> QED
      BY <3>1, <3>2
  <2>4. CallersOK'
    BY <1>1, <2>1, RequestsAssumption DEF CallersOK, Callers
  <2> QED
    BY <1>1, <1>2, <2>1, <2>3, <2>4 DEF ChannelsOK
<1> QED
  BY <1>3, <1>4, <1>5, <1>6 DEF EnqueueStep

\* The operator's requests.
LEMMA AdminShape ==
    ASSUME Shape,
           \/ \E b \in Beacons : Promote(b)
           \/ \E q \in Requests, b \in Beacons : Demote(q, b)
           \/ \E q \in Requests : RefreshEngine(q)
    PROVE  Shape'
<1>1. EngineOK /\ ChannelsOK /\ CallersOK /\ SeenOK /\ BrokerOK /\ WorkOK
      /\ todo \in [Requests -> SUBSET Beacons]
      /\ link \in {"up", "down", "fresh"} /\ reassert \in BOOLEAN
  BY DEF Shape
<1>2. /\ UNCHANGED <<emitting, events, caller, queue, runVars, linkVars>>
  BY DEF Promote, Demote, RefreshEngine, queueVars
<1>3. ChannelsOK' /\ CallersOK' /\ SeenOK' /\ BrokerOK' /\ WorkOK'
  BY <1>1, <1>2 DEF ChannelsOK, CallersOK, SeenOK, BrokerOK, WorkOK, runVars
<1>4. EngineOK' /\ todo' \in [Requests -> SUBSET Beacons]
  <2>1. ASSUME NEW b \in Beacons, Promote(b)
        PROVE  EngineOK' /\ todo' \in [Requests -> SUBSET Beacons]
    BY <1>1, <2>1 DEF Promote, EngineOK, queueVars
  <2>2. ASSUME NEW q \in Requests, NEW b \in Beacons, Demote(q, b)
        PROVE  EngineOK' /\ todo' \in [Requests -> SUBSET Beacons]
    BY <1>1, <2>2 DEF Demote, EngineOK
  <2>3. ASSUME NEW q \in Requests, RefreshEngine(q)
        PROVE  EngineOK' /\ todo' \in [Requests -> SUBSET Beacons]
    BY <1>1, <2>3 DEF RefreshEngine, EngineOK, SeenOK, engineVars
  <2> QED
    BY <2>1, <2>2, <2>3
<1> QED
  BY <1>1, <1>2, <1>3, <1>4 DEF Shape, linkVars

\* What clearing seen leaves.
LEMMA ClearedOK ==
    ASSUME clearSeen
    PROVE  /\ SeenOK' /\ seen' = {} /\ cleared'
           /\ forgot' = {b \in Beacons : broker[b]["config"] # None}
BY DEF clearSeen, SeenOK

\* The connection, and a restart.
LEMMA LinkShape ==
    ASSUME Shape, \/ \E wipe \in BOOLEAN : LoseConnection(wipe)
                  \/ Reconnect \/ OnConnect \/ ClearAndReassert \/ Restart
    PROVE  Shape'
<1>1. EngineOK /\ ChannelsOK /\ CallersOK /\ SeenOK /\ BrokerOK /\ WorkOK
      /\ todo \in [Requests -> SUBSET Beacons]
      /\ link \in {"up", "down", "fresh"} /\ reassert \in BOOLEAN
  BY DEF Shape
<1>2. ASSUME UNCHANGED <<engineVars, emitting, events, queueVars, work>>, SeenOK', BrokerOK',
             link' \in {"up", "down", "fresh"} /\ reassert' \in BOOLEAN
      PROVE  Shape'
  <2>1. EngineOK' /\ ChannelsOK' /\ CallersOK' /\ WorkOK'
    BY <1>1, <1>2 DEF EngineOK, ChannelsOK, CallersOK, WorkOK, engineVars, queueVars
  <2> QED
    BY <1>1, <1>2, <2>1 DEF Shape, queueVars
<1>3. broker' = broker => BrokerOK'
  BY <1>1 DEF BrokerOK
<1>4. ASSUME NEW wipe \in BOOLEAN, LoseConnection(wipe) PROVE Shape'
  <2>1. /\ link' = "down"
        /\ broker' = IF wipe THEN [b \in Beacons |-> [t \in Topics |-> None]] ELSE broker
        /\ UNCHANGED <<engineVars, emitting, events, queueVars, work, seen, declared,
                       raced, cleared, forgot, reassert>>
    BY <1>4 DEF LoseConnection
  <2>2. BrokerOK'
    <3>1. CASE wipe
      <4>1. /\ DOMAIN broker' = Beacons
            /\ \A b \in Beacons : broker'[b] = [t \in Topics |-> None]
        BY <2>1, <3>1
      <4>2. "config" \in Topics /\ "state" \in Topics
        BY DEF Topics
      <4> QED
        BY <4>1, <4>2 DEF BrokerOK
    <3>2. CASE ~wipe
      BY <1>3, <2>1, <3>2
    <3> QED
      BY <3>1, <3>2
  <2>3. SeenOK'
    BY <1>1, <2>1 DEF SeenOK
  <2> QED
    BY <1>1, <1>2, <2>1, <2>2, <2>3
<1>5. CASE Reconnect
  <2>1. /\ UNCHANGED <<engineVars, emitting, events, queueVars, runVars, reassert>>
        /\ link' = "fresh"
    BY <1>5 DEF Reconnect
  <2>2. SeenOK' /\ BrokerOK'
    BY <1>1, <1>3, <2>1 DEF SeenOK, runVars
  <2> QED
    BY <1>1, <1>2, <2>1, <2>2 DEF runVars
<1>6. CASE OnConnect \/ ClearAndReassert
  <2>1. /\ clearSeen /\ link' \in {"up", link} /\ reassert' \in {TRUE, reassert}
        /\ UNCHANGED <<engineVars, emitting, events, queueVars, work, broker>>
    BY <1>6 DEF OnConnect, ClearAndReassert
  <2> QED
    BY <1>1, <1>2, <1>3, <2>1, ClearedOK
<1>7. CASE Restart
  <2>1. /\ ver' = [b \in Beacons |-> ver[b] + 1] /\ tlm' = [b \in Beacons |-> {}]
        /\ emitting' = {} /\ events' = <<>> /\ queue' = <<>> /\ work' = <<>>
        /\ caller' = [c \in Callers |-> Idle]
        /\ todo' = [q \in Requests |-> {}] /\ reassert' = FALSE /\ link' = "down"
        /\ clearSeen /\ UNCHANGED <<tracked, broker>>
    BY <1>7 DEF Restart
  <2>2. EngineOK'
    BY <1>1, <2>1 DEF EngineOK
  <2>3. ChannelsOK'
    <3>1. <<>> \in Seq(EventItems) /\ <<>> \in Seq(Items) /\ Len(<<>>) = 0
      BY EmptySeq
    <3>2. 0 <= EventsCap /\ 0 <= QueueCap
      BY BoundsAssumption
    <3> QED
      BY <2>1, <3>1, <3>2 DEF ChannelsOK
  <2>4. CallersOK' /\ WorkOK' /\ SeenOK' /\ BrokerOK'
    BY <1>3, <2>1, ClearedOK DEF CallersOK, Callers, WorkOK
  <2> QED
    BY <2>1, <2>2, <2>3, <2>4 DEF Shape
<1> QED
  BY <1>4, <1>5, <1>6, <1>7

\* A publish keeps the types of the topics.
LEMMA StoresOK ==
    ASSUME BrokerOK, NEW b \in Beacons, NEW t \in Topics, NEW x, Stores(b, t, x),
           t = "config" => x \in (SUBSET Sensors) \cup {None},
           t = "state" => x \in Nat \cup {None}
    PROVE  BrokerOK'
<1>1. "config" \in Topics /\ "state" \in Topics
  BY DEF Topics
<1> QED
  BY <1>1 DEF Stores, BrokerOK

\* Run.
LEMMA RunShape == ASSUME Shape, RunStep PROVE Shape'
<1>1. EngineOK /\ ChannelsOK /\ CallersOK /\ SeenOK /\ BrokerOK /\ WorkOK
      /\ todo \in [Requests -> SUBSET Beacons]
      /\ link \in {"up", "down", "fresh"} /\ reassert \in BOOLEAN
  BY DEF Shape
<1>2. ASSUME UNCHANGED <<engineVars, emitting, events, caller, todo, linkVars>>,
             queue' \in Seq(Items) /\ Len(queue') <= QueueCap, SeenOK', BrokerOK', WorkOK'
      PROVE  Shape'
  <2>1. EngineOK' /\ ChannelsOK' /\ CallersOK'
    BY <1>1, <1>2 DEF EngineOK, ChannelsOK, CallersOK, engineVars
  <2> QED
    BY <1>1, <1>2, <2>1 DEF Shape, linkVars
<1>a. queue \in Seq(Items) /\ Len(queue) <= QueueCap
  BY <1>1 DEF ChannelsOK
<1>3. CASE Receive
  <2>1. UNCHANGED <<engineVars, emitting, events, caller, todo, broker, forgot, linkVars>>
    BY <1>3 DEF Receive
  <2>2. queue # <<>> /\ queue' = Tail(queue) /\ cleared' = FALSE
    BY <1>3, ReceiveEffect
  <2>3. queue' \in Seq(Items) /\ Len(queue') <= QueueCap
    <3>1. queue' \in Seq(Items) /\ Len(queue') \in Nat /\ Len(queue) = Len(queue') + 1
      BY <1>a, <2>2, Taken
    <3> QED
      BY <1>a, <3>1, BoundsAssumption
  <2>4. SeenOK' /\ WorkOK'
    <3>1. CASE \E b \in Beacons :
                  /\ work' = RemoveWork(b) /\ seen' = seen \ {b}
                  /\ declared' = [declared EXCEPT ![b] = {}] /\ raced' = raced \ {b}
      BY <1>1, <2>1, <2>2, <3>1 DEF SeenOK, WorkOK
    <3>2. CASE \E b \in Beacons, s \in SUBSET Sensors, v \in Nat :
                  /\ UNCHANGED <<seen, declared, raced>>
                  /\ work' = ConfigWork(b, s, v) \/ work' = StateWork(b, v)
      BY <1>1, <2>1, <2>2, <3>2 DEF SeenOK, WorkOK
    <3> QED
      BY <1>3, <3>1, <3>2, ReceiveEffect
  <2>5. BrokerOK'
    BY <1>1, <2>1 DEF BrokerOK
  <2> QED
    BY <1>2, <2>1, <2>3, <2>4, <2>5
<1>4. CASE PublishOne
  <2>1. UNCHANGED <<engineVars, emitting, events, queueVars, seen, declared, raced,
                    cleared, linkVars>>
    BY <1>4 DEF PublishOne
  <2>2. "config" \in Topics /\ "state" \in Topics
    BY DEF Topics
  <2>3. WorkOK' /\ BrokerOK'
    <3>1. CASE \E b \in Beacons, s \in SUBSET Sensors, v \in Nat :
                 /\ work' = MarkWork(b, s, v) /\ Stores(b, "config", s)
      BY <1>1, <2>2, <3>1, StoresOK DEF WorkOK
    <3>2. CASE \E b \in Beacons, v \in Nat \cup {None} :
                 /\ work' = <<>> /\ Stores(b, "state", v)
      BY <1>1, <2>2, <3>2, StoresOK DEF WorkOK
    <3>3. CASE \E b \in Beacons :
                 /\ work' = StateWork(b, None) /\ Stores(b, "config", None)
      BY <1>1, <2>2, <3>3, StoresOK DEF WorkOK
    <3> QED
      BY <1>4, <3>1, <3>2, <3>3, PublishEffect
  <2>4. forgot' \subseteq Beacons
    <3>1. ASSUME NEW b \in Beacons, NEW x, Forgets(b, x) PROVE forgot' \subseteq Beacons
      BY <1>1, <3>1 DEF Forgets, SeenOK
    <3> QED
      BY <1>1, <1>4, <3>1, PublishEffect, PublishForgets DEF SeenOK
  <2>5. SeenOK'
    BY <1>1, <2>1, <2>4 DEF SeenOK
  <2> QED
    BY <1>2, <1>a, <2>1, <2>3, <2>5 DEF queueVars
<1>5. CASE MarkSeen
  <2>1. UNCHANGED <<engineVars, emitting, events, queueVars, broker, cleared, forgot, linkVars>>
    BY <1>5 DEF MarkSeen
  <2>2. PICK b \in Beacons, s \in SUBSET Sensors, v \in Nat :
              /\ work' = StateWork(b, v)
              /\ seen' = seen \cup {b}
              /\ declared' = [declared EXCEPT ![b] = s]
              /\ cleared => raced' = raced \cup {b}
              /\ ~cleared => raced' = raced \ {b}
    BY <1>5, MarkEffect
  <2>3. SeenOK' /\ WorkOK' /\ BrokerOK'
    BY <1>1, <2>1, <2>2 DEF SeenOK, WorkOK, BrokerOK
  <2> QED
    BY <1>2, <1>a, <2>1, <2>3 DEF queueVars
<1> QED
  BY <1>3, <1>4, <1>5 DEF RunStep

\* Every step keeps the shapes.
LEMMA ShapeStep == Shape /\ [Next]_vars => Shape'
<1> SUFFICES ASSUME Shape, [Next]_vars PROVE Shape'
  OBVIOUS
<1>1. CASE UNCHANGED vars
  BY <1>1 DEF Shape, EngineOK, ChannelsOK, CallersOK, SeenOK, BrokerOK, WorkOK,
              vars, engineVars, queueVars, runVars, linkVars
<1> QED
  BY <1>1, EngineShape, EnqueueShape, AdminShape, LinkShape, RunShape DEF Next

\* Only beacons are excused.
LEMMA ExcusedStep ==
    ASSUME Shape, excused \subseteq Beacons, [Next]_vars
    PROVE  excused' \subseteq Beacons
<1>1. \A x \in Items : Excuse(x) \subseteq Beacons
  BY DEF Excuse, Items
<1>2. queue # <<>> => Head(queue) \in Items
  BY HeadTailProperties DEF Shape, ChannelsOK
<1>3. \A c \in Callers : caller[c].pc = "retry" => caller[c].item \in Items
  BY DEF Shape, CallersOK, Callers, Holding, EventItems, RemoveItems, Idle
<1>4. PublishOne => excused' \subseteq Beacons
  <2> SUFFICES ASSUME PublishOne PROVE excused' \subseteq Beacons
    OBVIOUS
  <2>1. excused' \subseteq excused \cup {Head(work).beacon}
    BY DEF PublishOne
  <2>2. Head(work).beacon \in Beacons
    <3>1. ASSUME NEW b \in Beacons, NEW t, NEW v, Head(work) = Put(b, t, v)
          PROVE  Head(work).beacon \in Beacons
      BY <3>1 DEF Put
    <3>2. ASSUME NEW b \in Beacons, NEW s, NEW v, work = ConfigWork(b, s, v)
          PROVE  Head(work).beacon \in Beacons
      BY <3>1, <3>2, WorkHead
    <3>3. ASSUME NEW b \in Beacons, NEW v, work = StateWork(b, v)
          PROVE  Head(work).beacon \in Beacons
      BY <3>1, <3>3 DEF StateWork
    <3>4. ASSUME NEW b \in Beacons, work = RemoveWork(b)
          PROVE  Head(work).beacon \in Beacons
      BY <3>1, <3>4 DEF RemoveWork
    <3> QED
      BY <3>2, <3>3, <3>4, PublishEffect
  <2> QED
    BY <2>1, <2>2
<1>5. ASSUME NEW c \in Callers, EnqueueStep(c) PROVE excused' \subseteq Beacons
  BY <1>1, <1>2, <1>3, <1>5 DEF EnqueueStep, EvictOldest, RetryEnqueue
<1>6. ASSUME NEW q \in Requests, NEW b \in Beacons, AdminRemove(q, b)
      PROVE  excused' \subseteq Beacons
  BY <1>6 DEF AdminRemove
<1>7. Restart => excused' \subseteq Beacons
  BY DEF Restart
<1>8. \/ excused' = excused \/ PublishOne \/ Restart
      \/ \E c \in Callers : EnqueueStep(c)
      \/ \E q \in Requests, b \in Beacons : AdminRemove(q, b)
  BY DEF Next, vars, ChangeState, Reassert, TelemetryTick, EmitNext, Pump, Promote, Demote,
         RefreshEngine, LoseConnection, Reconnect, OnConnect, ClearAndReassert, RunStep,
         Receive, MarkSeen
<1> QED
  BY <1>4, <1>5, <1>6, <1>7, <1>8

\* The shapes say what TypeOK says.
LEMMA ShapeTypeOK == Shape /\ excused \subseteq Beacons => TypeOK
<1> SUFFICES ASSUME Shape, excused \subseteq Beacons PROVE TypeOK
  OBVIOUS
<1>1. events \in Seq(Items)
  <2>1. events \in Seq(EventItems) /\ EventItems \subseteq Items
    BY DEF Shape, ChannelsOK, EventItems
  <2> QED
    BY <2>1, SeqMonotonic
<1>2. \A c \in Callers : \/ caller[c] = Idle
                         \/ /\ caller[c].pc \in {"evict", "retry"}
                            /\ caller[c].item \in Items
  BY DEF Shape, CallersOK, Callers, Holding, EventItems, RemoveItems
<1>3. \A b \in Beacons, t \in Topics : broker[b][t] = None \/ broker[b][t] \in Payloads(t)
  BY DEF Shape, BrokerOK, Topics, Payloads
<1> QED
  BY <1>1, <1>2, <1>3 DEF Shape, EngineOK, ChannelsOK, SeenOK, TypeOK

\* Types and capacities, for every number of beacons, sensors and slots.
THEOREM TypeCorrect == Spec => []TypeOK
<1>1. Init => excused \subseteq Beacons
  BY DEF Init
<1>2. Shape /\ excused \subseteq Beacons /\ [Next]_vars => (excused \subseteq Beacons)'
  BY ExcusedStep
<1> QED
  BY <1>1, <1>2, ShapeInit, ShapeStep, ShapeTypeOK, PTL DEF Spec

-----------------------------------------------------------------------------
(* What Run believes, and what the broker retains.                         *)

\* The steps that touch neither Run's state nor the link.
Elsewhere ==
    \/ \E b \in Beacons, sensors \in SUBSET Sensors : ChangeState(b, sensors)
    \/ Reassert \/ TelemetryTick
    \/ \E b \in Beacons : EmitNext(b)
    \/ Pump
    \/ \E c \in Callers : EnqueueStep(c)
    \/ \E b \in Beacons : Promote(b)
    \/ \E q \in Requests, b \in Beacons : Demote(q, b) \/ AdminRemove(q, b)
    \/ \E q \in Requests : RefreshEngine(q)

\* They leave it alone.
LEMMA ElsewhereEffect ==
    ASSUME Elsewhere
    PROVE  UNCHANGED <<runVars, link>>
BY DEF Elsewhere, ChangeState, Reassert, TelemetryTick, EmitNext, Pump, EnqueueStep,
       EvictOldest, RetryEnqueue, Promote, Demote, AdminRemove, RefreshEngine, linkVars

\* The steps of the connection, by what they do to Run's state.
LinkStep ==
    \/ \E wipe \in BOOLEAN : LoseConnection(wipe)
    \/ Reconnect \/ OnConnect \/ ClearAndReassert \/ Restart

\* A link is lost or not yet used, or seen is cleared.
LEMMA LinkEffect ==
    ASSUME LinkStep
    PROVE  \/ /\ link' = "down"
              /\ \A b \in Beacons : \/ broker'[b]["config"] = broker[b]["config"]
                                    \/ broker'[b]["config"] = None
              /\ UNCHANGED <<work, seen, declared, forgot>>
           \/ /\ link = "down" /\ link' = "fresh"
              /\ UNCHANGED <<work, seen, declared, broker, forgot>>
           \/ /\ clearSeen /\ broker' = broker
              /\ work' = work \/ work' = <<>>
<1>1. CASE \E wipe \in BOOLEAN : LoseConnection(wipe)
  BY <1>1 DEF LoseConnection, Topics
<1>2. CASE Reconnect
  BY <1>2 DEF Reconnect, runVars
<1>3. CASE OnConnect \/ ClearAndReassert \/ Restart
  BY <1>3 DEF OnConnect, ClearAndReassert, Restart
<1> QED
  BY <1>1, <1>2, <1>3 DEF LinkStep

\* Every step is of one of these kinds.
LEMMA Kinds ==
    ASSUME [Next]_vars
    PROVE  UNCHANGED vars \/ Elsewhere \/ LinkStep \/ Receive \/ PublishOne \/ MarkSeen
BY DEF Next, RunStep, Elsewhere, LinkStep

\* At boot nothing is seen and nothing is on its way.
LEMMA RunInit == Init => RunInv
<1> SUFFICES ASSUME Init PROVE RunInv
  OBVIOUS
<1>1. work = <<>> /\ seen = {}
  BY DEF Init
<1>2. \A b, s, v : /\ work # MarkWork(b, s, v) /\ work # ConfigWork(b, s, v)
                   /\ work # RemoveWork(b)
  BY <1>1, WorkHead
<1> QED
  BY <1>1, <1>2 DEF RunInv, SeenIsAsserted, MarkAsserted, ConfigGrows, RemovalForgotten

\* Run takes an item: a removal is forgotten first, a config has what was
\* declared.
LEMMA RunReceive == ASSUME Shape, RunInv, Receive PROVE RunInv'
<1>1. UNCHANGED <<broker, link>>
  BY DEF Receive, linkVars
<1>2. CASE \E b \in Beacons :
              /\ work' = RemoveWork(b) /\ seen' = seen \ {b}
              /\ declared' = [declared EXCEPT ![b] = {}] /\ raced' = raced \ {b}
  <2>1. PICK b \in Beacons :
              /\ work' = RemoveWork(b) /\ seen' = seen \ {b}
              /\ declared' = [declared EXCEPT ![b] = {}] /\ raced' = raced \ {b}
    BY <1>2
  <2>2. /\ \A c, s, v : work' # MarkWork(c, s, v) /\ work' # ConfigWork(c, s, v)
        /\ \A c : work' = RemoveWork(c) => c = b
    BY <2>1, WorkUnique
  <2>3. \A c \in seen' \ raced' : c \in seen \ raced /\ c \in Beacons /\ c # b
    BY <2>1 DEF Shape, SeenOK
  <2>4. \A c \in seen' \ raced' : declared'[c] = declared[c]
    BY <2>1, <2>3 DEF Shape, SeenOK
  <2>5. SeenIsAsserted'
    BY <1>1, <2>3, <2>4 DEF RunInv, SeenIsAsserted
  <2> QED
    BY <2>1, <2>2, <2>5 DEF RunInv, MarkAsserted, ConfigGrows, RemovalForgotten
<1>3. CASE \E b \in Beacons, s \in SUBSET Sensors, v \in Nat :
              /\ UNCHANGED <<seen, declared, raced>>
              /\ \/ work' = ConfigWork(b, s, v) /\ declared[b] \subseteq s
                 \/ work' = StateWork(b, v)
  <2>1. PICK b \in Beacons, s \in SUBSET Sensors, v \in Nat :
              /\ UNCHANGED <<seen, declared, raced>>
              /\ \/ work' = ConfigWork(b, s, v) /\ declared[b] \subseteq s
                 \/ work' = StateWork(b, v)
    BY <1>3
  <2>2. /\ \A c, u, w : work' # MarkWork(c, u, w) /\ work' # RemoveWork(c)
        /\ \A c, u, w : work' = ConfigWork(c, u, w) => c = b /\ u = s /\ declared[b] \subseteq s
    BY <2>1, WorkUnique
  <2>3. SeenIsAsserted'
    BY <1>1, <2>1 DEF RunInv, SeenIsAsserted
  <2>4. MarkAsserted' /\ RemovalForgotten'
    BY <2>2 DEF MarkAsserted, RemovalForgotten
  <2>5. ConfigGrows'
    BY <2>1, <2>2 DEF ConfigGrows
  <2> QED
    BY <2>3, <2>4, <2>5 DEF RunInv
<1> QED
  BY <1>2, <1>3, ReceiveEffect

\* A config that reaches the broker has every declared sensor; a state leaves
\* the config alone; a removal's entity is no longer seen.
LEMMA RunPublish == ASSUME Shape, RunInv, PublishOne PROVE RunInv'
<1>1. UNCHANGED <<seen, declared, raced, cleared, link>>
  BY DEF PublishOne, linkVars
<1>2. "config" \in Topics /\ "state" \in Topics
  BY DEF Topics
<1>3. CASE \E b \in Beacons, s \in SUBSET Sensors, v \in Nat :
              /\ work = ConfigWork(b, s, v) /\ work' = MarkWork(b, s, v)
              /\ Stores(b, "config", s)
  <2>1. PICK b \in Beacons, s \in SUBSET Sensors, v \in Nat :
              /\ work = ConfigWork(b, s, v) /\ work' = MarkWork(b, s, v)
              /\ Stores(b, "config", s)
    BY <1>3
  <2>2. declared[b] \subseteq s /\ s # None
    BY <2>1, NoneAssumption DEF RunInv, ConfigGrows
  <2>3. link = "up" => /\ broker'[b]["config"] = s
                       /\ \A c \in Beacons : c # b => broker'[c]["config"] = broker[c]["config"]
    BY <1>2, <2>1 DEF Stores
  <2>4. SeenIsAsserted'
    BY <1>1, <2>2, <2>3 DEF RunInv, SeenIsAsserted, Shape, SeenOK
  <2>5. /\ \A c, u, w : work' # ConfigWork(c, u, w) /\ work' # RemoveWork(c)
        /\ \A c, u, w : work' = MarkWork(c, u, w) => c = b /\ u = s
    BY <2>1, WorkUnique
  <2>6. MarkAsserted'
    BY <1>1, <2>2, <2>3, <2>5 DEF MarkAsserted, Asserts
  <2> QED
    BY <2>4, <2>5, <2>6 DEF RunInv, ConfigGrows, RemovalForgotten
<1>4. CASE \E b \in Beacons, v \in Nat \cup {None} :
              /\ work = StateWork(b, v) /\ work' = <<>>
              /\ Stores(b, "state", v)
  <2>1. PICK b \in Beacons, v \in Nat \cup {None} : work' = <<>> /\ Stores(b, "state", v)
    BY <1>4
  <2>2. \A c \in Beacons : broker'[c]["config"] = broker[c]["config"]
    BY <1>2, <2>1 DEF Stores
  <2>3. SeenIsAsserted'
    BY <1>1, <2>2 DEF RunInv, SeenIsAsserted, Shape, SeenOK
  <2>4. \A c, s, w : /\ work' # MarkWork(c, s, w) /\ work' # ConfigWork(c, s, w)
                     /\ work' # RemoveWork(c)
    BY <2>1, WorkHead
  <2> QED
    BY <2>3, <2>4 DEF RunInv, MarkAsserted, ConfigGrows, RemovalForgotten
<1>5. CASE \E b \in Beacons :
              /\ work = RemoveWork(b) /\ work' = StateWork(b, None)
              /\ Stores(b, "config", None)
  <2>1. PICK b \in Beacons :
              /\ work = RemoveWork(b) /\ work' = StateWork(b, None)
              /\ Stores(b, "config", None)
    BY <1>5
  <2>2. b \notin seen
    BY <2>1 DEF RunInv, RemovalForgotten
  <2>3. \A c \in Beacons : c # b => broker'[c]["config"] = broker[c]["config"]
    BY <1>2, <2>1 DEF Stores
  <2>4. SeenIsAsserted'
    BY <1>1, <2>2, <2>3 DEF RunInv, SeenIsAsserted, Shape, SeenOK
  <2>5. \A c, s, w : /\ work' # MarkWork(c, s, w) /\ work' # ConfigWork(c, s, w)
                     /\ work' # RemoveWork(c)
    BY <2>1, WorkUnique
  <2> QED
    BY <2>4, <2>5 DEF RunInv, MarkAsserted, ConfigGrows, RemovalForgotten
<1> QED
  BY <1>3, <1>4, <1>5, PublishEffect

\* An entity is marked after its config arrived, or else it raced a clear.
LEMMA RunMark == ASSUME Shape, RunInv, MarkSeen PROVE RunInv'
<1>1. UNCHANGED <<broker, cleared, link>>
  BY DEF MarkSeen, linkVars
<1>2. PICK b \in Beacons, s \in SUBSET Sensors, v \in Nat :
              /\ work = MarkWork(b, s, v) /\ work' = StateWork(b, v)
              /\ seen' = seen \cup {b}
              /\ declared' = [declared EXCEPT ![b] = s]
              /\ cleared => raced' = raced \cup {b}
              /\ ~cleared => raced' = raced \ {b}
  BY MarkEffect
<1>3. \A c, u, w : /\ work' # MarkWork(c, u, w) /\ work' # ConfigWork(c, u, w)
                   /\ work' # RemoveWork(c)
  BY <1>2, WorkUnique
<1>4. \A c \in seen' \ raced' : (c = b /\ ~cleared) \/ (c \in seen \ raced /\ c # b)
  BY <1>2
<1>5. \A c \in seen' : c \in Beacons /\ declared'[c] = IF c = b THEN s ELSE declared[c]
  BY <1>2 DEF Shape, SeenOK
<1>6. link = "up" /\ ~cleared => Asserts(b, s)
  BY <1>2 DEF RunInv, MarkAsserted
<1>7. SeenIsAsserted'
  BY <1>1, <1>4, <1>5, <1>6 DEF RunInv, SeenIsAsserted, Asserts
<1> QED
  BY <1>3, <1>7 DEF RunInv, MarkAsserted, ConfigGrows, RemovalForgotten

\* A link that is up again comes with an empty seen.
LEMMA RunLink == ASSUME Shape, RunInv, LinkStep PROVE RunInv'
<1>1. CASE link' \in {"down", "fresh"} /\ UNCHANGED <<work, seen, declared>>
  BY <1>1 DEF RunInv, SeenIsAsserted, MarkAsserted, ConfigGrows, RemovalForgotten
<1>2. CASE clearSeen /\ (work' = work \/ work' = <<>>)
  <2>1. /\ seen' = {} /\ cleared' /\ declared' = [b \in Beacons |-> {}]
    BY <1>2 DEF clearSeen
  <2> QED
    BY <2>1 DEF RunInv, SeenIsAsserted, MarkAsserted, ConfigGrows, RemovalForgotten
<1> QED
  BY <1>1, <1>2, LinkEffect

\* Every step keeps what Run believes true of the broker.
LEMMA RunInvStep == Shape /\ RunInv /\ [Next]_vars => RunInv'
<1> SUFFICES ASSUME Shape, RunInv, [Next]_vars PROVE RunInv'
  OBVIOUS
<1>1. CASE UNCHANGED <<runVars, link>>
  BY <1>1 DEF RunInv, SeenIsAsserted, MarkAsserted, ConfigGrows, RemovalForgotten, Asserts,
              runVars
<1>2. UNCHANGED vars => UNCHANGED <<runVars, link>>
  BY DEF vars, runVars, linkVars
<1> QED
  BY <1>1, <1>2, Kinds, ElsewhereEffect, RunReceive, RunPublish, RunMark, RunLink

\* While the link is up, an entity Run has marked has a retained config with
\* every declared sensor, unless its mark overtook a clearSeen: through every
\* outage, restart, birth, removal and re-declaration.
THEOREM SeenAlwaysAsserted == Spec => []SeenIsAsserted
<1>1. RunInv => SeenIsAsserted
  BY DEF RunInv
<1> QED
  BY <1>1, ShapeInit, ShapeStep, RunInit, RunInvStep, PTL DEF Spec

-----------------------------------------------------------------------------
(* Orphans stay visible.                                                   *)

\* Run works on the entity of its list.
LEMMA WorkingOn ==
    ASSUME NEW b, NEW s, NEW v, NEW c
    PROVE  /\ work = ConfigWork(b, s, v) \/ work = MarkWork(b, s, v) \/ work = StateWork(b, v)
                \/ work = RemoveWork(b) => (Working(c) <=> c = b)
           /\ work = <<>> => ~Working(c)
<1>1. /\ Put(b, "config", s).beacon = b /\ Mark(b, s).beacon = b
      /\ Put(b, "state", v).beacon = b /\ Put(b, "config", None).beacon = b
  BY DEF Put, Mark
<1>2. CASE work = ConfigWork(b, s, v)
  BY <1>1, <1>2, WorkHead DEF Working
<1>3. CASE work = MarkWork(b, s, v)
  BY <1>1, <1>3, WorkHead DEF Working
<1>4. CASE work = StateWork(b, v)
  BY <1>1, <1>4, WorkHead DEF Working
<1>5. CASE work = RemoveWork(b)
  BY <1>1, <1>5, WorkHead DEF Working
<1> QED
  BY <1>2, <1>3, <1>4, <1>5, WorkHead DEF Working

\* The same after a step.
LEMMA WorkingOnNext ==
    ASSUME NEW b, NEW s, NEW v
    PROVE  /\ work' = ConfigWork(b, s, v) => Working(b)'
           /\ work' = MarkWork(b, s, v) => Working(b)'
           /\ work' = RemoveWork(b) => Working(b)'
<1>1. /\ Put(b, "config", s).beacon = b /\ Mark(b, s).beacon = b
      /\ Put(b, "config", None).beacon = b
  BY DEF Put, Mark
<1>2. CASE work' = ConfigWork(b, s, v)
  BY <1>1, <1>2, WorkHead, WorkUnique DEF Working
<1>3. CASE work' = MarkWork(b, s, v)
  BY <1>1, <1>3, WorkHead, WorkUnique DEF Working
<1>4. CASE work' = RemoveWork(b)
  BY <1>1, <1>4, WorkHead, WorkUnique DEF Working
<1> QED
  BY <1>2, <1>3, <1>4

\* At boot no topic is retained.
LEMMA OrphanInit == Init => OrphanInv
<1> SUFFICES ASSUME Init PROVE OrphanInv
  OBVIOUS
<1>1. \A b \in Beacons : broker[b] = [t \in Topics |-> None]
  BY DEF Init
<1>2. \A b \in Beacons : broker[b]["config"] = None
  BY <1>1 DEF Topics
<1> QED
  BY <1>2 DEF OrphanInv, OrphansVisible, LeftSeen

\* Run takes an item of b: it works on it, or b is seen.
LEMMA OrphanReceive == ASSUME Shape, OrphanInv, Receive PROVE OrphanInv'
<1>1. UNCHANGED <<broker, forgot>>
  BY DEF Receive
<1>2. \A c \in Beacons \ forgot : broker[c]["config"] # None => c \in seen
  BY ReceiveEffect, WorkingOn DEF OrphanInv, OrphansVisible
<1>3. CASE \E b \in Beacons : work' = RemoveWork(b) /\ seen' = seen \ {b}
  <2>1. PICK b \in Beacons : work' = RemoveWork(b) /\ seen' = seen \ {b}
    BY <1>3
  <2>2. Working(b)' /\ \A c, v : work' # StateWork(c, v)
    BY <2>1, WorkUnique, WorkingOnNext
  <2>3. OrphansVisible'
    BY <1>1, <1>2, <2>1, <2>2 DEF OrphansVisible
  <2> QED
    BY <2>2, <2>3 DEF OrphanInv, LeftSeen
<1>4. CASE \E b \in Beacons, s \in SUBSET Sensors, v \in Nat :
              /\ UNCHANGED <<seen, declared, raced>>
              /\ \/ work' = ConfigWork(b, s, v) /\ declared[b] \subseteq s
                 \/ work' = StateWork(b, v) /\ b \in seen
  BY <1>1, <1>2, <1>4 DEF OrphanInv, OrphansVisible, LeftSeen
<1> QED
  BY <1>3, <1>4, ReceiveEffect

\* A config is on its way with its mark; a removal's config is gone, or the link
\* is down and its entity forgotten.
LEMMA OrphanPublish == ASSUME Shape, OrphanInv, PublishOne PROVE OrphanInv'
<1>1. seen' = seen
  BY DEF PublishOne
<1>2. "config" \in Topics /\ "state" \in Topics
  BY DEF Topics
<1>3. \A c \in Beacons \ forgot : broker[c]["config"] # None => c \in seen \/ Working(c)
  BY DEF OrphanInv, OrphansVisible
<1>4. CASE \E b \in Beacons, s \in SUBSET Sensors, v \in Nat :
              /\ work = ConfigWork(b, s, v) /\ work' = MarkWork(b, s, v)
              /\ Stores(b, "config", s)
  <2>1. PICK b \in Beacons, s \in SUBSET Sensors, v \in Nat :
              /\ work = ConfigWork(b, s, v) /\ work' = MarkWork(b, s, v)
              /\ Stores(b, "config", s)
    BY <1>4
  <2>2. /\ Working(b)' /\ \A c : Working(c) => c = b
        /\ \A c, w : work' # StateWork(c, w)
    BY <2>1, WorkingOn, WorkingOnNext, WorkUnique
  <2>3. \A c \in Beacons : c # b => broker'[c]["config"] = broker[c]["config"]
    BY <1>2, <2>1 DEF Stores
  <2>4. Forgets(b, s)
    BY <2>1, PublishForgets
  <2>5. \A c \in Beacons \ forgot' : c # b => c \notin forgot
    BY <2>4 DEF Forgets
  <2>6. OrphansVisible'
    BY <1>1, <1>3, <2>2, <2>3, <2>5 DEF OrphansVisible
  <2> QED
    BY <2>2, <2>6 DEF OrphanInv, LeftSeen
<1>5. CASE \E b \in Beacons, v \in Nat \cup {None} :
              /\ work = StateWork(b, v) /\ work' = <<>>
              /\ Stores(b, "state", v)
  <2>1. PICK b \in Beacons, v \in Nat \cup {None} :
              /\ work = StateWork(b, v) /\ work' = <<>>
              /\ Stores(b, "state", v)
    BY <1>5
  <2>2. \A c : Working(c) => c = b
    BY <2>1, WorkingOn
  <2>3. forgot' = forgot
    BY <2>1, PublishForgets
  <2>4. b \notin forgot /\ broker[b]["config"] # None => b \in seen
    BY <2>1 DEF OrphanInv, LeftSeen
  <2>5. \A c \in Beacons : broker'[c]["config"] = broker[c]["config"]
    BY <1>2, <2>1 DEF Stores
  <2>6. OrphansVisible'
    BY <1>1, <1>3, <2>2, <2>3, <2>4, <2>5 DEF OrphansVisible
  <2>7. \A c, w : work' # StateWork(c, w)
    BY <2>1, WorkHead
  <2> QED
    BY <2>6, <2>7 DEF OrphanInv, LeftSeen
<1>6. CASE \E b \in Beacons :
              /\ work = RemoveWork(b) /\ work' = StateWork(b, None)
              /\ Stores(b, "config", None)
  <2>1. PICK b \in Beacons :
              /\ work = RemoveWork(b) /\ work' = StateWork(b, None)
              /\ Stores(b, "config", None)
    BY <1>6
  <2>2. /\ \A c : Working(c) => c = b
        /\ \A c, w : work' = StateWork(c, w) => c = b
    BY <2>1, WorkingOn, WorkUnique
  <2>3. Forgets(b, None)
    BY <2>1, PublishForgets
  <2>4. b \in forgot' \/ broker'[b]["config"] = None
    BY <1>2, <2>1, <2>3 DEF Stores, Forgets
  <2>5. \A c \in Beacons \ forgot' :
           c # b => c \notin forgot /\ broker'[c]["config"] = broker[c]["config"]
    BY <1>2, <2>1, <2>3 DEF Stores, Forgets
  <2>6. OrphansVisible'
    BY <1>1, <1>3, <2>2, <2>4, <2>5 DEF OrphansVisible
  <2> QED
    BY <2>2, <2>4, <2>6 DEF OrphanInv, LeftSeen
<1> QED
  BY <1>4, <1>5, <1>6, PublishEffect

\* The entity Run works on becomes seen.
LEMMA OrphanMark == ASSUME Shape, OrphanInv, MarkSeen PROVE OrphanInv'
<1>1. UNCHANGED <<broker, forgot>>
  BY DEF MarkSeen
<1>2. PICK b \in Beacons, s \in SUBSET Sensors, v \in Nat :
              /\ work = MarkWork(b, s, v) /\ work' = StateWork(b, v)
              /\ seen' = seen \cup {b}
  BY MarkEffect
<1>3. /\ \A c : Working(c) => c = b
      /\ \A c, w : work' = StateWork(c, w) => c = b
  BY <1>2, WorkingOn, WorkUnique
<1>4. \A c \in Beacons \ forgot : broker[c]["config"] # None => c \in seen \/ Working(c)
  BY DEF OrphanInv, OrphansVisible
<1> QED
  BY <1>1, <1>2, <1>3, <1>4 DEF OrphanInv, OrphansVisible, LeftSeen

\* An outage leaves or wipes the topics; a clearSeen forgets what is retained.
LEMMA OrphanLink == ASSUME Shape, OrphanInv, LinkStep PROVE OrphanInv'
<1>1. CASE /\ \A b \in Beacons : \/ broker'[b]["config"] = broker[b]["config"]
                                 \/ broker'[b]["config"] = None
           /\ UNCHANGED <<work, seen, forgot>>
  BY <1>1 DEF OrphanInv, OrphansVisible, LeftSeen, Working
<1>2. CASE clearSeen /\ broker' = broker
  <2>1. \A b \in Beacons \ forgot' : broker'[b]["config"] = None
    BY <1>2, ClearedOK
  <2> QED
    BY <2>1 DEF OrphanInv, OrphansVisible, LeftSeen
<1> QED
  BY <1>1, <1>2, LinkEffect

\* Every step keeps the orphans visible.
LEMMA OrphanStep == Shape /\ OrphanInv /\ [Next]_vars => OrphanInv'
<1> SUFFICES ASSUME Shape, OrphanInv, [Next]_vars PROVE OrphanInv'
  OBVIOUS
<1>1. CASE UNCHANGED <<runVars, link>>
  BY <1>1 DEF OrphanInv, OrphansVisible, LeftSeen, Working, runVars
<1>2. UNCHANGED vars => UNCHANGED <<runVars, link>>
  BY DEF vars, runVars, linkVars
<1> QED
  BY <1>1, <1>2, Kinds, ElsewhereEffect, OrphanReceive, OrphanPublish, OrphanMark, OrphanLink

\* RepublishOrphans finds every entity the broker retains that this process has
\* declared since seen was last cleared, wherever a remove was dropped: through
\* outages, births, resyncs and restarts.
THEOREM OrphansAlwaysVisible == Spec => []OrphansVisible
<1>1. OrphanInv => OrphansVisible
  BY DEF OrphanInv
<1> QED
  BY <1>1, ShapeInit, ShapeStep, OrphanInit, OrphanStep, PTL DEF Spec

-----------------------------------------------------------------------------
(* The flow of states: every step moves them one place down, or drops them. *)

\* What a list of Run is about to publish.
LEMMA DueOf ==
    ASSUME NEW b, NEW s \in SUBSET Sensors, NEW v, NEW c, NEW n
    PROVE  /\ ~Due(<<>>, c, n) /\ ~Due(RemoveWork(b), c, n)
           /\ Due(ConfigWork(b, s, v), c, n) <=> c = b /\ n = v
           /\ Due(MarkWork(b, s, v), c, n) <=> c = b /\ n = v
           /\ Due(StateWork(b, v), c, n) <=> c = b /\ n = v
<1>1. ~Due(<<>>, c, n)
  BY WorkHead DEF Due
<1>2. ~Due(RemoveWork(b), c, n)
  BY WorkUnique DEF Due
<1>3. Due(ConfigWork(b, s, v), c, n) <=> c = b /\ n = v
  BY WorkUnique DEF Due
<1>4. Due(MarkWork(b, s, v), c, n) <=> c = b /\ n = v
  BY WorkUnique DEF Due
<1>5. Due(StateWork(b, v), c, n) <=> c = b /\ n = v
  BY WorkUnique DEF Due
<1> QED
  BY <1>1, <1>2, <1>3, <1>4, <1>5

\* A channel keeps its items, or loses its head or all of them.
Shrinks(q, r) == r = q \/ r = <<>> \/ (q # <<>> /\ r = Tail(q))

\* An item the engine has just emitted.
Current(x) == x.ver = ver'[x.beacon]

\* An event that the pump brings, from the channel or from its pending call.
Pumped(x) ==
    x.kind = "event" =>
        /\ caller'["pump"] = Idle
        /\ \/ events # <<>> /\ x = events[1]
           \/ caller["pump"] # Idle /\ x = caller["pump"].item

VerMove == \A b \in Beacons : ver[b] <= ver'[b]
EventsMove ==
    Shrinks(events, events') \/ \E x \in EventItems : events' = Append(events, x) /\ Current(x)
PumpMove ==
    \/ caller'["pump"] = Idle
    \/ caller["pump"] # Idle /\ caller'["pump"].item = caller["pump"].item
    \/ events # <<>> /\ caller'["pump"].item = events[1]
QueueMove ==
    Shrinks(queue, queue') \/ \E x \in Items : queue' = Append(queue, x) /\ Pumped(x)
WorkMove ==
    \A b \in Beacons, v \in Nat : Due(work', b, v) /\ v # None =>
        \/ Due(work, b, v)
        \/ /\ queue # <<>> /\ queue[1].kind = "event"
           /\ queue[1].beacon = b /\ queue[1].ver = v
BrokerMove ==
    \A b \in Beacons :
        \/ broker'[b]["state"] = broker[b]["state"]
        \/ broker'[b]["state"] = None
        \/ Due(work, b, broker'[b]["state"]) /\ work' = <<>>

Flow == VerMove /\ EventsMove /\ PumpMove /\ QueueMove /\ WorkMove /\ BrokerMove

\* Versions that stay do not go back.
LEMMA VerStays == ASSUME EngineOK, ver' = ver PROVE VerMove
<1>1. \A b \in Beacons : ver[b] \in Nat
  BY DEF EngineOK
<1> QED
  BY <1>1 DEF VerMove

\* Run and the broker's topics stay.
LEMMA RunStays == ASSUME work' = work, broker' = broker PROVE WorkMove /\ BrokerMove
BY DEF WorkMove, BrokerMove

\* The pump's call and the queue stay.
LEMMA QueueStays == ASSUME caller' = caller, queue' = queue PROVE PumpMove /\ QueueMove
<1>1. PumpMove
  BY DEF PumpMove
<1>2. QueueMove
  BY DEF QueueMove, Shrinks
<1> QED
  BY <1>1, <1>2

\* The engine's steps emit its current version.
LEMMA FlowEngine ==
    ASSUME Shape, 
           \/ \E b \in Beacons, sensors \in SUBSET Sensors : ChangeState(b, sensors)
           \/ Reassert \/ TelemetryTick \/ \E b \in Beacons : EmitNext(b)
    PROVE  Flow
<1>1. EngineOK /\ ver \in [Beacons -> Nat] /\ tlm \in [Beacons -> SUBSET Sensors]
  BY DEF Shape, EngineOK
<1>2. UNCHANGED <<queueVars, runVars>>
  BY DEF ChangeState, Reassert, TelemetryTick, EmitNext
<1>3. PumpMove /\ QueueMove /\ WorkMove /\ BrokerMove
  BY <1>2, QueueStays, RunStays DEF queueVars, runVars
<1>4. SUFFICES VerMove /\ EventsMove
  BY <1>3 DEF Flow
<1>5. ASSUME NEW ev \in EventItems, emit(ev), Current(ev) PROVE EventsMove
  <2>1. Emitted(ev)
    BY <1>5, EmitEffect
  <2> QED
    BY <1>5, <2>1 DEF Emitted, EventsMove, Shrinks
<1>6. ASSUME NEW b \in Beacons, NEW sensors \in SUBSET Sensors, ChangeState(b, sensors)
      PROVE  VerMove /\ EventsMove
  <2> DEFINE ev == [kind |-> "event", beacon |-> b, ver |-> ver'[b], tlm |-> tlm'[b]]
  <2>1. /\ ver' = [ver EXCEPT ![b] = ver[b] + 1]
        /\ tlm' = [tlm EXCEPT ![b] = tlm[b] \cup sensors] /\ emit(ev)
    BY <1>6 DEF ChangeState
  <2>2. ver' \in [Beacons -> Nat] /\ tlm' \in [Beacons -> SUBSET Sensors]
    BY <1>1, <2>1
  <2>3. ev \in EventItems /\ Current(ev)
    BY <2>2, ItemsMade DEF Current
  <2>4. VerMove
    BY <1>1, <2>1 DEF VerMove
  <2> HIDE DEF ev
  <2> QED
    BY <1>5, <2>1, <2>3, <2>4
<1>7. CASE Reassert \/ TelemetryTick
  <2>1. ver' = ver /\ events' = events
    BY <1>7 DEF Reassert, TelemetryTick, engineVars
  <2> QED
    BY <1>1, <2>1, VerStays DEF EventsMove, Shrinks
<1>8. ASSUME NEW b \in Beacons, EmitNext(b) PROVE VerMove /\ EventsMove
  <2>1. emit(Event(b)) /\ ver' = ver
    BY <1>8 DEF EmitNext, engineVars
  <2>2. Event(b) \in EventItems /\ Current(Event(b))
    BY <1>1, <2>1, ItemsMade DEF Event, Current
  <2> QED
    BY <1>1, <1>5, <2>1, <2>2, VerStays
<1> QED
  BY <1>6, <1>7, <1>8

\* The pump takes the oldest event; the selects of enqueue move its item on.
LEMMA FlowQueue ==
    ASSUME Shape,
           \/ Pump \/ \E c \in Callers : EnqueueStep(c)
           \/ \E q \in Requests, b \in Beacons : AdminRemove(q, b)
    PROVE  Flow
<1>1. EngineOK /\ ChannelsOK /\ CallersOK
  BY DEF Shape
<1>2. UNCHANGED <<engineVars, runVars>>
  BY DEF Pump, EnqueueStep, EvictOldest, RetryEnqueue, AdminRemove
<1>3. VerMove /\ WorkMove /\ BrokerMove
  BY <1>1, <1>2, VerStays, RunStays DEF engineVars, runVars
<1>4. SUFFICES EventsMove /\ PumpMove /\ QueueMove
  BY <1>3 DEF Flow
<1>5. events' = events => EventsMove
  BY DEF EventsMove, Shrinks
<1>6. ASSUME NEW q \in Requests, NEW x \in Items, Offered(q, x), x.kind # "event"
      PROVE  PumpMove /\ QueueMove
  <2>1. caller'["pump"] = caller["pump"]
    BY <1>1, <1>6, RequestsAssumption DEF Offered, CallersOK, Callers
  <2>2. PumpMove
    BY <2>1 DEF PumpMove
  <2>3. QueueMove
    BY <1>6 DEF QueueMove, Offered, Shrinks, Pumped
  <2> QED
    BY <2>2, <2>3
<1>7. CASE Pump
  <2>1. /\ events # <<>> /\ enqueue("pump", Head(events)) /\ events' = Tail(events)
        /\ caller["pump"] = Idle
    BY <1>7 DEF Pump
  <2>2. events[1] = Head(events) /\ Head(events) \in Items
    BY <1>1, <2>1, Taken DEF ChannelsOK, EventItems
  <2>3. Offered("pump", events[1])
    BY <2>1, <2>2, EnqueueEffect
  <2>4. EventsMove
    BY <2>1 DEF EventsMove, Shrinks
  <2>5. CASE queue' = Append(queue, events[1]) /\ caller' = caller
    <3>1. PumpMove
      BY <2>5 DEF PumpMove
    <3>2. Pumped(events[1])
      BY <2>1, <2>5 DEF Pumped
    <3> QED
      BY <2>2, <2>4, <2>5, <3>1, <3>2 DEF QueueMove
  <2>6. CASE /\ caller' = [caller EXCEPT !["pump"] = [pc |-> "evict", item |-> events[1]]]
             /\ queue' = queue
    <3>1. caller'["pump"].item = events[1]
      BY <1>1, <2>6 DEF CallersOK, Callers
    <3>2. PumpMove
      BY <2>1, <3>1 DEF PumpMove
    <3> QED
      BY <2>4, <2>6, <3>2 DEF QueueMove, Shrinks
  <2> QED
    BY <2>3, <2>5, <2>6 DEF Offered
<1>8. ASSUME NEW q \in Requests, NEW b \in Beacons, AdminRemove(q, b)
      PROVE  EventsMove /\ PumpMove /\ QueueMove
  <2>1. enqueue(q, Removal(b)) /\ events' = events
    BY <1>8 DEF AdminRemove
  <2>2. Removal(b) \in Items /\ Removal(b).kind # "event"
    BY ItemsMade DEF Removal, Items
  <2>3. Offered(q, Removal(b))
    BY <2>1, EnqueueEffect
  <2> QED
    BY <1>5, <1>6, <2>1, <2>2, <2>3
<1>9. ASSUME NEW c \in Callers, EvictOldest(c) PROVE EventsMove /\ PumpMove /\ QueueMove
  <2>1. /\ caller[c].pc = "evict" /\ caller' = [caller EXCEPT ![c].pc = "retry"]
        /\ queue' = IF queue = <<>> THEN queue ELSE Tail(queue)
        /\ events' = events
    BY <1>9 DEF EvictOldest, Goto
  <2>2. QueueMove
    BY <2>1 DEF QueueMove, Shrinks
  <2>3. PumpMove
    <3>1. /\ caller'[c] = [caller[c] EXCEPT !.pc = "retry"]
          /\ \A d \in Callers : d # c => caller'[d] = caller[d]
      BY <1>1, <2>1 DEF CallersOK
    <3>2. CASE c = "pump"
      <4>1. caller[c] # Idle
        BY <2>1 DEF Idle
      <4>2. caller[c] \in Holding(EventItems)
        BY <1>1, <3>2, <4>1 DEF CallersOK
      <4>3. caller'[c].item = caller[c].item
        BY <3>1, <4>2 DEF Holding
      <4> QED
        BY <3>2, <4>1, <4>3 DEF PumpMove
    <3>3. CASE c # "pump"
      BY <3>1, <3>3 DEF PumpMove, Callers
    <3> QED
      BY <3>2, <3>3
  <2> QED
    BY <1>5, <2>1, <2>2, <2>3
<1>10. ASSUME NEW c \in Callers, RetryEnqueue(c) PROVE EventsMove /\ PumpMove /\ QueueMove
  <2>1. /\ caller[c].pc = "retry" /\ caller' = [caller EXCEPT ![c] = Idle]
        /\ queue' = IF Len(queue) < QueueCap THEN Append(queue, caller[c].item) ELSE queue
        /\ events' = events
    BY <1>10 DEF RetryEnqueue, Return
  <2>2. caller[c] # Idle
    BY <2>1 DEF Idle
  <2>3. /\ caller'[c] = Idle
        /\ \A d \in Callers : d # c => caller'[d] = caller[d]
    BY <1>1, <2>1 DEF CallersOK
  <2>4. PumpMove
    BY <2>3 DEF PumpMove, Callers
  <2>5. caller[c].item \in Items /\ Pumped(caller[c].item)
    <3>1. CASE c = "pump"
      <4>1. caller[c].item \in Items
        BY <1>1, <2>2, <3>1 DEF CallersOK, Holding, EventItems
      <4> QED
        BY <2>2, <2>3, <3>1, <4>1 DEF Pumped
    <3>2. CASE c \in Requests
      <4>1. caller[c].item \in Items /\ caller[c].item.kind = "remove"
        BY <1>1, <2>2, <3>2 DEF CallersOK, Holding, RemoveItems
      <4> QED
        BY <4>1 DEF Pumped
    <3> QED
      BY <3>1, <3>2 DEF Callers
  <2>6. QueueMove
    <3>1. queue' = queue \/ queue' = Append(queue, caller[c].item)
      BY <2>1
    <3> QED
      BY <2>5, <3>1 DEF QueueMove, Shrinks
  <2> QED
    BY <1>5, <2>1, <2>4, <2>6
<1> QED
  BY <1>7, <1>8, <1>9, <1>10 DEF EnqueueStep

\* An operator's request may start a beacon afresh.
LEMMA FlowAdmin ==
    ASSUME Shape,
           \/ \E b \in Beacons : Promote(b)
           \/ \E q \in Requests, b \in Beacons : Demote(q, b)
           \/ \E q \in Requests : RefreshEngine(q)
    PROVE  Flow
<1>1. EngineOK /\ ver \in [Beacons -> Nat]
  BY DEF Shape, EngineOK
<1>2. UNCHANGED <<events, caller, queue, runVars>>
  BY DEF Promote, Demote, RefreshEngine, queueVars
<1>3. EventsMove /\ PumpMove /\ QueueMove /\ WorkMove /\ BrokerMove
  BY <1>2, QueueStays, RunStays DEF EventsMove, Shrinks, runVars
<1>4. VerMove
  <2>1. ver' = ver \/ \E b \in Beacons : ver' = [ver EXCEPT ![b] = ver[b] + 1]
    BY DEF Promote, Demote, RefreshEngine, engineVars
  <2>2. ASSUME NEW b \in Beacons, ver' = [ver EXCEPT ![b] = ver[b] + 1] PROVE VerMove
    BY <1>1, <2>2 DEF VerMove
  <2> QED
    BY <1>1, <2>1, <2>2, VerStays
<1> QED
  BY <1>3, <1>4 DEF Flow

\* An outage may empty the topics, a restart empties everything on its way.
LEMMA FlowLink == ASSUME Shape, LinkStep PROVE Flow
<1>1. EngineOK /\ ver \in [Beacons -> Nat]
  BY DEF Shape, EngineOK
<1>2. CASE /\ UNCHANGED <<ver, events, caller, queue, work>>
           /\ broker' = broker \/ broker' = [b \in Beacons |-> [t \in Topics |-> None]]
  <2>1. BrokerMove
    <3>1. CASE broker' = broker
      BY <3>1 DEF BrokerMove
    <3>2. CASE broker' = [b \in Beacons |-> [t \in Topics |-> None]]
      <4>1. \A b \in Beacons : broker'[b]["state"] = None
        BY <3>2 DEF Topics
      <4> QED
        BY <4>1 DEF BrokerMove
    <3> QED
      BY <1>2, <3>1, <3>2
  <2>2. WorkMove /\ EventsMove
    BY <1>2 DEF WorkMove, EventsMove, Shrinks
  <2> QED
    BY <1>1, <1>2, <2>1, <2>2, VerStays, QueueStays DEF Flow
<1>3. CASE Restart
  <2>1. /\ ver' = [b \in Beacons |-> ver[b] + 1]
        /\ events' = <<>> /\ queue' = <<>> /\ work' = <<>> /\ broker' = broker
        /\ caller' = [c \in Callers |-> Idle]
    BY <1>3 DEF Restart
  <2>2. VerMove
    BY <1>1, <2>1 DEF VerMove
  <2>3. EventsMove /\ QueueMove /\ BrokerMove
    BY <2>1 DEF EventsMove, QueueMove, Shrinks, BrokerMove
  <2>4. PumpMove
    BY <2>1 DEF PumpMove, Callers
  <2>5. WorkMove
    <3>1. \A b, v : ~Due(work', b, v)
      BY <2>1, DueOf
    <3> QED
      BY <3>1 DEF WorkMove
  <2> QED
    BY <2>2, <2>3, <2>4, <2>5 DEF Flow
<1>4. CASE Reconnect \/ OnConnect \/ ClearAndReassert
  BY <1>2, <1>4 DEF Reconnect, OnConnect, ClearAndReassert, engineVars, queueVars, runVars
<1>5. ASSUME NEW wipe \in BOOLEAN, LoseConnection(wipe) PROVE Flow
  <2>1. /\ UNCHANGED <<ver, events, caller, queue, work>>
        /\ broker' = broker \/ broker' = [b \in Beacons |-> [t \in Topics |-> None]]
    BY <1>5 DEF LoseConnection, engineVars, queueVars
  <2> QED
    BY <1>2, <2>1
<1> QED
  BY <1>3, <1>4, <1>5 DEF LinkStep

\* Run takes the oldest item and publishes the state it carries.
LEMMA FlowRun == ASSUME Shape, RunStep PROVE Flow
<1>1. EngineOK /\ UNCHANGED <<ver, events, caller>>
  BY DEF Shape, RunStep, Receive, PublishOne, MarkSeen, engineVars, queueVars
<1>2. VerMove /\ EventsMove /\ PumpMove
  BY <1>1, VerStays DEF EventsMove, Shrinks, PumpMove
<1>3. SUFFICES QueueMove /\ WorkMove /\ BrokerMove
  BY <1>2 DEF Flow
<1>4. CASE Receive
  <2>1. broker' = broker
    BY <1>4 DEF Receive
  <2>2. queue # <<>> /\ queue' = Tail(queue)
    BY <1>4, ReceiveEffect
  <2>3. Head(queue) = queue[1]
    BY <2>2, Taken DEF Shape, ChannelsOK
  <2>4. WorkMove
    <3>1. CASE \E b \in Beacons : work' = RemoveWork(b)
      <4>1. \A c, n : ~Due(work', c, n)
        BY <3>1, DueOf, SMTT(30)
      <4> QED
        BY <4>1 DEF WorkMove
    <3>2. CASE \E b \in Beacons, s \in SUBSET Sensors, v \in Nat :
                  /\ Head(queue).kind = "event" /\ Head(queue).beacon = b
                  /\ Head(queue).ver = v
                  /\ work' = ConfigWork(b, s, v) \/ work' = StateWork(b, v)
      <4>1. PICK b \in Beacons, s \in SUBSET Sensors, v \in Nat :
                  /\ Head(queue).kind = "event" /\ Head(queue).beacon = b
                  /\ Head(queue).ver = v
                  /\ work' = ConfigWork(b, s, v) \/ work' = StateWork(b, v)
        BY <3>2
      <4>2. \A c, n : Due(work', c, n) => c = b /\ n = v
        <5>1. CASE work' = ConfigWork(b, s, v)
          BY <5>1, DueOf
        <5>2. CASE work' = StateWork(b, v)
          BY <5>2, DueOf, ZenonT(60)
        <5> QED
          BY <4>1, <5>1, <5>2
      <4> QED
        BY <2>2, <2>3, <4>1, <4>2 DEF WorkMove
    <3> QED
      BY <1>4, <3>1, <3>2, ReceiveEffect
  <2> QED
    BY <2>1, <2>2, <2>4 DEF QueueMove, Shrinks, BrokerMove
<1>5. CASE PublishOne
  <2>1. queue' = queue /\ "config" \in Topics /\ "state" \in Topics
    BY <1>5 DEF PublishOne, queueVars, Topics
  <2>2. QueueMove
    BY <2>1 DEF QueueMove, Shrinks
  <2>3. CASE \E b \in Beacons, s \in SUBSET Sensors, v \in Nat :
                /\ work = ConfigWork(b, s, v) /\ work' = MarkWork(b, s, v)
                /\ Stores(b, "config", s)
    <3>1. \A c \in Beacons : broker'[c]["state"] = broker[c]["state"]
      BY <2>1, <2>3 DEF Stores
    <3>2. \A c, n : Due(work', c, n) => Due(work, c, n)
      BY <2>3, DueOf
    <3> QED
      BY <2>2, <3>1, <3>2 DEF WorkMove, BrokerMove
  <2>4. CASE \E b \in Beacons, v \in Nat \cup {None} :
                /\ work = StateWork(b, v) /\ work' = <<>>
                /\ Stores(b, "state", v)
    <3>1. PICK b \in Beacons, v \in Nat \cup {None} :
                /\ work = StateWork(b, v) /\ work' = <<>>
                /\ Stores(b, "state", v)
      BY <2>4
    <3>2. Due(work, b, v) /\ \A c, n : ~Due(work', c, n)
      <4>1. Due(work, b, v)
        BY <3>1 DEF Due
      <4>2. \A c, n : ~Due(work', c, n)
        BY <3>1, WorkHead DEF Due
      <4> QED
        BY <4>1, <4>2
    <3>3. \A c \in Beacons : \/ broker'[c]["state"] = broker[c]["state"]
                             \/ c = b /\ broker'[c]["state"] = v
      BY <2>1, <3>1 DEF Stores
    <3>4. BrokerMove
      BY <3>1, <3>2, <3>3 DEF BrokerMove
    <3> QED
      BY <2>2, <3>2, <3>4 DEF WorkMove
  <2>5. CASE \E b \in Beacons :
                /\ work = RemoveWork(b) /\ work' = StateWork(b, None)
                /\ Stores(b, "config", None)
    <3>1. \A c \in Beacons : broker'[c]["state"] = broker[c]["state"]
      BY <2>1, <2>5 DEF Stores
    <3>2. \A c, n : Due(work', c, n) => n = None
      <4>1. PICK b \in Beacons : work' = StateWork(b, None)
        BY <2>5
      <4> QED
        BY <4>1, WorkUnique DEF Due
    <3> QED
      BY <2>2, <3>1, <3>2 DEF WorkMove, BrokerMove
  <2> QED
    BY <1>5, <2>3, <2>4, <2>5, PublishEffect
<1>6. CASE MarkSeen
  <2>1. queue' = queue /\ broker' = broker
    BY <1>6 DEF MarkSeen, queueVars
  <2>2. PICK b \in Beacons, s \in SUBSET Sensors, v \in Nat :
              work = MarkWork(b, s, v) /\ work' = StateWork(b, v)
    BY <1>6, MarkEffect
  <2>3. \A c, n : Due(work', c, n) => Due(work, c, n)
    BY <2>2, DueOf
  <2> QED
    BY <2>1, <2>3 DEF QueueMove, Shrinks, WorkMove, BrokerMove
<1> QED
  BY <1>4, <1>5, <1>6 DEF RunStep

\* Every step is a flow.
LEMMA FlowStep == ASSUME Shape, [Next]_vars PROVE Flow
<1>1. CASE UNCHANGED vars
  <2>1. UNCHANGED <<ver, events, caller, queue, work, broker>> /\ EngineOK
    BY <1>1 DEF vars, engineVars, queueVars, runVars, Shape
  <2> QED
    BY <2>1, VerStays, QueueStays, RunStays DEF Flow, EventsMove, Shrinks
<1> QED
  BY <1>1, FlowEngine, FlowQueue, FlowAdmin, FlowLink, FlowRun DEF Next, LinkStep

-----------------------------------------------------------------------------
(* Order along the flow.                                                   *)

\* A channel that loses items keeps the order of the others.
LEMMA ShrunkItems ==
    ASSUME NEW S, NEW q \in Seq(S), NEW r, Shrinks(q, r)
    PROVE  /\ \A k \in 1..Len(r) : \E j \in 1..Len(q) : r[k] = q[j]
           /\ Sorted(q) => Sorted(r)
<1>1. CASE r = q
  BY <1>1
<1>2. CASE r = <<>>
  <2>1. Len(r) = 0
    BY <1>2
  <2> QED
    BY <2>1 DEF Sorted
<1>3. CASE q # <<>> /\ r = Tail(q)
  <2>1. \A k \in 1..Len(r) : r[k] = q[k + 1] /\ k + 1 \in 1..Len(q)
    BY <1>3, Taken
  <2>2. ASSUME Sorted(q), NEW j \in 1..Len(r), NEW k \in 1..Len(r), j <= k,
               r[j].kind = "event" /\ r[k].kind = "event" /\ r[j].beacon = r[k].beacon
        PROVE  r[j].ver <= r[k].ver
    <3>1. j + 1 <= k + 1
      BY <2>2
    <3> QED
      BY <2>1, <2>2, <3>1 DEF Sorted
  <2>3. Sorted(q) => Sorted(r)
    BY <2>2 DEF Sorted
  <2> QED
    BY <2>1, <2>3
<1> QED
  BY <1>1, <1>2, <1>3 DEF Shrinks

\* A channel that gains the newest item stays in order.
LEMMA GrownItems ==
    ASSUME NEW q \in Seq(Items), NEW x \in Items, Sorted(q),
           \A k \in 1..Len(q) :
              q[k].kind = "event" /\ x.kind = "event" /\ q[k].beacon = x.beacon
                 => q[k].ver <= x.ver
    PROVE  Sorted(Append(q, x))
<1> DEFINE r == Append(q, x)
<1>1. /\ Len(q) \in Nat /\ Len(r) = Len(q) + 1
      /\ \A k \in 1..Len(q) : r[k] = q[k]
      /\ r[Len(q) + 1] = x
  BY Appended
<1> HIDE DEF r
<1>2. SUFFICES ASSUME NEW j \in 1..Len(r), NEW k \in 1..Len(r), j <= k,
                      r[j].kind = "event" /\ r[k].kind = "event" /\ r[j].beacon = r[k].beacon
               PROVE  r[j].ver <= r[k].ver
  BY DEF Sorted, r
<1>3. CASE k \in 1..Len(q)
  <2>1. j \in 1..Len(q)
    BY <1>2, <1>3
  <2> QED
    BY <1>1, <1>2, <1>3, <2>1 DEF Sorted
<1>4. CASE k = Len(q) + 1 /\ j \in 1..Len(q)
  BY <1>1, <1>2, <1>4
<1>5. CASE k = Len(q) + 1 /\ j = Len(q) + 1
  <2>1. x.ver \in Nat
    BY DEF Items
  <2> QED
    BY <1>1, <1>5, <2>1
<1>6. \A i \in 1..Len(r) : i \in 1..Len(q) \/ i = Len(q) + 1
  BY <1>1
<1>7. k = Len(q) + 1 => (j \in 1..Len(q) \/ j = Len(q) + 1)
  BY <1>6
<1> QED
  BY <1>3, <1>4, <1>5, <1>6, <1>7

\* Where an item of the channels after a step was before it.
LEMMA FlowItems ==
    ASSUME Shape, Flow
    PROVE  /\ \A k \in 1..Len(events') :
                 \/ \E j \in 1..Len(events) : events'[k] = events[j]
                 \/ Current(events'[k]) /\ events'[k] \in EventItems
           /\ \A k \in 1..Len(queue') :
                 \/ \E j \in 1..Len(queue) : queue'[k] = queue[j]
                 \/ Pumped(queue'[k])
<1>1. events \in Seq(EventItems) /\ queue \in Seq(Items) /\ EventsMove /\ QueueMove
  BY DEF Shape, ChannelsOK, Flow
<1>2. ASSUME NEW S, NEW q \in Seq(S), NEW x \in S, NEW k \in 1..Len(Append(q, x))
      PROVE  (\E j \in 1..Len(q) : Append(q, x)[k] = q[j]) \/ Append(q, x)[k] = x
  <2>1. /\ Len(q) \in Nat /\ Len(Append(q, x)) = Len(q) + 1
        /\ \A i \in 1..Len(q) : Append(q, x)[i] = q[i]
        /\ Append(q, x)[Len(q) + 1] = x
    BY Appended
  <2>2. k \in 1..Len(q) \/ k = Len(q) + 1
    BY <2>1
  <2> QED
    BY <2>1, <2>2
<1>3. ASSUME NEW k \in 1..Len(events')
      PROVE  \/ \E j \in 1..Len(events) : events'[k] = events[j]
             \/ Current(events'[k]) /\ events'[k] \in EventItems
  <2>1. CASE Shrinks(events, events')
    BY <1>1, <2>1, ShrunkItems
  <2>2. CASE \E x \in EventItems : events' = Append(events, x) /\ Current(x)
    BY <1>1, <1>2, <2>2
  <2> QED
    BY <1>1, <2>1, <2>2 DEF EventsMove
<1>4. ASSUME NEW k \in 1..Len(queue')
      PROVE  \/ \E j \in 1..Len(queue) : queue'[k] = queue[j]
             \/ Pumped(queue'[k])
  <2>1. CASE Shrinks(queue, queue')
    BY <1>1, <2>1, ShrunkItems
  <2>2. CASE \E x \in Items : queue' = Append(queue, x) /\ Pumped(x)
    BY <1>1, <1>2, <2>2
  <2> QED
    BY <1>1, <2>1, <2>2 DEF QueueMove
<1> QED
  BY <1>3, <1>4

\* The head of a channel is one of its items.
LEMMA HeadIndex ==
    ASSUME NEW S, NEW q \in Seq(S), q # <<>>
    PROVE  1 \in 1..Len(q) /\ q[1] \in S
BY Taken

\* What is not newer than anything further up stays so: a step brings nothing
\* to a place but from the place above it.
LEMMA StaysBelow ==
    ASSUME Shape, Flow, NEW b \in Beacons, NEW n \in Nat, EngineOK'
    PROVE  /\ BelowEvents(n, b) => BelowEvents(n, b)'
           /\ BelowPump(n, b) => BelowPump(n, b)'
           /\ BelowQueue(n, b) => BelowQueue(n, b)'
           /\ BelowWork(n, b) => BelowWork(n, b)'
<1>1. /\ events \in Seq(EventItems) /\ queue \in Seq(Items)
      /\ VerMove /\ EventsMove /\ PumpMove /\ QueueMove /\ WorkMove
  BY DEF Shape, ChannelsOK, Flow
<1>2. ver[b] \in Nat /\ ver'[b] \in Nat /\ ver[b] <= ver'[b]
  BY <1>1 DEF Shape, EngineOK, VerMove
<1>3. ASSUME BelowEvents(n, b) PROVE BelowEvents(n, b)'
  <2>1. n <= ver[b] /\ n <= ver'[b]
    BY <1>2, <1>3 DEF BelowEvents
  <2>2. ASSUME NEW k \in 1..Len(events'), events'[k].beacon = b PROVE n <= events'[k].ver
    <3>1. CASE \E j \in 1..Len(events) : events'[k] = events[j]
      BY <1>3, <2>2, <3>1 DEF BelowEvents
    <3>2. CASE Current(events'[k])
      BY <2>1, <2>2, <3>2 DEF Current
    <3> QED
      BY <3>1, <3>2, FlowItems
  <2> QED
    BY <2>1, <2>2 DEF BelowEvents
<1>4. events # <<>> => 1 \in 1..Len(events)
  BY <1>1, HeadIndex
<1>5. queue # <<>> => 1 \in 1..Len(queue)
  BY <1>1, HeadIndex
<1>6. ASSUME BelowPump(n, b) PROVE BelowPump(n, b)'
  <2>1. BelowEvents(n, b) /\ BelowEvents(n, b)'
    BY <1>3, <1>6 DEF BelowPump
  <2>2. ASSUME caller'["pump"] # Idle, caller'["pump"].item.beacon = b
        PROVE  n <= caller'["pump"].item.ver
    <3>1. CASE caller["pump"] # Idle /\ caller'["pump"].item = caller["pump"].item
      BY <1>6, <2>2, <3>1 DEF BelowPump
    <3>2. CASE events # <<>> /\ caller'["pump"].item = events[1]
      BY <1>4, <2>1, <2>2, <3>2 DEF BelowEvents
    <3> QED
      BY <1>1, <2>2, <3>1, <3>2 DEF PumpMove
  <2> QED
    BY <2>1, <2>2 DEF BelowPump
<1>7. ASSUME BelowQueue(n, b) PROVE BelowQueue(n, b)'
  <2>1. BelowPump(n, b) /\ BelowEvents(n, b) /\ BelowPump(n, b)'
    BY <1>6, <1>7 DEF BelowQueue, BelowPump
  <2>2. ASSUME NEW k \in 1..Len(queue'), queue'[k].kind = "event", queue'[k].beacon = b
        PROVE  n <= queue'[k].ver
    <3>1. CASE \E j \in 1..Len(queue) : queue'[k] = queue[j]
      BY <1>7, <2>2, <3>1 DEF BelowQueue
    <3>2. CASE events # <<>> /\ queue'[k] = events[1]
      BY <1>4, <2>1, <2>2, <3>2 DEF BelowEvents
    <3>3. CASE caller["pump"] # Idle /\ queue'[k] = caller["pump"].item
      BY <2>1, <2>2, <3>3 DEF BelowPump
    <3> QED
      BY <2>2, <3>1, <3>2, <3>3, FlowItems DEF Pumped
  <2> QED
    BY <2>1, <2>2 DEF BelowQueue
<1>8. ASSUME BelowWork(n, b) PROVE BelowWork(n, b)'
  <2>1. BelowQueue(n, b) /\ BelowQueue(n, b)'
    BY <1>7, <1>8 DEF BelowWork
  <2>2. ASSUME NEW v \in Nat, Due(work', b, v), v # None PROVE n <= v
    <3>1. CASE Due(work, b, v)
      BY <1>8, <2>2, <3>1 DEF BelowWork
    <3>2. CASE /\ queue # <<>> /\ queue[1].kind = "event"
               /\ queue[1].beacon = b /\ queue[1].ver = v
      BY <1>5, <2>1, <3>2 DEF BelowQueue
    <3> QED
      BY <1>1, <2>2, <3>1, <3>2 DEF WorkMove
  <2> QED
    BY <2>1, <2>2 DEF BelowWork
<1> QED
  BY <1>3, <1>6, <1>7, <1>8

\* At boot nothing is on its way.
LEMMA OrderInit == Init => OrderInv
<1> SUFFICES ASSUME Init PROVE OrderInv
  OBVIOUS
<1>1. /\ events = <<>> /\ queue = <<>> /\ work = <<>> /\ caller["pump"] = Idle
      /\ \A b \in Beacons : broker[b]["state"] = None
  BY DEF Init, Callers, Topics
<1>2. Len(events) = 0 /\ Len(queue) = 0
  BY <1>1
<1>3. \A b, v : ~Due(work, b, v)
  BY <1>1, WorkHead DEF Due
<1>4. EventsOrdered /\ QueueOrdered
  BY <1>2 DEF EventsOrdered, QueueOrdered, Sorted
<1> QED
  BY <1>1, <1>3, <1>4 DEF OrderInv, PumpOrdered, WorkOrdered, BrokerOrdered

\* The types the order needs.
LEMMA OrderTypes ==
    ASSUME Shape
    PROVE  /\ \A k \in 1..Len(events) : /\ events[k] \in Items /\ events[k].kind = "event"
                                        /\ events[k].beacon \in Beacons /\ events[k].ver \in Nat
           /\ \A k \in 1..Len(queue) : queue[k].beacon \in Beacons /\ queue[k].ver \in Nat
           /\ caller["pump"] # Idle => /\ caller["pump"].item.beacon \in Beacons
                                       /\ caller["pump"].item.ver \in Nat
           /\ events # <<>> => 1 \in 1..Len(events)
           /\ queue # <<>> => 1 \in 1..Len(queue)
           /\ \A b \in Beacons : broker[b]["state"] # None => broker[b]["state"] \in Nat
<1>1. events \in Seq(EventItems) /\ queue \in Seq(Items)
  BY DEF Shape, ChannelsOK
<1>2. /\ \A k \in 1..Len(events) : events[k] \in EventItems
      /\ \A k \in 1..Len(queue) : queue[k] \in Items
  BY <1>1, ElementOfSeq
<1>3. /\ events # <<>> => 1 \in 1..Len(events)
      /\ queue # <<>> => 1 \in 1..Len(queue)
  BY <1>1, HeadIndex
<1>4. \A x \in Items : x.beacon \in Beacons /\ x.ver \in Nat
  BY DEF Items
<1>5. \A x \in EventItems : x \in Items /\ x.kind = "event"
  BY DEF EventItems
<1>6. caller["pump"] # Idle => caller["pump"].item \in EventItems
  BY DEF Shape, CallersOK, Holding
<1>7. \A b \in Beacons : broker[b]["state"] # None => broker[b]["state"] \in Nat
  BY DEF Shape, BrokerOK
<1> QED
  BY <1>2, <1>3, <1>4, <1>5, <1>6, <1>7

\* The oldest event is not newer than the others, and the oldest item not newer
\* than what follows it.
LEMMA Oldest ==
    ASSUME Shape, OrderInv
    PROVE  /\ events # <<>> => BelowEvents(events[1].ver, events[1].beacon)
           /\ queue # <<>> /\ queue[1].kind = "event" => BelowQueue(queue[1].ver, queue[1].beacon)
<1>1. ASSUME events # <<>> PROVE BelowEvents(events[1].ver, events[1].beacon)
  <2>1. 1 \in 1..Len(events) /\ Sorted(events) /\ events[1].ver <= ver[events[1].beacon]
    BY <1>1, OrderTypes DEF OrderInv, EventsOrdered
  <2>2. ASSUME NEW k \in 1..Len(events), events[k].beacon = events[1].beacon
        PROVE  events[1].ver <= events[k].ver
    <3>1. 1 <= k /\ events[1].kind = "event" /\ events[k].kind = "event"
      BY <2>1, OrderTypes
    <3> QED
      BY <2>1, <2>2, <3>1 DEF Sorted
  <2> QED
    BY <2>1, <2>2 DEF BelowEvents
<1>2. ASSUME queue # <<>>, queue[1].kind = "event"
      PROVE  BelowQueue(queue[1].ver, queue[1].beacon)
  <2>1. 1 \in 1..Len(queue) /\ Sorted(queue) /\ BelowPump(queue[1].ver, queue[1].beacon)
    BY <1>2, OrderTypes DEF OrderInv, QueueOrdered
  <2>2. ASSUME NEW k \in 1..Len(queue), queue[k].kind = "event",
               queue[k].beacon = queue[1].beacon
        PROVE  queue[1].ver <= queue[k].ver
    <3>1. 1 <= k
      OBVIOUS
    <3> QED
      BY <1>2, <2>1, <2>2, <3>1 DEF Sorted
  <2> QED
    BY <2>1, <2>2 DEF BelowQueue
<1> QED
  BY <1>1, <1>2

\* The channel of events stays in order.
LEMMA EventsStep == ASSUME Shape, EngineOK', OrderInv, Flow PROVE EventsOrdered'
<1>1. /\ events \in Seq(EventItems) /\ events \in Seq(Items) /\ EventsMove
      /\ \A b \in Beacons : ver[b] \in Nat /\ ver'[b] \in Nat /\ ver[b] <= ver'[b]
  <2>1. events \in Seq(EventItems) /\ EventItems \subseteq Items /\ EventsMove
    BY DEF Shape, ChannelsOK, EventItems, Flow
  <2>2. \A b \in Beacons : ver[b] \in Nat /\ ver'[b] \in Nat /\ ver[b] <= ver'[b]
    BY DEF Shape, EngineOK, Flow, VerMove
  <2> QED
    BY <2>1, <2>2, SeqMonotonic
<1>2. \A k \in 1..Len(events) : /\ events[k].beacon \in Beacons /\ events[k].ver \in Nat
                                /\ events[k].ver <= ver[events[k].beacon]
  BY OrderTypes DEF OrderInv, EventsOrdered
<1>3. \A k \in 1..Len(events) : events[k].ver <= ver'[events[k].beacon]
  BY <1>1, <1>2
<1>4. ASSUME NEW k \in 1..Len(events') PROVE events'[k].ver <= ver'[events'[k].beacon]
  <2>1. CASE \E j \in 1..Len(events) : events'[k] = events[j]
    BY <1>3, <2>1
  <2>2. CASE Current(events'[k]) /\ events'[k] \in EventItems
    <3>1. events'[k].beacon \in Beacons
      BY <2>2 DEF EventItems, Items
    <3> QED
      BY <1>1, <2>2, <3>1 DEF Current
  <2> QED
    BY <2>1, <2>2, FlowItems
<1>5. Sorted(events')
  <2>1. CASE Shrinks(events, events')
    BY <1>1, <2>1, ShrunkItems DEF OrderInv, EventsOrdered
  <2>2. ASSUME NEW x \in EventItems, events' = Append(events, x), Current(x)
        PROVE  Sorted(events')
    <3>1. x \in Items
      BY DEF EventItems
    <3>2. \A k \in 1..Len(events) : events[k].beacon = x.beacon => events[k].ver <= x.ver
      BY <1>3, <2>2 DEF Current
    <3>3. Sorted(events)
      BY DEF OrderInv, EventsOrdered
    <3> QED
      BY <1>1, <2>2, <3>1, <3>2, <3>3, GrownItems
  <2> QED
    BY <1>1, <2>1, <2>2 DEF EventsMove
<1> QED
  BY <1>4, <1>5 DEF EventsOrdered

\* The queue stays in order.
LEMMA QueueStep == ASSUME Shape, Shape', OrderInv, Flow PROVE QueueOrdered'
<1>1. queue \in Seq(Items) /\ QueueMove /\ EngineOK'
  BY DEF Shape, ChannelsOK, Flow
<1>2. ASSUME NEW x, Pumped(x), x.kind = "event"
      PROVE  /\ x.beacon \in Beacons /\ x.ver \in Nat /\ caller'["pump"] = Idle
             /\ BelowEvents(x.ver, x.beacon)
             /\ \A k \in 1..Len(queue) :
                   queue[k].kind = "event" /\ queue[k].beacon = x.beacon => queue[k].ver <= x.ver
  <2>1. \A k \in 1..Len(queue) : queue[k].kind = "event" =>
            BelowPump(queue[k].ver, queue[k].beacon) /\ BelowEvents(queue[k].ver, queue[k].beacon)
    BY DEF OrderInv, QueueOrdered, BelowPump
  <2>2. CASE events # <<>> /\ x = events[1]
    <3>1. 1 \in 1..Len(events) /\ x.beacon \in Beacons /\ x.ver \in Nat
      BY <2>2, OrderTypes
    <3>2. BelowEvents(x.ver, x.beacon)
      BY <2>2, Oldest
    <3>3. \A k \in 1..Len(queue) :
             queue[k].kind = "event" /\ queue[k].beacon = x.beacon => queue[k].ver <= x.ver
      BY <2>1, <2>2, <3>1 DEF BelowEvents
    <3> QED
      BY <1>2, <3>1, <3>2, <3>3 DEF Pumped
  <2>3. CASE caller["pump"] # Idle /\ x = caller["pump"].item
    <3>1. x.beacon \in Beacons /\ x.ver \in Nat
      BY <2>3, OrderTypes
    <3>2. BelowEvents(x.ver, x.beacon)
      BY <2>3 DEF OrderInv, PumpOrdered
    <3>3. \A k \in 1..Len(queue) :
             queue[k].kind = "event" /\ queue[k].beacon = x.beacon => queue[k].ver <= x.ver
      BY <2>1, <2>3 DEF BelowPump
    <3> QED
      BY <1>2, <3>1, <3>2, <3>3 DEF Pumped
  <2> QED
    BY <1>2, <2>2, <2>3 DEF Pumped
<1>3. ASSUME NEW k \in 1..Len(queue'), queue'[k].kind = "event"
      PROVE  BelowPump(queue[k].ver, queue[k].beacon)'
  <2> DEFINE x == queue'[k]
  <2>1. CASE \E j \in 1..Len(queue) : queue'[k] = queue[j]
    <3>1. PICK j \in 1..Len(queue) : queue'[k] = queue[j]
      BY <2>1
    <3>2. BelowPump(queue[j].ver, queue[j].beacon)
      BY <1>3, <3>1 DEF OrderInv, QueueOrdered
    <3>3. queue[j].beacon \in Beacons /\ queue[j].ver \in Nat
      BY OrderTypes
    <3>4. ASSUME NEW b \in Beacons, NEW n \in Nat, BelowPump(n, b),
                 b = queue'[k].beacon, n = queue'[k].ver
          PROVE  BelowPump(queue[k].ver, queue[k].beacon)'
      <4>1. BelowPump(n, b)'
        BY <1>1, <3>4, StaysBelow
      <4> QED
        BY <3>4, <4>1 DEF BelowPump, BelowEvents
    <3> QED
      BY <3>1, <3>2, <3>3, <3>4
  <2>2. CASE Pumped(queue'[k])
    <3>1. /\ x.beacon \in Beacons /\ x.ver \in Nat /\ caller'["pump"] = Idle
          /\ BelowEvents(x.ver, x.beacon)
      BY <1>2, <1>3, <2>2
    <3>2. ASSUME NEW b \in Beacons, NEW n \in Nat, BelowEvents(n, b),
                 b = queue'[k].beacon, n = queue'[k].ver
          PROVE  BelowEvents(queue[k].ver, queue[k].beacon)'
      <4>1. BelowEvents(n, b)'
        BY <1>1, <3>2, StaysBelow
      <4> QED
        BY <3>2, <4>1 DEF BelowEvents
    <3>3. BelowEvents(queue[k].ver, queue[k].beacon)'
      BY <3>1, <3>2
    <3> QED
      BY <3>1, <3>3 DEF BelowPump
  <2> QED
    BY <2>1, <2>2, FlowItems
<1>4. Sorted(queue')
  <2>1. CASE Shrinks(queue, queue')
    BY <1>1, <2>1, ShrunkItems DEF OrderInv, QueueOrdered
  <2>2. ASSUME NEW x \in Items, queue' = Append(queue, x), Pumped(x)
        PROVE  Sorted(queue')
    <3>1. Sorted(queue)
      BY DEF OrderInv, QueueOrdered
    <3>2. \A k \in 1..Len(queue) :
             queue[k].kind = "event" /\ x.kind = "event" /\ queue[k].beacon = x.beacon
                => queue[k].ver <= x.ver
      BY <1>2, <2>2
    <3> QED
      BY <1>1, <2>2, <3>1, <3>2, GrownItems
  <2> QED
    BY <1>1, <2>1, <2>2 DEF QueueMove
<1> QED
  BY <1>3, <1>4 DEF QueueOrdered

\* The pump's item stays older than the events behind it.
LEMMA PumpStep == ASSUME Shape, Shape', OrderInv, Flow PROVE PumpOrdered'
<1>1. EngineOK' /\ PumpMove
  BY DEF Shape, Flow
<1> SUFFICES ASSUME caller'["pump"] # Idle
             PROVE  BelowEvents(caller["pump"].item.ver, caller["pump"].item.beacon)'
  BY DEF PumpOrdered
<1>2. ASSUME NEW b \in Beacons, NEW n \in Nat, BelowEvents(n, b),
             b = caller'["pump"].item.beacon, n = caller'["pump"].item.ver
      PROVE  BelowEvents(caller["pump"].item.ver, caller["pump"].item.beacon)'
  <2>1. BelowEvents(n, b)'
    BY <1>1, <1>2, StaysBelow
  <2> QED
    BY <1>2, <2>1 DEF BelowEvents
<1>3. CASE caller["pump"] # Idle /\ caller'["pump"].item = caller["pump"].item
  <2>1. /\ caller["pump"].item.beacon \in Beacons /\ caller["pump"].item.ver \in Nat
        /\ BelowEvents(caller["pump"].item.ver, caller["pump"].item.beacon)
    BY <1>3, OrderTypes DEF OrderInv, PumpOrdered
  <2> QED
    BY <1>2, <1>3, <2>1
<1>4. CASE events # <<>> /\ caller'["pump"].item = events[1]
  <2>1. /\ events[1].beacon \in Beacons /\ events[1].ver \in Nat
        /\ BelowEvents(events[1].ver, events[1].beacon)
    BY <1>4, OrderTypes, Oldest
  <2> QED
    BY <1>2, <1>4, <2>1
<1> QED
  BY <1>1, <1>3, <1>4 DEF PumpMove

\* The state Run is about to publish stays older than the queue.
LEMMA WorkStep == ASSUME Shape, Shape', OrderInv, Flow PROVE WorkOrdered'
<1>1. EngineOK' /\ WorkMove
  BY DEF Shape, Flow
<1> SUFFICES ASSUME NEW b \in Beacons, NEW v \in Nat, Due(work', b, v), v # None
             PROVE  BelowQueue(v, b)'
  BY DEF WorkOrdered
<1>2. BelowQueue(v, b)
  <2>1. CASE Due(work, b, v)
    BY <2>1 DEF OrderInv, WorkOrdered
  <2>2. CASE /\ queue # <<>> /\ queue[1].kind = "event"
             /\ queue[1].beacon = b /\ queue[1].ver = v
    BY <2>2, Oldest
  <2> QED
    BY <1>1, <2>1, <2>2 DEF WorkMove
<1> QED
  BY <1>1, <1>2, StaysBelow

\* The retained state stays older than all that is on its way.
LEMMA BrokerStep == ASSUME Shape, Shape', OrderInv, Flow PROVE BrokerOrdered'
<1>1. EngineOK' /\ BrokerMove
  BY DEF Shape, Flow
<1> SUFFICES ASSUME NEW b \in Beacons, broker'[b]["state"] # None
             PROVE  BelowWork(broker[b]["state"], b)'
  BY DEF BrokerOrdered
<1>2. broker'[b]["state"] \in Nat
  BY DEF Shape, BrokerOK
<1>3. PICK n \in Nat : n = broker'[b]["state"]
  BY <1>2
<1>4. BelowWork(n, b)'
  <2>1. CASE broker'[b]["state"] = broker[b]["state"]
    <3>1. BelowWork(n, b)
      BY <1>3, <2>1 DEF OrderInv, BrokerOrdered
    <3> QED
      BY <1>1, <3>1, StaysBelow
  <2>2. CASE Due(work, b, n) /\ work' = <<>>
    <3>1. BelowQueue(n, b)
      BY <1>3, <2>2 DEF OrderInv, WorkOrdered
    <3>2. BelowQueue(n, b)'
      BY <1>1, <3>1, StaysBelow
    <3>3. \A v : ~Due(work', b, v)
      BY <2>2, WorkHead DEF Due
    <3> QED
      BY <3>2, <3>3 DEF BelowWork
  <2> QED
    BY <1>1, <1>3, <2>1, <2>2 DEF BrokerMove
<1> QED
  BY <1>3, <1>4 DEF BelowWork, BelowQueue, BelowPump, BelowEvents

\* Every step keeps the order.
LEMMA OrderStep == Shape /\ OrderInv /\ [Next]_vars => OrderInv'
<1> SUFFICES ASSUME Shape, OrderInv, [Next]_vars PROVE OrderInv'
  OBVIOUS
<1>1. Shape' /\ Flow
  BY ShapeStep, FlowStep
<1>2. EngineOK'
  BY <1>1 DEF Shape
<1>3. EventsOrdered' /\ PumpOrdered' /\ QueueOrdered' /\ WorkOrdered' /\ BrokerOrdered'
  BY <1>1, <1>2, EventsStep, PumpStep, QueueStep, WorkStep, BrokerStep
<1> QED
  BY <1>3 DEF OrderInv

\* A step that replaces a retained state publishes the one that was due.
LEMMA NoRegressStep ==
    ASSUME Shape, OrderInv, [Next]_vars
    PROVE  \A b \in Beacons :
              LET old == broker[b]["state"]
                  new == broker'[b]["state"]
              IN  old # None /\ new # None => old <= new
<1> SUFFICES ASSUME NEW b \in Beacons, broker[b]["state"] # None, broker'[b]["state"] # None
             PROVE  broker[b]["state"] <= broker'[b]["state"]
  OBVIOUS
<1>1. Shape' /\ Flow
  BY ShapeStep, FlowStep
<1>2. broker[b]["state"] \in Nat
  BY OrderTypes
<1>3. broker'[b]["state"] \in Nat
  BY <1>1 DEF Shape, BrokerOK
<1>4. BelowWork(broker[b]["state"], b)
  BY DEF OrderInv, BrokerOrdered
<1>5. CASE broker'[b]["state"] = broker[b]["state"]
  BY <1>2, <1>5
<1>6. CASE Due(work, b, broker'[b]["state"])
  BY <1>3, <1>4, <1>6 DEF BelowWork
<1> QED
  BY <1>1, <1>5, <1>6 DEF Flow, BrokerMove

\* A retained state is only ever replaced by one the engine published later:
\* through evictions, drops, retries, outages, restarts, removals and bursts.
THEOREM StatesNeverRegress == Spec => NoRegress
<1>1. Shape /\ OrderInv /\ [Next]_vars =>
        \A b \in Beacons :
           LET old == broker[b]["state"]
               new == broker'[b]["state"]
           IN  old # None /\ new # None => old <= new
  BY NoRegressStep
<1> QED
  BY <1>1, ShapeInit, ShapeStep, OrderInit, OrderStep, PTL DEF Spec, NoRegress

-----------------------------------------------------------------------------
(* What a demotion leaves behind.                                          *)

\* A request has a remove of b to hand over; the queue has one.
Held(b) == \E q \in Requests : b \in todo[q] \/ IsRemove(caller[q].item, b)
Queued(b) == \E i \in 1..Len(queue) : IsRemove(queue[i], b)

\* No event of b is above the queue, or a request has yet to look.
NoneUpstream(b) == ~Upstream(b) \/ \E q \in Requests : b \in todo[q]

\* Every event of b in the queue is followed by a remove.
RemoveLast(b) ==
    \A i \in 1..Len(queue) : IsEvent(queue[i], b) =>
        \E j \in 1..Len(queue) : i < j /\ IsRemove(queue[j], b)

\* Nothing of b is left but what Run is about to remove.
Wiped(b) ==
    /\ b \notin seen
    /\ broker[b]["config"] = None \/ work = RemoveWork(b)
    /\ broker[b]["state"] = None \/ work = RemoveWork(b) \/ work = StateWork(b, None)
    /\ \A s \in SUBSET Sensors, v \in Nat :
          work # ConfigWork(b, s, v) /\ work # MarkWork(b, s, v) /\ work # StateWork(b, v)

Leaving(b) ==
    /\ NoneUpstream(b)
    /\ Held(b) \/ RemoveLast(b)
    /\ Held(b) \/ Queued(b) \/ Wiped(b)

GhostInv == \A b \in Beacons \ (tracked \cup excused) : Leaving(b)

\* An event above the queue is in the channel or in the pump's hands.
LEMMA UpstreamIs ==
    ASSUME ChannelsOK, NEW b
    PROVE  Upstream(b) <=> \/ \E i \in 1..Len(events) : IsEvent(events[i], b)
                           \/ IsEvent(caller["pump"].item, b)
<1>1. events \in Seq(EventItems)
  BY DEF ChannelsOK
<1>2. DOMAIN events = 1..Len(events)
  BY <1>1, LenProperties
<1> QED
  BY <1>2 DEF Upstream

\* The queue with one more item.
LEMMA QueueGrows ==
    ASSUME ChannelsOK, NEW x \in Items, queue' = Append(queue, x), NEW b
    PROVE  /\ Queued(b) => Queued(b)'
           /\ RemoveLast(b) /\ ~IsEvent(x, b) => RemoveLast(b)'
           /\ IsRemove(x, b) => RemoveLast(b)' /\ Queued(b)'
<1>1. queue \in Seq(Items)
  BY DEF ChannelsOK
<1>2. /\ Len(queue) \in Nat /\ Len(queue') = Len(queue) + 1
      /\ \A k \in 1..Len(queue) : queue'[k] = queue[k]
      /\ queue'[Len(queue) + 1] = x
  BY <1>1, Appended
<1>3. /\ \A k \in 1..Len(queue) : k \in 1..Len(queue') /\ k < Len(queue) + 1
      /\ Len(queue) + 1 \in 1..Len(queue')
      /\ \A k \in 1..Len(queue') : k \in 1..Len(queue) \/ k = Len(queue) + 1
  BY <1>2
<1>4. Queued(b) => Queued(b)'
  BY <1>2, <1>3 DEF Queued
<1>5. ASSUME RemoveLast(b), ~IsEvent(x, b) PROVE RemoveLast(b)'
  <2> SUFFICES ASSUME NEW i \in 1..Len(queue'), IsEvent(queue'[i], b)
               PROVE  \E j \in 1..Len(queue') : i < j /\ IsRemove(queue'[j], b)
    BY DEF RemoveLast
  <2>1. i \in 1..Len(queue) /\ IsEvent(queue[i], b)
    BY <1>2, <1>3, <1>5
  <2>2. PICK j \in 1..Len(queue) : i < j /\ IsRemove(queue[j], b)
    BY <1>5, <2>1 DEF RemoveLast
  <2> QED
    BY <1>2, <1>3, <2>2
<1>6. ASSUME IsRemove(x, b) PROVE RemoveLast(b)' /\ Queued(b)'
  <2>1. IsRemove(queue'[Len(queue) + 1], b) /\ ~IsEvent(queue'[Len(queue) + 1], b)
    BY <1>2, <1>6 DEF IsRemove, IsEvent
  <2>2. Queued(b)'
    BY <1>3, <2>1 DEF Queued
  <2>3. RemoveLast(b)'
    BY <1>3, <2>1 DEF RemoveLast
  <2> QED
    BY <2>2, <2>3
<1> QED
  BY <1>4, <1>5, <1>6

\* The queue without its oldest item.
LEMMA QueueShrinks ==
    ASSUME ChannelsOK, queue # <<>>, queue' = Tail(queue), NEW b
    PROVE  /\ Queued(b) /\ ~IsRemove(Head(queue), b) => Queued(b)'
           /\ RemoveLast(b) => RemoveLast(b)'
           /\ RemoveLast(b) /\ IsEvent(Head(queue), b) => Queued(b)'
<1>1. queue \in Seq(Items)
  BY DEF ChannelsOK
<1>2. /\ Len(queue') \in Nat /\ Len(queue) = Len(queue') + 1
      /\ \A k \in 1..Len(queue') : queue'[k] = queue[k + 1] /\ k + 1 \in 1..Len(queue)
      /\ 1 \in 1..Len(queue) /\ Head(queue) = queue[1]
  BY <1>1, Taken
<1>3. ASSUME NEW j \in 1..Len(queue), j # 1
      PROVE  j - 1 \in 1..Len(queue') /\ queue'[j - 1] = queue[j]
  <2>1. j - 1 \in 1..Len(queue') /\ (j - 1) + 1 = j
    BY <1>2, <1>3
  <2> QED
    BY <1>2, <2>1
<1>4. Queued(b) /\ ~IsRemove(Head(queue), b) => Queued(b)'
  BY <1>2, <1>3 DEF Queued
<1>5. ASSUME RemoveLast(b) PROVE RemoveLast(b)'
  <2> SUFFICES ASSUME NEW i \in 1..Len(queue'), IsEvent(queue'[i], b)
               PROVE  \E j \in 1..Len(queue') : i < j /\ IsRemove(queue'[j], b)
    BY DEF RemoveLast
  <2>1. i + 1 \in 1..Len(queue) /\ IsEvent(queue[i + 1], b)
    BY <1>2
  <2>2. PICK j \in 1..Len(queue) : i + 1 < j /\ IsRemove(queue[j], b)
    BY <1>5, <2>1 DEF RemoveLast
  <2>3. j # 1 /\ i < j - 1
    BY <1>2, <2>1, <2>2
  <2> QED
    BY <1>3, <2>2, <2>3
<1>6. ASSUME RemoveLast(b), IsEvent(Head(queue), b) PROVE Queued(b)'
  <2>1. PICK j \in 1..Len(queue) : 1 < j /\ IsRemove(queue[j], b)
    BY <1>2, <1>6 DEF RemoveLast
  <2> QED
    BY <1>3, <2>1 DEF Queued
<1> QED
  BY <1>4, <1>5, <1>6

\* Steps that leave Run alone, and the queue but for an item that is no event of b.
LEMMA LeavingKept ==
    ASSUME ChannelsOK, NEW b, Leaving(b), Upstream(b)' => Upstream(b),
           \A q \in Requests : b \in todo[q] => b \in todo'[q],
           \A q \in Requests : IsRemove(caller[q].item, b) => IsRemove(caller'[q].item, b),
           UNCHANGED <<work, seen, broker>>,
           \/ queue' = queue
           \/ \E x \in Items : queue' = Append(queue, x) /\ ~IsEvent(x, b)
    PROVE  Leaving(b)'
<1>1. Held(b) => Held(b)'
  BY DEF Held
<1>2. NoneUpstream(b)'
  BY DEF Leaving, NoneUpstream
<1>3. Wiped(b) => Wiped(b)'
  BY DEF Wiped
<1>4. (RemoveLast(b) => RemoveLast(b)') /\ (Queued(b) => Queued(b)')
  <2>1. CASE queue' = queue
    BY <2>1 DEF RemoveLast, Queued
  <2>2. CASE \E x \in Items : queue' = Append(queue, x) /\ ~IsEvent(x, b)
    BY <2>2, QueueGrows
  <2> QED
    BY <2>1, <2>2
<1> QED
  BY <1>1, <1>2, <1>3, <1>4 DEF Leaving

\* An event that finds a request about to remove its beacon.
LEMMA LeavingHeld ==
    ASSUME NEW b, NEW q \in Requests, b \in todo'[q]
    PROVE  Leaving(b)'
BY DEF Leaving, NoneUpstream, Held

\* A remove reaches the end of the queue, with nothing of its beacon upstream.
LEMMA LeavingQueued ==
    ASSUME ChannelsOK, NEW b, NEW x \in Items, IsRemove(x, b), queue' = Append(queue, x),
           NoneUpstream(b)'
    PROVE  Leaving(b)'
BY QueueGrows DEF Leaving

\* At boot every beacon is tracked.
LEMMA GhostInit == Init => GhostInv
BY DEF Init, GhostInv

\* The engine's own steps, a promotion and a refresh.
LEMMA GhostEngine ==
    ASSUME Shape, GhostInv,
           \/ \E x \in Beacons, sensors \in SUBSET Sensors : ChangeState(x, sensors)
           \/ Reassert \/ TelemetryTick
           \/ \E x \in Beacons : EmitNext(x) \/ Promote(x)
           \/ \E q \in Requests : RefreshEngine(q)
    PROVE  GhostInv'
<1> SUFFICES ASSUME NEW b \in Beacons \ (tracked' \cup excused') PROVE Leaving(b)'
  BY DEF GhostInv
<1>1. /\ EngineOK /\ ChannelsOK /\ ChannelsOK'
      /\ todo \in [Requests -> SUBSET Beacons]
  BY EngineShape, AdminShape DEF Shape
<1>2. /\ tracked \subseteq tracked' /\ excused' = excused
      /\ UNCHANGED <<caller, queue, work, seen, broker>>
  BY DEF ChangeState, Reassert, TelemetryTick, EmitNext, Promote, RefreshEngine, engineVars,
         queueVars, runVars
<1>3. Leaving(b) /\ b \notin tracked
  BY <1>2 DEF GhostInv
<1>4. \A q \in Requests : b \in todo[q] => b \in todo'[q]
  <2>1. todo' = todo \/ \E q \in Requests : todo[q] = {} /\ todo' = [todo EXCEPT ![q] = seen \ tracked]
    BY DEF ChangeState, Reassert, TelemetryTick, EmitNext, Promote, RefreshEngine, Free, queueVars
  <2> QED
    BY <1>1, <2>1
<1>5. Upstream(b)' => Upstream(b)
  <2>1. ASSUME NEW ev, Emitted(ev), ev.beacon # b PROVE Upstream(b)' => Upstream(b)
    <3>1. CASE events' = events
      BY <1>2, <3>1 DEF Upstream
    <3>2. CASE events' = Append(events, ev)
      <4>1. events \in Seq(EventItems) /\ Len(events) \in Nat
        BY <1>1, LenProperties DEF ChannelsOK
      <4>2. ASSUME NEW i \in 1..Len(events'), IsEvent(events'[i], b)
            PROVE  i \in 1..Len(events) /\ IsEvent(events[i], b)
        <5>1. /\ Len(events') = Len(events) + 1 /\ events'[Len(events) + 1] = ev
              /\ \A k \in 1..Len(events) : events'[k] = events[k]
          BY <3>2, <4>1
        <5>2. i \in 1..Len(events) \/ i = Len(events) + 1
          BY <4>1, <5>1
        <5>3. i # Len(events) + 1
          BY <2>1, <4>2, <5>1 DEF IsEvent
        <5> QED
          BY <4>2, <5>1, <5>2, <5>3
      <4>3. DOMAIN events' = 1..Len(events') /\ DOMAIN events = 1..Len(events)
        BY <1>1, LenProperties DEF ChannelsOK
      <4> QED
        BY <1>2, <4>2, <4>3 DEF Upstream
    <3> QED
      BY <2>1, <3>1, <3>2 DEF Emitted
  <2>2. ASSUME NEW x \in Beacons, NEW sensors \in SUBSET Sensors, ChangeState(x, sensors)
        PROVE  \E ev : Emitted(ev) /\ ev.beacon # b
    <3> DEFINE ev == [kind |-> "event", beacon |-> x, ver |-> ver'[x], tlm |-> tlm'[x]]
    <3>1. emit(ev) /\ x \in tracked
      BY <2>2 DEF ChangeState
    <3>2. ev.beacon # b
      BY <1>3, <3>1
    <3> QED
      BY <3>1, <3>2, EmitEffect
  <2>3. ASSUME NEW x \in Beacons, EmitNext(x) PROVE \E ev : Emitted(ev) /\ ev.beacon # b
    <3>1. emit(Event(x)) /\ x \in tracked
      BY <1>1, <2>3 DEF EmitNext, EngineOK
    <3>2. Event(x).beacon # b
      BY <1>3, <3>1 DEF Event
    <3> QED
      BY <3>1, <3>2, EmitEffect
  <2>4. CASE events' = events
    BY <1>2, <2>4 DEF Upstream
  <2>5. \/ events' = events
        \/ \E x \in Beacons, sensors \in SUBSET Sensors : ChangeState(x, sensors)
        \/ \E x \in Beacons : EmitNext(x)
    BY DEF Reassert, TelemetryTick, Promote, RefreshEngine
  <2> QED
    BY <2>1, <2>2, <2>3, <2>4, <2>5
<1> QED
  BY <1>1, <1>2, <1>3, <1>4, <1>5, LeavingKept

\* A demotion leaves its request with a remove to hand over.
LEMMA GhostDemote ==
    ASSUME Shape, GhostInv, NEW q \in Requests, NEW x \in Beacons, Demote(q, x)
    PROVE  GhostInv'
<1> SUFFICES ASSUME NEW b \in Beacons \ (tracked' \cup excused') PROVE Leaving(b)'
  BY DEF GhostInv
<1>1. /\ todo[q] = {} /\ todo' = [todo EXCEPT ![q] = {x}] /\ tracked' = tracked \ {x}
      /\ UNCHANGED <<events, caller, queue, work, seen, broker, excused>>
  BY DEF Demote, Free, runVars
<1>2. ChannelsOK /\ todo \in [Requests -> SUBSET Beacons]
  BY DEF Shape
<1>3. CASE b = x
  BY <1>1, <1>2, <1>3, LeavingHeld
<1>4. CASE b # x
  <2>1. Leaving(b)
    BY <1>1, <1>4 DEF GhostInv
  <2>2. \A r \in Requests : b \in todo[r] => b \in todo'[r]
    BY <1>1, <1>2
  <2>3. Upstream(b)' => Upstream(b)
    BY <1>1 DEF Upstream
  <2> QED
    BY <1>1, <1>2, <2>1, <2>2, <2>3, LeavingKept
<1> QED
  BY <1>3, <1>4

\* The pump brings no event of a beacon whose remove has been handed over.
LEMMA GhostPump ==
    ASSUME Shape, GhostInv, Pump
    PROVE  GhostInv'
<1> SUFFICES ASSUME NEW b \in Beacons \ (tracked' \cup excused') PROVE Leaving(b)'
  BY DEF GhostInv
<1>1. /\ events # <<>> /\ caller["pump"] = Idle /\ events' = Tail(events)
      /\ Offered("pump", Head(events))
      /\ UNCHANGED <<tracked, todo, work, seen, broker, excused>>
  BY EnqueueEffect DEF Pump, engineVars, runVars
<1>2. Leaving(b)
  BY <1>1 DEF GhostInv
<1>3. ChannelsOK /\ CallersOK /\ ChannelsOK'
  BY EnqueueShape DEF Shape
<1>4. /\ Head(events) = events[1] /\ 1 \in 1..Len(events) /\ Head(events) \in Items
      /\ \A k \in 1..Len(events') : events'[k] = events[k + 1] /\ k + 1 \in 1..Len(events)
  <2>1. events \in Seq(EventItems) /\ EventItems \subseteq Items
    BY <1>3 DEF ChannelsOK, EventItems
  <2> QED
    BY <1>1, <2>1, Taken
<1>5. \A q \in Requests : caller'[q] = caller[q]
  BY <1>1, <1>3, RequestsAssumption DEF Offered, CallersOK, Callers
<1>6. CASE IsEvent(Head(events), b)
  <2>1. \E q \in Requests : b \in todo[q]
    BY <1>2, <1>3, <1>4, <1>6, UpstreamIs DEF Leaving, NoneUpstream
  <2> QED
    BY <1>1, <2>1, LeavingHeld
<1>7. CASE ~IsEvent(Head(events), b)
  <2>1. caller'["pump"].item = Head(events) \/ caller' = caller
    BY <1>1, <1>3 DEF Offered, CallersOK, Callers
  <2>2. Upstream(b)' => Upstream(b)
    <3>1. ASSUME NEW i \in 1..Len(events'), IsEvent(events'[i], b) PROVE Upstream(b)
      BY <1>3, <1>4, <3>1, UpstreamIs
    <3>2. IsEvent(caller'["pump"].item, b) => Upstream(b)
      BY <1>7, <2>1 DEF Upstream
    <3>3. DOMAIN events' = 1..Len(events')
      BY <1>3, LenProperties DEF ChannelsOK
    <3> QED
      BY <3>1, <3>2, <3>3 DEF Upstream
  <2>3. \/ queue' = queue
        \/ \E x \in Items : queue' = Append(queue, x) /\ ~IsEvent(x, b)
    BY <1>1, <1>4, <1>7 DEF Offered
  <2> QED
    BY <1>1, <1>2, <1>3, <1>5, <2>2, <2>3, LeavingKept
<1> QED
  BY <1>6, <1>7

\* A request hands a remove over, or notes that an event will overtake it.
LEMMA GhostRemove ==
    ASSUME Shape, GhostInv, NEW q \in Requests, NEW x \in Beacons, AdminRemove(q, x)
    PROVE  GhostInv'
<1> SUFFICES ASSUME NEW b \in Beacons \ (tracked' \cup excused') PROVE Leaving(b)'
  BY DEF GhostInv
<1>1. /\ caller[q] = Idle /\ todo' = [todo EXCEPT ![q] = @ \ {x}] /\ Offered(q, Removal(x))
      /\ excused' = IF Upstream(x) THEN excused \cup {x} ELSE excused \ {x}
      /\ UNCHANGED <<tracked, events, work, seen, broker>>
  BY EnqueueEffect DEF AdminRemove, engineVars, runVars
<1>2. ChannelsOK /\ CallersOK /\ todo \in [Requests -> SUBSET Beacons]
  BY DEF Shape
<1>3. /\ Removal(x) \in Items /\ \A c : ~IsEvent(Removal(x), c)
      /\ \A c : IsRemove(Removal(x), c) <=> c = x
      /\ \A c : ~IsRemove(Idle.item, c)
  BY ItemsMade DEF Removal, IsEvent, IsRemove, Items, Idle, NoItem
<1>4. caller'["pump"] = caller["pump"]
  BY <1>1, <1>2, RequestsAssumption DEF Offered, CallersOK, Callers
<1>5. Upstream(b)' => Upstream(b)
  BY <1>1, <1>4 DEF Upstream
<1>6. CASE b = x
  <2>1. NoneUpstream(b)'
    BY <1>1, <1>5, <1>6 DEF NoneUpstream
  <2>2. CASE queue' = Append(queue, Removal(x))
    BY <1>2, <1>3, <1>6, <2>1, <2>2, LeavingQueued
  <2>3. CASE caller' = [caller EXCEPT ![q] = [pc |-> "evict", item |-> Removal(x)]]
    <3>1. caller'[q].item = Removal(x)
      BY <1>2, <2>3 DEF CallersOK, Callers
    <3>2. Held(b)'
      BY <1>3, <1>6, <3>1 DEF Held
    <3> QED
      BY <2>1, <3>2 DEF Leaving
  <2> QED
    BY <1>1, <2>2, <2>3 DEF Offered
<1>7. CASE b # x
  <2>1. Leaving(b)
    BY <1>1, <1>7 DEF GhostInv
  <2>2. \A r \in Requests : b \in todo[r] => b \in todo'[r]
    BY <1>1, <1>2, <1>7
  <2>3. \A r \in Requests : IsRemove(caller[r].item, b) => IsRemove(caller'[r].item, b)
    BY <1>1, <1>2, <1>3 DEF Offered, CallersOK, Callers
  <2>4. \/ queue' = queue
        \/ \E y \in Items : queue' = Append(queue, y) /\ ~IsEvent(y, b)
    BY <1>1, <1>3 DEF Offered
  <2> QED
    BY <1>1, <1>2, <1>5, <2>1, <2>2, <2>3, <2>4, LeavingKept
<1> QED
  BY <1>6, <1>7

\* What a caller of enqueue that is not idle holds.
LEMMA CallerHolds ==
    ASSUME CallersOK, NEW c \in Callers, caller[c] # Idle
    PROVE  /\ caller[c].item \in Items
           /\ c = "pump" => caller[c].item.kind = "event"
           /\ c # "pump" => caller[c].item.kind = "remove" /\ c \in Requests
BY RequestsAssumption DEF CallersOK, Callers, Holding, EventItems, RemoveItems

\* An eviction excuses the beacon of a remove.
LEMMA GhostEvict ==
    ASSUME Shape, GhostInv, NEW c \in Callers, EvictOldest(c)
    PROVE  GhostInv'
<1> SUFFICES ASSUME NEW b \in Beacons \ (tracked' \cup excused') PROVE Leaving(b)'
  BY DEF GhostInv
<1>1. /\ caller[c].pc = "evict" /\ caller' = [caller EXCEPT ![c].pc = "retry"]
      /\ UNCHANGED <<tracked, events, todo, work, seen, broker>>
      /\ \/ queue' = queue /\ excused' = excused
         \/ queue # <<>> /\ queue' = Tail(queue) /\ excused' = Excuse(Head(queue))
  BY DEF EvictOldest, Goto, engineVars, runVars
<1>2. ChannelsOK /\ CallersOK
  BY DEF Shape
<1>3. \A d \in Callers : caller'[d].item = caller[d].item
  <2>1. caller[c] # Idle
    BY <1>1 DEF Idle
  <2>2. \A d \in Callers : d # c => caller'[d] = caller[d]
    BY <1>1, <1>2 DEF CallersOK
  <2>3. caller'[c].item = caller[c].item
    BY <1>1, <1>2, <2>1, RequestsAssumption DEF CallersOK, Callers, Holding
  <2> QED
    BY <2>2, <2>3
<1>4. Leaving(b) /\ (queue # <<>> /\ excused' = Excuse(Head(queue)) => ~IsRemove(Head(queue), b))
  BY <1>1 DEF GhostInv, Excuse, IsRemove
<1>5. (Upstream(b)' => Upstream(b)) /\ (Held(b) <=> Held(b)')
  BY <1>1, <1>3 DEF Upstream, Held, Callers
<1>6. NoneUpstream(b)'
  BY <1>1, <1>4, <1>5 DEF Leaving, NoneUpstream
<1>7. (RemoveLast(b) => RemoveLast(b)') /\ (Queued(b) => Queued(b)')
  <2>1. CASE queue' = queue
    BY <2>1 DEF RemoveLast, Queued
  <2>2. CASE queue # <<>> /\ queue' = Tail(queue) /\ excused' = Excuse(Head(queue))
    BY <1>2, <1>4, <2>2, QueueShrinks
  <2> QED
    BY <1>1, <2>1, <2>2
<1>8. Wiped(b) => Wiped(b)'
  BY <1>1 DEF Wiped
<1> QED
  BY <1>4, <1>5, <1>6, <1>7, <1>8 DEF Leaving

\* The last select queues the item, or gives it up and excuses its beacon.
LEMMA GhostRetry ==
    ASSUME Shape, GhostInv, NEW c \in Callers, RetryEnqueue(c)
    PROVE  GhostInv'
<1> SUFFICES ASSUME NEW b \in Beacons \ (tracked' \cup excused') PROVE Leaving(b)'
  BY DEF GhostInv
<1> DEFINE x == caller[c].item
<1>1. /\ caller[c].pc = "retry" /\ caller' = [caller EXCEPT ![c] = Idle]
      /\ UNCHANGED <<tracked, events, todo, work, seen, broker>>
      /\ \/ queue' = Append(queue, x) /\ excused' = excused
         \/ queue' = queue /\ excused' = Excuse(x)
  BY DEF RetryEnqueue, Return, engineVars, runVars
<1>2. ChannelsOK /\ CallersOK
  BY DEF Shape
<1>3. /\ x \in Items
      /\ c = "pump" => x.kind = "event"
      /\ c # "pump" => x.kind = "remove" /\ c \in Requests
  BY <1>1, <1>2, CallerHolds DEF Idle
<1>4. Leaving(b)
  BY <1>1 DEF GhostInv, Excuse
<1>5. caller'[c] = Idle /\ \A d \in Callers : d # c => caller'[d] = caller[d]
  BY <1>1, <1>2 DEF CallersOK
<1>6. ~IsEvent(Idle.item, b)
  BY DEF IsEvent, Idle, NoItem
<1>7. Upstream(b)' => Upstream(b)
  BY <1>1, <1>5, <1>6 DEF Upstream, Callers
<1>8. CASE IsRemove(x, b)
  <2>1. queue' = Append(queue, x)
    BY <1>1, <1>8 DEF Excuse, IsRemove
  <2>2. NoneUpstream(b)'
    BY <1>1, <1>4, <1>7 DEF Leaving, NoneUpstream
  <2> QED
    BY <1>2, <1>3, <1>8, <2>1, <2>2, LeavingQueued
<1>9. CASE IsEvent(x, b)
  <2>1. c = "pump"
    BY <1>3, <1>9 DEF IsEvent
  <2>2. \E q \in Requests : b \in todo[q]
    BY <1>4, <1>9, <2>1 DEF Leaving, NoneUpstream, Upstream
  <2> QED
    BY <1>1, <2>2, LeavingHeld
<1>10. CASE ~IsRemove(x, b) /\ ~IsEvent(x, b)
  <2>1. \A q \in Requests : IsRemove(caller[q].item, b) => IsRemove(caller'[q].item, b)
    BY <1>5, <1>10 DEF Callers
  <2>2. \/ queue' = queue
        \/ \E y \in Items : queue' = Append(queue, y) /\ ~IsEvent(y, b)
    BY <1>1, <1>3, <1>10
  <2> QED
    BY <1>1, <1>2, <1>4, <1>7, <2>1, <2>2, LeavingKept
<1> QED
  BY <1>8, <1>9, <1>10

\* The connection clears what Run believes, or the topics.
LEMMA GhostLink ==
    ASSUME Shape, GhostInv, \/ \E wipe \in BOOLEAN : LoseConnection(wipe)
                            \/ Reconnect \/ OnConnect \/ ClearAndReassert
    PROVE  GhostInv'
<1> SUFFICES ASSUME NEW b \in Beacons \ (tracked' \cup excused') PROVE Leaving(b)'
  BY DEF GhostInv
<1>1. /\ UNCHANGED <<tracked, events, caller, todo, queue, work, excused>>
      /\ seen' = seen \/ seen' = {}
      /\ \/ broker' = broker
         \/ broker' = [c \in Beacons |-> [t \in Topics |-> None]]
  BY DEF LoseConnection, Reconnect, OnConnect, ClearAndReassert, clearSeen, engineVars,
         queueVars, runVars
<1>2. Leaving(b)
  BY <1>1 DEF GhostInv
<1>3. "config" \in Topics /\ "state" \in Topics
  BY DEF Topics
<1>4. Wiped(b) => Wiped(b)'
  BY <1>1, <1>3 DEF Wiped
<1> QED
  BY <1>1, <1>2, <1>4 DEF Leaving, NoneUpstream, Upstream, Held, Queued, RemoveLast

\* A restart excuses whatever was being removed, and finds nothing else.
LEMMA GhostRestart == ASSUME Shape, GhostInv, Restart PROVE GhostInv'
<1> SUFFICES ASSUME NEW b \in Beacons \ (tracked' \cup excused') PROVE Leaving(b)'
  BY DEF GhostInv
<1>1. /\ UNCHANGED <<tracked, broker>>
      /\ events' = <<>> /\ queue' = <<>> /\ work' = <<>> /\ seen' = {}
      /\ caller' = [c \in Callers |-> Idle] /\ todo' = [q \in Requests |-> {}]
      /\ b \notin excused /\ ~Removing(b)
  BY DEF Restart, clearSeen
<1>2. queue \in Seq(Items)
  BY DEF Shape, ChannelsOK
<1>3. DOMAIN queue = 1..Len(queue)
  BY <1>2, LenProperties
<1>4. ~Held(b) /\ ~Queued(b)
  BY <1>1, <1>3 DEF Removing, Held, Queued
<1>5. Wiped(b)
  BY <1>1, <1>4 DEF GhostInv, Leaving
<1>6. work # RemoveWork(b) /\ work # StateWork(b, None)
  <2>1. /\ RemoveWork(b) # <<>> /\ Head(RemoveWork(b)) = Put(b, "config", None)
        /\ StateWork(b, None) # <<>> /\ Head(StateWork(b, None)) = Put(b, "state", None)
    BY DEF RemoveWork, StateWork
  <2>2. \A t : Put(b, t, None).beacon = b /\ Put(b, t, None).val = None
    BY DEF Put
  <2> QED
    BY <1>1, <2>1, <2>2 DEF Removing
<1>7. Wiped(b)'
  <2>1. broker[b]["config"] = None /\ broker[b]["state"] = None
    BY <1>5, <1>6 DEF Wiped
  <2>2. \A s, v : /\ <<>> # ConfigWork(b, s, v) /\ <<>> # MarkWork(b, s, v)
                  /\ <<>> # StateWork(b, v)
    BY DEF ConfigWork, MarkWork, StateWork
  <2> QED
    BY <1>1, <2>1, <2>2 DEF Wiped
<1>8. ~Upstream(b)'
  BY <1>1 DEF Upstream, Callers, Idle, NoItem, IsEvent
<1>9. RemoveLast(b)'
  BY <1>1 DEF RemoveLast
<1> QED
  BY <1>7, <1>8, <1>9 DEF Leaving, NoneUpstream

\* What Run has to do for one beacon is nothing it has to do for another.
LEMMA OtherWork ==
    ASSUME NEW b, NEW x, x # b, NEW s, NEW v, NEW u, NEW n
    PROVE  /\ /\ ConfigWork(x, s, v) # ConfigWork(b, u, n) /\ ConfigWork(x, s, v) # MarkWork(b, u, n)
              /\ ConfigWork(x, s, v) # StateWork(b, n) /\ ConfigWork(x, s, v) # RemoveWork(b)
           /\ /\ MarkWork(x, s, v) # ConfigWork(b, u, n) /\ MarkWork(x, s, v) # MarkWork(b, u, n)
              /\ MarkWork(x, s, v) # StateWork(b, n) /\ MarkWork(x, s, v) # RemoveWork(b)
           /\ /\ StateWork(x, v) # ConfigWork(b, u, n) /\ StateWork(x, v) # MarkWork(b, u, n)
              /\ StateWork(x, v) # StateWork(b, n) /\ StateWork(x, v) # RemoveWork(b)
           /\ /\ RemoveWork(x) # ConfigWork(b, u, n) /\ RemoveWork(x) # MarkWork(b, u, n)
              /\ RemoveWork(x) # StateWork(b, n) /\ RemoveWork(x) # RemoveWork(b)
<1> DEFINE Of(w, c) == w # <<>> /\ Head(w).beacon = c
<1>1. \A c, t, k : Of(ConfigWork(c, t, k), c) /\ Of(MarkWork(c, t, k), c)
                   /\ Of(StateWork(c, k), c) /\ Of(RemoveWork(c), c)
  BY DEF ConfigWork, MarkWork, StateWork, RemoveWork, Put, Mark
<1>2. \A w : ~(Of(w, x) /\ Of(w, b))
  OBVIOUS
<1> HIDE DEF Of
<1> QED
  BY <1>1, <1>2

\* An event of an untracked beacon that Run takes is followed by its remove.
LEMMA GhostReceive == ASSUME Shape, GhostInv, Receive PROVE GhostInv'
<1> SUFFICES ASSUME NEW b \in Beacons \ (tracked' \cup excused') PROVE Leaving(b)'
  BY DEF GhostInv
<1>1. /\ UNCHANGED <<tracked, events, caller, todo, broker, excused>>
      /\ work = <<>> /\ queue # <<>> /\ queue' = Tail(queue)
  BY ReceiveEffect DEF Receive, engineVars
<1>2. Leaving(b) /\ ChannelsOK
  BY <1>1 DEF GhostInv, Shape
<1>3. (NoneUpstream(b) => NoneUpstream(b)') /\ (Held(b) => Held(b)')
  BY <1>1 DEF NoneUpstream, Upstream, Held
<1>4. RemoveLast(b) => RemoveLast(b)'
  BY <1>1, <1>2, QueueShrinks
<1>5. \A s, v : /\ <<>> # ConfigWork(b, s, v) /\ <<>> # MarkWork(b, s, v)
                /\ <<>> # StateWork(b, v) /\ <<>> # RemoveWork(b)
  BY DEF ConfigWork, MarkWork, StateWork, RemoveWork
<1>6. Wiped(b) => b \notin seen /\ broker[b]["config"] = None /\ broker[b]["state"] = None
  BY <1>1, <1>5 DEF Wiped
<1>7. ASSUME NEW x \in Beacons, x # b, ~IsRemove(Head(queue), b),
             seen' \subseteq seen,
             \/ work' = RemoveWork(x)
             \/ \E s \in SUBSET Sensors, v \in Nat : work' = ConfigWork(x, s, v) \/ work' = StateWork(x, v)
      PROVE  Held(b)' \/ Queued(b)' \/ Wiped(b)'
  <2>1. Queued(b) => Queued(b)'
    BY <1>1, <1>2, <1>7, QueueShrinks
  <2>2. \A s, v : /\ work' # ConfigWork(b, s, v) /\ work' # MarkWork(b, s, v)
                  /\ work' # StateWork(b, v)
    BY <1>7, OtherWork
  <2>3. Wiped(b) => Wiped(b)'
    BY <1>1, <1>6, <1>7, <2>2 DEF Wiped
  <2> QED
    BY <1>2, <1>3, <2>1, <2>3 DEF Leaving
<1>8. Held(b)' \/ Queued(b)' \/ Wiped(b)'
  <2>1. CASE \E x \in Beacons :
                /\ Head(queue).kind = "remove" /\ Head(queue).beacon = x
                /\ work' = RemoveWork(x) /\ seen' = seen \ {x}
    <3>1. PICK x \in Beacons :
                /\ Head(queue).kind = "remove" /\ Head(queue).beacon = x
                /\ work' = RemoveWork(x) /\ seen' = seen \ {x}
      BY <2>1
    <3>2. CASE x = b
      <4>1. \A s, v : /\ work' # ConfigWork(b, s, v) /\ work' # MarkWork(b, s, v)
                      /\ work' # StateWork(b, v)
        BY <3>1, <3>2, WorkUnique
      <4> QED
        BY <3>1, <3>2, <4>1 DEF Wiped
    <3>3. CASE x # b
      BY <1>7, <3>1, <3>3 DEF IsRemove
    <3> QED
      BY <3>2, <3>3
  <2>2. CASE \E x \in Beacons, s \in SUBSET Sensors, v \in Nat :
                /\ Head(queue).kind = "event" /\ Head(queue).beacon = x
                /\ seen' = seen
                /\ work' = ConfigWork(x, s, v) \/ work' = StateWork(x, v)
    <3>1. PICK x \in Beacons, s \in SUBSET Sensors, v \in Nat :
                /\ Head(queue).kind = "event" /\ Head(queue).beacon = x
                /\ seen' = seen
                /\ work' = ConfigWork(x, s, v) \/ work' = StateWork(x, v)
      BY <2>2
    <3>2. CASE x = b
      <4>1. RemoveLast(b) => Queued(b)'
        BY <1>1, <1>2, <3>1, <3>2, QueueShrinks DEF IsEvent
      <4> QED
        BY <1>2, <1>3, <4>1 DEF Leaving
    <3>3. CASE x # b
      BY <1>7, <3>1, <3>3 DEF IsRemove
    <3> QED
      BY <3>2, <3>3
  <2> QED
    BY <2>1, <2>2, ReceiveEffect
<1> QED
  BY <1>2, <1>3, <1>4, <1>8 DEF Leaving

\* Run publishes what it has to do, or excuses a remove that the link loses.
LEMMA GhostPublish == ASSUME Shape, GhostInv, PublishOne PROVE GhostInv'
<1> SUFFICES ASSUME NEW b \in Beacons \ (tracked' \cup excused') PROVE Leaving(b)'
  BY DEF GhostInv
<1>1. /\ UNCHANGED <<tracked, events, caller, todo, queue, seen>>
      /\ excused \subseteq excused'
      /\ link = "down" /\ Head(work).val = None => Head(work).beacon \in excused'
  BY DEF PublishOne, engineVars, queueVars
<1>2. Leaving(b)
  BY <1>1 DEF GhostInv
<1> SUFFICES ASSUME Wiped(b) PROVE Wiped(b)'
  BY <1>1, <1>2 DEF Leaving, NoneUpstream, Upstream, Held, Queued, RemoveLast
<1>3. "config" \in Topics /\ "state" \in Topics /\ None \notin Nat
  BY NoneAssumption DEF Topics
<1>4. ASSUME NEW x \in Beacons, NEW s \in SUBSET Sensors, NEW v \in Nat,
             work = ConfigWork(x, s, v), work' = MarkWork(x, s, v), Stores(x, "config", s)
      PROVE  Wiped(b)'
  <2>1. x # b
    BY <1>4 DEF Wiped
  <2>2. work # RemoveWork(b) /\ work # StateWork(b, None)
    BY <1>4, <2>1, OtherWork
  <2>3. broker'[b]["config"] = None /\ broker'[b]["state"] = None
    BY <1>3, <1>4, <2>1, <2>2 DEF Wiped, Stores
  <2>4. \A u, n : /\ work' # ConfigWork(b, u, n) /\ work' # MarkWork(b, u, n)
                  /\ work' # StateWork(b, n)
    BY <1>4, <2>1, OtherWork
  <2> QED
    BY <1>1, <2>3, <2>4 DEF Wiped
<1>5. ASSUME NEW x \in Beacons, NEW v \in Nat \cup {None},
             work = StateWork(x, v), work' = <<>>, Stores(x, "state", v)
      PROVE  Wiped(b)'
  <2>1. broker[b]["config"] = None
    BY <1>5, WorkUnique DEF Wiped
  <2>2. \A u, n : /\ <<>> # ConfigWork(b, u, n) /\ <<>> # MarkWork(b, u, n)
                  /\ <<>> # StateWork(b, n)
    BY DEF ConfigWork, MarkWork, StateWork
  <2>3. broker'[b]["config"] = None
    BY <1>3, <1>5, <2>1 DEF Stores
  <2>4. broker'[b]["state"] = None
    <3>1. CASE x = b
      <4>1. v = None
        BY <1>5, <3>1 DEF Wiped
      <4>2. Head(work) = Put(b, "state", None)
        BY <1>5, <3>1, <4>1 DEF StateWork
      <4>3. link # "down"
        BY <1>1, <4>2 DEF Put
      <4> QED
        BY <1>3, <1>5, <3>1, <4>1, <4>3 DEF Stores
    <3>2. CASE x # b
      <4>1. work # RemoveWork(b) /\ work # StateWork(b, None)
        BY <1>5, <3>2, OtherWork
      <4> QED
        BY <1>3, <1>5, <3>2, <4>1 DEF Wiped, Stores
    <3> QED
      BY <3>1, <3>2
  <2> QED
    BY <1>1, <1>5, <2>2, <2>3, <2>4 DEF Wiped
<1>6. ASSUME NEW x \in Beacons,
             work = RemoveWork(x), work' = StateWork(x, None), Stores(x, "config", None)
      PROVE  Wiped(b)'
  <2>1. \A u \in SUBSET Sensors, n \in Nat :
           /\ work' # ConfigWork(b, u, n) /\ work' # MarkWork(b, u, n)
           /\ work' # StateWork(b, n)
    <3>1. \A u, n : work' # ConfigWork(b, u, n) /\ work' # MarkWork(b, u, n)
      BY <1>6, WorkUnique
    <3>2. ASSUME NEW n, work' = StateWork(b, n) PROVE n = None
      <4>1. StateWork(x, None)[1].val = None /\ StateWork(b, n)[1].val = n
        BY DEF StateWork, Put
      <4> QED
        BY <1>6, <3>2, <4>1
    <3> QED
      BY <1>3, <3>1, <3>2
  <2>2. CASE x = b
    <3>1. Head(work) = Put(b, "config", None)
      BY <1>6, <2>2 DEF RemoveWork
    <3>2. link # "down"
      BY <1>1, <3>1 DEF Put
    <3>3. broker'[b]["config"] = None
      BY <1>3, <1>6, <2>2, <3>2 DEF Stores
    <3> QED
      BY <1>1, <1>6, <2>1, <2>2, <3>3 DEF Wiped
  <2>3. CASE x # b
    <3>1. work # RemoveWork(b) /\ work # StateWork(b, None)
      BY <1>6, <2>3, OtherWork
    <3>2. broker'[b]["config"] = None /\ broker'[b]["state"] = None
      BY <1>3, <1>6, <2>3, <3>1 DEF Wiped, Stores
    <3> QED
      BY <1>1, <2>1, <3>2 DEF Wiped
  <2> QED
    BY <2>2, <2>3
<1> QED
  BY <1>4, <1>5, <1>6, PublishEffect

\* A mark is an event's.
LEMMA GhostMark == ASSUME Shape, GhostInv, MarkSeen PROVE GhostInv'
<1> SUFFICES ASSUME NEW b \in Beacons \ (tracked' \cup excused') PROVE Leaving(b)'
  BY DEF GhostInv
<1>1. UNCHANGED <<tracked, events, caller, todo, queue, broker, excused>>
  BY DEF MarkSeen, engineVars, queueVars
<1>2. Leaving(b)
  BY <1>1 DEF GhostInv
<1> SUFFICES ASSUME Wiped(b) PROVE Wiped(b)'
  BY <1>1, <1>2 DEF Leaving, NoneUpstream, Upstream, Held, Queued, RemoveLast
<1>3. PICK x \in Beacons, s \in SUBSET Sensors, v \in Nat :
         work = MarkWork(x, s, v) /\ work' = StateWork(x, v) /\ seen' = seen \cup {x}
  BY MarkEffect
<1>4. x # b
  BY <1>3 DEF Wiped
<1>5. work # RemoveWork(b) /\ work # StateWork(b, None)
  BY <1>3, <1>4, OtherWork
<1>6. \A u, n : /\ work' # ConfigWork(b, u, n) /\ work' # MarkWork(b, u, n)
                /\ work' # StateWork(b, n)
  BY <1>3, <1>4, OtherWork
<1> QED
  BY <1>1, <1>3, <1>4, <1>5, <1>6 DEF Wiped

\* Every step keeps it.
LEMMA GhostStep == Shape /\ GhostInv /\ [Next]_vars => GhostInv'
<1> SUFFICES ASSUME Shape, GhostInv, [Next]_vars PROVE GhostInv'
  OBVIOUS
<1>1. CASE UNCHANGED vars
  BY <1>1 DEF GhostInv, Leaving, NoneUpstream, Upstream, Held, Queued, RemoveLast, Wiped,
              vars, engineVars, queueVars, runVars
<1>2. ASSUME NEW c \in Callers, EnqueueStep(c) PROVE GhostInv'
  BY <1>2, GhostEvict, GhostRetry DEF EnqueueStep
<1>3. CASE RunStep
  BY <1>3, GhostReceive, GhostPublish, GhostMark DEF RunStep
<1>4. ASSUME NEW q \in Requests, NEW b \in Beacons, Demote(q, b) \/ AdminRemove(q, b)
      PROVE  GhostInv'
  BY <1>4, GhostDemote, GhostRemove
<1> QED
  BY <1>1, <1>2, <1>3, <1>4, GhostEngine, GhostPump, GhostLink, GhostRestart DEF Next

\* Once no remove of it is on its way, an untracked beacon is gone.
LEMMA GhostImplies == Shape /\ GhostInv => GhostsExplained
<1> SUFFICES ASSUME Shape, GhostInv, NEW b \in Beacons \ tracked, b \notin excused, ~Removing(b)
             PROVE  b \notin seen /\ \A t \in Topics : broker[b][t] = None
  BY DEF GhostsExplained
<1>1. queue \in Seq(Items)
  BY DEF Shape, ChannelsOK
<1>2. DOMAIN queue = 1..Len(queue)
  BY <1>1, LenProperties
<1>3. ~Held(b) /\ ~Queued(b)
  BY <1>2 DEF Removing, Held, Queued
<1>4. Wiped(b)
  BY <1>3 DEF GhostInv, Leaving
<1>5. work # RemoveWork(b) /\ work # StateWork(b, None)
  <2>1. /\ RemoveWork(b) # <<>> /\ Head(RemoveWork(b)) = Put(b, "config", None)
        /\ StateWork(b, None) # <<>> /\ Head(StateWork(b, None)) = Put(b, "state", None)
    BY DEF RemoveWork, StateWork
  <2>2. \A t : Put(b, t, None).beacon = b /\ Put(b, t, None).val = None
    BY DEF Put
  <2> QED
    BY <2>1, <2>2 DEF Removing
<1> QED
  BY <1>4, <1>5 DEF Wiped, Topics

\* A demotion leaves an entity behind only when its last remove was thrown away or
\* was enqueued while an event of the beacon was still on its way to the queue.
THEOREM GhostsAlwaysExplained == Spec => []GhostsExplained
BY ShapeInit, ShapeStep, GhostInit, GhostStep, GhostImplies, PTL DEF Spec

=============================================================================
