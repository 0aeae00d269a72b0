----------------------------- MODULE IngestProofs -----------------------------
(***************************************************************************)
(* Proofs about the ingest server and the retention worker for every set   *)
(* of POSTs, any number of handlers and every retention window: the        *)
(* heartbeat page and its metric agree, rows are kept for their window,    *)
(* adverts are accounted for, and a row points to the envelope of its POST.*)
(***************************************************************************)
EXTENDS Ingest, TLAPS, SequenceTheorems, FiniteSetTheorems, WellFoundedInduction

-----------------------------------------------------------------------------
(* Shapes.                                                                 *)

PostSteps == {"capture", "items", "submit"}

\* The handlers of a POST and of a heartbeat, when n POSTs have arrived.
PostHandler(n) ==
    [pc : PostSteps, post : 1..n, events : Posts, cfg : Settings, id : Nat \cup {None},
     k : Nat \ {0}]
BeatHandler(n) ==
    [pc : HbSteps, post : 1..n, online : OnlineCounts, cfg : Settings, id : Nat \cup {None}]

\* A handler, when the POSTs of b have arrived.
HandlerOK(h, b) ==
    \/ h = Idle
    \/ h \in PostHandler(Len(b)) /\ h.events = b[h.post]
    \/ h \in BeatHandler(Len(b))

Shape ==
    /\ now \in Nat /\ nextID \in Nat /\ settings \in Settings
    /\ count \in [Counters -> Int]
    /\ bodies \in Seq(Posts \cup {<<>>})
    /\ DOMAIN req = Requests
    /\ \A r \in Requests : HandlerOK(req[r], bodies)

\* A handler stays well formed when more POSTs arrive.
LEMMA HandlerKept ==
    ASSUME Shape, NEW h, HandlerOK(h, bodies),
           bodies' = bodies \/ \E p \in Posts \cup {<<>>} : bodies' = Append(bodies, p)
    PROVE  HandlerOK(h, bodies')
<1>1. CASE bodies' = bodies
  BY <1>1 DEF HandlerOK
<1>2. ASSUME NEW p \in Posts \cup {<<>>}, bodies' = Append(bodies, p) PROVE HandlerOK(h, bodies')
  <2>1. /\ Len(bodies) \in Nat /\ Len(bodies') = Len(bodies) + 1
        /\ \A i \in 1..Len(bodies) : bodies'[i] = bodies[i]
    BY <1>2, AppendProperties, LenProperties DEF Shape
  <2>2. 1..Len(bodies) \subseteq 1..Len(bodies')
    BY <2>1
  <2>3. CASE h \in PostHandler(Len(bodies)) /\ h.events = bodies[h.post]
    <3>1. h.post \in 1..Len(bodies)
      BY <2>3 DEF PostHandler
    <3>2. h \in PostHandler(Len(bodies'))
      BY <2>2, <2>3 DEF PostHandler
    <3> QED
      BY <2>1, <2>3, <3>1, <3>2 DEF HandlerOK
  <2>4. CASE h \in BeatHandler(Len(bodies))
    BY <2>2, <2>4 DEF BeatHandler, HandlerOK
  <2> QED
    BY <2>3, <2>4 DEF HandlerOK
<1> QED
  BY <1>1, <1>2

-----------------------------------------------------------------------------
(* What the steps of a handler do.                                         *)

\* Only r's handler changes, to h.
Turns(r, h) ==
    /\ DOMAIN req' = Requests /\ req'[r] = h
    /\ \A q \in Requests : q # r => req'[q] = req[q]

\* A handler of the same POST at step c, at item k, with envelope i.
Post(h, c, k, i) ==
    [pc |-> c, post |-> h.post, events |-> h.events, cfg |-> h.cfg, id |-> i, k |-> k]
Beat(h, c, i) ==
    [pc |-> c, post |-> h.post, online |-> h.online, cfg |-> h.cfg, id |-> i]

\* Replacing a handler.
LEMMA Turning ==
    ASSUME Shape, NEW r \in Requests, NEW h, req' = [req EXCEPT ![r] = h]
    PROVE  Turns(r, h)
BY DEF Shape, Turns

\* A handler's step tells which kind of handler it is.
LEMMA KindOf ==
    ASSUME Shape, NEW r \in Requests
    PROVE  /\ req[r].pc \in PostSteps => /\ req[r] \in PostHandler(Len(bodies))
                                         /\ req[r].events = bodies[req[r].post]
           /\ req[r].pc \in HbSteps => req[r] \in BeatHandler(Len(bodies))
           /\ req[r].pc = "idle" <=> req[r] = Idle
<1>1. HandlerOK(req[r], bodies)
  BY DEF Shape
<1>2. Idle.pc = "idle"
  BY DEF Idle
<1>3. /\ \A n, h : h \in PostHandler(n) => h.pc \in PostSteps
      /\ \A n, h : h \in BeatHandler(n) => h.pc \in HbSteps
  BY DEF PostHandler, BeatHandler
<1> QED
  BY <1>1, <1>2, <1>3 DEF HandlerOK, PostSteps, HbSteps

\* maybeRecordRawPost: no envelope, or one with the next id of the sequence; an
\* id may be lost.
Records(r, i) ==
    \/ /\ i = req[r].id /\ queued' = queued /\ nextID' \in {nextID, nextID + 1}
    \/ /\ i = nextID /\ nextID' = nextID + 1
       /\ queued' = [queued EXCEPT !.raw = queued.raw \cup
                        {[id |-> nextID, post |-> req[r].post, at |-> 0]}]

\* Capture of a POST.
LEMMA CaptureEffect ==
    ASSUME Shape, NEW r \in Requests, Capture(r)
    PROVE  /\ req[r] \in PostHandler(Len(bodies)) /\ req[r].pc = "capture"
           /\ \E i \in Nat \cup {None} : /\ Records(r, i)
                                         /\ Turns(r, Post(req[r], "items", req[r].k, i))
           /\ count' = [count EXCEPT
                !["events"] = count["events"] + Len(req[r].events),
                !["parserErrors"] = count["parserErrors"] + Len(req[r].events)
                                       - Len(Items(req[r].events))]
           /\ UNCHANGED <<now, settings, tables, runner, bodies, tracked, hbOnline, hbGauge, hbOverlap>>
<1> DEFINE next == [req[r] EXCEPT !.pc = "items"]
<1>1. /\ req[r].pc = "capture" /\ RecordRawPost(r, next)
      /\ count' = [count EXCEPT
            !["events"] = count["events"] + Len(req[r].events),
            !["parserErrors"] = count["parserErrors"] + Len(req[r].events)
                                   - Len(Items(req[r].events))]
      /\ UNCHANGED <<now, settings, tables, runner, bodies, tracked, hbOnline, hbGauge, hbOverlap>>
  BY DEF Capture
<1>2. req[r] \in PostHandler(Len(bodies))
  BY <1>1, KindOf DEF PostSteps
<1>3. /\ req[r].id \in Nat \cup {None} /\ nextID \in Nat
      /\ next = Post(req[r], "items", req[r].k, req[r].id)
      /\ [next EXCEPT !.id = nextID] = Post(req[r], "items", req[r].k, nextID)
  <2>1. req[r].id \in Nat \cup {None} /\ nextID \in Nat
    BY <1>2 DEF PostHandler, Shape
  <2>2. next = Post(req[r], "items", req[r].k, req[r].id)
    BY <1>2 DEF PostHandler, Post
  <2>3. [Post(req[r], "items", req[r].k, req[r].id) EXCEPT !.id = nextID]
           = Post(req[r], "items", req[r].k, nextID)
    BY DEF Post
  <2> QED
    BY <2>1, <2>2, <2>3
<1> HIDE DEF next
<1>4. \E i \in Nat \cup {None} : Records(r, i) /\ Turns(r, Post(req[r], "items", req[r].k, i))
  <2>1. CASE req' = [req EXCEPT ![r] = next] /\ queued' = queued /\ nextID' \in {nextID, nextID + 1}
    BY <1>3, <2>1, Turning DEF Records
  <2>2. CASE /\ req' = [req EXCEPT ![r] = [next EXCEPT !.id = nextID]]
             /\ queued' = [queued EXCEPT !.raw = queued.raw \cup
                              {[id |-> nextID, post |-> req[r].post, at |-> 0]}]
             /\ nextID' = nextID + 1
    BY <1>3, <2>2, Turning DEF Records
  <2> QED
    BY <1>1, <2>1, <2>2 DEF RecordRawPost
<1> QED
  BY <1>1, <1>2, <1>4

\* Capture of a heartbeat.
LEMMA BeatCaptureEffect ==
    ASSUME Shape, NEW r \in Requests, HeartbeatCapture(r)
    PROVE  /\ req[r] \in BeatHandler(Len(bodies)) /\ req[r].pc = "hb"
           /\ \E i \in Nat \cup {None} : Records(r, i) /\ Turns(r, Beat(req[r], "hbSet", i))
           /\ UNCHANGED <<now, settings, tables, runner, bodies, tracked, count, hbOnline, hbGauge,
                          hbOverlap>>
<1> DEFINE next == [req[r] EXCEPT !.pc = "hbSet"]
<1>1. /\ req[r].pc = "hb" /\ RecordRawPost(r, next)
      /\ UNCHANGED <<now, settings, tables, runner, bodies, tracked, count, hbOnline, hbGauge,
                     hbOverlap>>
  BY DEF HeartbeatCapture
<1>2. req[r] \in BeatHandler(Len(bodies))
  BY <1>1, KindOf DEF HbSteps
<1>3. /\ req[r].id \in Nat \cup {None} /\ nextID \in Nat
      /\ next = Beat(req[r], "hbSet", req[r].id)
      /\ [next EXCEPT !.id = nextID] = Beat(req[r], "hbSet", nextID)
  <2>1. req[r].id \in Nat \cup {None} /\ nextID \in Nat
    BY <1>2 DEF BeatHandler, Shape
  <2>2. next = Beat(req[r], "hbSet", req[r].id)
    BY <1>2 DEF BeatHandler, Beat
  <2>3. [Beat(req[r], "hbSet", req[r].id) EXCEPT !.id = nextID] = Beat(req[r], "hbSet", nextID)
    BY DEF Beat
  <2> QED
    BY <2>1, <2>2, <2>3
<1> HIDE DEF next
<1>4. \E i \in Nat \cup {None} : Records(r, i) /\ Turns(r, Beat(req[r], "hbSet", i))
  <2>1. CASE req' = [req EXCEPT ![r] = next] /\ queued' = queued /\ nextID' \in {nextID, nextID + 1}
    BY <1>3, <2>1, Turning DEF Records
  <2>2. CASE /\ req' = [req EXCEPT ![r] = [next EXCEPT !.id = nextID]]
             /\ queued' = [queued EXCEPT !.raw = queued.raw \cup
                              {[id |-> nextID, post |-> req[r].post, at |-> 0]}]
             /\ nextID' = nextID + 1
    BY <1>3, <2>2, Turning DEF Records
  <2> QED
    BY <1>1, <2>1, <2>2 DEF RecordRawPost
<1> QED
  BY <1>1, <1>2, <1>4

\* The arrival of a POST or a heartbeat, by a handler that was free.
LEMMA AcceptEffect ==
    ASSUME Shape, NEW r \in Requests, NEW p \in Posts, Accept(r, p)
    PROVE  /\ req[r] = Idle /\ bodies' = Append(bodies, p)
           /\ Turns(r, [pc |-> "capture", post |-> Len(bodies) + 1, events |-> p,
                        cfg |-> settings, id |-> None, k |-> 1])
           /\ UNCHANGED <<now, settings, queued, tables, runner, tracked, nextID, count,
                          hbOnline, hbGauge, hbOverlap>>
<1>1. /\ req[r].pc = "idle" /\ bodies' = Append(bodies, p)
      /\ req' = [req EXCEPT ![r] = [pc |-> "capture", post |-> Len(bodies) + 1, events |-> p,
                                    cfg |-> settings, id |-> None, k |-> 1]]
      /\ UNCHANGED <<now, settings, queued, tables, runner, tracked, nextID, count,
                     hbOnline, hbGauge, hbOverlap>>
  BY DEF Accept, Arrives
<1> QED
  BY <1>1, KindOf, Turning

\* The arrival of a heartbeat.
LEMMA HeartbeatEffect ==
    ASSUME Shape, NEW r \in Requests, NEW n \in OnlineCounts, Heartbeat(r, n)
    PROVE  /\ req[r] = Idle /\ bodies' = Append(bodies, <<>>)
           /\ Turns(r, [pc |-> "hb", post |-> Len(bodies) + 1, online |-> n,
                        cfg |-> settings, id |-> None])
           /\ hbOverlap' = (HbRunning # {})
           /\ UNCHANGED <<now, settings, queued, tables, runner, tracked, nextID, count,
                          hbOnline, hbGauge>>
<1>1. /\ req[r].pc = "idle" /\ bodies' = Append(bodies, <<>>)
      /\ req' = [req EXCEPT ![r] = [pc |-> "hb", post |-> Len(bodies) + 1, online |-> n,
                                    cfg |-> settings, id |-> None]]
      /\ hbOverlap' = (HbRunning # {})
      /\ UNCHANGED <<now, settings, queued, tables, runner, tracked, nextID, count,
                     hbOnline, hbGauge>>
  BY DEF Heartbeat, Arrives
<1> QED
  BY <1>1, KindOf, Turning

\* What pass 2 leaves alone.
passVars == <<now, settings, tables, runner, bodies, tracked, nextID, hbOnline, hbGauge, hbOverlap>>

\* An advert without an identity.
LEMMA AnonymousEffect ==
    ASSUME Shape, NEW r \in Requests, Anonymous(r)
    PROVE  /\ req[r] \in PostHandler(Len(bodies)) /\ AtItem(r)
           /\ Turns(r, Post(req[r], "items", req[r].k + 1, req[r].id))
           /\ count' = [count EXCEPT !["anonymous"] = count["anonymous"] + 1]
           /\ UNCHANGED <<passVars, queued>>
<1>1. /\ AtItem(r) /\ count' = [count EXCEPT !["anonymous"] = count["anonymous"] + 1]
      /\ req' = [req EXCEPT ![r] = [req[r] EXCEPT !.k = req[r].k + 1]]
      /\ UNCHANGED <<passVars, queued>>
  BY DEF Anonymous, Bump, passVars, retentionVars
<1>2. req[r].pc = "items" /\ req[r] \in PostHandler(Len(bodies))
  BY <1>1, KindOf DEF AtItem, PostSteps
<1>3. [req[r] EXCEPT !.k = req[r].k + 1] = Post(req[r], "items", req[r].k + 1, req[r].id)
  BY <1>2 DEF PostHandler, Post
<1>4. Turns(r, [req[r] EXCEPT !.k = req[r].k + 1])
  BY <1>1, Turning
<1> QED
  BY <1>1, <1>2, <1>3, <1>4

\* An identity, tracked or not.
LEMMA ObserveEffect ==
    ASSUME Shape, NEW r \in Requests, Observe(r)
    PROVE  /\ req[r] \in PostHandler(Len(bodies)) /\ AtItem(r)
           /\ queued' = [queued EXCEPT !.obs = queued.obs \cup
                            {RowOf(r, Item(r), Item(r).key \in tracked)}]
           /\ \/ /\ Turns(r, Post(req[r], "submit", req[r].k, req[r].id))
                 /\ \E bad \in {0, 1} :
                       count' = [count EXCEPT
                            !["kinds"] = count["kinds"] + 1, !["unknown"] = count["unknown"] + 0,
                            !["badTimestamp"] = count["badTimestamp"] + bad]
              \/ /\ Turns(r, Post(req[r], "items", req[r].k + 1, req[r].id))
                 /\ \E bad \in {0, 1} :
                       count' = [count EXCEPT
                            !["kinds"] = count["kinds"] + 1, !["unknown"] = count["unknown"] + 1,
                            !["badTimestamp"] = count["badTimestamp"] + bad]
           /\ UNCHANGED passVars
<1> DEFINE isTracked == Item(r).key \in tracked
<1>1. /\ AtItem(r)
      /\ count' = [count EXCEPT !["kinds"] = count["kinds"] + 1,
                                !["unknown"] = count["unknown"] + IF isTracked THEN 0 ELSE 1,
                                !["badTimestamp"] = count["badTimestamp"]
                                                      + IF Item(r).ts <= 0 THEN 1 ELSE 0]
      /\ queued' = [queued EXCEPT !.obs = queued.obs \cup {RowOf(r, Item(r), isTracked)}]
      /\ req' = [req EXCEPT ![r] = AfterLookup(r, isTracked)]
      /\ UNCHANGED passVars
  BY DEF Observe, passVars
<1>2. req[r].pc = "items" /\ req[r] \in PostHandler(Len(bodies))
  BY <1>1, KindOf DEF AtItem, PostSteps
<1>3. (IF Item(r).ts <= 0 THEN 1 ELSE 0) \in {0, 1}
  OBVIOUS
<1>4. [req[r] EXCEPT !.k = req[r].k + 1] = Post(req[r], "items", req[r].k + 1, req[r].id)
  BY <1>2 DEF PostHandler, Post
<1>5. [req[r] EXCEPT !.pc = "submit"] = Post(req[r], "submit", req[r].k, req[r].id)
  BY <1>2 DEF PostHandler, Post
<1>6. Turns(r, AfterLookup(r, isTracked))
  BY <1>1, Turning
<1>7. CASE isTracked
  <2>1. AfterLookup(r, isTracked) = Post(req[r], "submit", req[r].k, req[r].id)
    BY <1>5, <1>7 DEF AfterLookup
  <2>2. \E bad \in {0, 1} :
           count' = [count EXCEPT
                !["kinds"] = count["kinds"] + 1, !["unknown"] = count["unknown"] + 0,
                !["badTimestamp"] = count["badTimestamp"] + bad]
    BY <1>1, <1>3, <1>7
  <2> QED
    BY <1>1, <1>2, <1>6, <2>1, <2>2
<1>8. CASE ~isTracked
  <2>1. AfterLookup(r, isTracked) = Post(req[r], "items", req[r].k + 1, req[r].id)
    BY <1>4, <1>8 DEF AfterLookup
  <2>2. \E bad \in {0, 1} :
           count' = [count EXCEPT
                !["kinds"] = count["kinds"] + 1, !["unknown"] = count["unknown"] + 1,
                !["badTimestamp"] = count["badTimestamp"] + bad]
    BY <1>1, <1>3, <1>8
  <2> QED
    BY <1>1, <1>2, <1>6, <2>1, <2>2
<1> QED
  BY <1>7, <1>8

\* The engine's own look.
LEMMA SubmitEffect ==
    ASSUME Shape, NEW r \in Requests, Submit(r)
    PROVE  /\ req[r] \in PostHandler(Len(bodies)) /\ req[r].pc = "submit"
           /\ Turns(r, Post(req[r], "items", req[r].k + 1, req[r].id))
           /\ \E c \in {"applied", "unknown"} : count' = [count EXCEPT ![c] = count[c] + 1]
           /\ UNCHANGED <<passVars, queued>>
<1>1. /\ req[r].pc = "submit"
      /\ req' = [req EXCEPT ![r] = [req[r] EXCEPT !.pc = "items", !.k = req[r].k + 1]]
      /\ UNCHANGED <<passVars, queued>>
  <2>1. req[r].pc = "submit" /\ UNCHANGED <<passVars, queued>>
    BY DEF Submit, passVars, retentionVars
  <2>2. req' = [req EXCEPT ![r] = [req[r] EXCEPT !.pc = "items", !.k = req[r].k + 1]]
    BY DEF Submit
  <2> QED
    BY <2>1, <2>2
<1>2. \E c \in {"applied", "unknown"} : count' = [count EXCEPT ![c] = count[c] + 1]
  BY DEF Submit, Bump
<1>3. req[r] \in PostHandler(Len(bodies))
  BY <1>1, KindOf DEF PostSteps
<1>4. [req[r] EXCEPT !.pc = "items", !.k = req[r].k + 1]
         = [[req[r] EXCEPT !.pc = "items"] EXCEPT !.k = req[r].k + 1]
  OBVIOUS
<1>5. [req[r] EXCEPT !.pc = "items"] = Post(req[r], "items", req[r].k, req[r].id)
  BY <1>3 DEF PostHandler, Post
<1>6. [Post(req[r], "items", req[r].k, req[r].id) EXCEPT !.k = req[r].k + 1]
         = Post(req[r], "items", req[r].k + 1, req[r].id)
  BY DEF Post
<1>7. Turns(r, [req[r] EXCEPT !.pc = "items", !.k = req[r].k + 1])
  BY <1>1, Turning
<1> QED
  BY <1>1, <1>2, <1>3, <1>4, <1>5, <1>6, <1>7

\* The end of a POST.
LEMMA FinishEffect ==
    ASSUME Shape, NEW r \in Requests, Finish(r)
    PROVE  /\ req[r] \in PostHandler(Len(bodies)) /\ req[r].pc = "items" /\ ~AtItem(r)
           /\ Turns(r, Idle) /\ UNCHANGED <<passVars, queued, count>>
<1>1. /\ req[r].pc = "items" /\ ~AtItem(r) /\ req' = [req EXCEPT ![r] = Idle]
      /\ UNCHANGED <<passVars, queued, count>>
  BY DEF Finish, passVars, retentionVars
<1> QED
  BY <1>1, KindOf, Turning DEF PostSteps

\* A heartbeat is stored, then shown.
LEMMA BeatEffect ==
    ASSUME Shape, NEW r \in Requests
    PROVE  /\ OnHeartbeat(r) =>
                /\ req[r] \in BeatHandler(Len(bodies)) /\ req[r].pc = "hbSet"
                /\ Turns(r, Beat(req[r], "hbGauge", req[r].id))
                /\ hbOnline' = req[r].online
                /\ UNCHANGED <<retentionVars, bodies, tracked, nextID, count, hbGauge, hbOverlap>>
           /\ HeartbeatDone(r) =>
                /\ req[r] \in BeatHandler(Len(bodies)) /\ req[r].pc = "hbGauge"
                /\ Turns(r, Idle) /\ hbGauge' = req[r].online
                /\ UNCHANGED <<retentionVars, bodies, tracked, nextID, count, hbOnline, hbOverlap>>
<1>1. ASSUME OnHeartbeat(r)
      PROVE  /\ req[r] \in BeatHandler(Len(bodies)) /\ req[r].pc = "hbSet"
             /\ Turns(r, Beat(req[r], "hbGauge", req[r].id))
             /\ hbOnline' = req[r].online
             /\ UNCHANGED <<retentionVars, bodies, tracked, nextID, count, hbGauge, hbOverlap>>
  <2>1. /\ req[r].pc = "hbSet" /\ hbOnline' = req[r].online
        /\ req' = [req EXCEPT ![r] = [req[r] EXCEPT !.pc = "hbGauge"]]
        /\ UNCHANGED <<retentionVars, bodies, tracked, nextID, count, hbGauge, hbOverlap>>
    BY <1>1 DEF OnHeartbeat
  <2>2. req[r] \in BeatHandler(Len(bodies))
    BY <2>1, KindOf DEF HbSteps
  <2>3. [req[r] EXCEPT !.pc = "hbGauge"] = Beat(req[r], "hbGauge", req[r].id)
    BY <2>2 DEF BeatHandler, Beat
  <2>4. Turns(r, [req[r] EXCEPT !.pc = "hbGauge"])
    BY <2>1, Turning
  <2> QED
    BY <2>1, <2>2, <2>3, <2>4
<1>2. ASSUME HeartbeatDone(r)
      PROVE  /\ req[r] \in BeatHandler(Len(bodies)) /\ req[r].pc = "hbGauge"
             /\ Turns(r, Idle) /\ hbGauge' = req[r].online
             /\ UNCHANGED <<retentionVars, bodies, tracked, nextID, count, hbOnline, hbOverlap>>
  <2>1. /\ req[r].pc = "hbGauge" /\ hbGauge' = req[r].online
        /\ req' = [req EXCEPT ![r] = Idle]
        /\ UNCHANGED <<retentionVars, bodies, tracked, nextID, count, hbOnline, hbOverlap>>
    BY <1>2 DEF HeartbeatDone, GaugeValue
  <2> QED
    BY <2>1, KindOf, Turning DEF HbSteps
<1> QED
  BY <1>1, <1>2

-----------------------------------------------------------------------------
(* Shape is kept.                                                          *)

\* At boot.
LEMMA ShapeInit == Init => Shape
<1> SUFFICES ASSUME Init PROVE Shape
  OBVIOUS
<1>1. now \in Nat /\ nextID \in Nat /\ settings \in Settings
  BY RetentionAssumption DEF Init, RetentionInit, Settings
<1>2. count \in [Counters -> Int] /\ bodies \in Seq(Posts \cup {<<>>})
  BY DEF Init
<1>3. DOMAIN req = Requests /\ \A r \in Requests : HandlerOK(req[r], bodies)
  BY DEF Init, HandlerOK
<1> QED
  BY <1>1, <1>2, <1>3 DEF Shape

\* POSTs arrive, or none does.
Grown == bodies' = bodies \/ \E p \in Posts \cup {<<>>} : bodies' = Append(bodies, p)

\* The history of POSTs stays a sequence.
LEMMA GrownSeq == ASSUME Shape, Grown PROVE bodies' \in Seq(Posts \cup {<<>>})
<1>1. bodies \in Seq(Posts \cup {<<>>})
  BY DEF Shape
<1> QED
  BY <1>1, AppendProperties DEF Grown

\* One handler's step.
LEMMA TurnShape ==
    ASSUME Shape, Grown, NEW r \in Requests, NEW h, Turns(r, h), HandlerOK(h, bodies'),
           now' \in Nat, nextID' \in Nat, settings' \in Settings, count' \in [Counters -> Int]
    PROVE  Shape'
<1>1. bodies' \in Seq(Posts \cup {<<>>})
  BY GrownSeq
<1>2. \A q \in Requests : HandlerOK(req'[q], bodies')
  BY HandlerKept DEF Shape, Grown, Turns
<1> QED
  BY <1>1, <1>2 DEF Shape, Turns

\* Steps that leave the handlers alone.
LEMMA StillShape ==
    ASSUME Shape, Grown, req' = req,
           now' \in Nat, nextID' \in Nat, settings' \in Settings, count' \in [Counters -> Int]
    PROVE  Shape'
<1>1. bodies' \in Seq(Posts \cup {<<>>})
  BY GrownSeq
<1>2. \A q \in Requests : HandlerOK(req'[q], bodies')
  BY HandlerKept DEF Shape, Grown
<1> QED
  BY <1>1, <1>2 DEF Shape

\* The next step of a POST's handler is well formed.
LEMMA NextPost ==
    ASSUME Shape, NEW r \in Requests, req[r].pc \in PostSteps, NEW c \in PostSteps,
           NEW k \in Nat \ {0}, NEW i \in Nat \cup {None}
    PROVE  HandlerOK(Post(req[r], c, k, i), bodies)
<1>1. req[r] \in PostHandler(Len(bodies)) /\ req[r].events = bodies[req[r].post]
  BY KindOf
<1>2. Post(req[r], c, k, i) \in PostHandler(Len(bodies))
  BY <1>1 DEF Post, PostHandler
<1>3. Post(req[r], c, k, i).events = req[r].events /\ Post(req[r], c, k, i).post = req[r].post
  BY DEF Post
<1> QED
  BY <1>1, <1>2, <1>3 DEF HandlerOK

\* The next step of a heartbeat's handler is well formed.
LEMMA NextBeat ==
    ASSUME Shape, NEW r \in Requests, req[r].pc \in HbSteps, NEW c \in HbSteps,
           NEW i \in Nat \cup {None}
    PROVE  HandlerOK(Beat(req[r], c, i), bodies)
<1>1. req[r] \in BeatHandler(Len(bodies))
  BY KindOf
<1>2. Beat(req[r], c, i) \in BeatHandler(Len(bodies))
  BY <1>1 DEF Beat, BeatHandler
<1> QED
  BY <1>2 DEF HandlerOK

\* A new handler is well formed.
LEMMA Arrived ==
    ASSUME Shape, NEW p \in Posts \cup {<<>>}, bodies' = Append(bodies, p)
    PROVE  /\ Len(bodies) \in Nat /\ Len(bodies') = Len(bodies) + 1
           /\ bodies'[Len(bodies) + 1] = p
           /\ \A i \in 1..Len(bodies) : bodies'[i] = bodies[i]
           /\ Len(bodies) + 1 \in 1..Len(bodies')
<1>1. /\ Len(bodies) \in Nat /\ Len(bodies') = Len(bodies) + 1
      /\ bodies'[Len(bodies) + 1] = p
      /\ \A i \in 1..Len(bodies) : bodies'[i] = bodies[i]
  BY AppendProperties, LenProperties DEF Shape
<1> QED
  BY <1>1

\* The handlers' steps keep the shapes.
LEMMA HandleShape ==
    ASSUME Shape, NEW r \in Requests, Handle(r)
    PROVE  Shape'
<1>1. now \in Nat /\ nextID \in Nat /\ settings \in Settings /\ count \in [Counters -> Int]
  BY DEF Shape
<1>2. \A a \in Counters : count[a] \in Int
  BY <1>1
<1>3. \A i \in Nat \cup {None} : Records(r, i) => nextID' \in Nat
  BY <1>1 DEF Records
<1>4. ASSUME bodies' = bodies, NEW h, Turns(r, h), HandlerOK(h, bodies), UNCHANGED <<now, settings>>,
             nextID' \in Nat, count' \in [Counters -> Int]
      PROVE  Shape'
  BY <1>1, <1>4, TurnShape DEF Grown
<1>5. CASE Capture(r)
  <2>1. PICK i \in Nat \cup {None} : Records(r, i) /\ Turns(r, Post(req[r], "items", req[r].k, i))
    BY <1>5, CaptureEffect
  <2>2. /\ req[r] \in PostHandler(Len(bodies)) /\ req[r].pc = "capture"
        /\ UNCHANGED <<now, settings, bodies>>
    BY <1>5, CaptureEffect
  <2>3. req[r].k \in Nat \ {0} /\ req[r].events \in Posts
    BY <2>2 DEF PostHandler
  <2>4. HandlerOK(Post(req[r], "items", req[r].k, i), bodies)
    BY <2>2, <2>3, NextPost DEF PostSteps
  <2>5. count' \in [Counters -> Int]
    <3>1. Len(req[r].events) \in Int /\ Len(Items(req[r].events)) \in Int
      BY <2>3, PostsAssumption DEF Items
    <3>2. count' = [count EXCEPT
                !["events"] = count["events"] + Len(req[r].events),
                !["parserErrors"] = count["parserErrors"] + Len(req[r].events)
                                       - Len(Items(req[r].events))]
      BY <1>5, CaptureEffect
    <3>3. ASSUME NEW x \in Int, NEW y \in Int
          PROVE  [count EXCEPT !["events"] = x, !["parserErrors"] = y] \in [Counters -> Int]
      BY <1>1 DEF Counters
    <3>4. /\ count["events"] + Len(req[r].events) \in Int
          /\ count["parserErrors"] + Len(req[r].events) - Len(Items(req[r].events)) \in Int
      <4>1. count["events"] \in Int /\ count["parserErrors"] \in Int
        BY <1>2 DEF Counters
      <4>2. \A a, d, m, n \in Int : a + m \in Int /\ d + m - n \in Int
        OBVIOUS
      <4> QED
        BY <3>1, <4>1, <4>2
    <3> QED
      BY <3>2, <3>3, <3>4
  <2> QED
    BY <1>3, <1>4, <2>1, <2>2, <2>4, <2>5
<1>6. CASE HeartbeatCapture(r)
  <2>1. PICK i \in Nat \cup {None} : Records(r, i) /\ Turns(r, Beat(req[r], "hbSet", i))
    BY <1>6, BeatCaptureEffect
  <2>2. req[r].pc = "hb" /\ UNCHANGED <<now, settings, bodies, count>>
    BY <1>6, BeatCaptureEffect
  <2>3. HandlerOK(Beat(req[r], "hbSet", i), bodies)
    BY <2>2, NextBeat DEF HbSteps
  <2> QED
    BY <1>1, <1>3, <1>4, <2>1, <2>2, <2>3
<1>7. CASE Anonymous(r) \/ Observe(r) \/ Submit(r)
  <2>1. /\ req[r].pc \in PostSteps /\ req[r] \in PostHandler(Len(bodies))
        /\ UNCHANGED <<now, settings, bodies, nextID>>
        /\ \/ Turns(r, Post(req[r], "submit", req[r].k, req[r].id))
           \/ Turns(r, Post(req[r], "items", req[r].k + 1, req[r].id))
    BY <1>7, AnonymousEffect, ObserveEffect, SubmitEffect DEF passVars, PostHandler
  <2>2. req[r].k \in Nat \ {0} /\ req[r].k + 1 \in Nat \ {0} /\ req[r].id \in Nat \cup {None}
    BY <2>1 DEF PostHandler
  <2>3. /\ HandlerOK(Post(req[r], "submit", req[r].k, req[r].id), bodies)
        /\ HandlerOK(Post(req[r], "items", req[r].k + 1, req[r].id), bodies)
    BY <2>1, <2>2, NextPost DEF PostSteps
  <2>4. count' \in [Counters -> Int]
    <3>1. CASE Anonymous(r)
      BY <1>1, <3>1, AnonymousEffect DEF Counters
    <3>2. CASE Submit(r)
      BY <1>1, <3>2, SubmitEffect DEF Counters
    <3>3. CASE Observe(r)
      <4>1. PICK a \in {0, 1}, d \in {0, 1} :
               count' = [count EXCEPT
                  !["kinds"] = count["kinds"] + 1, !["unknown"] = count["unknown"] + a,
                  !["badTimestamp"] = count["badTimestamp"] + d]
        BY <3>3, ObserveEffect
      <4> QED
        BY <1>1, <4>1 DEF Counters
    <3> QED
      BY <1>7, <3>1, <3>2, <3>3
  <2> QED
    BY <1>1, <1>4, <2>1, <2>3, <2>4
<1>8. CASE Finish(r)
  <2>1. Turns(r, Idle) /\ UNCHANGED <<now, settings, bodies, nextID, count>>
    BY <1>8, FinishEffect DEF passVars
  <2>2. HandlerOK(Idle, bodies)
    BY DEF HandlerOK
  <2> QED
    BY <1>1, <1>4, <2>1, <2>2
<1>9. CASE OnHeartbeat(r) \/ HeartbeatDone(r)
  <2>1. /\ req[r].pc \in HbSteps /\ req[r] \in BeatHandler(Len(bodies))
        /\ UNCHANGED <<now, settings, bodies, nextID, count>>
        /\ Turns(r, Beat(req[r], "hbGauge", req[r].id)) \/ Turns(r, Idle)
    BY <1>9, BeatEffect DEF retentionVars, BeatHandler
  <2>2. req[r].id \in Nat \cup {None}
    BY <2>1 DEF BeatHandler
  <2>3. HandlerOK(Beat(req[r], "hbGauge", req[r].id), bodies) /\ HandlerOK(Idle, bodies)
    BY <2>1, <2>2, NextBeat DEF HbSteps, HandlerOK
  <2> QED
    BY <1>1, <1>4, <2>1, <2>3
<1> QED
  BY <1>5, <1>6, <1>7, <1>8, <1>9 DEF Handle

\* Every step keeps the shapes.
LEMMA ShapeStep == Shape /\ [Next]_vars => Shape'
<1> SUFFICES ASSUME Shape, [Next]_vars PROVE Shape'
  OBVIOUS
<1>1. now \in Nat /\ nextID \in Nat /\ settings \in Settings /\ count \in [Counters -> Int]
  BY DEF Shape
<1>2. CASE RetentionNext /\ UNCHANGED ingestVars
  <2>1. now' \in {now, now + 1} /\ settings' = settings
    BY <1>2 DEF RetentionNext, Advance, StartPrune, PruneObservations, PruneRawPosts,
                PruneFails, Flush, FlushUnanswered, Lose
  <2>2. UNCHANGED <<req, bodies, nextID, count>>
    BY <1>2 DEF ingestVars
  <2> QED
    BY <1>1, <2>1, <2>2, StillShape DEF Grown
<1>3. ASSUME NEW r \in Requests, Reject(r) PROVE Shape'
  <2>1. /\ req' = req /\ bodies' = Append(bodies, <<>>) /\ UNCHANGED <<now, settings, nextID>>
        /\ count' = [count EXCEPT !["rejected"] = count["rejected"] + 1]
    BY <1>3 DEF Reject, Bump
  <2>2. count' \in [Counters -> Int]
    BY <1>1, <2>1 DEF Counters
  <2> QED
    BY <1>1, <2>1, <2>2, StillShape DEF Grown
<1>4. ASSUME NEW r \in Requests, NEW p \in Posts, Accept(r, p) PROVE Shape'
  <2> DEFINE h == [pc |-> "capture", post |-> Len(bodies) + 1, events |-> p,
                   cfg |-> settings, id |-> None, k |-> 1]
  <2>1. /\ bodies' = Append(bodies, p) /\ Turns(r, h) /\ UNCHANGED <<now, settings, nextID, count>>
    BY <1>4, AcceptEffect
  <2>2. Len(bodies) + 1 \in 1..Len(bodies') /\ bodies'[Len(bodies) + 1] = p
    BY <2>1, Arrived
  <2>3. h \in PostHandler(Len(bodies')) /\ h.events = p /\ h.post = Len(bodies) + 1
    BY <1>1, <2>2 DEF PostHandler, PostSteps
  <2>4. HandlerOK(h, bodies')
    BY <2>2, <2>3 DEF HandlerOK
  <2> HIDE DEF h
  <2> QED
    BY <1>1, <2>1, <2>4, TurnShape DEF Grown
<1>5. ASSUME NEW r \in Requests, NEW n \in OnlineCounts, Heartbeat(r, n) PROVE Shape'
  <2> DEFINE h == [pc |-> "hb", post |-> Len(bodies) + 1, online |-> n,
                   cfg |-> settings, id |-> None]
  <2>1. /\ bodies' = Append(bodies, <<>>) /\ Turns(r, h)
        /\ UNCHANGED <<now, settings, nextID, count>>
    BY <1>5, HeartbeatEffect
  <2>2. Len(bodies) + 1 \in 1..Len(bodies')
    BY <2>1, Arrived
  <2>3. h \in BeatHandler(Len(bodies'))
    BY <1>1, <2>2 DEF BeatHandler, HbSteps
  <2>4. HandlerOK(h, bodies')
    BY <2>3 DEF HandlerOK
  <2> HIDE DEF h
  <2> QED
    BY <1>1, <2>1, <2>4, TurnShape DEF Grown
<1>6. ASSUME NEW b \in Beacons, Retrack(b) PROVE Shape'
  <2>1. UNCHANGED <<now, settings, req, bodies, nextID, count>>
    BY <1>6 DEF Retrack
  <2> QED
    BY <1>1, <2>1, StillShape DEF Grown
<1>7. ASSUME NEW s \in Settings, ReplaceSettings(s) PROVE Shape'
  <2>1. UNCHANGED <<now, req, bodies, nextID, count>> /\ settings' \in Settings
    BY <1>7 DEF ReplaceSettings
  <2> QED
    BY <1>1, <2>1, StillShape DEF Grown
<1>8. CASE UNCHANGED vars
  BY <1>1, <1>8, StillShape DEF vars, retentionVars, ingestVars, Grown
<1> QED
  BY <1>2, <1>3, <1>4, <1>5, <1>6, <1>7, <1>8, HandleShape DEF Next

-----------------------------------------------------------------------------
(* Heartbeats.                                                             *)

\* Unless heartbeats overlap there is one at a time, and what it has stored is
\* what it is about to show.
OneBeat == ~hbOverlap => \A q, r \in HbRunning : q = r
ShowsStored == ~hbOverlap => \A r \in Requests : req[r].pc = "hbGauge" => hbOnline = req[r].online

HbInv == HeartbeatsAgree /\ OneBeat /\ ShowsStored

\* A step that is none of a heartbeat's, or that only brings one to its store.
HbStill ==
    /\ UNCHANGED <<hbOnline, hbGauge, hbOverlap>>
    /\ \A r \in Requests :
          \/ req'[r].pc \notin HbSteps /\ req[r].pc \notin HbSteps
          \/ /\ req'[r].pc \in HbSteps /\ req[r].pc \in HbSteps
             /\ req'[r].online = req[r].online
             /\ req'[r].pc = "hbGauge" => req[r].pc = "hbGauge"

\* The steps of POSTs, of the operator and of the retention worker.
LEMMA HbStillSteps ==
    ASSUME Shape, [Next]_vars,
           ~\E r \in Requests : \/ \E n \in OnlineCounts : Heartbeat(r, n)
                                \/ OnHeartbeat(r) \/ HeartbeatDone(r)
    PROVE  HbStill
<1>1. \A r \in Requests : req'[r] = req[r] /\ req[r].pc \in HbSteps
          => req'[r].online = req[r].online /\ (req'[r].pc = "hbGauge" => req[r].pc = "hbGauge")
  OBVIOUS
<1>2. CASE req' = req /\ UNCHANGED <<hbOnline, hbGauge, hbOverlap>>
  BY <1>2 DEF HbStill
<1>3. ASSUME NEW r \in Requests, NEW h, Turns(r, h), req[r].pc \notin HbSteps, h.pc \notin HbSteps,
             UNCHANGED <<hbOnline, hbGauge, hbOverlap>>
      PROVE  HbStill
  BY <1>3 DEF HbStill, Turns
<1>4. /\ \A h, c, k, i : Post(h, c, k, i).pc = c
      /\ \A h, c, i : Beat(h, c, i).pc = c /\ Beat(h, c, i).online = h.online
  BY DEF Post, Beat
<1>5. Idle.pc \notin HbSteps /\ \A c \in PostSteps : c \notin HbSteps
  BY DEF Idle, HbSteps, PostSteps
<1>6. \A r \in Requests : req[r] \in PostHandler(Len(bodies)) => req[r].pc \in PostSteps
  BY DEF PostHandler
<1>7. ASSUME NEW r \in Requests, Capture(r) PROVE HbStill
  <2>1. PICK i \in Nat \cup {None} : Turns(r, Post(req[r], "items", req[r].k, i))
    BY <1>7, CaptureEffect
  <2>2. req[r] \in PostHandler(Len(bodies)) /\ UNCHANGED <<hbOnline, hbGauge, hbOverlap>>
    BY <1>7, CaptureEffect
  <2> QED
    BY <1>3, <1>4, <1>5, <1>6, <2>1, <2>2 DEF PostSteps
<1>8. ASSUME NEW r \in Requests, Anonymous(r) \/ Observe(r) \/ Submit(r) PROVE HbStill
  <2>1. /\ req[r] \in PostHandler(Len(bodies)) /\ UNCHANGED <<hbOnline, hbGauge, hbOverlap>>
        /\ \/ Turns(r, Post(req[r], "submit", req[r].k, req[r].id))
           \/ Turns(r, Post(req[r], "items", req[r].k + 1, req[r].id))
    BY <1>8, AnonymousEffect, ObserveEffect, SubmitEffect DEF passVars
  <2> QED
    BY <1>3, <1>4, <1>5, <1>6, <2>1 DEF PostSteps
<1>9. ASSUME NEW r \in Requests, Finish(r) PROVE HbStill
  <2>1. /\ req[r] \in PostHandler(Len(bodies)) /\ UNCHANGED <<hbOnline, hbGauge, hbOverlap>>
        /\ Turns(r, Idle)
    BY <1>9, FinishEffect DEF passVars
  <2> QED
    BY <1>3, <1>5, <1>6, <2>1
<1>10. ASSUME NEW r \in Requests, HeartbeatCapture(r) PROVE HbStill
  <2>1. PICK i \in Nat \cup {None} : Turns(r, Beat(req[r], "hbSet", i))
    BY <1>10, BeatCaptureEffect
  <2>2. req[r].pc = "hb" /\ UNCHANGED <<hbOnline, hbGauge, hbOverlap>>
    BY <1>10, BeatCaptureEffect
  <2>3. req'[r].pc = "hbSet" /\ req'[r].online = req[r].online
    BY <1>4, <2>1 DEF Turns
  <2> QED
    BY <2>1, <2>2, <2>3 DEF HbStill, Turns, HbSteps
<1>11. ASSUME NEW r \in Requests, NEW p \in Posts, Accept(r, p) PROVE HbStill
  <2> DEFINE h == [pc |-> "capture", post |-> Len(bodies) + 1, events |-> p,
                   cfg |-> settings, id |-> None, k |-> 1]
  <2>1. req[r] = Idle /\ Turns(r, h) /\ UNCHANGED <<hbOnline, hbGauge, hbOverlap>>
    BY <1>11, AcceptEffect
  <2>2. h.pc \notin HbSteps
    BY DEF HbSteps
  <2> HIDE DEF h
  <2> QED
    BY <1>3, <1>5, <2>1, <2>2
<1>12. CASE \/ RetentionNext /\ UNCHANGED ingestVars
            \/ \E r \in Requests : Reject(r)
            \/ \E b \in Beacons : Retrack(b)
            \/ \E s \in Settings : ReplaceSettings(s)
            \/ UNCHANGED vars
  BY <1>2, <1>12 DEF Reject, Retrack, ReplaceSettings, vars, ingestVars
<1> QED
  BY <1>7, <1>8, <1>9, <1>10, <1>11, <1>12 DEF Next, Handle

\* Every step keeps holder and gauge together.
LEMMA HbStep == Shape /\ HbInv /\ [Next]_vars => HbInv'
<1> SUFFICES ASSUME Shape, HbInv, [Next]_vars PROVE HbInv'
  OBVIOUS
<1>1. CASE HbStill
  <2>1. HbRunning' = HbRunning
    BY <1>1 DEF HbStill, HbRunning
  <2>2. ShowsStored'
    BY <1>1 DEF HbInv, HbStill, ShowsStored, HbSteps
  <2>3. HeartbeatsAgree' /\ OneBeat'
    BY <1>1, <2>1 DEF HbInv, HbStill, HeartbeatsAgree, OneBeat
  <2> QED
    BY <2>2, <2>3 DEF HbInv
<1>2. ASSUME NEW r \in Requests, NEW n \in OnlineCounts, Heartbeat(r, n) PROVE HbInv'
  <2> DEFINE h == [pc |-> "hb", post |-> Len(bodies) + 1, online |-> n,
                   cfg |-> settings, id |-> None]
  <2>1. /\ Turns(r, h) /\ hbOverlap' = (HbRunning # {})
    BY <1>2, HeartbeatEffect
  <2>2. h.pc = "hb"
    OBVIOUS
  <2> HIDE DEF h
  <2>3. req'[r].pc = "hb" /\ \A q \in Requests : q # r => req'[q] = req[q]
    BY <2>1, <2>2 DEF Turns
  <2>4. r \in HbRunning' /\ \A q \in HbRunning' : q # r => q \in HbRunning
    BY <2>3 DEF HbRunning, HbSteps
  <2>5. HeartbeatsAgree' /\ OneBeat'
    BY <2>1, <2>4 DEF HeartbeatsAgree, OneBeat
  <2>6. ~hbOverlap' => \A q \in Requests : req[q].pc # "hbGauge"
    BY <2>1 DEF HbRunning, HbSteps
  <2>7. ShowsStored'
    BY <2>3, <2>6 DEF ShowsStored
  <2> QED
    BY <2>5, <2>7 DEF HbInv
<1>3. ASSUME NEW r \in Requests, OnHeartbeat(r) PROVE HbInv'
  <2>1. /\ req[r].pc = "hbSet" /\ Turns(r, Beat(req[r], "hbGauge", req[r].id))
        /\ hbOnline' = req[r].online /\ UNCHANGED <<hbGauge, hbOverlap>>
    BY <1>3, BeatEffect
  <2>2. /\ req'[r].pc = "hbGauge" /\ req'[r].online = req[r].online
        /\ \A q \in Requests : q # r => req'[q] = req[q]
    BY <2>1 DEF Turns, Beat
  <2>3. r \in HbRunning' /\ HbRunning' = HbRunning
    BY <2>1, <2>2 DEF HbRunning, HbSteps
  <2>4. ~hbOverlap => \A q \in Requests : req'[q].pc = "hbGauge" => q = r
    <3>1. \A q \in Requests : req'[q].pc = "hbGauge" => q \in HbRunning'
      BY DEF HbRunning, HbSteps
    <3> QED
      BY <2>3, <3>1 DEF HbInv, OneBeat
  <2>5. ShowsStored'
    BY <2>1, <2>2, <2>4 DEF ShowsStored
  <2>6. HeartbeatsAgree' /\ OneBeat'
    BY <2>1, <2>3 DEF HbInv, HeartbeatsAgree, OneBeat
  <2> QED
    BY <2>5, <2>6 DEF HbInv
<1>4. ASSUME NEW r \in Requests, HeartbeatDone(r) PROVE HbInv'
  <2>1. /\ req[r].pc = "hbGauge" /\ Turns(r, Idle)
        /\ hbGauge' = req[r].online /\ UNCHANGED <<hbOnline, hbOverlap>>
    BY <1>4, BeatEffect
  <2>2. req'[r].pc = "idle" /\ \A q \in Requests : q # r => req'[q] = req[q]
    BY <2>1 DEF Turns, Idle
  <2>3. ~hbOverlap => hbOnline = req[r].online
    BY <2>1 DEF HbInv, ShowsStored
  <2>4. HeartbeatsAgree'
    BY <2>1, <2>3 DEF HeartbeatsAgree
  <2>5. HbRunning' \subseteq HbRunning
    BY <2>2 DEF HbRunning, HbSteps
  <2>6. OneBeat'
    BY <2>1, <2>5 DEF HbInv, OneBeat
  <2>7. ShowsStored'
    BY <2>1, <2>2 DEF HbInv, ShowsStored
  <2> QED
    BY <2>4, <2>6, <2>7 DEF HbInv
<1> QED
  BY <1>1, <1>2, <1>3, <1>4, HbStillSteps

\* The status page and the metric agree on the gateways online whenever no
\* heartbeat is being handled, unless the last ones overlapped; for any number
\* of handlers.
THEOREM HeartbeatsAlwaysAgree == Spec => []HeartbeatsAgree
<1>1. Init => HbInv
  <2> SUFFICES ASSUME Init PROVE HbInv
    OBVIOUS
  <2>1. /\ hbOnline = 0 /\ hbGauge = 0
        /\ \A r \in Requests : req[r].pc = "idle"
    BY DEF Init, Idle
  <2> QED
    BY <2>1 DEF HbInv, HeartbeatsAgree, OneBeat, ShowsStored, HbRunning, HbSteps
<1>2. HbInv => HeartbeatsAgree
  BY DEF HbInv
<1> QED
  BY <1>1, <1>2, ShapeInit, ShapeStep, HbStep, PTL DEF Spec

-----------------------------------------------------------------------------
(* Telemetry: what pass 1 keeps of a POST's readings.  Induction over the  *)
(* events goes by a least counterexample.                                  *)

\* Every set of numbers that is not empty has a least one.
LEMMA NatLeast ==
    ASSUME NEW T \in SUBSET Nat, T # {}
    PROVE  \E m \in T : \A k \in T : m <= k
<1> DEFINE R == OpToRel(<, Nat)
<1>1. R = {ss \in Nat \X Nat : ss[1] < ss[2]}
  BY DEF OpToRel
<1>2. IsWellFoundedOn(R, Nat)
  BY NatLessThanWellFounded
<1>3. \A x, y \in Nat : y < x => <<y, x>> \in R
  BY <1>1
<1> HIDE DEF R
<1>4. PICK m \in T : \A k \in T : <<k, m>> \notin R
  BY <1>2, WFMin
<1>5. \A k \in T : ~(k < m)
  BY <1>3, <1>4
<1>6. \A k \in T : m <= k
  BY <1>5
<1> QED
  BY <1>6

\* Event j has a reading of e.
Reads(events, e, j) ==
    /\ events[j].parses /\ events[j].tele # None
    /\ events[j].euid = e /\ e # NoEUID

\* v is the last reading of e in the first n events, or None.
IsLast(events, e, n, v) ==
    IF \E j \in 1..n : Reads(events, e, j)
    THEN \E j \in 1..n : /\ Reads(events, e, j) /\ v = events[j].tele
                         /\ \A m \in 1..n : m > j => ~Reads(events, e, m)
    ELSE v = None

KnownEUIDs == EUIDs \cup {NoEUID}

\* There is one last reading.
LEMMA LastIsOne ==
    ASSUME NEW events, NEW e, NEW n \in Nat, NEW v, NEW w,
           IsLast(events, e, n, v), IsLast(events, e, n, w)
    PROVE  v = w
<1>1. CASE ~\E j \in 1..n : Reads(events, e, j)
  BY <1>1 DEF IsLast
<1>2. CASE \E j \in 1..n : Reads(events, e, j)
  <2>1. PICK j \in 1..n : /\ Reads(events, e, j) /\ v = events[j].tele
                          /\ \A m \in 1..n : m > j => ~Reads(events, e, m)
    BY <1>2 DEF IsLast
  <2>2. PICK k \in 1..n : /\ Reads(events, e, k) /\ w = events[k].tele
                          /\ \A m \in 1..n : m > k => ~Reads(events, e, m)
    BY <1>2 DEF IsLast
  <2>3. ~(j > k) /\ ~(k > j)
    BY <2>1, <2>2
  <2>4. j = k
    BY <2>3
  <2> QED
    BY <2>1, <2>2, <2>4
<1> QED
  BY <1>1, <1>2

\* One more event.
LEMMA LastGrows ==
    ASSUME NEW events, NEW n \in Nat, n # 0, NEW tel, DOMAIN tel = KnownEUIDs,
           NEW e \in KnownEUIDs, IsLast(events, e, n - 1, tel[e])
    PROVE  IsLast(events, e, n, keepTelemetry(tel, events[n])[e])
<1>1. CASE Reads(events, e, n)
  <2>1. keepTelemetry(tel, events[n])[e] = events[n].tele
    BY <1>1 DEF keepTelemetry, Reads
  <2>2. n \in 1..n /\ \A m \in 1..n : ~(m > n)
    OBVIOUS
  <2> QED
    BY <1>1, <2>1, <2>2 DEF IsLast
<1>2. CASE ~Reads(events, e, n)
  <2>1. keepTelemetry(tel, events[n])[e] = tel[e]
    BY <1>2 DEF keepTelemetry, Reads
  <2>2. \A m \in 1..n : m \in 1..(n - 1) \/ m = n
    OBVIOUS
  <2>3. \A m \in 1..(n - 1) : m \in 1..n
    OBVIOUS
  <2>4. CASE \E j \in 1..(n - 1) : Reads(events, e, j)
    <3>1. PICK j \in 1..(n - 1) : /\ Reads(events, e, j) /\ tel[e] = events[j].tele
                                  /\ \A m \in 1..(n - 1) : m > j => ~Reads(events, e, m)
      BY <2>4 DEF IsLast
    <3>2. j \in 1..n /\ \A m \in 1..n : m > j => ~Reads(events, e, m)
      BY <1>2, <2>2, <2>3, <3>1
    <3> QED
      BY <2>1, <3>1, <3>2 DEF IsLast
  <2>5. CASE ~\E j \in 1..(n - 1) : Reads(events, e, j)
    <3>1. tel[e] = None
      BY <2>5 DEF IsLast
    <3>2. ~\E j \in 1..n : Reads(events, e, j)
      BY <1>2, <2>2, <2>5
    <3> QED
      BY <2>1, <3>1, <3>2 DEF IsLast
  <2> QED
    BY <2>4, <2>5
<1> QED
  BY <1>1, <1>2

\* Before the first event.
LEMMA LastOfNone ==
    ASSUME NEW events, NEW e \in KnownEUIDs
    PROVE  IsLast(events, e, 0, NoTelemetry[e])
<1>1. ~\E j \in 1..0 : Reads(events, e, j)
  OBVIOUS
<1>2. NoTelemetry[e] = None
  BY DEF NoTelemetry, KnownEUIDs
<1> QED
  BY <1>1, <1>2 DEF IsLast

\* A table of readings keeps its keys.
LEMMA KeepsKeys ==
    ASSUME NEW tel, DOMAIN tel = KnownEUIDs, tel = [e \in KnownEUIDs |-> tel[e]], NEW ev
    PROVE  /\ DOMAIN keepTelemetry(tel, ev) = KnownEUIDs
           /\ keepTelemetry(tel, ev) = [e \in KnownEUIDs |-> keepTelemetry(tel, ev)[e]]
BY DEF keepTelemetry

\* Telemetry after n events, by its recursive definition.
LEMMA ReadingsKept ==
    ASSUME NEW events, Len(events) \in Nat, NEW e \in KnownEUIDs
    PROVE  IsLast(events, e, Len(events), euidTelemetry(events)[e])
<1> DEFINE N == 0..Len(events)
           Turn(f, n) == IF n = 0 THEN NoTelemetry ELSE keepTelemetry(f[n - 1], events[n])
           LastOf(n, x) == CHOOSE v : IsLast(events, x, n, v)
           F == [n \in N |-> [x \in KnownEUIDs |-> LastOf(n, x)]]
           G == CHOOSE f : f = [n \in N |-> Turn(f, n)]
<1>1. euidTelemetry(events) = G[Len(events)]
  BY DEF euidTelemetry
<1>2. \A n \in N : n # 0 => n - 1 \in N /\ n \in Nat
  OBVIOUS
<1>3. \A n \in N, x \in KnownEUIDs : \E v : IsLast(events, x, n, v)
  <2> SUFFICES ASSUME NEW x \in KnownEUIDs, {n \in N : ~\E v : IsLast(events, x, n, v)} # {}
               PROVE  FALSE
    OBVIOUS
  <2> DEFINE T == {n \in N : ~\E v : IsLast(events, x, n, v)}
  <2>1. T \in SUBSET Nat /\ T # {}
    OBVIOUS
  <2>2. PICK m \in T : \A k \in T : m <= k
    <3> HIDE DEF T
    <3> QED
      BY <2>1, NatLeast
  <2>3. m # 0
    BY LastOfNone
  <2>4. m \in Nat /\ m - 1 \in N /\ m - 1 \notin T
    BY <2>2, <2>3
  <2>5. PICK v : IsLast(events, x, m - 1, v)
    BY <2>4
  <2> DEFINE tel == [y \in KnownEUIDs |-> v]
  <2>6. DOMAIN tel = KnownEUIDs /\ tel[x] = v
    OBVIOUS
  <2> HIDE DEF tel
  <2>7. IsLast(events, x, m, keepTelemetry(tel, events[m])[x])
    BY <2>3, <2>4, <2>5, <2>6, LastGrows
  <2> QED
    BY <2>7
<1>4. \A n \in N, x \in KnownEUIDs : IsLast(events, x, n, F[n][x])
  <2>1. \A n \in N, x \in KnownEUIDs : IsLast(events, x, n, LastOf(n, x))
    BY <1>3
  <2>2. \A n \in N, x \in KnownEUIDs : F[n][x] = LastOf(n, x)
    <3> HIDE DEF LastOf
    <3> QED
      OBVIOUS
  <2> QED
    BY <2>1, <2>2
<1>5. /\ DOMAIN F = N
      /\ \A n \in N : DOMAIN F[n] = KnownEUIDs /\ F[n] = [x \in KnownEUIDs |-> F[n][x]]
  <2> HIDE DEF LastOf
  <2> QED
    OBVIOUS
<1>6. F = [n \in N |-> F[n]]
  <2> HIDE DEF LastOf
  <2> QED
    OBVIOUS
<1> HIDE DEF F
<1>7. \A n \in N : F[n] = Turn(F, n)
  <2> SUFFICES ASSUME NEW n \in N PROVE F[n] = Turn(F, n)
    OBVIOUS
  <2>1. /\ DOMAIN Turn(F, n) = KnownEUIDs
        /\ Turn(F, n) = [x \in KnownEUIDs |-> Turn(F, n)[x]]
    <3>1. CASE n = 0
      BY <3>1 DEF NoTelemetry, KnownEUIDs
    <3>2. CASE n # 0
      BY <1>2, <1>5, <3>2, KeepsKeys
    <3> QED
      BY <3>1, <3>2
  <2>2. ASSUME NEW x \in KnownEUIDs PROVE F[n][x] = Turn(F, n)[x]
    <3>1. IsLast(events, x, n, F[n][x])
      BY <1>4
    <3>2. IsLast(events, x, n, Turn(F, n)[x])
      <4>1. CASE n = 0
        BY <4>1, LastOfNone
      <4>2. CASE n # 0
        BY <1>2, <1>4, <1>5, <4>2, LastGrows
      <4> QED
        BY <4>1, <4>2
    <3> HIDE DEF Turn
    <3> QED
      BY <3>1, <3>2, LastIsOne
  <2> HIDE DEF Turn
  <2>3. F[n] = [x \in KnownEUIDs |-> F[n][x]]
    BY <1>5
  <2> QED
    BY <2>1, <2>2, <2>3
<1>8. F = [n \in N |-> Turn(F, n)]
  <2> HIDE DEF Turn
  <2> QED
    BY <1>6, <1>7
<1>9. G = [n \in N |-> Turn(G, n)]
  <2> HIDE DEF Turn, N
  <2> QED
    BY <1>8
<1> HIDE DEF G
<1>10. \A n \in N : G[n] = Turn(G, n)
  <2> HIDE DEF Turn
  <2> QED
    BY <1>9
<1>11. \A n \in N : DOMAIN G[n] = KnownEUIDs /\ G[n] = [x \in KnownEUIDs |-> G[n][x]]
         /\ \A x \in KnownEUIDs : IsLast(events, x, n, G[n][x])
  <2> DEFINE Good(n) == /\ DOMAIN G[n] = KnownEUIDs /\ G[n] = [x \in KnownEUIDs |-> G[n][x]]
                        /\ \A x \in KnownEUIDs : IsLast(events, x, n, G[n][x])
             T == {n \in N : ~Good(n)}
  <2> SUFFICES ASSUME T # {} PROVE FALSE
    OBVIOUS
  <2>1. T \in SUBSET Nat
    OBVIOUS
  <2>2. PICK m \in T : \A k \in T : m <= k
    <3> HIDE DEF T
    <3> QED
      BY <2>1, NatLeast
  <2>3. m # 0
    <3> SUFFICES ASSUME m = 0 PROVE FALSE
      OBVIOUS
    <3>1. G[m] = NoTelemetry
      BY <1>10
    <3>2. Good(m)
      BY <3>1, LastOfNone DEF NoTelemetry, KnownEUIDs
    <3> QED
      BY <3>2
  <2>4. m \in Nat /\ m \in N /\ m - 1 \in N /\ Good(m - 1)
    <3>1. m \in Nat /\ m \in N /\ m - 1 \in N /\ m - 1 \notin T
      <4> HIDE DEF Good
      <4> QED
        BY <2>2, <2>3
    <3> QED
      BY <3>1
  <2>5. G[m] = keepTelemetry(G[m - 1], events[m])
    BY <1>10, <2>3, <2>4
  <2>6. Good(m)
    <3>1. DOMAIN G[m] = KnownEUIDs /\ G[m] = [x \in KnownEUIDs |-> G[m][x]]
      BY <2>4, <2>5, KeepsKeys
    <3>2. \A x \in KnownEUIDs : IsLast(events, x, m, G[m][x])
      BY <2>3, <2>4, <2>5, LastGrows
    <3> QED
      BY <3>1, <3>2
  <2> QED
    BY <2>2, <2>6
<1>12. Len(events) \in N
  OBVIOUS
<1> HIDE DEF N
<1>13. IsLast(events, e, Len(events), G[Len(events)][e])
  BY <1>11, <1>12
<1> QED
  BY <1>1, <1>13

-----------------------------------------------------------------------------
(* The tables and the retention worker.                                    *)

Store(f) == DOMAIN f = {"obs", "raw"} /\ f = [t \in {"obs", "raw"} |-> f[t]]

StoreOK == Store(queued) /\ Store(tables)

\* The cutoff of a cycle under way lies a window before the clock, or earlier.
RunnerOK ==
    /\ runner.before \in Int /\ runner.days \in Int
    /\ runner.pc # "idle" => runner.before + runner.days <= now

\* A row is of an event that parsed, and has its key and the telemetry of its
\* euid.
RowTold(row, b) ==
    LET ev == Items(b[row.post])[row.k]
    IN  /\ b[row.post] \in Posts /\ row.k \in 1..Len(Items(b[row.post]))
        /\ row.key = ev.key
        /\ row.battery = euidTelemetry(b[row.post])[ev.euid]

\* A row's time is its event's, or that of its reception; n is the clock.
RowKept(row, b, n) ==
    LET ts == Items(b[row.post])[row.k].ts
    IN  /\ row.post \in 1..Len(b)
        /\ row.received \in Int /\ row.received <= n
        /\ ts \in Int
        /\ ts <= 0 => row.at = row.received
        /\ ~(ts <= 0) => row.at = ts
        /\ RowTold(row, b)

RowsKept == \A row \in Rows : RowKept(row, bodies, now)

KeptInv == StoreOK /\ RunnerOK /\ RowsKept

\* At boot.
LEMMA KeptInit == Init => KeptInv
<1> SUFFICES ASSUME Init PROVE KeptInv
  OBVIOUS
<1>1. /\ queued = [obs |-> {}, raw |-> {}] /\ tables = [obs |-> {}, raw |-> {}]
      /\ runner = [pc |-> "idle", before |-> 0, days |-> 0]
  BY DEF Init, RetentionInit, Waiting
<1>2. RunnerOK
  BY <1>1 DEF RunnerOK
<1>3. StoreOK /\ Rows = {}
  BY <1>1 DEF StoreOK, Store, Rows
<1> QED
  BY <1>2, <1>3 DEF KeptInv, RowsKept

\* What an insert puts into a table.
Stamped(t, batch) ==
    {IF t = "raw" THEN [row EXCEPT !.at = now] ELSE row : row \in batch}

\* The tables after an insert, a loss, a DELETE.
LEMMA InsertEffect ==
    ASSUME StoreOK, NEW t \in {"obs", "raw"}, NEW batch,
           Flush(t, batch) \/ FlushUnanswered(t, batch)
    PROVE  /\ StoreOK' /\ queued'[t] \subseteq queued[t]
           /\ tables'[t] = tables[t] \cup Stamped(t, batch)
           /\ t = "raw" => \A row \in batch, old \in tables["raw"] : row.id # old.id
           /\ \A u \in {"obs", "raw"} : u # t => queued'[u] = queued[u] /\ tables'[u] = tables[u]
           /\ UNCHANGED <<now, settings, runner>>
<1>1. /\ queued' = [queued EXCEPT ![t] = queued[t] \ batch] \/ queued' = queued
      /\ Insert(t, batch) /\ UNCHANGED <<now, settings, runner>>
  BY DEF Flush, FlushUnanswered
<1>2. /\ tables' = [tables EXCEPT ![t] = tables[t] \cup Stamped(t, batch)]
      /\ t = "raw" => \A row \in batch, old \in tables["raw"] : row.id # old.id
  BY <1>1 DEF Insert, Stamped
<1> QED
  BY <1>1, <1>2 DEF StoreOK, Store

LEMMA LoseEffect ==
    ASSUME StoreOK, NEW t \in {"obs", "raw"}, NEW batch, Lose(t, batch)
    PROVE  /\ StoreOK' /\ queued'[t] \subseteq queued[t]
           /\ \A u \in {"obs", "raw"} : u # t => queued'[u] = queued[u]
           /\ UNCHANGED <<now, settings, tables, runner>>
BY DEF Lose, StoreOK, Store

LEMMA DeleteEffect ==
    ASSUME StoreOK, NEW t \in {"obs", "raw"}, Delete(t)
    PROVE  /\ Store(tables')
           /\ tables'[t] = {row \in tables[t] : ~(row.at < runner.before)}
           /\ \A u \in {"obs", "raw"} : u # t => tables'[u] = tables[u]
<1>1. tables' = [tables EXCEPT ![t] = tables[t] \ Expired(t)]
  BY DEF Delete
<1>2. tables[t] \ Expired(t) = {row \in tables[t] : ~(row.at < runner.before)}
  BY DEF Expired
<1> QED
  BY <1>1, <1>2 DEF StoreOK, Store

\* The writers bring no new observation into being.
LEMMA WritersRows ==
    ASSUME StoreOK, NEW t \in {"obs", "raw"}, NEW batch \in Batches(t),
           Flush(t, batch) \/ FlushUnanswered(t, batch) \/ Lose(t, batch)
    PROVE  Rows' \subseteq Rows
<1>1. batch \subseteq queued[t]
  BY DEF Batches
<1>2. CASE t = "obs" /\ (Flush(t, batch) \/ FlushUnanswered(t, batch))
  <2>1. Stamped("obs", batch) = batch
    BY DEF Stamped
  <2>2. queued'["obs"] \subseteq queued["obs"] /\ tables'["obs"] = tables["obs"] \cup Stamped("obs", batch)
    BY <1>2, InsertEffect
  <2> QED
    BY <1>1, <1>2, <2>1, <2>2 DEF Rows
<1>3. CASE t = "raw" /\ (Flush(t, batch) \/ FlushUnanswered(t, batch))
  <2>1. queued'["obs"] = queued["obs"] /\ tables'["obs"] = tables["obs"]
    BY <1>3, InsertEffect
  <2> QED
    BY <2>1 DEF Rows
<1>4. CASE Lose(t, batch)
  <2>1. queued'["obs"] \subseteq queued["obs"] /\ tables' = tables
    BY <1>4, LoseEffect
  <2> QED
    BY <2>1 DEF Rows
<1> QED
  BY <1>2, <1>3, <1>4

\* The retention worker, the clock and the writers.
LEMMA KeptRetention ==
    ASSUME Shape, KeptInv, RetentionNext, UNCHANGED ingestVars
    PROVE  KeptInv'
<1>1. now \in Nat /\ bodies' = bodies /\ StoreOK /\ RunnerOK
  BY DEF Shape, KeptInv, ingestVars
<1>2. ASSUME Rows' \subseteq Rows, now' \in {now, now + 1} PROVE RowsKept'
  BY <1>1, <1>2 DEF KeptInv, RowsKept, RowKept
<1>3. ASSUME UNCHANGED <<queued, tables>> PROVE StoreOK' /\ Rows' = Rows
  BY <1>1, <1>3 DEF StoreOK, Store, Rows
<1>4. CASE Advance
  <2>1. now' = now + 1 /\ UNCHANGED <<queued, tables, runner>>
    BY <1>4 DEF Advance
  <2>2. RunnerOK'
    BY <1>1, <2>1 DEF RunnerOK
  <2> QED
    BY <1>2, <1>3, <2>1, <2>2 DEF KeptInv
<1>5. CASE StartPrune
  <2>1. /\ UNCHANGED <<now, queued, tables>>
        /\ runner' = [pc |-> "obs", before |-> now - settings.days, days |-> settings.days]
    BY <1>5 DEF StartPrune
  <2>2. settings.days \in Int
    <3>1. settings.days \in Windows
      BY DEF Shape, Settings
    <3>2. \A d \in Windows : d \in Int
      BY RetentionAssumption
    <3> QED
      BY <3>1, <3>2, Zenon
  <2>3. RunnerOK'
    BY <1>1, <2>1, <2>2 DEF RunnerOK
  <2> QED
    BY <1>2, <1>3, <2>1, <2>3 DEF KeptInv
<1>6. ASSUME NEW t \in {"obs", "raw"}, runner.pc = t, Delete(t) \/ UNCHANGED tables,
             runner' = Waiting \/ runner' = AfterObservations, UNCHANGED <<now, queued>>
      PROVE  KeptInv'
  <2>1. RunnerOK'
    <3>1. CASE runner' = Waiting
      BY <3>1 DEF RunnerOK, Waiting
    <3>2. CASE runner' = AfterObservations
      <4>1. runner'.before = runner.before /\ runner'.days = runner.days
        BY <3>2 DEF AfterObservations
      <4>2. runner.before + runner.days <= now
        BY <1>1, <1>6 DEF RunnerOK
      <4> QED
        BY <1>1, <1>6, <4>1, <4>2 DEF RunnerOK
    <3> QED
      BY <1>6, <3>1, <3>2
  <2>2. StoreOK'
    BY <1>1, <1>6, DeleteEffect DEF StoreOK, Store
  <2>3. Rows' \subseteq Rows
    <3>1. queued'["obs"] = queued["obs"] /\ tables'["obs"] \subseteq tables["obs"]
      BY <1>1, <1>6, DeleteEffect
    <3> QED
      BY <3>1 DEF Rows
  <2> QED
    BY <1>2, <1>6, <2>1, <2>2, <2>3 DEF KeptInv
<1>7. ASSUME NEW t \in {"obs", "raw"}, NEW batch \in Batches(t),
             Flush(t, batch) \/ FlushUnanswered(t, batch) \/ Lose(t, batch)
      PROVE  KeptInv'
  <2>1. StoreOK' /\ UNCHANGED <<now, runner>>
    BY <1>1, <1>7, InsertEffect, LoseEffect
  <2>2. Rows' \subseteq Rows
    BY <1>1, <1>7, WritersRows
  <2>3. RunnerOK'
    BY <1>1, <2>1 DEF RunnerOK
  <2> QED
    BY <1>2, <2>1, <2>2, <2>3 DEF KeptInv
<1>8. CASE PruneObservations
  BY <1>6, <1>8 DEF PruneObservations
<1>9. CASE PruneRawPosts
  BY <1>6, <1>9 DEF PruneRawPosts
<1>10. ASSUME NEW t \in {"obs", "raw"}, PruneFails(t) PROVE KeptInv'
  BY <1>6, <1>10 DEF PruneFails
<1> QED
  BY <1>4, <1>5, <1>7, <1>8, <1>9, <1>10 DEF RetentionNext

\* POSTs arrive and rows are queued: an old row keeps its event, a new one tells
\* its event's time.
LEMMA KeptGrown ==
    ASSUME Shape, KeptInv, Grown, UNCHANGED <<now, runner, tables>>,
           Store(queued'),
           \A row \in queued'.obs : row \in queued.obs \/ RowKept(row, bodies, now)
    PROVE  KeptInv'
<1>1. StoreOK' /\ RunnerOK'
  BY DEF KeptInv, StoreOK, Store, RunnerOK
<1>2. ASSUME NEW row, RowKept(row, bodies, now) PROVE RowKept(row, bodies', now)
  <2>1. row.post \in 1..Len(bodies)
    BY <1>2 DEF RowKept
  <2>2. CASE bodies' = bodies
    BY <1>2, <2>2
  <2>3. ASSUME NEW p \in Posts \cup {<<>>}, bodies' = Append(bodies, p)
        PROVE  RowKept(row, bodies', now)
    <3>1. bodies'[row.post] = bodies[row.post] /\ row.post \in 1..Len(bodies')
      BY <2>1, <2>3, Arrived
    <3> QED
      BY <1>2, <3>1 DEF RowKept, RowTold
  <2> QED
    BY <2>2, <2>3 DEF Grown
<1>3. \A row \in Rows' : row \in Rows \/ RowKept(row, bodies, now)
  BY DEF Rows
<1>4. \A row \in Rows' : RowKept(row, bodies, now)
  BY <1>3 DEF KeptInv, RowsKept
<1>5. RowsKept'
  BY <1>2, <1>4 DEF RowsKept
<1> QED
  BY <1>1, <1>5 DEF KeptInv

\* The row a handler queues tells its event's time.
LEMMA NewRowKept ==
    ASSUME Shape, NEW r \in Requests, AtItem(r), req[r] \in PostHandler(Len(bodies)),
           NEW isTracked
    PROVE  RowKept(RowOf(r, Item(r), isTracked), bodies, now)
<1> DEFINE row == RowOf(r, Item(r), isTracked)
<1>1. /\ row.post = req[r].post /\ row.k = req[r].k
      /\ row.at = ObservedAt(Item(r)) /\ row.received = now
      /\ row.key = Item(r).key /\ row.battery = euidTelemetry(req[r].events)[Item(r).euid]
  BY DEF RowOf
<1> HIDE DEF row
<1>2. /\ req[r].post \in 1..Len(bodies) /\ req[r].k \in Nat \ {0} /\ req[r].events \in Posts
      /\ req[r].pc \in PostSteps
  BY DEF PostHandler
<1>3. req[r].events = bodies[req[r].post]
  BY <1>2, KindOf
<1>4. Item(r) = Items(bodies[row.post])[row.k]
  BY <1>1, <1>3 DEF Item
<1>5. req[r].k \in 1..Len(Items(req[r].events)) /\ Item(r).ts \in Int
  <2>1. Len(Items(req[r].events)) \in Nat
    BY <1>2, PostsAssumption DEF Items
  <2>2. req[r].k \in 1..Len(Items(req[r].events))
    BY <1>2, <2>1 DEF AtItem
  <2> QED
    BY <1>2, <2>2, PostsAssumption DEF Item
<1>6. now \in Nat
  BY DEF Shape
<1>7. /\ Item(r).ts <= 0 => row.at = row.received
      /\ ~(Item(r).ts <= 0) => row.at = Item(r).ts
  BY <1>1 DEF ObservedAt
<1>8. row.post \in 1..Len(bodies) /\ row.received \in Int /\ row.received <= now
  BY <1>1, <1>2, <1>6
<1>9. RowTold(row, bodies)
  BY <1>1, <1>2, <1>3, <1>4, <1>5 DEF RowTold
<1>10. RowKept(row, bodies, now)
  BY <1>4, <1>5, <1>7, <1>8, <1>9 DEF RowKept
<1> QED
  BY <1>10 DEF row

\* The handlers' steps.
LEMMA KeptHandle ==
    ASSUME Shape, KeptInv, NEW r \in Requests, Handle(r)
    PROVE  KeptInv'
<1>1. Store(queued)
  BY DEF KeptInv, StoreOK
<1>2. CASE queued' = queued /\ UNCHANGED <<now, runner, tables, bodies>>
  BY <1>1, <1>2, KeptGrown DEF Grown
<1>3. ASSUME NEW i, Records(r, i), UNCHANGED <<now, runner, tables, bodies>> PROVE KeptInv'
  <2>1. CASE queued' = queued
    BY <1>2, <1>3, <2>1
  <2>2. CASE queued' = [queued EXCEPT !.raw = queued.raw \cup
                          {[id |-> nextID, post |-> req[r].post, at |-> 0]}]
    <3>1. Store(queued') /\ queued'.obs = queued.obs
      BY <1>1, <2>2 DEF Store
    <3> QED
      BY <1>3, <3>1, KeptGrown DEF Grown
  <2> QED
    BY <1>3, <2>1, <2>2 DEF Records
<1>4. CASE Capture(r)
  <2>1. UNCHANGED <<now, runner, tables, bodies>> /\ \E i \in Nat \cup {None} : Records(r, i)
    BY <1>4, CaptureEffect
  <2> QED
    BY <1>3, <2>1
<1>5. CASE HeartbeatCapture(r)
  <2>1. UNCHANGED <<now, runner, tables, bodies>> /\ \E i \in Nat \cup {None} : Records(r, i)
    BY <1>5, BeatCaptureEffect
  <2> QED
    BY <1>3, <2>1
<1>6. CASE Observe(r)
  <2> DEFINE row == RowOf(r, Item(r), Item(r).key \in tracked)
  <2>1. /\ queued' = [queued EXCEPT !.obs = queued.obs \cup {row}]
        /\ UNCHANGED <<now, runner, tables, bodies>>
    BY <1>6, ObserveEffect DEF passVars
  <2>2. RowKept(row, bodies, now)
    <3>1. AtItem(r) /\ req[r] \in PostHandler(Len(bodies))
      BY <1>6, ObserveEffect
    <3> QED
      BY <3>1, NewRowKept
  <2> HIDE DEF row
  <2>3. Store(queued') /\ queued'.obs = queued.obs \cup {row}
    BY <1>1, <2>1 DEF Store
  <2> QED
    BY <2>1, <2>2, <2>3, KeptGrown DEF Grown
<1>7. CASE Anonymous(r) \/ Submit(r) \/ Finish(r) \/ OnHeartbeat(r) \/ HeartbeatDone(r)
  BY <1>2, <1>7, AnonymousEffect, SubmitEffect, FinishEffect, BeatEffect
     DEF passVars, retentionVars
<1> QED
  BY <1>4, <1>5, <1>6, <1>7 DEF Handle

\* Every step.
LEMMA KeptStep == Shape /\ KeptInv /\ [Next]_vars => KeptInv'
<1> SUFFICES ASSUME Shape, KeptInv, [Next]_vars PROVE KeptInv'
  OBVIOUS
<1>1. ASSUME Grown, UNCHANGED <<now, runner, tables, queued>> PROVE KeptInv'
  BY <1>1, KeptGrown DEF KeptInv, StoreOK, Store
<1>2. CASE \E r \in Requests : Reject(r)
  BY <1>1, <1>2 DEF Reject, Grown
<1>3. CASE \E r \in Requests, p \in Posts : Accept(r, p)
  BY <1>1, <1>3, AcceptEffect DEF Grown
<1>4. CASE \E r \in Requests, n \in OnlineCounts : Heartbeat(r, n)
  BY <1>1, <1>4, HeartbeatEffect DEF Grown
<1>5. CASE \/ \E b \in Beacons : Retrack(b)
           \/ \E s \in Settings : ReplaceSettings(s)
           \/ UNCHANGED vars
  BY <1>1, <1>5 DEF Retrack, ReplaceSettings, vars, retentionVars, ingestVars, Grown
<1> QED
  BY <1>2, <1>3, <1>4, <1>5, KeptHandle, KeptRetention DEF Next

\* Only a prune deletes, and it deletes what lies before its cutoff.
LEMMA OnlyPruneDeletes ==
    ASSUME Shape, KeptInv, [Next]_vars, NEW row \in tables.obs \ tables'.obs
    PROVE  runner.pc # "idle" /\ row.at < runner.before
<1>1. StoreOK
  BY DEF KeptInv
<1>2. tables' # tables
  OBVIOUS
<1>3. RetentionNext
  <2>1. ASSUME NEW r \in Requests, Handle(r) PROVE tables' = tables
    BY <2>1 DEF Handle, Capture, Anonymous, Observe, Submit, Finish, HeartbeatCapture,
                OnHeartbeat, HeartbeatDone, retentionVars
  <2> QED
    BY <1>2, <2>1 DEF Next, Reject, Accept, Heartbeat, Retrack, ReplaceSettings, vars, retentionVars
<1>4. ASSUME NEW t \in {"obs", "raw"}, runner.pc = t, Delete(t)
      PROVE  runner.pc # "idle" /\ row.at < runner.before
  <2>1. tables'["obs"] = {x \in tables["obs"] : ~(x.at < runner.before)} /\ t = "obs"
    BY <1>1, <1>4, DeleteEffect
  <2> QED
    BY <1>4, <2>1
<1>5. ASSUME NEW t \in {"obs", "raw"}, NEW batch
      PROVE  ~(Flush(t, batch) \/ FlushUnanswered(t, batch))
  <2> SUFFICES ASSUME Flush(t, batch) \/ FlushUnanswered(t, batch) PROVE FALSE
    OBVIOUS
  <2>1. tables["obs"] \subseteq tables'["obs"]
    BY <1>1, InsertEffect
  <2> QED
    BY <2>1
<1>6. ASSUME NEW t \in {"obs", "raw"}, PruneFails(t)
      PROVE  runner.pc # "idle" /\ row.at < runner.before
  BY <1>2, <1>4, <1>6 DEF PruneFails
<1>7. CASE PruneObservations \/ PruneRawPosts
  BY <1>4, <1>7 DEF PruneObservations, PruneRawPosts
<1>8. ~Advance /\ ~StartPrune /\ \A t, batch : ~Lose(t, batch)
  BY <1>2 DEF Advance, StartPrune, Lose
<1> QED
  BY <1>3, <1>5, <1>6, <1>7, <1>8 DEF RetentionNext

\* What a step may delete.
LEMMA DeletesOld ==
    Shape /\ KeptInv /\ [Next]_vars =>
        [\A row \in tables.obs \ tables'.obs :
            LET ts == Items(bodies[row.post])[row.k].ts
            IN  ts <= 0 \/ ts >= row.received => now - row.received > runner.days]_vars
<1> SUFFICES ASSUME Shape, KeptInv, [Next]_vars, NEW row \in tables.obs \ tables'.obs,
                    \/ Items(bodies[row.post])[row.k].ts <= 0
                    \/ Items(bodies[row.post])[row.k].ts >= row.received
             PROVE  now - row.received > runner.days
  OBVIOUS
<1> DEFINE ts == Items(bodies[row.post])[row.k].ts
<1>1. runner.pc # "idle" /\ row.at < runner.before
  BY OnlyPruneDeletes
<1>2. RowKept(row, bodies, now)
  BY DEF KeptInv, RowsKept, Rows
<1>3. /\ row.received \in Int /\ ts \in Int
      /\ ts <= 0 => row.at = row.received
      /\ ~(ts <= 0) => row.at = ts
  BY <1>2 DEF RowKept
<1>4. ts <= 0 \/ ts >= row.received
  OBVIOUS
<1> HIDE DEF ts
<1>5. row.at \in Int /\ row.at >= row.received
  BY <1>3, <1>4
<1>6. /\ runner.before \in Int /\ runner.days \in Int /\ now \in Int
      /\ runner.before + runner.days <= now
  BY <1>1 DEF KeptInv, RunnerOK, Shape
<1>7. \A a, v, d, b, n \in Int : a >= v /\ a < b /\ b + d <= n => n - v > d
  OBVIOUS
<1> QED
  BY <1>1, <1>3, <1>5, <1>6, <1>7

\* An observation whose AP's clock is not behind is kept for the whole window
\* the prune read, counted from its reception, also when its event brought no
\* usable timestamp; for every retention window, however prunes, clock, writers
\* and settings interleave.
THEOREM RowsKeptForWindow == Spec => KeptForWindow
BY ShapeInit, ShapeStep, KeptInit, KeptStep, DeletesOld, PTL DEF Spec, KeptForWindow

-----------------------------------------------------------------------------
(* Adverts.                                                                *)

Submitting == {r \in InFlight : req[r].pc = "submit"}

\* What handler r contributes to AllAhead.
Part(r) == IF r \in InFlight THEN Ahead(r) ELSE {}

\* A handler that has not captured yet is before its first event.
AtFirst == \A r \in Requests : req[r].pc = "capture" => req[r].k = 1

\* The two counts in terms of two finite sets.
Balanced(c, ahead, submitting) ==
    /\ c["events"] = c["parserErrors"] + c["anonymous"] + c["kinds"] + Cardinality(ahead)
    /\ c["kinds"] = c["applied"] + c["unknown"] + Cardinality(submitting)

AccInv ==
    /\ Balanced(count, AllAhead, Submitting)
    /\ IsFiniteSet(AllAhead) /\ AtFirst

\* AllAhead by its parts.
LEMMA AheadParts ==
    /\ \A x \in AllAhead : \E q \in Requests : \E j \in Part(q) : x = <<q, j>>
    /\ \A q \in Requests : \A j : <<q, j>> \in AllAhead <=> j \in Part(q)
<1>1. InFlight \subseteq Requests
  BY DEF InFlight
<1>2. ASSUME NEW x PROVE x \in AllAhead <=> \E q \in InFlight : \E j \in Ahead(q) : x = <<q, j>>
  BY DEF AllAhead
<1> HIDE DEF AllAhead
<1> QED
  BY <1>1, <1>2 DEF Part

\* AllAhead after a step.
LEMMA AheadPartsNext ==
    /\ \A x \in AllAhead' : \E q \in Requests : \E j \in Part(q)' : x = <<q, j>>
    /\ \A q \in Requests : \A j : <<q, j>> \in AllAhead' <=> j \in Part(q)'
<1>1. InFlight' \subseteq Requests
  BY DEF InFlight
<1>2. ASSUME NEW x PROVE x \in AllAhead' <=> \E q \in InFlight' : \E j \in Ahead(q)' : x = <<q, j>>
  BY DEF AllAhead
<1> HIDE DEF AllAhead
<1> QED
  BY <1>1, <1>2 DEF Part

\* The other handlers' parts stay.
LEMMA OtherParts ==
    ASSUME NEW r \in Requests, NEW h, Turns(r, h)
    PROVE  /\ \A q \in Requests : q # r => Part(q)' = Part(q)
           /\ \A q \in Requests : q # r => (q \in Submitting' <=> q \in Submitting)
           /\ Submitting \subseteq Requests /\ Submitting' \subseteq Requests
<1>1. ASSUME NEW q \in Requests, q # r
      PROVE  Part(q)' = Part(q) /\ (q \in Submitting' <=> q \in Submitting)
  <2>1. req'[q] = req[q]
    BY <1>1 DEF Turns
  <2>2. q \in InFlight' <=> q \in InFlight
    BY <2>1 DEF InFlight
  <2>3. Ahead(q)' = Ahead(q)
    BY <2>1 DEF Ahead
  <2> QED
    BY <2>1, <2>2, <2>3 DEF Part, Submitting
<1> QED
  BY <1>1 DEF Submitting, InFlight

\* The part of r before and after its step.
LEMMA PartOf ==
    ASSUME NEW r \in Requests
    PROVE  /\ req[r].pc = "items" => Part(r) = req[r].k..Len(Items(req[r].events))
           /\ req[r].pc = "submit" => Part(r) = (req[r].k + 1)..Len(Items(req[r].events))
           /\ req[r].pc \notin {"items", "submit"} => Part(r) = {}
           /\ r \in Submitting <=> req[r].pc = "submit"
BY DEF Part, InFlight, Ahead, Submitting

\* The part of r after its step.
LEMMA PartTurned ==
    ASSUME NEW r \in Requests, NEW h, Turns(r, h)
    PROVE  /\ h.pc = "items" => Part(r)' = h.k..Len(Items(h.events))
           /\ h.pc = "submit" => Part(r)' = (h.k + 1)..Len(Items(h.events))
           /\ h.pc \notin {"items", "submit"} => Part(r)' = {}
           /\ r \in Submitting' <=> h.pc = "submit"
<1>1. req'[r] = h
  BY DEF Turns
<1> QED
  BY <1>1 DEF Part, InFlight, Ahead, Submitting

\* How the sets move with r's step.
LEMMA SetsMove ==
    ASSUME NEW r \in Requests, NEW h, Turns(r, h)
    PROVE  /\ Part(r)' = Part(r) => AllAhead' = AllAhead
           /\ \A k : Part(r)' = Part(r) \ {k} => AllAhead' = AllAhead \ {<<r, k>>}
           /\ \A P : Part(r) = {} /\ Part(r)' = P =>
                 /\ AllAhead' = AllAhead \cup ({r} \X P) /\ AllAhead \cap ({r} \X P) = {}
           /\ (h.pc = "submit" <=> req[r].pc = "submit") => Submitting' = Submitting
           /\ h.pc = "submit" /\ req[r].pc # "submit" =>
                 r \notin Submitting /\ Submitting' = Submitting \cup {r}
           /\ h.pc # "submit" /\ req[r].pc = "submit" =>
                 r \in Submitting /\ Submitting' = Submitting \ {r}
<1>1. /\ \A q \in Requests : q # r => Part(q)' = Part(q)
      /\ \A q \in Requests : q # r => (q \in Submitting' <=> q \in Submitting)
      /\ Submitting \subseteq Requests /\ Submitting' \subseteq Requests
  BY OtherParts
<1>2. (r \in Submitting <=> req[r].pc = "submit") /\ (r \in Submitting' <=> h.pc = "submit")
  BY PartOf, PartTurned
<1>3. ASSUME NEW q \in Requests, NEW j, q # r PROVE <<q, j>> \in AllAhead' <=> <<q, j>> \in AllAhead
  BY <1>1, <1>3, AheadParts, AheadPartsNext
<1>4. ASSUME NEW j PROVE (<<r, j>> \in AllAhead <=> j \in Part(r)) /\ (<<r, j>> \in AllAhead' <=> j \in Part(r)')
  BY AheadParts, AheadPartsNext
<1>5. \A x \in AllAhead \cup AllAhead' : \E q \in Requests : \E j : x = <<q, j>>
  BY AheadParts, AheadPartsNext
<1>6. Part(r)' = Part(r) => AllAhead' = AllAhead
  BY <1>3, <1>4, <1>5
<1>7. ASSUME NEW k, Part(r)' = Part(r) \ {k} PROVE AllAhead' = AllAhead \ {<<r, k>>}
  BY <1>3, <1>4, <1>5, <1>7
<1>8. ASSUME NEW P, Part(r) = {}, Part(r)' = P
      PROVE  AllAhead' = AllAhead \cup ({r} \X P) /\ AllAhead \cap ({r} \X P) = {}
  BY <1>3, <1>4, <1>5, <1>8
<1>9. /\ (h.pc = "submit" <=> req[r].pc = "submit") => Submitting' = Submitting
      /\ h.pc = "submit" /\ req[r].pc # "submit" =>
            r \notin Submitting /\ Submitting' = Submitting \cup {r}
      /\ h.pc # "submit" /\ req[r].pc = "submit" =>
            r \in Submitting /\ Submitting' = Submitting \ {r}
  BY <1>1, <1>2
<1> QED
  BY <1>6, <1>7, <1>8, <1>9

\* Handlers submit at most one event each.
LEMMA SubmittingFinite == IsFiniteSet(Submitting) /\ Cardinality(Submitting) \in Int
<1>1. IsFiniteSet(Requests)
  BY IngestAssumption, FS_Interval DEF Requests
<1>2. Submitting \in SUBSET Requests
  BY DEF Submitting, InFlight
<1>3. IsFiniteSet(Submitting)
  BY <1>1, <1>2, FS_Subset
<1> QED
  BY <1>3, FS_CardinalityType

\* At boot.
LEMMA AccInit == Init => AccInv
<1> SUFFICES ASSUME Init PROVE AccInv
  OBVIOUS
<1>1. \A r \in Requests : req[r].pc = "idle"
  BY DEF Init, Idle
<1>2. InFlight = {}
  BY <1>1 DEF InFlight
<1>3. AllAhead = {} /\ Submitting = {}
  BY <1>2 DEF AllAhead, Submitting
<1>4. \A c \in Counters : count[c] = 0
  BY DEF Init
<1>5. Balanced(count, {}, {})
  BY <1>4, FS_EmptySet DEF Balanced, Counters
<1> QED
  BY <1>1, <1>3, <1>5, FS_EmptySet DEF AccInv, AtFirst

\* Counters that no sum is about.
LEMMA SameCounts ==
    ASSUME AccInv, AllAhead' = AllAhead, Submitting' = Submitting, AtFirst',
           \A c \in Counters \ {"rejected"} : count'[c] = count[c]
    PROVE  AccInv'
<1>1. Balanced(count', AllAhead, Submitting)
  BY DEF AccInv, Balanced, Counters
<1> QED
  BY <1>1 DEF AccInv

\* A handler's step keeps the others before their first event.
LEMMA AtFirstTurned ==
    ASSUME AtFirst, NEW r \in Requests, NEW h, Turns(r, h), h.pc = "capture" => h.k = 1
    PROVE  AtFirst'
BY DEF AtFirst, Turns

\* Capture: the parsed events of the POST are ahead.
LEMMA AccCapture ==
    ASSUME Shape, AccInv, NEW r \in Requests, Capture(r)
    PROVE  AccInv'
<1> DEFINE evs == req[r].events
           n == Len(evs)
           m == Len(Items(evs))
<1>1. PICK i \in Nat \cup {None} : Turns(r, Post(req[r], "items", req[r].k, i))
  BY CaptureEffect
<1>2. /\ req[r] \in PostHandler(Len(bodies)) /\ req[r].pc = "capture"
      /\ count' = [count EXCEPT !["events"] = count["events"] + n,
                                !["parserErrors"] = count["parserErrors"] + n - m]
  BY CaptureEffect
<1>3. /\ Post(req[r], "items", req[r].k, i).pc = "items"
      /\ Post(req[r], "items", req[r].k, i).k = req[r].k
      /\ Post(req[r], "items", req[r].k, i).events = evs
  BY DEF Post
<1>4. req[r].k = 1
  BY <1>2 DEF AccInv, AtFirst
<1>5. n \in Int /\ m \in Nat
  <2>1. evs \in Posts
    BY <1>2 DEF PostHandler
  <2> QED
    BY <2>1, PostsAssumption DEF Items
<1> HIDE DEF n, m
<1>6. Part(r) = {} /\ Part(r)' = 1..m
  BY <1>1, <1>2, <1>3, <1>4, PartOf, PartTurned DEF m
<1>7. AllAhead' = AllAhead \cup ({r} \X (1..m)) /\ AllAhead \cap ({r} \X (1..m)) = {}
  BY <1>1, <1>6, SetsMove
<1>8. Submitting' = Submitting
  BY <1>1, <1>2, <1>3, SetsMove
<1>9. IsFiniteSet({r} \X (1..m)) /\ Cardinality({r} \X (1..m)) = m
  <2>1. IsFiniteSet(1..m) /\ Cardinality(1..m) = m
    BY <1>5, FS_Interval
  <2>2. IsFiniteSet({r}) /\ Cardinality({r}) = 1
    BY FS_Singleton
  <2>3. IsFiniteSet({r} \X (1..m)) /\ Cardinality({r} \X (1..m)) = 1 * m
    BY <2>1, <2>2, FS_Product, ZenonT(60)
  <2> QED
    BY <1>5, <2>3
<1>10. IsFiniteSet(AllAhead') /\ Cardinality(AllAhead') = Cardinality(AllAhead) + m
       /\ Cardinality(AllAhead) \in Int
  <2>1. IsFiniteSet(AllAhead) /\ Cardinality(AllAhead) \in Int
    BY FS_CardinalityType DEF AccInv
  <2> HIDE DEF AllAhead
  <2>2. IsFiniteSet(AllAhead') /\ Cardinality(AllAhead') = Cardinality(AllAhead) + m - 0
    BY <1>7, <1>9, <2>1, FS_Union, FS_EmptySet
  <2> QED
    BY <1>5, <2>1, <2>2
<1>11. \A c \in Counters : count[c] \in Int
  BY DEF Shape
<1>12. /\ count'["events"] = count["events"] + n
       /\ count'["parserErrors"] = count["parserErrors"] + n - m
       /\ \A c \in Counters \ {"events", "parserErrors"} : count'[c] = count[c]
  <2>1. count \in [Counters -> Int]
    BY DEF Shape
  <2> QED
    BY <1>2, <2>1 DEF Counters
<1>13. Balanced(count', AllAhead', Submitting)
  <2>1. \A e, q, a, d, c, x, y \in Int :
           e = q + a + d + c => e + x = (q + x - y) + a + d + (c + y)
    OBVIOUS
  <2>2. /\ count["events"] = count["parserErrors"] + count["anonymous"] + count["kinds"]
                               + Cardinality(AllAhead)
        /\ count["kinds"] = count["applied"] + count["unknown"] + Cardinality(Submitting)
    BY DEF AccInv, Balanced
  <2>3. count'["events"] = count'["parserErrors"] + count'["anonymous"] + count'["kinds"]
                             + Cardinality(AllAhead')
    BY <1>5, <1>10, <1>11, <1>12, <2>1, <2>2 DEF Counters
  <2>4. count'["kinds"] = count'["applied"] + count'["unknown"] + Cardinality(Submitting)
    BY <1>12, <2>2 DEF Counters
  <2> QED
    BY <2>3, <2>4 DEF Balanced
<1>14. AtFirst'
  BY <1>1, <1>3, AtFirstTurned DEF AccInv
<1> QED
  BY <1>8, <1>10, <1>13, <1>14 DEF AccInv

\* Pass 2 takes an event off the ones ahead.
LEMMA AheadTaken ==
    ASSUME Shape, AccInv, NEW r \in Requests, AtItem(r), req[r] \in PostHandler(Len(bodies)),
           NEW h, Turns(r, h),
           \/ h = Post(req[r], "submit", req[r].k, req[r].id)
           \/ h = Post(req[r], "items", req[r].k + 1, req[r].id)
    PROVE  /\ IsFiniteSet(AllAhead') /\ Cardinality(AllAhead') = Cardinality(AllAhead) - 1
           /\ Cardinality(AllAhead) \in Int
           /\ AtFirst'
<1> DEFINE m == Len(Items(req[r].events))
<1>1. req[r].k \in Nat \ {0} /\ req[r].pc = "items" /\ req[r].k <= m
  BY DEF PostHandler, AtItem
<1>2. m \in Nat
  <2>1. req[r].events \in Posts
    BY DEF PostHandler
  <2> QED
    BY <2>1, PostsAssumption DEF Items
<1>3. /\ h.events = req[r].events
      /\ \/ h.pc = "submit" /\ h.k = req[r].k
         \/ h.pc = "items" /\ h.k = req[r].k + 1
  BY DEF Post
<1>4. Part(r) = req[r].k..m
  BY <1>1, PartOf
<1>5. Part(r)' = (req[r].k + 1)..m
  BY <1>3, PartTurned
<1> HIDE DEF m
<1>6. Part(r)' = Part(r) \ {req[r].k} /\ req[r].k \in Part(r)
  BY <1>1, <1>2, <1>4, <1>5
<1>7. AllAhead' = AllAhead \ {<<r, req[r].k>>} /\ <<r, req[r].k>> \in AllAhead
  BY <1>6, SetsMove, AheadParts
<1>8. IsFiniteSet(AllAhead) /\ Cardinality(AllAhead) \in Int
  BY FS_CardinalityType DEF AccInv
<1>9. IsFiniteSet(AllAhead') /\ Cardinality(AllAhead') = Cardinality(AllAhead) - 1
  BY <1>7, <1>8, FS_RemoveElement
<1>10. AtFirst'
  BY <1>3, AtFirstTurned DEF AccInv
<1> QED
  BY <1>8, <1>9, <1>10

\* An advert without an identity.
LEMMA AccAnonymous ==
    ASSUME Shape, AccInv, NEW r \in Requests, Anonymous(r)
    PROVE  AccInv'
<1>1. /\ req[r] \in PostHandler(Len(bodies)) /\ AtItem(r)
      /\ Turns(r, Post(req[r], "items", req[r].k + 1, req[r].id))
      /\ count' = [count EXCEPT !["anonymous"] = count["anonymous"] + 1]
  BY AnonymousEffect
<1>2. /\ IsFiniteSet(AllAhead') /\ Cardinality(AllAhead') = Cardinality(AllAhead) - 1
      /\ Cardinality(AllAhead) \in Int /\ AtFirst'
  BY <1>1, AheadTaken
<1>3. Submitting' = Submitting
  <2>1. Post(req[r], "items", req[r].k + 1, req[r].id).pc = "items" /\ req[r].pc = "items"
    BY <1>1 DEF Post, AtItem
  <2> QED
    BY <1>1, <2>1, SetsMove
<1>4. \A c \in Counters : count[c] \in Int
  BY DEF Shape
<1>5. /\ count'["anonymous"] = count["anonymous"] + 1
      /\ \A c \in Counters \ {"anonymous"} : count'[c] = count[c]
  <2>1. count \in [Counters -> Int]
    BY DEF Shape
  <2> QED
    BY <1>1, <2>1 DEF Counters
<1>6. Balanced(count', AllAhead', Submitting)
  <2>1. \A e, q, a, d, c \in Int : e = q + a + d + c => e = q + (a + 1) + d + (c - 1)
    OBVIOUS
  <2>2. /\ count["events"] = count["parserErrors"] + count["anonymous"] + count["kinds"]
                               + Cardinality(AllAhead)
        /\ count["kinds"] = count["applied"] + count["unknown"] + Cardinality(Submitting)
    BY DEF AccInv, Balanced
  <2>3. count'["events"] = count'["parserErrors"] + count'["anonymous"] + count'["kinds"]
                             + Cardinality(AllAhead')
    BY <1>2, <1>4, <1>5, <2>1, <2>2 DEF Counters
  <2>4. count'["kinds"] = count'["applied"] + count'["unknown"] + Cardinality(Submitting)
    BY <1>5, <2>2 DEF Counters
  <2> QED
    BY <2>3, <2>4 DEF Balanced
<1> QED
  BY <1>2, <1>3, <1>6 DEF AccInv

\* An identity: identified, and either unknown or about to be submitted.
LEMMA AccObserve ==
    ASSUME Shape, AccInv, NEW r \in Requests, Observe(r)
    PROVE  AccInv'
<1>1. /\ req[r] \in PostHandler(Len(bodies)) /\ AtItem(r) /\ req[r].pc = "items"
  BY ObserveEffect DEF AtItem
<1>2. IsFiniteSet(Submitting) /\ Cardinality(Submitting) \in Int
  BY SubmittingFinite
<1>3. PICK a \in {0, 1}, bad \in {0, 1} :
         /\ count' = [count EXCEPT
               !["kinds"] = count["kinds"] + 1, !["unknown"] = count["unknown"] + a,
               !["badTimestamp"] = count["badTimestamp"] + bad]
         /\ \/ a = 0 /\ Turns(r, Post(req[r], "submit", req[r].k, req[r].id))
            \/ a = 1 /\ Turns(r, Post(req[r], "items", req[r].k + 1, req[r].id))
  BY ObserveEffect
<1>4. /\ IsFiniteSet(AllAhead') /\ Cardinality(AllAhead') = Cardinality(AllAhead) - 1
      /\ Cardinality(AllAhead) \in Int /\ AtFirst'
  BY <1>1, <1>3, AheadTaken
<1>5. Cardinality(Submitting') = Cardinality(Submitting) + 1 - a
  <2>1. CASE a = 0 /\ Turns(r, Post(req[r], "submit", req[r].k, req[r].id))
    <3>1. Post(req[r], "submit", req[r].k, req[r].id).pc = "submit"
      BY DEF Post
    <3>2. r \notin Submitting /\ Submitting' = Submitting \cup {r}
      BY <1>1, <2>1, <3>1, SetsMove
    <3>3. Cardinality(Submitting') = Cardinality(Submitting) + 1
      BY <1>2, <3>2, FS_AddElement
    <3> QED
      BY <1>2, <2>1, <3>3
  <2>2. CASE a = 1 /\ Turns(r, Post(req[r], "items", req[r].k + 1, req[r].id))
    <3>1. Post(req[r], "items", req[r].k + 1, req[r].id).pc = "items"
      BY DEF Post
    <3>2. Submitting' = Submitting
      BY <1>1, <2>2, <3>1, SetsMove
    <3> QED
      BY <1>2, <2>2, <3>2
  <2> QED
    BY <1>3, <2>1, <2>2
<1>6. \A c \in Counters : count[c] \in Int
  BY DEF Shape
<1>7. /\ count'["kinds"] = count["kinds"] + 1 /\ count'["unknown"] = count["unknown"] + a
      /\ \A c \in Counters \ {"kinds", "unknown", "badTimestamp"} : count'[c] = count[c]
  <2>1. count \in [Counters -> Int]
    BY DEF Shape
  <2> QED
    BY <1>3, <2>1 DEF Counters
<1>8. Balanced(count', AllAhead', Submitting')
  <2>1. \A e, q, x, d, c \in Int : e = q + x + d + c => e = q + x + (d + 1) + (c - 1)
    OBVIOUS
  <2>2. \A d, x, u, y, c \in Int : d = x + u + c => d + 1 = x + (u + y) + (c + 1 - y)
    OBVIOUS
  <2>3. /\ count["events"] = count["parserErrors"] + count["anonymous"] + count["kinds"]
                               + Cardinality(AllAhead)
        /\ count["kinds"] = count["applied"] + count["unknown"] + Cardinality(Submitting)
    BY DEF AccInv, Balanced
  <2>4. count'["events"] = count'["parserErrors"] + count'["anonymous"] + count'["kinds"]
                             + Cardinality(AllAhead')
    BY <1>4, <1>6, <1>7, <2>1, <2>3 DEF Counters
  <2>5. count'["kinds"] = count'["applied"] + count'["unknown"] + Cardinality(Submitting')
    <3>1. a \in Int
      OBVIOUS
    <3> QED
      BY <1>2, <1>5, <1>6, <1>7, <2>2, <2>3, <3>1 DEF Counters
  <2> QED
    BY <2>4, <2>5 DEF Balanced
<1> QED
  BY <1>4, <1>8 DEF AccInv

\* The engine takes the sighting, or counts its beacon as unknown.
LEMMA AccSubmit ==
    ASSUME Shape, AccInv, NEW r \in Requests, Submit(r)
    PROVE  AccInv'
<1> DEFINE h == Post(req[r], "items", req[r].k + 1, req[r].id)
<1>1. req[r] \in PostHandler(Len(bodies)) /\ req[r].pc = "submit" /\ Turns(r, h)
  BY SubmitEffect
<1>2. PICK c \in {"applied", "unknown"} : count' = [count EXCEPT ![c] = count[c] + 1]
  BY SubmitEffect
<1>3. h.pc = "items" /\ h.k = req[r].k + 1 /\ h.events = req[r].events
  BY DEF Post
<1> HIDE DEF h
<1>4. Part(r)' = Part(r)
  BY <1>1, <1>3, PartOf, PartTurned
<1>5. AllAhead' = AllAhead
  BY <1>1, <1>4, SetsMove
<1>6. r \in Submitting /\ Submitting' = Submitting \ {r}
  BY <1>1, <1>3, SetsMove
<1>7. /\ Cardinality(Submitting') = Cardinality(Submitting) - 1
      /\ Cardinality(Submitting) \in Int
  BY <1>6, SubmittingFinite, FS_RemoveElement
<1>8. AtFirst'
  BY <1>1, <1>3, AtFirstTurned DEF AccInv
<1>9. \A x \in Counters : count[x] \in Int
  BY DEF Shape
<1>10. count'[c] = count[c] + 1 /\ \A x \in Counters \ {c} : count'[x] = count[x]
  <2>1. count \in [Counters -> Int]
    BY DEF Shape
  <2> QED
    BY <1>2, <2>1 DEF Counters
<1>11. Balanced(count', AllAhead, Submitting')
  <2>1. \A d, x, u, y \in Int : d = x + u + y => /\ d = (x + 1) + u + (y - 1)
                                                  /\ d = x + (u + 1) + (y - 1)
    OBVIOUS
  <2>2. /\ count["events"] = count["parserErrors"] + count["anonymous"] + count["kinds"]
                               + Cardinality(AllAhead)
        /\ count["kinds"] = count["applied"] + count["unknown"] + Cardinality(Submitting)
    BY DEF AccInv, Balanced
  <2>3. count'["events"] = count'["parserErrors"] + count'["anonymous"] + count'["kinds"]
                             + Cardinality(AllAhead)
    BY <1>10, <2>2 DEF Counters
  <2>4. count'["kinds"] = count'["applied"] + count'["unknown"] + Cardinality(Submitting')
    <3>1. CASE c = "applied"
      BY <1>7, <1>9, <1>10, <2>1, <2>2, <3>1 DEF Counters
    <3>2. CASE c = "unknown"
      BY <1>7, <1>9, <1>10, <2>1, <2>2, <3>2 DEF Counters
    <3> QED
      BY <3>1, <3>2
  <2> QED
    BY <2>3, <2>4 DEF Balanced
<1> QED
  BY <1>5, <1>8, <1>11 DEF AccInv

\* A step that changes one handler but nothing it contributes to the sums.
LEMMA AccAside ==
    ASSUME AccInv, NEW r \in Requests, NEW h, Turns(r, h), count' = count,
           Part(r) = {}, h.pc \notin {"items", "submit"}, req[r].pc # "submit",
           h.pc = "capture" => h.k = 1
    PROVE  AccInv'
<1>1. Part(r)' = {}
  BY PartTurned
<1>2. AllAhead' = AllAhead
  BY <1>1, SetsMove
<1>3. Submitting' = Submitting
  BY SetsMove
<1>4. AtFirst'
  BY AtFirstTurned DEF AccInv
<1> QED
  BY <1>2, <1>3, <1>4, SameCounts

\* The handlers' steps.
LEMMA AccHandle ==
    ASSUME Shape, AccInv, NEW r \in Requests, Handle(r)
    PROVE  AccInv'
<1>1. CASE Finish(r)
  <2>1. /\ req[r] \in PostHandler(Len(bodies)) /\ req[r].pc = "items" /\ ~AtItem(r)
        /\ Turns(r, Idle) /\ count' = count
    BY <1>1, FinishEffect
  <2>2. req[r].k \in Nat /\ Len(Items(req[r].events)) \in Nat
    <3>1. req[r].k \in Nat /\ req[r].events \in Posts
      BY <2>1 DEF PostHandler
    <3> QED
      BY <3>1, PostsAssumption DEF Items
  <2>3. ~(req[r].k <= Len(Items(req[r].events)))
    BY <2>1 DEF AtItem
  <2>4. Part(r) = {}
    BY <2>1, <2>2, <2>3, PartOf
  <2>5. Idle.pc = "idle"
    BY DEF Idle
  <2> QED
    BY <2>1, <2>4, <2>5, AccAside
<1>2. ASSUME NEW h, Turns(r, h), req[r].pc \in HbSteps, h.pc \in HbSteps \cup {"idle"}, count' = count
      PROVE  AccInv'
  BY <1>2, PartOf, AccAside DEF HbSteps
<1>3. CASE HeartbeatCapture(r)
  <2>1. PICK i \in Nat \cup {None} : Turns(r, Beat(req[r], "hbSet", i))
    BY <1>3, BeatCaptureEffect
  <2>2. req[r].pc = "hb" /\ count' = count
    BY <1>3, BeatCaptureEffect
  <2>3. Beat(req[r], "hbSet", i).pc = "hbSet"
    BY DEF Beat
  <2> QED
    BY <1>2, <2>1, <2>2, <2>3 DEF HbSteps
<1>4. CASE OnHeartbeat(r) \/ HeartbeatDone(r)
  <2>1. /\ req[r].pc \in {"hbSet", "hbGauge"} /\ count' = count
        /\ Turns(r, Beat(req[r], "hbGauge", req[r].id)) \/ Turns(r, Idle)
    BY <1>4, BeatEffect
  <2>2. Beat(req[r], "hbGauge", req[r].id).pc = "hbGauge" /\ Idle.pc = "idle"
    BY DEF Beat, Idle
  <2> QED
    BY <1>2, <2>1, <2>2 DEF HbSteps
<1> QED
  BY <1>1, <1>3, <1>4, AccCapture, AccAnonymous, AccObserve, AccSubmit DEF Handle

\* Every step keeps the sums.
LEMMA AccStep == Shape /\ AccInv /\ [Next]_vars => AccInv'
<1> SUFFICES ASSUME Shape, AccInv, [Next]_vars PROVE AccInv'
  OBVIOUS
<1>1. ASSUME req' = req, \A c \in Counters \ {"rejected"} : count'[c] = count[c] PROVE AccInv'
  <2>1. InFlight' = InFlight
    BY <1>1 DEF InFlight
  <2>2. AllAhead' = AllAhead
    BY <1>1, <2>1 DEF AllAhead, Ahead
  <2>3. Submitting' = Submitting /\ AtFirst'
    BY <1>1, <2>1 DEF Submitting, AccInv, AtFirst
  <2> QED
    BY <1>1, <2>2, <2>3, SameCounts
<1>2. ASSUME NEW r \in Requests, NEW h, req[r] = Idle, Turns(r, h), count' = count,
             h.pc \notin {"items", "submit"}, h.pc = "capture" => h.k = 1
      PROVE  AccInv'
  <2>1. req[r].pc = "idle"
    BY <1>2 DEF Idle
  <2> QED
    BY <1>2, <2>1, PartOf, AccAside
<1>3. ASSUME NEW r \in Requests, Reject(r) PROVE AccInv'
  <2>1. req' = req /\ count' = [count EXCEPT !["rejected"] = count["rejected"] + 1]
    BY <1>3 DEF Reject, Bump
  <2>2. \A c \in Counters \ {"rejected"} : count'[c] = count[c]
    BY <2>1 DEF Shape
  <2> QED
    BY <1>1, <2>1, <2>2
<1>4. ASSUME NEW r \in Requests, NEW p \in Posts, Accept(r, p) PROVE AccInv'
  <2> DEFINE h == [pc |-> "capture", post |-> Len(bodies) + 1, events |-> p,
                   cfg |-> settings, id |-> None, k |-> 1]
  <2>1. req[r] = Idle /\ Turns(r, h) /\ count' = count
    BY <1>4, AcceptEffect
  <2>2. h.pc = "capture" /\ h.k = 1
    OBVIOUS
  <2> HIDE DEF h
  <2> QED
    BY <1>2, <2>1, <2>2
<1>5. ASSUME NEW r \in Requests, NEW n \in OnlineCounts, Heartbeat(r, n) PROVE AccInv'
  <2> DEFINE h == [pc |-> "hb", post |-> Len(bodies) + 1, online |-> n,
                   cfg |-> settings, id |-> None]
  <2>1. req[r] = Idle /\ Turns(r, h) /\ count' = count
    BY <1>5, HeartbeatEffect
  <2>2. h.pc = "hb"
    OBVIOUS
  <2> HIDE DEF h
  <2> QED
    BY <1>2, <2>1, <2>2
<1>6. CASE \/ RetentionNext /\ UNCHANGED ingestVars
           \/ \E b \in Beacons : Retrack(b)
           \/ \E s \in Settings : ReplaceSettings(s)
           \/ UNCHANGED vars
  <2>1. req' = req /\ count' = count
    BY <1>6 DEF Retrack, ReplaceSettings, vars, ingestVars
  <2> QED
    BY <1>1, <2>1
<1> QED
  BY <1>3, <1>4, <1>5, <1>6, AccHandle DEF Next

\* No advert is lost or counted twice, however many POSTs are handled at a time
\* and however promotions and demotions fall between the handler's lookup and
\* the engine's: each event failed to parse, is anonymous, is identified or is
\* still ahead, and each identified one was applied, counted unknown once, or
\* is about to be submitted.
THEOREM AdvertsAlwaysAccounted == Spec => []AdvertsAccounted
<1>1. AccInv => AdvertsAccounted
  BY DEF AccInv, Balanced, AdvertsAccounted, Submitting
<1> QED
  BY <1>1, ShapeInit, ShapeStep, AccInit, AccStep, PTL DEF Spec

-----------------------------------------------------------------------------
(* Envelopes.                                                              *)

\* An id that is none, or was taken before n.
Below(i, n) == i = None \/ (i \in Nat /\ i < n)

Live(r) == req[r] # Idle

\* Handlers work on different POSTs, with ids that were taken.
PostsApart == \A q, r \in Requests : q # r /\ Live(q) /\ Live(r) => req[q].post # req[r].post
LiveBelow == \A r \in Requests : Live(r) => Below(req[r].id, nextID)

\* Rows and envelopes are of POSTs that arrived, under ids that were taken.
RowsPast == \A row \in Rows : row.post \in 1..Len(bodies) /\ Below(row.rawPostID, nextID)
EnvsPast == \A env \in Envelopes : /\ env \in [id : Nat, post : 1..Len(bodies), at : Nat]
                                   /\ env.id < nextID

\* The rows of a POST still being handled are those of pass 2, and they have the
\* handler's toggle and id, which do not change any more.
RowsLive ==
    \A r \in Requests, row \in Rows : Live(r) /\ row.post = req[r].post =>
        /\ req[r].pc \in {"items", "submit"}
        /\ row.hex = req[r].cfg.hex /\ row.rawPostID = req[r].id

\* The id of a handler is that of its own envelope.
EnvsLive ==
    \A r \in Requests, env \in Envelopes : Live(r) /\ req[r].id = env.id => req[r].post = env.post

\* OwnEnvelope by its parts.
OneSetting ==
    \A row, other \in Rows : row.post = other.post =>
        row.hex = other.hex /\ row.rawPostID = other.rawPostID
OwnPost == \A row \in Rows, env \in Envelopes : row.rawPostID = env.id => row.post = env.post
OneEnvelope == \A env, other \in Envelopes : env.id = other.id => env.post = other.post
OneStored == \A env, other \in tables.raw : env.id = other.id => env = other

\* An envelope has no received_at while it is with the writer, also one whose
\* insert committed unanswered: so a batch has an envelope once.
Unstamped == \A env \in queued.raw : env.at = 0

PostInv == PostsApart /\ LiveBelow /\ RowsPast /\ EnvsPast
LiveInv == RowsLive /\ EnvsLive
EnvInv == StoreOK /\ PostInv /\ LiveInv /\ OneSetting /\ OwnPost /\ OneEnvelope /\ OneStored
            /\ Unstamped

\* A handler at work has a POST that arrived.
LEMMA LivePost ==
    ASSUME Shape, NEW r \in Requests, Live(r)
    PROVE  req[r].post \in 1..Len(bodies)
<1>1. HandlerOK(req[r], bodies)
  BY DEF Shape
<1> QED
  BY <1>1 DEF HandlerOK, PostHandler, BeatHandler, Live

\* Taken ids stay taken.
LEMMA BelowGrows ==
    ASSUME NEW m \in Nat, NEW n \in Nat, m <= n, NEW i, Below(i, m)
    PROVE  Below(i, n)
BY DEF Below

\* At boot.
LEMMA EnvInit == Init => EnvInv
<1> SUFFICES ASSUME Init PROVE EnvInv
  OBVIOUS
<1>1. /\ queued = [obs |-> {}, raw |-> {}] /\ tables = [obs |-> {}, raw |-> {}]
      /\ \A r \in Requests : ~Live(r)
  BY DEF Init, RetentionInit, Live
<1>2. StoreOK /\ Rows = {} /\ Envelopes = {}
  BY <1>1 DEF StoreOK, Store, Rows, Envelopes
<1> QED
  BY <1>1, <1>2 DEF EnvInv, PostInv, LiveInv, PostsApart, LiveBelow, RowsPast, EnvsPast, RowsLive,
                    EnvsLive, OneSetting, OwnPost, OneEnvelope, OneStored, Unstamped

\* A handler goes on with its POST, or ends it.
GoesOn(r) ==
    \/ req'[r] = Idle
    \/ /\ Live(r)
       /\ req'[r].post = req[r].post /\ req'[r].cfg = req[r].cfg /\ req'[r].id = req[r].id
       /\ req[r].pc \in {"items", "submit"} => req'[r].pc \in {"items", "submit"}

\* The POSTs that arrived, after a step.
LEMMA GrownPosts ==
    ASSUME Shape, Grown
    PROVE  1..Len(bodies) \subseteq 1..Len(bodies')
<1>1. CASE bodies' = bodies
  BY <1>1
<1>2. ASSUME NEW p \in Posts \cup {<<>>}, bodies' = Append(bodies, p)
      PROVE  1..Len(bodies) \subseteq 1..Len(bodies')
  <2>1. Len(bodies) \in Nat /\ Len(bodies') = Len(bodies) + 1
    BY <1>2, Arrived
  <2> QED
    BY <2>1
<1> QED
  BY <1>1, <1>2 DEF Grown

\* Rows and envelopes may go and be stamped, handlers go on or end, ids are lost.
LEMMA EnvGoesOn ==
    ASSUME Shape, EnvInv, Grown, \A r \in Requests : GoesOn(r),
           nextID' \in {nextID, nextID + 1}, Rows' \subseteq Rows,
           \A e \in Envelopes' : /\ e \in [id : Nat, post : 1..Len(bodies), at : Nat]
                                 /\ \E env \in Envelopes : e.id = env.id /\ e.post = env.post
    PROVE  PostInv' /\ LiveInv' /\ OneSetting' /\ OwnPost'
<1>1. nextID \in Nat /\ nextID' \in Nat /\ nextID <= nextID'
  BY DEF Shape
<1>2. 1..Len(bodies) \subseteq 1..Len(bodies')
  BY GrownPosts
<1>3. \A r \in Requests : Live(r)' =>
         /\ Live(r) /\ req'[r].post = req[r].post /\ req'[r].cfg = req[r].cfg
         /\ req'[r].id = req[r].id
         /\ req[r].pc \in {"items", "submit"} => req'[r].pc \in {"items", "submit"}
  BY DEF GoesOn, Live
<1>4. PostsApart'
  BY <1>3 DEF EnvInv, PostInv, PostsApart
<1>5. LiveBelow'
  <2>1. \A r \in Requests : Live(r) => Below(req[r].id, nextID')
    BY <1>1, BelowGrows DEF EnvInv, PostInv, LiveBelow
  <2> QED
    BY <1>3, <2>1 DEF LiveBelow
<1>6. RowsPast'
  <2>1. \A row \in Rows : row.post \in 1..Len(bodies') /\ Below(row.rawPostID, nextID')
    BY <1>1, <1>2, BelowGrows DEF EnvInv, PostInv, RowsPast
  <2> QED
    BY <2>1 DEF RowsPast
<1>7. EnvsPast'
  <2>1. ASSUME NEW e \in Envelopes'
        PROVE  e \in [id : Nat, post : 1..Len(bodies'), at : Nat] /\ e.id < nextID'
    <3>1. e \in [id : Nat, post : 1..Len(bodies'), at : Nat]
      BY <1>2
    <3>2. PICK env \in Envelopes : e.id = env.id
      OBVIOUS
    <3>3. env.id \in Nat /\ env.id < nextID
      BY DEF EnvInv, PostInv, EnvsPast
    <3> QED
      BY <1>1, <3>1, <3>2, <3>3
  <2> QED
    BY <2>1 DEF EnvsPast
<1>8. RowsLive'
  BY <1>3 DEF EnvInv, LiveInv, RowsLive
<1>9. EnvsLive'
  BY <1>3 DEF EnvInv, LiveInv, EnvsLive
<1>10. OneSetting'
  BY DEF EnvInv, OneSetting
<1>11. OwnPost'
  BY DEF EnvInv, OwnPost
<1> QED
  BY <1>4, <1>5, <1>6, <1>7, <1>8, <1>9, <1>10, <1>11 DEF PostInv, LiveInv

\* The same when the tables are left alone.
LEMMA EnvStill ==
    ASSUME Shape, EnvInv, Grown, \A r \in Requests : GoesOn(r),
           nextID' \in {nextID, nextID + 1}, UNCHANGED <<queued, tables>>
    PROVE  EnvInv'
<1>1. Rows' = Rows /\ Envelopes' = Envelopes
  BY DEF Rows, Envelopes
<1>2. \A e \in Envelopes : e \in [id : Nat, post : 1..Len(bodies), at : Nat]
  BY DEF EnvInv, PostInv, EnvsPast
<1>3. PostInv' /\ LiveInv' /\ OneSetting' /\ OwnPost'
  BY <1>1, <1>2, EnvGoesOn
<1>4. StoreOK' /\ OneEnvelope' /\ OneStored' /\ Unstamped'
  BY <1>1 DEF EnvInv, StoreOK, Store, OneEnvelope, OneStored, Unstamped
<1> QED
  BY <1>3, <1>4 DEF EnvInv

\* Rows and envelopes only go.
LEMMA EnvShrinks ==
    ASSUME Shape, EnvInv, UNCHANGED <<req, bodies, nextID>>, StoreOK', Rows' \subseteq Rows,
           queued'["raw"] \subseteq queued["raw"], tables'["raw"] \subseteq tables["raw"]
    PROVE  EnvInv'
<1>1. Envelopes' \subseteq Envelopes
  BY DEF Envelopes
<1>2. \A e \in Envelopes : e \in [id : Nat, post : 1..Len(bodies), at : Nat]
  BY DEF EnvInv, PostInv, EnvsPast
<1>3. Grown /\ \A r \in Requests : GoesOn(r)
  BY DEF Grown, GoesOn, Live
<1>4. PostInv' /\ LiveInv' /\ OneSetting' /\ OwnPost'
  BY <1>1, <1>2, <1>3, EnvGoesOn
<1>5. OneEnvelope' /\ OneStored' /\ Unstamped'
  BY <1>1 DEF EnvInv, OneEnvelope, OneStored, Unstamped
<1> QED
  BY <1>4, <1>5 DEF EnvInv

\* A batch of envelopes is stamped and inserted, with an answer or without.
LEMMA EnvStamped ==
    ASSUME Shape, EnvInv, UNCHANGED <<req, bodies, nextID>>, NEW batch \in Batches("raw"),
           Flush("raw", batch) \/ FlushUnanswered("raw", batch)
    PROVE  EnvInv'
<1> DEFINE Stamp(row) == [row EXCEPT !.at = now]
<1>1. /\ StoreOK' /\ queued'["raw"] \subseteq queued["raw"]
      /\ queued'["obs"] = queued["obs"] /\ tables'["obs"] = tables["obs"]
      /\ \A row \in batch, old \in tables["raw"] : row.id # old.id
      /\ tables'["raw"] = tables["raw"] \cup Stamped("raw", batch)
  BY InsertEffect DEF EnvInv
<1>2. Stamped("raw", batch) = {Stamp(row) : row \in batch} /\ batch \subseteq queued["raw"]
  BY DEF Stamped, Batches
<1>3. \A e \in queued["raw"] \cup tables["raw"] : e \in [id : Nat, post : 1..Len(bodies), at : Nat]
  BY DEF EnvInv, PostInv, EnvsPast, Envelopes
<1>4. ASSUME NEW e \in queued["raw"]
      PROVE  /\ Stamp(e) \in [id : Nat, post : 1..Len(bodies), at : Nat]
             /\ Stamp(e).id = e.id /\ Stamp(e).post = e.post
  <2>1. e \in [id : Nat, post : 1..Len(bodies), at : Nat] /\ now \in Nat
    BY <1>3 DEF Shape
  <2> QED
    BY <2>1
<1> HIDE DEF Stamp
<1>5. Rows' = Rows
  BY <1>1 DEF Rows
<1>6. /\ Envelopes' \subseteq queued["raw"] \cup tables["raw"] \cup {Stamp(row) : row \in batch}
      /\ Envelopes = queued["raw"] \cup tables["raw"]
  BY <1>1, <1>2 DEF Envelopes
<1>7. \A e \in Envelopes' : /\ e \in [id : Nat, post : 1..Len(bodies), at : Nat]
                            /\ \E env \in Envelopes : e.id = env.id /\ e.post = env.post
  BY <1>2, <1>3, <1>4, <1>6
<1>8. Grown /\ \A r \in Requests : GoesOn(r)
  BY DEF Grown, GoesOn, Live
<1>9. PostInv' /\ LiveInv' /\ OneSetting' /\ OwnPost'
  BY <1>5, <1>7, <1>8, EnvGoesOn
<1>10. Unstamped'
  BY <1>1 DEF EnvInv, Unstamped
<1>11. OneEnvelope'
  BY <1>7 DEF EnvInv, OneEnvelope
<1>12. OneStored'
  <2>1. \A e, o \in batch : e.id = o.id => e = o
    <3> SUFFICES ASSUME NEW e \in batch, NEW o \in batch, e.id = o.id PROVE e = o
      OBVIOUS
    <3>1. e.post = o.post
      BY <1>2, <1>6 DEF EnvInv, OneEnvelope
    <3>2. e.at = 0 /\ o.at = 0
      BY <1>2 DEF EnvInv, Unstamped
    <3>3. /\ e \in [id : Nat, post : 1..Len(bodies), at : Nat]
          /\ o \in [id : Nat, post : 1..Len(bodies), at : Nat]
      BY <1>2, <1>3
    <3> QED
      BY <3>1, <3>2, <3>3
  <2>2. \A e, o \in tables["raw"] : e.id = o.id => e = o
    BY DEF EnvInv, OneStored
  <2>3. \A e \in batch : Stamp(e).id = e.id
    BY <1>2, <1>4
  <2> QED
    BY <1>1, <1>2, <2>1, <2>2, <2>3 DEF OneStored
<1> QED
  BY <1>1, <1>9, <1>10, <1>11, <1>12 DEF EnvInv

\* The retention worker, the clock and the writers.
LEMMA EnvRetention ==
    ASSUME Shape, EnvInv, RetentionNext, UNCHANGED ingestVars
    PROVE  EnvInv'
<1>1. UNCHANGED <<req, bodies, nextID>> /\ StoreOK
  BY DEF ingestVars, EnvInv
<1>2. CASE UNCHANGED <<queued, tables>>
  <2>1. StoreOK' /\ Rows' \subseteq Rows
    BY <1>1, <1>2 DEF StoreOK, Store, Rows
  <2> QED
    BY <1>1, <1>2, <2>1, EnvShrinks
<1>3. CASE Advance \/ StartPrune
  BY <1>2, <1>3 DEF Advance, StartPrune
<1>4. ASSUME NEW t \in {"obs", "raw"}, Delete(t) \/ UNCHANGED tables, queued' = queued
      PROVE  EnvInv'
  <2>1. StoreOK'
    BY <1>1, <1>4, DeleteEffect DEF StoreOK, Store
  <2>2. tables'["obs"] \subseteq tables["obs"] /\ tables'["raw"] \subseteq tables["raw"]
    BY <1>1, <1>4, DeleteEffect
  <2>3. Rows' \subseteq Rows
    BY <1>4, <2>2 DEF Rows
  <2> QED
    BY <1>1, <1>4, <2>1, <2>2, <2>3, EnvShrinks
<1>5. CASE PruneObservations \/ PruneRawPosts
  BY <1>4, <1>5 DEF PruneObservations, PruneRawPosts
<1>6. ASSUME NEW t \in {"obs", "raw"}, PruneFails(t) PROVE EnvInv'
  BY <1>4, <1>6 DEF PruneFails
<1>7. ASSUME NEW t \in {"obs", "raw"}, NEW batch \in Batches(t), Lose(t, batch) PROVE EnvInv'
  <2>1. StoreOK' /\ queued'["raw"] \subseteq queued["raw"] /\ tables' = tables
    BY <1>1, <1>7, LoseEffect
  <2>2. Rows' \subseteq Rows
    BY <1>1, <1>7, WritersRows
  <2> QED
    BY <1>1, <2>1, <2>2, EnvShrinks
<1>8. ASSUME NEW batch \in Batches("obs"), Flush("obs", batch) \/ FlushUnanswered("obs", batch)
      PROVE  EnvInv'
  <2>1. StoreOK' /\ queued'["raw"] = queued["raw"] /\ tables'["raw"] = tables["raw"]
    BY <1>1, <1>8, InsertEffect
  <2>2. Rows' \subseteq Rows
    BY <1>1, <1>8, WritersRows
  <2> QED
    BY <1>1, <2>1, <2>2, EnvShrinks
<1> QED
  BY <1>1, <1>3, <1>5, <1>6, <1>7, <1>8, EnvStamped DEF RetentionNext

\* A POST or a heartbeat arrives: its number is new, and it has no id yet.
LEMMA EnvArrives ==
    ASSUME Shape, EnvInv, NEW r \in Requests, NEW h, Turns(r, h),
           NEW p \in Posts \cup {<<>>}, bodies' = Append(bodies, p),
           h.post = Len(bodies) + 1, h.id = None, UNCHANGED <<queued, tables, nextID>>
    PROVE  EnvInv'
<1>1. Rows' = Rows /\ Envelopes' = Envelopes
  BY DEF Rows, Envelopes
<1>2. /\ req'[r] = h /\ \A q \in Requests : q # r => req'[q] = req[q]
  BY DEF Turns
<1>3. Len(bodies) \in Nat /\ 1..Len(bodies) \subseteq 1..Len(bodies')
  BY Arrived, GrownPosts DEF Grown
<1>4. Len(bodies) + 1 \notin 1..Len(bodies)
  BY <1>3
<1>5. \A q \in Requests : q # r => (Live(q)' <=> Live(q))
  BY <1>2 DEF Live
<1>6. \A q \in Requests : Live(q) => req[q].post # h.post
  BY <1>4, LivePost
<1>7. PostsApart'
  BY <1>2, <1>5, <1>6 DEF EnvInv, PostInv, PostsApart
<1>8. LiveBelow'
  BY <1>2, <1>5 DEF EnvInv, PostInv, LiveBelow, Below
<1>9. RowsPast' /\ EnvsPast'
  <2>1. RowsPast'
    BY <1>1, <1>3 DEF EnvInv, PostInv, RowsPast
  <2>2. EnvsPast'
    BY <1>1, <1>3 DEF EnvInv, PostInv, EnvsPast
  <2> QED
    BY <2>1, <2>2
<1>10. RowsLive'
  <2>1. \A row \in Rows : row.post # h.post
    BY <1>4 DEF EnvInv, PostInv, RowsPast
  <2> QED
    BY <1>1, <1>2, <1>5, <2>1 DEF EnvInv, LiveInv, RowsLive
<1>11. EnvsLive'
  <2>1. \A env \in Envelopes : env.id # None
    BY IngestAssumption DEF EnvInv, PostInv, EnvsPast
  <2> QED
    BY <1>1, <1>2, <1>5, <2>1 DEF EnvInv, LiveInv, EnvsLive
<1>12. StoreOK' /\ OneSetting' /\ OwnPost' /\ OneEnvelope' /\ OneStored' /\ Unstamped'
  BY <1>1 DEF EnvInv, StoreOK, Store, OneSetting, OwnPost, OneEnvelope, OneStored, Unstamped
<1> QED
  BY <1>7, <1>8, <1>9, <1>10, <1>11, <1>12 DEF EnvInv, PostInv, LiveInv

\* maybeRecordRawPost: the handler's POST has no row yet, and the id is new.
LEMMA EnvRecords ==
    ASSUME Shape, EnvInv, NEW r \in Requests, NEW h, Turns(r, h), NEW i, Records(r, i),
           req[r].pc \in {"capture", "hb"}, h # Idle, h.post = req[r].post, h.cfg = req[r].cfg,
           h.id = i, UNCHANGED <<bodies, tables>>
    PROVE  EnvInv'
<1>1. /\ req'[r] = h /\ \A q \in Requests : q # r => req'[q] = req[q]
  BY DEF Turns
<1>2. Live(r) /\ req[r].pc \notin {"items", "submit"}
  BY DEF Live, Idle
<1>3. nextID \in Nat
  BY DEF Shape
<1>4. CASE i = req[r].id /\ queued' = queued /\ nextID' \in {nextID, nextID + 1}
  <2>1. \A q \in Requests : GoesOn(q)
    BY <1>1, <1>2, <1>4 DEF GoesOn, Live
  <2> QED
    BY <1>4, <2>1, EnvStill DEF Grown
<1>5. CASE /\ i = nextID /\ nextID' = nextID + 1
           /\ queued' = [queued EXCEPT !.raw = queued.raw \cup
                            {[id |-> nextID, post |-> req[r].post, at |-> 0]}]
  <2> DEFINE new == [id |-> nextID, post |-> req[r].post, at |-> 0]
  <2>1. new.id = nextID /\ new.post = req[r].post /\ new.at = 0
    OBVIOUS
  <2>2. new \in [id : Nat, post : 1..Len(bodies), at : Nat]
    BY <1>2, <1>3, LivePost
  <2>3. /\ StoreOK' /\ queued'["obs"] = queued["obs"] /\ queued'["raw"] = queued["raw"] \cup {new}
    BY <1>5 DEF EnvInv, StoreOK, Store
  <2> HIDE DEF new
  <2>4. Rows' = Rows /\ Envelopes' = Envelopes \cup {new}
    BY <2>3 DEF Rows, Envelopes
  <2>5. \A env \in Envelopes : env.id \in Nat /\ env.id < nextID
    BY DEF EnvInv, PostInv, EnvsPast
  <2>6. \A env \in Envelopes : env.id # nextID
    BY <1>3, <2>5
  <2>7. \A x : Below(x, nextID) => x # nextID /\ Below(x, nextID')
    BY <1>3, <1>5, IngestAssumption DEF Below
  <2>8. \A q \in Requests : q # r => (Live(q)' <=> Live(q))
    BY <1>1 DEF Live
  <2>9. PostsApart'
    BY <1>1, <1>2, <2>8 DEF EnvInv, PostInv, PostsApart
  <2>10. LiveBelow'
    <3>1. Below(h.id, nextID')
      BY <1>3, <1>5 DEF Below
    <3> QED
      BY <1>1, <2>7, <2>8, <3>1 DEF EnvInv, PostInv, LiveBelow
  <2>11. RowsPast'
    BY <2>4, <2>7 DEF EnvInv, PostInv, RowsPast
  <2>12. EnvsPast'
    <3>1. \A env \in Envelopes : env.id < nextID'
      BY <1>3, <1>5, <2>5
    <3>2. new.id < nextID'
      BY <1>3, <1>5, <2>1
    <3> QED
      BY <2>2, <2>4, <3>1, <3>2 DEF EnvInv, PostInv, EnvsPast
  <2>13. RowsLive'
    <3>1. \A row \in Rows : row.post # req[r].post
      BY <1>2 DEF EnvInv, LiveInv, RowsLive
    <3> QED
      BY <1>1, <2>4, <2>8, <3>1 DEF EnvInv, LiveInv, RowsLive
  <2>14. EnvsLive'
    <3>1. \A q \in Requests : q # r /\ Live(q) => req[q].id # nextID
      BY <2>7 DEF EnvInv, PostInv, LiveBelow
    <3>2. \A q \in Requests : q # r =>
             \A env \in Envelopes' : Live(q)' /\ req'[q].id = env.id => req'[q].post = env.post
      BY <1>1, <2>1, <2>4, <2>8, <3>1 DEF EnvInv, LiveInv, EnvsLive
    <3>3. \A env \in Envelopes' : req'[r].id = env.id => req'[r].post = env.post
      BY <1>1, <1>5, <2>1, <2>4, <2>6
    <3> QED
      BY <3>2, <3>3 DEF EnvsLive
  <2>15. OneSetting'
    BY <2>4 DEF EnvInv, OneSetting
  <2>16. OwnPost'
    <3>1. \A row \in Rows : row.rawPostID # nextID
      BY <2>7 DEF EnvInv, PostInv, RowsPast
    <3> QED
      BY <2>1, <2>4, <3>1 DEF EnvInv, OwnPost
  <2>17. OneEnvelope'
    BY <2>1, <2>4, <2>6 DEF EnvInv, OneEnvelope
  <2>18. OneStored' /\ Unstamped'
    BY <2>1, <2>3 DEF EnvInv, OneStored, Unstamped
  <2> QED
    BY <2>3, <2>9, <2>10, <2>11, <2>12, <2>13, <2>14, <2>15, <2>16, <2>17, <2>18
       DEF EnvInv, PostInv, LiveInv
<1> QED
  BY <1>4, <1>5 DEF Records

\* A row is queued: it has the toggle and the id of its handler.
LEMMA EnvObserves ==
    ASSUME Shape, EnvInv, NEW r \in Requests, NEW h, Turns(r, h), NEW row,
           req[r].pc = "items", h.pc \in {"items", "submit"}, h # Idle,
           h.post = req[r].post, h.cfg = req[r].cfg, h.id = req[r].id,
           row.post = req[r].post, row.hex = req[r].cfg.hex, row.rawPostID = req[r].id,
           queued' = [queued EXCEPT !.obs = queued.obs \cup {row}],
           UNCHANGED <<bodies, nextID, tables>>
    PROVE  EnvInv'
<1>1. /\ req'[r] = h /\ \A q \in Requests : q # r => req'[q] = req[q]
  BY DEF Turns
<1>2. Live(r) /\ \A q \in Requests : Live(q)' <=> Live(q)
  <2>1. Live(r) /\ Live(r)'
    BY <1>1 DEF Live, Idle
  <2> QED
    BY <1>1, <2>1 DEF Live
<1>3. /\ StoreOK' /\ queued'["obs"] = queued["obs"] \cup {row} /\ queued'["raw"] = queued["raw"]
  BY DEF EnvInv, StoreOK, Store
<1>4. Rows' = Rows \cup {row} /\ Envelopes' = Envelopes
  BY <1>3 DEF Rows, Envelopes
<1>5. PostsApart'
  BY <1>1, <1>2 DEF EnvInv, PostInv, PostsApart
<1>6. LiveBelow'
  BY <1>1, <1>2 DEF EnvInv, PostInv, LiveBelow
<1>7. RowsPast'
  <2>1. row.post \in 1..Len(bodies)
    BY <1>2, LivePost
  <2>2. Below(row.rawPostID, nextID)
    BY <1>2 DEF EnvInv, PostInv, LiveBelow
  <2> QED
    BY <1>4, <2>1, <2>2 DEF EnvInv, PostInv, RowsPast
<1>8. EnvsPast'
  BY <1>4 DEF EnvInv, PostInv, EnvsPast
<1>9. RowsLive'
  <2>1. \A q \in Requests : q # r /\ Live(q) => req[q].post # row.post
    BY <1>2 DEF EnvInv, PostInv, PostsApart
  <2>2. \A q \in Requests, x \in Rows : Live(q) /\ x.post = req[q].post =>
           /\ req[q].pc \in {"items", "submit"}
           /\ x.hex = req[q].cfg.hex /\ x.rawPostID = req[q].id
    BY DEF EnvInv, LiveInv, RowsLive
  <2>3. ASSUME NEW q \in Requests, NEW x \in Rows', Live(q)', x.post = req'[q].post
        PROVE  /\ req'[q].pc \in {"items", "submit"}
               /\ x.hex = req'[q].cfg.hex /\ x.rawPostID = req'[q].id
    <3>1. CASE q = r
      BY <1>1, <1>2, <1>4, <2>2, <2>3, <3>1
    <3>2. CASE q # r
      BY <1>1, <1>2, <1>4, <2>1, <2>2, <2>3, <3>2
    <3> QED
      BY <3>1, <3>2
  <2> QED
    BY <2>3 DEF RowsLive
<1>10. EnvsLive'
  BY <1>1, <1>2, <1>4 DEF EnvInv, LiveInv, EnvsLive
<1>11. OneSetting'
  <2>1. \A x \in Rows : x.post = row.post => x.hex = row.hex /\ x.rawPostID = row.rawPostID
    BY <1>2 DEF EnvInv, LiveInv, RowsLive
  <2> QED
    BY <1>4, <2>1 DEF EnvInv, OneSetting
<1>12. OwnPost'
  <2>1. \A env \in Envelopes : row.rawPostID = env.id => row.post = env.post
    BY <1>2 DEF EnvInv, LiveInv, EnvsLive
  <2> QED
    BY <1>4, <2>1 DEF EnvInv, OwnPost
<1>13. OneEnvelope' /\ OneStored' /\ Unstamped'
  BY <1>3, <1>4 DEF EnvInv, OneEnvelope, OneStored, Unstamped
<1> QED
  BY <1>3, <1>5, <1>6, <1>7, <1>8, <1>9, <1>10, <1>11, <1>12, <1>13 DEF EnvInv, PostInv, LiveInv

\* The handlers' steps.
LEMMA EnvHandle ==
    ASSUME Shape, EnvInv, NEW r \in Requests, Handle(r)
    PROVE  EnvInv'
<1>1. /\ \A h, c, k, i : /\ Post(h, c, k, i).pc = c /\ Post(h, c, k, i).post = h.post
                         /\ Post(h, c, k, i).cfg = h.cfg /\ Post(h, c, k, i).id = i
      /\ \A h, c, i : /\ Beat(h, c, i).pc = c /\ Beat(h, c, i).post = h.post
                      /\ Beat(h, c, i).cfg = h.cfg /\ Beat(h, c, i).id = i
      /\ Idle.pc = "idle"
  BY DEF Post, Beat, Idle
<1>2. ASSUME NEW h, Turns(r, h), UNCHANGED <<bodies, nextID, queued, tables>>,
             \/ h = Idle
             \/ /\ Live(r) /\ h.post = req[r].post /\ h.cfg = req[r].cfg /\ h.id = req[r].id
                /\ req[r].pc \in {"items", "submit"} => h.pc \in {"items", "submit"}
      PROVE  EnvInv'
  <2>1. \A q \in Requests : GoesOn(q)
    BY <1>2 DEF GoesOn, Turns, Live
  <2> QED
    BY <1>2, <2>1, EnvStill DEF Grown
<1>3. CASE Capture(r)
  <2>1. PICK i \in Nat \cup {None} : Records(r, i) /\ Turns(r, Post(req[r], "items", req[r].k, i))
    BY <1>3, CaptureEffect
  <2>2. req[r].pc = "capture" /\ UNCHANGED <<bodies, tables>>
    BY <1>3, CaptureEffect
  <2> DEFINE h == Post(req[r], "items", req[r].k, i)
  <2>3. h # Idle /\ h.post = req[r].post /\ h.cfg = req[r].cfg /\ h.id = i
    BY <1>1
  <2>4. Turns(r, h) /\ Records(r, i)
    BY <2>1
  <2> HIDE DEF h
  <2> QED
    BY <2>2, <2>3, <2>4, EnvRecords
<1>4. CASE HeartbeatCapture(r)
  <2>1. PICK i \in Nat \cup {None} : Records(r, i) /\ Turns(r, Beat(req[r], "hbSet", i))
    BY <1>4, BeatCaptureEffect
  <2>2. req[r].pc = "hb" /\ UNCHANGED <<bodies, tables>>
    BY <1>4, BeatCaptureEffect
  <2> DEFINE h == Beat(req[r], "hbSet", i)
  <2>3. h # Idle /\ h.post = req[r].post /\ h.cfg = req[r].cfg /\ h.id = i
    BY <1>1
  <2>4. Turns(r, h) /\ Records(r, i)
    BY <2>1
  <2> HIDE DEF h
  <2> QED
    BY <2>2, <2>3, <2>4, EnvRecords
<1>5. CASE Observe(r)
  <2> DEFINE row == RowOf(r, Item(r), Item(r).key \in tracked)
  <2>1. /\ req[r].pc = "items" /\ queued' = [queued EXCEPT !.obs = queued.obs \cup {row}]
        /\ UNCHANGED <<bodies, nextID, tables>>
    BY <1>5, ObserveEffect DEF passVars, AtItem
  <2>2. row.post = req[r].post /\ row.hex = req[r].cfg.hex /\ row.rawPostID = req[r].id
    BY DEF RowOf
  <2>3. PICK h : /\ Turns(r, h)
                 /\ \/ h = Post(req[r], "submit", req[r].k, req[r].id)
                    \/ h = Post(req[r], "items", req[r].k + 1, req[r].id)
    BY <1>5, ObserveEffect
  <2>4. /\ h.pc \in {"items", "submit"} /\ h # Idle
        /\ h.post = req[r].post /\ h.cfg = req[r].cfg /\ h.id = req[r].id
    BY <1>1, <2>3
  <2> HIDE DEF row
  <2> QED
    BY <2>1, <2>2, <2>3, <2>4, EnvObserves
<1>6. CASE Anonymous(r) \/ Submit(r)
  <2>1. /\ req[r].pc \in {"items", "submit"} /\ UNCHANGED <<bodies, nextID, queued, tables>>
        /\ Turns(r, Post(req[r], "items", req[r].k + 1, req[r].id))
    BY <1>6, AnonymousEffect, SubmitEffect DEF passVars, AtItem
  <2>2. Live(r)
    BY <1>1, <2>1 DEF Live
  <2> QED
    BY <1>1, <1>2, <2>1, <2>2
<1>7. CASE Finish(r)
  BY <1>2, <1>7, FinishEffect DEF passVars
<1>8. CASE OnHeartbeat(r)
  <2>1. /\ req[r].pc = "hbSet" /\ UNCHANGED <<bodies, nextID, queued, tables>>
        /\ Turns(r, Beat(req[r], "hbGauge", req[r].id))
    BY <1>8, BeatEffect DEF retentionVars
  <2>2. Live(r)
    BY <1>1, <2>1 DEF Live
  <2> QED
    BY <1>1, <1>2, <2>1, <2>2
<1>9. CASE HeartbeatDone(r)
  BY <1>2, <1>9, BeatEffect DEF retentionVars
<1> QED
  BY <1>3, <1>4, <1>5, <1>6, <1>7, <1>8, <1>9 DEF Handle

\* Every step.
LEMMA EnvStep == Shape /\ EnvInv /\ [Next]_vars => EnvInv'
<1> SUFFICES ASSUME Shape, EnvInv, [Next]_vars PROVE EnvInv'
  OBVIOUS
<1>1. ASSUME Grown, UNCHANGED <<req, queued, tables, nextID>> PROVE EnvInv'
  <2>1. \A q \in Requests : GoesOn(q)
    BY <1>1 DEF GoesOn, Live
  <2> QED
    BY <1>1, <2>1, EnvStill
<1>2. CASE \E r \in Requests : Reject(r)
  BY <1>1, <1>2 DEF Reject, Grown
<1>3. ASSUME NEW r \in Requests, NEW p \in Posts, Accept(r, p) PROVE EnvInv'
  <2> DEFINE h == [pc |-> "capture", post |-> Len(bodies) + 1, events |-> p,
                   cfg |-> settings, id |-> None, k |-> 1]
  <2>1. Turns(r, h) /\ bodies' = Append(bodies, p) /\ UNCHANGED <<queued, tables, nextID>>
    BY <1>3, AcceptEffect
  <2>2. h.post = Len(bodies) + 1 /\ h.id = None
    OBVIOUS
  <2> HIDE DEF h
  <2> QED
    BY <2>1, <2>2, EnvArrives
<1>4. ASSUME NEW r \in Requests, NEW n \in OnlineCounts, Heartbeat(r, n) PROVE EnvInv'
  <2> DEFINE h == [pc |-> "hb", post |-> Len(bodies) + 1, online |-> n,
                   cfg |-> settings, id |-> None]
  <2>1. Turns(r, h) /\ bodies' = Append(bodies, <<>>) /\ UNCHANGED <<queued, tables, nextID>>
    BY <1>4, HeartbeatEffect
  <2>2. h.post = Len(bodies) + 1 /\ h.id = None
    OBVIOUS
  <2> HIDE DEF h
  <2> QED
    BY <2>1, <2>2, EnvArrives
<1>5. CASE \/ \E b \in Beacons : Retrack(b)
           \/ \E s \in Settings : ReplaceSettings(s)
           \/ UNCHANGED vars
  BY <1>1, <1>5 DEF Retrack, ReplaceSettings, vars, retentionVars, ingestVars, Grown
<1> QED
  BY <1>2, <1>3, <1>4, <1>5, EnvHandle, EnvRetention DEF Next

\* However POSTs, toggles, failed allocations, flushes and prunes interleave, the
\* rows of a POST were recorded under one setting of the toggles and point to one
\* envelope, an envelope they point to is that of their own POST, an id is that
\* of one POST, and the table has it once, however its insert was retried.
THEOREM EnvelopesAlwaysOwn == Spec => []OwnEnvelope
<1>1. EnvInv => OwnEnvelope
  BY DEF EnvInv, OneSetting, OwnPost, OneEnvelope, OneStored, OwnEnvelope
<1> QED
  BY <1>1, ShapeInit, ShapeStep, EnvInit, EnvStep, PTL DEF Spec

-----------------------------------------------------------------------------
(* Rows.                                                                   *)

\* What a row tells is the reading of its own POST.
LEMMA ToldIsOwn == KeptInv => OwnReading
<1> SUFFICES ASSUME KeptInv, NEW row \in Rows
             PROVE  LET events == bodies[row.post]
                        ev == Items(events)[row.k]
                        Reading(j) == /\ events[j].parses /\ events[j].tele # None
                                      /\ events[j].euid = ev.euid /\ ev.euid # NoEUID
                    IN  /\ row.key = ev.key
                        /\ IF \E j \in DOMAIN events : Reading(j)
                           THEN \E j \in DOMAIN events :
                                   /\ Reading(j) /\ row.battery = events[j].tele
                                   /\ \A n \in DOMAIN events : n > j => ~Reading(n)
                           ELSE row.battery = None
  BY DEF OwnReading
<1> DEFINE events == bodies[row.post]
           ev == Items(events)[row.k]
<1>1. RowTold(row, bodies)
  BY DEF KeptInv, RowsKept, RowKept
<1>2. /\ events \in Posts /\ row.k \in 1..Len(Items(events))
      /\ row.key = ev.key /\ row.battery = euidTelemetry(events)[ev.euid]
  BY <1>1 DEF RowTold
<1>3. events \in Seq(Range(events)) /\ ev.euid \in KnownEUIDs
  BY <1>2, PostsAssumption DEF KnownEUIDs
<1> HIDE DEF events, ev
<1>4. Len(events) \in Nat /\ DOMAIN events = 1..Len(events)
  BY <1>3
<1>5. IsLast(events, ev.euid, Len(events), row.battery)
  BY <1>2, <1>3, <1>4, ReadingsKept
<1>6. /\ row.key = ev.key
      /\ IF \E j \in DOMAIN events : Reads(events, ev.euid, j)
         THEN \E j \in DOMAIN events :
                 /\ Reads(events, ev.euid, j) /\ row.battery = events[j].tele
                 /\ \A n \in DOMAIN events : n > j => ~Reads(events, ev.euid, n)
         ELSE row.battery = None
  BY <1>2, <1>4, <1>5 DEF IsLast
<1> QED
  BY <1>6 DEF Reads, events, ev

\* An observation tells the truth about its POST for every set of POSTs, any
\* number of handlers and every interleaving of POSTs, toggles, promotions,
\* flushes and prunes: its key is its event's, its battery reading the last one
\* of the same euid in the POST, before or after it, and none for an empty euid,
\* and its envelope, which the table has once, is that of the POST.
THEOREM RowsAlwaysTellTheirPost == Spec => []RowsTellTheirPost
<1>1. KeptInv => OwnReading
  BY ToldIsOwn
<1> QED
  BY <1>1, EnvelopesAlwaysOwn, ShapeInit, ShapeStep, KeptInit, KeptStep, PTL
     DEF Spec, RowsTellTheirPost

-----------------------------------------------------------------------------
(* The writers.                                                            *)

\* The two writers of Retention, each seen as WriterContract sees one: the
\* observations by themselves, the envelopes by their id, the key of their table.
Ids(envs) == {env.id : env \in envs}

ObsWriter == INSTANCE WriterContract WITH
    Rows <- {}, keyed <- FALSE, given <- {},
    pending <- queued["obs"], stored <- tables["obs"]

RawWriter == INSTANCE WriterContract WITH
    Rows <- {}, keyed <- TRUE, given <- {},
    pending <- Ids(queued["raw"]), stored <- Ids(tables["raw"])

\* A step concerns one writer only.
OnlyAt(t) ==
    /\ Store(queued') /\ Store(tables') /\ UNCHANGED <<now, settings, runner>>
    /\ \A u \in {"obs", "raw"} : u # t => queued'[u] = queued[u] /\ tables'[u] = tables[u]

\* The function that such a step leaves behind.
LEMMA Excepted ==
    ASSUME StoreOK, NEW t \in {"obs", "raw"}, OnlyAt(t), NEW x
    PROVE  /\ queued'[t] = x => queued' = [queued EXCEPT ![t] = x]
           /\ tables'[t] = x => tables' = [tables EXCEPT ![t] = x]
           /\ queued'[t] = queued[t] => queued' = queued
           /\ tables'[t] = tables[t] => tables' = tables
BY DEF StoreOK, Store, OnlyAt

\* Whatever the contract allows the observations writer, Retention lets it do.
LEMMA ObsCovered ==
    ASSUME StoreOK, OnlyAt("obs"), NEW batch, batch # {}
    PROVE  /\ ObsWriter!Insert(batch) /\ UNCHANGED budget =>
                 batch \in Batches("obs") /\ Flush("obs", batch)
           /\ ObsWriter!InsertUnanswered(batch) /\ Input("fault") =>
                 batch \in Batches("obs") /\ FlushUnanswered("obs", batch)
           /\ ObsWriter!Lose(batch) /\ Input("fault") =>
                 batch \in Batches("obs") /\ Lose("obs", batch)
<1>1. ASSUME tables'["obs"] = tables["obs"] \cup batch PROVE Insert("obs", batch)
  <2>1. {IF "obs" = "raw" THEN [row EXCEPT !.at = now] ELSE row : row \in batch} = batch
    OBVIOUS
  <2>2. tables' = [tables EXCEPT !["obs"] = tables["obs"] \cup batch]
    BY <1>1, Excepted
  <2> QED
    BY <2>1, <2>2 DEF Insert
<1>2. ASSUME batch \subseteq queued["obs"] PROVE batch \in Batches("obs")
  BY <1>2 DEF Batches
<1>3. UNCHANGED <<now, settings, runner>>
  BY DEF OnlyAt
<1>4. ASSUME ObsWriter!Insert(batch), UNCHANGED budget
      PROVE  batch \in Batches("obs") /\ Flush("obs", batch)
  <2>1. /\ batch \subseteq queued["obs"] /\ tables'["obs"] = tables["obs"] \cup batch
        /\ queued'["obs"] = queued["obs"] \ batch
    BY <1>4 DEF ObsWriter!Insert
  <2>2. queued' = [queued EXCEPT !["obs"] = queued["obs"] \ batch]
    BY <2>1, Excepted
  <2> QED
    BY <1>1, <1>2, <1>3, <1>4, <2>1, <2>2 DEF Flush
<1>5. ASSUME ObsWriter!InsertUnanswered(batch), Input("fault")
      PROVE  batch \in Batches("obs") /\ FlushUnanswered("obs", batch)
  <2>1. /\ batch \subseteq queued["obs"] /\ tables'["obs"] = tables["obs"] \cup batch
        /\ batch \cap tables["obs"] = {} /\ queued'["obs"] = queued["obs"]
    BY <1>5 DEF ObsWriter!InsertUnanswered
  <2>2. queued' = queued
    BY <2>1, Excepted
  <2> QED
    BY <1>1, <1>2, <1>3, <1>5, <2>1, <2>2 DEF FlushUnanswered
<1>6. ASSUME ObsWriter!Lose(batch), Input("fault")
      PROVE  batch \in Batches("obs") /\ Lose("obs", batch)
  <2>1. /\ batch \subseteq queued["obs"] /\ tables'["obs"] = tables["obs"]
        /\ queued'["obs"] = queued["obs"] \ batch
    BY <1>6 DEF ObsWriter!Lose
  <2>2. tables' = tables /\ queued' = [queued EXCEPT !["obs"] = queued["obs"] \ batch]
    BY <2>1, Excepted
  <2> QED
    BY <1>2, <1>3, <1>6, <2>1, <2>2 DEF Lose
<1> QED
  BY <1>4, <1>5, <1>6

\* The same of the raw-posts writer, which changes no envelope and stamps what it
\* inserts.  An id names one envelope of the queue, so that the contract's view
\* by ids leaves no choice.
LEMMA RawCovered ==
    ASSUME Shape, EnvInv, OnlyAt("raw"), NEW ids, ids # {}, queued'["raw"] \subseteq queued["raw"],
           NEW batch, batch = {env \in queued["raw"] : env.id \in ids}
    PROVE  /\ /\ RawWriter!Insert(ids) /\ UNCHANGED budget
              /\ tables'["raw"] = tables["raw"] \cup Stamped("raw", batch)
              => batch \in Batches("raw") /\ Flush("raw", batch)
           /\ /\ RawWriter!InsertUnanswered(ids) /\ Input("fault")
              /\ tables'["raw"] = tables["raw"] \cup Stamped("raw", batch)
              => batch \in Batches("raw") /\ FlushUnanswered("raw", batch)
           /\ /\ RawWriter!Lose(ids) /\ Input("fault") /\ tables'["raw"] = tables["raw"]
              => batch \in Batches("raw") /\ Lose("raw", batch)
<1>1. StoreOK /\ UNCHANGED <<now, settings, runner>>
  BY DEF EnvInv, OnlyAt
<1>2. \A env, other \in queued["raw"] : env.id = other.id => env = other
  <2> SUFFICES ASSUME NEW env \in queued["raw"], NEW other \in queued["raw"], env.id = other.id
               PROVE  env = other
    OBVIOUS
  <2>1. env \in Envelopes /\ other \in Envelopes
    BY DEF Envelopes
  <2>2. env.post = other.post
    BY <2>1 DEF EnvInv, OneEnvelope
  <2>3. env.at = 0 /\ other.at = 0
    BY DEF EnvInv, Unstamped
  <2>4. /\ env \in [id : Nat, post : 1..Len(bodies), at : Nat]
        /\ other \in [id : Nat, post : 1..Len(bodies), at : Nat]
    BY <2>1 DEF EnvInv, PostInv, EnvsPast
  <2> QED
    BY <2>2, <2>3, <2>4
<1>3. ASSUME ids \subseteq Ids(queued["raw"]) PROVE batch \in Batches("raw")
  BY <1>3 DEF Batches, Ids
<1>4. ASSUME Ids(queued'["raw"]) = Ids(queued["raw"]) \ ids
      PROVE  queued' = [queued EXCEPT !["raw"] = queued["raw"] \ batch]
  <2>1. \A env \in queued'["raw"] : env \in queued["raw"] \ batch
    BY <1>4 DEF Ids
  <2>2. ASSUME NEW env \in queued["raw"] \ batch PROVE env \in queued'["raw"]
    <3>1. env.id \in Ids(queued'["raw"])
      BY <1>4 DEF Ids
    <3>2. PICK other \in queued'["raw"] : other.id = env.id
      BY <3>1 DEF Ids
    <3> QED
      BY <1>2, <3>2
  <2>3. queued'["raw"] = queued["raw"] \ batch
    BY <2>1, <2>2
  <2> QED
    BY <1>1, <2>3, Excepted
<1>5. ASSUME Ids(queued'["raw"]) = Ids(queued["raw"]) PROVE queued' = queued
  <2>1. ASSUME NEW env \in queued["raw"] PROVE env \in queued'["raw"]
    <3>1. PICK other \in queued'["raw"] : other.id = env.id
      BY <1>5 DEF Ids
    <3> QED
      BY <1>2, <3>1
  <2> QED
    BY <1>1, <2>1, Excepted
<1>6. ASSUME tables'["raw"] = tables["raw"] \cup Stamped("raw", batch),
             ids \cap Ids(tables["raw"]) = {}
      PROVE  Insert("raw", batch) /\ batch \cap tables["raw"] = {}
  <2>1. \A row \in batch, old \in tables["raw"] : row.id # old.id
    BY <1>6 DEF Ids
  <2>2. tables' = [tables EXCEPT !["raw"] = tables["raw"] \cup Stamped("raw", batch)]
    BY <1>1, <1>6, Excepted
  <2> QED
    BY <2>1, <2>2 DEF Insert, Stamped
<1>7. ASSUME RawWriter!Insert(ids), UNCHANGED budget,
             tables'["raw"] = tables["raw"] \cup Stamped("raw", batch)
      PROVE  batch \in Batches("raw") /\ Flush("raw", batch)
  <2>1. /\ ids \subseteq Ids(queued["raw"]) /\ ids \cap Ids(tables["raw"]) = {}
        /\ Ids(queued'["raw"]) = Ids(queued["raw"]) \ ids
    BY <1>7 DEF RawWriter!Insert
  <2> QED
    BY <1>1, <1>3, <1>4, <1>6, <1>7, <2>1 DEF Flush
<1>8. ASSUME RawWriter!InsertUnanswered(ids), Input("fault"),
             tables'["raw"] = tables["raw"] \cup Stamped("raw", batch)
      PROVE  batch \in Batches("raw") /\ FlushUnanswered("raw", batch)
  <2>1. /\ ids \subseteq Ids(queued["raw"]) /\ ids \cap Ids(tables["raw"]) = {}
        /\ Ids(queued'["raw"]) = Ids(queued["raw"])
    BY <1>8 DEF RawWriter!InsertUnanswered
  <2> QED
    BY <1>1, <1>3, <1>5, <1>6, <1>8, <2>1 DEF FlushUnanswered
<1>9. ASSUME RawWriter!Lose(ids), Input("fault"), tables'["raw"] = tables["raw"]
      PROVE  batch \in Batches("raw") /\ Lose("raw", batch)
  <2>1. ids \subseteq Ids(queued["raw"]) /\ Ids(queued'["raw"]) = Ids(queued["raw"]) \ ids
    BY <1>9 DEF RawWriter!Lose
  <2>2. tables' = tables
    BY <1>1, <1>9, Excepted
  <2> QED
    BY <1>1, <1>3, <1>4, <1>9, <2>1, <2>2 DEF Lose
<1> QED
  BY <1>7, <1>8, <1>9

=============================================================================
