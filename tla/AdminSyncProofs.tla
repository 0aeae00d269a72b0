-------------------------- MODULE AdminSyncProofs --------------------------
(***************************************************************************)
(* Theorems about AdminSync, for all sets of beacons, names, APs, labels,  *)
(* documents and request goroutines: types, that the tables stay fit for   *)
(* NewTopology, that the engine's topology follows them (IInv), and that   *)
(* the documents do (SInv).                                                *)
(***************************************************************************)
EXTENDS AdminSync, TLAPS

\* Every list of beacons that is, or is about to become, the engine's.
Buildable ==
    /\ ValidBeacons(store.beacons)
    /\ ValidBeacons(engine.topology.beacons)
    /\ \A r \in Requests :
         /\ req[r].pc = "listZones" => ValidBeacons(req[r].read)
         /\ req[r].pc = "apply" => ValidBeacons(req[r].read.beacons)

\* A request that has been alone since it began is the only one.
Exclusive ==
    \A r, q \in Requests :
        r # q /\ req[r].pc # "idle" /\ req[r].alone => req[q].pc = "idle"

\* What it has read is what the tables hold, and after its apply so is what the
\* engine has.
AloneReads ==
    \A r \in Requests : req[r].alone =>
        /\ req[r].pc = "listZones" => req[r].read = store.beacons
        /\ req[r].pc = "apply" => req[r].read = Topology(store)
        /\ req[r].pc \in {"remove", "listKnown", "reconcile"} =>
             engine.topology = Topology(store)

\* A request that will apply a topology, or leave it excused, before it ends.
Rebuilding(q) ==
    /\ q.pc \in {"listBeacons", "listZones", "apply", "remove", "listKnown", "reconcile"}
    /\ q.form.op = "refresh" => ~q.alone

\* The engine is behind the tables only when excused or during a rebuild.
Covered ==
    \/ engine.topology = Topology(store)
    \/ "topology" \in Excused
    \/ \E r \in Requests : Rebuilding(req[r])

\* The inductive invariant.
IInv == TypeOK /\ Buildable /\ Exclusive /\ AloneReads /\ Covered

-----------------------------------------------------------------------------
(* Steps of one request.                                                   *)

\* The request ends.
LEMMA EndStep ==
    ASSUME RequestsOK, NEW r \in Requests, req' = [req EXCEPT ![r] = Idle]
    PROVE  /\ RequestsOK'
           /\ \A q \in Requests : q # r => req'[q] = req[q]
           /\ req'[r].pc = "idle" /\ req'[r].alone
<1>1. DOMAIN req' = Requests /\ \A q \in Requests : req'[q] = IF q = r THEN Idle ELSE req[q]
  BY DEF RequestsOK
<1>2. /\ DOMAIN Idle = {"pc", "form", "read", "alone"}
      /\ Idle.pc = "idle" /\ Idle.alone = TRUE
  BY DEF Idle
<1>3. FormOK(Idle) /\ "idle" \in Steps
  BY <1>2 DEF FormOK, Steps
<1>4. \A q \in Requests : FormOK(req'[q])
  BY <1>1, <1>3 DEF RequestsOK
<1>5. QED
  BY <1>1, <1>2, <1>3, <1>4 DEF RequestsOK

\* The request goes on to another step.
LEMMA GotoStep ==
    ASSUME RequestsOK, NEW r \in Requests, NEW pc \in Steps,
           req' = [req EXCEPT ![r].pc = pc]
    PROVE  /\ \A q \in Requests : q # r => req'[q] = req[q]
           /\ req'[r].pc = pc /\ req'[r].form = req[r].form
           /\ req'[r].read = req[r].read /\ req'[r].alone = req[r].alone
           /\ FormOK(req'[r]) => RequestsOK'
<1>1. DOMAIN req' = Requests
      /\ \A q \in Requests : req'[q] = IF q = r THEN [req[r] EXCEPT !.pc = pc] ELSE req[q]
  BY DEF RequestsOK
<1>2. QED
  BY <1>1 DEF RequestsOK

\* The request goes on with what it has read.
LEMMA ReadStep ==
    ASSUME RequestsOK, NEW r \in Requests, NEW pc \in Steps, NEW v,
           req' = [req EXCEPT ![r].pc = pc, ![r].read = v]
    PROVE  /\ \A q \in Requests : q # r => req'[q] = req[q]
           /\ req'[r].pc = pc /\ req'[r].form = req[r].form
           /\ req'[r].read = v /\ req'[r].alone = req[r].alone
           /\ FormOK(req'[r]) => RequestsOK'
<1> DEFINE mid == [req EXCEPT ![r].pc = pc]
<1>1. DOMAIN mid = Requests
      /\ \A q \in Requests : mid[q] = IF q = r THEN [req[r] EXCEPT !.pc = pc] ELSE req[q]
  BY DEF RequestsOK
<1>2. req' = [mid EXCEPT ![r].read = v]
  OBVIOUS
<1> HIDE DEF mid
<1>3. DOMAIN req' = Requests
      /\ \A q \in Requests : req'[q] = IF q = r THEN [mid[r] EXCEPT !.read = v] ELSE mid[q]
  BY <1>1, <1>2
<1>4. DOMAIN mid[r] = {"pc", "form", "read", "alone"}
      /\ mid[r].pc = pc /\ mid[r].form = req[r].form /\ mid[r].alone = req[r].alone
  BY <1>1 DEF RequestsOK
<1>5. DOMAIN req'[r] = {"pc", "form", "read", "alone"}
      /\ req'[r].pc = pc /\ req'[r].form = req[r].form
      /\ req'[r].read = v /\ req'[r].alone = req[r].alone
  BY <1>3, <1>4
<1>6. \A q \in Requests : q # r => req'[q] = req[q]
  BY <1>1, <1>3
<1>7. QED
  BY <1>3, <1>5, <1>6 DEF RequestsOK

-----------------------------------------------------------------------------
(* The tables.                                                             *)

\* A validated form writes a valid row.
LEMMA WrittenOK ==
    ASSUME store \in Tables, NEW f \in Form, Validated(f), f.op # "refresh"
    PROVE  /\ Written(f) \in Tables
           /\ f.op \in {"tunables", "settings"} => Topology(Written(f)) = Topology(store)
<1>1. CASE f \in [op : {"promote"}, b : Beacons \cup {Blank}, n : Names \cup {Blank}]
  BY <1>1 DEF Validated, Written, Tables, Lists
<1>2. CASE f \in [op : {"demote"}, b : Beacons \cup {Blank}]
  BY <1>2 DEF Validated, Written, Tables, Lists
<1>3. CASE f \in [op : {"upsert"}, a : APs \cup {Blank}, l : Labels \cup {Blank}]
  BY <1>3 DEF Validated, Written, Tables, Lists
<1>4. CASE f \in [op : {"delete"}, a : APs \cup {Blank}]
  BY <1>4 DEF Validated, Written, Tables, Lists
<1>5. CASE f \in [op : {"tunables"}, t : Tunables \cup {Blank}]
  BY <1>5 DEF Validated, Written, Tables, Topology
<1>6. CASE f \in [op : {"settings"}, s : Settings \cup {Blank}]
  BY <1>6 DEF Validated, Written, Tables, Topology
<1>7. CASE f \in [op : {"refresh"}]
  BY <1>7
<1>8. QED
  BY <1>1, <1>2, <1>3, <1>4, <1>5, <1>6, <1>7 DEF Form

\* The unique name keeps the allowlist fit for NewTopology.
LEMMA WrittenBuildable ==
    ASSUME store \in Tables, ValidBeacons(store.beacons),
           NEW f \in Form, Validated(f), f.op # "refresh", ~Refused(f)
    PROVE  ValidBeacons(Written(f).beacons)
<1>1. CASE f \in [op : {"promote"}, b : Beacons \cup {Blank}, n : Names \cup {Blank}]
  <2>1. /\ f.b \in Beacons /\ f.n \in Names
        /\ \A c \in Beacons : store.beacons[c] # f.n
    BY <1>1 DEF Validated, Refused, PromoteConflict
  <2>2. \A c \in Beacons : Written(f).beacons[c] = IF c = f.b THEN f.n ELSE store.beacons[c]
    BY <1>1, <2>1 DEF Written, Tables, Lists
  <2>3. QED
    BY <2>1, <2>2 DEF ValidBeacons, Tracked
<1>2. CASE f \in [op : {"demote"}, b : Beacons \cup {Blank}]
  <2>1. \A c \in Beacons : Written(f).beacons[c] = IF c = f.b THEN None ELSE store.beacons[c]
    BY <1>2 DEF Written, Tables, Lists, Validated
  <2>2. QED
    BY <2>1 DEF ValidBeacons, Tracked
<1>3. CASE f.op \in {"upsert", "delete", "tunables", "settings"}
  <2>1. Written(f).beacons = store.beacons
    BY <1>3 DEF Written, Tables
  <2>2. QED
    BY <2>1
<1>4. QED
  BY <1>1, <1>2, <1>3 DEF Form

-----------------------------------------------------------------------------
(* How a request ends.                                                     *)

\* What an ending excuses of the engine's topology.
LEMMA EndExcuse ==
    ASSUME NEW r \in Requests, doubt \subseteq Copies, told \subseteq Copies,
           Succeed(r) \/ Fail(r)
    PROVE  /\ req' = [req EXCEPT ![r] = Idle]
           /\ doubt' \subseteq Copies /\ told' \subseteq Copies
           /\ ~req[r].alone /\ req[r].form.op \notin {"tunables", "settings"} =>
                "topology" \in Excused'
           /\ Fail(r) /\ req[r].form.op \notin {"tunables", "settings", "refresh"} =>
                "topology" \in Excused'
           /\ Fail(r) \/ req[r].form.op \in {"tunables", "settings"} =>
                ("topology" \in Excused => "topology" \in Excused')
<1> DEFINE f == req[r].form
<1>1. Settles(f) \subseteq Copies
  BY DEF Settles, Copies
<1>2. "topology" \in Settles(f) <=> f.op \notin {"tunables", "settings"}
  BY DEF Settles
<1> HIDE DEF f
<1>3. ASSUME Fail(r)
      PROVE  /\ req' = [req EXCEPT ![r] = Idle]
             /\ doubt \subseteq doubt' /\ doubt' \subseteq doubt \cup Settles(f)
             /\ told \subseteq told' /\ told' \subseteq told \cup Settles(f)
             /\ ~req[r].alone \/ f.op # "refresh" => told' = told \cup Settles(f)
  BY <1>3 DEF Fail, f
<1>4. CASE Fail(r)
  BY <1>1, <1>2, <1>3, <1>4 DEF Excused, f
<1>5. CASE Succeed(r) /\ ~Fail(r)
  <2>1. /\ req' = [req EXCEPT ![r] = Idle]
        /\ req[r].alone => doubt' = doubt \ Settles(f) /\ told' = told \ Settles(f)
        /\ ~req[r].alone => doubt' = doubt \cup Settles(f) /\ told' = told
    BY <1>5 DEF Succeed, f
  <2>2. QED
    BY <1>1, <1>2, <1>5, <2>1 DEF Excused, f
<1>6. QED
  BY <1>4, <1>5

\* While a request takes a step, no other one is alone.
LEMMA StepExclusive ==
    ASSUME Exclusive, NEW r \in Requests, req[r].pc # "idle",
           \A q \in Requests : q # r => req'[q] = req[q],
           req'[r].pc # "idle" => req'[r].alone = req[r].alone
    PROVE  /\ Exclusive'
           /\ \A q \in Requests : q # r /\ req'[q].pc # "idle" => ~req'[q].alone
BY DEF Exclusive

\* A request that ends without having touched tables or engine in this step.
LEMMA EndIInv ==
    ASSUME IInv, NEW r \in Requests, req[r].pc # "idle",
           req' = [req EXCEPT ![r] = Idle],
           UNCHANGED <<store, engine>>,
           current' \in Tunables, snap' \in Settings,
           requests' = requests, doubt' \subseteq Copies, told' \subseteq Copies,
           Rebuilding(req[r]) => "topology" \in Excused' \/ engine.topology = Topology(store),
           "topology" \in Excused => "topology" \in Excused' \/ engine.topology = Topology(store)
    PROVE  IInv'
<1>1. /\ RequestsOK'
      /\ \A q \in Requests : q # r => req'[q] = req[q]
      /\ req'[r].pc = "idle"
  BY EndStep DEF IInv, TypeOK
<1>2. Exclusive' /\ \A q \in Requests : q # r /\ req'[q].pc # "idle" => ~req'[q].alone
  BY <1>1, StepExclusive DEF IInv
<1>3. TypeOK'
  <2>1. \A q \in Requests : ReadOK(req'[q])
    BY <1>1 DEF IInv, TypeOK, ReadOK
  <2>2. QED
    BY <1>1, <2>1 DEF IInv, TypeOK, ReadOK
<1>4. Buildable'
  BY <1>1 DEF IInv, Buildable
<1>5. AloneReads'
  BY <1>1, <1>2 DEF AloneReads
<1>6. Covered'
  <2>1. CASE engine.topology = Topology(store) \/ "topology" \in Excused'
    BY <2>1 DEF Covered, Topology
  <2>2. CASE \E q \in Requests : Rebuilding(req[q]) /\ q # r
    BY <1>1, <2>2 DEF Covered
  <2>3. QED
    BY <2>1, <2>2 DEF IInv, Covered
<1>7. QED
  BY <1>2, <1>3, <1>4, <1>5, <1>6 DEF IInv

-----------------------------------------------------------------------------
(* The invariant holds initially and is preserved by every action.         *)

\* An error page is an ending of that kind.
LEMMA FailIInv ==
    ASSUME IInv, NEW r \in Requests, req[r].pc # "idle", Fail(r),
           UNCHANGED <<store, engine, current, snap, requests>>
    PROVE  IInv'
<1>1. doubt \subseteq Copies /\ told \subseteq Copies
  BY DEF IInv, TypeOK
<1>2. /\ req' = [req EXCEPT ![r] = Idle]
      /\ doubt' \subseteq Copies /\ told' \subseteq Copies
      /\ ~req[r].alone /\ req[r].form.op \notin {"tunables", "settings"} =>
           "topology" \in Excused'
      /\ req[r].form.op \notin {"tunables", "settings", "refresh"} => "topology" \in Excused'
      /\ "topology" \in Excused => "topology" \in Excused'
  BY <1>1, EndExcuse
<1>3. Rebuilding(req[r]) => "topology" \in Excused'
  <2>1. Rebuilding(req[r]) => req[r].form.op \notin {"tunables", "settings"}
    BY DEF IInv, TypeOK, RequestsOK, FormOK, Rebuilding
  <2>2. QED
    BY <1>2, <2>1 DEF Rebuilding
<1>4. current' \in Tunables /\ snap' \in Settings
  BY DEF IInv, TypeOK
<1>5. QED
  BY <1>2, <1>3, <1>4, EndIInv

\* A fresh process.
LEMMA InitIInv == Init => IInv
<1> SUFFICES ASSUME Init PROVE IInv
  OBVIOUS
<1>1. /\ store \in Tables /\ ValidBeacons(store.beacons)
      /\ engine.topology = Topology(store) /\ engine.tunables = store.tunables
      /\ engine = [topology |-> Topology(store), tunables |-> store.tunables]
  BY DEF Init
<1>2. /\ DOMAIN Idle = {"pc", "form", "read", "alone"}
      /\ Idle.pc = "idle" /\ Idle.alone = TRUE
  BY DEF Idle
<1>3. DOMAIN req = Requests /\ \A r \in Requests : req[r] = Idle
  BY DEF Init
<1>4. RequestsOK /\ \A r \in Requests : ReadOK(req[r])
  BY <1>2, <1>3 DEF RequestsOK, FormOK, ReadOK, Steps
<1>5. Topology(store) \in Topologies /\ Topology(store).beacons = store.beacons
      /\ store.tunables \in Tunables /\ store.settings \in Settings
  BY <1>1 DEF Topology, Topologies, Tables
<1>6. TypeOK
  BY <1>1, <1>4, <1>5, BoundAssumption DEF TypeOK, Init
<1>7. Buildable
  BY <1>1, <1>2, <1>3, <1>5 DEF Buildable
<1>8. Exclusive /\ AloneReads /\ Covered
  BY <1>1, <1>2, <1>3 DEF Exclusive, AloneReads, Covered
<1>9. QED
  BY <1>6, <1>7, <1>8 DEF IInv

\* A POST arrives: from then on neither it nor the others in progress are alone,
\* unless there were none.
LEMMA BeginIInv == ASSUME IInv, NEW r \in Requests, Begin(r) PROVE IInv'
<1>1. PICK f \in Form :
        /\ Validated(f)
        /\ req' = [q \in Requests |->
                     IF q = r
                     THEN [Idle EXCEPT !.pc = IF f.op = "refresh" THEN "listBeacons"
                                              ELSE "write",
                                       !.form = f, !.alone = Quiet]
                     ELSE [req[q] EXCEPT !.alone = req[q].pc = "idle"]]
  BY DEF Begin
<1>2. /\ req[r].pc = "idle" /\ requests < MaxRequests /\ requests' = requests + 1
      /\ UNCHANGED <<store, engine, current, snap, doubt, told>>
  BY DEF Begin
<1>3. /\ DOMAIN req' = Requests
      /\ \A q \in Requests : q # r =>
           /\ DOMAIN req'[q] = {"pc", "form", "read", "alone"}
           /\ req'[q].pc = req[q].pc /\ req'[q].form = req[q].form
           /\ req'[q].read = req[q].read /\ req'[q].alone = (req[q].pc = "idle")
  BY <1>1 DEF IInv, TypeOK, RequestsOK
<1>4. /\ DOMAIN req'[r] = {"pc", "form", "read", "alone"}
      /\ req'[r].pc = IF f.op = "refresh" THEN "listBeacons" ELSE "write"
      /\ req'[r].form = f /\ req'[r].alone = Quiet
  BY <1>1 DEF Idle
<1>5. Quiet \in BOOLEAN /\ (Quiet <=> \A q \in Requests : req[q].pc = "idle")
  BY DEF Quiet
<1>6. RequestsOK'
  <2>1. FormOK(req'[r]) /\ req'[r].pc \in Steps
    <3>1. f.op = "refresh" => f.op \notin {"tunables", "settings"}
      OBVIOUS
    <3>2. QED
      BY <1>1, <1>4, <3>1 DEF FormOK, Steps
  <2>2. \A q \in Requests : q # r => FormOK(req'[q]) /\ req'[q].pc \in Steps
    BY <1>3 DEF IInv, TypeOK, RequestsOK, FormOK
  <2>3. QED
    BY <1>3, <1>4, <1>5, <2>1, <2>2 DEF RequestsOK
<1>7. TypeOK'
  <2>1. \A q \in Requests : ReadOK(req'[q])
    BY <1>3, <1>4 DEF IInv, TypeOK, ReadOK
  <2>2. requests' \in 0..MaxRequests
    BY <1>2, BoundAssumption DEF IInv, TypeOK
  <2>3. QED
    BY <1>2, <1>6, <2>1, <2>2 DEF IInv, TypeOK, ReadOK
<1>8. Buildable'
  BY <1>2, <1>3, <1>4 DEF IInv, Buildable
<1>9. Exclusive'
  BY <1>3, <1>4, <1>5 DEF Exclusive
<1>10. AloneReads'
  BY <1>3, <1>4 DEF AloneReads
<1>11. Covered'
  <2>1. CASE engine.topology = Topology(store) \/ "topology" \in Excused
    BY <1>2, <2>1 DEF Covered, Excused, Topology
  <2>2. CASE \E q \in Requests : Rebuilding(req[q])
    <3>1. PICK q \in Requests : Rebuilding(req[q])
      BY <2>2
    <3>2. q # r /\ req[q].pc # "idle"
      BY <1>2, <3>1 DEF Rebuilding
    <3>3. Rebuilding(req'[q])
      BY <1>3, <3>1, <3>2 DEF Rebuilding
    <3>4. QED
      BY <3>3 DEF Covered
  <2>3. QED
    BY <2>1, <2>2 DEF IInv, Covered
<1>12. QED
  BY <1>7, <1>8, <1>9, <1>10, <1>11 DEF IInv

\* The statement: refused, executed, or failed with or without a commit.
LEMMA WriteIInv == ASSUME IInv, NEW r \in Requests, Write(r) PROVE IInv'
<1> DEFINE f == req[r].form
<1>1. /\ req[r].pc = "write"
      /\ UNCHANGED <<engine, current, snap, requests>>
  BY DEF Write
<1>2. /\ f \in Form /\ Validated(f) /\ f.op # "refresh"
      /\ doubt \subseteq Copies /\ told \subseteq Copies /\ RequestsOK /\ store \in Tables
      /\ ValidBeacons(store.beacons)
  BY <1>1 DEF IInv, TypeOK, RequestsOK, FormOK, Buildable
<1>3. /\ Written(f) \in Tables
      /\ f.op \in {"tunables", "settings"} => Topology(Written(f)) = Topology(store)
      /\ ~Refused(f) => ValidBeacons(Written(f).beacons)
  BY <1>2, WrittenOK, WrittenBuildable
<1>4. CASE Refuse(r) /\ UNCHANGED store
  <2>1. /\ req' = [req EXCEPT ![r] = Idle] /\ UNCHANGED <<doubt, told>>
        /\ ~Rebuilding(req[r])
    BY <1>1, <1>4 DEF Refuse, Rebuilding
  <2>2. current' \in Tunables /\ snap' \in Settings
    BY <1>1 DEF IInv, TypeOK
  <2>3. Excused' = Excused
    BY <2>1 DEF Excused
  <2>4. QED
    BY <1>1, <1>2, <1>4, <2>1, <2>2, <2>3, EndIInv
<1>5. CASE ~Refused(f) /\ store' = Written(f) /\ Goto(r, AfterWrite(f)) /\ UNCHANGED <<doubt, told>>
  <2>1. AfterWrite(f) \in Steps
    BY DEF AfterWrite, Steps
  <2>2. /\ f.op = "tunables" => AfterWrite(f) = "applyTunables"
        /\ f.op = "settings" => AfterWrite(f) = "replaceSnap"
        /\ f.op \notin {"tunables", "settings"} => AfterWrite(f) = "listBeacons"
    BY DEF AfterWrite
  <2>3. /\ \A q \in Requests : q # r => req'[q] = req[q]
        /\ req'[r].pc = AfterWrite(f) /\ req'[r].form = f
        /\ req'[r].alone = req[r].alone
        /\ FormOK(req'[r]) => RequestsOK'
    BY <1>2, <1>5, <2>1, GotoStep DEF Goto
  <2> HIDE DEF f
  <2>4. RequestsOK'
    BY <1>2, <2>2, <2>3 DEF FormOK
  <2>5. Exclusive' /\ \A q \in Requests : q # r /\ req'[q].pc # "idle" => ~req'[q].alone
    BY <1>1, <2>3, StepExclusive DEF IInv
  <2>6. TypeOK'
    <3>1. \A q \in Requests : ReadOK(req'[q])
      BY <2>2, <2>3 DEF IInv, TypeOK, ReadOK
    <3>2. QED
      BY <1>1, <1>3, <1>5, <2>4, <3>1 DEF IInv, TypeOK, ReadOK
  <2>7. Buildable'
    BY <1>1, <1>3, <1>5, <2>2, <2>3 DEF IInv, Buildable
  <2>8. AloneReads'
    BY <2>2, <2>3, <2>5 DEF AloneReads
  <2>9. Covered'
    <3>1. CASE f.op \in {"tunables", "settings"}
      <4>1. Topology(store)' = Topology(store)
        BY <1>3, <1>5, <3>1 DEF Topology
      <4>2. ~Rebuilding(req[r])
        BY <1>1 DEF Rebuilding
      <4>3. (\E q \in Requests : Rebuilding(req[q])) => \E q \in Requests : Rebuilding(req'[q])
        BY <2>3, <4>2
      <4>4. QED
        BY <1>1, <1>5, <4>1, <4>3 DEF IInv, Covered, Excused, Rebuilding
    <3>2. CASE f.op \notin {"tunables", "settings"}
      <4>1. Rebuilding(req'[r])
        BY <1>2, <2>2, <2>3, <3>2 DEF Rebuilding
      <4>2. QED
        BY <4>1 DEF Covered, Rebuilding
    <3>3. QED
      BY <3>1, <3>2
  <2>10. QED
    BY <2>5, <2>6, <2>7, <2>8, <2>9 DEF IInv
<1>6. CASE Fail(r) /\ UNCHANGED store
  BY <1>1, <1>6, FailIInv
<1>7. CASE ~Refused(f) /\ store' = Written(f) /\ Fail(r)
  <2>1. /\ req' = [req EXCEPT ![r] = Idle]
        /\ doubt' \subseteq Copies /\ told' \subseteq Copies
        /\ f.op \notin {"tunables", "settings"} => "topology" \in Excused'
        /\ "topology" \in Excused => "topology" \in Excused'
    BY <1>2, <1>7, EndExcuse
  <2> HIDE DEF f
  <2>2. /\ RequestsOK'
        /\ \A q \in Requests : q # r => req'[q] = req[q]
        /\ req'[r].pc = "idle"
    BY <1>2, <2>1, EndStep
  <2>3. Exclusive' /\ \A q \in Requests : q # r /\ req'[q].pc # "idle" => ~req'[q].alone
    BY <1>1, <2>2, StepExclusive DEF IInv
  <2>4. TypeOK'
    <3>1. \A q \in Requests : ReadOK(req'[q])
      BY <2>2 DEF IInv, TypeOK, ReadOK
    <3>2. QED
      BY <1>1, <1>3, <1>7, <2>1, <2>2, <3>1 DEF IInv, TypeOK, ReadOK
  <2>5. Buildable'
    BY <1>1, <1>3, <1>7, <2>2 DEF IInv, Buildable
  <2>6. AloneReads'
    BY <2>2, <2>3 DEF AloneReads
  <2>7. Covered'
    <3>1. CASE f.op \in {"tunables", "settings"}
      <4>1. Topology(store)' = Topology(store)
        BY <1>3, <1>7, <3>1 DEF Topology
      <4>2. ~Rebuilding(req[r])
        BY <1>1 DEF Rebuilding
      <4>3. (\E q \in Requests : Rebuilding(req[q])) => \E q \in Requests : Rebuilding(req'[q])
        BY <2>2, <4>2
      <4>4. QED
        BY <1>1, <2>1, <4>1, <4>3 DEF IInv, Covered, Rebuilding
    <3>2. CASE f.op \notin {"tunables", "settings"}
      BY <2>1, <3>2 DEF Covered
    <3>3. QED
      BY <3>1, <3>2
  <2>8. QED
    BY <2>3, <2>4, <2>5, <2>6, <2>7 DEF IInv
<1>8. QED
  BY <1>4, <1>5, <1>6, <1>7 DEF Write

\* A request that reads or hands over a document and goes on.  What it must
\* have read by then is the last hypothesis.
LEMMA OnIInv ==
    ASSUME IInv, NEW r \in Requests, req[r].pc # "idle", req'[r].pc # "idle",
           \A q \in Requests : q # r => req'[q] = req[q],
           req'[r].form = req[r].form, req'[r].alone = req[r].alone,
           RequestsOK', ReadOK(req'[r]),
           UNCHANGED <<store, current, snap, requests, doubt, told>>,
           engine' \in [topology : Topologies, tunables : Tunables],
           engine'.topology = engine.topology,
           Rebuilding(req[r]) => Rebuilding(req'[r]),
           /\ req'[r].pc = "listZones" => ValidBeacons(req'[r].read)
           /\ req'[r].pc = "apply" => ValidBeacons(req'[r].read.beacons)
           /\ req[r].alone =>
                /\ req'[r].pc = "listZones" => req'[r].read = store.beacons
                /\ req'[r].pc = "apply" => req'[r].read = Topology(store)
                /\ req'[r].pc \in {"remove", "listKnown", "reconcile"} =>
                     engine.topology = Topology(store)
    PROVE  IInv'
<1>1. Exclusive' /\ \A q \in Requests : q # r /\ req'[q].pc # "idle" => ~req'[q].alone
  BY StepExclusive DEF IInv
<1>2. Topology(store)' = Topology(store)
  BY DEF Topology
<1>3. TypeOK'
  <2>1. \A q \in Requests : ReadOK(req'[q])
    BY DEF IInv, TypeOK
  <2>2. QED
    BY <2>1 DEF IInv, TypeOK, ReadOK
<1>4. Buildable'
  BY DEF IInv, Buildable
<1>5. AloneReads'
  BY <1>1, <1>2 DEF AloneReads
<1>6. Covered'
  <2>1. (\E q \in Requests : Rebuilding(req[q])) => \E q \in Requests : Rebuilding(req'[q])
    OBVIOUS
  <2>2. QED
    BY <1>2, <2>1 DEF IInv, Covered, Excused, Rebuilding
<1>7. QED
  BY <1>1, <1>3, <1>4, <1>5, <1>6 DEF IInv

\* The first query of a rebuild.
LEMMA ListBeaconsIInv == ASSUME IInv, NEW r \in Requests, ListBeacons(r) PROVE IInv'
<1>1. req[r].pc = "listBeacons" /\ UNCHANGED <<store, engine, current, snap, requests>>
  BY DEF ListBeacons
<1>2. CASE Fail(r)
  BY <1>1, <1>2, FailIInv
<1>3. CASE /\ req' = [req EXCEPT ![r].pc = "listZones", ![r].read = store.beacons]
           /\ UNCHANGED <<doubt, told>>
  <2>1. RequestsOK /\ "listZones" \in Steps
    BY DEF IInv, TypeOK, Steps
  <2>2. /\ \A q \in Requests : q # r => req'[q] = req[q]
        /\ req'[r].pc = "listZones" /\ req'[r].form = req[r].form
        /\ req'[r].read = store.beacons /\ req'[r].alone = req[r].alone
        /\ FormOK(req'[r]) => RequestsOK'
    BY <1>3, <2>1, ReadStep
  <2>3. RequestsOK'
    BY <1>1, <2>1, <2>2 DEF RequestsOK, FormOK
  <2>4. ReadOK(req'[r])
    BY <2>2 DEF IInv, TypeOK, ReadOK, Tables
  <2>5. Rebuilding(req[r]) => Rebuilding(req'[r])
    BY <2>2 DEF Rebuilding
  <2>6. ValidBeacons(store.beacons) /\ engine \in [topology : Topologies, tunables : Tunables]
    BY DEF IInv, TypeOK, Buildable
  <2>7. QED
    BY <1>1, <1>3, <2>2, <2>3, <2>4, <2>5, <2>6, OnIInv
<1>4. QED
  BY <1>2, <1>3 DEF ListBeacons

\* The second query.
LEMMA ListZonesIInv == ASSUME IInv, NEW r \in Requests, ListZones(r) PROVE IInv'
<1>1. req[r].pc = "listZones" /\ UNCHANGED <<store, engine, current, snap, requests>>
  BY DEF ListZones
<1>2. CASE Fail(r)
  BY <1>1, <1>2, FailIInv
<1> DEFINE top == [beacons |-> req[r].read, zones |-> store.zones]
<1>3. CASE /\ ValidBeacons(req[r].read)
           /\ req' = [req EXCEPT ![r].pc = "apply", ![r].read = top]
           /\ UNCHANGED <<doubt, told>>
  <2>1. RequestsOK /\ "apply" \in Steps
    BY DEF IInv, TypeOK, Steps
  <2>2. /\ top \in Topologies /\ top.beacons = req[r].read
        /\ req[r].alone => top = Topology(store)
    BY <1>1 DEF IInv, TypeOK, ReadOK, Tables, Topologies, AloneReads, Topology
  <2> HIDE DEF top
  <2>3. /\ \A q \in Requests : q # r => req'[q] = req[q]
        /\ req'[r].pc = "apply" /\ req'[r].form = req[r].form
        /\ req'[r].read = top /\ req'[r].alone = req[r].alone
        /\ FormOK(req'[r]) => RequestsOK'
    BY <1>3, <2>1, ReadStep
  <2>4. RequestsOK'
    BY <1>1, <2>1, <2>3 DEF RequestsOK, FormOK
  <2>5. ReadOK(req'[r])
    BY <2>2, <2>3 DEF ReadOK
  <2>6. Rebuilding(req[r]) => Rebuilding(req'[r])
    BY <2>3 DEF Rebuilding
  <2>7. engine \in [topology : Topologies, tunables : Tunables]
    BY DEF IInv, TypeOK
  <2>8. QED
    BY <1>1, <1>3, <2>2, <2>3, <2>4, <2>5, <2>6, <2>7, OnIInv
<1>4. QED
  BY <1>2, <1>3 DEF ListZones

\* The engine takes the topology.  A request that is alone has read the tables as
\* they are; any other one stays in progress or leaves an excuse.
LEMMA ApplyTopologyIInv == ASSUME IInv, NEW r \in Requests, ApplyTopology(r) PROVE IInv'
<1> DEFINE f == req[r].form
<1>1. /\ req[r].pc = "apply" /\ engine' = [engine EXCEPT !.topology = req[r].read]
      /\ UNCHANGED <<store, current, snap, requests>>
  BY DEF ApplyTopology
<1>2. /\ RequestsOK /\ doubt \subseteq Copies /\ told \subseteq Copies
      /\ f.op \notin {"tunables", "settings"} /\ req[r].read \in Topologies
      /\ engine \in [topology : Topologies, tunables : Tunables]
      /\ ValidBeacons(req[r].read.beacons)
      /\ req[r].alone => req[r].read = Topology(store)
  BY <1>1 DEF IInv, TypeOK, RequestsOK, FormOK, ReadOK, Buildable, AloneReads
<1>3. /\ engine' \in [topology : Topologies, tunables : Tunables]
      /\ engine'.topology = req[r].read /\ Topology(store)' = Topology(store)
  BY <1>1, <1>2 DEF Topology
<1>4. /\ f.op = "demote" => Goto(r, "remove") /\ UNCHANGED <<doubt, told>>
      /\ f.op = "refresh" => Goto(r, "listKnown") /\ UNCHANGED <<doubt, told>>
      /\ f.op \notin {"demote", "refresh"} => Succeed(r)
  BY DEF ApplyTopology
<1> SUFFICES ASSUME RequestsOK', doubt' \subseteq Copies, told' \subseteq Copies,
                    \A q \in Requests : q # r => req'[q] = req[q],
                    req'[r].pc \in {"idle", "remove", "listKnown"},
                    req'[r].pc # "idle" => req'[r].alone = req[r].alone,
                    req[r].alone \/ "topology" \in Excused' \/ Rebuilding(req'[r])
             PROVE  IInv'
  <2>1. CASE f.op \notin {"demote", "refresh"}
    <3>1. /\ req' = [req EXCEPT ![r] = Idle]
          /\ doubt' \subseteq Copies /\ told' \subseteq Copies
          /\ ~req[r].alone => "topology" \in Excused'
      BY <1>2, <1>4, <2>1, EndExcuse
    <3>2. /\ RequestsOK' /\ req'[r].pc = "idle"
          /\ \A q \in Requests : q # r => req'[q] = req[q]
      BY <1>2, <3>1, EndStep
    <3>3. QED
      BY <3>1, <3>2
  <2>2. ASSUME NEW pc \in {"remove", "listKnown"}, Goto(r, pc), UNCHANGED <<doubt, told>>,
               pc = "remove" => f.op = "demote", pc = "listKnown" => f.op = "refresh"
        PROVE  IInv'
    <3>1. pc \in Steps
      BY DEF Steps
    <3>2. /\ \A q \in Requests : q # r => req'[q] = req[q]
          /\ req'[r].pc = pc /\ req'[r].form = f /\ req'[r].alone = req[r].alone
          /\ FormOK(req'[r]) => RequestsOK'
      BY <1>2, <2>2, <3>1, GotoStep DEF Goto
    <3>3. FormOK(req'[r])
      BY <1>1, <1>2, <2>2, <3>2 DEF RequestsOK, FormOK
    <3>4. req[r].alone \/ Rebuilding(req'[r])
      BY <2>2, <3>2 DEF Rebuilding
    <3>5. doubt' \subseteq Copies /\ told' \subseteq Copies
      BY <1>2, <2>2
    <3>6. QED
      BY <3>2, <3>3, <3>4, <3>5
  <2>3. QED
    BY <1>4, <2>1, <2>2
<1>5. Exclusive' /\ \A q \in Requests : q # r /\ req'[q].pc # "idle" => ~req'[q].alone
  BY <1>1, StepExclusive DEF IInv
<1>6. TypeOK'
  <2>1. \A q \in Requests : ReadOK(req'[q])
    BY DEF IInv, TypeOK, ReadOK
  <2>2. QED
    BY <1>1, <1>3, <2>1 DEF IInv, TypeOK, ReadOK
<1>7. Buildable'
  BY <1>1, <1>2, <1>3 DEF IInv, Buildable
<1>8. AloneReads'
  BY <1>2, <1>3, <1>5 DEF AloneReads
<1>9. Covered'
  BY <1>2, <1>3 DEF Covered, Rebuilding
<1>10. QED
  BY <1>5, <1>6, <1>7, <1>8, <1>9 DEF IInv

\* A success after the apply: alone, the engine has the tables' topology.
LEMMA SucceedIInv ==
    ASSUME IInv, NEW r \in Requests,
           req[r].pc \in {"remove", "reconcile", "replaceCurrent", "replaceSnap"},
           Succeed(r), UNCHANGED <<store, engine, requests>>,
           current' \in Tunables, snap' \in Settings
    PROVE  IInv'
<1>1. doubt \subseteq Copies /\ told \subseteq Copies /\ FormOK(req[r])
  BY DEF IInv, TypeOK, RequestsOK
<1>2. /\ req' = [req EXCEPT ![r] = Idle]
      /\ doubt' \subseteq Copies /\ told' \subseteq Copies
      /\ ~req[r].alone /\ req[r].form.op \notin {"tunables", "settings"} =>
           "topology" \in Excused'
      /\ req[r].form.op \in {"tunables", "settings"} =>
           ("topology" \in Excused => "topology" \in Excused')
  BY <1>1, EndExcuse
<1>3. CASE req[r].pc \in {"remove", "reconcile"}
  <2>1. req[r].form.op \notin {"tunables", "settings"}
    BY <1>1, <1>3 DEF FormOK
  <2>2. "topology" \in Excused' \/ engine.topology = Topology(store)
    BY <1>2, <1>3, <2>1 DEF IInv, AloneReads
  <2>3. QED
    BY <1>2, <1>3, <2>2, EndIInv
<1>4. CASE req[r].pc \in {"replaceCurrent", "replaceSnap"}
  <2>1. req[r].form.op \in {"tunables", "settings"} /\ ~Rebuilding(req[r])
    BY <1>1, <1>4 DEF FormOK, Rebuilding
  <2>2. QED
    BY <1>2, <1>4, <2>1, EndIInv
<1>5. QED
  BY <1>3, <1>4

\* The remove of a demoted entity is queued, or refused.
LEMMA RemoveEntityIInv == ASSUME IInv, NEW r \in Requests, RemoveEntity(r) PROVE IInv'
<1>1. req[r].pc = "remove" /\ UNCHANGED <<store, engine, current, snap, requests>>
      /\ (Succeed(r) \/ Fail(r))
  BY DEF RemoveEntity
<1>2. current' \in Tunables /\ snap' \in Settings
  BY <1>1 DEF IInv, TypeOK
<1>3. QED
  BY <1>1, <1>2, SucceedIInv, FailIInv

\* The allowlist is listed again for the orphans.
LEMMA ListKnownIInv == ASSUME IInv, NEW r \in Requests, ListKnown(r) PROVE IInv'
<1>1. req[r].pc = "listKnown" /\ UNCHANGED <<store, engine, current, snap, requests>>
  BY DEF ListKnown
<1>2. CASE Fail(r)
  BY <1>1, <1>2, FailIInv
<1>3. CASE Goto(r, "reconcile") /\ UNCHANGED <<doubt, told>>
  <2>1. RequestsOK /\ "reconcile" \in Steps
    BY DEF IInv, TypeOK, Steps
  <2>2. /\ \A q \in Requests : q # r => req'[q] = req[q]
        /\ req'[r].pc = "reconcile" /\ req'[r].form = req[r].form
        /\ req'[r].alone = req[r].alone
        /\ FormOK(req'[r]) => RequestsOK'
    BY <1>3, <2>1, GotoStep DEF Goto
  <2>3. RequestsOK'
    BY <1>1, <2>1, <2>2 DEF RequestsOK, FormOK
  <2>4. ReadOK(req'[r])
    BY <2>2 DEF ReadOK
  <2>5. Rebuilding(req[r]) => Rebuilding(req'[r])
    BY <2>2 DEF Rebuilding
  <2>6. engine \in [topology : Topologies, tunables : Tunables]
    BY DEF IInv, TypeOK
  <2>7. req[r].alone => engine.topology = Topology(store)
    BY <1>1 DEF IInv, AloneReads
  <2>8. QED
    BY <1>1, <1>3, <2>2, <2>3, <2>4, <2>5, <2>6, <2>7, OnIInv
<1>4. QED
  BY <1>2, <1>3 DEF ListKnown

\* The removes of the orphans are queued, all or some of them.
LEMMA ReconcileIInv == ASSUME IInv, NEW r \in Requests, Reconcile(r) PROVE IInv'
<1>1. req[r].pc = "reconcile" /\ UNCHANGED <<store, engine, current, snap, requests>>
      /\ (Succeed(r) \/ Fail(r))
  BY DEF Reconcile
<1>2. current' \in Tunables /\ snap' \in Settings
  BY <1>1 DEF IInv, TypeOK
<1>3. QED
  BY <1>1, <1>2, SucceedIInv, FailIInv

\* The documents are handed over.
LEMMA DocumentsIInv ==
    ASSUME IInv, NEW r \in Requests, ApplyTunables(r) \/ ReplaceCurrent(r) \/ ReplaceSnap(r)
    PROVE  IInv'
<1>1. ASSUME NEW f \in Form, Validated(f)
      PROVE  /\ f.op = "tunables" => f.t \in Tunables
             /\ f.op = "settings" => f.s \in Settings
  BY <1>1 DEF Form, Validated
<1>2. req[r].pc \in {"applyTunables", "replaceCurrent"} => req[r].form.t \in Tunables
  BY <1>1 DEF IInv, TypeOK, RequestsOK, FormOK
<1>3. req[r].pc = "replaceSnap" => req[r].form.s \in Settings
  BY <1>1 DEF IInv, TypeOK, RequestsOK, FormOK
<1>4. CASE ApplyTunables(r)
  <2>1. /\ req[r].pc = "applyTunables" /\ engine' = [engine EXCEPT !.tunables = req[r].form.t]
        /\ req' = [req EXCEPT ![r].pc = "replaceCurrent"]
        /\ UNCHANGED <<store, current, snap, requests, doubt, told>>
    BY <1>4 DEF ApplyTunables, Goto
  <2>2. RequestsOK /\ "replaceCurrent" \in Steps
        /\ engine \in [topology : Topologies, tunables : Tunables]
    BY DEF IInv, TypeOK, Steps
  <2>3. engine' \in [topology : Topologies, tunables : Tunables]
        /\ engine'.topology = engine.topology
    BY <1>2, <2>1, <2>2
  <2>4. /\ \A q \in Requests : q # r => req'[q] = req[q]
        /\ req'[r].pc = "replaceCurrent" /\ req'[r].form = req[r].form
        /\ req'[r].alone = req[r].alone
        /\ FormOK(req'[r]) => RequestsOK'
    BY <2>1, <2>2, GotoStep
  <2>5. RequestsOK' /\ ReadOK(req'[r]) /\ ~Rebuilding(req[r])
    BY <2>1, <2>2, <2>4 DEF RequestsOK, FormOK, ReadOK, Rebuilding
  <2>6. QED
    BY <2>1, <2>3, <2>4, <2>5, OnIInv
<1>5. CASE ReplaceCurrent(r)
  <2>1. /\ req[r].pc = "replaceCurrent" /\ current' = req[r].form.t /\ Succeed(r)
        /\ UNCHANGED <<store, engine, snap, requests>>
    BY <1>5 DEF ReplaceCurrent
  <2>2. current' \in Tunables /\ snap' \in Settings
    BY <1>2, <2>1 DEF IInv, TypeOK
  <2>3. QED
    BY <2>1, <2>2, SucceedIInv
<1>6. CASE ReplaceSnap(r)
  <2>1. /\ req[r].pc = "replaceSnap" /\ snap' = req[r].form.s /\ Succeed(r)
        /\ UNCHANGED <<store, engine, current, requests>>
    BY <1>6 DEF ReplaceSnap
  <2>2. current' \in Tunables /\ snap' \in Settings
    BY <1>3, <2>1 DEF IInv, TypeOK
  <2>3. QED
    BY <2>1, <2>2, SucceedIInv
<1>7. QED
  BY <1>4, <1>5, <1>6

\* A step that changes nothing.
LEMMA QuietIInv ==
    ASSUME IInv,
           UNCHANGED <<store, engine, current, snap, req, requests, doubt, told>>
    PROVE  IInv'
<1>1. Topology(store)' = Topology(store)
  BY DEF Topology
<1>2. TypeOK'
  BY DEF IInv, TypeOK, RequestsOK, FormOK, ReadOK
<1>3. Buildable' /\ Exclusive'
  BY DEF IInv, Buildable, Exclusive
<1>4. AloneReads' /\ Covered'
  BY <1>1 DEF IInv, AloneReads, Covered, Excused, Rebuilding
<1>5. QED
  BY <1>2, <1>3, <1>4 DEF IInv

\* A restart loads the tables; no request survives it.
LEMMA RestartIInv == IInv /\ Restart => IInv'
<1> SUFFICES ASSUME IInv, Restart PROVE IInv'
  OBVIOUS
<1>1. /\ engine' = [topology |-> Topology(store), tunables |-> store.tunables]
      /\ current' = store.tunables /\ snap' = store.settings
      /\ req' = [r \in Requests |-> Idle] /\ doubt' = {} /\ told' = {}
      /\ UNCHANGED <<store, requests>>
  BY DEF Restart, Boot
<1>2. /\ DOMAIN Idle = {"pc", "form", "read", "alone"}
      /\ Idle.pc = "idle" /\ Idle.alone = TRUE
  BY DEF Idle
<1>3. DOMAIN req' = Requests /\ \A r \in Requests : req'[r] = Idle
  BY <1>1
<1>4. FormOK(Idle) /\ ReadOK(Idle) /\ "idle" \in Steps
  BY <1>2 DEF FormOK, ReadOK, Steps
<1>5. RequestsOK' /\ \A r \in Requests : ReadOK(req'[r])
  <2>1. \A r \in Requests : FormOK(req'[r]) /\ ReadOK(req'[r])
    BY <1>3, <1>4
  <2>2. QED
    BY <1>2, <1>3, <1>4, <2>1 DEF RequestsOK
<1>6. Topology(store) \in Topologies /\ Topology(store).beacons = store.beacons
      /\ store.tunables \in Tunables /\ store.settings \in Settings
      /\ Topology(store)' = Topology(store)
  BY <1>1 DEF IInv, TypeOK, Topology, Topologies, Tables
<1>7. TypeOK'
  BY <1>1, <1>5, <1>6 DEF IInv, TypeOK, ReadOK
<1>8. Buildable'
  BY <1>1, <1>2, <1>3, <1>6 DEF IInv, Buildable
<1>9. Exclusive' /\ AloneReads' /\ Covered'
  BY <1>1, <1>2, <1>3, <1>6 DEF Exclusive, AloneReads, Covered
<1>10. QED
  BY <1>7, <1>8, <1>9 DEF IInv

\* Every step of the specification preserves the invariant.
LEMMA NextIInv == IInv /\ [Next]_vars => IInv'
<1> SUFFICES ASSUME IInv, [Next]_vars PROVE IInv'
  OBVIOUS
<1>1. ASSUME NEW r \in Requests, Begin(r) \/ Write(r) \/ ListBeacons(r) \/ ListZones(r)
      PROVE  IInv'
  BY <1>1, BeginIInv, WriteIInv, ListBeaconsIInv, ListZonesIInv
<1>2. ASSUME NEW r \in Requests,
             ApplyTopology(r) \/ RemoveEntity(r) \/ ListKnown(r) \/ Reconcile(r)
      PROVE  IInv'
  BY <1>2, ApplyTopologyIInv, RemoveEntityIInv, ListKnownIInv, ReconcileIInv
<1>3. ASSUME NEW r \in Requests, ApplyTunables(r) \/ ReplaceCurrent(r) \/ ReplaceSnap(r)
      PROVE  IInv'
  BY <1>3, DocumentsIInv
<1>4. CASE UNCHANGED vars
  BY <1>4, QuietIInv DEF vars
<1>5. QED
  BY <1>1, <1>2, <1>3, <1>4, RestartIInv DEF Next

-----------------------------------------------------------------------------

\* The inductive invariant holds in every reachable state.
THEOREM IInvHolds == Spec => []IInv
BY InitIInv, NextIInv, PTL DEF Spec

\* Type correctness: only validated rows reach the tables and their copies.
THEOREM TypeCorrect == Spec => []TypeOK
<1>1. IInv => TypeOK
  BY DEF IInv
<1>2. QED
  BY <1>1, IInvHolds, PTL

\* No interleaving of admin requests stores a list that NewTopology refuses.
THEOREM AlwaysBuildable == Spec => []NeverBricked
<1>1. IInv => NeverBricked
  BY DEF IInv, Buildable, NeverBricked
<1>2. QED
  BY <1>1, IInvHolds, PTL

\* The engine's topology is the tables' whenever no request is in progress, unless
\* requests overlapped or an operator was told of a failure.
THEOREM EngineAlwaysFollows == Spec => []EngineFollowsStore
<1>1. IInv => EngineFollowsStore
  BY DEF IInv, EngineFollowsStore, Covered, Quiet, Rebuilding
<1>2. QED
  BY <1>1, IInvHolds, PTL

-----------------------------------------------------------------------------
(* The documents.                                                          *)

\* A request that is alone holds the document the tables hold, and hands it
\* over copy by copy.
Holds(q) ==
    q.alone =>
        /\ q.pc \in {"applyTunables", "replaceCurrent"} => q.form.t = store.tunables
        /\ q.pc = "replaceCurrent" => engine.tunables = store.tunables
        /\ q.pc = "replaceSnap" => q.form.s = store.settings

\* A document's copies are the tables', or excused; or a request has them.
TunablesSettled ==
    \/ engine.tunables = store.tunables /\ current = store.tunables
    \/ {"tunables", "current"} \subseteq Excused
CarriesTunables(q) == q.pc \in {"applyTunables", "replaceCurrent"}

SettingsSettled == snap = store.settings \/ "settings" \in Excused
CarriesSettings(q) == q.pc = "replaceSnap"

\* The second inductive invariant, on top of IInv.
SInv ==
    /\ \A r \in Requests : Holds(req[r])
    /\ TunablesSettled \/ \E r \in Requests : CarriesTunables(req[r])
    /\ SettingsSettled \/ \E r \in Requests : CarriesSettings(req[r])

\* A step of one request keeps it when what the request settled or carried is
\* settled or carried afterwards.
LEMMA MoveSInv ==
    ASSUME IInv, SInv, NEW r \in Requests, req[r].pc # "idle",
           \A q \in Requests : q # r => req'[q] = req[q],
           req'[r].pc # "idle" => req'[r].alone = req[r].alone,
           Holds(req[r])',
           TunablesSettled \/ CarriesTunables(req[r]) =>
               TunablesSettled' \/ CarriesTunables(req'[r]),
           SettingsSettled \/ CarriesSettings(req[r]) =>
               SettingsSettled' \/ CarriesSettings(req'[r])
    PROVE  SInv'
<1>1. \A q \in Requests : q # r /\ req'[q].pc # "idle" => ~req'[q].alone
  BY StepExclusive DEF IInv
<1>2. \A q \in Requests : Holds(req[q])'
  BY <1>1 DEF Holds
<1>3. TunablesSettled' \/ \E q \in Requests : CarriesTunables(req'[q])
  BY DEF SInv
<1>4. SettingsSettled' \/ \E q \in Requests : CarriesSettings(req'[q])
  BY DEF SInv
<1> QED
  BY <1>2, <1>3, <1>4 DEF SInv, CarriesTunables, CarriesSettings

\* What an ending does to the excuses.
LEMMA EndExcuses ==
    ASSUME NEW r \in Requests, RequestsOK, Succeed(r) \/ Fail(r)
    PROVE  /\ \A q \in Requests : q # r => req'[q] = req[q]
           /\ req'[r].pc = "idle"
           /\ Fail(r) \/ ~req[r].alone => Excused \subseteq Excused'
           /\ ~req[r].alone => Settles(req[r].form) \subseteq Excused'
           /\ Fail(r) /\ req[r].form.op # "refresh" => Settles(req[r].form) \subseteq Excused'
           /\ Excused \ Settles(req[r].form) \subseteq Excused'
<1>1. req' = [req EXCEPT ![r] = Idle]
  BY DEF Succeed, Fail
<1>2. \A q \in Requests : q # r => req'[q] = req[q]
  BY <1>1, EndStep
<1>3. req'[r].pc = "idle"
  BY <1>1, EndStep
<1> QED
  BY <1>2, <1>3 DEF Succeed, Fail, Excused

\* Which copies the kinds of requests settle.
LEMMA WhichCopies ==
    ASSUME NEW f
    PROVE  /\ f.op = "tunables" => Settles(f) = {"tunables", "current"}
           /\ f.op = "settings" => Settles(f) = {"settings"}
           /\ f.op \notin {"tunables", "settings"} => Settles(f) = {"topology"}
BY DEF Settles

\* What the statement of a request does to the documents.
LEMMA WrittenDocuments ==
    ASSUME store \in Tables, NEW f \in Form, f.op # "refresh"
    PROVE  /\ f.op # "tunables" => Written(f).tunables = store.tunables
           /\ f.op = "tunables" => Written(f).tunables = f.t
           /\ f.op # "settings" => Written(f).settings = store.settings
           /\ f.op = "settings" => Written(f).settings = f.s
<1>1. f.op \in {"promote", "demote", "upsert", "delete", "tunables", "settings"}
  BY DEF Form
<1> QED
  BY <1>1 DEF Written, Tables

\* A fresh process.
LEMMA InitSInv == Init => SInv
<1> SUFFICES ASSUME Init PROVE SInv
  OBVIOUS
<1>1. /\ engine = [topology |-> Topology(store), tunables |-> store.tunables]
      /\ current = store.tunables /\ snap = store.settings
      /\ \A r \in Requests : req[r].pc = "idle"
  BY DEF Init, Idle
<1>2. engine.tunables = store.tunables
  BY <1>1
<1> QED
  BY <1>1, <1>2 DEF SInv, Holds, TunablesSettled, SettingsSettled

\* An error page, before a document is handed over, excuses its copies.
LEMMA FailSInv ==
    ASSUME IInv, SInv, NEW r \in Requests, Fail(r), req[r].pc # "idle",
           ~CarriesTunables(req[r]), ~CarriesSettings(req[r]),
           UNCHANGED <<store, engine, current, snap>>
    PROVE  SInv'
<1>1. RequestsOK
  BY DEF IInv, TypeOK
<1>2. /\ \A q \in Requests : q # r => req'[q] = req[q]
      /\ req'[r].pc = "idle" /\ Excused \subseteq Excused'
  BY <1>1, EndExcuses
<1>3. TunablesSettled => TunablesSettled'
  BY <1>2 DEF TunablesSettled
<1>4. SettingsSettled => SettingsSettled'
  BY <1>2 DEF SettingsSettled
<1>5. Holds(req[r])'
  BY <1>2 DEF Holds
<1> QED
  BY <1>2, <1>3, <1>4, <1>5, MoveSInv

\* A POST arrives.
LEMMA BeginSInv == ASSUME IInv, SInv, NEW r \in Requests, Begin(r) PROVE SInv'
<1>1. PICK f \in Form :
        /\ Validated(f)
        /\ req' = [q \in Requests |->
                     IF q = r
                     THEN [Idle EXCEPT !.pc = IF f.op = "refresh" THEN "listBeacons"
                                              ELSE "write",
                                       !.form = f, !.alone = Quiet]
                     ELSE [req[q] EXCEPT !.alone = req[q].pc = "idle"]]
  BY DEF Begin
<1>2. /\ req[r].pc = "idle"
      /\ UNCHANGED <<store, engine, current, snap, doubt, told>>
  BY DEF Begin
<1>3. \A q \in Requests : q # r =>
         /\ req'[q].pc = req[q].pc /\ req'[q].form = req[q].form
         /\ req'[q].alone = (req[q].pc = "idle")
  BY <1>1 DEF IInv, TypeOK, RequestsOK
<1>4. req'[r].pc \in {"listBeacons", "write"}
  BY <1>1 DEF Idle
<1>5. \A q \in Requests : Holds(req[q])'
  BY <1>3, <1>4 DEF Holds
<1>6. /\ TunablesSettled => TunablesSettled'
      /\ SettingsSettled => SettingsSettled'
  BY <1>2 DEF TunablesSettled, SettingsSettled, Excused
<1>7. \A q \in Requests : /\ CarriesTunables(req[q]) => CarriesTunables(req[q])'
                          /\ CarriesSettings(req[q]) => CarriesSettings(req[q])'
  BY <1>2, <1>3 DEF CarriesTunables, CarriesSettings
<1> QED
  BY <1>5, <1>6, <1>7 DEF SInv

\* The statement.
LEMMA WriteSInv == ASSUME IInv, SInv, NEW r \in Requests, Write(r) PROVE SInv'
<1> DEFINE f == req[r].form
<1>1. /\ req[r].pc = "write"
      /\ UNCHANGED <<engine, current, snap>>
  BY DEF Write
<1>2. /\ f \in Form /\ f.op # "refresh" /\ RequestsOK /\ store \in Tables
  BY <1>1 DEF IInv, TypeOK, RequestsOK, FormOK
<1>3. /\ f.op # "tunables" => Written(f).tunables = store.tunables
      /\ f.op = "tunables" => Written(f).tunables = f.t
      /\ f.op # "settings" => Written(f).settings = store.settings
      /\ f.op = "settings" => Written(f).settings = f.s
  BY <1>2, WrittenDocuments
<1>0. req[r].pc # "idle" /\ ~CarriesTunables(req[r]) /\ ~CarriesSettings(req[r])
  BY <1>1 DEF CarriesTunables, CarriesSettings
<1>4. CASE Refuse(r) /\ UNCHANGED store
  <2>1. req' = [req EXCEPT ![r] = Idle] /\ UNCHANGED <<doubt, told>>
    BY <1>4 DEF Refuse
  <2>2. /\ \A q \in Requests : q # r => req'[q] = req[q]
        /\ req'[r].pc = "idle"
    BY <1>2, <2>1, EndStep
  <2>3. Holds(req[r])'
    BY <2>2 DEF Holds
  <2>4. /\ TunablesSettled => TunablesSettled'
        /\ SettingsSettled => SettingsSettled'
    BY <1>1, <1>4, <2>1 DEF TunablesSettled, SettingsSettled, Excused
  <2> QED
    BY <1>0, <2>2, <2>3, <2>4, MoveSInv
<1>5. CASE store' = Written(f) /\ Goto(r, AfterWrite(f)) /\ UNCHANGED <<doubt, told>>
  <2>1. AfterWrite(f) \in Steps
    BY DEF AfterWrite, Steps
  <2>2. /\ f.op = "tunables" => AfterWrite(f) = "applyTunables"
        /\ f.op = "settings" => AfterWrite(f) = "replaceSnap"
        /\ f.op \notin {"tunables", "settings"} => AfterWrite(f) = "listBeacons"
    BY DEF AfterWrite
  <2>3. /\ \A q \in Requests : q # r => req'[q] = req[q]
        /\ req'[r].pc = AfterWrite(f) /\ req'[r].form = f
        /\ req'[r].alone = req[r].alone
    BY <1>2, <1>5, <2>1, GotoStep DEF Goto
  <2>0. Excused' = Excused
    BY <1>5 DEF Excused
  <2> HIDE DEF f
  <2>4. Holds(req[r])'
    BY <1>3, <1>5, <2>2, <2>3 DEF Holds
  <2>5. TunablesSettled => TunablesSettled' \/ CarriesTunables(req'[r])
    BY <1>1, <1>3, <1>5, <2>0, <2>2, <2>3 DEF TunablesSettled, CarriesTunables
  <2>6. SettingsSettled => SettingsSettled' \/ CarriesSettings(req'[r])
    BY <1>1, <1>3, <1>5, <2>0, <2>2, <2>3 DEF SettingsSettled, CarriesSettings
  <2> QED
    BY <1>0, <2>3, <2>4, <2>5, <2>6, MoveSInv
<1>6. CASE Fail(r) /\ UNCHANGED store
  BY <1>0, <1>1, <1>6, FailSInv
<1>7. CASE store' = Written(f) /\ Fail(r)
  <2>1. /\ \A q \in Requests : q # r => req'[q] = req[q]
        /\ req'[r].pc = "idle" /\ Excused \subseteq Excused'
        /\ Settles(f) \subseteq Excused'
    BY <1>2, <1>7, EndExcuses
  <2> HIDE DEF f
  <2>2. /\ f.op = "tunables" => {"tunables", "current"} \subseteq Excused'
        /\ f.op = "settings" => "settings" \in Excused'
    BY <2>1, WhichCopies
  <2>3. Holds(req[r])'
    BY <2>1 DEF Holds
  <2>4. TunablesSettled => TunablesSettled'
    BY <1>1, <1>3, <1>7, <2>1, <2>2 DEF TunablesSettled
  <2>5. SettingsSettled => SettingsSettled'
    BY <1>1, <1>3, <1>7, <2>1, <2>2 DEF SettingsSettled
  <2> QED
    BY <1>0, <2>1, <2>3, <2>4, <2>5, MoveSInv
<1> QED
  BY <1>4, <1>5, <1>6, <1>7 DEF Write

\* A rebuild, a remove and a reconciliation leave the documents alone.
LEMMA RebuildSInv ==
    ASSUME IInv, SInv, NEW r \in Requests,
           \/ ListBeacons(r) \/ ListZones(r) \/ ApplyTopology(r)
           \/ RemoveEntity(r) \/ ListKnown(r) \/ Reconcile(r)
    PROVE  SInv'
<1> DEFINE Rebuild == {"listBeacons", "listZones", "apply", "remove", "listKnown", "reconcile"}
<1>1. /\ req[r].pc \in Rebuild /\ UNCHANGED <<store, current, snap>>
      /\ engine' = engine \/ engine' = [engine EXCEPT !.topology = req[r].read]
  BY DEF ListBeacons, ListZones, ApplyTopology, RemoveEntity, ListKnown, Reconcile
<1>2. /\ RequestsOK /\ FormOK(req[r]) /\ Rebuild \subseteq Steps
      /\ engine \in [topology : Topologies, tunables : Tunables]
  BY DEF IInv, TypeOK, RequestsOK, Steps
<1>3. engine'.tunables = engine.tunables
  BY <1>1, <1>2
<1>4. /\ req[r].pc # "idle" /\ ~CarriesTunables(req[r]) /\ ~CarriesSettings(req[r])
      /\ req[r].form.op \notin {"tunables", "settings"}
  BY <1>1, <1>2 DEF CarriesTunables, CarriesSettings, FormOK
<1>5. CASE Succeed(r) \/ Fail(r)
  <2>1. /\ \A q \in Requests : q # r => req'[q] = req[q]
        /\ req'[r].pc = "idle" /\ Excused \ {"topology"} \subseteq Excused'
    BY <1>2, <1>4, <1>5, EndExcuses, WhichCopies
  <2>2. Holds(req[r])'
    BY <2>1 DEF Holds
  <2>3. /\ TunablesSettled => TunablesSettled'
        /\ SettingsSettled => SettingsSettled'
    BY <1>1, <1>3, <2>1 DEF TunablesSettled, SettingsSettled
  <2> QED
    BY <1>4, <2>1, <2>2, <2>3, MoveSInv
<1>6. ASSUME UNCHANGED <<doubt, told>>, req'[r].pc \in Rebuild,
             \A q \in Requests : q # r => req'[q] = req[q],
             req'[r].alone = req[r].alone
      PROVE  SInv'
  <2>1. Holds(req[r])'
    BY <1>6 DEF Holds
  <2>2. /\ TunablesSettled => TunablesSettled'
        /\ SettingsSettled => SettingsSettled'
    BY <1>1, <1>3, <1>6 DEF TunablesSettled, SettingsSettled, Excused
  <2> QED
    BY <1>4, <1>6, <2>1, <2>2, MoveSInv
<1>7. ASSUME NEW pc \in Rebuild, UNCHANGED <<doubt, told>>, Goto(r, pc)
      PROVE  SInv'
  <2>1. /\ \A q \in Requests : q # r => req'[q] = req[q]
        /\ req'[r].pc = pc /\ req'[r].alone = req[r].alone
    BY <1>2, <1>7, GotoStep DEF Goto
  <2> QED
    BY <1>6, <1>7, <2>1
<1>8. ASSUME NEW pc \in Rebuild, NEW v, UNCHANGED <<doubt, told>>,
             req' = [req EXCEPT ![r].pc = pc, ![r].read = v]
      PROVE  SInv'
  <2>1. /\ \A q \in Requests : q # r => req'[q] = req[q]
        /\ req'[r].pc = pc /\ req'[r].alone = req[r].alone
    BY <1>2, <1>8, ReadStep
  <2> QED
    BY <1>6, <1>8, <2>1
<1>9. CASE ListBeacons(r) \/ ListZones(r)
  BY <1>5, <1>8, <1>9 DEF ListBeacons, ListZones
<1>10. CASE ApplyTopology(r)
  BY <1>5, <1>7, <1>10 DEF ApplyTopology
<1>11. CASE RemoveEntity(r) \/ ListKnown(r) \/ Reconcile(r)
  BY <1>5, <1>7, <1>11 DEF RemoveEntity, ListKnown, Reconcile
<1> QED
  BY <1>9, <1>10, <1>11

\* The documents are handed over, the tunables to the engine and then to the
\* server.
LEMMA DocumentsSInv ==
    ASSUME IInv, SInv, NEW r \in Requests,
           ApplyTunables(r) \/ ReplaceCurrent(r) \/ ReplaceSnap(r)
    PROVE  SInv'
<1> DEFINE f == req[r].form
<1>1. RequestsOK /\ FormOK(req[r]) /\ engine \in [topology : Topologies, tunables : Tunables]
  BY DEF IInv, TypeOK, RequestsOK
<1>2. Holds(req[r])
  BY DEF SInv
<1>3. CASE ApplyTunables(r)
  <2>1. /\ req[r].pc = "applyTunables" /\ engine' = [engine EXCEPT !.tunables = f.t]
        /\ req' = [req EXCEPT ![r].pc = "replaceCurrent"]
        /\ UNCHANGED <<store, current, snap, doubt, told>>
    BY <1>3 DEF ApplyTunables, Goto
  <2>2. engine'.tunables = f.t /\ "replaceCurrent" \in Steps
    BY <1>1, <2>1 DEF Steps
  <2>3. /\ \A q \in Requests : q # r => req'[q] = req[q]
        /\ req'[r].pc = "replaceCurrent" /\ req'[r].form = f
        /\ req'[r].alone = req[r].alone
    BY <1>1, <2>1, <2>2, GotoStep
  <2>4. Holds(req[r])'
    BY <1>2, <2>1, <2>2, <2>3 DEF Holds
  <2>5. CarriesTunables(req'[r]) /\ ~CarriesSettings(req[r]) /\ req[r].pc # "idle"
    BY <2>1, <2>3 DEF CarriesTunables, CarriesSettings
  <2>6. SettingsSettled => SettingsSettled'
    BY <2>1 DEF SettingsSettled, Excused
  <2> QED
    BY <2>3, <2>4, <2>5, <2>6, MoveSInv
<1>4. CASE ReplaceCurrent(r)
  <2>1. /\ req[r].pc = "replaceCurrent" /\ current' = f.t /\ Succeed(r)
        /\ UNCHANGED <<store, engine, snap>>
    BY <1>4 DEF ReplaceCurrent
  <2>2. f.op = "tunables" /\ Settles(f) = {"tunables", "current"}
    BY <1>1, <2>1, WhichCopies DEF FormOK
  <2>3. /\ \A q \in Requests : q # r => req'[q] = req[q]
        /\ req'[r].pc = "idle"
        /\ ~req[r].alone => {"tunables", "current"} \subseteq Excused'
        /\ Excused \ {"tunables", "current"} \subseteq Excused'
    BY <1>1, <2>1, <2>2, EndExcuses
  <2>4. TunablesSettled'
    BY <1>2, <2>1, <2>3 DEF Holds, TunablesSettled
  <2>5. /\ SettingsSettled => SettingsSettled'
        /\ ~CarriesSettings(req[r]) /\ req[r].pc # "idle"
    BY <2>1, <2>3 DEF SettingsSettled, CarriesSettings
  <2>6. Holds(req[r])'
    BY <2>3 DEF Holds
  <2> QED
    BY <2>3, <2>4, <2>5, <2>6, MoveSInv
<1>5. CASE ReplaceSnap(r)
  <2>1. /\ req[r].pc = "replaceSnap" /\ snap' = f.s /\ Succeed(r)
        /\ UNCHANGED <<store, engine, current>>
    BY <1>5 DEF ReplaceSnap
  <2>2. f.op = "settings" /\ Settles(f) = {"settings"}
    BY <1>1, <2>1, WhichCopies DEF FormOK
  <2>3. /\ \A q \in Requests : q # r => req'[q] = req[q]
        /\ req'[r].pc = "idle"
        /\ ~req[r].alone => "settings" \in Excused'
        /\ Excused \ {"settings"} \subseteq Excused'
    BY <1>1, <2>1, <2>2, EndExcuses
  <2>4. SettingsSettled'
    BY <1>2, <2>1, <2>3 DEF Holds, SettingsSettled
  <2>5. /\ TunablesSettled => TunablesSettled'
        /\ ~CarriesTunables(req[r]) /\ req[r].pc # "idle"
    BY <2>1, <2>3 DEF TunablesSettled, CarriesTunables
  <2>6. Holds(req[r])'
    BY <2>3 DEF Holds
  <2> QED
    BY <2>3, <2>4, <2>5, <2>6, MoveSInv
<1> QED
  BY <1>3, <1>4, <1>5

\* A restart loads the documents from the tables.
LEMMA RestartSInv == ASSUME Restart PROVE SInv'
<1>1. /\ engine' = [topology |-> Topology(store), tunables |-> store.tunables]
      /\ current' = store.tunables /\ snap' = store.settings
      /\ \A r \in Requests : req'[r].pc = "idle"
      /\ store' = store
  BY DEF Restart, Boot, Idle
<1>2. engine'.tunables = store.tunables
  BY <1>1
<1> QED
  BY <1>1, <1>2 DEF SInv, Holds, TunablesSettled, SettingsSettled

\* Every step keeps the second invariant.
LEMMA NextSInv == IInv /\ SInv /\ [Next]_vars => SInv'
<1> SUFFICES ASSUME IInv, SInv, [Next]_vars PROVE SInv'
  OBVIOUS
<1>1. ASSUME NEW r \in Requests, Begin(r) \/ Write(r)
      PROVE  SInv'
  BY <1>1, BeginSInv, WriteSInv
<1>2. ASSUME NEW r \in Requests,
             \/ ListBeacons(r) \/ ListZones(r) \/ ListKnown(r) \/ ApplyTopology(r)
             \/ RemoveEntity(r) \/ Reconcile(r)
      PROVE  SInv'
  BY <1>2, RebuildSInv
<1>3. ASSUME NEW r \in Requests, ApplyTunables(r) \/ ReplaceCurrent(r) \/ ReplaceSnap(r)
      PROVE  SInv'
  BY <1>3, DocumentsSInv
<1>4. CASE UNCHANGED vars
  BY <1>4 DEF vars, SInv, Holds, TunablesSettled, SettingsSettled, Excused,
              CarriesTunables, CarriesSettings
<1> QED
  BY <1>1, <1>2, <1>3, <1>4, RestartSInv DEF Next

\* The second invariant holds in every reachable state.
THEOREM SInvHolds == Spec => []SInv
BY InitSInv, NextSInv, IInvHolds, PTL DEF Spec

\* With no request in progress every copy of the tunables and the settings is
\* the tables', unless requests overlapped or an operator was told of a failure.
THEOREM DocumentsAlwaysFollow == Spec => []DocumentsFollowStore
<1>1. SInv => DocumentsFollowStore
  BY DEF SInv, DocumentsFollowStore, Quiet, TunablesSettled, SettingsSettled,
         CarriesTunables, CarriesSettings
<1> QED
  BY <1>1, SInvHolds, PTL
=============================================================================
