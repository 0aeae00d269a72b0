------------------------ MODULE PresenceEngineProofs ------------------------
(***************************************************************************)
(* Proofs about the presence engine for every set of beacons, APs, names,  *)
(* labels and readings, every validated configuration and every clock      *)
(* bound.                                                                  *)
(***************************************************************************)
EXTENDS PresenceEngine, TLAPS

-----------------------------------------------------------------------------
(* Configuration.                                                          *)

\* The merge of validated defaults with validated overrides is valid.
LEMMA ResolveForValid ==
    ASSUME NEW t, ValidTunables(t), NEW n \in Names
    PROVE  ResolveFor(t, n) \in Resolved
<1>1. \A f \in TunableFields : ResolveFor(t, n)[f] \in Int
                               /\ ValidField(f, ResolveFor(t, n)[f])
  BY DEF ValidTunables, ResolveFor, Resolved
<1>2. ResolveFor(t, n) \in [TunableFields -> Int]
  BY <1>1 DEF ResolveFor
<1> QED
  BY <1>1, <1>2 DEF Resolved

\* The bounds of the fields the engine reads.
LEMMA ResolvedFields ==
    ASSUME NEW r \in Resolved
    PROVE  /\ r.alpha \in 1..AlphaUnit
           /\ r.grace \in Nat /\ r.decay \in Nat /\ r.sticky \in Nat
           /\ r.hysteresis \in Nat /\ r.floor \in Int
           /\ r.tAwayMax \in Nat \ {0} /\ r.confirm \in Nat \ {0}
<1>1. \A f \in TunableFields : r[f] \in Int /\ ValidField(f, r[f])
  BY DEF Resolved
<1>2. ValidField("alpha", r.alpha) /\ ValidField("grace", r.grace)
      /\ ValidField("decay", r.decay) /\ ValidField("sticky", r.sticky)
  BY <1>1 DEF TunableFields
<1>3. ValidField("hysteresis", r.hysteresis) /\ ValidField("tAwayMax", r.tAwayMax)
      /\ ValidField("confirm", r.confirm) /\ r.floor \in Int
  BY <1>1 DEF TunableFields
<1> QED
  BY <1>2, <1>3 DEF ValidField

-----------------------------------------------------------------------------
(* One beacon.                                                             *)

\* The smoothed reading is an integer.
LEMMA SmoothType ==
    ASSUME NEW old \in Int, NEW raw \in Int, NEW r \in Resolved
    PROVE  Smooth(old, raw, r) \in Int
<1>0. AlphaUnit \in Int /\ AlphaUnit > 0
  BY NumbersAssumption
<1>a. r.alpha \in 1..AlphaUnit
  BY ResolvedFields
<1>1. r.alpha \in Int /\ AlphaUnit \in Int /\ AlphaUnit > 0
  BY <1>0, <1>a
<1>2. r.alpha * raw + (AlphaUnit - r.alpha) * old \in Int
  BY <1>1
<1> QED
  BY <1>1, <1>2 DEF Smooth

\* Recording a sighting keeps a beacon well-formed and backed.
LEMMA SightOK ==
    ASSUME NEW t \in Nat, NEW bs, BeaconOK(bs, t), Backed(bs),
           NEW ap \in APs, NEW rssi \in RSSIs, NEW r \in Resolved
    PROVE  /\ BeaconOK(Sight(bs, ap, rssi, r, t), t)
           /\ Backed(Sight(bs, ap, rssi, r, t))
           /\ Sight(bs, ap, rssi, r, t).currentZone = bs.currentZone
           /\ Sight(bs, ap, rssi, r, t).lastArrivalTs = bs.lastArrivalTs
           /\ Sight(bs, ap, rssi, r, t).name = bs.name
<1> DEFINE ewma == IF ap \in DOMAIN bs.perAP
                   THEN Smooth(bs.perAP[ap].ewma, rssi, r) ELSE rssi
           new  == [ewma |-> ewma, lastSightingTs |-> t]
           aps  == [a \in DOMAIN bs.perAP \cup {ap} |->
                       IF a = ap THEN new ELSE bs.perAP[a]]
           s    == Sight(bs, ap, rssi, r, t)
<1>1. ewma \in Int
  BY SmoothType, NumbersAssumption DEF BeaconOK, APState
<1>2. new \in APState /\ new.lastSightingTs <= t
  BY <1>1 DEF APState
<1>3. s = [bs EXCEPT !.perAP = aps]
  BY DEF Sight
<1> HIDE DEF new, s
<1>4. /\ DOMAIN aps \subseteq APs /\ DOMAIN bs.perAP \subseteq DOMAIN aps
      /\ \A a \in DOMAIN aps : aps[a] \in APState /\ aps[a].lastSightingTs <= t
  BY <1>2 DEF BeaconOK
<1> HIDE DEF aps
<1>5. /\ DOMAIN s = BeaconFields /\ s.perAP = aps /\ s.name = bs.name
      /\ s.currentZone = bs.currentZone /\ s.currentAP = bs.currentAP
      /\ s.lastArrivalTs = bs.lastArrivalTs
      /\ s.candidateAP = bs.candidateAP /\ s.candidateCount = bs.candidateCount
  BY <1>3 DEF BeaconOK, BeaconFields
<1>6. BeaconOK(s, t)
  BY <1>4, <1>5 DEF BeaconOK
<1>7. Backed(s)
  BY <1>4, <1>5 DEF Backed
<1> QED
  BY <1>5, <1>6, <1>7 DEF s

\* Publishing a zone with its AP, or neither, keeps a beacon well-formed and
\* backed, and touches nothing but the published state and the candidate.
LEMMA SwitchToOK ==
    ASSUME NEW t \in Nat, NEW bs, BeaconOK(bs, t),
           NEW zone \in Labels \cup {None}, NEW ap \in APs \cup {None},
           zone = None <=> ap = None
    PROVE  /\ BeaconOK(SwitchTo(bs, zone, ap), t)
           /\ Backed(SwitchTo(bs, zone, ap))
           /\ SwitchTo(bs, zone, ap).currentZone = zone
           /\ SwitchTo(bs, zone, ap).lastArrivalTs = bs.lastArrivalTs
           /\ SwitchTo(bs, zone, ap).name = bs.name
           /\ SwitchTo(bs, zone, ap).perAP = bs.perAP
<1> DEFINE s == SwitchTo(bs, zone, ap)
<1>1. /\ DOMAIN s = BeaconFields /\ s.perAP = bs.perAP /\ s.name = bs.name
      /\ s.currentZone = zone /\ s.currentAP = ap
      /\ s.lastArrivalTs = bs.lastArrivalTs
      /\ s.candidateAP = None /\ s.candidateCount = 0
  BY DEF BeaconOK, BeaconFields, SwitchTo, ResetCandidate
<1> HIDE DEF s
<1>2. BeaconOK(s, t)
  BY <1>1 DEF BeaconOK
<1>3. Backed(s)
  BY <1>1 DEF Backed
<1> QED
  BY <1>1, <1>2, <1>3 DEF s

\* What every outcome of recomputeOne has in common: a well-formed, backed
\* state of the same beacon; a change of zone is emitted; a departure is
\* outside the sticky window; an arrival restarts the window, and nothing
\* else does.
Outcome(bs, r, t, res) ==
    /\ BeaconOK(res.bs, t)
    /\ Backed(res.bs)
    /\ res.bs.name = bs.name
    /\ res.emit \in BOOLEAN
    /\ res.bs.currentZone # bs.currentZone => res.emit
    /\ bs.currentZone # None /\ res.bs.currentZone = None
          => t - bs.lastArrivalTs >= r.sticky
    /\ IF bs.currentZone = None /\ res.bs.currentZone # None
       THEN res.bs.lastArrivalTs = t
       ELSE res.bs.lastArrivalTs = bs.lastArrivalTs

\* Keeping the beacon as it is is such an outcome.
LEMMA QuietOutcome ==
    ASSUME NEW t \in Nat, NEW bs, BeaconOK(bs, t), Backed(bs),
           NEW r \in Resolved
    PROVE  Outcome(bs, r, t, Quiet(bs))
BY DEF Outcome, Quiet

\* So is forgetting the candidate.
LEMMA ResetOutcome ==
    ASSUME NEW t \in Nat, NEW bs, BeaconOK(bs, t), Backed(bs),
           NEW r \in Resolved
    PROVE  Outcome(bs, r, t, Quiet(ResetCandidate(bs)))
<1> DEFINE s == ResetCandidate(bs)
<1>1. /\ DOMAIN s = BeaconFields /\ s.perAP = bs.perAP /\ s.name = bs.name
      /\ s.currentZone = bs.currentZone /\ s.currentAP = bs.currentAP
      /\ s.lastArrivalTs = bs.lastArrivalTs
      /\ s.candidateAP = None /\ s.candidateCount = 0
  BY DEF BeaconOK, BeaconFields, ResetCandidate
<1> HIDE DEF s
<1>2. BeaconOK(s, t)
  BY <1>1 DEF BeaconOK
<1>3. Backed(s)
  BY <1>1 DEF Backed
<1> QED
  BY <1>1, <1>2, <1>3 DEF Outcome, Quiet, s

\* And so is a move of a published beacon to a zone with a label.
LEMMA MoveOutcome ==
    ASSUME NEW t \in Nat, NEW bs, BeaconOK(bs, t), bs.currentZone # None,
           NEW r \in Resolved, NEW zone \in Labels, NEW ap \in APs,
           NEW e \in BOOLEAN, zone # bs.currentZone => e
    PROVE  Outcome(bs, r, t, [bs |-> SwitchTo(bs, zone, ap), emit |-> e])
<1>1. zone # None /\ ap # None
  BY EmptyAssumption
<1>a. zone \in Labels \cup {None} /\ ap \in APs \cup {None} /\ (zone = None <=> ap = None)
  BY <1>1
<1>2. /\ BeaconOK(SwitchTo(bs, zone, ap), t)
      /\ Backed(SwitchTo(bs, zone, ap))
      /\ SwitchTo(bs, zone, ap).currentZone = zone
      /\ SwitchTo(bs, zone, ap).lastArrivalTs = bs.lastArrivalTs
      /\ SwitchTo(bs, zone, ap).name = bs.name
  BY <1>a, SwitchToOK
<1> QED
  BY <1>1, <1>2 DEF Outcome

\* A departure, which NoPresence only grants outside the sticky window.
LEMMA NoPresenceOutcome ==
    ASSUME NEW t \in Nat, NEW bs, BeaconOK(bs, t), Backed(bs),
           NEW r \in Resolved
    PROVE  Outcome(bs, r, t, NoPresence(bs, r, t))
<1>1. CASE bs.currentZone = None \/ StickyActive(bs, r, t)
  BY <1>1, QuietOutcome DEF NoPresence
<1>2. CASE ~(bs.currentZone = None \/ StickyActive(bs, r, t))
  <2>1. NoPresence(bs, r, t) = Publish(Depart(bs))
    BY <1>2 DEF NoPresence
  <2>2. /\ BeaconOK(Depart(bs), t) /\ Backed(Depart(bs))
        /\ Depart(bs).currentZone = None
        /\ Depart(bs).lastArrivalTs = bs.lastArrivalTs
        /\ Depart(bs).name = bs.name
    BY SwitchToOK DEF Depart
  <2>3. bs.lastArrivalTs \in Int /\ r.sticky \in Int
    BY ResolvedFields DEF BeaconOK
  <2>4. t - bs.lastArrivalTs >= r.sticky
    BY <1>2, <2>3 DEF StickyActive
  <2> QED
    BY <1>2, <2>1, <2>2, <2>4 DEF Outcome, Publish
<1> QED
  BY <1>1, <1>2

\* An arrival, which starts the sticky window.
LEMMA ArriveOutcome ==
    ASSUME NEW t \in Nat, NEW bs, BeaconOK(bs, t), bs.currentZone = None,
           NEW r \in Resolved, NEW zone \in Labels, NEW ap \in APs
    PROVE  Outcome(bs, r, t, Arrive(bs, zone, ap, t))
<1> DEFINE m == SwitchTo(bs, zone, ap)
           s == [m EXCEPT !.lastArrivalTs = t]
<1>1. zone # None /\ ap # None
  BY EmptyAssumption
<1>2. /\ BeaconOK(m, t) /\ Backed(m)
      /\ m.currentZone = zone /\ m.name = bs.name /\ m.perAP = bs.perAP
  BY <1>1, SwitchToOK
<1> HIDE DEF m
<1>3. /\ DOMAIN s = BeaconFields /\ s.perAP = m.perAP /\ s.name = m.name
      /\ s.currentZone = m.currentZone /\ s.currentAP = m.currentAP
      /\ s.lastArrivalTs = t
      /\ s.candidateAP = m.candidateAP /\ s.candidateCount = m.candidateCount
  BY <1>2 DEF BeaconOK, BeaconFields
<1> HIDE DEF s
<1>4. BeaconOK(s, t) /\ Backed(s)
  BY <1>2, <1>3 DEF BeaconOK, Backed
<1>5. Arrive(bs, zone, ap, t) = [bs |-> s, emit |-> TRUE]
  BY DEF Arrive, Publish, s, m
<1> QED
  BY <1>1, <1>2, <1>3, <1>4, <1>5 DEF Outcome

\* Counting one more confirmation for an AP other than the backing one.
LEMMA ConfirmOutcome ==
    ASSUME NEW t \in Nat, NEW bs, BeaconOK(bs, t), Backed(bs),
           bs.currentZone # None, NEW r \in Resolved,
           NEW zone \in Labels, NEW ap \in DOMAIN bs.perAP,
           ap # bs.currentAP
    PROVE  Outcome(bs, r, t, Confirm(bs, r, zone, ap))
<1> DEFINE n == IF bs.candidateAP = ap THEN bs.candidateCount + 1 ELSE 1
           s == [bs EXCEPT !.candidateAP = ap, !.candidateCount = n]
<1>1. ap \in APs /\ ap # None /\ n \in Nat /\ n # 0 /\ bs.currentAP # None
  BY EmptyAssumption DEF BeaconOK, Backed
<1>2. CASE n < r.confirm
  <2> HIDE DEF n
  <2>1. /\ DOMAIN s = BeaconFields /\ s.perAP = bs.perAP /\ s.name = bs.name
        /\ s.currentZone = bs.currentZone /\ s.currentAP = bs.currentAP
        /\ s.lastArrivalTs = bs.lastArrivalTs
        /\ s.candidateAP = ap /\ s.candidateCount = n
    BY DEF BeaconOK, BeaconFields
  <2> HIDE DEF s
  <2>2. BeaconOK(s, t)
    BY <1>1, <2>1 DEF BeaconOK
  <2>3. Backed(s)
    BY <1>1, <2>1 DEF Backed
  <2>4. Confirm(bs, r, zone, ap) = [bs |-> s, emit |-> FALSE]
    BY <1>2 DEF Confirm, Quiet, s, n
  <2> QED
    BY <2>1, <2>2, <2>3, <2>4 DEF Outcome
<1>3. CASE ~(n < r.confirm)
  <2>1. Confirm(bs, r, zone, ap) = [bs |-> SwitchTo(bs, zone, ap), emit |-> TRUE]
    BY <1>3 DEF Confirm, Publish
  <2> QED
    BY <1>1, <2>1, MoveOutcome
<1> QED
  BY <1>2, <1>3

\* Every branch of recomputeOne has such an outcome.
LEMMA RecomputeOutcome ==
    ASSUME NEW t \in Nat, NEW bs, BeaconOK(bs, t), Backed(bs),
           NEW r \in Resolved, NEW zones \in [APs -> Labels \cup {None}],
           NEW sighting \in BOOLEAN, NEW ap \in closestInPresence(bs, r, t)
    PROVE  Outcome(bs, r, t, recomputeOne(bs, r, zones, t, sighting, ap))
<1> DEFINE res == recomputeOne(bs, r, zones, t, sighting, ap)
<1>1. CASE ap = None \/ ForceAway(bs, r, t)
  BY <1>1, NoPresenceOutcome DEF recomputeOne
<1>2. CASE ~(ap = None \/ ForceAway(bs, r, t)) /\ zones[ap] = None
  BY <1>2, QuietOutcome DEF recomputeOne
<1>3. CASE ~(ap = None \/ ForceAway(bs, r, t)) /\ zones[ap] # None
  <2>1. ap \in DOMAIN bs.perAP /\ ap \in APs
    BY <1>3 DEF closestInPresence, InPresence, BeaconOK
  <2>2. zones[ap] \in Labels
    BY <1>3, <2>1
  <2>3. CASE bs.currentZone = None
    BY <1>3, <2>1, <2>2, <2>3, ArriveOutcome DEF recomputeOne
  <2>4. CASE bs.currentZone # None
    <3>1. res = InZone(bs, r, zones[ap], ap, t, sighting)
      BY <1>3, <2>4 DEF recomputeOne
    <3>2. CASE CurrentFaded(bs, r, t)
      BY <3>1, <3>2, <2>1, <2>2, <2>4, MoveOutcome DEF InZone, Publish
    <3>3. CASE ~CurrentFaded(bs, r, t) /\ ap = bs.currentAP
      <4>1. res = [bs |-> SwitchTo(bs, zones[ap], ap),
                   emit |-> zones[ap] # bs.currentZone]
        BY <3>1, <3>3 DEF InZone
      <4> QED
        BY <4>1, <2>1, <2>2, <2>4, MoveOutcome
    <3>4. CASE /\ ~CurrentFaded(bs, r, t) /\ ap # bs.currentAP
               /\ zones[ap] = bs.currentZone
      BY <3>1, <3>4, ResetOutcome DEF InZone
    <3>5. CASE /\ ~CurrentFaded(bs, r, t) /\ ap # bs.currentAP
               /\ zones[ap] # bs.currentZone
      <4>1. res = Hysteresis(bs, r, zones[ap], ap, t, sighting)
        BY <3>1, <3>5 DEF InZone
      <4>2. res \in {Quiet(bs), Quiet(ResetCandidate(bs)),
                     Confirm(bs, r, zones[ap], ap)}
        BY <4>1 DEF Hysteresis
      <4> QED
        BY <4>2, <3>5, <2>1, <2>2, <2>4, QuietOutcome, ResetOutcome, ConfirmOutcome
    <3> QED
      BY <3>2, <3>3, <3>4, <3>5
  <2> QED
    BY <2>3, <2>4
<1> QED
  BY <1>1, <1>2, <1>3

\* ApplyTopology's pass has such an outcome too, and neither sends a beacon
\* away nor makes it arrive.
LEMMA RelabelOutcome ==
    ASSUME NEW t \in Nat, NEW bs, BeaconOK(bs, t), Backed(bs),
           NEW r \in Resolved, NEW zones \in [APs -> Labels \cup {None}],
           NEW ap \in closestInPresence(bs, r, t)
    PROVE  /\ Outcome(bs, r, t, Relabel(bs, zones, ap))
           /\ bs.currentZone = None <=> Relabel(bs, zones, ap).bs.currentZone = None
           /\ bs.currentZone = None => ~Relabel(bs, zones, ap).emit
<1> DEFINE res == Relabel(bs, zones, ap)
<1>1. CASE bs.currentZone = None \/ ap = None
  BY <1>1, QuietOutcome DEF Relabel, Quiet
<1>2. CASE /\ ~(bs.currentZone = None \/ ap = None)
           /\ zones[ap] \in {None, bs.currentZone}
  BY <1>2, QuietOutcome DEF Relabel, Quiet
<1>3. CASE /\ ~(bs.currentZone = None \/ ap = None)
           /\ zones[ap] \notin {None, bs.currentZone}
  <2>1. ap \in APs
    BY <1>3 DEF closestInPresence, InPresence, BeaconOK
  <2>2. zones[ap] \in Labels /\ zones[ap] # None
    BY <1>3, <2>1
  <2>3. res = [bs |-> SwitchTo(bs, zones[ap], ap), emit |-> TRUE]
    BY <1>3 DEF Relabel, Publish
  <2>a. bs.currentZone # None
    BY <1>3
  <2>b. Outcome(bs, r, t, [bs |-> SwitchTo(bs, zones[ap], ap), emit |-> TRUE])
    BY <2>1, <2>2, <2>a, MoveOutcome
  <2>4. Outcome(bs, r, t, res)
    BY <2>3, <2>b
  <2>5. res.bs.currentZone = zones[ap]
    BY <2>1, <2>2, <2>3, SwitchToOK, EmptyAssumption
  <2> QED
    BY <1>3, <2>2, <2>4, <2>5
<1> QED
  BY <1>1, <1>2, <1>3

-----------------------------------------------------------------------------
(* The inductive invariant.                                                *)

Inv == TypeOK /\ ConfigCoherent /\ BackingCoherent /\ EmittedIsCurrent

\* Every tracked beacon finds its tunables, and they are valid.
LEMMA ResType ==
    ASSUME Inv, NEW b \in Tracked
    PROVE  Res(b) \in Resolved /\ beacons[b].name \in DOMAIN resolved
<1>1. beacons[b].name \in BeaconNames(top)
  BY DEF Inv, ConfigCoherent, BeaconNames
<1>2. DOMAIN resolved = BeaconNames(top)
  BY DEF Inv, ConfigCoherent
<1> QED
  BY <1>1, <1>2 DEF Inv, TypeOK, Res

\* A new or empty beacon state is well-formed.
LEMMA NewBeaconOK ==
    ASSUME NEW t \in Nat, NEW n \in Names
    PROVE  /\ BeaconOK(NewBeaconState(n), t) /\ Backed(NewBeaconState(n))
           /\ NewBeaconState(n).name = n /\ NewBeaconState(n).currentZone = None
           /\ NewBeaconState(n).perAP = [a \in {} |-> 0]
<1> DEFINE s == NewBeaconState(n)
<1>1. /\ DOMAIN s = BeaconFields /\ s.perAP = [a \in {} |-> 0] /\ s.name = n
      /\ s.currentZone = None /\ s.currentAP = None /\ s.lastArrivalTs = 0
      /\ s.candidateAP = None /\ s.candidateCount = 0
  BY DEF NewBeaconState, BeaconFields
<1> HIDE DEF s
<1>2. DOMAIN s.perAP = {}
  BY <1>1
<1>3. BeaconOK(s, t)
  BY <1>1, <1>2 DEF BeaconOK
<1>4. Backed(s)
  BY <1>1 DEF Backed
<1> QED
  BY <1>1, <1>3, <1>4 DEF s

\* The configuration half of a boot or of a topology refresh.
LEMMA NewEngineOK ==
    ASSUME NEW t \in Topologies, NEW u, ValidTunables(u), NewEngine(t, u)
    PROVE  /\ ValidTopology(top)' /\ ValidTunables(tun)'
           /\ \A n \in DOMAIN resolved' : resolved'[n] \in Resolved
           /\ resolved' = [n \in BeaconNames(top') |-> ResolveFor(tun', n)]
           /\ BeaconNames(t) \subseteq Names
<1>1. ValidTopology(t)
  BY InputsAssumption
<1>2. BeaconNames(t) \subseteq Names
  BY <1>1 DEF ValidTopology, BeaconNames
<1>3. top' = t /\ tun' = u /\ resolved' = [n \in BeaconNames(t) |-> ResolveFor(u, n)]
  BY DEF NewEngine
<1>4. \A n \in BeaconNames(t) : ResolveFor(u, n) \in Resolved
  BY <1>2, ResolveForValid
<1> QED
  BY <1>1, <1>2, <1>3, <1>4 DEF ValidTopology, ValidTunables

\* The invariant holds after the first boot.
LEMMA InitInv == Init => Inv
<1> SUFFICES ASSUME Init PROVE Inv
  OBVIOUS
<1>1. ValidTopology(top) /\ ValidTunables(tun) /\ now = 0
  BY InputsAssumption DEF Init
<1>2. \A b \in DOMAIN top.beacons : top.beacons[b] \in Names
  BY <1>1 DEF ValidTopology
<1>3. DOMAIN beacons = DOMAIN top.beacons
      /\ \A b \in Tracked : beacons[b] = NewBeaconState(top.beacons[b])
  BY DEF Init, Tracked
<1>4. \A b \in Tracked : /\ BeaconOK(beacons[b], now) /\ Backed(beacons[b])
                         /\ beacons[b].name = top.beacons[b]
  BY <1>1, <1>2, <1>3, NewBeaconOK DEF Tracked
<1>5. \A n \in BeaconNames(top) : ResolveFor(tun, n) \in Resolved
  BY <1>1, <1>2, ResolveForValid DEF BeaconNames
<1>6. TypeOK
  <2>1. DOMAIN saved = {}
    BY DEF Init, NoRows
  <2>2. \A n \in DOMAIN resolved : resolved[n] \in Resolved
    BY <1>5 DEF Init
  <2>3. DOMAIN emitted = Tracked /\ \A b \in Tracked : emitted[b] = NoEvent
    BY <1>3 DEF Init, Tracked
  <2> QED
    BY <1>1, <1>4, <2>1, <2>2, <2>3 DEF TypeOK
<1>7. ConfigCoherent
  BY <1>3, <1>4 DEF ConfigCoherent, Tracked, Init
<1>8. BackingCoherent
  BY <1>4 DEF BackingCoherent, Init, NoRows
<1>9. EmittedIsCurrent
  BY <1>3 DEF EmittedIsCurrent, Init, Tracked
<1> QED
  BY <1>6, <1>7, <1>8, <1>9 DEF Inv

\* What a step must establish about the tracked beacons, given that the
\* configuration is in order.
LEMMA InvFromParts ==
    ASSUME Inv, now' \in Nat,
           ValidTopology(top)', ValidTunables(tun)',
           \A n \in DOMAIN resolved' : resolved'[n] \in Resolved,
           resolved' = [n \in BeaconNames(top') |-> ResolveFor(tun', n)],
           DOMAIN beacons' = DOMAIN top'.beacons, DOMAIN emitted' = DOMAIN beacons',
           \A b \in DOMAIN beacons' :
               /\ BeaconOK(beacons'[b], now') /\ Backed(beacons'[b])
               /\ beacons'[b].name = top'.beacons[b]
               /\ emitted'[b] \in {NoEvent, beacons'[b].currentZone},
           saved' = saved
    PROVE  Inv'
<1>1. \A b \in DOMAIN beacons' : emitted'[b] \in Labels \cup {None, NoEvent}
  BY DEF BeaconOK
<1>2. TypeOK'
  BY <1>1 DEF Inv, TypeOK, Tracked
<1>3. ConfigCoherent'
  BY DEF ConfigCoherent, Tracked
<1>4. BackingCoherent'
  BY DEF Inv, BackingCoherent, Tracked
<1>5. EmittedIsCurrent'
  BY DEF EmittedIsCurrent, Tracked
<1> QED
  BY <1>2, <1>3, <1>4, <1>5 DEF Inv

-----------------------------------------------------------------------------
(* Sightings and ticks.                                                    *)

\* The step takes beacon b to an outcome of recomputeOne, and records what is
\* emitted for it.
Evolves(b) ==
    \E e \in BOOLEAN :
        /\ Outcome(beacons[b], Res(b), now, [bs |-> beacons'[b], emit |-> e])
        /\ emitted'[b] = IF e THEN beacons'[b].currentZone ELSE emitted[b]

Unconfigured == UNCHANGED <<now, top, tun, resolved, saved>>

\* A sighting takes its beacon to such an outcome and leaves the others alone.
LEMMA SubmitEvolves ==
    ASSUME Inv, NEW b \in Beacons, NEW ap \in APs, NEW rssi \in RSSIs,
           Submit(b, ap, rssi)
    PROVE  /\ DOMAIN beacons' = Tracked /\ DOMAIN emitted' = Tracked
           /\ Unconfigured
           /\ \A c \in Tracked : Evolves(c)
<1> DEFINE seen == Sight(beacons[b], ap, rssi, Res(b), now)
<1>1. b \in Tracked /\ Unconfigured
  BY DEF Submit, Unconfigured
<1>2. PICK k \in closestInPresence(seen, Res(b), now) :
        LET result == recomputeOne(seen, Res(b), top.zones, now, TRUE, k)
        IN  /\ beacons' = [beacons EXCEPT ![b] = result.bs]
            /\ emitted' = IF result.emit
                          THEN [emitted EXCEPT ![b] = result.bs.currentZone]
                          ELSE emitted
  BY DEF Submit
<1> DEFINE result == recomputeOne(seen, Res(b), top.zones, now, TRUE, k)
<1>3. now \in Nat /\ Res(b) \in Resolved /\ BeaconOK(beacons[b], now)
      /\ Backed(beacons[b]) /\ top.zones \in [APs -> Labels \cup {None}]
  BY <1>1, ResType DEF Inv, TypeOK, BackingCoherent, ValidTopology
<1>4. /\ BeaconOK(seen, now) /\ Backed(seen)
      /\ seen.currentZone = beacons[b].currentZone
      /\ seen.lastArrivalTs = beacons[b].lastArrivalTs
      /\ seen.name = beacons[b].name
  BY <1>3, SightOK
<1> HIDE DEF seen
<1>5. Outcome(seen, Res(b), now, result)
  BY <1>3, <1>4, RecomputeOutcome
<1>6. beacons' = [beacons EXCEPT ![b] = result.bs]
      /\ emitted' = IF result.emit THEN [emitted EXCEPT ![b] = result.bs.currentZone]
                    ELSE emitted
  BY <1>2
<1> HIDE DEF result
<1>7. DOMAIN emitted = Tracked
  BY DEF Inv, TypeOK
<1>8. DOMAIN beacons' = Tracked /\ DOMAIN emitted' = Tracked
  BY <1>6, <1>7 DEF Tracked
<1>9. Evolves(b)
  <2>1. beacons'[b] = result.bs
    BY <1>1, <1>6 DEF Tracked
  <2>2. emitted'[b] = IF result.emit THEN beacons'[b].currentZone ELSE emitted[b]
    BY <1>1, <1>6, <1>7, <2>1
  <2>3. result.emit \in BOOLEAN
    BY <1>5 DEF Outcome
  <2>4. Outcome(beacons[b], Res(b), now, [bs |-> beacons'[b], emit |-> result.emit])
    BY <1>4, <1>5, <2>1 DEF Outcome
  <2> QED
    BY <2>2, <2>3, <2>4 DEF Evolves
<1>10. ASSUME NEW c \in Tracked, c # b PROVE Evolves(c)
  <2>1. beacons'[c] = beacons[c] /\ emitted'[c] = emitted[c]
    BY <1>6, <1>7, <1>10 DEF Tracked
  <2>2. /\ BeaconOK(beacons[c], now) /\ Backed(beacons[c]) /\ Res(c) \in Resolved
    BY <1>10, ResType DEF Inv, TypeOK, BackingCoherent
  <2>3. Outcome(beacons[c], Res(c), now, [bs |-> beacons[c], emit |-> FALSE])
    BY <1>3, <2>2, QuietOutcome DEF Quiet
  <2> QED
    BY <2>1, <2>3 DEF Evolves
<1> QED
  BY <1>1, <1>8, <1>9, <1>10

\* A tick takes every beacon to such an outcome.
LEMMA TickEvolves ==
    ASSUME Inv, Tick
    PROVE  /\ DOMAIN beacons' = Tracked /\ DOMAIN emitted' = Tracked
           /\ Unconfigured
           /\ \A c \in Tracked : Evolves(c)
<1>1. PICK pick \in Picks(beacons, resolved) :
        LET results == [b \in Tracked |->
                recomputeOne(beacons[b], Res(b), top.zones, now, FALSE, pick[b])]
        IN  /\ beacons' = States(results)
            /\ emitted' = Emit(emitted, results)
  BY DEF Tick
<1> DEFINE results == [b \in Tracked |->
                recomputeOne(beacons[b], Res(b), top.zones, now, FALSE, pick[b])]
<1>2. beacons' = States(results) /\ emitted' = Emit(emitted, results)
  BY <1>1
<1>3. DOMAIN results = Tracked
  OBVIOUS
<1>4. ASSUME NEW c \in Tracked
      PROVE  Outcome(beacons[c], Res(c), now, results[c])
  <2>1. pick[c] \in closestInPresence(beacons[c], Res(c), now)
    BY <1>1 DEF Picks, Tracked, Res
  <2>2. now \in Nat /\ Res(c) \in Resolved /\ BeaconOK(beacons[c], now)
        /\ Backed(beacons[c]) /\ top.zones \in [APs -> Labels \cup {None}]
    BY ResType DEF Inv, TypeOK, BackingCoherent, ValidTopology
  <2> QED
    BY <2>1, <2>2, RecomputeOutcome
<1> HIDE DEF results
<1>5. /\ DOMAIN beacons' = Tracked /\ DOMAIN emitted' = Tracked
      /\ \A c \in Tracked : beacons'[c] = results[c].bs
  BY <1>2, <1>3 DEF States, Emit
<1>6. \A c \in Tracked : emitted'[c] = IF results[c].emit THEN beacons'[c].currentZone
                                       ELSE emitted[c]
  BY <1>2, <1>3, <1>5 DEF Emit, Inv, TypeOK
<1>7. ASSUME NEW c \in Tracked PROVE Evolves(c)
  <2>1. results[c].emit \in BOOLEAN
    BY <1>4 DEF Outcome
  <2>2. Outcome(beacons[c], Res(c), now, [bs |-> beacons'[c], emit |-> results[c].emit])
    BY <1>4, <1>5 DEF Outcome
  <2> QED
    BY <1>6, <2>1, <2>2 DEF Evolves
<1>8. Unconfigured
  BY DEF Tick, Unconfigured
<1> QED
  BY <1>5, <1>7, <1>8

\* Such a step preserves the invariant.
LEMMA EvolvesInv ==
    ASSUME Inv, DOMAIN beacons' = Tracked, DOMAIN emitted' = Tracked,
           Unconfigured, \A c \in Tracked : Evolves(c)
    PROVE  Inv'
<1>1. /\ now' = now /\ top' = top /\ tun' = tun /\ resolved' = resolved
      /\ saved' = saved
  BY DEF Unconfigured
<1>2. ASSUME NEW c \in DOMAIN beacons'
      PROVE  /\ BeaconOK(beacons'[c], now') /\ Backed(beacons'[c])
             /\ beacons'[c].name = top'.beacons[c]
             /\ emitted'[c] \in {NoEvent, beacons'[c].currentZone}
  <2>1. PICK e \in BOOLEAN :
          /\ Outcome(beacons[c], Res(c), now, [bs |-> beacons'[c], emit |-> e])
          /\ emitted'[c] = IF e THEN beacons'[c].currentZone ELSE emitted[c]
    BY <1>2 DEF Evolves
  <2>2. /\ BeaconOK(beacons'[c], now) /\ Backed(beacons'[c])
        /\ beacons'[c].name = beacons[c].name
        /\ beacons'[c].currentZone # beacons[c].currentZone => e
    BY <2>1 DEF Outcome
  <2>3. emitted[c] \in {NoEvent, beacons[c].currentZone}
        /\ beacons[c].name = top.beacons[c]
    BY <1>2 DEF Inv, EmittedIsCurrent, ConfigCoherent
  <2> QED
    BY <1>1, <2>1, <2>2, <2>3
<1>3. DOMAIN beacons' = DOMAIN top'.beacons
  BY <1>1 DEF Inv, ConfigCoherent
<1>4. /\ now' \in Nat /\ ValidTopology(top)' /\ ValidTunables(tun)'
      /\ \A n \in DOMAIN resolved' : resolved'[n] \in Resolved
      /\ resolved' = [n \in BeaconNames(top') |-> ResolveFor(tun', n)]
  BY <1>1 DEF Inv, TypeOK, ConfigCoherent, ValidTopology, ValidTunables
<1> QED
  BY <1>1, <1>2, <1>3, <1>4, InvFromParts

-----------------------------------------------------------------------------
(* Configuration changes, persistence and restarts.                        *)

\* A tunables save refreshes the cache for exactly the tracked names.
LEMMA ApplyTunablesInv ==
    ASSUME Inv, NEW u \in TunableDocs, ApplyTunables(u)
    PROVE  Inv'
<1>1. ValidTunables(u)
  BY InputsAssumption
<1>2. /\ tun' = u /\ now' = now /\ top' = top /\ beacons' = beacons
      /\ emitted' = emitted /\ saved' = saved
  BY DEF ApplyTunables
<1>3. {beacons[b].name : b \in Tracked} = BeaconNames(top)
  BY DEF Inv, ConfigCoherent, BeaconNames
<1>4. DOMAIN resolved = BeaconNames(top)
  BY DEF Inv, ConfigCoherent
<1>5. \A n \in BeaconNames(top) : \E b \in Tracked : beacons[b].name = n
  BY <1>3
<1>6. resolved' = [n \in BeaconNames(top) |-> ResolveFor(u, n)]
  BY <1>3, <1>4, <1>5 DEF ApplyTunables
<1>7. BeaconNames(top) \subseteq Names
  BY DEF Inv, TypeOK, ValidTopology, BeaconNames
<1>8. \A n \in BeaconNames(top) : ResolveFor(u, n) \in Resolved
  BY <1>1, <1>7, ResolveForValid
<1>9. /\ ValidTopology(top)' /\ ValidTunables(tun)'
      /\ \A n \in DOMAIN resolved' : resolved'[n] \in Resolved
      /\ resolved' = [n \in BeaconNames(top') |-> ResolveFor(tun', n)]
  BY <1>1, <1>2, <1>6, <1>8 DEF Inv, TypeOK, ValidTopology, ValidTunables
<1>10. /\ now' \in Nat /\ DOMAIN beacons' = DOMAIN top'.beacons
       /\ DOMAIN emitted' = DOMAIN beacons'
       /\ \A b \in DOMAIN beacons' :
              /\ BeaconOK(beacons'[b], now') /\ Backed(beacons'[b])
              /\ beacons'[b].name = top'.beacons[b]
              /\ emitted'[b] \in {NoEvent, beacons'[b].currentZone}
  BY <1>2 DEF Inv, TypeOK, ConfigCoherent, BackingCoherent, EmittedIsCurrent, Tracked
<1> QED
  BY <1>2, <1>9, <1>10, InvFromParts

\* A beacon after a refresh: a known one has kept its state, name apart.
LEMMA RetrackOK ==
    ASSUME Inv, NEW t \in Topologies, NEW b \in DOMAIN t.beacons
    PROVE  /\ BeaconOK(Retrack(t)[b], now) /\ Backed(Retrack(t)[b])
           /\ Retrack(t)[b].name = t.beacons[b]
           /\ IF b \in Tracked
              THEN /\ Retrack(t)[b].currentZone = beacons[b].currentZone
                   /\ Retrack(t)[b].lastArrivalTs = beacons[b].lastArrivalTs
              ELSE Retrack(t)[b].currentZone = None
<1>1. t.beacons[b] \in Names /\ now \in Nat
  BY InputsAssumption DEF ValidTopology, Inv, TypeOK
<1>2. CASE b \in Tracked
  <2> DEFINE s == [beacons[b] EXCEPT !.name = t.beacons[b]]
  <2>1. Retrack(t)[b] = s
    BY <1>2 DEF Retrack
  <2>2. BeaconOK(beacons[b], now) /\ Backed(beacons[b])
    BY <1>2 DEF Inv, TypeOK, BackingCoherent
  <2>3. /\ DOMAIN s = BeaconFields /\ s.name = t.beacons[b]
        /\ s.perAP = beacons[b].perAP
        /\ s.currentZone = beacons[b].currentZone
        /\ s.currentAP = beacons[b].currentAP
        /\ s.lastArrivalTs = beacons[b].lastArrivalTs
        /\ s.candidateAP = beacons[b].candidateAP
        /\ s.candidateCount = beacons[b].candidateCount
    BY <2>2 DEF BeaconOK, BeaconFields
  <2> HIDE DEF s
  <2>4. BeaconOK(s, now) /\ Backed(s)
    BY <1>1, <2>2, <2>3 DEF BeaconOK, Backed
  <2> QED
    BY <1>2, <2>1, <2>3, <2>4
<1>3. CASE b \notin Tracked
  BY <1>1, <1>3, NewBeaconOK DEF Retrack
<1> QED
  BY <1>2, <1>3

\* Resolving, then pruning, leaves the cache of a new engine.
LEMMA ApplyTopologyConfigures ==
    ASSUME NEW t, ApplyTopology(t)
    PROVE  NewEngine(t, tun)
<1>1. BeaconNames(t) \subseteq DOMAIN resolved \cup BeaconNames(t)
  OBVIOUS
<1>2. Prune(t, Resolve(t)) = [n \in BeaconNames(t) |-> ResolveFor(tun, n)]
  BY <1>1 DEF Prune, Resolve
<1> QED
  BY <1>2 DEF ApplyTopology, NewEngine

\* What a refresh does to each beacon of the new topology: a kept beacon goes
\* through Relabel, a new one starts at not_home with nothing emitted.
LEMMA ApplyTopologyStep ==
    ASSUME Inv, NEW t \in Topologies, ApplyTopology(t)
    PROVE  /\ DOMAIN beacons' = DOMAIN t.beacons /\ DOMAIN emitted' = DOMAIN t.beacons
           /\ \A b \in DOMAIN t.beacons :
                /\ BeaconOK(beacons'[b], now) /\ Backed(beacons'[b])
                /\ beacons'[b].name = t.beacons[b]
                /\ b \in Tracked =>
                      /\ beacons[b].currentZone = None <=> beacons'[b].currentZone = None
                      /\ beacons'[b].lastArrivalTs = beacons[b].lastArrivalTs
                      /\ \/ emitted'[b] = beacons'[b].currentZone
                         \/ /\ emitted'[b] = emitted[b]
                            /\ beacons'[b].currentZone = beacons[b].currentZone
                /\ b \notin Tracked =>
                      /\ beacons'[b].currentZone = None
                      /\ emitted'[b] = NoEvent
<1>1. /\ ValidTunables(tun) /\ NewEngine(t, tun) /\ ValidTopology(t)
      /\ now \in Nat /\ DOMAIN emitted = Tracked
  BY InputsAssumption, ApplyTopologyConfigures DEF Inv, TypeOK
<1>2. PICK pick \in Picks(Retrack(t), resolved') :
        LET results == [b \in DOMAIN t.beacons |->
                           Relabel(Retrack(t)[b], t.zones, pick[b])]
        IN  /\ beacons' = States(results)
            /\ emitted' = Emit(emitted, results)
  BY DEF ApplyTopology
<1> DEFINE results == [b \in DOMAIN t.beacons |->
                          Relabel(Retrack(t)[b], t.zones, pick[b])]
<1>3. beacons' = States(results) /\ emitted' = Emit(emitted, results)
  BY <1>2
<1>4. DOMAIN results = DOMAIN t.beacons /\ DOMAIN Retrack(t) = DOMAIN t.beacons
  BY DEF Retrack
<1>5. ASSUME NEW b \in DOMAIN t.beacons
      PROVE  /\ Outcome(Retrack(t)[b], resolved'[t.beacons[b]], now, results[b])
             /\ Retrack(t)[b].currentZone = None <=> results[b].bs.currentZone = None
             /\ Retrack(t)[b].currentZone = None => ~results[b].emit
  <2>1. BeaconOK(Retrack(t)[b], now) /\ Backed(Retrack(t)[b])
        /\ Retrack(t)[b].name = t.beacons[b]
    BY RetrackOK
  <2>2. t.zones \in [APs -> Labels \cup {None}]
    BY <1>1 DEF ValidTopology
  <2>3. t.beacons[b] \in BeaconNames(t)
    BY DEF BeaconNames
  <2>4. resolved'[t.beacons[b]] \in Resolved
    BY <1>1, <2>3, NewEngineOK DEF NewEngine
  <2>5. pick[b] \in closestInPresence(Retrack(t)[b], resolved'[t.beacons[b]], now)
    BY <1>2, <1>4, <2>1 DEF Picks
  <2>6. results[b] = Relabel(Retrack(t)[b], t.zones, pick[b])
    OBVIOUS
  <2> QED
    BY <1>1, <2>1, <2>2, <2>4, <2>5, <2>6, RelabelOutcome
<1> HIDE DEF results
<1>6. /\ DOMAIN beacons' = DOMAIN t.beacons /\ DOMAIN emitted' = DOMAIN t.beacons
      /\ \A b \in DOMAIN t.beacons : beacons'[b] = results[b].bs
  BY <1>3, <1>4 DEF States, Emit
<1>7. ASSUME NEW b \in DOMAIN t.beacons
      PROVE  emitted'[b] = IF results[b].emit THEN results[b].bs.currentZone
                           ELSE IF b \in Tracked THEN emitted[b] ELSE NoEvent
  BY <1>1, <1>3, <1>4 DEF Emit
<1>8. ASSUME NEW b \in DOMAIN t.beacons, b \in Tracked
      PROVE  /\ beacons'[b].lastArrivalTs = beacons[b].lastArrivalTs
             /\ \/ emitted'[b] = beacons'[b].currentZone
                \/ /\ emitted'[b] = emitted[b]
                   /\ beacons'[b].currentZone = beacons[b].currentZone
  BY <1>5, <1>6, <1>7, <1>8, RetrackOK DEF Outcome
<1>9. ASSUME NEW b \in DOMAIN t.beacons, b \notin Tracked
      PROVE  /\ beacons'[b].currentZone = None
             /\ emitted'[b] = NoEvent
  BY <1>5, <1>6, <1>7, <1>9, RetrackOK
<1>10. ASSUME NEW b \in DOMAIN t.beacons
       PROVE  /\ BeaconOK(beacons'[b], now) /\ Backed(beacons'[b])
              /\ beacons'[b].name = t.beacons[b]
              /\ b \in Tracked =>
                    (beacons[b].currentZone = None <=> beacons'[b].currentZone = None)
  BY <1>5, <1>6, RetrackOK DEF Outcome
<1> QED
  BY <1>6, <1>8, <1>9, <1>10

\* A topology refresh preserves the invariant.
LEMMA ApplyTopologyInv ==
    ASSUME Inv, NEW t \in Topologies, ApplyTopology(t)
    PROVE  Inv'
<1>1. ValidTunables(tun) /\ NewEngine(t, tun) /\ now' = now /\ saved' = saved
  BY ApplyTopologyConfigures DEF ApplyTopology, Inv, TypeOK
<1>2. top' = t
  BY <1>1 DEF NewEngine
<1>3. /\ ValidTopology(top)' /\ ValidTunables(tun)'
      /\ \A n \in DOMAIN resolved' : resolved'[n] \in Resolved
      /\ resolved' = [n \in BeaconNames(top') |-> ResolveFor(tun', n)]
  BY <1>1, NewEngineOK
<1>4. DOMAIN beacons' = DOMAIN top'.beacons /\ DOMAIN emitted' = DOMAIN beacons'
  BY <1>2, ApplyTopologyStep
<1>5. ASSUME NEW b \in DOMAIN beacons'
      PROVE  /\ BeaconOK(beacons'[b], now') /\ Backed(beacons'[b])
             /\ beacons'[b].name = top'.beacons[b]
             /\ emitted'[b] \in {NoEvent, beacons'[b].currentZone}
  <2>1. b \in DOMAIN t.beacons
    BY <1>2, <1>4
  <2>2. b \in Tracked => emitted[b] \in {NoEvent, beacons[b].currentZone}
    BY DEF Inv, EmittedIsCurrent
  <2> QED
    BY <1>1, <1>2, <2>1, <2>2, ApplyTopologyStep
<1>6. now' \in Nat
  BY <1>1 DEF Inv, TypeOK
<1> QED
  BY <1>1, <1>3, <1>4, <1>5, <1>6, InvFromParts

\* A boot from saved rows, or from none: what each tracked beacon becomes.
LEMMA RestartStep ==
    ASSUME Inv, NEW t \in Topologies, NEW u \in TunableDocs,
           NEW rows \in {saved, NoRows}, Restart(t, u, rows)
    PROVE  /\ DOMAIN beacons' = DOMAIN t.beacons /\ DOMAIN emitted' = DOMAIN t.beacons
           /\ \A b \in DOMAIN t.beacons :
                /\ BeaconOK(beacons'[b], now) /\ Backed(beacons'[b])
                /\ beacons'[b].name = t.beacons[b]
                /\ emitted'[b] = NoEvent
                /\ IF b \in DOMAIN rows /\ rows[b].currentZone # None
                   THEN /\ beacons'[b].currentZone = rows[b].currentZone
                        /\ beacons'[b].lastArrivalTs = now
                   ELSE beacons'[b].currentZone = None
<1>1. DOMAIN beacons' = DOMAIN t.beacons /\ DOMAIN emitted' = DOMAIN t.beacons
  BY DEF Restart
<1>2. ASSUME NEW b \in DOMAIN t.beacons
      PROVE  /\ BeaconOK(beacons'[b], now) /\ Backed(beacons'[b])
             /\ beacons'[b].name = t.beacons[b]
             /\ emitted'[b] = NoEvent
             /\ IF b \in DOMAIN rows /\ rows[b].currentZone # None
                THEN /\ beacons'[b].currentZone = rows[b].currentZone
                     /\ beacons'[b].lastArrivalTs = now
                ELSE beacons'[b].currentZone = None
  <2> DEFINE bs == NewBeaconState(t.beacons[b])
             s  == RestoreState(bs, rows[b])
  <2>1. t.beacons[b] \in Names /\ now \in Nat
    BY InputsAssumption DEF ValidTopology, Inv, TypeOK
  <2>2. /\ BeaconOK(bs, now) /\ Backed(bs) /\ bs.name = t.beacons[b]
        /\ bs.currentZone = None
    BY <2>1, NewBeaconOK
  <2>3. beacons'[b] = (IF b \in DOMAIN rows THEN s ELSE bs) /\ emitted'[b] = NoEvent
    BY DEF Restart
  <2>4. CASE ~(b \in DOMAIN rows /\ rows[b].currentZone # None)
    BY <2>2, <2>3, <2>4 DEF RestoreState
  <2>5. CASE b \in DOMAIN rows /\ rows[b].currentZone # None
    <3>1. DOMAIN NoRows = {}
      BY DEF NoRows
    <3>2. rows = saved
      BY <3>1, <2>5
    <3>3. /\ rows[b].currentZone \in Labels \cup {None}
          /\ rows[b].currentAP \in APs \cup {None}
          /\ rows[b].currentZone = None <=> rows[b].currentAP = None
      BY <3>2, <2>5 DEF Inv, TypeOK, BackingCoherent
    <3>4. s = [bs EXCEPT !.currentZone = rows[b].currentZone,
                         !.currentAP = rows[b].currentAP, !.lastArrivalTs = now]
      BY <2>5 DEF RestoreState
    <3>5. bs.candidateAP = None /\ bs.candidateCount = 0
      BY DEF NewBeaconState
    <3> HIDE DEF bs, s
    <3>6. /\ DOMAIN s = BeaconFields /\ s.name = bs.name /\ s.perAP = bs.perAP
          /\ s.currentZone = rows[b].currentZone
          /\ s.currentAP = rows[b].currentAP /\ s.lastArrivalTs = now
          /\ s.candidateAP = bs.candidateAP /\ s.candidateCount = bs.candidateCount
      BY <2>2, <3>4 DEF BeaconOK, BeaconFields
    <3>7. BeaconOK(s, now)
      BY <2>1, <2>2, <3>3, <3>6 DEF BeaconOK
    <3>8. Backed(s)
      BY <3>3, <3>5, <3>6 DEF Backed
    <3> QED
      BY <2>2, <2>3, <2>5, <3>6, <3>7, <3>8
  <2> QED
    BY <2>4, <2>5
<1> QED
  BY <1>1, <1>2

\* A restart preserves the invariant.
LEMMA RestartInv ==
    ASSUME Inv, NEW t \in Topologies, NEW u \in TunableDocs,
           NEW rows \in {saved, NoRows}, Restart(t, u, rows)
    PROVE  Inv'
<1>1. ValidTunables(u) /\ NewEngine(t, u) /\ now' = now /\ saved' = saved /\ now \in Nat
  BY InputsAssumption DEF Restart, Inv, TypeOK
<1>2. top' = t
  BY <1>1 DEF NewEngine
<1>3. /\ ValidTopology(top)' /\ ValidTunables(tun)'
      /\ \A n \in DOMAIN resolved' : resolved'[n] \in Resolved
      /\ resolved' = [n \in BeaconNames(top') |-> ResolveFor(tun', n)]
  BY <1>1, NewEngineOK
<1> QED
  BY <1>1, <1>2, <1>3, RestartStep, InvFromParts

\* Re-emitting, saving and the clock preserve the invariant.
LEMMA QuietStepsInv ==
    ASSUME Inv, RepublishAll \/ Persist \/ Advance
    PROVE  Inv'
<1>1. CASE RepublishAll
  <2>1. /\ now' = now /\ top' = top /\ tun' = tun /\ resolved' = resolved
        /\ saved' = saved /\ beacons' = beacons
        /\ emitted' = [b \in Tracked |-> beacons[b].currentZone]
    BY <1>1 DEF RepublishAll
  <2>2. \A b \in Tracked : beacons[b].currentZone \in Labels \cup {None}
    BY DEF Inv, TypeOK, BeaconOK
  <2> QED
    BY <2>1, <2>2 DEF Inv, TypeOK, ConfigCoherent, BackingCoherent, EmittedIsCurrent,
                     Tracked, ValidTopology, ValidTunables
<1>2. CASE Persist
  <2>1. /\ now' = now /\ top' = top /\ tun' = tun /\ resolved' = resolved
        /\ emitted' = emitted /\ beacons' = beacons
        /\ saved' = [b \in Tracked |-> [currentZone |-> beacons[b].currentZone,
                                        currentAP   |-> beacons[b].currentAP]]
    BY <1>2 DEF Persist
  <2>2. /\ DOMAIN saved' \subseteq Beacons
        /\ \A b \in DOMAIN saved' :
              /\ saved'[b].currentZone \in Labels \cup {None}
              /\ saved'[b].currentAP \in APs \cup {None}
              /\ saved'[b].currentZone = None <=> saved'[b].currentAP = None
    BY <2>1 DEF Inv, TypeOK, BeaconOK, BackingCoherent, Backed, ConfigCoherent,
                ValidTopology
  <2> QED
    BY <2>1, <2>2 DEF Inv, TypeOK, ConfigCoherent, BackingCoherent, EmittedIsCurrent,
                      Tracked, ValidTopology, ValidTunables
<1>3. CASE Advance
  <2>1. /\ top' = top /\ tun' = tun /\ resolved' = resolved
        /\ saved' = saved /\ beacons' = beacons /\ emitted' = emitted
        /\ now' = now + 1 /\ now \in Nat
    BY <1>3 DEF Advance, Inv, TypeOK
  <2>2. ASSUME NEW b \in Tracked PROVE BeaconOK(beacons[b], now')
    <3>1. BeaconOK(beacons[b], now)
      BY DEF Inv, TypeOK
    <3> QED
      BY <2>1, <3>1 DEF BeaconOK, APState
  <2> QED
    BY <2>1, <2>2 DEF Inv, TypeOK, ConfigCoherent, BackingCoherent, EmittedIsCurrent,
                     Tracked, ValidTopology, ValidTunables
<1> QED
  BY <1>1, <1>2, <1>3

-----------------------------------------------------------------------------
(* Theorems.                                                               *)

\* Every step of the engine preserves the invariant.
LEMMA NextInv == Inv /\ [Next]_vars => Inv'
<1> SUFFICES ASSUME Inv, [Next]_vars PROVE Inv'
  OBVIOUS
<1>1. ASSUME NEW b \in Beacons, NEW ap \in APs, NEW rssi \in RSSIs, Submit(b, ap, rssi)
      PROVE  Inv'
  BY <1>1, SubmitEvolves, EvolvesInv
<1>2. CASE Tick
  BY <1>2, TickEvolves, EvolvesInv
<1>3. ASSUME NEW u \in TunableDocs, ApplyTunables(u) PROVE Inv'
  BY <1>3, ApplyTunablesInv
<1>4. ASSUME NEW t \in Topologies, ApplyTopology(t) PROVE Inv'
  BY <1>4, ApplyTopologyInv
<1>5. CASE RepublishAll \/ Persist \/ Advance
  BY <1>5, QuietStepsInv
<1>6. ASSUME NEW t \in Topologies, NEW u \in TunableDocs,
             Restart(t, u, saved) \/ Restart(t, u, NoRows)
      PROVE  Inv'
  BY <1>6, RestartInv
<1>7. CASE UNCHANGED vars
  <2>1. /\ now' = now /\ top' = top /\ tun' = tun /\ resolved' = resolved
        /\ saved' = saved /\ beacons' = beacons /\ emitted' = emitted
    BY <1>7 DEF vars
  <2> QED
    BY <2>1 DEF Inv, TypeOK, ConfigCoherent, BackingCoherent, EmittedIsCurrent,
                Tracked, ValidTopology, ValidTunables
<1> QED
  BY <1>1, <1>2, <1>3, <1>4, <1>5, <1>6, <1>7 DEF Next

\* The invariant holds throughout.
THEOREM InvHolds == Spec => []Inv
BY InitInv, NextInv, PTL DEF Spec

\* Type correctness of the engine and of the persisted rows.
THEOREM TypeCorrect == Spec => []TypeOK
<1>1. Inv => TypeOK
  BY DEF Inv
<1> QED
  BY <1>1, InvHolds, PTL

\* The tracked set, the names and the cache of resolved tunables never drift
\* from the topology and the tunables document.
THEOREM ConfigAlwaysCoherent == Spec => []ConfigCoherent
<1>1. Inv => ConfigCoherent
  BY DEF Inv
<1> QED
  BY <1>1, InvHolds, PTL

\* A published zone and a pending change always have a backing AP.
THEOREM BackingAlwaysCoherent == Spec => []BackingCoherent
<1>1. Inv => BackingCoherent
  BY DEF Inv
<1> QED
  BY <1>1, InvHolds, PTL

\* The engine never changes a published state silently.
THEOREM NoSilentChange == Spec => []EmittedIsCurrent
<1>1. Inv => EmittedIsCurrent
  BY DEF Inv
<1> QED
  BY <1>1, InvHolds, PTL

-----------------------------------------------------------------------------
(* The engine implements the contract of PresenceContract.                 *)

\* Sightings and ticks are reports.
LEMMA EvolvesReports ==
    ASSUME Inv, DOMAIN beacons' = Tracked, DOMAIN emitted' = Tracked,
           Unconfigured, \A c \in Tracked : Evolves(c)
    PROVE  Contract!Report
<1>1. Tracked' = Tracked /\ now' = now /\ resolved' = resolved
  BY DEF Tracked, Unconfigured
<1>2. ASSUME NEW c \in Tracked
      PROVE  /\ \/ /\ beacons'[c].currentZone = beacons[c].currentZone
                   /\ beacons'[c].lastArrivalTs = beacons[c].lastArrivalTs
                \/ /\ beacons[c].currentZone = None /\ beacons'[c].currentZone \in Labels
                   /\ beacons'[c].lastArrivalTs = now
                \/ /\ beacons[c].currentZone # None /\ beacons'[c].currentZone \in Labels
                   /\ beacons'[c].lastArrivalTs = beacons[c].lastArrivalTs
                \/ /\ beacons[c].currentZone # None /\ beacons'[c].currentZone = None
                   /\ now - beacons[c].lastArrivalTs >= Res(c).sticky
                   /\ beacons'[c].lastArrivalTs = beacons[c].lastArrivalTs
             /\ \/ emitted'[c] = beacons'[c].currentZone
                \/ /\ emitted'[c] = emitted[c]
                   /\ beacons'[c].currentZone = beacons[c].currentZone
             /\ beacons'[c].name = beacons[c].name
  <2>1. PICK e \in BOOLEAN :
          /\ Outcome(beacons[c], Res(c), now, [bs |-> beacons'[c], emit |-> e])
          /\ emitted'[c] = IF e THEN beacons'[c].currentZone ELSE emitted[c]
    BY <1>2 DEF Evolves
  <2>2. beacons'[c].currentZone \in Labels \cup {None}
    BY <2>1 DEF Outcome, BeaconOK
  <2> QED
    BY <2>1, <2>2 DEF Outcome
<1>3. [b \in Tracked' |-> Res(b)'.sticky] = [b \in Tracked |-> Res(b).sticky]
  BY <1>1, <1>2 DEF Res
<1> QED
  BY <1>1, <1>2, <1>3 DEF Contract!Report, Contract!SameDomain, Contract!Tracked,
     Contract!Stays, Contract!Arrives, Contract!Moves, Contract!Departs, Contract!Tells

\* A tunables save only changes the windows.
LEMMA ApplyTunablesReconfigures ==
    ASSUME NEW u \in TunableDocs, ApplyTunables(u)
    PROVE  Contract!Reconfigure
<1>1. now' = now /\ beacons' = beacons /\ emitted' = emitted /\ Tracked' = Tracked
  BY DEF ApplyTunables, Tracked
<1> QED
  BY <1>1 DEF Contract!Reconfigure

\* A topology refresh keeps or moves the beacons it keeps.
LEMMA ApplyTopologyRetracks ==
    ASSUME Inv, NEW t \in Topologies, ApplyTopology(t)
    PROVE  Contract!Retrack
<1>1. /\ Tracked' = DOMAIN t.beacons /\ DOMAIN emitted' = Tracked'
      /\ now' = now /\ Tracked' \subseteq Beacons
  BY ApplyTopologyStep, InputsAssumption DEF Tracked, ApplyTopology, ValidTopology
<1>2. ASSUME NEW b \in Tracked'
      PROVE  IF b \in Tracked
             THEN /\ beacons'[b].lastArrivalTs = beacons[b].lastArrivalTs
                  /\ \/ beacons'[b].currentZone = beacons[b].currentZone
                     \/ beacons[b].currentZone # None /\ beacons'[b].currentZone \in Labels
                  /\ \/ emitted'[b] = beacons'[b].currentZone
                     \/ /\ emitted'[b] = emitted[b]
                        /\ beacons'[b].currentZone = beacons[b].currentZone
             ELSE beacons'[b].currentZone = None /\ emitted'[b] = NoEvent
  <2>1. b \in DOMAIN t.beacons
    BY <1>1
  <2>2. beacons'[b].currentZone \in Labels \cup {None}
    BY <2>1, ApplyTopologyStep DEF BeaconOK
  <2> QED
    BY <2>1, <2>2, ApplyTopologyStep
<1> QED
  BY <1>1, <1>2 DEF Contract!Retrack, Contract!Tracked, Contract!Stays,
                    Contract!Moves, Contract!Tells

\* A restart is a reboot.
LEMMA RestartReboots ==
    ASSUME Inv, NEW t \in Topologies, NEW u \in TunableDocs,
           NEW rows \in {saved, NoRows}, Restart(t, u, rows)
    PROVE  Contract!Reboot
<1>1. /\ Tracked' = DOMAIN t.beacons /\ DOMAIN emitted' = Tracked'
      /\ now' = now /\ Tracked' \subseteq Beacons
  BY RestartStep, InputsAssumption DEF Tracked, Restart, ValidTopology
<1>2. ASSUME NEW b \in Tracked'
      PROVE  /\ beacons'[b].currentZone \in Labels => beacons'[b].lastArrivalTs = now
             /\ emitted'[b] = NoEvent
  BY <1>1, <1>2, RestartStep, EmptyAssumption
<1> QED
  BY <1>1, <1>2 DEF Contract!Reboot

\* The remaining steps re-announce, do nothing visible, or pass time.
LEMMA QuietStepsContract ==
    ASSUME Inv, RepublishAll \/ Persist \/ Advance \/ UNCHANGED vars
    PROVE  [Contract!Next]_(Contract!vars)
<1>1. CASE RepublishAll
  <2>1. /\ now' = now /\ beacons' = beacons /\ resolved' = resolved
        /\ Tracked' = Tracked /\ DOMAIN emitted' = Tracked
        /\ \A b \in Tracked : emitted'[b] = beacons[b].currentZone
    BY <1>1 DEF RepublishAll, Tracked
  <2>2. \A b \in Tracked : Res(b)' = Res(b)
    BY <2>1 DEF Res
  <2>3. Contract!Report
    BY <2>1, <2>2 DEF Contract!Report, Contract!SameDomain, Contract!Tracked,
                      Contract!Stays, Contract!Tells
  <2> QED
    BY <2>3 DEF Contract!Next
<1>2. CASE Persist \/ UNCHANGED vars
  <2>1. /\ now' = now /\ beacons' = beacons /\ resolved' = resolved
        /\ Tracked' = Tracked /\ emitted' = emitted
    BY <1>2 DEF Persist, vars, Tracked
  <2>2. \A b \in Tracked : Res(b)' = Res(b)
    BY <2>1 DEF Res
  <2> QED
    BY <2>1, <2>2 DEF Contract!vars
<1>3. CASE Advance
  <2>1. /\ now' > now /\ beacons' = beacons /\ resolved' = resolved
        /\ Tracked' = Tracked /\ emitted' = emitted
    BY <1>3 DEF Advance, Tracked, Inv, TypeOK
  <2>2. \A b \in Tracked : Res(b)' = Res(b)
    BY <2>1 DEF Res
  <2>3. Contract!Passes
    BY <2>1, <2>2 DEF Contract!Passes
  <2> QED
    BY <2>3 DEF Contract!Next
<1> QED
  BY <1>1, <1>2, <1>3

\* The engine implements its contract: what consumers see of it is arrivals,
\* moves and departures as ADR-0006 allows them, each of them told.
THEOREM EngineImplementsContract == Spec => ContractHolds
<1>1. Init => Contract!Init
  <2> SUFFICES ASSUME Init PROVE Contract!Init
    OBVIOUS
  <2>1. DOMAIN beacons \subseteq Beacons
    BY InputsAssumption DEF Init, ValidTopology
  <2>2. \A b \in Tracked : beacons[b].currentZone = None /\ emitted[b] = NoEvent
    BY DEF Init, Tracked, NewBeaconState
  <2> QED
    BY <2>1, <2>2 DEF Contract!Init, Contract!Tracked, Tracked, Init
<1>2. Inv /\ [Next]_vars => [Contract!Next]_(Contract!vars)
  <2> SUFFICES ASSUME Inv, [Next]_vars PROVE [Contract!Next]_(Contract!vars)
    OBVIOUS
  <2>1. ASSUME NEW b \in Beacons, NEW ap \in APs, NEW rssi \in RSSIs,
               Submit(b, ap, rssi)
        PROVE  Contract!Next
    BY <2>1, SubmitEvolves, EvolvesReports DEF Contract!Next
  <2>2. CASE Tick
    BY <2>2, TickEvolves, EvolvesReports DEF Contract!Next
  <2>3. ASSUME NEW u \in TunableDocs, ApplyTunables(u) PROVE Contract!Next
    BY <2>3, ApplyTunablesReconfigures DEF Contract!Next
  <2>4. ASSUME NEW t \in Topologies, ApplyTopology(t) PROVE Contract!Next
    BY <2>4, ApplyTopologyRetracks DEF Contract!Next
  <2>5. ASSUME NEW t \in Topologies, NEW u \in TunableDocs,
               Restart(t, u, saved) \/ Restart(t, u, NoRows)
        PROVE  Contract!Next
    BY <2>5, RestartReboots DEF Contract!Next
  <2>6. CASE RepublishAll \/ Persist \/ Advance \/ UNCHANGED vars
    BY <2>6, QuietStepsContract
  <2> QED
    BY <2>1, <2>2, <2>3, <2>4, <2>5, <2>6 DEF Next
<1> QED
  BY <1>1, <1>2, InvHolds, PTL DEF Spec, ContractHolds, Contract!Spec

-----------------------------------------------------------------------------
(* When the engine arrives, departs and changes the backing AP.            *)

\* Publishing a zone sets the backing AP.
LEMMA SwitchToAP ==
    ASSUME NEW t \in Nat, NEW bs, BeaconOK(bs, t), NEW zone, NEW ap
    PROVE  /\ SwitchTo(bs, zone, ap).currentZone = zone
           /\ SwitchTo(bs, zone, ap).currentAP = ap
           /\ SwitchTo(bs, zone, ap).perAP = bs.perAP
           /\ DOMAIN SwitchTo(bs, zone, ap) = BeaconFields
BY DEF BeaconOK, BeaconFields, SwitchTo, ResetCandidate

\* Forgetting the candidate leaves the rest alone.
LEMMA ResetKeeps ==
    ASSUME NEW t \in Nat, NEW bs, BeaconOK(bs, t)
    PROVE  /\ ResetCandidate(bs).currentAP = bs.currentAP
           /\ ResetCandidate(bs).perAP = bs.perAP
BY DEF BeaconOK, BeaconFields, ResetCandidate

\* Counting a confirmation leaves the backing AP alone, or puts `ap` there.
LEMMA ConfirmAP ==
    ASSUME NEW t \in Nat, NEW bs, BeaconOK(bs, t), NEW r, NEW zone, NEW ap
    PROVE  /\ Confirm(bs, r, zone, ap).bs.currentAP \in {bs.currentAP, ap}
           /\ Confirm(bs, r, zone, ap).bs.perAP = bs.perAP
<1> DEFINE n == IF bs.candidateAP = ap THEN bs.candidateCount + 1 ELSE 1
           s == [bs EXCEPT !.candidateAP = ap, !.candidateCount = n]
<1>1. s.currentAP = bs.currentAP /\ s.perAP = bs.perAP
  BY DEF BeaconOK, BeaconFields
<1>2. Confirm(bs, r, zone, ap).bs \in {s, SwitchTo(bs, zone, ap)}
  BY DEF Confirm, Quiet, Publish
<1> HIDE DEF s, n
<1>3. /\ SwitchTo(bs, zone, ap).currentAP = ap
      /\ SwitchTo(bs, zone, ap).perAP = bs.perAP
  BY SwitchToAP
<1> QED
  BY <1>1, <1>2, <1>3

\* Case C never leaves the beacon on a faded AP.
LEMMA InZoneAP ==
    ASSUME NEW t \in Nat, NEW bs, BeaconOK(bs, t), NEW r, NEW zone,
           NEW sighting \in BOOLEAN, NEW ap \in InPresence(bs, r, t)
    PROVE  /\ InZone(bs, r, zone, ap, t, sighting).bs.currentAP \in InPresence(bs, r, t)
           /\ InZone(bs, r, zone, ap, t, sighting).bs.perAP = bs.perAP
<1> DEFINE res == InZone(bs, r, zone, ap, t, sighting)
<1>1. CASE CurrentFaded(bs, r, t) \/ ap = bs.currentAP
  <2>1. res.bs = SwitchTo(bs, zone, ap)
    BY <1>1 DEF InZone, Publish
  <2> QED
    BY <2>1, SwitchToAP
<1>2. CASE ~CurrentFaded(bs, r, t) /\ ap # bs.currentAP
  <2>1. bs.currentAP \in InPresence(bs, r, t)
    BY <1>2 DEF CurrentFaded
  <2>2. res \in {Quiet(bs), Quiet(ResetCandidate(bs)), Confirm(bs, r, zone, ap)}
    BY <1>2 DEF InZone, Hysteresis
  <2>3. CASE res = Confirm(bs, r, zone, ap)
    BY <2>1, <2>3, ConfirmAP
  <2>4. CASE res.bs \in {bs, ResetCandidate(bs)}
    BY <2>1, <2>4, ResetKeeps
  <2> QED
    BY <2>2, <2>3, <2>4 DEF Quiet
<1> QED
  BY <1>1, <1>2

\* s is what recomputeOne makes of bs, on a sighting or on a tick.
Recomputes(bs, r, zones, t, ap, s) ==
    \E sighting \in BOOLEAN : s = recomputeOne(bs, r, zones, t, sighting, ap).bs

\* The two kinds of call apart.
Sighted(bs, r, zones, t, ap, s) == s = recomputeOne(bs, r, zones, t, TRUE, ap).bs
Ticked(bs, r, zones, t, ap, s)  == s = recomputeOne(bs, r, zones, t, FALSE, ap).bs

\* recomputeOne by its three exits: away, the early return for an unmapped
\* closest AP, and a published zone whose backing AP is in presence.
LEMMA RecomputeExits ==
    ASSUME NEW t \in Nat, NEW bs, BeaconOK(bs, t),
           NEW r \in Resolved, NEW zones \in [APs -> Labels \cup {None}],
           NEW ap \in closestInPresence(bs, r, t),
           NEW s, Recomputes(bs, r, zones, t, ap, s)
    PROVE  /\ s.perAP = bs.perAP
           /\ \/ /\ ap = None \/ ForceAway(bs, r, t)
                 /\ s.currentZone = None \/ (s = bs /\ StickyActive(bs, r, t))
              \/ /\ ap \in InPresence(bs, r, t) /\ ~ForceAway(bs, r, t)
                 /\ zones[ap] = None /\ s = bs
              \/ /\ ap \in InPresence(bs, r, t) /\ ~ForceAway(bs, r, t)
                 /\ zones[ap] # None
                 /\ s.currentAP \in InPresence(bs, r, t)
                 /\ bs.currentZone = None => /\ s.currentZone = zones[ap]
                                             /\ s.currentAP = ap
<1>0. PICK sighting \in BOOLEAN : s = recomputeOne(bs, r, zones, t, sighting, ap).bs
  BY DEF Recomputes
<1>1. CASE ap = None \/ ForceAway(bs, r, t)
  <2>1. s = NoPresence(bs, r, t).bs
    BY <1>0, <1>1 DEF recomputeOne
  <2>2. \/ s = bs /\ (bs.currentZone = None \/ StickyActive(bs, r, t))
        \/ s = SwitchTo(bs, None, None)
    BY <2>1 DEF NoPresence, Quiet, Publish, Depart
  <2> QED
    BY <1>1, <2>2, SwitchToAP
<1>2. CASE ~(ap = None \/ ForceAway(bs, r, t))
  <2>1. ap \in InPresence(bs, r, t)
    BY <1>2 DEF closestInPresence
  <2>2. CASE zones[ap] = None
    BY <1>0, <1>2, <2>1, <2>2 DEF recomputeOne, Quiet
  <2>3. CASE zones[ap] # None /\ bs.currentZone = None
    <3> DEFINE m == SwitchTo(bs, zones[ap], ap)
    <3>1. s = [m EXCEPT !.lastArrivalTs = t]
      BY <1>0, <1>2, <2>3 DEF recomputeOne, Arrive, Publish
    <3>2. /\ m.currentZone = zones[ap] /\ m.currentAP = ap
          /\ m.perAP = bs.perAP /\ DOMAIN m = BeaconFields
      BY SwitchToAP
    <3> HIDE DEF m
    <3>3. s.currentZone = zones[ap] /\ s.currentAP = ap /\ s.perAP = bs.perAP
      BY <3>1, <3>2 DEF BeaconFields
    <3> QED
      BY <1>2, <2>1, <2>3, <3>3
  <2>4. CASE zones[ap] # None /\ bs.currentZone # None
    <3>1. s = InZone(bs, r, zones[ap], ap, t, sighting).bs
      BY <1>0, <1>2, <2>4 DEF recomputeOne
    <3>2. s.currentAP \in InPresence(bs, r, t) /\ s.perAP = bs.perAP
      BY <3>1, <2>1, InZoneAP
    <3> QED
      BY <1>2, <2>1, <2>4, <3>2
  <2> QED
    BY <2>2, <2>3, <2>4
<1> QED
  BY <1>1, <1>2

\* Presence and silence depend on the per-AP readings alone.
LEMMA ReadingsDecide ==
    ASSUME NEW bs, NEW s, s.perAP = bs.perAP, NEW r, NEW t
    PROVE  /\ InPresence(s, r, t) = InPresence(bs, r, t)
           /\ closestInPresence(s, r, t) = closestInPresence(bs, r, t)
           /\ SilentTooLong(s, r, t) <=> SilentTooLong(bs, r, t)
BY DEF InPresence, closestInPresence, SilentTooLong

\* From not_home, recomputeOne arrives exactly at the zone of the AP it was
\* given, when that AP is in presence and the beacon was heard recently.
LEMMA RecomputeArrives ==
    ASSUME NEW t \in Nat, NEW bs, BeaconOK(bs, t), bs.currentZone = None,
           NEW r \in Resolved, NEW zones \in [APs -> Labels \cup {None}],
           NEW ap \in closestInPresence(bs, r, t),
           NEW s, Recomputes(bs, r, zones, t, ap, s),
           s.currentZone # None
    PROVE  /\ zones[s.currentAP] = s.currentZone
           /\ s.currentAP \in InPresence(s, r, t)
           /\ ~SilentTooLong(s, r, t)
<1>1. ~StickyActive(bs, r, t)
  BY DEF StickyActive
<1>2. /\ s.perAP = bs.perAP
      /\ ap \in InPresence(bs, r, t) /\ ~ForceAway(bs, r, t)
      /\ s.currentZone = zones[ap] /\ s.currentAP = ap
  BY <1>1, RecomputeExits
<1>3. ~SilentTooLong(bs, r, t)
  BY <1>1, <1>2 DEF ForceAway
<1> QED
  BY <1>2, <1>3, ReadingsDecide

\* Recording a sighting dates its AP's reading now.
LEMMA SightNow ==
    ASSUME NEW t \in Nat, NEW bs, BeaconOK(bs, t), NEW ap, NEW rssi, NEW r
    PROVE  /\ ap \in DOMAIN Sight(bs, ap, rssi, r, t).perAP
           /\ Sight(bs, ap, rssi, r, t).perAP[ap].lastSightingTs = t
<1> DEFINE ewma == IF ap \in DOMAIN bs.perAP
                   THEN Smooth(bs.perAP[ap].ewma, rssi, r) ELSE rssi
           new  == [ewma |-> ewma, lastSightingTs |-> t]
           aps  == [a \in DOMAIN bs.perAP \cup {ap} |->
                       IF a = ap THEN new ELSE bs.perAP[a]]
<1>1. Sight(bs, ap, rssi, r, t) = [bs EXCEPT !.perAP = aps]
  BY DEF Sight
<1>2. ap \in DOMAIN aps /\ aps[ap].lastSightingTs = t
  OBVIOUS
<1> HIDE DEF aps
<1> QED
  BY <1>1, <1>2 DEF BeaconOK, BeaconFields

\* A sighting, seen as one call of recomputeOne on the recorded reading.
LEMMA SubmitRecomputes ==
    ASSUME Inv, NEW b \in Beacons, NEW ap \in APs, NEW rssi \in RSSIs,
           Submit(b, ap, rssi)
    PROVE  /\ b \in Tracked /\ Tracked' = Tracked
           /\ \A c \in Tracked : c # b => beacons'[c] = beacons[c]
           /\ \E seen, k :
                /\ seen = Sight(beacons[b], ap, rssi, Res(b), now)
                /\ BeaconOK(seen, now) /\ Backed(seen)
                /\ seen.currentZone = beacons[b].currentZone
                /\ k \in closestInPresence(seen, Res(b), now)
                /\ Recomputes(seen, Res(b), top.zones, now, k, beacons'[b])
                /\ Sighted(seen, Res(b), top.zones, now, k, beacons'[b])
<1> DEFINE seen == Sight(beacons[b], ap, rssi, Res(b), now)
<1>1. b \in Tracked
  BY DEF Submit
<1>2. PICK k \in closestInPresence(seen, Res(b), now) :
        beacons' = [beacons EXCEPT ![b] =
                       recomputeOne(seen, Res(b), top.zones, now, TRUE, k).bs]
  BY DEF Submit
<1>3. now \in Nat /\ Res(b) \in Resolved /\ BeaconOK(beacons[b], now)
      /\ Backed(beacons[b])
  BY <1>1, ResType DEF Inv, TypeOK, BackingCoherent
<1>4. /\ BeaconOK(seen, now) /\ Backed(seen)
      /\ seen.currentZone = beacons[b].currentZone
  BY <1>3, SightOK
<1>5. /\ Tracked' = Tracked
      /\ \A c \in Tracked : c # b => beacons'[c] = beacons[c]
      /\ beacons'[b] = recomputeOne(seen, Res(b), top.zones, now, TRUE, k).bs
  BY <1>1, <1>2 DEF Tracked
<1>6. /\ Recomputes(seen, Res(b), top.zones, now, k, beacons'[b])
      /\ Sighted(seen, Res(b), top.zones, now, k, beacons'[b])
  BY <1>5 DEF Recomputes, Sighted
<1> QED
  BY <1>1, <1>2, <1>4, <1>5, <1>6

\* A tick, seen as one call of recomputeOne per beacon.
LEMMA TickRecomputes ==
    ASSUME Inv, Tick
    PROVE  /\ Tracked' = Tracked
           /\ \A b \in Tracked :
                \E k \in closestInPresence(beacons[b], Res(b), now) :
                   /\ Recomputes(beacons[b], Res(b), top.zones, now, k, beacons'[b])
                   /\ Ticked(beacons[b], Res(b), top.zones, now, k, beacons'[b])
<1>1. PICK pick \in Picks(beacons, resolved) :
        beacons' = States([b \in Tracked |->
            recomputeOne(beacons[b], Res(b), top.zones, now, FALSE, pick[b])])
  BY DEF Tick
<1>2. \A b \in Tracked : pick[b] \in closestInPresence(beacons[b], Res(b), now)
  BY <1>1 DEF Picks, Tracked, Res
<1>3. /\ Tracked' = Tracked
      /\ \A b \in Tracked : beacons'[b] =
            recomputeOne(beacons[b], Res(b), top.zones, now, FALSE, pick[b]).bs
  BY <1>1 DEF States, Tracked
<1>4. \A b \in Tracked :
        /\ Recomputes(beacons[b], Res(b), top.zones, now, pick[b], beacons'[b])
        /\ Ticked(beacons[b], Res(b), top.zones, now, pick[b], beacons'[b])
  BY <1>3 DEF Recomputes, Ticked
<1> QED
  BY <1>2, <1>3, <1>4

\* A boot knows no reading.
LEMMA RestartSilent ==
    ASSUME NEW t, NEW u, NEW rows, Restart(t, u, rows), NEW b \in Tracked'
    PROVE  beacons'[b].perAP = [a \in {} |-> 0]
<1> DEFINE bs == NewBeaconState(t.beacons[b])
<1>1. b \in DOMAIN t.beacons
      /\ beacons'[b] \in {bs, RestoreState(bs, rows[b])}
  BY DEF Restart, Tracked
<1>2. bs.perAP = [a \in {} |-> 0] /\ DOMAIN bs = BeaconFields
  BY DEF NewBeaconState, BeaconFields
<1> HIDE DEF bs
<1>3. RestoreState(bs, rows[b]).perAP = bs.perAP
  BY <1>2 DEF RestoreState, BeaconFields
<1> QED
  BY <1>1, <1>2, <1>3

\* The steps that touch no beacon.
LEMMA QuietSteps ==
    ASSUME \/ \E u \in TunableDocs : ApplyTunables(u)
           \/ RepublishAll \/ Persist \/ Advance \/ UNCHANGED vars
    PROVE  beacons' = beacons /\ Tracked' = Tracked
BY DEF ApplyTunables, RepublishAll, Persist, Advance, vars, Tracked

\* A beacon goes to not_home only once its sticky window has run out, boots
\* without a row for it apart.
THEOREM StickyAlwaysHeld == Spec => StickyHold
<1> DEFINE Forgets(b) ==
               \E rows \in {saved, NoRows}, t \in Topologies, u \in TunableDocs :
                  /\ Restart(t, u, rows)
                  /\ b \notin DOMAIN rows \/ rows[b].currentZone = None
           Held(b) == Departs(b) =>
               now - beacons[b].lastArrivalTs >= Res(b).sticky \/ Forgets(b)
<1>1. ASSUME Inv, [Next]_vars, NEW b \in Beacons PROVE Held(b)
  <2> HIDE DEF Forgets
  <2> SUFFICES ASSUME Departs(b)
               PROVE  now - beacons[b].lastArrivalTs >= Res(b).sticky \/ Forgets(b)
    OBVIOUS
  <2>0. /\ b \in Tracked /\ b \in Tracked'
        /\ beacons[b].currentZone # None /\ beacons'[b].currentZone = None
    BY DEF Departs
  <2>1. ASSUME Evolves(b) PROVE now - beacons[b].lastArrivalTs >= Res(b).sticky
    BY <2>0, <2>1 DEF Evolves, Outcome
  <2>2. ASSUME NEW c \in Beacons, NEW ap \in APs, NEW rssi \in RSSIs,
               Submit(c, ap, rssi)
        PROVE  now - beacons[b].lastArrivalTs >= Res(b).sticky
    BY <1>1, <2>0, <2>1, <2>2, SubmitEvolves
  <2>3. CASE Tick
    BY <1>1, <2>0, <2>1, <2>3, TickEvolves
  <2>4. ASSUME NEW t \in Topologies, ApplyTopology(t) PROVE FALSE
    <3>1. b \in DOMAIN t.beacons
      BY <1>1, <2>0, <2>4, ApplyTopologyStep DEF Tracked
    <3> QED
      BY <1>1, <2>0, <2>4, <3>1, ApplyTopologyStep
  <2>5. ASSUME NEW t \in Topologies, NEW u \in TunableDocs,
               NEW rows \in {saved, NoRows}, Restart(t, u, rows)
        PROVE  Forgets(b)
    <3>1. b \in DOMAIN t.beacons
      BY <2>0, <2>5 DEF Tracked, Restart
    <3>2. b \notin DOMAIN rows \/ rows[b].currentZone = None
      BY <1>1, <2>0, <2>5, <3>1, RestartStep
    <3> QED
      BY <2>5, <3>2 DEF Forgets
  <2>6. ASSUME \/ \E u \in TunableDocs : ApplyTunables(u)
               \/ RepublishAll \/ Persist \/ Advance \/ UNCHANGED vars
        PROVE  FALSE
    BY <2>0, <2>6, QuietSteps
  <2> QED
    BY <1>1, <2>2, <2>3, <2>4, <2>5, <2>6 DEF Next
<1>2. Inv /\ [Next]_vars =>
        [\A b \in Beacons : Departs(b) =>
            \/ now - beacons[b].lastArrivalTs >= Res(b).sticky
            \/ \E rows \in {saved, NoRows}, t \in Topologies, u \in TunableDocs :
                  /\ Restart(t, u, rows)
                  /\ b \notin DOMAIN rows \/ rows[b].currentZone = None]_vars
  BY <1>1
<1> QED
  BY <1>2, InvHolds, PTL DEF Spec, StickyHold

\* An arrival is grounded in a reading, or restored from a saved row.
THEOREM ArrivalsGrounded == Spec => ArrivalGrounded
<1> DEFINE Heard(b) ==
               /\ top.zones[beacons'[b].currentAP] = beacons'[b].currentZone
               /\ beacons'[b].currentAP \in InPresence(beacons'[b], Res(b), now)
               /\ ~SilentTooLong(beacons'[b], Res(b), now)
           Restored(b) ==
               /\ b \in DOMAIN saved
               /\ saved[b].currentZone = beacons'[b].currentZone
               /\ beacons'[b].perAP = [a \in {} |-> 0]
           Grounded(b) ==
               beacons[b].currentZone = None /\ beacons'[b].currentZone # None =>
                   Heard(b) \/ Restored(b)
<1>1. ASSUME Inv, [Next]_vars, NEW b \in Tracked, b \in Tracked' PROVE Grounded(b)
  <2> SUFFICES ASSUME beacons[b].currentZone = None, beacons'[b].currentZone # None
               PROVE  Heard(b) \/ Restored(b)
    OBVIOUS
  <2>1. /\ now \in Nat /\ Res(b) \in Resolved /\ BeaconOK(beacons[b], now)
        /\ top.zones \in [APs -> Labels \cup {None}]
    BY <1>1, ResType DEF Inv, TypeOK, ValidTopology
  <2>2. ASSUME NEW c \in Beacons, NEW ap \in APs, NEW rssi \in RSSIs,
               Submit(c, ap, rssi)
        PROVE  Heard(b)
    <3>1. b = c
      BY <1>1, <2>2, SubmitRecomputes
    <3>2. PICK seen, k :
            /\ BeaconOK(seen, now)
            /\ seen.currentZone = None
            /\ k \in closestInPresence(seen, Res(b), now)
            /\ Recomputes(seen, Res(b), top.zones, now, k, beacons'[b])
      BY <1>1, <2>2, <3>1, SubmitRecomputes
    <3> QED
      BY <2>1, <3>2, RecomputeArrives
  <2>3. ASSUME Tick PROVE Heard(b)
    <3>1. PICK k \in closestInPresence(beacons[b], Res(b), now) :
            Recomputes(beacons[b], Res(b), top.zones, now, k, beacons'[b])
      BY <1>1, <2>3, TickRecomputes
    <3> QED
      BY <2>1, <3>1, RecomputeArrives
  <2>4. ASSUME NEW t \in Topologies, ApplyTopology(t) PROVE FALSE
    <3>1. b \in DOMAIN t.beacons
      BY <1>1, <2>4, ApplyTopologyStep DEF Tracked
    <3> QED
      BY <1>1, <2>4, <3>1, ApplyTopologyStep
  <2>5. ASSUME NEW t \in Topologies, NEW u \in TunableDocs,
               NEW rows \in {saved, NoRows}, Restart(t, u, rows)
        PROVE  Restored(b)
    <3>1. b \in DOMAIN t.beacons
      BY <1>1, <2>5 DEF Tracked, Restart
    <3>2. b \in DOMAIN rows /\ beacons'[b].currentZone = rows[b].currentZone
      BY <1>1, <2>5, <3>1, RestartStep
    <3>3. rows = saved
      BY <3>2 DEF NoRows
    <3>4. beacons'[b].perAP = [a \in {} |-> 0]
      BY <1>1, <2>5, RestartSilent
    <3> QED
      BY <3>2, <3>3, <3>4
  <2>6. ASSUME \/ \E u \in TunableDocs : ApplyTunables(u)
               \/ RepublishAll \/ Persist \/ Advance \/ UNCHANGED vars
        PROVE  FALSE
    BY <2>6, QuietSteps
  <2> HIDE DEF Heard, Restored
  <2> QED
    BY <1>1, <2>2, <2>3, <2>4, <2>5, <2>6 DEF Next
<1>2. Inv /\ [Next]_vars =>
        [\A b \in Tracked \cap Tracked' :
            beacons[b].currentZone = None /\ beacons'[b].currentZone # None =>
               \/ /\ top.zones[beacons'[b].currentAP] = beacons'[b].currentZone
                  /\ beacons'[b].currentAP \in InPresence(beacons'[b], Res(b), now)
                  /\ ~SilentTooLong(beacons'[b], Res(b), now)
               \/ /\ b \in DOMAIN saved
                  /\ saved[b].currentZone = beacons'[b].currentZone
                  /\ beacons'[b].perAP = [a \in {} |-> 0]]_vars
  BY <1>1
<1> QED
  BY <1>2, InvHolds, PTL DEF Spec, ArrivalGrounded

\* No sighting above the floor, with every AP in presence on the map, leaves
\* its beacon at not_home.
THEOREM ArrivalsImmediate == Spec => ArrivalImmediate
<1> DEFINE nearby(b) == InPresence(beacons'[b], Res(b), now)
           Heeded(b) == beacons'[b].currentZone = None =>
               ((\A a \in nearby(b) : top.zones[a] # None) =>
                   \A ap \in nearby(b), rssi \in RSSIs : ~Submit(b, ap, rssi))
<1>1. ASSUME Inv, [Next]_vars, NEW b \in Tracked PROVE Heeded(b)
  <2> SUFFICES ASSUME beacons'[b].currentZone = None,
                      \A a \in nearby(b) : top.zones[a] # None,
                      NEW ap \in nearby(b), NEW rssi \in RSSIs, Submit(b, ap, rssi)
               PROVE  FALSE
    OBVIOUS
  <2>1. /\ now \in Nat /\ Res(b) \in Resolved /\ BeaconOK(beacons[b], now)
        /\ top.zones \in [APs -> Labels \cup {None}] /\ b \in Beacons
    BY <1>1, ResType DEF Inv, TypeOK, ConfigCoherent, ValidTopology
  <2>a. Inv'
    BY <1>1, NextInv
  <2>2. ap \in APs
    <3>1. Tracked' = Tracked
      BY <1>1 DEF Submit, Tracked
    <3>2. BeaconOK(beacons'[b], now')
      BY <1>1, <2>a, <3>1 DEF Inv, TypeOK
    <3> QED
      BY <3>2 DEF InPresence, BeaconOK
  <2>3. PICK seen, k :
          /\ seen = Sight(beacons[b], ap, rssi, Res(b), now)
          /\ BeaconOK(seen, now)
          /\ seen.currentZone = beacons[b].currentZone
          /\ k \in closestInPresence(seen, Res(b), now)
          /\ Recomputes(seen, Res(b), top.zones, now, k, beacons'[b])
    BY <1>1, <2>1, <2>2, SubmitRecomputes
  <2>4. beacons'[b].perAP = seen.perAP
    BY <2>1, <2>3, RecomputeExits
  <2>5. nearby(b) = InPresence(seen, Res(b), now)
    BY <2>4, ReadingsDecide
  <2>6. ap \in DOMAIN seen.perAP /\ seen.perAP[ap].lastSightingTs = now
    BY <2>1, <2>3, SightNow
  <2>7. Res(b).tAwayMax \in Nat
    BY <2>1, ResolvedFields
  <2>8. ~ForceAway(seen, Res(b), now)
    BY <2>1, <2>6, <2>7 DEF ForceAway, SilentTooLong
  <2>9. k # None
    <3>1. InPresence(seen, Res(b), now) # {}
      BY <2>5
    <3>2. k \in InPresence(seen, Res(b), now)
      BY <2>3, <3>1 DEF closestInPresence
    <3> QED
      BY <3>2, <2>3, EmptyAssumption DEF InPresence, BeaconOK
  <2>10. k \in InPresence(seen, Res(b), now)
    BY <2>3, <2>9 DEF closestInPresence
  <2>11. beacons'[b].currentAP \in InPresence(seen, Res(b), now)
    BY <2>1, <2>3, <2>5, <2>8, <2>9, <2>10, RecomputeExits
  <2>12. beacons'[b].currentAP # None
    BY <2>3, <2>11, EmptyAssumption DEF InPresence, BeaconOK
  <2>13. Backed(beacons'[b])
    <3>1. Tracked' = Tracked
      BY <1>1, <2>1, <2>2, SubmitRecomputes
    <3> QED
      BY <1>1, <2>a, <3>1 DEF Inv, BackingCoherent
  <2> QED
    BY <2>12, <2>13 DEF Backed
<1>2. Inv /\ [Next]_vars =>
        [\A b \in Tracked \cap Tracked' :
            beacons'[b].currentZone = None =>
               LET near == InPresence(beacons'[b], Res(b), now)
               IN  (\A a \in near : top.zones[a] # None) =>
                      \A ap \in near, rssi \in RSSIs : ~Submit(b, ap, rssi)]_vars
  BY <1>1
<1> QED
  BY <1>2, InvHolds, PTL DEF Spec, ArrivalImmediate

=============================================================================
