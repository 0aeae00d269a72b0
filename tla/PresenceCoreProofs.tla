------------------------- MODULE PresenceCoreProofs -------------------------
(***************************************************************************)
(* Proofs about the presence engine between two configuration changes,     *)
(* with the history variables of MCPresenceCore: what a tick leaves        *)
(* behind, and that the engine's candidate counter counts what ADR-0006    *)
(* says it counts.  They hold for every set of beacons and APs, every      *)
(* validated configuration and every bound on the history.                 *)
(***************************************************************************)
EXTENDS MCPresenceCore, PresenceEngineProofs

-----------------------------------------------------------------------------
(* What a tick leaves behind.                                              *)

Settled == TickClearsStale /\ OffFadedAP

\* One beacon after recomputeOne: it is not stale, and its AP has not faded
\* unless the closest AP is on no map.
LEMMA RecomputeSettles ==
    ASSUME NEW t \in Nat, NEW bs, BeaconOK(bs, t), Backed(bs),
           NEW r \in Resolved, NEW zones \in [APs -> Labels \cup {None}],
           NEW ap \in closestInPresence(bs, r, t),
           NEW s, Recomputes(bs, r, zones, t, ap, s)
    PROVE  /\ ~Stale(s, r, t)
           /\ \/ s.currentZone = None
              \/ StickyActive(s, r, t)
              \/ ~CurrentFaded(s, r, t)
              \/ \E a \in APs : a \in closestInPresence(s, r, t) /\ zones[a] = None
<1>1. /\ s.perAP = bs.perAP
      /\ \/ /\ ap = None \/ ForceAway(bs, r, t)
            /\ s.currentZone = None \/ (s = bs /\ StickyActive(bs, r, t))
         \/ /\ ap \in InPresence(bs, r, t) /\ ~ForceAway(bs, r, t)
            /\ zones[ap] = None /\ s = bs
         \/ /\ ap \in InPresence(bs, r, t) /\ ~ForceAway(bs, r, t)
            /\ zones[ap] # None
            /\ s.currentAP \in InPresence(bs, r, t)
  BY RecomputeExits
<1>2. /\ InPresence(s, r, t) = InPresence(bs, r, t)
      /\ closestInPresence(s, r, t) = closestInPresence(bs, r, t)
      /\ SilentTooLong(s, r, t) <=> SilentTooLong(bs, r, t)
  BY <1>1, ReadingsDecide
<1>3. StickyActive(bs, r, t) /\ s.currentZone # None => StickyActive(s, r, t)
  <2>1. PICK sighting \in BOOLEAN : s = recomputeOne(bs, r, zones, t, sighting, ap).bs
    BY DEF Recomputes
  <2>2. Outcome(bs, r, t, recomputeOne(bs, r, zones, t, sighting, ap))
    BY RecomputeOutcome
  <2>3. bs.currentZone # None /\ s.currentZone # None
           => s.lastArrivalTs = bs.lastArrivalTs
    BY <2>1, <2>2 DEF Outcome
  <2> QED
    BY <2>3 DEF StickyActive
<1>4. ASSUME s.currentZone # None, ~StickyActive(s, r, t)
      PROVE  ap \in InPresence(bs, r, t) /\ ~SilentTooLong(bs, r, t)
  BY <1>1, <1>3, <1>4 DEF ForceAway
<1>5. ~Stale(s, r, t)
  BY <1>2, <1>4 DEF Stale
<1>6. ASSUME s.currentZone # None, ~StickyActive(s, r, t), CurrentFaded(s, r, t)
      PROVE  \E a \in APs : a \in closestInPresence(s, r, t) /\ zones[a] = None
  <2>1. ap \in InPresence(bs, r, t)
    BY <1>4, <1>6
  <2>2. ap \in APs
    BY <2>1 DEF InPresence, BeaconOK
  <2>3. s.currentAP \notin InPresence(bs, r, t)
    BY <1>2, <1>6 DEF CurrentFaded
  <2>4. ap # None
    BY <2>2, EmptyAssumption
  <2>5. zones[ap] = None
    BY <1>1, <1>3, <1>6, <2>3, <2>4
  <2> QED
    BY <1>2, <2>2, <2>5
<1> QED
  BY <1>5, <1>6

\* A tick settles every beacon.
LEMMA TickSettles ==
    ASSUME Inv, Tick
    PROVE  Settled'
<1>1. /\ Tracked' = Tracked /\ Unconfigured
      /\ \A b \in Tracked : beacons'[b].name = beacons[b].name
  <2>1. DOMAIN beacons' = Tracked /\ Unconfigured /\ \A c \in Tracked : Evolves(c)
    BY TickEvolves
  <2>2. \A c \in Tracked : beacons'[c].name = beacons[c].name
    BY <2>1 DEF Evolves, Outcome
  <2> QED
    BY <2>1, <2>2 DEF Tracked
<1>2. now' = now /\ top' = top /\ resolved' = resolved
  BY <1>1 DEF Unconfigured
<1>3. \A b \in Tracked : Res(b)' = Res(b)
  BY <1>1, <1>2 DEF Res
<1>4. ASSUME NEW b \in Tracked
      PROVE  /\ ~Stale(beacons'[b], Res(b), now)
             /\ \/ beacons'[b].currentZone = None
                \/ StickyActive(beacons'[b], Res(b), now)
                \/ ~CurrentFaded(beacons'[b], Res(b), now)
                \/ \E a \in APs : /\ a \in closestInPresence(beacons'[b], Res(b), now)
                                  /\ top.zones[a] = None
  <2>1. /\ now \in Nat /\ Res(b) \in Resolved /\ BeaconOK(beacons[b], now)
        /\ Backed(beacons[b]) /\ top.zones \in [APs -> Labels \cup {None}]
    BY ResType DEF Inv, TypeOK, BackingCoherent, ValidTopology
  <2>2. PICK k \in closestInPresence(beacons[b], Res(b), now) :
          Recomputes(beacons[b], Res(b), top.zones, now, k, beacons'[b])
    BY TickRecomputes
  <2> QED
    BY <2>1, <2>2, RecomputeSettles, SMTT(30)
<1>5. TickClearsStale'
  BY <1>1, <1>2, <1>3, <1>4 DEF TickClearsStale
<1>6. OffFadedAP'
  BY <1>1, <1>2, <1>3, <1>4 DEF OffFadedAP
<1> QED
  BY <1>5, <1>6 DEF Settled

\* Every step of the restricted engine is a step of the engine.
LEMMA CoreSteps == [CoreNext]_coreVars => [Next]_vars
BY DEF CoreNext, Next, coreVars, vars

\* The invariant of the engine, for the restricted one.
LEMMA CoreInvHolds == CoreSpec => []Inv
<1>1. CoreInit => Inv
  BY InitInv DEF CoreInit
<1>2. Inv /\ [CoreNext]_coreVars => Inv'
  BY NextInv, CoreSteps
<1> QED
  BY <1>1, <1>2, PTL DEF CoreSpec

\* The steps of the restricted engine settle, or are no tick.
LEMMA SettledStep == Inv /\ Settled /\ [CoreNext]_coreVars => Settled'
<1> SUFFICES ASSUME Inv, Settled, [CoreNext]_coreVars PROVE Settled'
  OBVIOUS
<1>1. CASE Tick
  BY <1>1, TickSettles
<1>2. ASSUME ticked' = FALSE PROVE Settled'
  BY <1>2 DEF Settled, TickClearsStale, OffFadedAP
<1>3. CASE UNCHANGED coreVars
  <2>1. /\ ticked' = ticked /\ now' = now /\ top' = top /\ resolved' = resolved
        /\ beacons' = beacons
    BY <1>3 DEF coreVars, vars
  <2>2. Tracked' = Tracked /\ \A b \in Tracked : Res(b)' = Res(b)
    BY <2>1 DEF Tracked, Res
  <2>3. TickClearsStale'
    BY <2>1, <2>2 DEF Settled, TickClearsStale
  <2>4. OffFadedAP'
    BY <2>1, <2>2 DEF Settled, OffFadedAP
  <2> QED
    BY <2>3, <2>4 DEF Settled
<1> QED
  BY <1>1, <1>2, <1>3 DEF CoreNext

\* Both facts about a tick hold throughout.
LEMMA SettledHolds == CoreSpec => []Settled
<1>1. CoreInit => Settled
  BY DEF CoreInit, Settled, TickClearsStale, OffFadedAP
<1> QED
  BY <1>1, SettledStep, CoreInvHolds, PTL DEF CoreSpec

\* After a tick no beacon is published against its tunables.
THEOREM TicksClearStale == CoreSpec => []TickClearsStale
<1>1. Settled => TickClearsStale
  BY DEF Settled
<1> QED
  BY <1>1, SettledHolds, PTL

\* After a tick no beacon is published by a faded AP, sticky windows and
\* unmapped closest APs apart.
THEOREM TicksLeaveFadedAPs == CoreSpec => []OffFadedAP
<1>1. Settled => OffFadedAP
  BY DEF Settled
<1> QED
  BY <1>1, SettledHolds, PTL

-----------------------------------------------------------------------------
(* The candidate counter.                                                  *)

\* The closest AP `ap` is in another zone and ahead of the backing AP by the
\* hysteresis margin.
Presses(bs, r, zones, t, ap) ==
    /\ ap \in closestInPresence(bs, r, t) \ {None}
    /\ zones[ap] \notin {None, bs.currentZone}
    /\ bs.currentAP \in InPresence(bs, r, t)
    /\ effectiveRSSI(bs.perAP[ap], t, r) - effectiveRSSI(bs.perAP[bs.currentAP], t, r)
          >= r.hysteresis

\* The confirmations `ap` has after one more.
Count(bs, ap) == IF bs.candidateAP = ap THEN bs.candidateCount + 1 ELSE 1

\* The published state and the candidate of a changed beacon.
LEMMA CandidateFields ==
    ASSUME NEW t \in Nat, NEW bs, BeaconOK(bs, t), NEW zone, NEW ap, NEW n
    PROVE  /\ SwitchTo(bs, zone, ap).candidateAP = None
           /\ [SwitchTo(bs, zone, ap) EXCEPT !.lastArrivalTs = n].candidateAP = None
           /\ ResetCandidate(bs).candidateAP = None
           /\ ResetCandidate(bs).currentZone = bs.currentZone
           /\ [bs EXCEPT !.candidateAP = ap, !.candidateCount = n].candidateAP = ap
           /\ [bs EXCEPT !.candidateAP = ap, !.candidateCount = n].candidateCount = n
           /\ [bs EXCEPT !.candidateAP = ap, !.candidateCount = n].currentAP = bs.currentAP
           /\ [bs EXCEPT !.candidateAP = ap, !.candidateCount = n].currentZone
                 = bs.currentZone
BY DEF BeaconOK, BeaconFields, SwitchTo, ResetCandidate

\* Decayed readings are integers.
LEMMA EffType ==
    ASSUME NEW t \in Nat, NEW bs, BeaconOK(bs, t), NEW r \in Resolved,
           NEW a \in DOMAIN bs.perAP
    PROVE  effectiveRSSI(bs.perAP[a], t, r) \in Int
<1>1. bs.perAP[a].ewma \in Int /\ bs.perAP[a].lastSightingTs \in Int
  BY DEF BeaconOK, APState
<1>2. r.grace \in Int /\ r.decay \in Int
  BY ResolvedFields
<1>3. r.decay * ((t - bs.perAP[a].lastSightingTs) - r.grace) \in Int
  BY <1>1, <1>2
<1> QED
  BY <1>1, <1>2, <1>3 DEF effectiveRSSI

\* s is the result of Confirm, of Hysteresis on a sighting.
Confirms(bs, r, zone, ap, s) == s = Confirm(bs, r, zone, ap).bs
Weighs(bs, r, zone, ap, t, s) == s = Hysteresis(bs, r, zone, ap, t, TRUE).bs

\* One more confirmation: counted, or the move.
LEMMA ConfirmExits ==
    ASSUME NEW t \in Nat, NEW bs, BeaconOK(bs, t), NEW r, NEW zone, NEW ap,
           NEW s, Confirms(bs, r, zone, ap, s)
    PROVE  \/ /\ s.currentAP = bs.currentAP /\ s.currentZone = bs.currentZone
              /\ s.candidateAP = ap /\ s.candidateCount = Count(bs, ap)
           \/ /\ s.currentAP = ap /\ s.candidateAP = None
              /\ ~(Count(bs, ap) < r.confirm)
<1>1. \/ s = [bs EXCEPT !.candidateAP = ap, !.candidateCount = Count(bs, ap)]
      \/ s = SwitchTo(bs, zone, ap) /\ ~(Count(bs, ap) < r.confirm)
  BY DEF Confirms, Confirm, Quiet, Publish, Count
<1>2. CASE s = [bs EXCEPT !.candidateAP = ap, !.candidateCount = Count(bs, ap)]
  BY <1>2, CandidateFields
<1>3. CASE s = SwitchTo(bs, zone, ap) /\ ~(Count(bs, ap) < r.confirm)
  BY <1>3, CandidateFields, SwitchToAP
<1> QED
  BY <1>1, <1>2, <1>3

\* A sighting against a backing AP that is still in presence.
LEMMA HysteresisExits ==
    ASSUME NEW t \in Nat, NEW bs, BeaconOK(bs, t), NEW r \in Resolved,
           NEW zones, NEW ap \in closestInPresence(bs, r, t),
           ap \in InPresence(bs, r, t), ap # None,
           zones[ap] \notin {None, bs.currentZone},
           bs.currentAP \in InPresence(bs, r, t),
           NEW s, Weighs(bs, r, zones[ap], ap, t, s)
    PROVE  \/ s.candidateAP = None /\ s.currentZone = bs.currentZone
           \/ /\ Presses(bs, r, zones, t, ap)
              /\ \/ /\ s.currentAP = bs.currentAP /\ s.currentZone = bs.currentZone
                    /\ s.candidateAP = ap /\ s.candidateCount = Count(bs, ap)
                 \/ /\ s.currentAP = ap /\ s.candidateAP = None
                    /\ ~(Count(bs, ap) < r.confirm)
<1> DEFINE Eff(a) == effectiveRSSI(bs.perAP[a], t, r)
<1>1. Eff(ap) \in Int /\ Eff(bs.currentAP) \in Int /\ r.hysteresis \in Int
  BY EffType, ResolvedFields DEF InPresence
<1>2. CASE Eff(ap) - Eff(bs.currentAP) < r.hysteresis
  <2>1. s = ResetCandidate(bs)
    BY <1>2 DEF Weighs, Hysteresis, Quiet
  <2> QED
    BY <2>1, CandidateFields
<1>3. CASE ~(Eff(ap) - Eff(bs.currentAP) < r.hysteresis)
  <2>1. Confirms(bs, r, zones[ap], ap, s)
    BY <1>3 DEF Weighs, Confirms, Hysteresis
  <2>2. Eff(ap) - Eff(bs.currentAP) >= r.hysteresis
    BY <1>1, <1>3
  <2>3. Presses(bs, r, zones, t, ap)
    BY <2>2 DEF Presses
  <2>4. \/ /\ s.currentAP = bs.currentAP /\ s.currentZone = bs.currentZone
           /\ s.candidateAP = ap /\ s.candidateCount = Count(bs, ap)
        \/ /\ s.currentAP = ap /\ s.candidateAP = None
           /\ ~(Count(bs, ap) < r.confirm)
    BY <2>1, ConfirmExits
  <2> QED
    BY <2>3, <2>4
<1> QED
  BY <1>2, <1>3

\* A call of recomputeOne with an AP in presence, up to the hysteresis test.
LEMMA RecomputeEarly ==
    ASSUME NEW t \in Nat, NEW bs, BeaconOK(bs, t), Backed(bs),
           NEW r \in Resolved, NEW zones \in [APs -> Labels \cup {None}],
           NEW ap \in closestInPresence(bs, r, t), NEW s,
           \/ Sighted(bs, r, zones, t, ap, s)
           \/ Ticked(bs, r, zones, t, ap, s)
    PROVE  \/ s = bs /\ (ap = None \/ zones[ap] = None)
           \/ /\ s.candidateAP = None
              /\ \/ s.currentZone \in {None, bs.currentZone}
                 \/ bs.currentZone = None
                 \/ bs.currentAP \notin InPresence(bs, r, t)
                 \/ zones[bs.currentAP] # bs.currentZone
           \/ /\ ap \in InPresence(bs, r, t) /\ ap # None
              /\ zones[ap] \notin {None, bs.currentZone}
              /\ bs.currentAP \in InPresence(bs, r, t)
              /\ Sighted(bs, r, zones, t, ap, s) => Weighs(bs, r, zones[ap], ap, t, s)
              /\ Ticked(bs, r, zones, t, ap, s) => s = bs
<1>0. PICK sighting \in BOOLEAN : s = recomputeOne(bs, r, zones, t, sighting, ap).bs
  BY DEF Sighted, Ticked
<1>1. CASE ap = None \/ ForceAway(bs, r, t)
  <2>1. s = NoPresence(bs, r, t).bs
    BY <1>0, <1>1 DEF recomputeOne
  <2>2. CASE bs.currentZone = None
    <3>1. s = bs
      BY <2>1, <2>2 DEF NoPresence, Quiet
    <3>2. bs.candidateAP = None
      BY <2>2 DEF Backed
    <3> QED
      BY <3>1, <3>2
  <2>3. CASE StickyActive(bs, r, t)
    <3>1. s = bs
      BY <2>1, <2>3 DEF NoPresence, Quiet
    <3> QED
      BY <1>1, <2>3, <3>1 DEF ForceAway
  <2>4. CASE ~(bs.currentZone = None \/ StickyActive(bs, r, t))
    <3>1. s = SwitchTo(bs, None, None)
      BY <2>1, <2>4 DEF NoPresence, Publish, Depart
    <3> QED
      BY <3>1, CandidateFields, SwitchToAP
  <2> QED
    BY <2>2, <2>3, <2>4
<1>2. CASE ~(ap = None \/ ForceAway(bs, r, t)) /\ zones[ap] = None
  BY <1>0, <1>2 DEF recomputeOne, Quiet
<1>3. CASE /\ ~(ap = None \/ ForceAway(bs, r, t)) /\ zones[ap] # None
           /\ bs.currentZone = None
  <2>1. s = [SwitchTo(bs, zones[ap], ap) EXCEPT !.lastArrivalTs = t]
    BY <1>0, <1>3 DEF recomputeOne, Arrive, Publish
  <2> QED
    BY <1>3, <2>1, CandidateFields
<1>4. CASE /\ ~(ap = None \/ ForceAway(bs, r, t)) /\ zones[ap] # None
           /\ bs.currentZone # None
  <2>1. s = InZone(bs, r, zones[ap], ap, t, sighting).bs
    BY <1>0, <1>4 DEF recomputeOne
  <2>2. ap \in InPresence(bs, r, t)
    BY <1>4 DEF closestInPresence
  <2>3. CASE CurrentFaded(bs, r, t)
    <3>1. s = SwitchTo(bs, zones[ap], ap)
      BY <2>1, <2>3 DEF InZone, Publish
    <3> QED
      BY <2>3, <3>1, CandidateFields DEF CurrentFaded
  <2>4. CASE ~CurrentFaded(bs, r, t) /\ ap = bs.currentAP
    <3>1. s = SwitchTo(bs, zones[ap], ap)
      BY <2>1, <2>4 DEF InZone
    <3>2. s.candidateAP = None /\ s.currentZone = zones[ap]
      BY <3>1, CandidateFields, SwitchToAP
    <3> QED
      BY <2>4, <3>2
  <2>5. CASE ~CurrentFaded(bs, r, t) /\ ap # bs.currentAP /\ zones[ap] = bs.currentZone
    <3>1. s = ResetCandidate(bs)
      BY <2>1, <2>5 DEF InZone, Quiet
    <3> QED
      BY <3>1, CandidateFields
  <2>6. CASE ~CurrentFaded(bs, r, t) /\ ap # bs.currentAP /\ zones[ap] # bs.currentZone
    <3>1. Sighted(bs, r, zones, t, ap, s) => Weighs(bs, r, zones[ap], ap, t, s)
      BY <1>4, <2>6 DEF Sighted, recomputeOne, InZone, Weighs
    <3>2. Ticked(bs, r, zones, t, ap, s) => s = bs
      BY <1>4, <2>6 DEF Ticked, recomputeOne, InZone, Hysteresis, Quiet
    <3> QED
      BY <1>4, <2>2, <2>6, <3>1, <3>2 DEF CurrentFaded
  <2> QED
    BY <2>3, <2>4, <2>5, <2>6
<1> QED
  BY <1>1, <1>2, <1>3, <1>4

\* The candidate after a sighting.
LEMMA SightedCandidate ==
    ASSUME NEW t \in Nat, NEW bs, BeaconOK(bs, t), Backed(bs),
           NEW r \in Resolved, NEW zones \in [APs -> Labels \cup {None}],
           NEW ap \in closestInPresence(bs, r, t),
           NEW s, Sighted(bs, r, zones, t, ap, s)
    PROVE  \/ s.candidateAP = None
           \/ s = bs /\ (ap = None \/ zones[ap] = None)
           \/ /\ Presses(bs, r, zones, t, ap)
              /\ s.currentAP = bs.currentAP
              /\ s.candidateAP = ap /\ s.candidateCount = Count(bs, ap)
<1>1. \/ s = bs /\ (ap = None \/ zones[ap] = None)
      \/ s.candidateAP = None
      \/ /\ ap \in InPresence(bs, r, t) /\ ap # None
         /\ zones[ap] \notin {None, bs.currentZone}
         /\ bs.currentAP \in InPresence(bs, r, t)
         /\ Weighs(bs, r, zones[ap], ap, t, s)
  BY RecomputeEarly
<1>2. ASSUME ap \in InPresence(bs, r, t), ap # None,
             zones[ap] \notin {None, bs.currentZone},
             bs.currentAP \in InPresence(bs, r, t),
             Weighs(bs, r, zones[ap], ap, t, s)
      PROVE  \/ s.candidateAP = None
             \/ /\ Presses(bs, r, zones, t, ap)
                /\ s.currentAP = bs.currentAP
                /\ s.candidateAP = ap /\ s.candidateCount = Count(bs, ap)
  BY <1>2, HysteresisExits
<1> QED
  BY <1>1, <1>2

\* A move away from a backing AP that keeps its label and its presence.
LEMMA SightedMove ==
    ASSUME NEW t \in Nat, NEW bs, BeaconOK(bs, t), Backed(bs),
           NEW r \in Resolved, NEW zones \in [APs -> Labels \cup {None}],
           NEW ap \in closestInPresence(bs, r, t),
           NEW s, Sighted(bs, r, zones, t, ap, s),
           bs.currentZone # None, s.currentZone \notin {None, bs.currentZone},
           zones[bs.currentAP] = bs.currentZone,
           bs.currentAP \in InPresence(bs, r, t)
    PROVE  /\ Presses(bs, r, zones, t, ap)
           /\ s.currentAP = ap
           /\ Count(bs, ap) >= r.confirm
<1>1. /\ ap \in InPresence(bs, r, t) /\ ap # None
      /\ zones[ap] \notin {None, bs.currentZone}
      /\ Weighs(bs, r, zones[ap], ap, t, s)
  BY RecomputeEarly
<1>2. /\ Presses(bs, r, zones, t, ap)
      /\ s.currentAP = ap
      /\ ~(Count(bs, ap) < r.confirm)
  BY <1>1, HysteresisExits
<1>3. Count(bs, ap) \in Nat /\ r.confirm \in Nat
  BY ResolvedFields DEF Count, BeaconOK
<1> QED
  BY <1>2, <1>3

\* A tick keeps the candidate or forgets it.
LEMMA TickedCandidate ==
    ASSUME NEW t \in Nat, NEW bs, BeaconOK(bs, t), Backed(bs),
           NEW r \in Resolved, NEW zones \in [APs -> Labels \cup {None}],
           NEW ap \in closestInPresence(bs, r, t),
           NEW s, Ticked(bs, r, zones, t, ap, s)
    PROVE  /\ s.candidateAP = None \/ s = bs
           /\ \/ s.currentZone \in {None, bs.currentZone}
              \/ bs.currentZone = None
              \/ bs.currentAP \notin InPresence(bs, r, t)
              \/ zones[bs.currentAP] # bs.currentZone
BY RecomputeEarly

LeadType == lead \in [Beacons -> [APs -> 0..MaxLead]]

\* The engine has counted no confirmation that the history has not.
Counted ==
    \A b \in Tracked : beacons[b].candidateAP # None =>
        \/ lead[b][beacons[b].candidateAP] = MaxLead
        \/ lead[b][beacons[b].candidateAP] >= beacons[b].candidateCount

CoreInv == Inv /\ LeadType /\ Counted

\* One more lead, up to the bound.
Raised(n) == IF n < MaxLead THEN n + 1 ELSE MaxLead

\* What CountLead records.
LEMMA CountLeadEffect ==
    ASSUME LeadType, NEW b \in Beacons, CountLead(b)
    PROVE  /\ LeadType'
           /\ \A c \in Beacons : c # b => lead'[c] = lead[c]
           /\ beacons'[b].currentAP = beacons[b].currentAP =>
                 \A a \in APs :
                    /\ Leads(b, a) => lead'[b][a] = Raised(lead[b][a])
                    /\ Masked(b) => lead'[b][a] \in {lead[b][a], Raised(lead[b][a])}
<1>1. MaxLead \in Nat
  BY LeadAssumption
<1> DEFINE new == IF beacons'[b].currentAP # beacons[b].currentAP THEN NoLead
                  ELSE [c \in APs |-> IF Leads(b, c) THEN Raised(lead[b][c])
                                      ELSE IF Masked(b) THEN lead[b][c] ELSE 0]
<1>2. lead' = [lead EXCEPT ![b] = new]
  BY DEF CountLead, Raised
<1>3. new \in [APs -> 0..MaxLead]
  BY <1>1 DEF NoLead, LeadType, Raised
<1>4. /\ LeadType' /\ lead'[b] = new
      /\ \A c \in Beacons : c # b => lead'[c] = lead[c]
  BY <1>2, <1>3 DEF LeadType
<1>5. beacons'[b].currentAP = beacons[b].currentAP =>
         \A a \in APs :
            /\ Leads(b, a) => new[a] = Raised(lead[b][a])
            /\ Masked(b) => new[a] \in {lead[b][a], Raised(lead[b][a])}
  OBVIOUS
<1> QED
  BY <1>4, <1>5

\* Pressing before the engine decides is leading after it has.
LEMMA PressesLeads ==
    ASSUME NEW b, NEW seen, NEW c,
           Presses(seen, Res(b), top.zones, now, c),
           beacons'[b].perAP = seen.perAP,
           seen.currentAP = beacons[b].currentAP,
           seen.currentZone = beacons[b].currentZone
    PROVE  Leads(b, c)
<1>1. /\ InPresence(beacons'[b], Res(b), now) = InPresence(seen, Res(b), now)
      /\ closestInPresence(beacons'[b], Res(b), now)
            = closestInPresence(seen, Res(b), now)
  BY ReadingsDecide
<1> QED
  BY <1>1 DEF Presses, Leads

\* Recording a sighting keeps the published AP and the candidate.
LEMMA SightKeeps ==
    ASSUME NEW t \in Nat, NEW bs, BeaconOK(bs, t), NEW ap, NEW rssi, NEW r
    PROVE  /\ Sight(bs, ap, rssi, r, t).currentAP = bs.currentAP
           /\ Sight(bs, ap, rssi, r, t).candidateAP = bs.candidateAP
           /\ Sight(bs, ap, rssi, r, t).candidateCount = bs.candidateCount
BY DEF BeaconOK, BeaconFields, Sight

\* A sighting of the restricted engine, with what holds of its parts.
LEMMA SightingFacts ==
    ASSUME Inv, NEW b \in Beacons, NEW ap \in APs, NEW rssi \in RSSIs,
           Submit(b, ap, rssi)
    PROVE  /\ b \in Tracked /\ Tracked' = Tracked /\ now \in Nat
           /\ Res(b) \in Resolved /\ top.zones \in [APs -> Labels \cup {None}]
           /\ \A c \in Tracked : c # b => beacons'[c] = beacons[c]
           /\ \E seen, k :
                /\ BeaconOK(seen, now) /\ Backed(seen)
                /\ seen.currentZone = beacons[b].currentZone
                /\ seen.currentAP = beacons[b].currentAP
                /\ seen.candidateAP = beacons[b].candidateAP
                /\ seen.candidateCount = beacons[b].candidateCount
                /\ k \in closestInPresence(seen, Res(b), now)
                /\ Sighted(seen, Res(b), top.zones, now, k, beacons'[b])
                /\ beacons'[b].perAP = seen.perAP
<1>1. /\ b \in Tracked /\ Tracked' = Tracked
      /\ \A c \in Tracked : c # b => beacons'[c] = beacons[c]
  BY SubmitRecomputes
<1>2. /\ now \in Nat /\ Res(b) \in Resolved /\ BeaconOK(beacons[b], now)
      /\ top.zones \in [APs -> Labels \cup {None}]
  BY <1>1, ResType DEF Inv, TypeOK, ValidTopology
<1>3. PICK seen, k :
        /\ seen = Sight(beacons[b], ap, rssi, Res(b), now)
        /\ BeaconOK(seen, now) /\ Backed(seen)
        /\ seen.currentZone = beacons[b].currentZone
        /\ k \in closestInPresence(seen, Res(b), now)
        /\ Recomputes(seen, Res(b), top.zones, now, k, beacons'[b])
        /\ Sighted(seen, Res(b), top.zones, now, k, beacons'[b])
  BY SubmitRecomputes
<1>4. /\ seen.currentAP = beacons[b].currentAP
      /\ seen.candidateAP = beacons[b].candidateAP
      /\ seen.candidateCount = beacons[b].candidateCount
  BY <1>2, <1>3, SightKeeps
<1>5. beacons'[b].perAP = seen.perAP
  BY <1>2, <1>3, RecomputeExits
<1> QED
  BY <1>1, <1>2, <1>3, <1>4, <1>5

\* A sighting and its history keep the count.
LEMMA SubmitCounted ==
    ASSUME CoreInv, NEW b \in Beacons, NEW ap \in APs, NEW rssi \in RSSIs,
           Submit(b, ap, rssi), CountLead(b)
    PROVE  LeadType' /\ Counted'
<1>1. /\ Inv /\ LeadType /\ Counted /\ MaxLead \in Nat
  BY LeadAssumption DEF CoreInv
<1>2. /\ b \in Tracked /\ Tracked' = Tracked /\ now \in Nat
      /\ Res(b) \in Resolved /\ top.zones \in [APs -> Labels \cup {None}]
      /\ \A c \in Tracked : c # b => beacons'[c] = beacons[c]
  BY <1>1, SightingFacts
<1>3. PICK seen, k :
        /\ BeaconOK(seen, now) /\ Backed(seen)
        /\ seen.currentZone = beacons[b].currentZone
        /\ seen.currentAP = beacons[b].currentAP
        /\ seen.candidateAP = beacons[b].candidateAP
        /\ seen.candidateCount = beacons[b].candidateCount
        /\ k \in closestInPresence(seen, Res(b), now)
        /\ Sighted(seen, Res(b), top.zones, now, k, beacons'[b])
        /\ beacons'[b].perAP = seen.perAP
  BY <1>1, SightingFacts
<1>4. /\ LeadType'
      /\ \A c \in Beacons : c # b => lead'[c] = lead[c]
      /\ beacons'[b].currentAP = beacons[b].currentAP =>
            \A a \in APs :
               /\ Leads(b, a) => lead'[b][a] = Raised(lead[b][a])
               /\ Masked(b) => lead'[b][a] \in {lead[b][a], Raised(lead[b][a])}
  BY <1>1, CountLeadEffect
<1>5. Tracked \subseteq Beacons
  BY <1>1 DEF Inv, TypeOK, ConfigCoherent, ValidTopology
<1>6. \A a \in APs : lead[b][a] \in 0..MaxLead
  BY <1>1 DEF LeadType
<1>7. seen.candidateCount \in Nat /\ seen.candidateAP \in APs \cup {None}
  BY <1>3 DEF BeaconOK
<1>8. ASSUME beacons'[b].candidateAP # None
      PROVE  \/ lead'[b][beacons'[b].candidateAP] = MaxLead
             \/ lead'[b][beacons'[b].candidateAP] >= beacons'[b].candidateCount
  <2>1. CASE beacons'[b] = seen /\ (k = None \/ top.zones[k] = None)
    <3>1. closestInPresence(beacons'[b], Res(b), now)
             = closestInPresence(seen, Res(b), now)
      BY <1>3, ReadingsDecide
    <3>2. Masked(b)
      BY <1>3, <2>1, <3>1 DEF Masked
    <3> DEFINE a == seen.candidateAP
    <3>3. a \in APs
      BY <1>7, <1>8, <2>1
    <3>4. lead'[b][a] \in {lead[b][a], Raised(lead[b][a])}
      BY <1>3, <1>4, <2>1, <3>2, <3>3
    <3>5. lead[b][a] = MaxLead \/ lead[b][a] >= seen.candidateCount
      BY <1>1, <1>2, <1>3, <1>8, <2>1 DEF Counted
    <3>6. lead'[b][a] = MaxLead \/ lead'[b][a] >= seen.candidateCount
      BY <1>1, <1>6, <1>7, <3>3, <3>4, <3>5 DEF Raised
    <3> QED
      BY <2>1, <3>6
  <2>2. CASE /\ Presses(seen, Res(b), top.zones, now, k)
             /\ beacons'[b].currentAP = seen.currentAP
             /\ beacons'[b].candidateAP = k
             /\ beacons'[b].candidateCount = Count(seen, k)
    <3>1. Leads(b, k)
      BY <1>3, <2>2, PressesLeads
    <3>2. k \in APs
      BY <1>3, <2>2 DEF Presses, closestInPresence, InPresence, BeaconOK
    <3>3. lead'[b][k] = Raised(lead[b][k])
      BY <1>3, <1>4, <2>2, <3>1, <3>2
    <3>4. seen.candidateAP = k =>
             lead[b][k] = MaxLead \/ lead[b][k] >= seen.candidateCount
      BY <1>1, <1>2, <1>3, <1>8, <2>2 DEF Counted
    <3>5. lead'[b][k] = MaxLead \/ lead'[b][k] >= Count(seen, k)
      BY <1>1, <1>6, <1>7, <3>2, <3>3, <3>4 DEF Raised, Count
    <3> QED
      BY <2>2, <3>5
  <2> QED
    BY <1>2, <1>3, <1>8, <2>1, <2>2, SightedCandidate
<1>9. ASSUME NEW c \in Tracked, c # b, beacons'[c].candidateAP # None
      PROVE  \/ lead'[c][beacons'[c].candidateAP] = MaxLead
             \/ lead'[c][beacons'[c].candidateAP] >= beacons'[c].candidateCount
  BY <1>1, <1>2, <1>4, <1>5, <1>9 DEF Counted
<1> QED
  BY <1>2, <1>4, <1>8, <1>9 DEF Counted

\* A tick, in the terms of the lemmas above.
LEMMA TickFacts ==
    ASSUME Inv, Tick, NEW b \in Tracked
    PROVE  /\ Tracked' = Tracked
           /\ beacons'[b].candidateAP = None \/ beacons'[b] = beacons[b]
           /\ beacons'[b].perAP = beacons[b].perAP
           /\ \/ beacons'[b].currentZone \in {None, beacons[b].currentZone}
              \/ beacons[b].currentZone = None
              \/ beacons[b].currentAP \notin InPresence(beacons[b], Res(b), now)
              \/ top.zones[beacons[b].currentAP] # beacons[b].currentZone
<1>1. /\ now \in Nat /\ Res(b) \in Resolved /\ BeaconOK(beacons[b], now)
      /\ Backed(beacons[b]) /\ top.zones \in [APs -> Labels \cup {None}]
  BY ResType DEF Inv, TypeOK, BackingCoherent, ValidTopology
<1>2. Tracked' = Tracked
  BY TickRecomputes
<1>3. PICK k \in closestInPresence(beacons[b], Res(b), now) :
        /\ Recomputes(beacons[b], Res(b), top.zones, now, k, beacons'[b])
        /\ Ticked(beacons[b], Res(b), top.zones, now, k, beacons'[b])
  BY TickRecomputes
<1>4. beacons'[b].perAP = beacons[b].perAP
  BY <1>1, <1>3, RecomputeExits
<1> QED
  BY <1>1, <1>2, <1>3, <1>4, TickedCandidate

\* A tick and its history keep the count.
LEMMA TickCounted ==
    ASSUME CoreInv, Tick, ForgetLead
    PROVE  LeadType' /\ Counted'
<1>1. Inv /\ LeadType /\ Counted /\ MaxLead \in Nat
  BY LeadAssumption DEF CoreInv
<1>2. Tracked' = Tracked /\ Tracked \subseteq Beacons
  BY <1>1, TickRecomputes DEF Inv, TypeOK, ConfigCoherent, ValidTopology
<1>3. lead' = [b \in Beacons |->
                 IF b \in Tracked /\ beacons'[b].currentAP = beacons[b].currentAP
                 THEN lead[b] ELSE NoLead]
  BY DEF ForgetLead
<1>4. LeadType'
  BY <1>1, <1>3 DEF LeadType, NoLead
<1>5. ASSUME NEW b \in Tracked, beacons'[b].candidateAP # None
      PROVE  \/ lead'[b][beacons'[b].candidateAP] = MaxLead
             \/ lead'[b][beacons'[b].candidateAP] >= beacons'[b].candidateCount
  <2>1. beacons'[b] = beacons[b]
    BY <1>1, <1>5, TickFacts
  <2>2. lead'[b] = lead[b]
    BY <1>2, <1>3, <2>1
  <2> QED
    BY <1>1, <1>5, <2>1, <2>2 DEF Counted
<1> QED
  BY <1>2, <1>4, <1>5 DEF Counted

\* The invariant with the count holds throughout.
LEMMA CoreInvInductive == CoreSpec => []CoreInv
<1>1. CoreInit => CoreInv
  <2> SUFFICES ASSUME CoreInit PROVE CoreInv
    OBVIOUS
  <2>1. Inv /\ MaxLead \in Nat
    BY InitInv, LeadAssumption DEF CoreInit
  <2>2. LeadType
    BY <2>1 DEF CoreInit, LeadType, NoLead
  <2>3. Counted
    BY DEF CoreInit, Init, Counted, Tracked, NewBeaconState
  <2> QED
    BY <2>1, <2>2, <2>3 DEF CoreInv
<1>2. CoreInv /\ [CoreNext]_coreVars => CoreInv'
  <2> SUFFICES ASSUME CoreInv, [CoreNext]_coreVars PROVE CoreInv'
    OBVIOUS
  <2>1. Inv'
    BY NextInv, CoreSteps DEF CoreInv
  <2>2. ASSUME NEW b \in Beacons, NEW ap \in APs, NEW rssi \in RSSIs,
               Submit(b, ap, rssi), CountLead(b)
        PROVE  LeadType' /\ Counted'
    BY <2>2, SubmitCounted
  <2>3. ASSUME Tick, ForgetLead PROVE LeadType' /\ Counted'
    BY <2>3, TickCounted
  <2>4. ASSUME (Advance /\ UNCHANGED lead) \/ UNCHANGED coreVars
        PROVE  LeadType' /\ Counted'
    <3>1. lead' = lead /\ beacons' = beacons /\ Tracked' = Tracked
      BY <2>4 DEF Advance, coreVars, vars, Tracked
    <3> QED
      BY <3>1 DEF CoreInv, LeadType, Counted
  <2> QED
    BY <2>1, <2>2, <2>3, <2>4 DEF CoreNext, CoreInv
<1> QED
  BY <1>1, <1>2, PTL DEF CoreSpec

\* No tick moves a beacon off an AP that keeps its label and its presence.
LEMMA TickNeverMoves ==
    ASSUME Inv, Tick, NEW b \in Tracked,
           beacons[b].currentZone # None,
           beacons'[b].currentZone \notin {None, beacons[b].currentZone},
           top.zones[beacons[b].currentAP] = beacons[b].currentZone,
           beacons[b].currentAP \in InPresence(beacons'[b], Res(b), now)
    PROVE  FALSE
<1>1. beacons'[b].perAP = beacons[b].perAP
  BY TickFacts
<1>2. InPresence(beacons'[b], Res(b), now) = InPresence(beacons[b], Res(b), now)
  BY <1>1, ReadingsDecide
<1> QED
  BY <1>2, TickFacts

\* The confirm count asked of a tracked beacon fits the bound.
LEMMA ConfirmFits ==
    ASSUME Inv, tun \in TunableDocs, NEW b \in Tracked
    PROVE  Res(b).confirm <= MaxLead + 1
<1>1. beacons[b].name = top.beacons[b] /\ b \in DOMAIN top.beacons
  BY DEF Inv, ConfigCoherent
<1>2. beacons[b].name \in BeaconNames(top) /\ beacons[b].name \in Names
  BY <1>1 DEF BeaconNames, Inv, TypeOK, ValidTopology
<1>3. Res(b) = ResolveFor(tun, beacons[b].name)
  BY <1>2 DEF Res, Inv, ConfigCoherent
<1> QED
  BY <1>2, <1>3, LeadAssumption

\* Between two configuration changes the tunables stay what they were.
LEMMA TunablesStay == CoreSpec => [](tun \in TunableDocs)
<1>1. CoreInit => tun \in TunableDocs
  BY DEF CoreInit, Init
<1>2. tun \in TunableDocs /\ [CoreNext]_coreVars => (tun \in TunableDocs)'
  BY DEF CoreNext, Submit, Tick, Advance, coreVars, vars
<1> QED
  BY <1>1, <1>2, PTL DEF CoreSpec

\* A move off an AP that keeps its label and its presence is made by a
\* sighting, and takes the configured number of leading sightings in a row.
THEOREM MovesAreConfirmed == CoreSpec => MovesConfirmed
<1>1. ASSUME CoreInv, tun \in TunableDocs, CoreNext, NEW b \in Tracked,
             beacons[b].currentZone # None,
             beacons'[b].currentZone \notin {None, beacons[b].currentZone},
             top.zones[beacons[b].currentAP] = beacons[b].currentZone,
             beacons[b].currentAP \in InPresence(beacons'[b], Res(b), now)
      PROVE  /\ Leads(b, beacons'[b].currentAP)
             /\ lead[b][beacons'[b].currentAP] + 1 >= Res(b).confirm
             /\ ~Tick
  <2>1. Inv /\ LeadType /\ Counted /\ MaxLead \in Nat
    BY <1>1, LeadAssumption DEF CoreInv
  <2>2. ~Tick
    BY <1>1, <2>1, TickNeverMoves
  <2>3. ~Advance
    BY <1>1 DEF Advance
  <2>4. PICK c \in Beacons, ap \in APs, rssi \in RSSIs : Submit(c, ap, rssi)
    BY <1>1, <2>2, <2>3 DEF CoreNext
  <2>5. c = b
    BY <1>1, <2>1, <2>4, SightingFacts
  <2>6. now \in Nat /\ Res(b) \in Resolved /\ top.zones \in [APs -> Labels \cup {None}]
        /\ b \in Beacons
    BY <2>1, <2>4, <2>5, SightingFacts
  <2>7. PICK seen, k :
          /\ BeaconOK(seen, now) /\ Backed(seen)
          /\ seen.currentZone = beacons[b].currentZone
          /\ seen.currentAP = beacons[b].currentAP
          /\ seen.candidateAP = beacons[b].candidateAP
          /\ seen.candidateCount = beacons[b].candidateCount
          /\ k \in closestInPresence(seen, Res(b), now)
          /\ Sighted(seen, Res(b), top.zones, now, k, beacons'[b])
          /\ beacons'[b].perAP = seen.perAP
    BY <2>1, <2>4, <2>5, SightingFacts
  <2>8. InPresence(beacons'[b], Res(b), now) = InPresence(seen, Res(b), now)
    BY <2>7, ReadingsDecide
  <2>9. /\ Presses(seen, Res(b), top.zones, now, k)
        /\ beacons'[b].currentAP = k
        /\ Count(seen, k) >= Res(b).confirm
    BY <1>1, <2>6, <2>7, <2>8, SightedMove
  <2>10. Leads(b, k)
    BY <2>7, <2>9, PressesLeads
  <2>11. lead[b][k] + 1 >= Res(b).confirm
    <3>1. k \in APs /\ k # None
      BY <2>7, <2>9 DEF Presses, closestInPresence, InPresence, BeaconOK
    <3>2. lead[b][k] \in 0..MaxLead
      BY <2>1, <2>6, <3>1 DEF LeadType
    <3>3. seen.candidateAP = k =>
             lead[b][k] = MaxLead \/ lead[b][k] >= seen.candidateCount
      BY <1>1, <2>1, <2>7, <3>1 DEF Counted
    <3>4. Res(b).confirm <= MaxLead + 1
      BY <1>1, <2>1, ConfirmFits
    <3>5. seen.candidateCount \in Nat /\ Res(b).confirm \in Nat
      BY <2>6, <2>7, ResolvedFields DEF BeaconOK
    <3> QED
      BY <2>1, <2>9, <3>2, <3>3, <3>4, <3>5 DEF Count
  <2> QED
    BY <2>2, <2>9, <2>10, <2>11
<1>2. CoreInv /\ tun \in TunableDocs /\ [CoreNext]_coreVars =>
        [\A b \in Tracked :
            /\ beacons[b].currentZone # None
            /\ beacons'[b].currentZone \notin {None, beacons[b].currentZone}
            /\ top.zones[beacons[b].currentAP] = beacons[b].currentZone
            /\ beacons[b].currentAP \in InPresence(beacons'[b], Res(b), now)
            => /\ Leads(b, beacons'[b].currentAP)
               /\ lead[b][beacons'[b].currentAP] + 1 >= Res(b).confirm
               /\ ~Tick]_coreVars
  BY <1>1
<1> QED
  BY <1>2, CoreInvInductive, TunablesStay, PTL DEF CoreSpec, MovesConfirmed

=============================================================================
