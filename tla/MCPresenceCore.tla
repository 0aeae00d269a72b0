--------------------------- MODULE MCPresenceCore ---------------------------
(***************************************************************************)
(* PresenceEngine between two configuration changes, with two history      *)
(* variables.  `lead`: for each beacon and AP, the number of consecutive   *)
(* sightings (capped at MaxLead) after which that AP led the published one *)
(* by the hysteresis margin, counted independently of the engine's         *)
(* candidate counter.  `ticked`: the last step was a tick.                 *)
(***************************************************************************)
EXTENDS MCPresenceEngine

CONSTANT MaxLead    \* bound on the counted lead

VARIABLES lead, ticked

coreVars == <<vars, lead, ticked>>

\* The bound leaves room for every confirm count the tunables may ask for.
ASSUME LeadAssumption ==
    /\ MaxLead \in Nat
    /\ \A u \in TunableDocs, n \in Names : ResolveFor(u, n).confirm <= MaxLead + 1

NoLead == [a \in APs |-> 0]

\* After this step's sighting, c is a closest AP, in another zone, and leads
\* the AP of the published zone by the margin.
Leads(b, c) ==
    LET bs == beacons'[b]
        old == beacons[b].currentAP
        Eff(a) == effectiveRSSI(bs.perAP[a], now, Res(b))
    IN  /\ c \in closestInPresence(bs, Res(b), now) \ {None}
        /\ top.zones[c] \notin {None, beacons[b].currentZone}
        /\ old \in InPresence(bs, Res(b), now)
        /\ Eff(c) - Eff(old) >= Res(b).hysteresis

\* A sighting that finds no AP in presence (a sticky hold) or whose closest
\* AP has no zone returns before the candidate is looked at: not counted.
Masked(b) == \E c \in closestInPresence(beacons'[b], Res(b), now) :
                c = None \/ top.zones[c] = None

CountLead(b) ==
    lead' = [lead EXCEPT ![b] =
        IF beacons'[b].currentAP # beacons[b].currentAP THEN NoLead
        ELSE [c \in APs |->
                IF Leads(b, c) THEN (IF @[c] < MaxLead THEN @[c] + 1 ELSE MaxLead)
                ELSE IF Masked(b) THEN @[c] ELSE 0]]

ForgetLead ==
    lead' = [b \in Beacons |->
                IF b \in Tracked /\ beacons'[b].currentAP = beacons[b].currentAP
                THEN lead[b] ELSE NoLead]

CoreInit == Init /\ lead = [b \in Beacons |-> NoLead] /\ ticked = FALSE

CoreNext ==
    \/ \E b \in Beacons, ap \in APs, rssi \in RSSIs :
          Submit(b, ap, rssi) /\ CountLead(b) /\ ticked' = FALSE
    \/ Tick /\ ForgetLead /\ ticked' = TRUE
    \/ Advance /\ UNCHANGED lead /\ ticked' = FALSE

CoreSpec == CoreInit /\ [][CoreNext]_coreVars

\* ADR-0006 hysteresis: while the AP behind a published zone is in presence
\* and keeps its label, the beacon moves to another zone only on a sighting,
\* and only when this is the ConfirmCount-th one in a row that puts the same
\* AP ahead by the hysteresis margin (recomputeOne's candidate counter).
MovesConfirmed ==
    [][\A b \in Tracked :
          /\ beacons[b].currentZone # None
          /\ beacons'[b].currentZone \notin {None, beacons[b].currentZone}
          /\ top.zones[beacons[b].currentAP] = beacons[b].currentZone
          /\ beacons[b].currentAP \in InPresence(beacons'[b], Res(b), now)
          => /\ Leads(b, beacons'[b].currentAP)
             /\ lead[b][beacons'[b].currentAP] + 1 >= Res(b).confirm
             /\ ~Tick]_coreVars

\* t_away_max_s is a hard bound: after a tick, a beacon still published is
\* inside its sticky window, or has an AP in presence and was heard by some
\* AP within t_away_max_s.
TickClearsStale ==
    ticked => \A b \in Tracked : ~Stale(beacons[b], Res(b), now)

\* recomputeOne leaves a faded AP without hysteresis ("we cannot stay on an
\* AP that's faded out"): after a tick outside the sticky window the AP behind
\* a published zone is in presence, with the one exception of the early return
\* for a closest AP that is on no zone map.
OffFadedAP ==
    ticked => \A b \in Tracked :
                 LET bs == beacons[b]
                     unmapped == {a \in APs : top.zones[a] = None}
                 IN  \/ bs.currentZone = None
                     \/ StickyActive(bs, Res(b), now)
                     \/ ~CurrentFaded(bs, Res(b), now)
                     \/ closestInPresence(bs, Res(b), now) \cap unmapped # {}

=============================================================================
