--------------------------- MODULE PresenceEngine ---------------------------
(***************************************************************************)
(* The presence state machine of internal/presence (engine.go, state.go).  *)
(* One engine, one mutex: every exported method is one atomic action.      *)
(*                                                                         *)
(* Abstractions.  Time is whole seconds of the engine's Clock.  RSSI is an *)
(* integer; the EWMA is rounded down to an integer, and alpha is counted   *)
(* in AlphaUnit-ths.  None is the code's empty string: no zone (not_home)  *)
(* and no AP.  AP names, raw RSSI, battery and temperature are carried by  *)
(* events but never read by the state machine, and are left out.           *)
(***************************************************************************)
EXTENDS Integers, FiniteSets

CONSTANTS Beacons,      \* packet-derived identities (ids.BeaconKey)
          APs,          \* AP MAC addresses, lower-cased
          Names,        \* operator-visible beacon names
          Labels,       \* zone labels
          RSSIs,        \* raw readings a sighting may carry
          AlphaUnit,    \* alpha = 1 is AlphaUnit
          Topologies,   \* topologies the admin UI may apply
          TunableDocs,  \* tunables documents the admin UI may apply
          None,         \* the empty string: not_home, no AP
          NoEvent,      \* "no event emitted since boot"
          MaxTime       \* bound on the clock

VARIABLES now,          \* the engine's Clock
          top,          \* Engine.top
          tun,          \* Engine.tun
          resolved,     \* Engine.resolved, per beacon NAME
          beacons,      \* Engine.beacons, per tracked beacon
          emitted,      \* state of the last event passed to emit since boot
          saved         \* the presence_state table

vars == <<now, top, tun, resolved, beacons, emitted, saved>>

-----------------------------------------------------------------------------
(* Configuration: config.Tunables, config.Resolved, config.Topology.       *)

TunableFields == {"alpha", "grace", "decay", "floor", "tAwayMax", "sticky",
                  "hysteresis", "confirm"}

\* validateDefaults / validateOverrides: one bound per field.
ValidField(f, v) ==
    CASE f = "alpha"    -> v \in 1..AlphaUnit
      [] f = "floor"    -> v \in (-127)..0
      [] f = "tAwayMax" -> v \in Nat \ {0}
      [] f = "confirm"  -> v \in Nat \ {0}
      [] f \in {"grace", "decay", "sticky", "hysteresis"} -> v \in Nat

\* A validated set of values, one per field.
Resolved == {r \in [TunableFields -> Int] :
                \A f \in TunableFields : ValidField(f, r[f])}

\* Tunables.Validate: every default and every override that is present.
ValidTunables(t) ==
    /\ t.defaults \in Resolved
    /\ \A n \in Names :
          /\ DOMAIN t.beacons[n] \subseteq TunableFields
          /\ \A f \in DOMAIN t.beacons[n] :
                t.beacons[n][f] \in Int /\ ValidField(f, t.beacons[n][f])

\* An override field that is present replaces the default.
ResolveFor(t, name) ==
    [f \in TunableFields |-> IF f \in DOMAIN t.beacons[name]
                             THEN t.beacons[name][f]
                             ELSE t.defaults[f]]

\* NewTopology: labels are not empty, no two tracked beacons share a name.
\* zones[a] is None for an AP that is not mapped (Topology.Zone).
ValidTopology(t) ==
    /\ t.zones \in [APs -> Labels \cup {None}]
    /\ DOMAIN t.beacons \subseteq Beacons
    /\ \A b \in DOMAIN t.beacons : t.beacons[b] \in Names
    /\ \A b, c \in DOMAIN t.beacons : t.beacons[b] = t.beacons[c] => b = c

\* BeaconNames.
BeaconNames(t) == {t.beacons[b] : b \in DOMAIN t.beacons}

ASSUME NumbersAssumption ==
    RSSIs \subseteq Int /\ AlphaUnit \in Nat \ {0} /\ MaxTime \in Nat

\* None names no AP and no zone, and is a state an event carries.
ASSUME EmptyAssumption ==
    None \notin APs /\ None \notin Labels /\ NoEvent \notin Labels \cup {None}

ASSUME InputsAssumption ==
    /\ \A t \in Topologies : ValidTopology(t)
    /\ \A t \in TunableDocs : ValidTunables(t)

-----------------------------------------------------------------------------
(* Per-beacon state and the functions on it (state.go).                    *)

NewBeaconState(name) ==
    [name |-> name, perAP |-> [a \in {} |-> 0],
     currentZone |-> None, currentAP |-> None, lastArrivalTs |-> 0,
     candidateAP |-> None, candidateCount |-> 0]

\* EWMA after one reading; the first reading of an AP is taken as it is.
Smooth(old, raw, r) ==
    (r.alpha * raw + (AlphaUnit - r.alpha) * old) \div AlphaUnit

\* EWMA after linear decay since the last sighting.
effectiveRSSI(ap, t, r) ==
    LET age == t - ap.lastSightingTs
    IN  IF age <= r.grace THEN ap.ewma
                          ELSE ap.ewma - r.decay * (age - r.grace)

InPresence(bs, r, t) ==
    {a \in DOMAIN bs.perAP : effectiveRSSI(bs.perAP[a], t, r) >= r.floor}

\* The APs closestInPresence may return: Go's map order decides a tie.  None
\* when no AP qualifies.
closestInPresence(bs, r, t) ==
    LET near == InPresence(bs, r, t)
        Eff(a) == effectiveRSSI(bs.perAP[a], t, r)
    IN  IF near = {} THEN {None}
        ELSE {a \in near : \A c \in near : Eff(c) <= Eff(a)}

StickyActive(bs, r, t) ==
    bs.currentZone # None /\ t - bs.lastArrivalTs < r.sticky

\* The freshest sighting is older than t_away_max_s, and some AP was heard.
SilentTooLong(bs, r, t) ==
    /\ DOMAIN bs.perAP # {}
    /\ \A a \in DOMAIN bs.perAP : t - bs.perAP[a].lastSightingTs > r.tAwayMax

ForceAway(bs, r, t) == SilentTooLong(bs, r, t) /\ ~StickyActive(bs, r, t)

-----------------------------------------------------------------------------
(* recomputeOne.  Its result is the new beacon state and whether an event  *)
(* is emitted; the event always carries the new currentZone.               *)

Quiet(bs)   == [bs |-> bs, emit |-> FALSE]
Publish(bs) == [bs |-> bs, emit |-> TRUE]

ResetCandidate(bs) == [bs EXCEPT !.candidateAP = None, !.candidateCount = 0]

\* Publish `zone`, backed by `ap`.
SwitchTo(bs, zone, ap) ==
    [ResetCandidate(bs) EXCEPT !.currentZone = zone, !.currentAP = ap]

\* Variant of Depart with a bug: the backing AP is left behind.
DepartKeepsAP(bs) == [ResetCandidate(bs) EXCEPT !.currentZone = None]

Depart(bs) == SwitchTo(bs, None, None)

\* Variants of NoPresence with a bug: no sticky window; a faded beacon is kept
\* until t_away_max_s.
NoPresenceUnsticky(bs, r, t) ==
    IF bs.currentZone = None THEN Quiet(bs) ELSE Publish(Depart(bs))

NoPresenceSilentOnly(bs, r, t) ==
    IF bs.currentZone = None \/ ~ForceAway(bs, r, t)
    THEN Quiet(bs)
    ELSE Publish(Depart(bs))

\* Case A: no AP in presence, or silence beyond t_away_max_s.
NoPresence(bs, r, t) ==
    IF bs.currentZone = None \/ StickyActive(bs, r, t)
    THEN Quiet(bs)
    ELSE Publish(Depart(bs))

\* Variants of Arrive with a bug: the arrival time is not set; an arrival needs
\* a second sighting.
ArriveUntimed(bs, zone, ap, t) == Publish(SwitchTo(bs, zone, ap))

ArriveConfirmed(bs, zone, ap, t) ==
    IF bs.candidateAP = ap
    THEN Publish([SwitchTo(bs, zone, ap) EXCEPT !.lastArrivalTs = t])
    ELSE Quiet([bs EXCEPT !.candidateAP = ap, !.candidateCount = 1])

\* Case B: arrival from not_home.
Arrive(bs, zone, ap, t) ==
    Publish([SwitchTo(bs, zone, ap) EXCEPT !.lastArrivalTs = t])

\* The AP behind the published zone was never heard, or has faded.
CurrentFaded(bs, r, t) == bs.currentAP \notin InPresence(bs, r, t)

\* Variant of Confirm with a bug: one confirmation too few.
ConfirmEarly(bs, r, zone, ap) ==
    LET n == IF bs.candidateAP = ap THEN bs.candidateCount + 1 ELSE 1
    IN  IF n + 1 < r.confirm
        THEN Quiet([bs EXCEPT !.candidateAP = ap, !.candidateCount = n])
        ELSE Publish(SwitchTo(bs, zone, ap))

\* One more confirmation of `ap`; at ConfirmCount the zone changes.
Confirm(bs, r, zone, ap) ==
    LET n == IF bs.candidateAP = ap THEN bs.candidateCount + 1 ELSE 1
    IN  IF n < r.confirm
        THEN Quiet([bs EXCEPT !.candidateAP = ap, !.candidateCount = n])
        ELSE Publish(SwitchTo(bs, zone, ap))

\* Zone-to-zone hysteresis; only a sighting moves the confirm counter.
Hysteresis(bs, r, zone, ap, t, sighting) ==
    LET Eff(a) == effectiveRSSI(bs.perAP[a], t, r)
    IN  IF ~sighting THEN Quiet(bs)
        ELSE IF Eff(ap) - Eff(bs.currentAP) < r.hysteresis
             THEN Quiet(ResetCandidate(bs))
             ELSE Confirm(bs, r, zone, ap)

\* Variant of InZone with a bug: only a sighting moves off a faded AP.
InZoneOnSighting(bs, r, zone, ap, t, sighting) ==
    IF CurrentFaded(bs, r, t)
    THEN IF sighting THEN Publish(SwitchTo(bs, zone, ap)) ELSE Quiet(bs)
    ELSE IF ap = bs.currentAP
         THEN [bs   |-> SwitchTo(bs, zone, ap),
               emit |-> zone # bs.currentZone]
    ELSE IF zone = bs.currentZone THEN Quiet(ResetCandidate(bs))
    ELSE Hysteresis(bs, r, zone, ap, t, sighting)

\* Case C: already in a zone, closest AP `ap` is mapped to `zone`.
InZone(bs, r, zone, ap, t, sighting) ==
    IF CurrentFaded(bs, r, t) THEN Publish(SwitchTo(bs, zone, ap))
    ELSE IF ap = bs.currentAP
         THEN [bs   |-> SwitchTo(bs, zone, ap),
               emit |-> zone # bs.currentZone]
    ELSE IF zone = bs.currentZone THEN Quiet(ResetCandidate(bs))
    ELSE Hysteresis(bs, r, zone, ap, t, sighting)

\* Variant of recomputeOne with a bug: t_away_max_s is not looked at.
recomputeUnbounded(bs, r, zones, t, sighting, ap) ==
    IF ap = None                  THEN NoPresence(bs, r, t)
    ELSE IF zones[ap] = None      THEN Quiet(bs)
    ELSE IF bs.currentZone = None THEN Arrive(bs, zones[ap], ap, t)
    ELSE InZone(bs, r, zones[ap], ap, t, sighting)

\* `ap` is the answer of closestInPresence.  An unmapped closest AP ends the
\* evaluation with no change.
recomputeOne(bs, r, zones, t, sighting, ap) ==
    IF ap = None \/ ForceAway(bs, r, t) THEN NoPresence(bs, r, t)
    ELSE IF zones[ap] = None            THEN Quiet(bs)
    ELSE IF bs.currentZone = None       THEN Arrive(bs, zones[ap], ap, t)
    ELSE InZone(bs, r, zones[ap], ap, t, sighting)

\* The AP's own state after a sighting of strength `rssi`.
Sight(bs, ap, rssi, r, t) ==
    LET ewma == IF ap \in DOMAIN bs.perAP
                THEN Smooth(bs.perAP[ap].ewma, rssi, r) ELSE rssi
        new  == [ewma |-> ewma, lastSightingTs |-> t]
    IN  [bs EXCEPT !.perAP =
            [a \in DOMAIN @ \cup {ap} |-> IF a = ap THEN new ELSE @[a]]]

\* Variant of Relabel with a bug: the new label is not announced.
RelabelSilent(bs, zones, ap) ==
    IF bs.currentZone = None \/ ap = None THEN Quiet(bs)
    ELSE IF zones[ap] \in {None, bs.currentZone} THEN Quiet(bs)
    ELSE Quiet(SwitchTo(bs, zones[ap], ap))

\* ApplyTopology's synthetic pass: a published beacon follows its closest AP
\* to a different label, and is never sent to not_home.
Relabel(bs, zones, ap) ==
    IF bs.currentZone = None \/ ap = None THEN Quiet(bs)
    ELSE IF zones[ap] \in {None, bs.currentZone} THEN Quiet(bs)
    ELSE Publish(SwitchTo(bs, zones[ap], ap))

-----------------------------------------------------------------------------
(* Actions.                                                                *)

Tracked == DOMAIN beacons

\* The resolved view of one beacon: looked up by the beacon's NAME.
Res(b) == resolved[beacons[b].name]

\* emit: the hook sees every event, whether or not the channel takes it.
Emit(old, results) ==
    [b \in DOMAIN results |->
        IF results[b].emit THEN results[b].bs.currentZone
        ELSE IF b \in DOMAIN old THEN old[b] ELSE NoEvent]

\* One closestInPresence answer per beacon of `states`.
Picks(states, res) ==
    {pick \in [DOMAIN states -> APs \cup {None}] :
        \A b \in DOMAIN states :
            pick[b] \in closestInPresence(states[b], res[states[b].name], now)}

States(results) == [b \in DOMAIN results |-> results[b].bs]

NewEngine(t, u) ==
    /\ top' = t
    /\ tun' = u
    /\ resolved' = [n \in BeaconNames(t) |-> ResolveFor(u, n)]

\* Submit + handleSighting.  A sighting of an untracked beacon is dropped.
Submit(b, ap, rssi) ==
    /\ b \in Tracked
    /\ LET seen == Sight(beacons[b], ap, rssi, Res(b), now)
       IN  \E c \in closestInPresence(seen, Res(b), now) :
             LET result == recomputeOne(seen, Res(b), top.zones, now, TRUE, c)
             IN  /\ beacons' = [beacons EXCEPT ![b] = result.bs]
                 /\ emitted' = IF result.emit
                               THEN [emitted EXCEPT ![b] = result.bs.currentZone]
                               ELSE emitted
    /\ UNCHANGED <<now, top, tun, resolved, saved>>

\* Tick + recomputeAll.
Tick ==
    /\ \E pick \in Picks(beacons, resolved) :
         LET results == [b \in Tracked |->
                 recomputeOne(beacons[b], Res(b), top.zones, now, FALSE, pick[b])]
         IN  /\ beacons' = States(results)
             /\ emitted' = Emit(emitted, results)
    /\ UNCHANGED <<now, top, tun, resolved, saved>>

ApplyTunables(u) ==
    /\ tun' = u
    /\ resolved' = [n \in DOMAIN resolved \cup {beacons[b].name : b \in Tracked} |->
                       IF \E b \in Tracked : beacons[b].name = n
                       THEN ResolveFor(u, n) ELSE resolved[n]]
    /\ UNCHANGED <<now, top, beacons, emitted, saved>>

\* Known beacons keep their state under the name the topology gives them,
\* new ones start empty, removed ones are evicted.
Retrack(t) ==
    [b \in DOMAIN t.beacons |->
        IF b \in Tracked THEN [beacons[b] EXCEPT !.name = t.beacons[b]]
                         ELSE NewBeaconState(t.beacons[b])]

\* The cache once every name of the topology is resolved anew ...
Resolve(t) ==
    [n \in DOMAIN resolved \cup BeaconNames(t) |->
        IF n \in BeaconNames(t) THEN ResolveFor(tun, n) ELSE resolved[n]]

\* Variant of Prune with a bug: only the names of evicted beacons go, not the old
\* name of a beacon that was renamed.
PruneEvicted(t, res) ==
    [n \in DOMAIN res \ {beacons[b].name : b \in Tracked \ DOMAIN t.beacons} |-> res[n]]

\* ... and the names it no longer has are deleted.
Prune(t, res) == [n \in DOMAIN res \cap BeaconNames(t) |-> res[n]]

ApplyTopology(t) ==
    /\ top' = t
    /\ resolved' = Prune(t, Resolve(t))
    /\ \E pick \in Picks(Retrack(t), resolved') :
         LET results == [b \in DOMAIN t.beacons |->
                            Relabel(Retrack(t)[b], t.zones, pick[b])]
         IN  /\ beacons' = States(results)
             /\ emitted' = Emit(emitted, results)
    /\ UNCHANGED <<now, tun, saved>>

\* Every tracked beacon's current state is emitted again; nothing changes.
RepublishAll ==
    /\ emitted' = [b \in Tracked |-> beacons[b].currentZone]
    /\ UNCHANGED <<now, top, tun, resolved, beacons, saved>>

\* persistPresence: Snapshot, then SavePresenceState replaces every row.  The
\* last_arrival column is never read back, and is left out.
Persist ==
    /\ saved' = [b \in Tracked |-> [currentZone |-> beacons[b].currentZone,
                                    currentAP   |-> beacons[b].currentAP]]
    /\ UNCHANGED <<now, top, tun, resolved, beacons, emitted>>

\* Variant of RestoreState with a bug: the arrival is dated after the boot.
RestoreAhead(bs, row) ==
    IF row.currentZone = None THEN bs
    ELSE [bs EXCEPT !.currentZone = row.currentZone,
                    !.currentAP = row.currentAP,
                    !.lastArrivalTs = now + 1]

\* RestoreState: a saved zone counts as an arrival at boot time.
RestoreState(bs, row) ==
    IF row.currentZone = None THEN bs
    ELSE [bs EXCEPT !.currentZone = row.currentZone,
                    !.currentAP = row.currentAP,
                    !.lastArrivalTs = now]

\* The process stops and a new one boots from the store's topology and
\* tunables.  Rows that cannot be loaded mean a cold start.
Restart(t, u, rows) ==
    /\ NewEngine(t, u)
    /\ beacons' = [b \in DOMAIN t.beacons |->
                     LET bs == NewBeaconState(t.beacons[b])
                     IN  IF b \in DOMAIN rows THEN RestoreState(bs, rows[b]) ELSE bs]
    /\ emitted' = [b \in DOMAIN t.beacons |-> NoEvent]
    /\ UNCHANGED <<now, saved>>

NoRows == [b \in {} |-> 0]

Advance ==
    /\ now < MaxTime
    /\ now' = now + 1
    /\ UNCHANGED <<top, tun, resolved, beacons, emitted, saved>>

Init ==
    /\ now = 0
    /\ top \in Topologies
    /\ tun \in TunableDocs
    /\ resolved = [n \in BeaconNames(top) |-> ResolveFor(tun, n)]
    /\ beacons = [b \in DOMAIN top.beacons |-> NewBeaconState(top.beacons[b])]
    /\ emitted = [b \in DOMAIN top.beacons |-> NoEvent]
    /\ saved = NoRows

Next ==
    \/ \E b \in Beacons, ap \in APs, rssi \in RSSIs : Submit(b, ap, rssi)
    \/ Tick
    \/ \E u \in TunableDocs : ApplyTunables(u)
    \/ \E t \in Topologies : ApplyTopology(t)
    \/ RepublishAll
    \/ Persist
    \/ \E t \in Topologies, u \in TunableDocs :
          Restart(t, u, saved) \/ Restart(t, u, NoRows)
    \/ Advance

Spec == Init /\ [][Next]_vars

-----------------------------------------------------------------------------
(* Properties.                                                             *)

APState == [ewma : Int, lastSightingTs : Nat]

BeaconFields == {"name", "perAP", "currentZone", "currentAP",
                 "lastArrivalTs", "candidateAP", "candidateCount"}

\* A well-formed beacon state at time t.
BeaconOK(bs, t) ==
    /\ DOMAIN bs = BeaconFields
    /\ bs.name \in Names
    /\ DOMAIN bs.perAP \subseteq APs
    /\ \A a \in DOMAIN bs.perAP : /\ bs.perAP[a] \in APState
                                  /\ bs.perAP[a].lastSightingTs <= t
    /\ bs.currentZone \in Labels \cup {None}
    /\ bs.currentAP \in APs \cup {None}
    /\ bs.lastArrivalTs \in 0..t
    /\ bs.candidateAP \in APs \cup {None}
    /\ bs.candidateCount \in Nat

\* Type correctness of the engine's maps and of the persisted rows.
TypeOK ==
    /\ now \in Nat
    /\ ValidTopology(top)
    /\ ValidTunables(tun)
    /\ \A n \in DOMAIN resolved : resolved[n] \in Resolved
    /\ \A b \in Tracked : BeaconOK(beacons[b], now)
    /\ DOMAIN emitted = Tracked
    /\ \A b \in Tracked : emitted[b] \in Labels \cup {None, NoEvent}
    /\ DOMAIN saved \subseteq Beacons
    /\ \A b \in DOMAIN saved : /\ saved[b].currentZone \in Labels \cup {None}
                               /\ saved[b].currentAP \in APs \cup {None}

\* The maps the engine keeps beside the topology never drift from it: the
\* tracked set, each beacon's name, and the per-name cache of resolved
\* tunables, with no entry missing or left over, whatever the order of
\* promotions, renames, demotions and tunables saves.
ConfigCoherent ==
    /\ Tracked = DOMAIN top.beacons
    /\ \A b \in Tracked : beacons[b].name = top.beacons[b]
    /\ resolved = [n \in BeaconNames(top) |-> ResolveFor(tun, n)]

Backed(bs) ==
    /\ bs.currentZone = None <=> bs.currentAP = None
    /\ bs.candidateAP = None <=> bs.candidateCount = 0
    /\ bs.candidateAP # None => /\ bs.currentAP \notin {None, bs.candidateAP}
                              /\ bs.candidateAP \in DOMAIN bs.perAP

\* A published zone always has a backing AP, not_home never has one, and a
\* pending zone change is for another AP than the backing one, that was heard;
\* a persisted row has a backing AP exactly when it has a zone.
BackingCoherent ==
    /\ \A b \in Tracked : Backed(beacons[b])
    /\ \A b \in DOMAIN saved : saved[b].currentZone = None <=> saved[b].currentAP = None

\* The engine never changes a published state silently: what it last emitted
\* for a beacon, if anything since boot, is the state it holds.  Consumers see
\* only events, and persistPresence and the admin page only the state.
EmittedIsCurrent ==
    \A b \in Tracked : emitted[b] \in {NoEvent, beacons[b].currentZone}

\* A beacon that stays tracked leaves its zone for not_home in this step.
Departs(b) ==
    /\ b \in Tracked /\ b \in Tracked'
    /\ beacons[b].currentZone # None
    /\ beacons'[b].currentZone = None

\* ADR-0006 sticky arrival: whatever sightings, ticks, saves and topology
\* refreshes do, a beacon goes to not_home only once its sticky window, as
\* resolved now, has run out.  Only a boot that could not load its rows, or
\* found none for the beacon, may forget a zone.
StickyHold ==
    [][\A b \in Beacons : Departs(b) =>
          \/ now - beacons[b].lastArrivalTs >= Res(b).sticky
          \/ \E rows \in {saved, NoRows}, t \in Topologies, u \in TunableDocs :
                /\ Restart(t, u, rows)
                /\ b \notin DOMAIN rows \/ rows[b].currentZone = None]_vars

\* A published beacon that its tunables no longer justify at time t.
Stale(bs, r, t) ==
    /\ bs.currentZone # None
    /\ ~StickyActive(bs, r, t)
    /\ InPresence(bs, r, t) = {} \/ SilentTooLong(bs, r, t)

\* Arrival is immediate: no sighting that leaves its AP above the floor, with
\* every AP in presence mapped to a zone, leaves the beacon at not_home.
ArrivalImmediate ==
    [][\A b \in Tracked \cap Tracked' :
          beacons'[b].currentZone = None =>
             LET near == InPresence(beacons'[b], Res(b), now)
             IN  (\A a \in near : top.zones[a] # None) =>
                    \A ap \in near, rssi \in RSSIs : ~Submit(b, ap, rssi)]_vars

\* An arrival is never conjured: a beacon enters a zone from not_home only if
\* an AP mapped to that zone has it in presence and some AP heard it within
\* t_away_max_s, or it is restored from a saved row at boot.
ArrivalGrounded ==
    [][\A b \in Tracked \cap Tracked' :
          beacons[b].currentZone = None /\ beacons'[b].currentZone # None =>
             \/ /\ top.zones[beacons'[b].currentAP] = beacons'[b].currentZone
                /\ beacons'[b].currentAP \in InPresence(beacons'[b], Res(b), now)
                /\ ~SilentTooLong(beacons'[b], Res(b), now)
             \/ /\ b \in DOMAIN saved
                /\ saved[b].currentZone = beacons'[b].currentZone
                /\ beacons'[b].perAP = [a \in {} |-> 0]]_vars

Contract == INSTANCE PresenceContract WITH
    window    <- [b \in Tracked |-> Res(b).sticky],
    zone      <- [b \in Tracked |-> beacons[b].currentZone],
    arrivedAt <- [b \in Tracked |-> beacons[b].lastArrivalTs],
    told      <- emitted

\* The engine implements the contract its consumers rely on: arrivals, moves
\* and departures as ADR-0006 allows them, each of them told, and no departure
\* by a topology refresh.
ContractHolds == Contract!Spec

=============================================================================
