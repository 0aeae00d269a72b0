-------------------------- MODULE PresenceContract --------------------------
(***************************************************************************)
(* What the presence engine promises to those who only see published       *)
(* states (ADR-0006): beacons arrive, move and depart; a departure never   *)
(* comes inside the sticky window of an arrival or of a warm boot; every   *)
(* change is told; a topology refresh never sends a beacon away.           *)
(***************************************************************************)
EXTENDS Integers

CONSTANTS Beacons, Labels, None, NoEvent

VARIABLES now, window, zone, arrivedAt, told

vars == <<now, window, zone, arrivedAt, told>>

Tracked == DOMAIN zone

Stays(b)   == zone'[b] = zone[b] /\ arrivedAt'[b] = arrivedAt[b]
Arrives(b) == zone[b] = None /\ zone'[b] \in Labels /\ arrivedAt'[b] = now
Moves(b)   == /\ zone[b] # None /\ zone'[b] \in Labels
              /\ arrivedAt'[b] = arrivedAt[b]
Departs(b) == /\ zone[b] # None /\ zone'[b] = None
              /\ now - arrivedAt[b] >= window[b]
              /\ arrivedAt'[b] = arrivedAt[b]

\* A change is told; a state that did not change may be told again.
Tells(b) == \/ told'[b] = zone'[b]
            \/ told'[b] = told[b] /\ zone'[b] = zone[b]

SameDomain == DOMAIN zone' = Tracked /\ DOMAIN told' = Tracked

\* Sightings, ticks, and repeated announcements.
Report ==
    /\ SameDomain
    /\ \A b \in Tracked : /\ Stays(b) \/ Arrives(b) \/ Moves(b) \/ Departs(b)
                          /\ Tells(b)
    /\ UNCHANGED <<now, window>>

\* New sticky windows.
Reconfigure ==
    /\ DOMAIN window' = DOMAIN window
    /\ UNCHANGED <<now, zone, arrivedAt, told>>

\* A new tracked set: kept beacons stay or move, new ones are not home.
Retrack ==
    /\ DOMAIN zone' \subseteq Beacons /\ DOMAIN told' = DOMAIN zone'
    /\ \A b \in DOMAIN zone' :
          IF b \in Tracked THEN (Stays(b) \/ Moves(b)) /\ Tells(b)
                           ELSE zone'[b] = None /\ told'[b] = NoEvent
    /\ UNCHANGED now

\* A restart: a remembered zone counts as an arrival now.
Reboot ==
    /\ DOMAIN zone' \subseteq Beacons /\ DOMAIN told' = DOMAIN zone'
    /\ \A b \in DOMAIN zone' :
          /\ zone'[b] \in Labels => arrivedAt'[b] = now
          /\ told'[b] = NoEvent
    /\ UNCHANGED now

Passes == now' > now /\ UNCHANGED <<window, zone, arrivedAt, told>>

Init ==
    /\ now = 0
    /\ DOMAIN zone \subseteq Beacons
    /\ \A b \in Tracked : zone[b] = None /\ told[b] = NoEvent

Next == Report \/ Reconfigure \/ Retrack \/ Reboot \/ Passes

Spec == Init /\ [][Next]_vars

=============================================================================
