-------------------------- MODULE MCPresenceEngine --------------------------
(***************************************************************************)
(* Small instances of PresenceEngine for TLC.                              *)
(***************************************************************************)
EXTENDS PresenceEngine

CONSTANTS b1, b2, a1, a2, a3, n1, n2, office, den

\* No override for any beacon.
NoOverride == [n \in Names |-> [f \in {} |-> 0]]

Doc(sticky, tAway, confirm) ==
    [defaults |-> [alpha |-> 1, grace |-> 0, decay |-> 1, floor |-> -8,
                   tAwayMax |-> tAway, sticky |-> sticky, hysteresis |-> 1,
                   confirm |-> confirm],
     beacons  |-> NoOverride]

Zones(z1, z2, z3) ==
    [a \in APs |-> IF a = a1 THEN z1 ELSE IF a = a2 THEN z2 ELSE z3]

\* One beacon; a1 in the office, a2 in the den, a3 on no map.
CoreTopologies ==
    {[zones |-> Zones(office, den, None), beacons |-> [b \in {b1} |-> n1]]}

CoreDocs == {Doc(2, 1, 2)}

CoreRSSIs == {-9, -6}

-----------------------------------------------------------------------------
(* Configuration changes.  Switching between the two topologies promotes   *)
(* and demotes b2, renames b1 and gives its old name to b2, renames the    *)
(* zone of a1 and unmaps a2.  One document overrides n2's sticky window.   *)

ConfigTopologies ==
    {[zones |-> Zones(office, den, None), beacons |-> [b \in {b1} |-> n1]],
     [zones |-> Zones(den, None, None),
      beacons |-> [b \in {b1, b2} |-> IF b = b1 THEN n2 ELSE n1]]}

ConfigDocs ==
    {Doc(1, 2, 1),
     [Doc(2, 1, 1) EXCEPT !.beacons =
         [n \in Names |-> IF n = n2 THEN [f \in {"sticky"} |-> 0]
                                    ELSE [f \in {} |-> 0]]]}

ConfigRSSIs == {-6}

=============================================================================
