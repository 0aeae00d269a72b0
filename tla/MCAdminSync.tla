---------------------------- MODULE MCAdminSync ----------------------------
(* Instances of AdminSync for TLC: every set is symmetric.                 *)
EXTENDS AdminSync, TLC

CONSTANTS b1, b2, n1, n2, l1, l2, t1, t2, s1, s2, r1, r2

Symmetry ==
    Permutations({b1, b2}) \cup Permutations({n1, n2}) \cup Permutations({l1, l2})
    \cup Permutations({t1, t2}) \cup Permutations({s1, s2}) \cup Permutations({r1, r2})
=============================================================================
