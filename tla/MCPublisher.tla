---------------------------- MODULE MCPublisher ----------------------------
(***************************************************************************)
(* Small instances of Publisher for TLC.                                   *)
(***************************************************************************)
EXTENDS Publisher

CONSTANTS b1, b2, volt, q1, q2

=============================================================================
