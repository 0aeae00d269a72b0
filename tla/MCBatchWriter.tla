--------------------------- MODULE MCBatchWriter ---------------------------
(* Small instances of BatchWriter for TLC: three rows and a malformed one. *)
EXTENDS BatchWriter

CONSTANTS r1, r2, r3, bad, p1, p2

=============================================================================
