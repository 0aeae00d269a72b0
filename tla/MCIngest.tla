------------------------------ MODULE MCIngest ------------------------------
(***************************************************************************)
(* Small instances of Ingest for TLC.                                      *)
(***************************************************************************)
EXTENDS Ingest

CONSTANTS b1, e1, v1, v2

Event(parses, key, tele, euid, ts) ==
    [parses |-> parses, key |-> key, tele |-> tele, euid |-> euid, ts |-> ts]

\* A UID frame whose TLM frame comes after it, next to a broken advert; a
\* beacon without an euid and without a clock, next to a nameless reading; two
\* readings of one euid, the second in the beacon's own advert, from an AP
\* whose clock is behind.
MCPosts == {
    << Event(TRUE, b1, None, e1, StartTime), Event(TRUE, None, v1, e1, StartTime),
       Event(FALSE, None, None, e1, StartTime) >>,
    << Event(TRUE, None, v2, NoEUID, StartTime), Event(TRUE, b1, None, NoEUID, 0) >>,
    << Event(TRUE, None, v1, e1, 1), Event(TRUE, b1, v2, e1, 1) >>}

Budget(post, beat, day, edit, fault) ==
    [post |-> post, beat |-> beat, day |-> day, edit |-> edit, fault |-> fault]

\* POSTs that overlap; rows that age; heartbeats.
MCBudgets == {Budget(2, 0, 0, 1, 0), Budget(2, 0, 0, 0, 1), Budget(1, 0, 2, 1, 1),
              Budget(0, 3, 0, 0, 0), Budget(1, 1, 0, 0, 1)}

=============================================================================
