--------------------------- MODULE WriterContract ---------------------------
(***************************************************************************)
(* What the handlers are promised of a batch writer, and what Retention    *)
(* takes for granted of it.  A row that was handed over is with the writer *)
(* until it is inserted or lost, and once it has left it never comes back. *)
(* Only rows that are with the writer get into the table, a whole batch at *)
(* a time; an insert that committed without an answer leaves its rows with *)
(* the writer, for one more insert if the table has no key to refuse it.   *)
(***************************************************************************)

CONSTANT Rows        \* rows that may be handed over

VARIABLES keyed,     \* the table refuses a row it has
          given,     \* rows handed over so far
          pending,   \* rows with the writer
          stored     \* rows the table has

vars == <<keyed, given, pending, stored>>

Init ==
    /\ keyed \in BOOLEAN
    /\ given = {} /\ pending = {} /\ stored = {}

\* A handler submits a row, once.
Give(r) ==
    /\ r \in Rows \ given
    /\ given' = given \cup {r}
    /\ pending' = pending \cup {r}
    /\ UNCHANGED <<keyed, stored>>

\* A batch is inserted, for the first time or again.
Insert(batch) ==
    /\ batch \subseteq pending
    /\ keyed => batch \cap stored = {}
    /\ stored' = stored \cup batch
    /\ pending' = pending \ batch
    /\ UNCHANGED <<keyed, given>>

\* A batch is inserted, but the writer does not know.
InsertUnanswered(batch) ==
    /\ batch \subseteq pending /\ batch \cap stored = {}
    /\ stored' = stored \cup batch
    /\ UNCHANGED <<keyed, given, pending>>

\* Rows are dropped: from a full channel, or a batch that failed twice.
Lose(batch) ==
    /\ batch \subseteq pending
    /\ pending' = pending \ batch
    /\ UNCHANGED <<keyed, given, stored>>

Next ==
    \/ \E r \in Rows : Give(r)
    \/ \E batch \in SUBSET Rows : Insert(batch) \/ InsertUnanswered(batch) \/ Lose(batch)

Spec == Init /\ [][Next]_vars

=============================================================================
