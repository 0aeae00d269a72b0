---------------------------- MODULE BatchWriter ----------------------------
(***************************************************************************)
(* The asynchronous batch writers of internal/store: ObservationsWriter    *)
(* (writer.go) and RawPostsWriter (raw_posts_writer.go).  Both are one     *)
(* algorithm: request goroutines Submit into a bounded channel, Run        *)
(* collects batches and copies each into Postgres with one retry.  They    *)
(* differ in `keyed`: a raw post brings its primary key, so the table      *)
(* refuses it a second time; an observation does not.                      *)
(*                                                                         *)
(* A row is an identity.  Postgres is external: an attempt commits or not, *)
(* and either way the answer may be an error (a timeout after the commit). *)
(***************************************************************************)
EXTENDS Integers, Sequences, FiniteSets

CONSTANTS Rows,         \* rows that requests may submit, each once
          Malformed,    \* rows the insert's validation refuses
          Producers,    \* request goroutines
          NoRow,        \* a producer between two submits
          BufferSize,   \* capacity of the channel
          MaxBatch      \* rows per flush

ASSUME SizesAssumption == BufferSize \in Nat \ {0} /\ MaxBatch \in Nat \ {0}

ASSUME ProducersAssumption == IsFiniteSet(Producers)

ASSUME RowsAssumption == Malformed \subseteq Rows /\ NoRow \notin Rows

VARIABLES keyed,      \* which of the two writers this is
          submitted,  \* rows whose Submit was called
          prod,       \* Submit calls in progress
          in,         \* the channel
          batch,      \* the batch being collected
          attempt,    \* 0, or the number of the insert attempt under way
          run,        \* where Run is
          cancelled,  \* the root context is done
          early,      \* history: rows in the writer when it was cancelled
          table,      \* copies of each row in Postgres
          stats       \* the writer's counters, and the calls of the drop hook

prodVars == <<submitted, prod>>
runVars  == <<batch, attempt, run>>
ctxVars  == <<cancelled, early>>
vars == <<keyed, prodVars, in, runVars, ctxVars, table, stats>>

Content(s) == {s[i] : i \in 1..Len(s)}

-----------------------------------------------------------------------------
(* Submit: three non-blocking selects.                                     *)

Idle == [pc |-> "idle", row |-> NoRow, evicted |-> FALSE]

Submit(p, r) ==
    /\ prod[p] = Idle /\ r \notin submitted
    /\ submitted' = submitted \cup {r}
    /\ IF Len(in) < BufferSize
       THEN in' = Append(in, r) /\ UNCHANGED prod
       ELSE /\ prod' = [prod EXCEPT ![p] = [pc |-> "evict", row |-> r, evicted |-> FALSE]]
            /\ UNCHANGED in
    /\ UNCHANGED <<keyed, runVars, ctxVars, table, stats>>

\* Variant of Evict with a bug: the evicted row is not counted.
EvictUncounted(p) ==
    /\ prod[p].pc = "evict"
    /\ prod' = [prod EXCEPT ![p].pc = "retry", ![p].evicted = in # <<>>]
    /\ in' = IF in = <<>> THEN in ELSE Tail(in)
    /\ UNCHANGED <<keyed, submitted, runVars, ctxVars, table, stats>>

\* Drop the oldest queued row; Run may have emptied the channel meanwhile.
Evict(p) ==
    /\ prod[p].pc = "evict"
    /\ prod' = [prod EXCEPT ![p].pc = "retry", ![p].evicted = in # <<>>]
    /\ IF in = <<>> THEN UNCHANGED <<in, stats>>
       ELSE in' = Tail(in) /\ stats' = [stats EXCEPT !.dropped = @ + 1]
    /\ UNCHANGED <<keyed, submitted, runVars, ctxVars, table>>

\* Variant of Retry with a bug: an eviction that made room is not reported.
RetryUnreported(p) ==
    /\ prod[p].pc = "retry"
    /\ prod' = [prod EXCEPT ![p] = Idle]
    /\ IF Len(in) < BufferSize
       THEN in' = Append(in, prod[p].row) /\ UNCHANGED stats
       ELSE /\ stats' = [stats EXCEPT !.dropped = @ + 1, !.reported = @ + 1]
            /\ UNCHANGED in
    /\ UNCHANGED <<keyed, submitted, runVars, ctxVars, table>>

\* When another request has taken the slot, the incoming row is dropped; the
\* hook is called for one row only.
Retry(p) ==
    /\ prod[p].pc = "retry"
    /\ prod' = [prod EXCEPT ![p] = Idle]
    /\ IF Len(in) < BufferSize
       THEN /\ in' = Append(in, prod[p].row)
            /\ stats' = IF prod[p].evicted THEN [stats EXCEPT !.reported = @ + 1] ELSE stats
       ELSE /\ stats' = [stats EXCEPT !.dropped = @ + 1, !.reported = @ + 1]
            /\ UNCHANGED in
    /\ UNCHANGED <<keyed, submitted, runVars, ctxVars, table>>

-----------------------------------------------------------------------------
(* Run, drainAndFlush.                                                     *)

\* Receive one row; a full batch is flushed.  Both loops do this.
Take ==
    /\ run \in {"loop", "drain"} /\ attempt = 0 /\ in # <<>>
    /\ batch' = Append(batch, Head(in))
    /\ in' = Tail(in)
    /\ attempt' = IF Len(batch) + 1 >= MaxBatch THEN 1 ELSE 0
    /\ UNCHANGED <<keyed, prodVars, run, ctxVars, table, stats>>

\* The ticker; flushBatch of an empty batch is a no-op.
FlushTick ==
    /\ run = "loop" /\ attempt = 0 /\ batch # <<>>
    /\ attempt' = 1
    /\ UNCHANGED <<keyed, prodVars, in, batch, run, ctxVars, table, stats>>

\* ctx.Done() is chosen by the select.
BeginDrain ==
    /\ run = "loop" /\ cancelled /\ attempt = 0
    /\ run' = "drain"
    /\ UNCHANGED <<keyed, prodVars, in, batch, attempt, ctxVars, table, stats>>

\* Variant of EndDrain with a bug: the channel is not emptied first.
EndDrainEarly ==
    /\ run = "drain" /\ attempt = 0
    /\ IF batch = <<>> THEN run' = "done" /\ UNCHANGED attempt
                       ELSE run' = "last" /\ attempt' = 1
    /\ UNCHANGED <<keyed, prodVars, in, batch, ctxVars, table, stats>>

\* The channel is found empty: the last flush, and Run returns.
EndDrain ==
    /\ run = "drain" /\ attempt = 0 /\ in = <<>>
    /\ IF batch = <<>> THEN run' = "done" /\ UNCHANGED attempt
                       ELSE run' = "last" /\ attempt' = 1
    /\ UNCHANGED <<keyed, prodVars, in, batch, ctxVars, table, stats>>

-----------------------------------------------------------------------------
(* flushBatch, insertWithRetry, and the insert itself.                     *)

\* Validation, and the primary key of a keyed table.
Refused == \E r \in Content(batch) : r \in Malformed \/ (keyed /\ table[r] > 0)

\* One CopyFrom is one transaction: all rows of the batch or none.
Commit == table' = [r \in Rows |-> IF r \in Content(batch) THEN table[r] + 1
                                                          ELSE table[r]]

\* Variant of EndFlush with a bug: Run does not return after the last flush.
EndFlushStays ==
    /\ batch' = <<>>
    /\ attempt' = 0
    /\ UNCHANGED run

EndFlush ==
    /\ batch' = <<>>
    /\ attempt' = 0
    /\ run' = IF run = "last" THEN "done" ELSE run

InsertOK ==
    /\ attempt # 0 /\ ~Refused
    /\ Commit
    /\ EndFlush
    /\ stats' = [stats EXCEPT !.written = @ + Len(batch)]
    /\ UNCHANGED <<keyed, prodVars, in, ctxVars>>

\* Variants of InsertFails with a bug: two retries; the retry's error is
\* ignored; the rows of a batch are not one transaction.
InsertFailsThrice(late) ==
    /\ attempt # 0 /\ ~(late /\ Refused)
    /\ IF late THEN Commit ELSE UNCHANGED table
    /\ IF attempt < 3
       THEN attempt' = attempt + 1 /\ UNCHANGED <<batch, run, stats>>
       ELSE /\ EndFlush
            /\ stats' = [stats EXCEPT !.errors = @ + Len(batch),
                                      !.batchesDropped = @ + 1]
    /\ UNCHANGED <<keyed, prodVars, in, ctxVars>>

InsertFailsIgnored(late) ==
    /\ attempt # 0 /\ ~(late /\ Refused)
    /\ IF late THEN Commit ELSE UNCHANGED table
    /\ IF attempt = 1
       THEN attempt' = 2 /\ UNCHANGED <<batch, run, stats>>
       ELSE EndFlush /\ stats' = [stats EXCEPT !.written = @ + Len(batch)]
    /\ UNCHANGED <<keyed, prodVars, in, ctxVars>>

InsertFailsHalf(late) ==
    /\ attempt # 0 /\ ~(late /\ Refused)
    /\ IF late THEN table' = [table EXCEPT ![Head(batch)] = @ + 1] ELSE UNCHANGED table
    /\ IF attempt = 1
       THEN attempt' = 2 /\ UNCHANGED <<batch, run, stats>>
       ELSE /\ EndFlush
            /\ stats' = [stats EXCEPT !.errors = @ + Len(batch),
                                      !.batchesDropped = @ + 1]
    /\ UNCHANGED <<keyed, prodVars, in, ctxVars>>

\* An error, with or without a commit behind it; one retry, then the whole
\* batch is given up.
InsertFails(late) ==
    /\ attempt # 0 /\ ~(late /\ Refused)
    /\ IF late THEN Commit ELSE UNCHANGED table
    /\ IF attempt = 1
       THEN attempt' = 2 /\ UNCHANGED <<batch, run, stats>>
       ELSE /\ EndFlush
            /\ stats' = [stats EXCEPT !.errors = @ + Len(batch),
                                      !.batchesDropped = @ + 1]
    /\ UNCHANGED <<keyed, prodVars, in, ctxVars>>

-----------------------------------------------------------------------------

\* SIGTERM.  The listeners are only shut down later: requests in flight go
\* on submitting.
Cancel ==
    /\ ~cancelled
    /\ cancelled' = TRUE
    /\ early' = Content(in) \cup Content(batch)
    /\ UNCHANGED <<keyed, prodVars, in, runVars, table, stats>>

Init ==
    /\ keyed \in BOOLEAN
    /\ submitted = {}
    /\ prod = [p \in Producers |-> Idle]
    /\ in = <<>>
    /\ batch = <<>>
    /\ attempt = 0
    /\ run = "loop"
    /\ cancelled = FALSE
    /\ early = {}
    /\ table = [r \in Rows |-> 0]
    /\ stats = [written |-> 0, dropped |-> 0, errors |-> 0, batchesDropped |-> 0,
                reported |-> 0]

RunStep ==
    \/ Take \/ FlushTick \/ BeginDrain \/ EndDrain
    \/ InsertOK \/ \E late \in BOOLEAN : InsertFails(late)

Next ==
    \/ \E p \in Producers : \/ \E r \in Rows : Submit(p, r)
                            \/ Evict(p)
                            \/ Retry(p)
    \/ RunStep
    \/ Cancel

Spec == Init /\ [][Next]_vars

\* Run is a goroutine of its own and every attempt ends within its 5 s
\* timeout; a select that keeps finding ctx.Done() ready picks it at last.
FairSpec == Spec /\ WF_vars(RunStep) /\ SF_vars(BeginDrain)

-----------------------------------------------------------------------------
(* Properties.                                                             *)

Submitting == {p \in Producers : prod[p] # Idle}

\* Requests that have evicted a row and not reported it yet.
Owing == {p \in Producers : prod[p].evicted}

Calls == [pc : {"idle", "evict", "retry"}, row : Rows \cup {NoRow}, evicted : BOOLEAN]

Counters == [written : Nat, dropped : Nat, errors : Nat, batchesDropped : Nat,
             reported : Nat]

CallsOK == /\ prod \in [Producers -> Calls]
           /\ \A p \in Submitting : prod[p].pc # "idle" /\ prod[p].row \in Rows

ChannelOK == in \in Seq(Rows) /\ Len(in) <= BufferSize

BatchOK == /\ batch \in Seq(Rows) /\ Len(batch) <= MaxBatch
           /\ attempt \in 0..2
           /\ attempt = 0 => Len(batch) < MaxBatch
           /\ attempt # 0 => batch # <<>>
           /\ run \in {"loop", "drain", "last", "done"}

\* Type correctness; neither the channel nor the batch outgrows its limit,
\* and an insert is only ever attempted for a batch that has rows.
TypeOK ==
    /\ keyed \in BOOLEAN /\ cancelled \in BOOLEAN
    /\ submitted \subseteq Rows /\ early \subseteq Rows
    /\ CallsOK
    /\ ChannelOK
    /\ BatchOK
    /\ table \in [Rows -> Nat]
    /\ stats \in Counters

\* No row vanishes uncounted and none is counted twice: what was submitted is
\* in a request's hands, queued, in the batch, or in exactly one of the three
\* totals the admin page and /metrics show.
Accounted ==
    Cardinality(submitted) =
        Cardinality(Submitting) + Len(in) + Len(batch)
        + stats.written + stats.dropped + stats.errors

\* A retry may repeat an insert that had committed: an observation is stored
\* at most twice, a raw post at most once, and no row that is still on its way
\* to the first attempt is stored at all.
RetryBounded ==
    /\ \A r \in Rows : table[r] <= (IF keyed THEN 1 ELSE 2)
    /\ \A r \in Content(in) : table[r] = 0
    /\ attempt \in {0, 1} => \A r \in Content(batch) : table[r] = 0

Stored == {r \in Rows : table[r] > 0}

\* The written counter never claims a row Postgres does not have.
WrittenIsStored == stats.written <= Cardinality(Stored)

\* Every call of the drop hook stands for a dropped row, and at most one
\* further drop (the eviction before a retry that failed) goes unreported.
DropsReported ==
    /\ stats.reported + Cardinality(Owing) <= stats.dropped
    /\ stats.dropped <= 2 * stats.reported + Cardinality(Owing)

\* Shutdown keeps what was queued: once Run has returned, no row that was in
\* the writer when the context was cancelled is left behind.
EarlyRowsDrained == run = "done" => early \cap (Content(in) \cup Content(batch)) = {}

\* Rows with the writer: in a Submit call, in the channel or in the batch.
InWriter == {prod[p].row : p \in Submitting} \cup Content(in) \cup Content(batch)

Contract == INSTANCE WriterContract WITH
    given <- submitted,
    pending <- InWriter,
    stored <- Stored

\* The writer implements WriterContract, which Retention and Ingest build on:
\* whatever fails, is evicted or times out, only rows that are with the writer
\* get into the table, a whole batch at a time, and a row that was written,
\* dropped or given up is never touched again.
WriterKeepsContract == Contract!Spec

\* After SIGTERM the writer's goroutine ends, so that main's wg.Wait returns.
ShutdownCompletes == cancelled ~> run = "done"

-----------------------------------------------------------------------------

\* writer.go, Run: it drains "anything still buffered" before returning, "so a
\* SIGTERM during a burst doesn't silently lose observations".  Once Run has
\* returned and the burst is over, no row is left in the channel.
BurstNotLost == run = "done" /\ Submitting = {} => in = <<>>

=============================================================================
