----------------------------- MODULE Retention ------------------------------
(***************************************************************************)
(* The two tables of captured traffic and the retention worker that prunes *)
(* them (store/retention.go, PruneOlderThan).  Whatever submits rows is in *)
(* Ingest, which extends this module; between a submit and its insert a row*)
(* is with a batch writer, reduced here to what WriterContract promises of *)
(* it: two sets of rows, parts of which are inserted or lost.  Totals,     *)
(* which nothing but tests reads, is left out.                             *)
(*                                                                         *)
(* Time is counted in days of the wall clock.  A row is a record with at   *)
(* least `at`, the column its table is pruned by, and `id` in raw_posts.   *)
(* The skip of a snapshot without a positive retention_days is left out:   *)
(* NewSettings and Replace keep it in 1..30.                               *)
(***************************************************************************)
EXTENDS Integers, FiniteSets

CONSTANTS Windows,      \* values of settings.retention_days
          StartTime,    \* the clock at boot
          Budgets       \* bounds on what the environment does: in a behaviour,
                        \* at most budget[k] inputs of each kind k

VARIABLES now,          \* the wall clock
          settings,     \* SettingsSnapshot: days and the two capture toggles
          queued,       \* rows with the writers: [obs, raw], two sets
          tables,       \* observations and raw_posts: [obs, raw], two sets
          runner,       \* RetentionRunner: pc, the cutoff `before` and the
                        \* window it was computed from
          budget        \* inputs of each kind still to come

retentionVars == <<now, settings, queued, tables, runner, budget>>

\* POSTs to /ingest and to /heartbeat, days passed, admin changes, failures.
Inputs == {"post", "beat", "day", "edit", "fault"}

ASSUME RetentionAssumption ==
    /\ Windows \subseteq Nat \ {0}
    /\ StartTime \in Nat
    /\ Budgets \subseteq [Inputs -> Nat]

Waiting == [pc |-> "idle", before |-> 0, days |-> 0]

RetentionInit ==
    /\ now = StartTime
    /\ settings \in [days : Windows, hex : {FALSE}, full : {TRUE}]
    /\ queued = [obs |-> {}, raw |-> {}]
    /\ tables = [obs |-> {}, raw |-> {}]
    /\ runner = Waiting
    /\ budget \in Budgets

Input(k) == budget[k] > 0 /\ budget' = [budget EXCEPT ![k] = @ - 1]

\* The wall clock.
Advance ==
    /\ Input("day")
    /\ now' = now + 1
    /\ UNCHANGED <<settings, queued, tables, runner>>

Batches(t) == (SUBSET queued[t]) \ {{}}

\* One CopyFrom.  An envelope is stamped only here, since main hands it over
\* without a received_at; its id is the primary key of raw_posts, which refuses
\* it a second time.
Insert(t, batch) ==
    /\ t = "raw" => \A row \in batch, old \in tables.raw : row.id # old.id
    /\ tables' = [tables EXCEPT ![t] = @ \cup
                    {IF t = "raw" THEN [row EXCEPT !.at = now] ELSE row : row \in batch}]

\* A writer inserts a batch of what it has and is done with it.
Flush(t, batch) ==
    /\ Insert(t, batch)
    /\ queued' = [queued EXCEPT ![t] = @ \ batch]
    /\ UNCHANGED <<now, settings, runner, budget>>

\* The insert times out after its commit: the writer keeps the batch and will
\* try again.
FlushUnanswered(t, batch) ==
    /\ Input("fault") /\ batch \cap tables[t] = {}
    /\ Insert(t, batch)
    /\ UNCHANGED <<now, settings, queued, runner>>

\* Rows are evicted from a full channel, or a batch is given up.
Lose(t, batch) ==
    /\ Input("fault")
    /\ queued' = [queued EXCEPT ![t] = @ \ batch]
    /\ UNCHANGED <<now, settings, tables, runner>>

\* RunOnce, at boot and on the hourly tick, reads the snapshot and the clock.
StartPrune ==
    /\ runner.pc = "idle"
    /\ runner' = [pc |-> "obs", before |-> now - settings.days,
                  days |-> settings.days]
    /\ UNCHANGED <<now, settings, queued, tables, budget>>

Expired(t) == {row \in tables[t] : row.at < runner.before}

Delete(t) == tables' = [tables EXCEPT ![t] = @ \ Expired(t)]

\* Variant of AfterObservations with a bug: the cycle ends after one table.
AfterObservationsReturns == Waiting

AfterObservations == [runner EXCEPT !.pc = "raw"]

\* DELETE FROM observations.
PruneObservations ==
    /\ runner.pc = "obs"
    /\ Delete("obs")
    /\ runner' = AfterObservations
    /\ UNCHANGED <<now, settings, queued, budget>>

\* DELETE FROM raw_posts, a statement of its own.
PruneRawPosts ==
    /\ runner.pc = "raw"
    /\ Delete("raw")
    /\ runner' = Waiting
    /\ UNCHANGED <<now, settings, queued, budget>>

\* A statement fails, or times out after its commit: the cycle ends there,
\* although rows may have been deleted.
PruneFails(t) ==
    /\ runner.pc = t /\ Input("fault")
    /\ Delete(t) \/ UNCHANGED tables
    /\ runner' = Waiting
    /\ UNCHANGED <<now, settings, queued>>

RetentionNext ==
    \/ Advance \/ StartPrune \/ PruneObservations \/ PruneRawPosts
    \/ \E t \in {"obs", "raw"} :
          \/ PruneFails(t)
          \/ \E batch \in Batches(t) :
                Flush(t, batch) \/ FlushUnanswered(t, batch) \/ Lose(t, batch)

=============================================================================
