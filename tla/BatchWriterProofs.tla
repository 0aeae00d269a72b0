------------------------- MODULE BatchWriterProofs -------------------------
(***************************************************************************)
(* Theorems about BatchWriter, for every set of rows, every finite set of  *)
(* request goroutines and every buffer and batch size: types, the          *)
(* accounting of rows and of drop reports (IInv), and what becomes of each *)
(* row in the table and in the drain (RInv), and the refinement of         *)
(* WriterContract.                                                         *)
(***************************************************************************)
EXTENDS BatchWriter, FiniteSetTheorems, TLAPS

\* Only a Submit past its eviction owes a report.
OwingRetries == \A p \in Producers : prod[p].evicted => prod[p].pc = "retry"

\* The flags and sets of rows of TypeOK.
FlagsOK == keyed \in BOOLEAN /\ cancelled \in BOOLEAN

RowsOK == submitted \subseteq Rows /\ early \subseteq Rows /\ IsFiniteSet(submitted)

StoreOK == table \in [Rows -> Nat]

CountersOK == stats \in Counters

\* The inductive invariant.  Cardinality means something only for finite sets,
\* and DropsReported is inductive only with OwingRetries.
IInv ==
    /\ FlagsOK /\ RowsOK /\ CallsOK /\ ChannelOK /\ BatchOK /\ StoreOK /\ CountersOK
    /\ OwingRetries /\ Accounted /\ DropsReported

-----------------------------------------------------------------------------
(* The sets of producers.                                                  *)

\* They are finite, so their cardinalities are numbers.
LEMMA ProducerSetsFinite ==
    /\ IsFiniteSet(Submitting) /\ Cardinality(Submitting) \in Nat
    /\ IsFiniteSet(Owing) /\ Cardinality(Owing) \in Nat
<1>1. Submitting \subseteq Producers /\ Owing \subseteq Producers
  BY DEF Submitting, Owing
<1>2. QED
  BY <1>1, ProducersAssumption, FS_Subset, FS_CardinalityType

\* A step of one Submit call is a step of its record alone.
LEMMA CallStep ==
    ASSUME CallsOK, NEW p \in Producers, NEW x, prod' = [prod EXCEPT ![p] = x]
    PROVE  \A q \in Producers : prod'[q] = IF q = p THEN x ELSE prod[q]
BY DEF CallsOK

\* What a step of one Submit call does to the two sets of producers.
LEMMA ProducerStep ==
    ASSUME CallsOK, NEW p \in Producers, NEW x, prod' = [prod EXCEPT ![p] = x],
           x.evicted \in BOOLEAN
    PROVE  /\ x # Idle => Submitting' = Submitting \cup {p}
           /\ x = Idle => Submitting' = Submitting \ {p}
           /\ x.evicted => Owing' = Owing \cup {p}
           /\ ~x.evicted => Owing' = Owing \ {p}
<1>1. \A q \in Producers : prod'[q] = IF q = p THEN x ELSE prod[q]
  BY CallStep, ZenonT(60)
<1>2. QED
  BY <1>1 DEF Submitting, Owing

\* Adding or removing one producer, counted.
LEMMA OneMore ==
    ASSUME NEW A, IsFiniteSet(A), NEW p
    PROVE  /\ p \notin A => Cardinality(A \cup {p}) = Cardinality(A) + 1
           /\ p \in A => A \cup {p} = A
           /\ p \in A => Cardinality(A \ {p}) = Cardinality(A) - 1
           /\ p \notin A => A \ {p} = A
<1>1. p \notin A => Cardinality(A \cup {p}) = Cardinality(A) + 1
  BY FS_AddElement
<1>2. p \in A => Cardinality(A \ {p}) = Cardinality(A) - 1
  BY FS_RemoveElement
<1>3. QED
  BY <1>1, <1>2

\* The type of the calls after a step of one of them.
LEMMA CallsOKStep ==
    ASSUME CallsOK, OwingRetries, NEW p \in Producers, NEW x \in Calls,
           prod' = [prod EXCEPT ![p] = x],
           x # Idle => x.pc # "idle" /\ x.row \in Rows,
           x.evicted => x.pc = "retry"
    PROVE  CallsOK' /\ OwingRetries'
<1>1. \A q \in Producers : prod'[q] = IF q = p THEN x ELSE prod[q]
  BY CallStep, ZenonT(60)
<1>2. prod' \in [Producers -> Calls]
  BY DEF CallsOK
<1>3. \A q \in Submitting' : prod'[q].pc # "idle" /\ prod'[q].row \in Rows
  BY <1>1 DEF CallsOK, Submitting
<1>4. OwingRetries'
  BY <1>1 DEF OwingRetries
<1>5. QED
  BY <1>2, <1>3, <1>4 DEF CallsOK

\* A step that leaves the calls alone leaves all of this alone.
LEMMA SameCalls ==
    ASSUME UNCHANGED prod
    PROVE  /\ Submitting' = Submitting /\ Owing' = Owing
           /\ CallsOK => CallsOK'
           /\ OwingRetries => OwingRetries'
BY DEF Submitting, Owing, CallsOK, OwingRetries

-----------------------------------------------------------------------------
(* The numbers of the accounting.                                          *)

\* The invariant's numbers, and what it says of them.
LEMMA Numbers ==
    ASSUME IInv
    PROVE  /\ Accounted /\ DropsReported
           /\ Cardinality(submitted) \in Nat
           /\ Cardinality(Submitting) \in Nat /\ Cardinality(Owing) \in Nat
           /\ Len(in) \in Nat /\ Len(batch) \in Nat
           /\ stats.written \in Nat /\ stats.dropped \in Nat
           /\ stats.errors \in Nat /\ stats.reported \in Nat
<1>1. Accounted /\ DropsReported /\ IsFiniteSet(submitted)
  BY DEF IInv, RowsOK
<1>2. stats \in Counters /\ in \in Seq(Rows) /\ batch \in Seq(Rows)
  BY DEF IInv, CountersOK, ChannelOK, BatchOK
<1>3. /\ stats.written \in Nat /\ stats.dropped \in Nat
      /\ stats.errors \in Nat /\ stats.reported \in Nat
  BY <1>2 DEF Counters
<1>4. Len(in) \in Nat /\ Len(batch) \in Nat
  BY <1>2
<1>5. QED
  BY <1>1, <1>3, <1>4, ProducerSetsFinite, FS_CardinalityType

\* Lengths and elements after one send or one receive.
LEMMA ChannelStep ==
    ASSUME NEW s \in Seq(Rows), NEW r \in Rows
    PROVE  /\ Len(s) \in Nat
           /\ Append(s, r) \in Seq(Rows) /\ Len(Append(s, r)) = Len(s) + 1
           /\ s # <<>> => /\ Head(s) \in Rows /\ Tail(s) \in Seq(Rows)
                          /\ Len(s) > 0 /\ Len(Tail(s)) = Len(s) - 1
OBVIOUS

-----------------------------------------------------------------------------
(* The invariant holds initially and is preserved by every action.         *)

\* A fresh writer: nothing is submitted, queued or counted.
LEMMA InitIInv == Init => IInv
<1>0. SUFFICES ASSUME Init PROVE IInv
  OBVIOUS
<1>1. Submitting = {} /\ Owing = {}
  BY <1>0 DEF Init, Submitting, Owing, Idle
<1>2. IsFiniteSet({}) /\ Cardinality({}) = 0
  BY FS_EmptySet
<1>3. FlagsOK
  BY <1>0, Zenon DEF Init, FlagsOK
<1>4. RowsOK
  BY <1>0, <1>2 DEF Init, RowsOK
<1>5. CallsOK /\ OwingRetries
  BY <1>0, <1>1 DEF Init, CallsOK, Calls, OwingRetries, Idle
<1>6. ChannelOK /\ BatchOK
  BY <1>0, SizesAssumption DEF Init, ChannelOK, BatchOK
<1>7. StoreOK /\ CountersOK
  BY <1>0 DEF Init, StoreOK, CountersOK, Counters
<1>8. Accounted /\ DropsReported
  BY <1>0, <1>1, <1>2 DEF Init, Accounted, DropsReported
<1>9. QED
  BY <1>3, <1>4, <1>5, <1>6, <1>7, <1>8 DEF IInv

\* Submit's first select: the row is queued, or in the request's hands.
LEMMA SubmitIInv ==
    ASSUME NEW p \in Producers, NEW r \in Rows
    PROVE  IInv /\ Submit(p, r) => IInv'
<1>0. SUFFICES ASSUME IInv, Submit(p, r) PROVE IInv'
  OBVIOUS
<1> DEFINE held == [pc |-> "evict", row |-> r, evicted |-> FALSE]
<1>1. /\ Accounted /\ DropsReported
      /\ Cardinality(submitted) \in Nat
      /\ Cardinality(Submitting) \in Nat /\ Cardinality(Owing) \in Nat
      /\ Len(in) \in Nat /\ Len(batch) \in Nat
      /\ stats.written \in Nat /\ stats.dropped \in Nat
      /\ stats.errors \in Nat /\ stats.reported \in Nat
  BY <1>0, Numbers
<1>2. batch' = batch /\ stats' = stats /\ table' = table
  BY <1>0 DEF Submit, runVars
<1>3. /\ Cardinality(submitted') = Cardinality(submitted) + 1
      /\ RowsOK'
  <2>1. submitted' = submitted \cup {r} /\ r \notin submitted /\ early' = early
    BY <1>0 DEF Submit, ctxVars
  <2>2. IsFiniteSet(submitted) /\ submitted \subseteq Rows /\ early \subseteq Rows
    BY <1>0 DEF IInv, RowsOK
  <2>3. IsFiniteSet(submitted \cup {r})
    BY <2>2, FS_AddElement
  <2>4. QED
    BY <2>1, <2>2, <2>3, OneMore DEF RowsOK
<1>4. FlagsOK' /\ BatchOK' /\ StoreOK' /\ CountersOK'
  <2>1. FlagsOK'
    BY <1>0, Zenon DEF IInv, FlagsOK, Submit, ctxVars
  <2>2. BatchOK' /\ StoreOK' /\ CountersOK'
    BY <1>0, <1>2 DEF IInv, BatchOK, StoreOK, CountersOK, Submit, runVars
  <2>3. QED
    BY <2>1, <2>2
<1>5. CallsOK /\ OwingRetries /\ in \in Seq(Rows) /\ Len(in) <= BufferSize
  BY <1>0 DEF IInv, ChannelOK
<1>6. CASE Len(in) < BufferSize
  <2>1. in' = Append(in, r) /\ prod' = prod
    BY <1>0, <1>6 DEF Submit
  <2>2. Submitting' = Submitting /\ Owing' = Owing /\ CallsOK' /\ OwingRetries'
    BY <1>5, <2>1, SameCalls
  <2>3. in' \in Seq(Rows) /\ Len(in') = Len(in) + 1
    BY <1>5, <2>1, ChannelStep
  <2>4. ChannelOK'
    BY <1>1, <1>6, <2>3, SizesAssumption DEF ChannelOK
  <2>5. Accounted'
    BY <1>1, <1>2, <1>3, <2>2, <2>3, SMTT(60) DEF Accounted
  <2>6. DropsReported'
    BY <1>1, <1>2, <2>2 DEF DropsReported
  <2>7. QED
    BY <1>3, <1>4, <2>2, <2>4, <2>5, <2>6 DEF IInv
<1>7. CASE ~(Len(in) < BufferSize)
  <2>1. in' = in /\ prod' = [prod EXCEPT ![p] = held] /\ prod[p] = Idle
    BY <1>0, <1>7 DEF Submit
  <2>2. /\ held \in Calls /\ held # Idle /\ held.pc = "evict" /\ held.row \in Rows
        /\ ~held.evicted /\ held.evicted \in BOOLEAN
    BY DEF Calls, Idle
  <2>3. p \notin Submitting /\ p \notin Owing
    BY <2>1 DEF Submitting, Owing, Idle
  <2> HIDE DEF held
  <2>4. Submitting' = Submitting \cup {p} /\ Owing' = Owing \ {p}
    BY <1>5, <2>1, <2>2, ProducerStep
  <2>5. /\ Cardinality(Submitting') = Cardinality(Submitting) + 1
        /\ Cardinality(Owing') = Cardinality(Owing)
    BY <2>3, <2>4, OneMore, ProducerSetsFinite
  <2>6. CallsOK' /\ OwingRetries'
    BY <1>5, <2>1, <2>2, CallsOKStep
  <2>7. ChannelOK'
    BY <1>5, <2>1 DEF ChannelOK
  <2>8. Accounted'
    BY <1>1, <1>2, <1>3, <2>1, <2>5, SMTT(60) DEF Accounted
  <2>9. DropsReported'
    BY <1>1, <1>2, <2>5 DEF DropsReported
  <2>10. QED
    BY <1>3, <1>4, <2>6, <2>7, <2>8, <2>9 DEF IInv
<1>8. QED
  BY <1>6, <1>7

\* Eviction: the row that leaves the channel is counted as dropped, and owed.
LEMMA EvictIInv ==
    ASSUME NEW p \in Producers
    PROVE  IInv /\ Evict(p) => IInv'
<1>0. SUFFICES ASSUME IInv, Evict(p) PROVE IInv'
  OBVIOUS
<1> DEFINE x == [prod[p] EXCEPT !.pc = "retry", !.evicted = in # <<>>]
<1>1. /\ Accounted /\ DropsReported
      /\ Cardinality(submitted) \in Nat
      /\ Cardinality(Submitting) \in Nat /\ Cardinality(Owing) \in Nat
      /\ Len(in) \in Nat /\ Len(batch) \in Nat
      /\ stats.written \in Nat /\ stats.dropped \in Nat
      /\ stats.errors \in Nat /\ stats.reported \in Nat
  BY <1>0, Numbers
<1>2. batch' = batch /\ submitted' = submitted
  BY <1>0 DEF Evict, runVars
<1>3. FlagsOK' /\ RowsOK' /\ BatchOK' /\ StoreOK'
  <2>1. FlagsOK'
    BY <1>0, Zenon DEF IInv, FlagsOK, Evict, ctxVars
  <2>2. RowsOK' /\ BatchOK' /\ StoreOK'
    BY <1>0, <1>2 DEF IInv, RowsOK, BatchOK, StoreOK, Evict, runVars, ctxVars
  <2>3. QED
    BY <2>1, <2>2
<1>4. /\ CallsOK /\ OwingRetries /\ in \in Seq(Rows) /\ Len(in) <= BufferSize
      /\ stats \in Counters
  BY <1>0 DEF IInv, ChannelOK, CountersOK
<1>5. /\ prod' = [prod EXCEPT ![p] = x]
      /\ prod[p] \in Calls /\ prod[p].pc = "evict"
  BY <1>0, <1>4 DEF Evict, CallsOK
<1>6. p \in Submitting /\ p \notin Owing
  BY <1>4, <1>5 DEF Submitting, Owing, OwingRetries, Idle
<1>7. prod[p].row \in Rows
  BY <1>4, <1>6 DEF CallsOK
<1>8. /\ x \in Calls /\ x # Idle /\ x.pc = "retry" /\ x.row \in Rows
      /\ x.evicted \in BOOLEAN /\ (x.evicted <=> in # <<>>)
  BY <1>5, <1>7 DEF Calls, Idle
<1> HIDE DEF x
<1>9. CallsOK' /\ OwingRetries'
  BY <1>4, <1>5, <1>8, CallsOKStep
<1>10. /\ Submitting' = Submitting \cup {p}
       /\ x.evicted => Owing' = Owing \cup {p}
       /\ ~x.evicted => Owing' = Owing \ {p}
  BY <1>4, <1>5, <1>8, ProducerStep
<1>11. Submitting' = Submitting
  BY <1>6, <1>10
<1>12. CASE in = <<>>
  <2>1. in' = in /\ stats' = stats
    BY <1>0, <1>12 DEF Evict
  <2>2. Owing' = Owing
    BY <1>6, <1>8, <1>10, <1>12
  <2>3. ChannelOK' /\ CountersOK'
    BY <1>4, <2>1 DEF ChannelOK, CountersOK
  <2>4. Accounted'
    BY <1>1, <1>2, <1>11, <2>1, SMTT(60) DEF Accounted
  <2>5. DropsReported'
    BY <1>1, <2>1, <2>2 DEF DropsReported
  <2>6. QED
    BY <1>3, <1>9, <2>3, <2>4, <2>5 DEF IInv
<1>13. CASE in # <<>>
  <2>1. in' = Tail(in) /\ stats' = [stats EXCEPT !.dropped = @ + 1]
    BY <1>0, <1>13 DEF Evict
  <2>2. Owing' = Owing \cup {p}
    BY <1>8, <1>10, <1>13
  <2>3. Cardinality(Owing') = Cardinality(Owing) + 1
    BY <1>6, <2>2, OneMore, ProducerSetsFinite
  <2>4. in' \in Seq(Rows) /\ Len(in') = Len(in) - 1
    BY <1>4, <1>7, <1>13, <2>1, ChannelStep
  <2>5. /\ stats' \in Counters
        /\ stats'.dropped = stats.dropped + 1 /\ stats'.written = stats.written
        /\ stats'.errors = stats.errors /\ stats'.reported = stats.reported
    BY <1>4, <2>1 DEF Counters
  <2>6. ChannelOK'
    BY <1>1, <1>4, <2>4, SizesAssumption DEF ChannelOK
  <2>7. Accounted'
    BY <1>1, <1>2, <1>11, <2>4, <2>5, SMTT(60) DEF Accounted
  <2>8. DropsReported'
    BY <1>1, <2>3, <2>5, SMTT(60) DEF DropsReported
  <2>9. CountersOK'
    BY <2>5 DEF CountersOK
  <2>10. QED
    BY <1>3, <1>9, <2>6, <2>7, <2>8, <2>9 DEF IInv
<1>14. QED
  BY <1>12, <1>13

\* The last select: the row is queued, or counted and reported as dropped.
LEMMA RetryIInv ==
    ASSUME NEW p \in Producers
    PROVE  IInv /\ Retry(p) => IInv'
<1>0. SUFFICES ASSUME IInv, Retry(p) PROVE IInv'
  OBVIOUS
<1>1. /\ Accounted /\ DropsReported
      /\ Cardinality(submitted) \in Nat
      /\ Cardinality(Submitting) \in Nat /\ Cardinality(Owing) \in Nat
      /\ Len(in) \in Nat /\ Len(batch) \in Nat
      /\ stats.written \in Nat /\ stats.dropped \in Nat
      /\ stats.errors \in Nat /\ stats.reported \in Nat
  BY <1>0, Numbers
<1>2. batch' = batch /\ submitted' = submitted
  BY <1>0 DEF Retry, runVars
<1>3. FlagsOK' /\ RowsOK' /\ BatchOK' /\ StoreOK'
  <2>1. FlagsOK'
    BY <1>0, Zenon DEF IInv, FlagsOK, Retry, ctxVars
  <2>2. RowsOK' /\ BatchOK' /\ StoreOK'
    BY <1>0, <1>2 DEF IInv, RowsOK, BatchOK, StoreOK, Retry, runVars, ctxVars
  <2>3. QED
    BY <2>1, <2>2
<1>4. /\ CallsOK /\ OwingRetries /\ in \in Seq(Rows) /\ Len(in) <= BufferSize
      /\ stats \in Counters
  BY <1>0 DEF IInv, ChannelOK, CountersOK
<1>5. prod' = [prod EXCEPT ![p] = Idle] /\ prod[p].pc = "retry"
  BY <1>0 DEF Retry
<1>6. p \in Submitting /\ prod[p].row \in Rows
  BY <1>4, <1>5 DEF Submitting, Idle, CallsOK
<1>7. Idle \in Calls /\ Idle.evicted \in BOOLEAN /\ ~Idle.evicted
  BY DEF Idle, Calls
<1>8. CallsOK' /\ OwingRetries'
  BY <1>4, <1>5, <1>7, CallsOKStep
<1>9. Submitting' = Submitting \ {p} /\ Owing' = Owing \ {p}
  BY <1>4, <1>5, <1>7, ProducerStep
<1>10. Cardinality(Submitting') = Cardinality(Submitting) - 1
  BY <1>6, <1>9, OneMore, ProducerSetsFinite
<1>11. /\ p \in Owing => Cardinality(Owing') = Cardinality(Owing) - 1
       /\ p \notin Owing => Owing' = Owing
  BY <1>9, OneMore, ProducerSetsFinite
<1>12. CASE Len(in) < BufferSize
  <2>1. in' = Append(in, prod[p].row)
    BY <1>0, <1>12 DEF Retry
  <2>2. in' \in Seq(Rows) /\ Len(in') = Len(in) + 1
    BY <1>4, <1>6, <2>1, ChannelStep
  <2>3. ChannelOK'
    BY <1>1, <1>12, <2>2, SizesAssumption DEF ChannelOK
  <2>4. CASE p \in Owing
    <3>1. stats' = [stats EXCEPT !.reported = @ + 1]
      BY <1>0, <1>12, <2>4 DEF Retry, Owing
    <3>2. /\ stats' \in Counters
          /\ stats'.dropped = stats.dropped /\ stats'.written = stats.written
          /\ stats'.errors = stats.errors /\ stats'.reported = stats.reported + 1
      BY <1>4, <3>1 DEF Counters
    <3>3. Cardinality(Owing') = Cardinality(Owing) - 1
      BY <1>11, <2>4
    <3>4. Accounted'
      BY <1>1, <1>2, <1>10, <2>2, <3>2, SMTT(60) DEF Accounted
    <3>5. DropsReported'
      BY <1>1, <3>2, <3>3, SMTT(60) DEF DropsReported
    <3>6. CountersOK'
      BY <3>2 DEF CountersOK
    <3>7. QED
      BY <1>3, <1>8, <2>3, <3>4, <3>5, <3>6 DEF IInv
  <2>5. CASE p \notin Owing
    <3>1. stats' = stats
      BY <1>0, <1>12, <2>5 DEF Retry, Owing
    <3>2. Owing' = Owing
      BY <1>11, <2>5
    <3>3. Accounted'
      BY <1>1, <1>2, <1>10, <2>2, <3>1, SMTT(60) DEF Accounted
    <3>4. DropsReported'
      BY <1>1, <3>1, <3>2 DEF DropsReported
    <3>5. CountersOK'
      BY <1>4, <3>1 DEF CountersOK
    <3>6. QED
      BY <1>3, <1>8, <2>3, <3>3, <3>4, <3>5 DEF IInv
  <2>6. QED
    BY <2>4, <2>5
<1>13. CASE ~(Len(in) < BufferSize)
  <2>1. in' = in /\ stats' = [stats EXCEPT !.dropped = @ + 1, !.reported = @ + 1]
    BY <1>0, <1>13 DEF Retry
  <2>2. /\ stats' \in Counters
        /\ stats'.dropped = stats.dropped + 1 /\ stats'.written = stats.written
        /\ stats'.errors = stats.errors /\ stats'.reported = stats.reported + 1
    <3> DEFINE s == [stats EXCEPT !.dropped = @ + 1]
    <3>1. /\ s \in Counters /\ s.dropped = stats.dropped + 1 /\ s.written = stats.written
          /\ s.errors = stats.errors /\ s.reported = stats.reported
      BY <1>4 DEF Counters
    <3>2. stats' = [s EXCEPT !.reported = @ + 1]
      BY <1>4, <2>1 DEF Counters
    <3> HIDE DEF s
    <3>3. /\ stats' \in Counters /\ stats'.dropped = s.dropped /\ stats'.written = s.written
          /\ stats'.errors = s.errors /\ stats'.reported = s.reported + 1
      BY <3>1, <3>2 DEF Counters
    <3>4. QED
      BY <3>1, <3>3
  <2>3. ChannelOK' /\ CountersOK'
    BY <1>4, <2>1, <2>2 DEF ChannelOK, CountersOK
  <2>4. Accounted'
    BY <1>1, <1>2, <1>10, <2>1, <2>2, SMTT(120) DEF Accounted
  <2>5. DropsReported'
    <3>1. CASE p \in Owing
      BY <1>1, <1>11, <2>2, <3>1, SMTT(60) DEF DropsReported
    <3>2. CASE p \notin Owing
      BY <1>1, <1>11, <2>2, <3>2, SMTT(60) DEF DropsReported
    <3>3. QED
      BY <3>1, <3>2
  <2>6. QED
    BY <1>3, <1>8, <2>3, <2>4, <2>5 DEF IInv
<1>14. QED
  BY <1>12, <1>13

\* Steps of Run leave the requests and the context alone.
LEMMA RunFrame ==
    ASSUME IInv, UNCHANGED <<keyed, prodVars, ctxVars>>
    PROVE  /\ FlagsOK' /\ RowsOK' /\ CallsOK' /\ OwingRetries'
           /\ Submitting' = Submitting /\ Owing' = Owing /\ submitted' = submitted
<1>1. /\ keyed' = keyed /\ submitted' = submitted /\ prod' = prod
      /\ cancelled' = cancelled /\ early' = early
  BY DEF prodVars, ctxVars
<1>2. FlagsOK'
  BY <1>1, Zenon DEF IInv, FlagsOK
<1>3. RowsOK'
  BY <1>1 DEF IInv, RowsOK
<1>4. QED
  BY <1>1, <1>2, <1>3, SameCalls DEF IInv

\* A step that changes neither rows nor counters.
LEMMA QuietAccounts ==
    ASSUME Accounted, DropsReported, Submitting' = Submitting, Owing' = Owing,
           UNCHANGED <<submitted, in, batch, stats>>
    PROVE  Accounted' /\ DropsReported'
BY DEF Accounted, DropsReported

\* Run receives one row: it moves from the channel into the batch.
LEMMA TakeIInv == IInv /\ Take => IInv'
<1>0. SUFFICES ASSUME IInv, Take PROVE IInv'
  OBVIOUS
<1>1. /\ Accounted /\ DropsReported
      /\ Cardinality(submitted) \in Nat
      /\ Cardinality(Submitting) \in Nat /\ Cardinality(Owing) \in Nat
      /\ Len(in) \in Nat /\ Len(batch) \in Nat
      /\ stats.written \in Nat /\ stats.dropped \in Nat
      /\ stats.errors \in Nat /\ stats.reported \in Nat
  BY <1>0, Numbers
<1>2. /\ FlagsOK' /\ RowsOK' /\ CallsOK' /\ OwingRetries'
      /\ Submitting' = Submitting /\ Owing' = Owing /\ submitted' = submitted
  BY <1>0, RunFrame DEF Take
<1>3. /\ in # <<>> /\ in' = Tail(in) /\ batch' = Append(batch, Head(in)) /\ attempt = 0
      /\ attempt' = (IF Len(batch) + 1 >= MaxBatch THEN 1 ELSE 0)
      /\ run' = run /\ table' = table /\ stats' = stats
  BY <1>0 DEF Take
<1>4. /\ in \in Seq(Rows) /\ Len(in) <= BufferSize
      /\ batch \in Seq(Rows) /\ Len(batch) < MaxBatch
      /\ run \in {"loop", "drain", "last", "done"}
  BY <1>0, <1>3 DEF IInv, ChannelOK, BatchOK
<1>5. Head(in) \in Rows
  BY <1>3, <1>4
<1>6. in' \in Seq(Rows) /\ Len(in') = Len(in) - 1
  BY <1>3, <1>4, <1>5, ChannelStep
<1>7. batch' \in Seq(Rows) /\ Len(batch') = Len(batch) + 1
  BY <1>3, <1>4, <1>5, ChannelStep
<1>8. ChannelOK'
  BY <1>1, <1>4, <1>6, SizesAssumption DEF ChannelOK
<1>9. BatchOK'
  <2>1. batch' # <<>>
    BY <1>1, <1>7
  <2>2. Len(batch') <= MaxBatch
    BY <1>1, <1>4, <1>7, SizesAssumption
  <2>3. attempt' \in 0..2 /\ (attempt' = 0 => Len(batch') < MaxBatch)
    BY <1>1, <1>3, <1>7, SizesAssumption
  <2>4. QED
    BY <1>3, <1>4, <1>7, <2>1, <2>2, <2>3 DEF BatchOK
<1>10. StoreOK' /\ CountersOK'
  BY <1>0, <1>3 DEF IInv, StoreOK, CountersOK
<1>11. Accounted'
  BY <1>1, <1>2, <1>3, <1>6, <1>7, SMTT(60) DEF Accounted
<1>12. DropsReported'
  BY <1>1, <1>2, <1>3 DEF DropsReported
<1>13. QED
  BY <1>2, <1>8, <1>9, <1>10, <1>11, <1>12 DEF IInv

\* The ticker and the two ends of the drain only move Run's program counter.
LEMMA ControlIInv == IInv /\ (FlushTick \/ BeginDrain \/ EndDrain) => IInv'
<1>0. SUFFICES ASSUME IInv, FlushTick \/ BeginDrain \/ EndDrain PROVE IInv'
  OBVIOUS
<1>1. /\ UNCHANGED <<keyed, prodVars, ctxVars>>
      /\ in' = in /\ batch' = batch /\ table' = table /\ stats' = stats
      /\ attempt = 0
      /\ \/ attempt' = 0
         \/ attempt' = 1 /\ batch # <<>>
      /\ run' \in {run, "loop", "drain", "last", "done"}
  BY <1>0 DEF FlushTick, BeginDrain, EndDrain
<1>2. /\ FlagsOK' /\ RowsOK' /\ CallsOK' /\ OwingRetries'
      /\ Submitting' = Submitting /\ Owing' = Owing /\ submitted' = submitted
  BY <1>0, <1>1, RunFrame
<1>3. ChannelOK' /\ StoreOK' /\ CountersOK'
  BY <1>0, <1>1 DEF IInv, ChannelOK, StoreOK, CountersOK
<1>4. BatchOK'
  BY <1>0, <1>1 DEF IInv, BatchOK
<1>5. Accounted' /\ DropsReported'
  BY <1>0, <1>1, <1>2, QuietAccounts DEF IInv
<1>6. QED
  BY <1>2, <1>3, <1>4, <1>5 DEF IInv

\* An insert attempt ends the flush, with the batch counted as written or as
\* errors, or leaves everything to the retry.
LEMMA InsertIInv ==
    ASSUME NEW late \in BOOLEAN
    PROVE  IInv /\ (InsertOK \/ InsertFails(late)) => IInv'
<1>0. SUFFICES ASSUME IInv, InsertOK \/ InsertFails(late) PROVE IInv'
  OBVIOUS
<1>1. /\ Accounted /\ DropsReported
      /\ Cardinality(submitted) \in Nat
      /\ Cardinality(Submitting) \in Nat /\ Cardinality(Owing) \in Nat
      /\ Len(in) \in Nat /\ Len(batch) \in Nat
      /\ stats.written \in Nat /\ stats.dropped \in Nat
      /\ stats.errors \in Nat /\ stats.reported \in Nat
  BY <1>0, Numbers
<1>2. /\ FlagsOK' /\ RowsOK' /\ CallsOK' /\ OwingRetries'
      /\ Submitting' = Submitting /\ Owing' = Owing /\ submitted' = submitted
  BY <1>0, RunFrame DEF InsertOK, InsertFails
<1>3. StoreOK'
  <2>1. Commit \/ table' = table
    BY <1>0 DEF InsertOK, InsertFails
  <2>2. table \in [Rows -> Nat]
    BY <1>0 DEF IInv, StoreOK
  <2>3. QED
    BY <2>1, <2>2 DEF Commit, StoreOK
<1>4. stats \in Counters /\ in' = in /\ ChannelOK'
  BY <1>0 DEF IInv, CountersOK, InsertOK, InsertFails, ChannelOK
<1>5. CASE attempt' = 2 /\ attempt = 1 /\ UNCHANGED <<batch, run, stats>>
  <2>1. BatchOK' /\ CountersOK'
    BY <1>0, <1>5 DEF IInv, BatchOK, CountersOK
  <2>2. Accounted' /\ DropsReported'
    BY <1>1, <1>2, <1>4, <1>5, QuietAccounts
  <2>3. QED
    BY <1>2, <1>3, <1>4, <2>1, <2>2 DEF IInv
<1>6. CASE /\ EndFlush
           /\ \/ stats' = [stats EXCEPT !.written = @ + Len(batch)]
              \/ stats' = [stats EXCEPT !.errors = @ + Len(batch), !.batchesDropped = @ + 1]
  <2>1. batch' = <<>> /\ attempt' = 0 /\ Len(batch') = 0
    BY <1>6 DEF EndFlush
  <2>2. run' \in {"loop", "drain", "last", "done"}
    BY <1>0, <1>6 DEF EndFlush, IInv, BatchOK
  <2>3. BatchOK'
    BY <2>1, <2>2, SizesAssumption DEF BatchOK
  <2>4. /\ stats' \in Counters
        /\ stats'.dropped = stats.dropped /\ stats'.reported = stats.reported
        /\ \/ stats'.written = stats.written + Len(batch) /\ stats'.errors = stats.errors
           \/ stats'.written = stats.written /\ stats'.errors = stats.errors + Len(batch)
    <3>1. CASE stats' = [stats EXCEPT !.written = @ + Len(batch)]
      BY <1>1, <1>4, <3>1 DEF Counters
    <3>2. CASE stats' = [stats EXCEPT !.errors = @ + Len(batch), !.batchesDropped = @ + 1]
      <4> DEFINE s == [stats EXCEPT !.errors = @ + Len(batch)]
      <4>1. /\ s \in Counters /\ s.dropped = stats.dropped /\ s.written = stats.written
            /\ s.errors = stats.errors + Len(batch) /\ s.reported = stats.reported
        BY <1>1, <1>4 DEF Counters
      <4>2. stats' = [s EXCEPT !.batchesDropped = @ + 1]
        BY <1>4, <3>2 DEF Counters
      <4> HIDE DEF s
      <4>3. /\ stats' \in Counters /\ stats'.dropped = s.dropped
            /\ stats'.written = s.written
            /\ stats'.errors = s.errors /\ stats'.reported = s.reported
        BY <4>1, <4>2 DEF Counters
      <4>4. QED
        BY <4>1, <4>3
    <3>3. QED
      BY <1>6, <3>1, <3>2
  <2>5. Accounted'
    <3>1. CASE stats'.written = stats.written + Len(batch) /\ stats'.errors = stats.errors
      BY <1>1, <1>2, <1>4, <2>1, <2>4, <3>1, SMTT(60) DEF Accounted
    <3>2. CASE stats'.written = stats.written /\ stats'.errors = stats.errors + Len(batch)
      BY <1>1, <1>2, <1>4, <2>1, <2>4, <3>2, SMTT(60) DEF Accounted
    <3>3. QED
      BY <2>4, <3>1, <3>2
  <2>6. DropsReported'
    BY <1>1, <1>2, <2>4 DEF DropsReported
  <2>7. QED
    BY <1>2, <1>3, <1>4, <2>3, <2>4, <2>5, <2>6 DEF IInv, CountersOK
<1>7. QED
  BY <1>0, <1>5, <1>6 DEF InsertOK, InsertFails

\* Cancellation only sets the flag and the history.
LEMMA CancelIInv == IInv /\ Cancel => IInv'
<1>0. SUFFICES ASSUME IInv, Cancel PROVE IInv'
  OBVIOUS
<1>1. /\ keyed' = keyed /\ submitted' = submitted /\ prod' = prod /\ in' = in
      /\ batch' = batch /\ attempt' = attempt /\ run' = run
      /\ table' = table /\ stats' = stats
  BY <1>0 DEF Cancel, prodVars, runVars
<1>2. FlagsOK'
  BY <1>0, Zenon DEF IInv, FlagsOK, Cancel
<1>3. RowsOK'
  <2>1. Content(in) \subseteq Rows /\ Content(batch) \subseteq Rows
    BY <1>0 DEF IInv, ChannelOK, BatchOK, Content
  <2>2. early' \subseteq Rows
    BY <1>0, <2>1 DEF Cancel
  <2>3. QED
    BY <1>0, <1>1, <2>2 DEF IInv, RowsOK
<1>4. Submitting' = Submitting /\ Owing' = Owing /\ CallsOK' /\ OwingRetries'
  BY <1>0, <1>1, SameCalls DEF IInv
<1>5. ChannelOK' /\ BatchOK' /\ StoreOK' /\ CountersOK'
  BY <1>0, <1>1 DEF IInv, ChannelOK, BatchOK, StoreOK, CountersOK
<1>6. Accounted' /\ DropsReported'
  BY <1>0, <1>1, <1>4, QuietAccounts DEF IInv
<1>7. QED
  BY <1>2, <1>3, <1>4, <1>5, <1>6 DEF IInv

\* Every step of the specification preserves the invariant.
LEMMA NextIInv == IInv /\ [Next]_vars => IInv'
<1>0. SUFFICES ASSUME IInv, [Next]_vars PROVE IInv'
  OBVIOUS
<1>1. ASSUME NEW p \in Producers, NEW r \in Rows, Submit(p, r) PROVE IInv'
  BY <1>0, <1>1, SubmitIInv
<1>2. ASSUME NEW p \in Producers, Evict(p) PROVE IInv'
  BY <1>0, <1>2, EvictIInv
<1>3. ASSUME NEW p \in Producers, Retry(p) PROVE IInv'
  BY <1>0, <1>3, RetryIInv
<1>4. ASSUME RunStep PROVE IInv'
  <2>1. CASE Take
    BY <1>0, <2>1, TakeIInv
  <2>2. CASE FlushTick \/ BeginDrain \/ EndDrain
    BY <1>0, <2>2, ControlIInv
  <2>3. CASE InsertOK \/ \E late \in BOOLEAN : InsertFails(late)
    BY <1>0, <2>3, InsertIInv
  <2>4. QED
    BY <1>4, <2>1, <2>2, <2>3 DEF RunStep
<1>5. CASE Cancel
  BY <1>0, <1>5, CancelIInv
<1>6. CASE UNCHANGED vars
  <2>1. /\ UNCHANGED <<keyed, prodVars, ctxVars>>
        /\ in' = in /\ batch' = batch /\ attempt' = attempt /\ run' = run
        /\ table' = table /\ stats' = stats
    BY <1>6 DEF vars, runVars
  <2>2. /\ FlagsOK' /\ RowsOK' /\ CallsOK' /\ OwingRetries'
        /\ Submitting' = Submitting /\ Owing' = Owing /\ submitted' = submitted
    BY <1>0, <2>1, RunFrame
  <2>3. ChannelOK' /\ BatchOK' /\ StoreOK' /\ CountersOK'
    BY <1>0, <2>1 DEF IInv, ChannelOK, BatchOK, StoreOK, CountersOK
  <2>4. Accounted' /\ DropsReported'
    BY <1>0, <2>1, <2>2, QuietAccounts DEF IInv
  <2>5. QED
    BY <2>2, <2>3, <2>4 DEF IInv
<1>7. QED
  BY <1>0, <1>1, <1>2, <1>3, <1>4, <1>5, <1>6 DEF Next

-----------------------------------------------------------------------------

\* The inductive invariant holds in every reachable state.
THEOREM IInvHolds == Spec => []IInv
BY InitIInv, NextIInv, PTL DEF Spec

\* Type correctness of the writer; the channel and the batch keep within their
\* limits.
THEOREM TypeCorrect == Spec => []TypeOK
<1>1. IInv => TypeOK
  BY DEF IInv, TypeOK, FlagsOK, RowsOK, StoreOK, CountersOK
<1>2. QED
  BY <1>1, IInvHolds, PTL

\* No row vanishes uncounted and none is counted twice.
THEOREM AlwaysAccounted == Spec => []Accounted
<1>1. IInv => Accounted
  BY DEF IInv
<1>2. QED
  BY <1>1, IInvHolds, PTL

\* The drop hook reports dropped rows only, and at least every other one.
THEOREM DropsAlwaysReported == Spec => []DropsReported
<1>1. IInv => DropsReported
  BY DEF IInv
<1>2. QED
  BY <1>1, IInvHolds, PTL

-----------------------------------------------------------------------------
(* Where a row is, and what of it is in the table.  The accounting above   *)
(* counts rows; what the table holds needs to know where each one is.      *)

Distinct(s) == \A i, j \in 1..Len(s) : s[i] = s[j] => i = j

\* A row is in one place only: in one request's hands, at one place of the
\* channel or at one place of the batch.
Placed ==
    /\ Distinct(in) /\ Distinct(batch)
    /\ Content(in) \cap Content(batch) = {}
    /\ Content(in) \subseteq submitted /\ Content(batch) \subseteq submitted
    /\ \A p \in Submitting :
          /\ prod[p].row \in submitted
          /\ prod[p].row \notin Content(in) \cup Content(batch)
          /\ \A q \in Submitting : prod[p].row = prod[q].row => p = q

Limit == IF keyed THEN 1 ELSE 2

\* Only a batch past its first attempt can have rows in the table; a retry
\* adds one copy, and only where no key refuses it.
Copied ==
    /\ \A r \in Rows : table[r] <= Limit
    /\ \A r \in Rows \ submitted : table[r] = 0
    /\ \A r \in Content(in) : table[r] = 0
    /\ \A p \in Submitting : table[prod[p].row] = 0
    /\ \A r \in Content(batch) : table[r] <= (IF attempt = 2 THEN 1 ELSE 0)

\* The rows counted as written are in the table, beside those of the batch.
CountedStored == stats.written <= Cardinality(Stored \ Content(batch))

\* Rows that come after the cancellation are not among those it found.
DrainOrder ==
    /\ run # "loop" => cancelled
    /\ ~cancelled => early = {}
    /\ early \subseteq submitted
    /\ \A p \in Submitting : prod[p].row \notin early
    /\ run \in {"last", "done"} => early \cap Content(in) = {}
    /\ run = "done" => batch = <<>>

RInv == Placed /\ Copied /\ CountedStored /\ DrainOrder

\* The rows of a sequence after one more, and their distinctness.
LEMMA AppendRows ==
    ASSUME NEW s \in Seq(Rows), NEW r \in Rows
    PROVE  /\ Content(Append(s, r)) = Content(s) \cup {r}
           /\ Distinct(s) /\ r \notin Content(s) => Distinct(Append(s, r))
<1>1. /\ Len(s) \in Nat /\ Len(Append(s, r)) = Len(s) + 1
      /\ \A i \in 1..Len(s) : Append(s, r)[i] = s[i]
      /\ Append(s, r)[Len(s) + 1] = r
  OBVIOUS
<1>2. \A i \in 1..(Len(s) + 1) : i \in 1..Len(s) \/ i = Len(s) + 1
  BY <1>1
<1>3. \A i \in 1..Len(s) : i \in 1..(Len(s) + 1)
  BY <1>1
<1>4. Len(s) + 1 \in 1..(Len(s) + 1)
  BY <1>1
<1>5. Content(Append(s, r)) = Content(s) \cup {r}
  BY <1>1, <1>2, <1>3, <1>4 DEF Content
<1>6. ASSUME Distinct(s), r \notin Content(s) PROVE Distinct(Append(s, r))
  BY <1>1, <1>2, <1>6 DEF Distinct, Content
<1>7. QED
  BY <1>5, <1>6

\* The rows of a sequence, its first one apart.
LEMMA TailRows ==
    ASSUME NEW s \in Seq(Rows), s # <<>>
    PROVE  /\ Head(s) \in Rows
           /\ Content(s) = Content(Tail(s)) \cup {Head(s)}
           /\ Distinct(s) => Distinct(Tail(s)) /\ Head(s) \notin Content(Tail(s))
<1>1. /\ Len(s) \in Nat /\ Len(s) >= 1 /\ Len(Tail(s)) = Len(s) - 1
      /\ Head(s) = s[1] /\ Head(s) \in Rows
      /\ \A i \in 1..(Len(s) - 1) : Tail(s)[i] = s[i + 1]
  OBVIOUS
<1>2. \A i \in 1..(Len(s) - 1) : i + 1 \in 1..Len(s) /\ i + 1 # 1
  BY <1>1
<1>3. \A i \in 1..Len(s) : i = 1 \/ (i - 1 \in 1..(Len(s) - 1) /\ s[i] = Tail(s)[i - 1])
  <2>1. \A i \in 1..Len(s) : i = 1 \/ (i - 1 \in 1..(Len(s) - 1) /\ (i - 1) + 1 = i)
    BY <1>1
  <2>2. QED
    BY <1>1, <2>1
<1>4. 1 \in 1..Len(s)
  BY <1>1
<1>5. Content(Tail(s)) = {s[i + 1] : i \in 1..(Len(s) - 1)}
  BY <1>1 DEF Content
<1>6. Content(s) \subseteq Content(Tail(s)) \cup {Head(s)}
  <2>1. SUFFICES ASSUME NEW i \in 1..Len(s)
                 PROVE  s[i] \in Content(Tail(s)) \cup {Head(s)}
    BY DEF Content
  <2>2. CASE i = 1
    BY <1>1, <2>2
  <2>3. CASE i # 1
    <3>1. i - 1 \in 1..Len(Tail(s)) /\ s[i] = Tail(s)[i - 1]
      BY <1>1, <1>3, <2>3
    <3>2. QED
      BY <3>1 DEF Content
  <2>4. QED
    BY <2>2, <2>3
<1>7. Content(Tail(s)) \cup {Head(s)} \subseteq Content(s)
  BY <1>1, <1>2, <1>4, <1>5 DEF Content
<1>8. ASSUME Distinct(s) PROVE Distinct(Tail(s)) /\ Head(s) \notin Content(Tail(s))
  <2>1. Distinct(Tail(s))
    <3>1. SUFFICES ASSUME NEW i \in 1..(Len(s) - 1), NEW j \in 1..(Len(s) - 1),
                          s[i + 1] = s[j + 1]
                   PROVE  i = j
      BY <1>1 DEF Distinct
    <3>2. i + 1 = j + 1
      BY <1>2, <1>8, <3>1 DEF Distinct
    <3>3. QED
      BY <3>2
  <2>2. Head(s) \notin Content(Tail(s))
    BY <1>1, <1>2, <1>4, <1>5, <1>8 DEF Distinct
  <2>3. QED
    BY <2>1, <2>2
<1>9. QED
  BY <1>1, <1>6, <1>7, <1>8

\* Distinct rows are as many as their sequence is long.
LEMMA CountRows ==
    ASSUME NEW s \in Seq(Rows), Distinct(s)
    PROVE  IsFiniteSet(Content(s)) /\ Cardinality(Content(s)) = Len(s)
<1>1. Len(s) \in Nat /\ s \in [1..Len(s) -> Content(s)]
  BY DEF Content
<1>2. s \in Bijection(1..Len(s), Content(s))
  BY <1>1 DEF Bijection, Injection, Surjection, IsInjective, Distinct, Content
<1>3. ExistsBijection(1..Len(s), Content(s))
  BY <1>2 DEF ExistsBijection
<1>4. QED
  BY <1>1, <1>3, FS_CountingElements, FS_NatBijection

-----------------------------------------------------------------------------
(* Every step keeps RInv.                                                  *)

\* What IInv says of the places of a row.
LEMMA PlaceTypes ==
    ASSUME IInv
    PROVE  /\ in \in Seq(Rows) /\ batch \in Seq(Rows) /\ attempt \in 0..2
           /\ Content(in) \subseteq Rows /\ Content(batch) \subseteq Rows
           /\ submitted \subseteq Rows /\ IsFiniteSet(submitted)
           /\ table \in [Rows -> Nat] /\ stats.written \in Nat
           /\ \A p \in Submitting : prod[p].row \in Rows
<1>1. in \in Seq(Rows) /\ batch \in Seq(Rows) /\ attempt \in 0..2
  BY DEF IInv, ChannelOK, BatchOK
<1>2. Content(in) \subseteq Rows /\ Content(batch) \subseteq Rows
  BY <1>1 DEF Content
<1>3. stats.written \in Nat
  BY DEF IInv, CountersOK, Counters
<1>4. QED
  BY <1>1, <1>2, <1>3 DEF IInv, RowsOK, StoreOK, CallsOK

\* The rows in the table are finitely many: all were submitted.
LEMMA StoredFinite ==
    ASSUME IInv, Copied
    PROVE  /\ Stored \subseteq submitted /\ IsFiniteSet(Stored)
           /\ IsFiniteSet(Stored \ Content(batch))
<1>1. Stored \subseteq submitted
  BY PlaceTypes DEF Stored, Copied
<1>2. IsFiniteSet(Stored)
  BY <1>1, PlaceTypes, FS_Subset
<1>3. QED
  BY <1>1, <1>2, FS_Difference

\* Steps of the requests leave Run, the context and the table alone.
LEMMA RequestFrame ==
    ASSUME NEW p \in Producers,
           (\E r \in Rows : Submit(p, r)) \/ Evict(p) \/ Retry(p)
    PROVE  /\ keyed' = keyed /\ batch' = batch /\ attempt' = attempt /\ run' = run
           /\ cancelled' = cancelled /\ early' = early /\ table' = table
BY DEF Submit, Evict, Retry, runVars, ctxVars

\* They count nothing as written.
LEMMA RequestCounts ==
    ASSUME IInv, NEW p \in Producers,
           (\E r \in Rows : Submit(p, r)) \/ Evict(p) \/ Retry(p)
    PROVE  stats'.written = stats.written
<1>1. stats \in Counters
  BY DEF IInv, CountersOK
<1>2. \/ stats' = stats
      \/ stats' = [stats EXCEPT !.dropped = @ + 1]
      \/ stats' = [stats EXCEPT !.reported = @ + 1]
      \/ stats' = [stats EXCEPT !.dropped = @ + 1, !.reported = @ + 1]
  BY DEF Submit, Evict, Retry
<1>3. QED
  BY <1>1, <1>2 DEF Counters

\* A new row goes to the end of the channel, or into its request's hands.
LEMMA SubmitRInv ==
    ASSUME IInv, RInv, NEW p \in Producers, NEW r \in Rows, Submit(p, r)
    PROVE  RInv'
<1>1. /\ keyed' = keyed /\ batch' = batch /\ attempt' = attempt /\ run' = run
      /\ cancelled' = cancelled /\ early' = early /\ table' = table
      /\ stats'.written = stats.written
  BY RequestFrame, RequestCounts
<1>2. submitted' = submitted \cup {r} /\ r \notin submitted /\ prod[p] = Idle
  BY DEF Submit
<1>3. CountedStored'
  BY <1>1 DEF RInv, CountedStored, Stored
<1>4. Limit' = Limit
  BY <1>1 DEF Limit
<1>5. r \notin Content(in) /\ r \notin Content(batch) /\ r \notin early /\ table[r] = 0
  BY <1>2 DEF RInv, Placed, Copied, DrainOrder
<1>6. \A q \in Submitting : prod[q].row # r
  BY <1>2 DEF RInv, Placed
<1>7. CASE Len(in) < BufferSize
  <2>1. in' = Append(in, r) /\ prod' = prod
    BY <1>7 DEF Submit
  <2>2. Submitting' = Submitting
    BY <2>1 DEF Submitting
  <2>3. Content(in') = Content(in) \cup {r} /\ Distinct(in')
    BY <1>5, <2>1, AppendRows, PlaceTypes DEF RInv, Placed
  <2>4. Placed'
    BY <1>1, <1>2, <1>5, <1>6, <2>1, <2>2, <2>3 DEF RInv, Placed
  <2>5. Copied'
    BY <1>1, <1>2, <1>4, <1>5, <2>1, <2>2, <2>3 DEF RInv, Copied
  <2>6. DrainOrder'
    BY <1>1, <1>2, <1>5, <2>1, <2>2, <2>3 DEF RInv, DrainOrder
  <2>7. QED
    BY <1>3, <2>4, <2>5, <2>6 DEF RInv
<1>8. CASE ~(Len(in) < BufferSize)
  <2> DEFINE held == [pc |-> "evict", row |-> r, evicted |-> FALSE]
  <2>1. in' = in /\ prod' = [prod EXCEPT ![p] = held]
    BY <1>8 DEF Submit
  <2>2. held # Idle /\ held.row = r /\ held.evicted \in BOOLEAN
    BY DEF Idle
  <2> HIDE DEF held
  <2>3. \A q \in Producers : prod'[q] = IF q = p THEN held ELSE prod[q]
    BY <2>1, CallStep DEF IInv
  <2>4. Submitting' = Submitting \cup {p} /\ p \notin Submitting
    BY <1>2, <2>1, <2>2, ProducerStep DEF IInv, Submitting
  <2>5. prod'[p].row = r /\ \A q \in Submitting : prod'[q].row = prod[q].row
    BY <2>2, <2>3, <2>4 DEF Submitting
  <2>6. Placed'
    BY <1>1, <1>2, <1>5, <1>6, <2>1, <2>4, <2>5 DEF RInv, Placed
  <2>7. Copied'
    BY <1>1, <1>2, <1>4, <1>5, <2>1, <2>4, <2>5 DEF RInv, Copied
  <2>8. DrainOrder'
    BY <1>1, <1>2, <1>5, <2>1, <2>4, <2>5 DEF RInv, DrainOrder
  <2>9. QED
    BY <1>3, <2>6, <2>7, <2>8 DEF RInv
<1>9. QED
  BY <1>7, <1>8

\* An eviction only takes a row out.
LEMMA EvictRInv ==
    ASSUME IInv, RInv, NEW p \in Producers, Evict(p)
    PROVE  RInv'
<1>1. /\ keyed' = keyed /\ batch' = batch /\ attempt' = attempt /\ run' = run
      /\ cancelled' = cancelled /\ early' = early /\ table' = table
      /\ stats'.written = stats.written
  BY RequestFrame, RequestCounts
<1>2. submitted' = submitted /\ prod[p].pc = "evict"
  BY DEF Evict
<1>3. CountedStored'
  BY <1>1 DEF RInv, CountedStored, Stored
<1>4. Limit' = Limit
  BY <1>1 DEF Limit
<1>5. Content(in') \subseteq Content(in) /\ Distinct(in')
  <2>1. in' = in \/ (in # <<>> /\ in' = Tail(in))
    BY DEF Evict
  <2>2. in \in Seq(Rows) /\ Distinct(in)
    BY PlaceTypes DEF RInv, Placed
  <2>3. CASE in' = in
    BY <2>2, <2>3
  <2>4. CASE in # <<>> /\ in' = Tail(in)
    BY <2>2, <2>4, TailRows
  <2>5. QED
    BY <2>1, <2>3, <2>4
<1>6. Submitting' = Submitting /\ \A q \in Submitting : prod'[q].row = prod[q].row
  <2> DEFINE x == [prod[p] EXCEPT !.pc = "retry", !.evicted = in # <<>>]
  <2>1. prod \in [Producers -> Calls] /\ prod' = [prod EXCEPT ![p] = x]
    BY DEF Evict, IInv, CallsOK
  <2>2. x.row = prod[p].row /\ x # Idle /\ x.evicted \in BOOLEAN
    BY <2>1 DEF Calls, Idle
  <2>3. p \in Submitting
    BY <1>2 DEF Submitting, Idle
  <2> HIDE DEF x
  <2>4. Submitting' = Submitting \cup {p}
    BY <2>1, <2>2, ProducerStep DEF IInv
  <2>5. \A q \in Producers : prod'[q] = IF q = p THEN x ELSE prod[q]
    BY <2>1, CallStep DEF IInv
  <2>6. QED
    BY <2>2, <2>3, <2>4, <2>5 DEF Submitting
<1>7. Placed'
  BY <1>1, <1>2, <1>5, <1>6 DEF RInv, Placed
<1>8. Copied'
  BY <1>1, <1>2, <1>4, <1>5, <1>6 DEF RInv, Copied
<1>9. DrainOrder'
  BY <1>1, <1>2, <1>5, <1>6 DEF RInv, DrainOrder
<1>10. QED
  BY <1>3, <1>7, <1>8, <1>9 DEF RInv

\* The last select queues the request's row, or gives it up.
LEMMA RetryRInv ==
    ASSUME IInv, RInv, NEW p \in Producers, Retry(p)
    PROVE  RInv'
<1>1. /\ keyed' = keyed /\ batch' = batch /\ attempt' = attempt /\ run' = run
      /\ cancelled' = cancelled /\ early' = early /\ table' = table
      /\ stats'.written = stats.written
  BY RequestFrame, RequestCounts
<1>2. submitted' = submitted /\ prod[p].pc = "retry" /\ prod' = [prod EXCEPT ![p] = Idle]
  BY DEF Retry
<1>3. CountedStored'
  BY <1>1 DEF RInv, CountedStored, Stored
<1>4. Limit' = Limit
  BY <1>1 DEF Limit
<1>5. p \in Submitting /\ prod[p].row \in Rows
  BY <1>2, PlaceTypes DEF Submitting, Idle
<1>6. /\ Submitting' = Submitting \ {p}
      /\ \A q \in Submitting' : prod'[q].row = prod[q].row
  <2>1. Idle.evicted \in BOOLEAN
    BY DEF Idle
  <2>2. Submitting' = Submitting \ {p}
    BY <1>2, <2>1, ProducerStep DEF IInv
  <2>3. \A q \in Producers : prod'[q] = IF q = p THEN Idle ELSE prod[q]
    BY <1>2, CallStep DEF IInv
  <2>4. QED
    BY <2>2, <2>3 DEF Submitting
<1>7. /\ prod[p].row \notin Content(in) \cup Content(batch) /\ prod[p].row \in submitted
      /\ prod[p].row \notin early /\ table[prod[p].row] = 0
      /\ \A q \in Submitting' : prod[q].row # prod[p].row
  BY <1>5, <1>6 DEF RInv, Placed, Copied, DrainOrder
<1>8. /\ Content(in') \subseteq Content(in) \cup {prod[p].row}
      /\ Distinct(in')
  <2>1. in' = in \/ in' = Append(in, prod[p].row)
    BY DEF Retry
  <2>2. in \in Seq(Rows) /\ Distinct(in)
    BY PlaceTypes DEF RInv, Placed
  <2>3. CASE in' = in
    BY <2>2, <2>3
  <2>4. CASE in' = Append(in, prod[p].row)
    BY <1>5, <1>7, <2>2, <2>4, AppendRows
  <2>5. QED
    BY <2>1, <2>3, <2>4
<1>9. Placed'
  BY <1>1, <1>2, <1>6, <1>7, <1>8 DEF RInv, Placed
<1>10. Copied'
  BY <1>1, <1>2, <1>4, <1>6, <1>7, <1>8 DEF RInv, Copied
<1>11. DrainOrder'
  BY <1>1, <1>2, <1>6, <1>7, <1>8 DEF RInv, DrainOrder
<1>12. QED
  BY <1>3, <1>9, <1>10, <1>11 DEF RInv

\* Run moves a row, which has no copy yet, from the channel to the batch.
LEMMA TakeRInv ==
    ASSUME IInv, RInv, Take
    PROVE  RInv'
<1>1. /\ keyed' = keyed /\ submitted' = submitted /\ prod' = prod /\ run' = run
      /\ cancelled' = cancelled /\ early' = early /\ table' = table /\ stats' = stats
      /\ run \in {"loop", "drain"}
  BY DEF Take, prodVars, ctxVars
<1>2. /\ in # <<>> /\ in' = Tail(in) /\ batch' = Append(batch, Head(in))
      /\ attempt = 0 /\ attempt' \in {0, 1}
  BY DEF Take
<1>3. Submitting' = Submitting /\ Limit' = Limit
  BY <1>1 DEF Submitting, Limit
<1>4. /\ Head(in) \in Rows
      /\ Content(in) = Content(in') \cup {Head(in)}
      /\ Distinct(in') /\ Head(in) \notin Content(in')
  BY <1>2, PlaceTypes, TailRows DEF RInv, Placed
<1>5. Head(in) \notin Content(batch)
  BY <1>4 DEF RInv, Placed
<1>6. Content(batch') = Content(batch) \cup {Head(in)} /\ Distinct(batch')
  BY <1>2, <1>4, <1>5, PlaceTypes, AppendRows DEF RInv, Placed
<1>7. Placed'
  BY <1>1, <1>3, <1>4, <1>5, <1>6 DEF RInv, Placed
<1>8. Copied'
  BY <1>1, <1>2, <1>3, <1>4, <1>6 DEF RInv, Copied
<1>9. CountedStored'
  <2>1. Stored' = Stored
    BY <1>1 DEF Stored
  <2>2. Head(in) \notin Stored
    BY <1>4 DEF RInv, Copied, Stored
  <2>3. Stored' \ Content(batch') = Stored \ Content(batch)
    BY <1>6, <2>1, <2>2
  <2>4. QED
    BY <1>1, <2>3 DEF RInv, CountedStored
<1>10. DrainOrder'
  BY <1>1, <1>3, <1>4 DEF RInv, DrainOrder
<1>11. QED
  BY <1>7, <1>8, <1>9, <1>10 DEF RInv

\* The ticker and the ends of the drain move no row: the drain ends only with
\* an empty channel, and Run only with an empty batch.
LEMMA ControlRInv ==
    ASSUME IInv, RInv, FlushTick \/ BeginDrain \/ EndDrain
    PROVE  RInv'
<1>1. /\ keyed' = keyed /\ submitted' = submitted /\ prod' = prod /\ in' = in
      /\ batch' = batch /\ cancelled' = cancelled /\ early' = early
      /\ table' = table /\ stats' = stats
      /\ attempt = 0 /\ attempt' \in {0, 1}
  BY DEF FlushTick, BeginDrain, EndDrain, prodVars, ctxVars
<1>2. Submitting' = Submitting /\ Limit' = Limit
  BY <1>1 DEF Submitting, Limit
<1>3. Placed'
  BY <1>1, <1>2 DEF RInv, Placed
<1>4. Copied'
  BY <1>1, <1>2 DEF RInv, Copied
<1>5. CountedStored'
  BY <1>1 DEF RInv, CountedStored, Stored
<1>6. DrainOrder'
  <2>1. run' # "loop" => cancelled
    BY DEF FlushTick, BeginDrain, EndDrain, RInv, DrainOrder
  <2>2. run' \in {"last", "done"} => in = <<>>
    BY DEF FlushTick, BeginDrain, EndDrain
  <2>3. Content(<<>>) = {}
    BY DEF Content
  <2>4. run' = "done" => batch = <<>>
    BY DEF FlushTick, BeginDrain, EndDrain
  <2>5. QED
    BY <1>1, <1>2, <2>1, <2>2, <2>3, <2>4 DEF RInv, DrainOrder
<1>7. QED
  BY <1>3, <1>4, <1>5, <1>6 DEF RInv

\* What a commit adds: one copy of each row of the batch, within the limit.
LEMMA CommitCopies ==
    ASSUME IInv, RInv, attempt # 0, Commit, ~Refused, Limit' = Limit
    PROVE  /\ \A r \in Rows : table'[r] <= Limit'
           /\ \A r \in Rows \ Content(batch) : table'[r] = table[r]
           /\ \A r \in Content(batch) : table'[r] = table[r] + 1
           /\ Stored' = Stored \cup Content(batch)
<1>1. table \in [Rows -> Nat] /\ Content(batch) \subseteq Rows /\ attempt \in 0..2
  BY PlaceTypes
<1>2. \A r \in Rows \ Content(batch) : table'[r] = table[r]
  BY <1>1 DEF Commit
<1>3. \A r \in Content(batch) : table'[r] = table[r] + 1
  BY <1>1 DEF Commit
<1>4. Limit \in {1, 2} /\ (Limit = 1 => keyed)
  BY DEF Limit
<1>5. \A r \in Content(batch) : table[r] + 1 <= Limit
  <2>1. SUFFICES ASSUME NEW r \in Content(batch) PROVE table[r] + 1 <= Limit
    OBVIOUS
  <2>2. table[r] \in Nat /\ table[r] <= 1
    BY <1>1 DEF RInv, Copied
  <2>3. keyed => ~(table[r] > 0)
    BY DEF Refused
  <2>4. Limit = 1 => table[r] = 0
    BY <1>4, <2>2, <2>3
  <2>5. QED
    BY <1>4, <2>2, <2>4
<1>6. \A r \in Rows : table'[r] <= Limit
  BY <1>2, <1>3, <1>5 DEF RInv, Copied
<1>7. Stored' = Stored \cup Content(batch)
  BY <1>1, <1>2, <1>3 DEF Stored
<1>8. QED
  BY <1>2, <1>3, <1>6, <1>7

\* An attempt: the batch is stored once more or not, and then written off as
\* written or as errors, or kept for the retry.
LEMMA InsertRInv ==
    ASSUME IInv, RInv, NEW late \in BOOLEAN, InsertOK \/ InsertFails(late)
    PROVE  RInv'
<1>1. /\ keyed' = keyed /\ submitted' = submitted /\ prod' = prod /\ in' = in
      /\ cancelled' = cancelled /\ early' = early /\ attempt # 0
  BY DEF InsertOK, InsertFails, prodVars, ctxVars
<1>2. Submitting' = Submitting /\ Limit' = Limit
  BY <1>1 DEF Submitting, Limit
<1>3. (Commit /\ ~Refused) \/ table' = table
  BY DEF InsertOK, InsertFails
<1>4. /\ \A r \in Rows : table'[r] <= Limit'
      /\ \A r \in Rows \ Content(batch) : table'[r] = table[r]
      /\ \A r \in Content(batch) : table'[r] \in {table[r], table[r] + 1}
      /\ Stored \subseteq Stored' /\ Stored' \subseteq Stored \cup Content(batch)
  <2>1. CASE Commit /\ ~Refused
    BY <1>1, <1>2, <2>1, CommitCopies
  <2>2. CASE table' = table
    BY <1>2, <2>2, PlaceTypes DEF RInv, Copied, Stored
  <2>3. QED
    BY <1>3, <2>1, <2>2
<1>5. /\ \A r \in Rows \ submitted' : table'[r] = 0
      /\ \A r \in Content(in') : table'[r] = 0
      /\ \A q \in Submitting' : table'[prod'[q].row] = 0
  BY <1>1, <1>2, <1>4, PlaceTypes DEF RInv, Placed, Copied
<1>6. IsFiniteSet(Stored') /\ IsFiniteSet(Stored \ Content(batch))
  <2>1. Stored' \subseteq submitted
    BY <1>4, StoredFinite DEF RInv, Placed
  <2>2. QED
    BY <2>1, PlaceTypes, StoredFinite, FS_Subset DEF RInv
<1>7. CASE attempt = 1 /\ attempt' = 2 /\ UNCHANGED <<batch, run, stats>>
  <2>1. Placed'
    BY <1>1, <1>2, <1>7 DEF RInv, Placed
  <2>2. \A r \in Content(batch') : table'[r] <= 1
    <3>1. \A r \in Content(batch) : table[r] \in Nat /\ table[r] <= 0
      BY <1>7, PlaceTypes DEF RInv, Copied
    <3>2. \A r \in Content(batch) : table'[r] <= 1
      BY <1>4, <3>1
    <3>3. QED
      BY <1>7, <3>2
  <2>3. Copied'
    BY <1>4, <1>5, <1>7, <2>2 DEF Copied
  <2>4. Stored' \ Content(batch') = Stored \ Content(batch)
    BY <1>4, <1>7
  <2>5. CountedStored'
    BY <1>7, <2>4 DEF RInv, CountedStored
  <2>6. DrainOrder'
    BY <1>1, <1>2, <1>7 DEF RInv, DrainOrder
  <2>7. QED
    BY <2>1, <2>3, <2>5, <2>6 DEF RInv
<1>8. CASE /\ EndFlush
           /\ \/ stats'.written = stats.written
              \/ /\ stats'.written = stats.written + Len(batch)
                 /\ Commit /\ ~Refused
  <2>1. batch' = <<>> /\ attempt' = 0 /\ Content(batch') = {} /\ Distinct(batch')
    BY <1>8 DEF EndFlush, Content, Distinct
  <2>2. Placed'
    BY <1>1, <1>2, <2>1 DEF RInv, Placed
  <2>3. Copied'
    BY <1>4, <1>5, <2>1 DEF Copied
  <2>4. Stored' \ Content(batch') = Stored'
    BY <2>1
  <2>5. /\ Cardinality(Stored \ Content(batch)) \in Nat /\ Cardinality(Stored') \in Nat
        /\ stats.written \in Nat /\ stats.written <= Cardinality(Stored \ Content(batch))
    BY <1>6, PlaceTypes, FS_CardinalityType DEF RInv, CountedStored
  <2>6. ASSUME stats'.written = stats.written PROVE CountedStored'
    <3>1. Cardinality(Stored \ Content(batch)) <= Cardinality(Stored')
      BY <1>4, <1>6, FS_Subset
    <3>2. stats'.written <= Cardinality(Stored')
      BY <2>5, <2>6, <3>1
    <3>3. QED
      BY <2>4, <3>2 DEF CountedStored
  <2>7. ASSUME stats'.written = stats.written + Len(batch), Commit, ~Refused
        PROVE  CountedStored'
    <3>1. Stored' = (Stored \ Content(batch)) \cup Content(batch)
      BY <1>1, <1>2, <2>7, CommitCopies
    <3>2. IsFiniteSet(Content(batch)) /\ Cardinality(Content(batch)) = Len(batch)
      BY PlaceTypes, CountRows DEF RInv, Placed
    <3>3. (Stored \ Content(batch)) \cap Content(batch) = {}
      OBVIOUS
    <3>4. Cardinality(Stored') = Cardinality(Stored \ Content(batch)) + Len(batch)
      <4>1. Len(batch) \in Nat
        BY PlaceTypes
      <4>2. Cardinality(Stored') = Cardinality(Stored \ Content(batch))
               + Cardinality(Content(batch)) - Cardinality({})
        BY <1>6, <3>1, <3>2, <3>3, FS_Union
      <4>3. QED
        BY <2>5, <3>2, <4>1, <4>2, FS_EmptySet
    <3>5. stats'.written <= Cardinality(Stored')
      BY <2>5, <2>7, <3>4, PlaceTypes
    <3>6. QED
      BY <2>4, <3>5 DEF CountedStored
  <2>8. CountedStored'
    BY <1>8, <2>6, <2>7
  <2>9. run' = run \/ (run = "last" /\ run' = "done")
    BY <1>8 DEF EndFlush
  <2>10. DrainOrder'
    BY <1>1, <1>2, <2>1, <2>9 DEF RInv, DrainOrder
  <2>11. QED
    BY <2>2, <2>3, <2>8, <2>10 DEF RInv
<1>9. \/ attempt = 1 /\ attempt' = 2 /\ UNCHANGED <<batch, run, stats>>
      \/ EndFlush /\ stats'.written = stats.written
      \/ EndFlush /\ stats'.written = stats.written + Len(batch) /\ Commit /\ ~Refused
  <2>1. stats \in Counters /\ Len(batch) \in Nat
    BY PlaceTypes DEF IInv, CountersOK
  <2>2. CASE InsertOK
    <3>1. stats' = [stats EXCEPT !.written = @ + Len(batch)]
      BY <2>2 DEF InsertOK
    <3>2. stats'.written = stats.written + Len(batch)
      BY <2>1, <3>1 DEF Counters
    <3>3. QED
      BY <2>2, <3>2 DEF InsertOK
  <2>3. CASE InsertFails(late)
    <3>1. \/ attempt = 1 /\ attempt' = 2 /\ UNCHANGED <<batch, run, stats>>
          \/ /\ EndFlush
             /\ stats' = [stats EXCEPT !.errors = @ + Len(batch), !.batchesDropped = @ + 1]
      BY <2>3 DEF InsertFails
    <3>2. stats' = [stats EXCEPT !.errors = @ + Len(batch), !.batchesDropped = @ + 1]
             => stats'.written = stats.written
      BY <2>1 DEF Counters
    <3>3. QED
      BY <3>1, <3>2
  <2>4. QED
    BY <2>2, <2>3
<1>10. QED
  BY <1>7, <1>8, <1>9

\* The rows found at the cancellation are in nobody's hands.
LEMMA CancelRInv ==
    ASSUME IInv, RInv, Cancel
    PROVE  RInv'
<1>1. /\ keyed' = keyed /\ submitted' = submitted /\ prod' = prod /\ in' = in
      /\ batch' = batch /\ attempt' = attempt /\ run' = run
      /\ table' = table /\ stats' = stats
  BY DEF Cancel, prodVars, runVars
<1>2. Submitting' = Submitting /\ Limit' = Limit
  BY <1>1 DEF Submitting, Limit
<1>3. Placed' /\ CountedStored'
  BY <1>1, <1>2 DEF RInv, Placed, CountedStored, Stored
<1>4. Copied'
  BY <1>1, <1>2 DEF RInv, Copied
<1>5. ~cancelled /\ cancelled' = TRUE /\ early' = Content(in) \cup Content(batch)
  BY DEF Cancel
<1>6. run = "loop"
  BY <1>5 DEF RInv, DrainOrder
<1>7. DrainOrder'
  BY <1>1, <1>2, <1>5, <1>6 DEF RInv, Placed, DrainOrder
<1>8. QED
  BY <1>3, <1>4, <1>7 DEF RInv

\* A fresh writer has no row anywhere.
LEMMA InitRInv == Init => RInv
<1>1. SUFFICES ASSUME Init PROVE RInv
  OBVIOUS
<1>2. Submitting = {}
  BY <1>1 DEF Init, Submitting
<1>3. Content(<<>>) = {} /\ Distinct(<<>>)
  BY DEF Content, Distinct
<1>4. Stored \ Content(batch) = {} /\ Cardinality({}) = 0
  BY <1>1, FS_EmptySet DEF Init, Stored
<1>5. CountedStored
  <2>1. stats.written = 0
    BY <1>1 DEF Init
  <2>2. QED
    BY <1>4, <2>1 DEF CountedStored
<1>6. Placed
  BY <1>1, <1>2, <1>3 DEF Init, Placed
<1>7. Copied
  <2>1. \A r \in Rows : table[r] = 0
    BY <1>1 DEF Init
  <2>2. 0 <= Limit
    BY DEF Limit
  <2>3. Content(in) = {} /\ Content(batch) = {}
    BY <1>1, <1>3 DEF Init
  <2>4. QED
    BY <1>2, <2>1, <2>2, <2>3 DEF Copied
<1>8. DrainOrder
  BY <1>1, <1>2 DEF Init, DrainOrder
<1>9. QED
  BY <1>5, <1>6, <1>7, <1>8 DEF RInv

\* Every step of the specification preserves RInv.
LEMMA NextRInv == IInv /\ RInv /\ [Next]_vars => RInv'
<1>0. SUFFICES ASSUME IInv, RInv, [Next]_vars PROVE RInv'
  OBVIOUS
<1>1. ASSUME NEW p \in Producers, NEW r \in Rows, Submit(p, r) PROVE RInv'
  BY <1>0, <1>1, SubmitRInv
<1>2. ASSUME NEW p \in Producers, Evict(p) \/ Retry(p) PROVE RInv'
  BY <1>0, <1>2, EvictRInv, RetryRInv
<1>3. ASSUME RunStep PROVE RInv'
  <2>1. CASE Take
    BY <1>0, <2>1, TakeRInv
  <2>2. CASE FlushTick \/ BeginDrain \/ EndDrain
    BY <1>0, <2>2, ControlRInv
  <2>3. CASE InsertOK \/ \E late \in BOOLEAN : InsertFails(late)
    BY <1>0, <2>3, InsertRInv
  <2>4. QED
    BY <1>3, <2>1, <2>2, <2>3 DEF RunStep
<1>4. CASE Cancel
  BY <1>0, <1>4, CancelRInv
<1>5. CASE UNCHANGED vars
  <2>1. /\ keyed' = keyed /\ submitted' = submitted /\ prod' = prod /\ in' = in
        /\ batch' = batch /\ attempt' = attempt /\ run' = run
        /\ cancelled' = cancelled /\ early' = early /\ table' = table /\ stats' = stats
    BY <1>5 DEF vars, prodVars, runVars, ctxVars
  <2>2. Submitting' = Submitting /\ Limit' = Limit
    BY <2>1 DEF Submitting, Limit
  <2>3. Placed' /\ CountedStored'
    BY <1>0, <2>1, <2>2 DEF RInv, Placed, CountedStored, Stored
  <2>4. Copied' /\ DrainOrder'
    BY <1>0, <2>1, <2>2 DEF RInv, Copied, DrainOrder
  <2>5. QED
    BY <2>3, <2>4 DEF RInv
<1>6. QED
  BY <1>0, <1>1, <1>2, <1>3, <1>4, <1>5 DEF Next

\* Both invariants hold in every reachable state.
LEMMA RInvHolds == Spec => [](IInv /\ RInv)
<1>1. Init => IInv /\ RInv
  BY InitIInv, InitRInv
<1>2. IInv /\ RInv /\ [Next]_vars => (IInv /\ RInv)'
  BY NextIInv, NextRInv
<1>3. QED
  BY <1>1, <1>2, PTL DEF Spec

\* However attempts fail and answers are lost, one retry stores an observation
\* at most twice and a raw post at most once, and no row is stored before its
\* first attempt (insertWithRetry; the primary key of raw_posts).
THEOREM RetriesBounded == Spec => []RetryBounded
<1>1. IInv /\ RInv => RetryBounded
  <2>1. SUFFICES ASSUME IInv, RInv PROVE RetryBounded
    OBVIOUS
  <2>2. \A r \in Rows : table[r] <= (IF keyed THEN 1 ELSE 2)
    BY <2>1 DEF RInv, Copied, Limit
  <2>3. \A r \in Content(in) : table[r] = 0
    BY <2>1 DEF RInv, Copied
  <2>4. attempt \in {0, 1} => \A r \in Content(batch) : table[r] = 0
    BY <2>1, PlaceTypes DEF RInv, Copied
  <2>5. QED
    BY <2>2, <2>3, <2>4 DEF RetryBounded
<1>2. QED
  BY <1>1, RInvHolds, PTL

\* The written counter never claims a row that Postgres does not have.
THEOREM WrittenRowsStored == Spec => []WrittenIsStored
<1>1. IInv /\ RInv => WrittenIsStored
  <2>1. SUFFICES ASSUME IInv, RInv PROVE WrittenIsStored
    OBVIOUS
  <2>2. IsFiniteSet(Stored) /\ IsFiniteSet(Stored \ Content(batch))
    BY <2>1, StoredFinite DEF RInv
  <2>3. /\ Cardinality(Stored \ Content(batch)) <= Cardinality(Stored)
        /\ Cardinality(Stored \ Content(batch)) \in Nat /\ Cardinality(Stored) \in Nat
    BY <2>2, FS_Subset, FS_CardinalityType
  <2>4. stats.written \in Nat /\ stats.written <= Cardinality(Stored \ Content(batch))
    BY <2>1, PlaceTypes DEF RInv, CountedStored
  <2>5. stats.written <= Cardinality(Stored)
    BY <2>3, <2>4
  <2>6. QED
    BY <2>5 DEF Stored, WrittenIsStored
<1>2. QED
  BY <1>1, RInvHolds, PTL

\* No row that was in the writer at SIGTERM is left behind when Run returns,
\* whatever the requests still in flight submit meanwhile (drainAndFlush).
THEOREM EarlyRowsAlwaysDrained == Spec => []EarlyRowsDrained
<1>1. RInv => EarlyRowsDrained
  BY DEF RInv, DrainOrder, EarlyRowsDrained, Content
<1>2. QED
  BY <1>1, RInvHolds, PTL

-----------------------------------------------------------------------------
(* The writer implements WriterContract.                                   *)

\* The rows in the requests' hands.
Hands == {prod[q].row : q \in Submitting}

\* The table and its kind are left alone by the requests and by Take.
LEMMA SameStored ==
    ASSUME keyed' = keyed, table' = table
    PROVE  Stored' = Stored
BY DEF Stored

\* A step of one request changes what is in its own hands only.
LEMMA HandsStep ==
    ASSUME IInv, NEW p \in Producers, NEW x, prod' = [prod EXCEPT ![p] = x],
           x.evicted \in BOOLEAN
    PROVE  /\ p \notin Submitting /\ x # Idle => Hands' = Hands \cup {x.row}
           /\ p \in Submitting /\ x # Idle /\ x.row = prod[p].row => Hands' = Hands
           /\ RInv /\ p \in Submitting /\ x = Idle => Hands' = Hands \ {prod[p].row}
<1>1. \A q \in Producers : prod'[q] = IF q = p THEN x ELSE prod[q]
  BY CallStep DEF IInv
<1>2. /\ x # Idle => Submitting' = Submitting \cup {p}
      /\ x = Idle => Submitting' = Submitting \ {p}
  BY ProducerStep DEF IInv
<1>3. Submitting \subseteq Producers
  BY DEF Submitting
<1>4. ASSUME p \notin Submitting, x # Idle PROVE Hands' = Hands \cup {x.row}
  BY <1>1, <1>2, <1>3, <1>4 DEF Hands
<1>5. ASSUME p \in Submitting, x # Idle, x.row = prod[p].row PROVE Hands' = Hands
  BY <1>1, <1>2, <1>3, <1>5 DEF Hands
<1>6. ASSUME RInv, p \in Submitting, x = Idle PROVE Hands' = Hands \ {prod[p].row}
  <2>1. \A q \in Submitting : prod[q].row = prod[p].row => q = p
    BY <1>6 DEF RInv, Placed
  <2>2. QED
    BY <1>1, <1>2, <1>3, <1>6, <2>1 DEF Hands
<1>7. QED
  BY <1>4, <1>5, <1>6

\* Rows with the writer, by place.
LEMMA WriterPlaces ==
    /\ InWriter = Hands \cup Content(in) \cup Content(batch)
    /\ InWriter' = Hands' \cup Content(in') \cup Content(batch')
BY DEF InWriter, Hands, Content

\* A row in its request's hands is neither queued nor in the batch.
LEMMA HandsApart ==
    ASSUME RInv
    PROVE  Hands \cap (Content(in) \cup Content(batch)) = {}
BY DEF RInv, Placed, Hands

\* A Submit hands one new row over.
LEMMA SubmitGives ==
    ASSUME IInv, RInv, NEW p \in Producers, NEW r \in Rows, Submit(p, r)
    PROVE  Contract!Give(r)
<1>1. keyed' = keyed /\ batch' = batch /\ table' = table
  BY RequestFrame
<1>2. submitted' = submitted \cup {r} /\ r \notin submitted /\ prod[p] = Idle
  BY DEF Submit
<1>3. CASE Len(in) < BufferSize
  <2>1. in' = Append(in, r) /\ prod' = prod
    BY <1>3 DEF Submit
  <2>2. Hands' = Hands
    BY <2>1 DEF Hands, Submitting
  <2>3. Content(in') = Content(in) \cup {r}
    BY <2>1, AppendRows, PlaceTypes
  <2>4. InWriter' = InWriter \cup {r}
    BY <1>1, <2>2, <2>3, WriterPlaces
  <2>5. QED
    BY <1>1, <1>2, <2>4, SameStored DEF Contract!Give
<1>4. CASE ~(Len(in) < BufferSize)
  <2> DEFINE held == [pc |-> "evict", row |-> r, evicted |-> FALSE]
  <2>1. in' = in /\ prod' = [prod EXCEPT ![p] = held]
    BY <1>4 DEF Submit
  <2>2. held # Idle /\ held.row = r /\ held.evicted \in BOOLEAN
    BY DEF Idle
  <2> HIDE DEF held
  <2>3. p \notin Submitting
    BY <1>2 DEF Submitting
  <2>4. Hands' = Hands \cup {r}
    BY <2>1, <2>2, <2>3, HandsStep
  <2>5. InWriter' = InWriter \cup {r}
    BY <1>1, <2>1, <2>4, WriterPlaces
  <2>6. QED
    BY <1>1, <1>2, <2>5, SameStored DEF Contract!Give
<1>5. QED
  BY <1>3, <1>4

\* An eviction takes the oldest row of the channel from the writer, if any.
LEMMA EvictLoses ==
    ASSUME IInv, RInv, NEW p \in Producers, Evict(p)
    PROVE  \E lost \in SUBSET Rows : Contract!Lose(lost)
<1>1. keyed' = keyed /\ batch' = batch /\ table' = table
  BY RequestFrame
<1>2. submitted' = submitted /\ prod[p].pc = "evict"
  BY DEF Evict
<1>3. Hands' = Hands
  <2> DEFINE x == [prod[p] EXCEPT !.pc = "retry", !.evicted = in # <<>>]
  <2>1. prod \in [Producers -> Calls] /\ prod' = [prod EXCEPT ![p] = x]
    BY DEF Evict, IInv, CallsOK
  <2>2. x.row = prod[p].row /\ x # Idle /\ x.evicted \in BOOLEAN
    BY <2>1 DEF Calls, Idle
  <2>3. p \in Submitting
    BY <1>2 DEF Submitting, Idle
  <2> HIDE DEF x
  <2>4. QED
    BY <2>1, <2>2, <2>3, HandsStep
<1>4. in \in Seq(Rows)
  BY PlaceTypes
<1>5. CASE in = <<>>
  <2>1. InWriter' = InWriter \ {}
    BY <1>1, <1>3, <1>5, WriterPlaces DEF Evict
  <2>2. Contract!Lose({})
    BY <1>1, <1>2, <2>1, SameStored DEF Contract!Lose
  <2>3. QED
    BY <2>2
<1>6. CASE in # <<>>
  <2>1. in' = Tail(in)
    BY <1>6 DEF Evict
  <2>2. /\ Head(in) \in Rows /\ Head(in) \notin Content(in')
        /\ Content(in) = Content(in') \cup {Head(in)}
    BY <1>4, <1>6, <2>1, TailRows DEF RInv, Placed
  <2>3. Head(in) \notin Hands /\ Head(in) \notin Content(batch)
    BY <2>2, HandsApart DEF RInv, Placed
  <2>4. InWriter' = InWriter \ {Head(in)} /\ {Head(in)} \subseteq InWriter
    BY <1>1, <1>3, <2>2, <2>3, WriterPlaces
  <2>5. Contract!Lose({Head(in)})
    BY <1>1, <1>2, <2>4, SameStored DEF Contract!Lose
  <2>6. QED
    BY <2>2, <2>5
<1>7. QED
  BY <1>5, <1>6

\* The last select moves the row into the channel, or loses it.
LEMMA RetryLoses ==
    ASSUME IInv, RInv, NEW p \in Producers, Retry(p)
    PROVE  \E lost \in SUBSET Rows : Contract!Lose(lost)
<1>1. keyed' = keyed /\ batch' = batch /\ table' = table
  BY RequestFrame
<1>2. submitted' = submitted /\ prod[p].pc = "retry" /\ prod' = [prod EXCEPT ![p] = Idle]
  BY DEF Retry
<1>3. p \in Submitting /\ prod[p].row \in Rows /\ prod[p].row \in Hands
  BY <1>2, PlaceTypes DEF Submitting, Idle, Hands
<1>4. Hands' = Hands \ {prod[p].row}
  <2>1. Idle.evicted \in BOOLEAN
    BY DEF Idle
  <2>2. QED
    BY <1>2, <1>3, <2>1, HandsStep
<1>5. prod[p].row \notin Content(in) \cup Content(batch)
  BY <1>3 DEF RInv, Placed
<1>6. CASE in' = in
  <2>1. /\ InWriter' = InWriter \ {prod[p].row}
        /\ {prod[p].row} \subseteq InWriter
    BY <1>1, <1>3, <1>4, <1>5, <1>6, WriterPlaces
  <2>2. Contract!Lose({prod[p].row})
    BY <1>1, <1>2, <2>1, SameStored DEF Contract!Lose
  <2>3. QED
    BY <1>3, <2>2
<1>7. CASE in' = Append(in, prod[p].row)
  <2>1. Content(in') = Content(in) \cup {prod[p].row}
    BY <1>3, <1>7, AppendRows, PlaceTypes
  <2>2. InWriter' = InWriter \ {}
    BY <1>1, <1>3, <1>4, <2>1, WriterPlaces
  <2>3. Contract!Lose({})
    BY <1>1, <1>2, <2>2, SameStored DEF Contract!Lose
  <2>4. QED
    BY <2>3
<1>8. QED
  BY <1>6, <1>7 DEF Retry

\* Collecting a batch, the ticker, the drain and the cancellation neither add
\* nor lose a row.
LEMMA QuietKeeps ==
    ASSUME IInv, RInv,
           Take \/ FlushTick \/ BeginDrain \/ EndDrain \/ Cancel \/ UNCHANGED vars
    PROVE  UNCHANGED Contract!vars
<1>1. keyed' = keyed /\ submitted' = submitted /\ prod' = prod /\ table' = table
  BY DEF Take, FlushTick, BeginDrain, EndDrain, Cancel, vars, prodVars, ctxVars, runVars
<1>2. Hands' = Hands
  BY <1>1 DEF Hands, Submitting
<1>3. Content(in') \cup Content(batch') = Content(in) \cup Content(batch)
  <2>1. CASE Take
    <3>1. in # <<>> /\ in' = Tail(in) /\ batch' = Append(batch, Head(in))
      BY <2>1 DEF Take
    <3>2. Head(in) \in Rows /\ Content(in) = Content(in') \cup {Head(in)}
      BY <3>1, PlaceTypes, TailRows
    <3>3. Content(batch') = Content(batch) \cup {Head(in)}
      BY <3>1, <3>2, PlaceTypes, AppendRows
    <3>4. QED
      BY <3>2, <3>3
  <2>2. CASE FlushTick \/ BeginDrain \/ EndDrain \/ Cancel \/ UNCHANGED vars
    BY <2>2 DEF FlushTick, BeginDrain, EndDrain, Cancel, vars, runVars
  <2>3. QED
    BY <2>1, <2>2
<1>4. InWriter' = InWriter
  BY <1>2, <1>3, WriterPlaces
<1>5. QED
  BY <1>1, <1>4, SameStored DEF Contract!vars

\* An attempt: the batch is inserted and let go, inserted and kept for the
\* retry, let go, or only kept.
LEMMA AttemptInserts ==
    ASSUME IInv, RInv, NEW late \in BOOLEAN, InsertOK \/ InsertFails(late)
    PROVE  \/ \E rows \in SUBSET Rows : \/ Contract!Insert(rows)
                                        \/ Contract!InsertUnanswered(rows)
                                        \/ Contract!Lose(rows)
           \/ UNCHANGED Contract!vars
<1>1. /\ keyed' = keyed /\ submitted' = submitted /\ prod' = prod /\ in' = in
      /\ attempt # 0
  BY DEF InsertOK, InsertFails, prodVars
<1>2. Hands' = Hands /\ Limit' = Limit
  BY <1>1 DEF Hands, Submitting, Limit
<1>3. Content(batch) \in SUBSET Rows /\ Content(batch) \subseteq InWriter
  BY PlaceTypes, WriterPlaces
<1>4. (Commit /\ ~Refused) \/ table' = table
  BY DEF InsertOK, InsertFails
<1>5. /\ Commit /\ ~Refused => Stored' = Stored \cup Content(batch)
      /\ table' = table => Stored' = Stored
  BY <1>1, <1>2, CommitCopies, SameStored
<1>6. ~Refused /\ keyed => Content(batch) \cap Stored = {}
  BY DEF Refused, Stored
<1>7. CASE EndFlush
  <2>1. Content(batch') = {}
    BY <1>7 DEF EndFlush, Content
  <2>2. InWriter' = InWriter \ Content(batch)
    BY <1>1, <1>2, <2>1, WriterPlaces, HandsApart DEF RInv, Placed
  <2>3. CASE Commit /\ ~Refused
    BY <1>1, <1>3, <1>5, <1>6, <2>2, <2>3 DEF Contract!Insert
  <2>4. CASE table' = table
    BY <1>1, <1>3, <1>5, <2>2, <2>4 DEF Contract!Lose
  <2>5. QED
    BY <1>4, <2>3, <2>4
<1>8. CASE attempt = 1 /\ batch' = batch
  <2>1. InWriter' = InWriter
    BY <1>1, <1>2, <1>8, WriterPlaces
  <2>2. Content(batch) \cap Stored = {}
    <3>1. \A r \in Content(batch) : table[r] <= 0
      BY <1>8 DEF RInv, Copied
    <3>2. QED
      BY <3>1, PlaceTypes DEF Stored
  <2>3. CASE Commit /\ ~Refused
    BY <1>1, <1>3, <1>5, <2>1, <2>2, <2>3 DEF Contract!InsertUnanswered
  <2>4. CASE table' = table
    BY <1>1, <1>5, <2>1, <2>4 DEF Contract!vars
  <2>5. QED
    BY <1>4, <2>3, <2>4
<1>9. QED
  BY <1>7, <1>8 DEF InsertOK, InsertFails

\* Both writers implement WriterContract, for any number of requests, rows,
\* channel and batch sizes: Submit's evictions, Run's batches, the retry of an
\* insert whose answer was lost and the drain add no row to the table that is
\* not with the writer, and bring none back that left it.
THEOREM WriterImplementsContract == Spec => WriterKeepsContract
<1>1. Init => Contract!Init
  <2>1. SUFFICES ASSUME Init PROVE Contract!Init
    OBVIOUS
  <2>2. Submitting = {} /\ Content(<<>>) = {}
    BY <2>1 DEF Init, Submitting, Content
  <2>3. InWriter = {}
    BY <2>1, <2>2 DEF Init, InWriter
  <2>4. Stored = {}
    BY <2>1 DEF Init, Stored
  <2>5. QED
    BY <2>1, <2>3, <2>4 DEF Init, Contract!Init
<1>2. IInv /\ RInv /\ [Next]_vars => [Contract!Next]_(Contract!vars)
  <2>0. SUFFICES ASSUME IInv, RInv, [Next]_vars PROVE [Contract!Next]_(Contract!vars)
    OBVIOUS
  <2>1. ASSUME NEW p \in Producers, NEW r \in Rows, Submit(p, r)
        PROVE  [Contract!Next]_(Contract!vars)
    BY <2>0, <2>1, SubmitGives DEF Contract!Next
  <2>2. ASSUME NEW p \in Producers, Evict(p) \/ Retry(p)
        PROVE  [Contract!Next]_(Contract!vars)
    BY <2>0, <2>2, EvictLoses, RetryLoses DEF Contract!Next
  <2>3. CASE Take \/ FlushTick \/ BeginDrain \/ EndDrain \/ Cancel \/ UNCHANGED vars
    BY <2>0, <2>3, QuietKeeps
  <2>4. CASE InsertOK \/ \E late \in BOOLEAN : InsertFails(late)
    BY <2>0, <2>4, AttemptInserts DEF Contract!Next
  <2>5. QED
    BY <2>0, <2>1, <2>2, <2>3, <2>4 DEF Next, RunStep
<1>3. QED
  BY <1>1, <1>2, RInvHolds, PTL DEF Spec, WriterKeepsContract, Contract!Spec

=============================================================================
