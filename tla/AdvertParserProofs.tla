------------------------- MODULE AdvertParserProofs -------------------------
(***************************************************************************)
(* Proofs about the advert parser for every set of buffers of octets: the  *)
(* walk frames its records, the three copies of the loop agree, and the    *)
(* identity is the one the records of the packet call for.                 *)
(***************************************************************************)
EXTENDS AdvertParser, TLAPS, SequenceTheorems, FiniteSetTheorems

-----------------------------------------------------------------------------
(* Shapes.                                                                 *)

Structure == [type : Octets, value : Seq(Octets)]
Listed == [offset : Nat, type : Octets, value : Seq(Octets)]

AdvFields == {"structures", "localName", "txPower", "iBeacon", "eddystone"}

Shape ==
    /\ pc \in {"start", "walk", "done", "failed"}
    /\ buf \in Buffers \cup {BadHex}
    /\ buf = BadHex => pc \in {"start", "failed"}
    /\ i \in Nat
    /\ DOMAIN adv = AdvFields
    /\ adv.structures \in Seq(Structure)
    /\ DOMAIN debug = {"records", "iBeacon", "err"}
    /\ debug.records \in Seq(Listed)
    /\ DOMAIN legacy = {"st", "iBeacon"}

\* The record at the walk's offset: its length octet counts the type and the
\* value, both of which lie inside the buffer.
LEMMA RecordShape ==
    ASSUME Shape, pc = "walk", ~AtEnd, ~Overruns
    PROVE  /\ buf \in Seq(Octets)
           /\ i + 2 \in 1..Len(buf) /\ buf[i + 1] \in 1..255
           /\ i + 1 + buf[i + 1] <= Len(buf)
           /\ buf[i + 2] \in Octets
           /\ RecordValue \in Seq(Octets) /\ Len(RecordValue) = buf[i + 1] - 1
           /\ \A k \in 1..(buf[i + 1] - 1) : RecordValue[k] = buf[i + 2 + k]
<1>1. buf \in Seq(Octets) /\ i \in Nat
  BY BuffersAssumption DEF Shape
<1>2. Len(buf) \in Nat
  BY <1>1, LenProperties
<1>a. i < Len(buf) /\ buf[i + 1] # 0
  BY DEF AtEnd
<1>b. i + 1 \in 1..Len(buf)
  BY <1>1, <1>2, <1>a
<1>c. buf[i + 1] \in 0..255
  BY <1>1, <1>b, ElementOfSeq DEF Octets
<1>e. i \in Nat /\ ~(i + 1 + buf[i + 1] > Len(buf))
  BY <1>1 DEF Overruns
<1>3. i + 1 + buf[i + 1] <= Len(buf)
  <2>1. ASSUME NEW n \in Nat, NEW m \in Nat, NEW l \in 0..255, ~(n + 1 + l > m)
        PROVE  n + 1 + l <= m
    BY <2>1
  <2> QED
    BY <1>2, <1>c, <1>e, <2>1
<1>4. buf[i + 1] \in 1..255
  BY <1>a, <1>c
<1> DEFINE L == buf[i + 1]
<1>5. L \in 1..255 /\ i + 1 + L <= Len(buf)
  BY <1>3, <1>4
<1> HIDE DEF L
<1>d. i + 2 \in 1..Len(buf) /\ (i + 3)..(i + 1 + L) \subseteq 1..Len(buf)
  BY <1>1, <1>2, <1>5
<1>6. i + 2 \in 1..Len(buf) /\ buf[i + 2] \in Octets
  BY <1>1, <1>d, ElementOfSeq
<1>7. \A k \in (i + 3)..(i + 1 + L) : buf[k] \in Octets
  BY <1>1, <1>d, ElementOfSeq
<1>8. i + 3 \in Int /\ i + 1 + L \in Int
  BY <1>1, <1>5
<1>9. /\ SubSeq(buf, i + 3, i + 1 + L) \in Seq(Octets)
      /\ Len(SubSeq(buf, i + 3, i + 1 + L))
            = IF i + 3 <= i + 1 + L THEN (i + 1 + L) - (i + 3) + 1 ELSE 0
      /\ \A k \in 1..((i + 1 + L) - (i + 3) + 1) :
            SubSeq(buf, i + 3, i + 1 + L)[k] = buf[i + 3 + k - 1]
  BY <1>7, <1>8, SubSeqProperties
<1>10. RecordValue = SubSeq(buf, i + 3, i + 1 + L)
  BY DEF RecordValue, L
<1>11. Len(RecordValue) = L - 1
  BY <1>1, <1>5, <1>9, <1>10
<1>12. ASSUME NEW k \in 1..(L - 1) PROVE RecordValue[k] = buf[i + 2 + k]
  <2>1. (i + 1 + L) - (i + 3) + 1 = L - 1 /\ i + 3 + k - 1 = i + 2 + k
    BY <1>1, <1>5
  <2> QED
    BY <1>9, <1>10, <2>1
<1> QED
  BY <1>1, <1>5, <1>6, <1>9, <1>10, <1>11, <1>12 DEF L

\* What one record adds, field by field.
LEMMA DecodeFields ==
    ASSUME NEW a, DOMAIN a = AdvFields, NEW t, NEW v
    PROVE  /\ DOMAIN decodeStructure(a, t, v) = AdvFields
           /\ decodeStructure(a, t, v).structures
                 = Append(a.structures, [type |-> t, value |-> v])
           /\ decodeStructure(a, t, v).localName = localNameAfter(a, t, v)
           /\ decodeStructure(a, t, v).iBeacon = iBeaconAfter(a, t, v)
           /\ decodeStructure(a, t, v).eddystone = eddystoneAfter(a, t, v)
BY DEF decodeStructure, AdvFields

\* One turn of the loop, as far as the lists of records go.
LEMMA RecordStep ==
    ASSUME Shape, Record
    PROVE  /\ [type |-> buf[i + 2], value |-> RecordValue] \in Structure
           /\ [offset |-> i, type |-> buf[i + 2], value |-> RecordValue] \in Listed
           /\ DOMAIN adv' = AdvFields
           /\ adv'.structures
                 = Append(adv.structures, [type |-> buf[i + 2], value |-> RecordValue])
           /\ adv'.localName = localNameAfter(adv, buf[i + 2], RecordValue)
           /\ adv'.iBeacon = iBeaconAfter(adv, buf[i + 2], RecordValue)
           /\ adv'.eddystone = eddystoneAfter(adv, buf[i + 2], RecordValue)
           /\ debug' = debugAfter(buf[i + 2], RecordValue)
           /\ debug'.records = Append(debug.records,
                 [offset |-> i, type |-> buf[i + 2], value |-> RecordValue])
           /\ legacy' = legacyAfter(buf[i + 2], RecordValue)
           /\ i' = i + 1 + buf[i + 1]
           /\ buf' = buf /\ pc' = pc /\ pc = "walk" /\ ~AtEnd /\ ~Overruns
<1>1. /\ pc = "walk" /\ ~AtEnd /\ ~Overruns /\ buf' = buf /\ pc' = pc
      /\ adv' = decodeStructure(adv, buf[i + 2], RecordValue)
      /\ debug' = debugAfter(buf[i + 2], RecordValue)
      /\ legacy' = legacyAfter(buf[i + 2], RecordValue)
      /\ i' = i + 1 + buf[i + 1]
  BY DEF Record
<1>2. buf[i + 2] \in Octets /\ RecordValue \in Seq(Octets) /\ i \in Nat
  BY <1>1, RecordShape DEF Shape
<1>3. /\ [type |-> buf[i + 2], value |-> RecordValue] \in Structure
      /\ [offset |-> i, type |-> buf[i + 2], value |-> RecordValue] \in Listed
  BY <1>2 DEF Structure, Listed
<1>4. debug'.records = Append(debug.records,
         [offset |-> i, type |-> buf[i + 2], value |-> RecordValue])
  BY <1>1 DEF debugAfter
<1>5. DOMAIN adv = AdvFields
  BY DEF Shape
<1> QED
  BY <1>1, <1>3, <1>4, <1>5, DecodeFields, SMTT(30)

\* The steps other than Record keep the lists and the offset.
LEMMA OtherSteps ==
    ASSUME Shape, DecodeHex \/ EndOfList \/ PastEnd \/ UNCHANGED vars
    PROVE  /\ adv' = adv /\ i' = i /\ buf' = buf
           /\ DOMAIN debug' = DOMAIN debug /\ debug'.records = debug.records
           /\ debug'.iBeacon = debug.iBeacon
           /\ DOMAIN legacy' = DOMAIN legacy /\ legacy'.iBeacon = legacy.iBeacon
BY DEF Shape, DecodeHex, EndOfList, PastEnd, vars, legacyReturns

\* The steps by their effect.
LEMMA Steps ==
    [Next]_vars => Record \/ DecodeHex \/ EndOfList \/ PastEnd \/ UNCHANGED vars
BY DEF Next, Returned

\* The shapes hold throughout.
LEMMA ShapeStep == Shape /\ [Next]_vars => Shape'
<1> SUFFICES ASSUME Shape, [Next]_vars PROVE Shape'
  OBVIOUS
<1>1. CASE Record
  <2>1. /\ buf' = buf /\ pc' = "walk" /\ pc = "walk" /\ DOMAIN adv' = AdvFields
        /\ i' = i + 1 + buf[i + 1] /\ ~AtEnd /\ ~Overruns
    BY <1>1, RecordStep
  <2>2. i' \in Nat
    <3>1. buf[i + 1] \in 1..255 /\ i \in Nat
      BY <2>1, RecordShape DEF Shape
    <3> QED
      BY <2>1, <3>1
  <2>a. adv.structures \in Seq(Structure) /\ debug.records \in Seq(Listed)
    BY DEF Shape
  <2> DEFINE new == [type |-> buf[i + 2], value |-> RecordValue]
             row == [offset |-> i, type |-> buf[i + 2], value |-> RecordValue]
  <2>b. /\ new \in Structure /\ adv'.structures = Append(adv.structures, new)
        /\ row \in Listed /\ debug'.records = Append(debug.records, row)
    BY <1>1, RecordStep
  <2> HIDE DEF new, row
  <2>3. adv'.structures \in Seq(Structure) /\ debug'.records \in Seq(Listed)
    BY <2>a, <2>b, AppendProperties
  <2>4. DOMAIN debug' = {"records", "iBeacon", "err"}
    BY <1>1 DEF Record, debugAfter
  <2>5. DOMAIN legacy' = {"st", "iBeacon"}
    BY <1>1 DEF Record, legacyAfter, Shape
  <2> QED
    BY <2>1, <2>2, <2>3, <2>4, <2>5 DEF Shape
<1>2. CASE DecodeHex \/ EndOfList \/ PastEnd \/ UNCHANGED vars
  <2>1. pc' \in {"start", "walk", "done", "failed"}
        /\ (buf = BadHex => pc' \in {"start", "failed"})
    BY <1>2 DEF Shape, DecodeHex, EndOfList, PastEnd, vars
  <2> QED
    BY <1>2, <2>1, OtherSteps DEF Shape
<1> QED
  BY <1>1, <1>2, Steps

\* They hold at the start.
LEMMA ShapeInit == Init => Shape
BY DEF Init, Shape, NewAdvert, AdvFields

-----------------------------------------------------------------------------
(* Framing.                                                                *)

\* Where a listed record ends.
EndOf(r) == r.offset + 2 + Len(r.value)

\* The record r is the octets of the buffer at its offset.
Tile(r) == SubSeq(buf, r.offset + 1, EndOf(r)) = <<Len(r.value) + 1, r.type>> \o r.value

\* A list of n + 1 elements, from the one of n elements.
LEMMA Appended ==
    ASSUME NEW S, NEW s \in Seq(S), NEW x \in S
    PROVE  /\ Append(s, x) \in Seq(S)
           /\ Len(Append(s, x)) = Len(s) + 1 /\ Len(s) \in Nat
           /\ DOMAIN s = 1..Len(s) /\ DOMAIN Append(s, x) = 1..(Len(s) + 1)
           /\ \A k \in 1..Len(s) : Append(s, x)[k] = s[k]
           /\ Append(s, x)[Len(s) + 1] = x
           /\ Append(s, x) # <<>>
<1>1. /\ Append(s, x) \in Seq(S)
      /\ Len(Append(s, x)) = Len(s) + 1 /\ Len(s) \in Nat
      /\ \A k \in 1..Len(s) : Append(s, x)[k] = s[k]
      /\ Append(s, x)[Len(s) + 1] = x
  BY AppendProperties, LenProperties
<1>2. DOMAIN s = 1..Len(s) /\ DOMAIN Append(s, x) = 1..(Len(s) + 1)
  BY <1>1, LenProperties
<1>3. Append(s, x) # <<>>
  BY <1>1, EmptySeq
<1> QED
  BY <1>1, <1>2, <1>3

\* The record at the offset is a tile.
LEMMA NewTile ==
    ASSUME Shape, pc = "walk", ~AtEnd, ~Overruns
    PROVE  LET r == [offset |-> i, type |-> buf[i + 2], value |-> RecordValue]
           IN  Tile(r) /\ EndOf(r) = i + 1 + buf[i + 1]
<1> DEFINE r == [offset |-> i, type |-> buf[i + 2], value |-> RecordValue]
           v == RecordValue
           L == buf[i + 1]
           lhs == SubSeq(buf, i + 1, i + 1 + L)
           head == <<L, buf[i + 2]>>
           rhs == head \o v
<1>1. /\ buf \in Seq(Octets)
      /\ i + 2 \in 1..Len(buf) /\ L \in 1..255
      /\ i + 1 + L <= Len(buf)
      /\ buf[i + 2] \in Octets
      /\ v \in Seq(Octets) /\ Len(v) = L - 1
      /\ \A k \in 1..(L - 1) : v[k] = buf[i + 2 + k]
      /\ i \in Nat /\ Len(buf) \in Nat
  BY RecordShape, LenProperties DEF Shape
<1>2. r.offset = i /\ r.type = buf[i + 2] /\ r.value = v
  OBVIOUS
<1>a. L = buf[i + 1]
  OBVIOUS
<1> HIDE DEF r, v, L
<1>b. L \in Int /\ L >= 1 /\ i \in Int /\ Len(v) = L - 1
  BY <1>1
<1>3. EndOf(r) = i + 1 + L
  BY <1>2, <1>b DEF EndOf
<1>4. head \in Seq(Octets) /\ Len(head) = 2 /\ head[1] = L /\ head[2] = buf[i + 2]
  BY <1>1 DEF Octets
<1> HIDE DEF head
<1>5. /\ rhs \in Seq(Octets) /\ Len(rhs) = L + 1
      /\ \A k \in 1..(L + 1) : rhs[k] = IF k <= 2 THEN head[k] ELSE v[k - 2]
  <2>1. /\ rhs \in Seq(Octets) /\ Len(rhs) = Len(head) + Len(v)
        /\ \A k \in 1..(Len(head) + Len(v)) :
              rhs[k] = IF k <= Len(head) THEN head[k] ELSE v[k - Len(head)]
    <3>1. head \in Seq(Octets) /\ v \in Seq(Octets)
      BY <1>1, <1>4
    <3> QED
      BY <3>1, ConcatProperties
  <2>2. Len(head) + Len(v) = L + 1
    BY <1>4, <1>b
  <2> QED
    BY <1>4, <2>1, <2>2
<1> HIDE DEF rhs
<1>6. \A k \in (i + 1)..(i + 1 + L) : buf[k] \in Octets
  <2>1. (i + 1)..(i + 1 + L) \subseteq 1..Len(buf)
    <3>1. \A a, d, n \in Nat : a + 1 + d <= n => (a + 1)..(a + 1 + d) \subseteq 1..n
      OBVIOUS
    <3>2. i \in Nat /\ L \in Nat /\ Len(buf) \in Nat /\ i + 1 + L <= Len(buf)
      BY <1>1
    <3> QED
      BY <3>1, <3>2
  <2> QED
    BY <1>1, <2>1, ElementOfSeq
<1>7. /\ lhs \in Seq(Octets)
      /\ Len(lhs) = IF i + 1 <= i + 1 + L THEN (i + 1 + L) - (i + 1) + 1 ELSE 0
      /\ \A k \in 1..((i + 1 + L) - (i + 1) + 1) : lhs[k] = buf[i + 1 + k - 1]
  <2>1. i + 1 \in Int /\ i + 1 + L \in Int
    BY <1>1
  <2> QED
    BY <1>6, <2>1, SubSeqProperties
<1> HIDE DEF lhs
<1>8. (i + 1 + L) - (i + 1) + 1 = L + 1 /\ i + 1 <= i + 1 + L
  BY <1>1
<1>9. Len(lhs) = L + 1 /\ \A k \in 1..(L + 1) : lhs[k] = buf[i + k]
  <2>1. \A k \in 1..(L + 1) : i + 1 + k - 1 = i + k
    BY <1>1
  <2> QED
    BY <1>7, <1>8, <2>1
<1>10. ASSUME NEW k \in 1..(L + 1) PROVE lhs[k] = rhs[k]
  <2>0. k \in Int /\ k >= 1 /\ k <= L + 1 /\ L \in Int /\ i \in Int
    BY <1>b
  <2>1. CASE k = 1
    <3>1. lhs[k] = buf[i + 1] /\ rhs[k] = head[1]
      BY <1>5, <1>9, <2>1
    <3> QED
      BY <1>4, <1>a, <3>1
  <2>2. CASE k = 2
    <3>1. lhs[k] = buf[i + 2] /\ rhs[k] = head[2]
      BY <1>5, <1>9, <2>2
    <3> QED
      BY <1>4, <3>1
  <2>3. CASE k # 1 /\ k # 2
    <3>1. k - 2 \in 1..(L - 1) /\ ~(k <= 2) /\ i + 2 + (k - 2) = i + k
      BY <2>0, <2>3
    <3>2. rhs[k] = v[k - 2]
      BY <1>5, <3>1
    <3>3. v[k - 2] = buf[i + 2 + (k - 2)]
      BY <1>1, <3>1
    <3> QED
      BY <1>9, <3>1, <3>2, <3>3
  <2> QED
    BY <2>1, <2>2, <2>3
<1>11. lhs = rhs
  BY <1>5, <1>7, <1>9, <1>10, SeqEqual
<1>12. Tile(r)
  <2>1. <<Len(r.value) + 1, r.type>> \o r.value = rhs
    <3>1. Len(v) + 1 = L
      BY <1>1
    <3> QED
      BY <1>2, <3>1 DEF rhs, head
  <2>2. SubSeq(buf, r.offset + 1, EndOf(r)) = lhs
    BY <1>2, <1>3 DEF lhs
  <2> QED
    BY <1>11, <2>1, <2>2 DEF Tile
<1> QED
  BY <1>3, <1>12 DEF r, L, v

\* Framed, record by record.
Tiled(recs) ==
    \A k \in 1..Len(recs) :
        /\ Tile(recs[k])
        /\ recs[k].offset = IF k = 1 THEN 0 ELSE EndOf(recs[k - 1])

\* Parse and ParseAdvertDebug list the same records.
SameList(recs, structs) ==
    /\ Len(structs) = Len(recs)
    /\ \A k \in 1..Len(recs) :
          structs[k] = [type |-> recs[k].type, value |-> recs[k].value]

FrameInv ==
    /\ buf # BadHex => i <= Len(buf)
    /\ Tiled(debug.records)
    /\ i = IF debug.records = <<>> THEN 0 ELSE EndOf(debug.records[Len(debug.records)])
    /\ SameList(debug.records, adv.structures)

\* A new record keeps the tiling.
LEMMA TiledAppend ==
    ASSUME NEW recs \in Seq(Listed), NEW r \in Listed, Tiled(recs), Tile(r),
           r.offset = IF recs = <<>> THEN 0 ELSE EndOf(recs[Len(recs)])
    PROVE  Tiled(Append(recs, r))
<1> DEFINE n == Len(recs)
           new == Append(recs, r)
<1>1. /\ Len(new) = n + 1 /\ n \in Nat
      /\ \A k \in 1..n : new[k] = recs[k]
      /\ new[n + 1] = r
  BY Appended
<1>2. recs = <<>> <=> n = 0
  BY EmptySeq
<1> HIDE DEF new, n
<1>3. ASSUME NEW k \in 1..n
      PROVE  Tile(new[k]) /\ new[k].offset = IF k = 1 THEN 0 ELSE EndOf(new[k - 1])
  <2>1. Tile(recs[k]) /\ recs[k].offset = IF k = 1 THEN 0 ELSE EndOf(recs[k - 1])
    BY DEF Tiled, n
  <2>2. k # 1 => k - 1 \in 1..n
    BY <1>1
  <2> QED
    BY <1>1, <2>1, <2>2
<1>4. Tile(new[n + 1]) /\ new[n + 1].offset = IF n + 1 = 1 THEN 0 ELSE EndOf(new[n])
  <2>1. CASE n = 0
    BY <1>1, <1>2, <2>1
  <2>2. CASE n # 0
    <3>1. n \in 1..n /\ n + 1 # 1
      BY <1>1, <2>2
    <3> QED
      BY <1>1, <1>2, <2>2, <3>1 DEF n
  <2> QED
    BY <2>1, <2>2
<1>5. \A k \in 1..(n + 1) : k \in 1..n \/ (k = n + 1 /\ k - 1 = n)
  BY <1>1
<1>6. \A k \in 1..(n + 1) :
         Tile(new[k]) /\ new[k].offset = IF k = 1 THEN 0 ELSE EndOf(new[k - 1])
  BY <1>3, <1>4, <1>5
<1> QED
  BY <1>1, <1>6 DEF Tiled, new

\* And the two lists stay the same.
LEMMA SameListAppend ==
    ASSUME NEW recs \in Seq(Listed), NEW r \in Listed,
           NEW structs \in Seq(Structure), NEW x \in Structure,
           SameList(recs, structs), x = [type |-> r.type, value |-> r.value]
    PROVE  SameList(Append(recs, r), Append(structs, x))
<1>1. /\ Len(Append(recs, r)) = Len(recs) + 1 /\ Len(recs) \in Nat
      /\ \A k \in 1..Len(recs) : Append(recs, r)[k] = recs[k]
      /\ Append(recs, r)[Len(recs) + 1] = r
  BY Appended
<1>2. /\ Len(Append(structs, x)) = Len(structs) + 1 /\ Len(structs) = Len(recs)
      /\ \A k \in 1..Len(structs) : Append(structs, x)[k] = structs[k]
      /\ Append(structs, x)[Len(structs) + 1] = x
  BY Appended DEF SameList
<1>3. \A k \in 1..(Len(recs) + 1) : k \in 1..Len(recs) \/ k = Len(recs) + 1
  BY <1>1
<1>4. \A k \in 1..Len(recs) :
         structs[k] = [type |-> recs[k].type, value |-> recs[k].value]
  BY DEF SameList
<1>5. ASSUME NEW k \in 1..(Len(recs) + 1)
      PROVE  Append(structs, x)[k]
                = [type |-> Append(recs, r)[k].type, value |-> Append(recs, r)[k].value]
  <2>1. CASE k \in 1..Len(recs)
    BY <1>1, <1>2, <1>4, <2>1
  <2>2. CASE k = Len(recs) + 1
    BY <1>1, <1>2, <2>2
  <2> QED
    BY <1>3, <2>1, <2>2
<1> QED
  BY <1>1, <1>2, <1>5 DEF SameList

\* One turn of the loop keeps the frames.
LEMMA FrameStep == Shape /\ FrameInv /\ [Next]_vars => FrameInv'
<1> SUFFICES ASSUME Shape, FrameInv, [Next]_vars PROVE FrameInv'
  OBVIOUS
<1>1. CASE Record
  <2> DEFINE r == [offset |-> i, type |-> buf[i + 2], value |-> RecordValue]
             x == [type |-> buf[i + 2], value |-> RecordValue]
             recs == debug.records
             structs == adv.structures
  <2>1. /\ r \in Listed /\ x \in Structure
        /\ debug'.records = Append(recs, r) /\ adv'.structures = Append(structs, x)
        /\ i' = i + 1 + buf[i + 1] /\ buf' = buf
        /\ pc = "walk" /\ ~AtEnd /\ ~Overruns
    BY <1>1, RecordStep
  <2>2. Tile(r) /\ EndOf(r) = i + 1 + buf[i + 1]
    BY <2>1, NewTile
  <2>3. x = [type |-> r.type, value |-> r.value] /\ r.offset = i
    OBVIOUS
  <2> HIDE DEF r, x
  <2>4. recs \in Seq(Listed) /\ structs \in Seq(Structure)
    BY DEF Shape
  <2>5. /\ Tiled(recs) /\ SameList(recs, structs)
        /\ r.offset = IF recs = <<>> THEN 0 ELSE EndOf(recs[Len(recs)])
    BY <2>3 DEF FrameInv
  <2> HIDE DEF recs, structs
  <2>6. Tiled(Append(recs, r))
    BY <2>1, <2>2, <2>4, <2>5, TiledAppend
  <2>7. SameList(Append(recs, r), Append(structs, x))
    BY <2>1, <2>3, <2>4, <2>5, SameListAppend
  <2>8. i' = EndOf(r) /\ i' <= Len(buf)
    BY <2>1, <2>2, RecordShape
  <2>9. /\ Append(recs, r) # <<>> /\ Len(Append(recs, r)) = Len(recs) + 1
        /\ Append(recs, r)[Len(recs) + 1] = r
    BY <2>1, <2>4, Appended
  <2>10. i' = IF debug'.records = <<>> THEN 0 ELSE EndOf(debug'.records[Len(debug'.records)])
    BY <2>1, <2>8, <2>9
  <2>11. Tiled(debug.records)'
    BY <2>1, <2>6 DEF Tiled, Tile
  <2>12. SameList(debug'.records, adv'.structures)
    BY <2>1, <2>7
  <2> QED
    BY <2>1, <2>8, <2>10, <2>11, <2>12 DEF FrameInv
<1>2. CASE DecodeHex \/ EndOfList \/ PastEnd \/ UNCHANGED vars
  <2>1. adv' = adv /\ i' = i /\ buf' = buf /\ debug'.records = debug.records
    BY <1>2, OtherSteps
  <2> QED
    BY <2>1 DEF FrameInv, Tiled, Tile, EndOf, SameList
<1> QED
  BY <1>1, <1>2, Steps

\* At the start nothing is listed.
LEMMA FrameInit == Init => FrameInv
<1> SUFFICES ASSUME Init PROVE FrameInv
  OBVIOUS
<1>1. /\ debug.records = <<>> /\ adv.structures = <<>> /\ i = 0
  BY DEF Init, NewAdvert
<1>2. Len(<<>>) = 0
  BY EmptySeq
<1>3. buf # BadHex => 0 <= Len(buf)
  <2>1. buf # BadHex => buf \in Seq(Octets)
    BY BuffersAssumption DEF Init
  <2>2. buf \in Seq(Octets) => Len(buf) \in Nat
    BY LenProperties
  <2>3. \A n \in Nat : 0 <= n
    OBVIOUS
  <2> QED
    BY <2>1, <2>2, <2>3
<1>4. Tiled(<<>>) /\ SameList(<<>>, <<>>)
  BY <1>2 DEF Tiled, SameList
<1> QED
  BY <1>1, <1>3, <1>4 DEF FrameInv

\* The record-by-record form says what Framed says.
LEMMA FrameInvFramed == Shape /\ FrameInv => Framed
<1> SUFFICES ASSUME Shape, FrameInv PROVE Framed
  OBVIOUS
<1> DEFINE recs == debug.records
<1>1. /\ recs \in Seq(Listed) /\ adv.structures \in Seq(Structure) /\ i \in Nat
  BY DEF Shape
<1>2. /\ DOMAIN recs = 1..Len(recs)
      /\ adv.structures \in [1..Len(adv.structures) -> Structure]
  BY <1>1, LenProperties
<1>3. buf # BadHex => i \in 0..Len(buf)
  <2>1. ASSUME buf # BadHex PROVE i \in 0..Len(buf)
    <3>1. Len(buf) \in Nat /\ i <= Len(buf)
      BY <2>1, BuffersAssumption, LenProperties DEF Shape, FrameInv
    <3> QED
      BY <1>1, <3>1
  <2> QED
    BY <2>1
<1>4. Tiled(recs) /\ SameList(recs, adv.structures)
      /\ i = IF recs = <<>> THEN 0 ELSE EndOf(recs[Len(recs)])
  BY DEF FrameInv
<1> HIDE DEF recs
<1>5. adv.structures = [k \in DOMAIN recs |-> [type |-> recs[k].type, value |-> recs[k].value]]
  BY <1>2, <1>4 DEF SameList
<1>6. \A k \in DOMAIN recs :
         /\ SubSeq(buf, recs[k].offset + 1, recs[k].offset + 2 + Len(recs[k].value))
               = <<Len(recs[k].value) + 1, recs[k].type>> \o recs[k].value
         /\ recs[k].offset = IF k = 1 THEN 0
                             ELSE recs[k - 1].offset + 2 + Len(recs[k - 1].value)
  BY <1>2, <1>4 DEF Tiled, Tile, EndOf
<1> QED
  BY <1>3, <1>4, <1>5, <1>6 DEF Framed, EndOf, recs

\* The records of both walks tile the buffer up to the offset.
THEOREM AlwaysFramed == Spec => []Framed
<1>1. Init => Shape /\ FrameInv
  BY ShapeInit, FrameInit
<1>2. Shape /\ FrameInv /\ [Next]_vars => Shape' /\ FrameInv'
  BY ShapeStep, FrameStep
<1> QED
  BY <1>1, <1>2, FrameInvFramed, PTL DEF Spec

-----------------------------------------------------------------------------
(* The three walks.                                                        *)

\* Structures that look like an iBeacon, complete or not.
Like(x) == x.type = manufDataType /\ looksLikeIBeacon(x.value)
LikesOf(s) == {k \in DOMAIN s : Like(s[k])}

\* A payload decodes exactly when it is long enough.
LEMMA DecodesWhenLong ==
    ASSUME NEW v \in Seq(Octets)
    PROVE  decodeIBeaconPayload(v) = None <=> ~(Len(v) >= 25)
<1>1. Len(v) \in Nat
  BY LenProperties
<1>2. CASE Len(v) < 25
  BY <1>1, <1>2 DEF decodeIBeaconPayload
<1>3. CASE ~(Len(v) < 25)
  <2>1. 25 \in 1..Len(v) /\ 5..24 \subseteq 1..Len(v) /\ Len(v) >= 25
    BY <1>1, <1>3
  <2>2. v[25] \in Octets /\ \A k \in 5..24 : v[k] \in Octets
    BY <2>1, ElementOfSeq
  <2>3. SubSeq(v, 5, 24) \in Seq(Octets)
    BY <2>2, SubSeqProperties
  <2>4. decodeIBeaconPayload(v) = [key |-> SubSeq(v, 5, 24), txPower |-> v[25]]
    BY <1>3 DEF decodeIBeaconPayload
  <2>5. decodeIBeaconPayload(v) \in [key : Seq(Octets), txPower : Octets]
    BY <2>2, <2>3, <2>4
  <2> QED
    BY <2>1, <2>5, NoneAssumption
<1> QED
  BY <1>2, <1>3

\* How the index sets grow with one more structure.
LEMMA IndexSetsGrow ==
    ASSUME NEW s \in Seq(Structure), NEW x \in Structure
    PROVE  LET n == Len(s) + 1
           IN  /\ LikesOf(Append(s, x)) = LikesOf(s) \cup {k \in {n} : Like(x)}
               /\ IBeaconsOf(Append(s, x)) =
                     IBeaconsOf(s) \cup {k \in {n} : Like(x) /\ Len(x.value) >= 25}
               /\ IBeaconsOf(s) \subseteq LikesOf(s) /\ LikesOf(s) \subseteq 1..Len(s)
               /\ Len(s) \in Nat /\ n \notin 1..Len(s)
<1> DEFINE n == Len(s) + 1
           t == Append(s, x)
<1>1. /\ Len(s) \in Nat /\ DOMAIN s = 1..Len(s) /\ DOMAIN t = 1..n
      /\ \A k \in 1..Len(s) : t[k] = s[k]
      /\ t[n] = x
  BY Appended
<1>2. n \notin 1..Len(s) /\ 1..n = 1..Len(s) \cup {n}
  BY <1>1
<1> HIDE DEF n, t
<1>3. DOMAIN t = DOMAIN s \cup {n} /\ n \notin DOMAIN s /\ \A k \in DOMAIN s : t[k] = s[k]
  BY <1>1, <1>2
<1>4. LikesOf(t) = LikesOf(s) \cup {k \in {n} : Like(x)}
  BY <1>1, <1>3 DEF LikesOf
<1>5. IBeaconsOf(t) = IBeaconsOf(s) \cup {k \in {n} : Like(x) /\ Len(x.value) >= 25}
  BY <1>1, <1>3 DEF IBeaconsOf, Like
<1>6. IBeaconsOf(s) \subseteq LikesOf(s) /\ LikesOf(s) \subseteq 1..Len(s)
  BY <1>1 DEF IBeaconsOf, LikesOf, Like
<1> QED
  BY <1>1, <1>2, <1>4, <1>5, <1>6 DEF n, t

WalkInv ==
    LET s == adv.structures
    IN  /\ debug.err \in BOOLEAN
        /\ debug.iBeacon = adv.iBeacon
        /\ pc = "failed" => debug.err
        /\ pc # "failed" => (debug.err <=> LikesOf(s) # IBeaconsOf(s))
        /\ pc \in {"start", "walk"} => (legacy.st = "walk" <=> LikesOf(s) = {})
        /\ LikesOf(s) = {} => /\ legacy.iBeacon = None /\ adv.iBeacon = None
                              /\ pc = "done" => legacy.st = "none"
        /\ pc # "failed" => \A k : LikesOf(s) = {k} =>
              /\ legacy.iBeacon = adv.iBeacon
              /\ legacy.st = IF debug.err THEN "error" ELSE "found"
              /\ adv.iBeacon = None <=> debug.err

\* What a record does to the iBeacons and errors of the three walks.
LEMMA WalkFields ==
    ASSUME NEW t, NEW v \in Seq(Octets), NEW x, x = [type |-> t, value |-> v]
    PROVE  /\ iBeaconAfter(adv, t, v) = IF Like(x) /\ Len(v) >= 25
                                        THEN decodeIBeaconPayload(v) ELSE adv.iBeacon
           /\ debugAfter(t, v).iBeacon = IF Like(x) /\ Len(v) >= 25
                                         THEN decodeIBeaconPayload(v) ELSE debug.iBeacon
           /\ debugAfter(t, v).err <=> debug.err \/ (Like(x) /\ ~(Len(v) >= 25))
           /\ debugAfter(t, v).err \in BOOLEAN
           /\ legacy.st # "walk" \/ ~Like(x) => legacyAfter(t, v) = legacy
           /\ legacy.st = "walk" /\ Like(x) =>
                 /\ legacyAfter(t, v).st = IF Len(v) >= 25 THEN "found" ELSE "error"
                 /\ legacyAfter(t, v).iBeacon = decodeIBeaconPayload(v)
<1>1. x.type = t /\ x.value = v
  OBVIOUS
<1>2. decodeIBeaconPayload(v) = None <=> ~(Len(v) >= 25)
  BY DecodesWhenLong
<1>3. Like(x) <=> t = manufDataType /\ looksLikeIBeacon(v)
  BY <1>1 DEF Like
<1>4. iBeaconAfter(adv, t, v) = IF Like(x) /\ Len(v) >= 25
                                THEN decodeIBeaconPayload(v) ELSE adv.iBeacon
  BY <1>2, <1>3 DEF iBeaconAfter
<1>5. /\ debugAfter(t, v).iBeacon = IF Like(x) /\ Len(v) >= 25
                                    THEN decodeIBeaconPayload(v) ELSE debug.iBeacon
      /\ debugAfter(t, v).err <=> debug.err \/ (Like(x) /\ ~(Len(v) >= 25))
      /\ debugAfter(t, v).err \in BOOLEAN
  BY <1>2, <1>3 DEF debugAfter
<1>6. legacy.st # "walk" \/ ~Like(x) => legacyAfter(t, v) = legacy
  BY <1>3 DEF legacyAfter
<1>7. legacy.st = "walk" /\ Like(x) =>
         /\ legacyAfter(t, v).st = IF Len(v) >= 25 THEN "found" ELSE "error"
         /\ legacyAfter(t, v).iBeacon = decodeIBeaconPayload(v)
  BY <1>2, <1>3 DEF legacyAfter
<1> QED
  BY <1>4, <1>5, <1>6, <1>7

\* One turn of the loop keeps the walks together.
LEMMA WalkRecord ==
    ASSUME Shape, WalkInv, Record
    PROVE  WalkInv'
<1> DEFINE t == buf[i + 2]
           v == RecordValue
           x == [type |-> t, value |-> v]
           s == adv.structures
           n == Len(s) + 1
<1>1. /\ x \in Structure /\ v \in Seq(Octets)
      /\ adv'.structures = Append(s, x)
      /\ adv'.iBeacon = iBeaconAfter(adv, t, v)
      /\ debug' = debugAfter(t, v)
      /\ legacy' = legacyAfter(t, v)
      /\ pc = "walk" /\ pc' = "walk"
  BY RecordStep, RecordShape
<1>2. s \in Seq(Structure) /\ x.value = v
  BY DEF Shape
<1>3. /\ adv'.iBeacon = IF Like(x) /\ Len(v) >= 25
                        THEN decodeIBeaconPayload(v) ELSE adv.iBeacon
      /\ debug'.iBeacon = IF Like(x) /\ Len(v) >= 25
                          THEN decodeIBeaconPayload(v) ELSE debug.iBeacon
      /\ debug'.err <=> debug.err \/ (Like(x) /\ ~(Len(v) >= 25))
      /\ debug'.err \in BOOLEAN
      /\ legacy.st # "walk" \/ ~Like(x) => legacy' = legacy
      /\ legacy.st = "walk" /\ Like(x) =>
            /\ legacy'.st = IF Len(v) >= 25 THEN "found" ELSE "error"
            /\ legacy'.iBeacon = decodeIBeaconPayload(v)
  BY <1>1, WalkFields
<1>4. decodeIBeaconPayload(v) = None <=> ~(Len(v) >= 25)
  BY <1>1, DecodesWhenLong
<1>5. /\ debug.err \in BOOLEAN
      /\ debug.iBeacon = adv.iBeacon
      /\ debug.err <=> LikesOf(s) # IBeaconsOf(s)
      /\ legacy.st = "walk" <=> LikesOf(s) = {}
      /\ LikesOf(s) = {} => legacy.iBeacon = None /\ adv.iBeacon = None
      /\ \A k : LikesOf(s) = {k} =>
            /\ legacy.iBeacon = adv.iBeacon
            /\ legacy.st = IF debug.err THEN "error" ELSE "found"
            /\ adv.iBeacon = None <=> debug.err
  BY <1>1 DEF WalkInv
<1>6. /\ LikesOf(Append(s, x)) = LikesOf(s) \cup {k \in {n} : Like(x)}
      /\ IBeaconsOf(Append(s, x)) =
            IBeaconsOf(s) \cup {k \in {n} : Like(x) /\ Len(v) >= 25}
      /\ IBeaconsOf(s) \subseteq LikesOf(s) /\ n \notin LikesOf(s)
  BY <1>1, <1>2, IndexSetsGrow
<1> DEFINE likes == LikesOf(s)
           ibs == IBeaconsOf(s)
           likes2 == LikesOf(adv'.structures)
           ibs2 == IBeaconsOf(adv'.structures)
           long == Len(v) >= 25
<1>7. /\ Like(x) => likes2 = likes \cup {n}
      /\ ~Like(x) => likes2 = likes
      /\ Like(x) /\ long => ibs2 = ibs \cup {n}
      /\ ~(Like(x) /\ long) => ibs2 = ibs
      /\ ibs \subseteq likes /\ n \notin likes
  BY <1>1, <1>6
<1> HIDE DEF t, v, x, s, n, likes2, ibs2, likes, ibs, long
<1>8. debug'.iBeacon = adv'.iBeacon
  BY <1>3, <1>5
<1>9. debug'.err <=> likes2 # ibs2
  <2>1. CASE ~Like(x)
    BY <1>3, <1>5, <1>7, <2>1 DEF likes, ibs
  <2>2. CASE Like(x) /\ long
    <3>1. likes # ibs => likes \cup {n} # ibs \cup {n}
      BY <1>7
    <3> QED
      BY <1>3, <1>5, <1>7, <2>2, <3>1 DEF likes, ibs, long
  <2>3. CASE Like(x) /\ ~long
    BY <1>3, <1>7, <2>3 DEF long
  <2> QED
    BY <2>1, <2>2, <2>3
<1>10. legacy'.st = "walk" <=> likes2 = {}
  <2>1. CASE ~Like(x)
    BY <1>3, <1>5, <1>7, <2>1 DEF likes
  <2>2. CASE Like(x) /\ legacy.st = "walk"
    BY <1>3, <1>7, <2>2
  <2>3. CASE Like(x) /\ legacy.st # "walk"
    BY <1>3, <1>7, <2>3
  <2> QED
    BY <2>1, <2>2, <2>3
<1>11. likes2 = {} => legacy'.iBeacon = None /\ adv'.iBeacon = None
  <2>1. likes2 = {} => ~Like(x) /\ likes = {}
    BY <1>7
  <2> QED
    BY <1>3, <1>5, <2>1 DEF likes
<1>12. ASSUME NEW k, likes2 = {k}
       PROVE  /\ legacy'.iBeacon = adv'.iBeacon
              /\ legacy'.st = IF debug'.err THEN "error" ELSE "found"
              /\ adv'.iBeacon = None <=> debug'.err
  <2>1. CASE ~Like(x)
    <3>1. likes = {k}
      BY <1>7, <1>12, <2>1
    <3>2. legacy' = legacy /\ adv'.iBeacon = adv.iBeacon /\ (debug'.err <=> debug.err)
      BY <1>3, <2>1
    <3> QED
      BY <1>5, <3>1, <3>2 DEF likes
  <2>2. CASE Like(x)
    <3>1. likes = {}
      BY <1>7, <1>12, <2>2
    <3>2. ibs = {} /\ legacy.st = "walk" /\ adv.iBeacon = None
      BY <1>5, <1>7, <3>1 DEF likes
    <3>3. ~debug.err
      BY <1>5, <3>1, <3>2 DEF likes, ibs
    <3>4. debug'.err <=> ~long
      BY <1>3, <2>2, <3>3 DEF long
    <3>5. /\ legacy'.st = IF long THEN "found" ELSE "error"
          /\ legacy'.iBeacon = decodeIBeaconPayload(v)
          /\ adv'.iBeacon = IF long THEN decodeIBeaconPayload(v) ELSE None
      BY <1>3, <2>2, <3>2 DEF long
    <3>6. decodeIBeaconPayload(v) = None <=> ~long
      BY <1>4 DEF long
    <3> QED
      BY <3>4, <3>5, <3>6
  <2> QED
    BY <2>1, <2>2
<1>13. likes2 = LikesOf(adv'.structures) /\ ibs2 = IBeaconsOf(adv'.structures)
  BY DEF likes2, ibs2
<1> QED
  BY <1>1, <1>3, <1>8, <1>9, <1>10, <1>11, <1>12, <1>13 DEF WalkInv

\* The other steps: an error is an error for all, and ParseAdvert ends with
\* "none" exactly when nothing looked like an iBeacon.
LEMMA WalkOther ==
    ASSUME Shape, WalkInv, DecodeHex \/ EndOfList \/ PastEnd \/ UNCHANGED vars
    PROVE  WalkInv'
<1> DEFINE s == adv.structures
<1>1. adv' = adv /\ debug'.iBeacon = debug.iBeacon /\ legacy'.iBeacon = legacy.iBeacon
  BY OtherSteps
<1>2. /\ debug.err \in BOOLEAN
      /\ debug.iBeacon = adv.iBeacon
      /\ pc = "failed" => debug.err
      /\ pc # "failed" => (debug.err <=> LikesOf(s) # IBeaconsOf(s))
      /\ pc \in {"start", "walk"} => (legacy.st = "walk" <=> LikesOf(s) = {})
      /\ LikesOf(s) = {} => /\ legacy.iBeacon = None /\ adv.iBeacon = None
                            /\ pc = "done" => legacy.st = "none"
      /\ pc # "failed" => \A k : LikesOf(s) = {k} =>
            /\ legacy.iBeacon = adv.iBeacon
            /\ legacy.st = IF debug.err THEN "error" ELSE "found"
            /\ adv.iBeacon = None <=> debug.err
  BY DEF WalkInv
<1>3. DOMAIN debug = {"records", "iBeacon", "err"} /\ DOMAIN legacy = {"st", "iBeacon"}
  BY DEF Shape
<1> DEFINE likes == LikesOf(s)
           ibs == IBeaconsOf(s)
<1> HIDE DEF s, likes, ibs
<1>4. likes = LikesOf(adv'.structures) /\ ibs = IBeaconsOf(adv'.structures)
  BY <1>1 DEF likes, ibs, s
<1>5. CASE pc' = "failed" /\ debug'.err = TRUE
  BY <1>1, <1>2, <1>4, <1>5 DEF WalkInv, likes, ibs
<1>6. CASE DecodeHex /\ buf # BadHex
  <2>1. pc = "start" /\ pc' = "walk" /\ legacy' = legacy /\ debug' = debug
    BY <1>6 DEF DecodeHex
  <2> QED
    BY <1>1, <1>2, <1>4, <2>1 DEF WalkInv, likes, ibs
<1>7. CASE EndOfList
  <2>1. /\ pc = "walk" /\ pc' = "done" /\ debug' = debug
        /\ legacy.st = "walk" => legacy'.st = "none"
        /\ legacy.st # "walk" => legacy' = legacy
    BY <1>3, <1>7 DEF EndOfList, legacyReturns
  <2>2. \A k : likes = {k} => legacy.st # "walk"
    BY <1>2, <2>1 DEF likes
  <2> QED
    BY <1>1, <1>2, <1>4, <2>1, <2>2 DEF WalkInv, likes, ibs
<1>8. CASE UNCHANGED vars
  BY <1>8, <1>2 DEF WalkInv, vars, s
<1>9. (DecodeHex /\ buf = BadHex) \/ PastEnd => pc' = "failed" /\ debug'.err = TRUE
  BY <1>3 DEF DecodeHex, PastEnd
<1> QED
  BY <1>5, <1>6, <1>7, <1>8, <1>9

\* Before the walk.
LEMMA WalkInit == Init => WalkInv
<1> SUFFICES ASSUME Init PROVE WalkInv
  OBVIOUS
<1>1. /\ adv.structures = <<>> /\ adv.iBeacon = None /\ pc = "start"
      /\ debug.iBeacon = None /\ debug.err = FALSE
      /\ legacy.st = "walk" /\ legacy.iBeacon = None
  BY DEF Init, NewAdvert
<1>2. LikesOf(<<>>) = {} /\ IBeaconsOf(<<>>) = {}
  BY DEF LikesOf, IBeaconsOf
<1> QED
  BY <1>1, <1>2 DEF WalkInv

\* A finite set of fewer than two elements is empty or a singleton.
LEMMA FewerThanTwo ==
    ASSUME NEW n \in Nat, NEW S \in SUBSET (1..n), Cardinality(S) < 2
    PROVE  S = {} \/ \E k : S = {k}
<1>0. IsFiniteSet(1..n)
  <2>1. 1 \in Int /\ n \in Int
    OBVIOUS
  <2> QED
    BY <2>1, FS_Interval
<1>1. IsFiniteSet(S)
  BY <1>0, FS_Subset
<1>2. Cardinality(S) \in Nat
  BY <1>1, FS_CardinalityType
<1>3. Cardinality(S) = 0 \/ Cardinality(S) = 1
  BY <1>2
<1>4. Cardinality(S) = 0 => S = {}
  BY <1>1, FS_EmptySet
<1>5. Cardinality(S) = 1 => \E k : S = {k}
  BY <1>1, FS_Singleton
<1> QED
  BY <1>3, <1>4, <1>5

\* The invariant of the three walks says what WalksAgree says.
LEMMA WalkInvAgree == Shape /\ WalkInv => WalksAgree
<1> SUFFICES ASSUME Shape, WalkInv PROVE WalksAgree
  OBVIOUS
<1> DEFINE s == adv.structures
           like == {k \in DOMAIN s : /\ s[k].type = manufDataType
                                     /\ looksLikeIBeacon(s[k].value)}
<1>1. like = LikesOf(s)
  BY DEF LikesOf, Like
<1>2. s \in Seq(Structure)
  BY DEF Shape
<1>3. like \in SUBSET (1..Len(s)) /\ Len(s) \in Nat
  BY <1>2, LenProperties
<1>a. /\ debug.err \in BOOLEAN
      /\ debug.iBeacon = adv.iBeacon
      /\ pc = "failed" => debug.err
      /\ pc # "failed" => (debug.err <=> LikesOf(s) # IBeaconsOf(s))
      /\ LikesOf(s) = {} => /\ legacy.iBeacon = None /\ adv.iBeacon = None
                            /\ pc = "done" => legacy.st = "none"
      /\ pc # "failed" => \A k : LikesOf(s) = {k} =>
            /\ legacy.iBeacon = adv.iBeacon
            /\ legacy.st = IF debug.err THEN "error" ELSE "found"
            /\ adv.iBeacon = None <=> debug.err
  BY DEF WalkInv
<1>b. IBeaconsOf(s) \subseteq like
  BY DEF IBeaconsOf
<1> HIDE DEF like, s
<1>4. ASSUME pc = "done", Cardinality(like) < 2
      PROVE  /\ legacy.iBeacon = adv.iBeacon
             /\ legacy.st = IF debug.err THEN "error"
                            ELSE IF adv.iBeacon = None THEN "none" ELSE "found"
  <2>1. like = {} \/ \E k : like = {k}
    BY <1>3, <1>4, FewerThanTwo
  <2>2. CASE like = {}
    <3>1. ~debug.err
      BY <1>1, <1>4, <1>a, <1>b, <2>2
    <3> QED
      BY <1>1, <1>4, <1>a, <2>2, <3>1
  <2>3. CASE \E k : like = {k}
    BY <1>1, <1>4, <1>a, <2>3
  <2> QED
    BY <2>1, <2>2, <2>3
<1>5. pc = "done" => (debug.err <=> like # IBeaconsOf(s))
  BY <1>1, <1>a
<1> QED
  BY <1>4, <1>5, <1>a DEF WalksAgree, like, s

\* Whatever the buffer, the packet page shows what ingest used and fails where
\* it failed, and the older parser differs only on several iBeacon records.
THEOREM WalksAlwaysAgree == Spec => []WalksAgree
<1>1. Init => Shape /\ WalkInv
  BY ShapeInit, WalkInit
<1>2. Shape /\ WalkInv /\ [Next]_vars => Shape' /\ WalkInv'
  BY ShapeStep, WalkRecord, WalkOther, Steps
<1> QED
  BY <1>1, <1>2, WalkInvAgree, PTL DEF Spec

-----------------------------------------------------------------------------
(* The identity.                                                           *)

Last(k, S) == k \in S /\ \A j \in S : j <= k
First(k, S) == k \in S /\ \A j \in S : k <= j

\* A last element is the maximum, a first one the minimum.
LEMMA LastIsMax ==
    ASSUME NEW S \in SUBSET Nat, NEW k, Last(k, S)
    PROVE  Max(S) = k
<1>1. k \in S /\ k \in Nat /\ \A y \in S : k >= y
  BY DEF Last
<1>2. Max(S) \in S /\ \A y \in S : Max(S) >= y
  BY <1>1 DEF Max
<1>3. Max(S) \in Nat /\ Max(S) >= k /\ k >= Max(S)
  BY <1>1, <1>2
<1> QED
  BY <1>1, <1>3

\* Likewise at the other end.
LEMMA FirstIsMin ==
    ASSUME NEW S \in SUBSET Nat, NEW k, First(k, S)
    PROVE  Min(S) = k
<1>1. k \in S /\ k \in Nat /\ \A y \in S : k <= y
  BY DEF First
<1>2. Min(S) \in S /\ \A y \in S : Min(S) <= y
  BY <1>1 DEF Min
<1>3. Min(S) \in Nat /\ Min(S) <= k /\ k <= Min(S)
  BY <1>1, <1>2
<1> QED
  BY <1>1, <1>3

\* The payload after the service's UUID.
Payload(v) == SubSeq(v, 3, Len(v))
FrameIn(v) == decodeEddystone(Payload(v))

\* A structure with an Eddystone frame that decodes.
HasFrame(x) == /\ x.type = adServiceData /\ IsEddystone(x.value)
               /\ FrameIn(x.value) # None

ShortsOf(s, last) ==
    {k \in NamesOf(s, adNameShort) : k > last /\ s[k].value # <<>>}

\* name is what NameOf answers, with the maximum and the minimum as witnesses.
NameFrom(s, name) ==
    \E last \in Nat :
        /\ Last(last, {0} \cup NamesOf(s, adNameComplete))
        /\ \/ last # 0 /\ s[last].value # <<>> /\ name = s[last].value
           \/ /\ last = 0 \/ s[last].value = <<>>
              /\ \/ ShortsOf(s, last) = {} /\ name = <<>>
                 \/ \E m : First(m, ShortsOf(s, last)) /\ name = s[m].value

IBeaconFrom(s, d) ==
    IF IBeaconsOf(s) = {} THEN d = None
    ELSE \E k : Last(k, IBeaconsOf(s)) /\ d = decodeIBeaconPayload(s[k].value)

FrameFrom(s, d) ==
    IF FramesOf(s) = {} THEN d = None
    ELSE \E k : Last(k, FramesOf(s)) /\ d = FrameIn(s[k].value)

\* The decoded advert follows from the structures listed so far.
IdInv ==
    /\ IBeaconFrom(adv.structures, adv.iBeacon)
    /\ FrameFrom(adv.structures, adv.eddystone)
    /\ NameFrom(adv.structures, adv.localName)

\* With one more structure, its index is the last of every set it joins.
LEMMA LastGrows ==
    ASSUME NEW n \in Nat, NEW S \in SUBSET (1..n)
    PROVE  Last(n + 1, S \cup {n + 1}) /\ n + 1 \notin S
BY DEF Last

\* Parse's iBeacon with one more structure.
LEMMA IBeaconGrows ==
    ASSUME NEW s \in Seq(Structure), NEW x \in Structure, NEW d, IBeaconFrom(s, d)
    PROVE  IBeaconFrom(Append(s, x), IF Like(x) /\ Len(x.value) >= 25
                                     THEN decodeIBeaconPayload(x.value) ELSE d)
<1> DEFINE n == Len(s)
           t == Append(s, x)
           S == IBeaconsOf(s)
<1>1. /\ n \in Nat /\ DOMAIN s = 1..n /\ t[n + 1] = x
      /\ \A k \in 1..n : t[k] = s[k]
  BY Appended
<1>2. /\ IBeaconsOf(t) = S \cup {k \in {n + 1} : Like(x) /\ Len(x.value) >= 25}
      /\ S \in SUBSET (1..n)
  BY IndexSetsGrow
<1>3. S = {} => d = None
  BY DEF IBeaconFrom
<1>4. S # {} => \E k : Last(k, S) /\ d = decodeIBeaconPayload(s[k].value)
  BY DEF IBeaconFrom
<1> HIDE DEF n, t, S
<1>5. CASE Like(x) /\ Len(x.value) >= 25
  <2>1. IBeaconsOf(t) = S \cup {n + 1}
    BY <1>2, <1>5
  <2>2. Last(n + 1, IBeaconsOf(t)) /\ IBeaconsOf(t) # {}
    BY <1>1, <1>2, <2>1, LastGrows
  <2>3. IBeaconFrom(t, decodeIBeaconPayload(x.value))
    BY <1>1, <2>2 DEF IBeaconFrom
  <2> QED
    BY <1>5, <2>3 DEF t
<1>6. CASE ~(Like(x) /\ Len(x.value) >= 25)
  <2>1. IBeaconsOf(t) = S
    BY <1>2, <1>6
  <2>2. CASE S = {}
    <3>1. IBeaconFrom(t, d)
      BY <1>3, <2>1, <2>2 DEF IBeaconFrom
    <3> QED
      BY <1>6, <3>1 DEF t
  <2>3. CASE S # {}
    <3>1. PICK k : Last(k, S) /\ d = decodeIBeaconPayload(s[k].value)
      BY <1>4, <2>3
    <3>2. t[k] = s[k]
      BY <1>1, <1>2, <3>1 DEF Last
    <3>3. IBeaconFrom(t, d)
      BY <2>1, <2>3, <3>1, <3>2 DEF IBeaconFrom
    <3> QED
      BY <1>6, <3>3 DEF t
  <2> QED
    BY <2>2, <2>3
<1> QED
  BY <1>5, <1>6

\* Parse's Eddystone frame with one more structure.
LEMMA FrameGrows ==
    ASSUME NEW s \in Seq(Structure), NEW x \in Structure, NEW d, FrameFrom(s, d)
    PROVE  FrameFrom(Append(s, x), IF HasFrame(x) THEN FrameIn(x.value) ELSE d)
<1> DEFINE n == Len(s)
           t == Append(s, x)
           S == FramesOf(s)
<1>1. /\ n \in Nat /\ DOMAIN s = 1..n /\ DOMAIN t = 1..(n + 1) /\ t[n + 1] = x
      /\ \A k \in 1..n : t[k] = s[k]
  BY Appended
<1>2. FramesOf(s) = {k \in DOMAIN s : HasFrame(s[k])}
      /\ FramesOf(t) = {k \in DOMAIN t : HasFrame(t[k])}
  BY DEF FramesOf, HasFrame, FrameIn, Payload
<1>3. S = {} => d = None
  BY DEF FrameFrom
<1>4. S # {} => \E k : Last(k, S) /\ d = FrameIn(s[k].value)
  BY DEF FrameFrom
<1>5. S = {k \in 1..n : HasFrame(s[k])} /\ S \in SUBSET (1..n)
  BY <1>1, <1>2
<1> HIDE DEF n, t, S
<1>6. 1..(n + 1) = 1..n \cup {n + 1}
  BY <1>1
<1>7. FramesOf(t) = S \cup {k \in {n + 1} : HasFrame(x)}
  BY <1>1, <1>2, <1>5, <1>6
<1>8. CASE HasFrame(x)
  <2>1. FramesOf(t) = S \cup {n + 1}
    BY <1>7, <1>8
  <2>a. n \in Nat /\ S \in SUBSET (1..n)
    BY <1>1, <1>5
  <2>2. Last(n + 1, FramesOf(t)) /\ FramesOf(t) # {}
    BY <2>1, <2>a, LastGrows
  <2>3. FrameFrom(t, FrameIn(x.value))
    BY <1>1, <2>2 DEF FrameFrom
  <2> QED
    BY <1>8, <2>3 DEF t
<1>9. CASE ~HasFrame(x)
  <2>1. FramesOf(t) = S
    BY <1>7, <1>9
  <2>2. CASE S = {}
    <3>1. FrameFrom(t, d)
      BY <1>3, <2>1, <2>2 DEF FrameFrom
    <3> QED
      BY <1>9, <3>1 DEF t
  <2>3. CASE S # {}
    <3>1. PICK k : Last(k, S) /\ d = FrameIn(s[k].value)
      BY <1>4, <2>3
    <3>2. t[k] = s[k]
      BY <1>1, <1>5, <3>1 DEF Last
    <3>3. FrameFrom(t, d)
      BY <2>1, <2>3, <3>1, <3>2 DEF FrameFrom
    <3> QED
      BY <1>9, <3>3 DEF t
  <2> QED
    BY <2>2, <2>3
<1> QED
  BY <1>8, <1>9

\* Where the names are, with one more structure.
LEMMA NamesGrow ==
    ASSUME NEW s \in Seq(Structure), NEW x \in Structure, NEW last \in 0..Len(s)
    PROVE  LET n == Len(s) + 1
               t == Append(s, x)
           IN  /\ NamesOf(t, adNameComplete) =
                     NamesOf(s, adNameComplete) \cup {k \in {n} : x.type = adNameComplete}
               /\ ShortsOf(t, last) = ShortsOf(s, last)
                     \cup {k \in {n} : x.type = adNameShort /\ x.value # <<>>}
               /\ ShortsOf(t, n) = {}
               /\ NamesOf(s, adNameComplete) \subseteq 1..Len(s)
               /\ ShortsOf(s, last) \subseteq 1..Len(s)
<1> DEFINE n == Len(s)
           t == Append(s, x)
<1>1. /\ n \in Nat /\ DOMAIN s = 1..n /\ DOMAIN t = 1..(n + 1) /\ t[n + 1] = x
      /\ \A k \in 1..n : t[k] = s[k]
  BY Appended
<1>a. last \in 0..n
  OBVIOUS
<1> HIDE DEF n, t
<1>2. 1..(n + 1) = 1..n \cup {n + 1} /\ n + 1 > last /\ \A k \in 1..(n + 1) : ~(k > n + 1)
  BY <1>1, <1>a
<1>3. NamesOf(t, adNameComplete) =
         NamesOf(s, adNameComplete) \cup {k \in {n + 1} : x.type = adNameComplete}
  BY <1>1, <1>2 DEF NamesOf
<1>4. /\ ShortsOf(t, last) = {k \in 1..(n + 1) : /\ t[k].type = adNameShort
                                                 /\ k > last /\ t[k].value # <<>>}
      /\ ShortsOf(s, last) = {k \in 1..n : /\ s[k].type = adNameShort
                                           /\ k > last /\ s[k].value # <<>>}
      /\ ShortsOf(t, n + 1) = {}
  BY <1>1, <1>2 DEF ShortsOf, NamesOf
<1>5. ShortsOf(t, last) = ShortsOf(s, last)
         \cup {k \in {n + 1} : x.type = adNameShort /\ x.value # <<>>}
  BY <1>1, <1>2, <1>4
<1>6. NamesOf(s, adNameComplete) \subseteq 1..n /\ ShortsOf(s, last) \subseteq 1..n
  BY <1>1, <1>4 DEF NamesOf
<1> QED
  BY <1>3, <1>4, <1>5, <1>6 DEF n, t

\* Parse's local name with one more structure.
LEMMA NameGrows ==
    ASSUME NEW s \in Seq(Structure), NEW x \in Structure, NEW name, NameFrom(s, name)
    PROVE  NameFrom(Append(s, x),
                    IF x.type = adNameComplete \/ (x.type = adNameShort /\ name = <<>>)
                    THEN x.value ELSE name)
<1> DEFINE n == Len(s)
           t == Append(s, x)
           complete == NamesOf(s, adNameComplete)
<1>1. /\ n \in Nat /\ DOMAIN s = 1..n /\ t[n + 1] = x
      /\ \A k \in 1..n : t[k] = s[k]
  BY Appended
<1>2. PICK last \in Nat :
         /\ Last(last, {0} \cup complete)
         /\ \/ last # 0 /\ s[last].value # <<>> /\ name = s[last].value
            \/ /\ last = 0 \/ s[last].value = <<>>
               /\ \/ ShortsOf(s, last) = {} /\ name = <<>>
                  \/ \E m : First(m, ShortsOf(s, last)) /\ name = s[m].value
  BY DEF NameFrom
<1>a. complete \subseteq 1..n
  BY <1>1 DEF NamesOf
<1>b. last \in 0..n
  BY <1>1, <1>2, <1>a DEF Last
<1> DEFINE shorts == ShortsOf(s, last)
<1>3. /\ NamesOf(t, adNameComplete) = complete \cup {k \in {n + 1} : x.type = adNameComplete}
      /\ ShortsOf(t, last) = shorts
            \cup {k \in {n + 1} : x.type = adNameShort /\ x.value # <<>>}
      /\ ShortsOf(t, n + 1) = {}
      /\ shorts \subseteq 1..n
  BY <1>b, NamesGrow
<1> HIDE DEF n, t, complete, shorts
<1>4. CASE x.type = adNameComplete
  <2>1. {0} \cup NamesOf(t, adNameComplete) = ({0} \cup complete) \cup {n + 1}
    BY <1>3, <1>4
  <2>2. n + 1 \in Nat /\ n + 1 # 0 /\ Last(n + 1, {0} \cup NamesOf(t, adNameComplete))
    BY <1>1, <1>a, <2>1 DEF Last
  <2>3. NameFrom(t, x.value)
    BY <1>1, <1>3, <2>2 DEF NameFrom
  <2> QED
    BY <1>4, <2>3 DEF t
<1>5. CASE x.type # adNameComplete
  <2>1. NamesOf(t, adNameComplete) = complete
    BY <1>3, <1>5
  <2>2. last # 0 => t[last] = s[last]
    BY <1>1, <1>b
  <2>3. Last(last, {0} \cup NamesOf(t, adNameComplete))
    BY <1>2, <2>1
  <2>4. CASE last # 0 /\ s[last].value # <<>> /\ name = s[last].value
    <3>1. NameFrom(t, name)
      BY <2>2, <2>3, <2>4 DEF NameFrom
    <3> QED
      BY <1>5, <2>4, <3>1 DEF t
  <2>5. CASE /\ last = 0 \/ s[last].value = <<>>
             /\ shorts = {} /\ name = <<>>
    <3>1. last = 0 \/ t[last].value = <<>>
      BY <2>2, <2>5
    <3>2. CASE x.type = adNameShort /\ x.value # <<>>
      <4>1. ShortsOf(t, last) = {n + 1}
        BY <1>3, <2>5, <3>2
      <4>2. First(n + 1, ShortsOf(t, last))
        BY <1>1, <4>1 DEF First
      <4>3. NameFrom(t, x.value)
        BY <1>1, <2>3, <3>1, <4>2 DEF NameFrom
      <4> QED
        BY <2>5, <3>2, <4>3 DEF t
    <3>3. CASE ~(x.type = adNameShort /\ x.value # <<>>)
      <4>1. ShortsOf(t, last) = {}
        BY <1>3, <2>5, <3>3
      <4>2. NameFrom(t, <<>>)
        BY <2>3, <3>1, <4>1 DEF NameFrom
      <4> QED
        BY <1>5, <2>5, <3>3, <4>2 DEF t
    <3> QED
      BY <3>2, <3>3
  <2>6. CASE /\ last = 0 \/ s[last].value = <<>>
             /\ \E m : First(m, shorts) /\ name = s[m].value
    <3>1. last = 0 \/ t[last].value = <<>>
      BY <2>2, <2>6
    <3>2. PICK m : First(m, shorts) /\ name = s[m].value
      BY <2>6
    <3>3. m \in shorts /\ m \in 1..n
      BY <1>3, <3>2 DEF First
    <3>4. t[m] = s[m] /\ name # <<>>
      BY <1>1, <3>2, <3>3 DEF shorts, ShortsOf
    <3>5. First(m, ShortsOf(t, last))
      <4>1. ShortsOf(t, last) \subseteq shorts \cup {n + 1} /\ m \in ShortsOf(t, last)
        BY <1>3, <3>3
      <4>2. \A j \in shorts \cup {n + 1} : m <= j
        BY <1>1, <3>2, <3>3 DEF First
      <4> QED
        BY <4>1, <4>2 DEF First
    <3>6. NameFrom(t, name)
      BY <2>3, <3>1, <3>2, <3>4, <3>5 DEF NameFrom
    <3> QED
      BY <1>5, <3>4, <3>6 DEF t
  <2> QED
    BY <1>2, <2>4, <2>5, <2>6 DEF shorts
<1> QED
  BY <1>4, <1>5

\* One turn of the loop keeps the decoded advert and the structures together.
LEMMA IdStep == Shape /\ IdInv /\ [Next]_vars => IdInv'
<1> SUFFICES ASSUME Shape, IdInv, [Next]_vars PROVE IdInv'
  OBVIOUS
<1>1. CASE Record
  <2> DEFINE t == buf[i + 2]
             v == RecordValue
             x == [type |-> t, value |-> v]
             s == adv.structures
  <2>1. /\ x \in Structure /\ v \in Seq(Octets)
        /\ adv'.structures = Append(s, x)
        /\ adv'.iBeacon = iBeaconAfter(adv, t, v)
        /\ adv'.eddystone = eddystoneAfter(adv, t, v)
        /\ adv'.localName = localNameAfter(adv, t, v)
    BY <1>1, RecordStep, RecordShape
  <2>2. s \in Seq(Structure) /\ x.value = v /\ x.type = t
    BY DEF Shape
  <2>3. /\ IBeaconFrom(s, adv.iBeacon) /\ FrameFrom(s, adv.eddystone)
        /\ NameFrom(s, adv.localName)
    BY DEF IdInv
  <2> HIDE DEF t, v, x, s
  <2>4. adv'.iBeacon = IF Like(x) /\ Len(x.value) >= 25
                       THEN decodeIBeaconPayload(x.value) ELSE adv.iBeacon
    <3>1. decodeIBeaconPayload(v) = None <=> ~(Len(v) >= 25)
      BY <2>1, DecodesWhenLong
    <3> QED
      BY <2>1, <2>2, <3>1 DEF iBeaconAfter, Like
  <2>5. adv'.eddystone = IF HasFrame(x) THEN FrameIn(x.value) ELSE adv.eddystone
    BY <2>1, <2>2 DEF eddystoneAfter, HasFrame, FrameIn, Payload
  <2>6. adv'.localName =
           IF x.type = adNameComplete \/ (x.type = adNameShort /\ adv.localName = <<>>)
           THEN x.value ELSE adv.localName
    BY <2>1, <2>2 DEF localNameAfter
  <2>7. IBeaconFrom(adv'.structures, adv'.iBeacon)
    BY <2>1, <2>2, <2>3, <2>4, IBeaconGrows
  <2>8. FrameFrom(adv'.structures, adv'.eddystone)
    BY <2>1, <2>2, <2>3, <2>5, FrameGrows
  <2>9. NameFrom(adv'.structures, adv'.localName)
    BY <2>1, <2>2, <2>3, <2>6, NameGrows
  <2> QED
    BY <2>7, <2>8, <2>9 DEF IdInv
<1>2. CASE DecodeHex \/ EndOfList \/ PastEnd \/ UNCHANGED vars
  <2>1. adv' = adv
    BY <1>2, OtherSteps
  <2> QED
    BY <2>1 DEF IdInv
<1> QED
  BY <1>1, <1>2, Steps

\* An empty advert decodes to nothing.
LEMMA IdInit == Init => IdInv
<1> SUFFICES ASSUME Init PROVE IdInv
  OBVIOUS
<1>1. /\ adv.structures = <<>> /\ adv.iBeacon = None /\ adv.eddystone = None
      /\ adv.localName = <<>>
  BY DEF Init, NewAdvert
<1>2. IBeaconsOf(<<>>) = {} /\ FramesOf(<<>>) = {} /\ \A t : NamesOf(<<>>, t) = {}
  BY DEF IBeaconsOf, FramesOf, NamesOf
<1>3. Last(0, {0} \cup NamesOf(<<>>, adNameComplete)) /\ ShortsOf(<<>>, 0) = {}
  BY <1>2 DEF Last, ShortsOf
<1> QED
  BY <1>1, <1>2, <1>3 DEF IdInv, IBeaconFrom, FrameFrom, NameFrom

\* A part of the payload is a part of the value, two octets further on.
LEMMA PayloadPart ==
    ASSUME NEW v \in Seq(Octets), Len(v) >= 2, NEW c \in Nat \ {0},
           NEW d \in Int, d <= Len(v) - 2
    PROVE  SubSeq(Payload(v), c, d) = SubSeq(v, c + 2, d + 2)
<1> DEFINE p == Payload(v)
           m == Len(v)
<1>1. m \in Nat /\ m >= 2 /\ d <= m - 2
  BY LenProperties
<1>a. p = SubSeq(v, 3, m) /\ \A k \in 1..m : v[k] \in Octets
  BY ElementOfSeq DEF Payload
<1> HIDE DEF p, m
<1>2. \A k \in 1..(m - 2) : p[k] = v[k + 2]
  <2>1. \A k \in 3..m : v[k] \in Octets
    BY <1>1, <1>a
  <2>2. \A k \in 1..(m - 3 + 1) : p[k] = v[3 + k - 1]
    BY <1>1, <1>a, <2>1, SubSeqProperties
  <2>3. \A k \in 1..(m - 2) : k \in 1..(m - 3 + 1) /\ 3 + k - 1 = k + 2
    BY <1>1
  <2> QED
    BY <2>2, <2>3
<1> DEFINE lhs == SubSeq(p, c, d)
           rhs == SubSeq(v, c + 2, d + 2)
           len == IF c <= d THEN d - c + 1 ELSE 0
<1>3. /\ lhs \in Seq(Octets) /\ Len(lhs) = len
      /\ \A k \in 1..(d - c + 1) : lhs[k] = p[c + k - 1]
  <2>1. \A k \in c..d : k \in 1..(m - 2) /\ k + 2 \in 1..m
    BY <1>1
  <2>2. \A k \in c..d : p[k] \in Octets
    BY <1>2, <1>a, <2>1
  <2> QED
    BY <2>2, SubSeqProperties
<1>4. /\ rhs \in Seq(Octets) /\ Len(rhs) = len
      /\ \A k \in 1..(d - c + 1) : rhs[k] = v[c + 2 + k - 1]
  <2>1. \A k \in (c + 2)..(d + 2) : k \in 1..m
    BY <1>1
  <2>2. \A k \in (c + 2)..(d + 2) : v[k] \in Octets
    BY <1>a, <2>1
  <2>3. c + 2 \in Int /\ d + 2 \in Int
        /\ (d + 2) - (c + 2) + 1 = d - c + 1 /\ (c + 2 <= d + 2 <=> c <= d)
    OBVIOUS
  <2>4. /\ rhs \in Seq(Octets)
        /\ Len(rhs) = IF c + 2 <= d + 2 THEN (d + 2) - (c + 2) + 1 ELSE 0
        /\ \A k \in 1..((d + 2) - (c + 2) + 1) : rhs[k] = v[c + 2 + k - 1]
    BY <2>2, <2>3, SubSeqProperties
  <2> QED
    BY <2>3, <2>4
<1>5. ASSUME NEW k \in 1..len PROVE lhs[k] = rhs[k]
  <2>1. /\ k \in 1..(d - c + 1) /\ c + k - 1 \in 1..(m - 2)
        /\ (c + k - 1) + 2 = c + 2 + k - 1
    BY <1>1
  <2>2. lhs[k] = p[c + k - 1] /\ rhs[k] = v[c + 2 + k - 1]
    BY <1>3, <1>4, <2>1
  <2>3. p[c + k - 1] = v[(c + k - 1) + 2]
    BY <1>2, <2>1
  <2> QED
    BY <2>1, <2>2, <2>3
<1> HIDE DEF lhs, rhs, len
<1>6. lhs = rhs
  BY <1>3, <1>4, <1>5, SeqEqual
<1> QED
  BY <1>6 DEF lhs, rhs, p

\* A frame that decodes, in terms of the record's own octets.
LEMMA FrameOctets ==
    ASSUME NEW v \in Seq(Octets), IsEddystone(v), FrameIn(v) # None
    PROVE  /\ FrameIn(v).frame = v[3]
           /\ v[3] = 0 => FrameIn(v).id = SubSeq(v, 5, 20)
           /\ v[3] = 16 => FrameIn(v).id = decodeEddystoneURL(v[5], SubSeq(v, 6, Len(v)))
<1> DEFINE p == Payload(v)
           m == Len(v)
           f == FrameIn(v)
<1>1. m \in Nat /\ m >= 2
  BY LenProperties DEF IsEddystone
<1>2. \A k \in 1..m : v[k] \in Octets
  BY ElementOfSeq
<1>3. Len(p) = m - 2 /\ \A k \in 1..(m - 2) : p[k] = v[k + 2]
  <2>1. \A k \in 3..m : v[k] \in Octets
    BY <1>1, <1>2
  <2>2. /\ Len(p) = IF 3 <= m THEN m - 3 + 1 ELSE 0
        /\ \A k \in 1..(m - 3 + 1) : p[k] = v[3 + k - 1]
    BY <1>1, <2>1, SubSeqProperties DEF Payload
  <2>3. \A k \in 1..(m - 2) : k \in 1..(m - 3 + 1) /\ 3 + k - 1 = k + 2
    BY <1>1
  <2>4. \A a \in Nat : a >= 2 => (IF 3 <= a THEN a - 3 + 1 ELSE 0) = a - 2
    OBVIOUS
  <2>5. Len(p) = m - 2
    BY <1>1, <2>2, <2>4
  <2> QED
    BY <2>2, <2>3, <2>5
<1>4. \A c \in Nat \ {0} : \A d \in Int : d <= m - 2 => SubSeq(p, c, d) = SubSeq(v, c + 2, d + 2)
  BY <1>1, PayloadPart
<1>5. f = decodeEddystone(p) /\ f # None
  BY DEF FrameIn
<1> HIDE DEF p, m, f
<1>6. Len(p) >= 1 /\ p[1] = v[3] /\ Len(p) \in Nat
  <2>1. Len(p) \in Nat
    BY <1>1, <1>3
  <2>2. Len(p) >= 1
    BY <1>5, <2>1 DEF decodeEddystone
  <2>3. 1 \in 1..(m - 2)
    BY <1>1, <1>3, <2>1, <2>2
  <2> QED
    BY <1>3, <2>1, <2>2, <2>3
<1>7. CASE p[1] = 0
  <2>1. ~(Len(p) < 18) /\ f = [frame |-> 0, id |-> SubSeq(p, 3, 18)]
    BY <1>5, <1>6, <1>7 DEF decodeEddystone
  <2>2. 18 <= m - 2
    BY <1>1, <1>3, <2>1, SMTT(30)
  <2>3. ASSUME NEW c \in Nat \ {0}, NEW d \in Int, c = 3, d = 18
        PROVE  SubSeq(p, c, d) = SubSeq(v, 5, 20)
    <3>1. d <= m - 2 /\ c + 2 = 5 /\ d + 2 = 20
      BY <2>2, <2>3
    <3>2. SubSeq(p, c, d) = SubSeq(v, c + 2, d + 2)
      BY <1>4, <3>1
    <3> QED
      BY <3>1, <3>2
  <2>4. SubSeq(p, 3, 18) = SubSeq(v, 5, 20)
    BY <2>3
  <2> QED
    BY <1>6, <1>7, <2>1, <2>4 DEF f
<1>8. CASE p[1] = 16
  <2>1. ~(Len(p) < 3)
        /\ f = [frame |-> 16, id |-> decodeEddystoneURL(p[3], SubSeq(p, 4, Len(p)))]
    BY <1>5, <1>6, <1>8 DEF decodeEddystone
  <2>2. 3 \in 1..(m - 2) /\ m - 2 \in Int /\ m - 2 <= m - 2
    BY <1>1, <1>3, <2>1
  <2>3. SubSeq(p, 4, m - 2) = SubSeq(v, 4 + 2, (m - 2) + 2) /\ p[3] = v[3 + 2]
    BY <1>3, <1>4, <2>2
  <2>4. 3 + 2 = 5 /\ 4 + 2 = 6 /\ (m - 2) + 2 = m
    BY <1>1
  <2>5. p[3] = v[5] /\ SubSeq(p, 4, Len(p)) = SubSeq(v, 6, m)
    BY <1>3, <2>3, <2>4
  <2>6. f.frame = 16 /\ f.id = decodeEddystoneURL(v[5], SubSeq(v, 6, m))
    BY <2>1, <2>5
  <2> QED
    BY <1>6, <1>8, <2>6 DEF f, m
<1>9. CASE p[1] = 32
  <2>1. f.frame = 32
    BY <1>5, <1>6, <1>9 DEF decodeEddystone
  <2> QED
    BY <1>6, <1>9, <2>1 DEF f
<1>10. CASE p[1] \notin {0, 16, 32}
  <2>1. f = [frame |-> p[1], id |-> None]
    BY <1>6, <1>5, <1>10 DEF decodeEddystone
  <2> QED
    BY <1>6, <1>10, <2>1 DEF f
<1> QED
  BY <1>7, <1>8, <1>9, <1>10

\* The name Parse holds is NameOf the structures.
LEMMA NameIsNameOf ==
    ASSUME NEW s \in Seq(Structure), NEW name, NameFrom(s, name)
    PROVE  name = NameOf(s)
<1> DEFINE all == {0} \cup NamesOf(s, adNameComplete)
<1>1. DOMAIN s = 1..Len(s) /\ Len(s) \in Nat
  BY LenProperties
<1>2. PICK last \in Nat :
         /\ Last(last, all)
         /\ \/ last # 0 /\ s[last].value # <<>> /\ name = s[last].value
            \/ /\ last = 0 \/ s[last].value = <<>>
               /\ \/ ShortsOf(s, last) = {} /\ name = <<>>
                  \/ \E m : First(m, ShortsOf(s, last)) /\ name = s[m].value
  BY DEF NameFrom
<1>3. all \in SUBSET Nat
  BY <1>1 DEF NamesOf
<1> HIDE DEF all
<1>4. Max(all) = last
  BY <1>2, <1>3, LastIsMax
<1>5. NameOf(s) = IF last # 0 /\ s[last].value # <<>> THEN s[last].value
                  ELSE IF ShortsOf(s, last) = {} THEN <<>>
                  ELSE s[Min(ShortsOf(s, last))].value
  BY <1>4 DEF NameOf, ShortsOf, all
<1>6. ASSUME NEW m, First(m, ShortsOf(s, last))
      PROVE  Min(ShortsOf(s, last)) = m /\ ShortsOf(s, last) # {}
  <2>1. ShortsOf(s, last) \in SUBSET Nat
    BY <1>1 DEF ShortsOf, NamesOf
  <2> QED
    BY <1>6, <2>1, FirstIsMin DEF First
<1> QED
  BY <1>2, <1>5, <1>6

\* The decoded advert is the one IdentityOfPacket reads off the structures.
LEMMA IdInvIdentity == Shape /\ IdInv => IdentityOfPacket
<1> SUFFICES ASSUME Shape, IdInv PROVE IdentityOfPacket
  OBVIOUS
<1> DEFINE s == adv.structures
           ibs == IBeaconsOf(s)
           eds == FramesOf(s)
           v == s[Max(eds)].value
           address == decodeEddystoneURL(v[5], SubSeq(v, 6, Len(v)))
           url == TrimSpace(address)
           name == NameOf(s)
           answer == Identify(adv)
<1>1. s \in Seq(Structure) /\ DOMAIN s = 1..Len(s) /\ Len(s) \in Nat
  BY LenProperties DEF Shape
<1>2. \A k \in 1..Len(s) : s[k].value \in Seq(Octets)
  <2>1. \A k \in 1..Len(s) : s[k] \in Structure
    BY <1>1, ElementOfSeq
  <2> QED
    BY <2>1 DEF Structure
<1>3. ibs \in SUBSET (1..Len(s)) /\ eds \in SUBSET (1..Len(s))
      /\ ibs \in SUBSET Nat /\ eds \in SUBSET Nat
  BY <1>1 DEF IBeaconsOf, FramesOf
<1>4. adv.localName = name
  BY <1>1, NameIsNameOf DEF IdInv
<1>5. ibs = {} => adv.iBeacon = None
  BY DEF IdInv, IBeaconFrom
<1>6. ASSUME ibs # {}
      PROVE  adv.iBeacon # None /\ adv.iBeacon.key = SubSeq(s[Max(ibs)].value, 5, 24)
  <2>1. PICK k : Last(k, ibs) /\ adv.iBeacon = decodeIBeaconPayload(s[k].value)
    BY <1>6 DEF IdInv, IBeaconFrom
  <2>2. Max(ibs) = k
    BY <1>3, <2>1, LastIsMax
  <2>3. k \in ibs /\ s[k].value \in Seq(Octets)
    BY <1>2, <1>3, <2>1 DEF Last
  <2>4. Len(s[k].value) >= 25 /\ Len(s[k].value) \in Nat
    BY <2>3, LenProperties DEF IBeaconsOf
  <2>5. adv.iBeacon # None
    BY <2>1, <2>3, <2>4, DecodesWhenLong
  <2>6. adv.iBeacon = [key |-> SubSeq(s[k].value, 5, 24), txPower |-> s[k].value[25]]
    BY <2>1, <2>4 DEF decodeIBeaconPayload
  <2>7. ASSUME NEW x, NEW y, adv.iBeacon = [key |-> x, txPower |-> y]
        PROVE  adv.iBeacon.key = x
    BY <2>7
  <2>8. adv.iBeacon.key = SubSeq(s[k].value, 5, 24)
    BY <2>6, <2>7, Zenon
  <2> QED
    BY <2>2, <2>5, <2>8, Zenon
<1>7. eds = {} => adv.eddystone = None
  BY DEF IdInv, FrameFrom
<1>8. ASSUME eds # {}
      PROVE  /\ adv.eddystone # None /\ adv.eddystone.frame = v[3]
             /\ v[3] = 0 => adv.eddystone.id = SubSeq(v, 5, 20)
             /\ v[3] = 16 => adv.eddystone.id = address
  <2>1. PICK k : Last(k, eds) /\ adv.eddystone = FrameIn(s[k].value)
    BY <1>8 DEF IdInv, FrameFrom
  <2>2. Max(eds) = k
    BY <1>3, <2>1, LastIsMax
  <2>3. k \in eds /\ v \in Seq(Octets) /\ v = s[k].value
    BY <1>2, <1>3, <2>1, <2>2 DEF Last
  <2>4. IsEddystone(v) /\ FrameIn(v) # None
    BY <2>3 DEF FramesOf, FrameIn, Payload
  <2> HIDE DEF v
  <2> QED
    BY <2>1, <2>3, <2>4, FrameOctets
<1> HIDE DEF s, ibs, eds, v, address, name
<1>9. CASE ibs # {}
  <2>1. answer = <<"ibeacon", SubSeq(s[Max(ibs)].value, 5, 24)>>
    BY <1>6, <1>9 DEF Identify
  <2> QED
    BY <1>9, <2>1 DEF IdentityOfPacket, s, ibs
<1>10. CASE ibs = {}
  <2>0. adv.iBeacon = None
    BY <1>5, <1>10
  <2>1. CASE eds # {} /\ v[3] = 0
    <3>1. answer = <<"eddystone_uid", SubSeq(v, 5, 20)>>
      BY <1>8, <2>0, <2>1 DEF Identify
    <3> QED
      BY <1>10, <2>1, <3>1 DEF IdentityOfPacket, s, ibs, eds, v
  <2>2. CASE eds # {} /\ v[3] = 16 /\ url # <<>>
    <3>1. answer = NewEddystoneURLKey(address, NewNameKey(adv.localName))
      BY <1>8, <2>0, <2>2 DEF Identify
    <3>2. answer = <<"eddystone_url", ToLower(url)>>
      BY <2>2, <3>1 DEF NewEddystoneURLKey
    <3>3. ~(v[3] = 0)
      BY <2>2
    <3> QED
      BY <1>10, <2>2, <3>2, <3>3 DEF IdentityOfPacket, s, ibs, eds, v, address
  <2>3. CASE ~(eds # {} /\ v[3] = 0) /\ ~(eds # {} /\ v[3] = 16 /\ url # <<>>)
    <3>1. answer = NewNameKey(name)
      <4>1. CASE eds = {}
        BY <1>4, <1>7, <2>0, <4>1 DEF Identify
      <4>2. CASE eds # {} /\ v[3] # 16
        BY <1>4, <1>8, <2>0, <2>3, <4>2 DEF Identify
      <4>3. CASE eds # {} /\ v[3] = 16
        <5>1. answer = NewEddystoneURLKey(address, NewNameKey(adv.localName))
          BY <1>8, <2>0, <4>3 DEF Identify
        <5>2. url = <<>>
          BY <2>3, <4>3
        <5> QED
          BY <1>4, <5>1, <5>2 DEF NewEddystoneURLKey
      <4> QED
        BY <4>1, <4>2, <4>3
    <3>2. answer = IF TrimSpace(name) # <<>> THEN <<"name", TrimSpace(name)>> ELSE Anonymous
      BY <3>1 DEF NewNameKey
    <3> QED
      BY <1>10, <2>3, <3>2 DEF IdentityOfPacket, s, ibs, eds, v, address, name
  <2> QED
    BY <2>1, <2>2, <2>3
<1> QED
  BY <1>9, <1>10

\* Whatever surrounds it, the packet's last complete iBeacon is its identity,
\* then its last decodable Eddystone UID or URL, then its name.
THEOREM IdentityIsThePackets == Spec => []IdentityOfPacket
<1>1. Init => Shape /\ IdInv
  BY ShapeInit, IdInit
<1>2. Shape /\ IdInv /\ [Next]_vars => Shape' /\ IdInv'
  BY ShapeStep, IdStep
<1> QED
  BY <1>1, <1>2, IdInvIdentity, PTL DEF Spec

=============================================================================
