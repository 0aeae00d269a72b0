---------------------------- MODULE AdvertParser ----------------------------
(***************************************************************************)
(* internal/parser: the walk over a BLE advertisement's (length, type,     *)
(* value) records and the identity derived from it.  One step is one turn  *)
(* of the loop.  The code has three copies of that loop, Parse (ingest),   *)
(* ParseAdvertDebug (the admin packet page) and the older ParseAdvert; they*)
(* read the same buffer here, side by side, so that what they say of it    *)
(* can be compared.                                                        *)
(*                                                                         *)
(* Abstractions.  A buffer is a sequence of octets, BadHex a string that is*)
(* not hex.  Hex, UUID and key formatting is injective and left out: a key *)
(* is its kind and the octets it is made from.  An Eddystone URL is the    *)
(* sequence of its symbols, an expansion such as ".com/" being one symbol. *)
(* AD structures no one reads the meaning of (flags, service lists) are    *)
(* only recorded, and labels are wording.                                  *)
(***************************************************************************)
EXTENDS Integers, Sequences, FiniteSetsExt

CONSTANTS Buffers,      \* adverts to parse
          BadHex,       \* a data field that is not a hex string
          None          \* nil

VARIABLES buf,          \* the advert
          i,            \* offset of the next record
          pc,           \* "start", "walk", "done" or "failed" (an error was returned)
          adv,          \* Parse's Advert
          debug,        \* ParseAdvertDebug's DebugWalk
          legacy        \* ParseAdvert: st is "walk", "none", "error" or "found"

vars == <<buf, i, pc, adv, debug, legacy>>

Octets == 0..255

ASSUME BuffersAssumption == Buffers \subseteq Seq(Octets) /\ BadHex \notin Buffers

\* nil is no decoded iBeacon.
ASSUME NoneAssumption == None \notin [key : Seq(Octets), txPower : Octets]

adNameShort == 8
adNameComplete == 9
adTxPower == 10
adServiceData == 22
manufDataType == 255

-----------------------------------------------------------------------------
(* Decoders of one record's value.                                         *)

\* Apple's company id, then iBeaconType and iBeaconLength.
looksLikeIBeacon(v) == Len(v) >= 4 /\ SubSeq(v, 1, 4) = <<76, 0, 2, 21>>

\* UUID, major and minor, and the calibrated power; None when the payload is
\* shorter than its layout.  A longer one is taken, and its excess ignored.
decodeIBeaconPayload(v) ==
    IF Len(v) < 25 THEN None ELSE [key |-> SubSeq(v, 5, 24), txPower |-> v[25]]

SchemeCount == 4
ExpansionCount == 14
Printable == 32..126

\* The symbols of a URL; a scheme and an expansion count as one symbol each,
\* outside Octets, and an octet that is neither an expansion nor printable
\* vanishes.
decodeEddystoneURL(scheme, encoded) ==
    LET kept == SelectSeq(encoded, LAMBDA c : c < ExpansionCount \/ c \in Printable)
    IN  (IF scheme < SchemeCount THEN <<256 + scheme>> ELSE <<>>)
        \o [k \in DOMAIN kept |-> IF kept[k] < ExpansionCount
                                  THEN 256 + SchemeCount + kept[k] ELSE kept[k]]

\* 0x8000 is "no temperature".
Temperature(p) == IF p[5] = 128 /\ p[6] = 0 THEN None ELSE <<p[5], p[6]>>

\* p is the payload after the service's UUID; None when it is too short for its
\* frame type.  An EID or an unknown frame decodes to its bare type.
decodeEddystone(p) ==
    CASE Len(p) < 1                -> None
      [] Len(p) >= 1 /\ p[1] = 0   -> IF Len(p) < 18 THEN None
                                      ELSE [frame |-> 0, id |-> SubSeq(p, 3, 18)]
      [] Len(p) >= 1 /\ p[1] = 16  -> IF Len(p) < 3 THEN None
                                      ELSE [frame |-> 16,
                                            id |-> decodeEddystoneURL(p[3], SubSeq(p, 4, Len(p)))]
      [] Len(p) >= 1 /\ p[1] = 32  -> IF Len(p) < 14 THEN None
                                      ELSE [frame |-> 32, id |-> None,
                                            battery |-> SubSeq(p, 3, 4),
                                            temperature |-> Temperature(p)]
      [] OTHER                     -> [frame |-> p[1], id |-> None]

IsEddystone(v) == Len(v) >= 2 /\ v[1] = 170 /\ v[2] = 254

-----------------------------------------------------------------------------
(* Advert.decodeStructure: what one record adds to the decoded advert.     *)

NewAdvert == [structures |-> <<>>, localName |-> <<>>, txPower |-> None,
              iBeacon |-> None, eddystone |-> None]

\* The complete name always wins; the shortened one fills an empty name.
localNameAfter(a, t, v) ==
    IF t = adNameComplete \/ (t = adNameShort /\ a.localName = <<>>)
    THEN v ELSE a.localName

iBeaconAfter(a, t, v) ==
    IF t = manufDataType /\ looksLikeIBeacon(v) /\ decodeIBeaconPayload(v) # None
    THEN decodeIBeaconPayload(v) ELSE a.iBeacon

\* Variant of eddystoneAfter with a bug: a frame too short to decode clears an
\* earlier one.
eddystoneLatest(a, t, v) ==
    IF t = adServiceData /\ IsEddystone(v)
    THEN decodeEddystone(SubSeq(v, 3, Len(v))) ELSE a.eddystone

eddystoneAfter(a, t, v) ==
    IF /\ t = adServiceData /\ IsEddystone(v)
       /\ decodeEddystone(SubSeq(v, 3, Len(v))) # None
    THEN decodeEddystone(SubSeq(v, 3, Len(v))) ELSE a.eddystone

decodeStructure(a, t, v) ==
    [a EXCEPT !.structures = Append(@, [type |-> t, value |-> v]),
              !.localName = localNameAfter(a, t, v),
              !.txPower = IF t = adTxPower /\ Len(v) >= 1 THEN v[1] ELSE @,
              !.iBeacon = iBeaconAfter(a, t, v),
              !.eddystone = eddystoneAfter(a, t, v)]

-----------------------------------------------------------------------------
(* Identify and the constructors of ids.BeaconKey.                         *)

\* The white space of unicode.IsSpace in UTF-8: ASCII, U+0085, U+00A0, U+1680,
\* U+2000 to U+200A, U+2028, U+2029, U+202F, U+205F, U+3000.
Space == {<<c>> : c \in (9..13) \cup {32}}
         \cup {<<194, 133>>, <<194, 160>>, <<225, 154, 128>>}
         \cup {<<226, 128, c>> : c \in (128..138) \cup {168, 169, 175}}
         \cup {<<226, 129, 159>>, <<227, 128, 128>>}

\* strings.TrimSpace: no other character holds the octets of one of these, so
\* the octets to trim are those inside one.
TrimSpace(s) ==
    LET kept == {k \in DOMAIN s :
                    ~\E from, to \in DOMAIN s : /\ from \in (k - 2)..k /\ to \in k..(k + 2)
                                                 /\ SubSeq(s, from, to) \in Space}
    IN  IF kept = {} THEN <<>> ELSE SubSeq(s, Min(kept), Max(kept))

\* strings.ToLower, on ASCII.
ToLower(s) == [k \in DOMAIN s |-> IF s[k] \in 65..90 THEN s[k] + 32 ELSE s[k]]

Anonymous == <<"anonymous", <<>>>>

NewNameKey(n) == IF TrimSpace(n) = <<>> THEN Anonymous ELSE <<"name", TrimSpace(n)>>

\* NewEddystoneURLKey, or the next source when the URL is blank.
NewEddystoneURLKey(u, otherwise) ==
    IF TrimSpace(u) = <<>> THEN otherwise
    ELSE <<"eddystone_url", ToLower(TrimSpace(u))>>

\* ibeacon > eddystone_uid > eddystone_url > name > anonymous.  The allowlist
\* of manufacturers that may yield an identity is empty.
Identify(a) ==
    CASE a.iBeacon # None -> <<"ibeacon", a.iBeacon.key>>
      [] a.iBeacon = None /\ a.eddystone # None ->
            (CASE a.eddystone.frame = 0  -> <<"eddystone_uid", a.eddystone.id>>
               [] a.eddystone.frame = 16 ->
                     NewEddystoneURLKey(a.eddystone.id, NewNameKey(a.localName))
               [] OTHER                  -> NewNameKey(a.localName))
      [] a.iBeacon = None /\ a.eddystone = None -> NewNameKey(a.localName)

-----------------------------------------------------------------------------
(* The loop.                                                               *)

Init ==
    /\ buf \in Buffers \cup {BadHex}
    /\ i = 0
    /\ pc = "start"
    /\ adv = NewAdvert
    /\ debug = [records |-> <<>>, iBeacon |-> None, err |-> FALSE]
    /\ legacy = [st |-> "walk", iBeacon |-> None]

\* ParseAdvert returns, unless it has already.
legacyReturns(st) ==
    legacy' = IF legacy.st = "walk" THEN [legacy EXCEPT !.st = st] ELSE legacy

\* hex.DecodeString: on a failure all three return an error.
DecodeHex ==
    /\ pc = "start"
    /\ IF buf = BadHex
       THEN /\ pc' = "failed" /\ legacyReturns("error")
            /\ debug' = [debug EXCEPT !.err = TRUE]
       ELSE pc' = "walk" /\ UNCHANGED <<legacy, debug>>
    /\ UNCHANGED <<buf, i, adv>>

AtEnd == i < Len(buf) => buf[i + 1] = 0

\* The record's length runs past the end of the buffer.
Overruns == i + 1 + buf[i + 1] > Len(buf)

\* The end of the buffer, or a zero length octet.
EndOfList ==
    /\ pc = "walk" /\ AtEnd
    /\ pc' = "done"
    /\ legacyReturns("none")
    /\ UNCHANGED <<buf, i, adv, debug>>

\* Parse and ParseAdvert return an error; ParseAdvertDebug keeps what it has.
PastEnd ==
    /\ pc = "walk" /\ ~AtEnd /\ Overruns
    /\ pc' = "failed"
    /\ legacyReturns("error")
    /\ debug' = [debug EXCEPT !.err = TRUE]
    /\ UNCHANGED <<buf, i, adv>>

\* ParseAdvert returns at the first record that looks like an iBeacon.
legacyAfter(t, v) ==
    IF legacy.st # "walk" \/ t # manufDataType \/ ~looksLikeIBeacon(v) THEN legacy
    ELSE [st      |-> IF decodeIBeaconPayload(v) = None THEN "error" ELSE "found",
          iBeacon |-> decodeIBeaconPayload(v)]

\* Variant of debugAfter with a bug: the first iBeacon is shown, not the last.
debugFirst(t, v) ==
    LET ib == IF t = manufDataType /\ looksLikeIBeacon(v)
              THEN decodeIBeaconPayload(v) ELSE debug.iBeacon
    IN  [records |-> Append(debug.records, [offset |-> i, type |-> t, value |-> v]),
         iBeacon |-> IF debug.iBeacon = None THEN ib ELSE debug.iBeacon,
         err     |-> debug.err]

\* ParseAdvertDebug: a short iBeacon payload is noted and the walk goes on.
debugAfter(t, v) ==
    LET like == t = manufDataType /\ looksLikeIBeacon(v)
        ib   == decodeIBeaconPayload(v)
    IN  [records |-> Append(debug.records, [offset |-> i, type |-> t, value |-> v]),
         iBeacon |-> IF like /\ ib # None THEN ib ELSE debug.iBeacon,
         err     |-> debug.err \/ (like /\ ib = None)]

\* Variant of RecordValue with a bug: one octet too few.
RecordValueShort == SubSeq(buf, i + 3, i + buf[i + 1])

RecordValue == SubSeq(buf, i + 3, i + 1 + buf[i + 1])

\* One well-framed record.
Record ==
    /\ pc = "walk" /\ ~AtEnd /\ ~Overruns
    /\ adv' = decodeStructure(adv, buf[i + 2], RecordValue)
    /\ debug' = debugAfter(buf[i + 2], RecordValue)
    /\ legacy' = legacyAfter(buf[i + 2], RecordValue)
    /\ i' = i + 1 + buf[i + 1]
    /\ UNCHANGED <<buf, pc>>

Returned == pc \in {"done", "failed"} /\ UNCHANGED vars

Next == DecodeHex \/ EndOfList \/ PastEnd \/ Record \/ Returned

Spec == Init /\ [][Next]_vars

-----------------------------------------------------------------------------
(* Properties.                                                             *)

\* The records listed so far tile the buffer up to the walk's offset: each is
\* the octets at its offset, they follow one another without gap or overlap,
\* and none reaches past the end.  Parse lists the same ones.
Framed ==
    LET recs == debug.records
        End(k) == recs[k].offset + 2 + Len(recs[k].value)
    IN  /\ buf # BadHex => i \in 0..Len(buf)
        /\ \A k \in DOMAIN recs :
              /\ SubSeq(buf, recs[k].offset + 1, End(k))
                    = <<Len(recs[k].value) + 1, recs[k].type>> \o recs[k].value
              /\ recs[k].offset = IF k = 1 THEN 0 ELSE End(k - 1)
        /\ i = IF recs = <<>> THEN 0 ELSE End(Len(recs))
        /\ adv.structures = [k \in DOMAIN recs |-> [type  |-> recs[k].type,
                                                    value |-> recs[k].value]]

\* Indices of the structures that hold a complete iBeacon, a decodable
\* Eddystone frame, a complete name.
IBeaconsOf(s) == {k \in DOMAIN s : /\ s[k].type = manufDataType
                                   /\ looksLikeIBeacon(s[k].value)
                                   /\ Len(s[k].value) >= 25}
FramesOf(s) == {k \in DOMAIN s : /\ s[k].type = adServiceData
                                 /\ IsEddystone(s[k].value)
                                 /\ decodeEddystone(SubSeq(s[k].value, 3, Len(s[k].value))) # None}
NamesOf(s, t) == {k \in DOMAIN s : s[k].type = t}

\* The last complete name, unless it is empty or missing: then the first
\* shortened one after it that is not empty.
NameOf(s) ==
    LET last   == Max({0} \cup NamesOf(s, adNameComplete))
        shorts == {k \in NamesOf(s, adNameShort) : k > last /\ s[k].value # <<>>}
    IN  IF last # 0 /\ s[last].value # <<>> THEN s[last].value
        ELSE IF shorts = {} THEN <<>> ELSE s[Min(shorts)].value

\* Identify answers the last complete iBeacon of the advert whatever surrounds it
\* (complete is 25 octets or more: advert.go speaks of exactly 25, the code refuses
\* only fewer); failing that, the last decodable Eddystone frame if it is a UID or a
\* URL that is not blank; failing that, a name that is not blank; else nothing.
IdentityOfPacket ==
    pc = "done" =>
       LET s == adv.structures
           ibs == IBeaconsOf(s)
           eds == FramesOf(s)
           v == s[Max(eds)].value
           url == TrimSpace(decodeEddystoneURL(v[5], SubSeq(v, 6, Len(v))))
           answer == Identify(adv)
       IN  IF ibs # {} THEN answer = <<"ibeacon", SubSeq(s[Max(ibs)].value, 5, 24)>>
           ELSE IF eds # {} /\ v[3] = 0 THEN answer = <<"eddystone_uid", SubSeq(v, 5, 20)>>
           ELSE IF eds # {} /\ v[3] = 16 /\ url # <<>>
                THEN answer = <<"eddystone_url", ToLower(url)>>
           ELSE IF TrimSpace(NameOf(s)) # <<>> THEN answer = <<"name", TrimSpace(NameOf(s))>>
           ELSE answer = Anonymous

\* The operator's packet page tells the truth about ingest: its walk shows the
\* iBeacon ingest used, it reports an error whenever ingest refused the advert,
\* and otherwise only for an iBeacon too short to decode.  The older parser
\* differs only where an advert holds several iBeacon records.
WalksAgree ==
    LET like == {k \in DOMAIN adv.structures :
                    /\ adv.structures[k].type = manufDataType
                    /\ looksLikeIBeacon(adv.structures[k].value)}
    IN  /\ debug.iBeacon = adv.iBeacon
        /\ pc = "failed" => debug.err
        /\ pc = "done" => (debug.err <=> like # IBeaconsOf(adv.structures))
        /\ pc = "done" /\ Cardinality(like) < 2 =>
              /\ legacy.iBeacon = adv.iBeacon
              /\ legacy.st = IF debug.err THEN "error"
                             ELSE IF adv.iBeacon = None THEN "none" ELSE "found"

=============================================================================
