--------------------------- MODULE MCAdvertParser ---------------------------
(***************************************************************************)
(* Adverts for AdvertParser: up to MaxRecords sample records one after the *)
(* other, then a tail that ends the list, pads it or cuts a record short.  *)
(***************************************************************************)
EXTENDS AdvertParser

CONSTANT MaxRecords

Fill(n, c) == [k \in 1..n |-> c]

Rec(t, v) == <<Len(v) + 1, t>> \o v

Eddystone(p) == Rec(adServiceData, <<170, 254>> \o p)

\* Per decoder: a good value, another one, one octet too long and one too
\* short; URLs and names that are blank, or begin or end with white space.
Samples == {
    Rec(1, <<6>>),
    Rec(manufDataType, <<76, 0, 2, 21>> \o Fill(21, 1)),
    Rec(manufDataType, <<76, 0, 2, 21>> \o Fill(22, 2)),
    Rec(manufDataType, <<76, 0, 2, 21>> \o Fill(20, 3)),
    Rec(manufDataType, <<76, 0, 16>>),
    Rec(adTxPower, <<>>),
    Eddystone(<<0>> \o Fill(17, 5)),
    Eddystone(<<0>> \o Fill(16, 5)),
    Eddystone(<<16, 1, 3, 65, 0>>),
    Eddystone(<<16, 1, 4, 32, 200>>),
    Eddystone(<<16, 1, 4, 10>>),
    Eddystone(<<16, 1>>),
    Eddystone(<<32, 0, 12, 0, 128, 0>> \o Fill(8, 0)),
    Eddystone(<<>>),
    Eddystone(<<48, 7>>),
    Rec(adNameComplete, <<32, 72, 66, 9>>),
    Rec(adNameComplete, <<>>),
    Rec(adNameShort, <<72>>),
    Rec(adNameShort, <<194, 160, 32>>)}

\* No tail, a terminator before junk, a bare length octet, a record one octet
\* short, and a terminator as the last octet.
Tails == {<<>>, <<0, 9, 9>>, <<1>>, <<3, 9, 72>>, <<0>>}

RECURSIVE Lists(_)
Lists(n) == IF n = 0 THEN {<<>>}
            ELSE LET shorter == Lists(n - 1)
                 IN  shorter \cup {l \o r : l \in shorter, r \in Samples}

MCBuffers == {l \o t : l \in Lists(MaxRecords), t \in Tails}

=============================================================================
