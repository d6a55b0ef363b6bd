--------------------------- MODULE MCColumnNames ---------------------------
(***************************************************************************)
(* Files of up to three columns for TLC, named `a`, `A`, `a!`, `a_2` and   *)
(* `b`, with repetitions.  The readers tell repeated columns apart: pandas *)
(* those of one string (`a.1`), DuckDB those that differ in case at most   *)
(* (`a_1`).                                                                *)
(***************************************************************************)
EXTENDS ColumnNames

CONSTANTS a, upperA, aBang, b, dot

SomeWords == {a, upperA, aBang, b, dot}
LowerWords == [w \in SomeWords |-> IF w = upperA THEN a ELSE w]

Written == {<<a>>, <<upperA>>, <<aBang>>, <<a, 2>>, <<b>>}
Files == UNION {[1 .. n -> Written] : n \in 1 .. 3}

Told(h, i, Same(_, _), sep) ==
    LET k == Cardinality({j \in 1 .. i - 1 : Same(h[j], h[i])})
    IN  IF k = 0 THEN h[i] ELSE h[i] \o sep \o <<k>>
Headers ==
    [p \in Paths |-> [h \in Files |-> [i \in 1 .. Len(h) |->
        IF p = "pandas" THEN Told(h, i, LAMBDA x, y : x = y, <<dot>>)
        ELSE Told(h, i, LAMBDA x, y : Fold(x) = Fold(y), <<>>)]]]

SomeCells == UNION {{Headers[p][h][i] : i \in 1 .. Len(h)} : p \in Paths, h \in Files}
Identifier(c) ==
    LET kept == SelectSeq(c, LAMBDA w : w # dot)
    IN  [i \in 1 .. Len(kept) |-> IF kept[i] \in {upperA, aBang} THEN a ELSE kept[i]]
CellNames == [c \in SomeCells |-> Identifier(c)]
=============================================================================
