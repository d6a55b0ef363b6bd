---------------------------- MODULE MCAnswerViews ----------------------------
(* Results of up to four rows, with up to two columns of every kind and every *)
(* pattern of nulls, or three columns with nulls at the head, and every way   *)
(* of giving the columns three names, x among them.                           *)
EXTENDS AnswerViews

CONSTANTS x, a, b

MCNames == {x, a, b}
MCLimits == {0, 1, 3, 6}

Cols(nulls) == [kind: Kinds, nulls: nulls]
MCMatches ==
    UNION {[rows: {n}, cols: UNION {[1 .. k -> Cols(SUBSET (1 .. n))] : k \in 1 .. 2}
                             \cup [1 .. 3 -> Cols({{}, {1} \cap (1 .. n)})]]
             : n \in 0 .. 3}
      \cup UNION {[rows: {n}, cols: [1 .. 2 -> Cols({{}, {1}})]] : n \in 4 .. 5}
=============================================================================
