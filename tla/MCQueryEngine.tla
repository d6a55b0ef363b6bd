--------------------------- MODULE MCQueryEngine ---------------------------
(***************************************************************************)
(* Instances of QueryEngine for TLC.  Questions are interchangeable; the   *)
(* tables are not, because some of them are loaded first.                  *)
(***************************************************************************)
EXTENDS QueryEngine, TLC

CONSTANTS q1, q2, q3, old, new, alias

TwoQuestions == {q1, q2}
ThreeQuestions == {q1, q2, q3}
OneTable == {old}
TwoTables == {old, new}
OldTable == {old}
NoTables == {}
SomeNames == {old, new, alias}

Plain(names) == [select |-> TRUE, refs |-> [name: names, to: {"table"}], ctes |-> {}]

\* WITH alias AS (SELECT .. FROM old) SELECT .. FROM alias, another_schema.old
Scoped == [select |-> TRUE, ctes |-> {alias},
           refs |-> {[name |-> alias, to |-> "cte"], [name |-> old, to |-> "table"],
                     [name |-> old, to |-> "other"]}]
\* SELECT .. FROM new, (WITH new AS (SELECT 1) SELECT .. FROM new)
Shadowed == [select |-> TRUE, ctes |-> {new},
             refs |-> {[name |-> new, to |-> "cte"], [name |-> new, to |-> "table"]}]

SomeStatements == {NotSelect, Plain({new}), Scoped, Shadowed}

Symmetry == Permutations(Questions)
=============================================================================
