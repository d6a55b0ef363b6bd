----------------------------- MODULE MCFrontend -----------------------------
(* Instances of Frontend for TLC. *)
EXTENDS Frontend, TLC

CONSTANTS t1, t2, i1, i2, q1, q2, f1, f2

TwoTabs == {t1, t2}
TwoIds == {i1, i2}
TwoQuestions == {q1, q2}
TwoFiles == {f1, f2}

Symmetry == Permutations(Tabs) \cup Permutations(Ids) \cup Permutations(Questions)
                \cup Permutations(Files)
=============================================================================
