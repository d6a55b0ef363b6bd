--------------------------- MODULE MCRateLimiter ---------------------------
(* Instances of RateLimiter for TLC. *)
EXTENDS RateLimiter, TLC

CONSTANTS t1, t2, s1, s2

TwoThreads == {t1, t2}
TwoSessions == {s1, s2}

Symmetry == Permutations(Threads) \cup Permutations(Sessions)
=============================================================================
