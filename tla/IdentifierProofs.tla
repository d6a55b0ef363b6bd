-------------------------- MODULE IdentifierProofs --------------------------
(***************************************************************************)
(* That the suffix loop of csv_ingestion.py finds a free identifier, for   *)
(* any set of used ones: the suffixes 2 .. n + 2 are more than the n       *)
(* identifiers in use, and no two of them give the same identifier.        *)
(***************************************************************************)
EXTENDS Identifiers, FiniteSetTheorems, SequenceTheorems, WellFoundedInduction, TLAPS

\* A non-empty set of numbers has a least element.
LEMMA LeastNumber ==
    ASSUME NEW T \in SUBSET Nat, T # {}
    PROVE  \E n \in T : \A m \in T : n <= m
<1>1. PICK n \in T : \A m \in T : ~(<<m, n>> \in OpToRel(<, Nat))
  BY NatLessThanWellFounded, WFMin
<1>2. \A m \in T : ~(m < n)
  BY <1>1 DEF OpToRel
<1> QED  BY <1>2

\* Different suffixes make different identifiers.
LEMMA SuffixesDiffer ==
    ASSUME NEW W, Nat \subseteq W, NEW name \in Seq(W), NEW j \in Nat, NEW k \in Nat,
           Suffixed(name, j) = Suffixed(name, k)
    PROVE  j = k
BY AppendProperties DEF Suffixed

\* Some suffix within the bound of FirstFree is free.
LEMMA SomeSuffixFree ==
    ASSUME NEW W, Nat \subseteq W, NEW name \in Seq(W), NEW used, IsFiniteSet(used)
    PROVE  \E k \in 2 .. Cardinality(used) + 2 : Suffixed(name, k) \notin used
<1> DEFINE c == Cardinality(used)
           K == 2 .. c + 2
           f == [k \in K |-> Suffixed(name, k)]
<1>1. c \in Nat
  BY FS_CardinalityType
<1>2. IsFiniteSet(K) /\ Cardinality(K) = c + 1
  <2>1. 2 \in Int /\ c + 2 \in Int /\ ~(2 > c + 2) /\ (c + 2) - 2 + 1 = c + 1
    BY <1>1
  <2> HIDE DEF c
  <2> QED  BY <2>1, FS_Interval
<1> SUFFICES ASSUME \A k \in K : Suffixed(name, k) \in used
             PROVE  FALSE
  OBVIOUS
<1>3. f \in [K -> used]
  OBVIOUS
<1>4. PICK j \in K, k \in K : j # k /\ f[j] = f[k]
  <2>1. Cardinality(used) < Cardinality(K)
    BY <1>1, <1>2
  <2> HIDE DEF K, f
  <2> QED  BY <1>2, <1>3, <2>1, FS_PigeonHole
<1>5. j \in Nat /\ k \in Nat
  BY <1>1
<1> QED  BY <1>4, <1>5, SuffixesDiffer

\* FirstFree returns an identifier that is not in use: the name, or the name and a
\* number.
THEOREM FirstFreeIsFree ==
    ASSUME NEW W, Nat \subseteq W, NEW name \in Seq(W), NEW used, IsFiniteSet(used)
    PROVE  /\ FirstFree(name, used) \in Seq(W) /\ FirstFree(name, used) \notin used
           /\ \/ FirstFree(name, used) = name
              \/ \E k \in Nat : FirstFree(name, used) = Suffixed(name, k)
<1>1. CASE name \notin used
  BY <1>1 DEF FirstFree
<1>2. CASE name \in used
  <2> DEFINE K == 2 .. Cardinality(used) + 2
             T == {n \in K : Suffixed(name, n) \notin used}
             IsFirst(n) == /\ Suffixed(name, n) \notin used
                           /\ \A m \in 2 .. n - 1 : Suffixed(name, m) \in used
  <2>1. Cardinality(used) \in Nat
    BY FS_CardinalityType
  <2>2. T \in SUBSET Nat /\ T # {}
    BY <2>1, SomeSuffixFree
  <2>3. PICK n \in T : \A m \in T : n <= m
    BY <2>2, LeastNumber
  <2>4. n \in K /\ IsFirst(n)
    BY <2>1, <2>3
  <2>5. (CHOOSE k \in K : IsFirst(k)) \in K /\ IsFirst(CHOOSE k \in K : IsFirst(k))
    BY <2>4
  <2>6. FirstFree(name, used) = Suffixed(name, CHOOSE k \in K : IsFirst(k))
    BY <1>2 DEF FirstFree
  <2>7. \A k \in K : Suffixed(name, k) \in Seq(W)
    BY <2>1, AppendProperties DEF Suffixed
  <2>8. \A k \in K : k \in Nat
    BY <2>1
  <2> HIDE DEF K, IsFirst
  <2>9. \E k \in K : FirstFree(name, used) = Suffixed(name, k)
    BY <2>5, <2>6
  <2> QED  BY <2>5, <2>6, <2>7, <2>8, <2>9 DEF IsFirst
<1> QED  BY <1>1, <1>2
=============================================================================
