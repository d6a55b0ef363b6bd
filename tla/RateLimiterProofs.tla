------------------------- MODULE RateLimiterProofs -------------------------
(***************************************************************************)
(* Proofs about RateLimiter for any number of threads and sessions, any    *)
(* capacity and refill rate.                                               *)
(*                                                                         *)
(* What a check stores is computed from a bucket and an instant that may   *)
(* both be stale by the time of the store.  The argument is that the level *)
(* computed, extrapolated to any later instant, is non-negative           *)
(* (PendingSolvent), and that a level too low to admit was read from a     *)
(* bucket somebody had used less than a token's time before               *)
(* (PendingJustified).  Both survive the stores of other checks.           *)
(* What a stale store undoes is what was taken since its check read the    *)
(* bucket: counting it, the grants never exceed what has flowed in (Paid). *)
(***************************************************************************)
EXTENDS RateLimiter, TLAPS

USE CapacityAssumption, CostAssumption, BoundsAssumption

\* A full bucket pays for at least one request.
LEMMA FullType == Full \in Nat /\ Full >= Cost
<1>1. \A a, b \in Nat \ {0} : a * b \in Nat /\ a * b >= b
  OBVIOUS
<1> QED  BY <1>1 DEF Full

\* Instants lie in the past, and a bucket is solvent already at the instant it
\* was last stored.
Solvent ==
    /\ \A s \in Sessions :
          /\ touched[s] <= clock
          /\ bucket[s].exists => bucket[s].tokens + (touched[s] - bucket[s].lastRefill) >= 0
    /\ \A t \in Threads :
          /\ th[t].now <= clock
          /\ th[t].pc \in {"refill", "commit"} => bucket[th[t].session].exists

PendingSolvent ==
    \A t \in Threads :
        th[t].pc = "commit" => th[t].fill + (clock - th[t].now) >= 0

PendingJustified ==
    \A t \in Threads :
        th[t].pc = "commit" /\ th[t].fill < Cost =>
            touched[th[t].session] + Cost > th[t].now

IInv == TypeOK /\ Solvent /\ PendingSolvent /\ PendingJustified

\* No bucket, no check under way.
LEMMA InitIInv == Init => IInv
BY FullType DEF Init, IInv, TypeOK, Level, Local, Solvent, PendingSolvent, PendingJustified

\* What Refilled computes: the brim or the whole sum, whichever is less.
LEMMA RefilledBounds ==
    ASSUME NEW b, b.tokens \in Int, b.lastRefill \in Nat, NEW now \in Nat
    PROVE  /\ Refilled(b, now) \in Level
           /\ Refilled(b, now) <= b.tokens + (now - b.lastRefill)
           /\ \/ Refilled(b, now) = Full
              \/ Refilled(b, now) = b.tokens + (now - b.lastRefill)
BY FullType DEF Refilled, Level

\* The clock is read: the check has done nothing yet.
LEMMA CheckIInv ==
    ASSUME IInv, NEW t \in Threads, NEW s \in Sessions, Check(t, s)
    PROVE  IInv'
<1>1. TypeOK'
  BY DEF Check, IInv, TypeOK, Local, history
<1>2. Solvent' /\ PendingSolvent' /\ PendingJustified'
  BY DEF Check, IInv, TypeOK, Local, history, Solvent, PendingSolvent, PendingJustified
<1> QED  BY <1>1, <1>2 DEF IInv

\* A bucket is made full, so it is solvent.
LEMMA SetDefaultIInv ==
    ASSUME IInv, NEW t \in Threads, SetDefault(t)
    PROVE  IInv'
<1> DEFINE s == th[t].session
<1>1. s \in Sessions /\ th[t].now \in Nat /\ th[t].now <= clock /\ th[t].pc = "bucket"
  BY DEF SetDefault, IInv, TypeOK, Local, Solvent
<1>2. TypeOK'
  <2>1. Full \in Level
    BY FullType DEF Level
  <2> DEFINE new == [exists |-> TRUE, tokens |-> Full, lastRefill |-> th[t].now]
  <2>2. \/ bucket' = bucket /\ opened' = opened /\ touched' = touched
        \/ /\ bucket' = [bucket EXCEPT ![s] = new]
           /\ opened' = [opened EXCEPT ![s] = th[t].now]
           /\ touched' = [touched EXCEPT ![s] = th[t].now]
    BY DEF SetDefault
  <2>3. new \in [exists: BOOLEAN, tokens: Level, lastRefill: Nat]
    BY <1>1, <2>1
  <2> HIDE DEF new, s
  <2>4. bucket' \in [Sessions -> [exists: BOOLEAN, tokens: Level, lastRefill: Nat]]
    BY <1>1, <2>2, <2>3 DEF IInv, TypeOK
  <2>5. opened' \in [Sessions -> Nat] /\ touched' \in [Sessions -> Nat]
    <3>1. opened \in [Sessions -> Nat] /\ touched \in [Sessions -> Nat]
      BY DEF IInv, TypeOK
    <3> QED  BY <1>1, <2>2, <3>1
  <2>6. /\ th' = [th EXCEPT ![t].pc = "refill"] /\ clock' = clock /\ spent' = spent
        /\ since' = since /\ lost' = lost
    BY DEF SetDefault
  <2>7. th' \in [Threads -> Local]
    BY <2>6 DEF IInv, TypeOK, Local
  <2> QED  BY <2>4, <2>5, <2>6, <2>7 DEF IInv, TypeOK
<1>3. /\ th' = [th EXCEPT ![t].pc = "refill"]
      /\ clock' = clock
  BY DEF SetDefault
<1>4. CASE bucket[s].exists
  <2>1. bucket' = bucket /\ touched' = touched
    BY <1>4 DEF SetDefault
  <2> QED
    BY <1>1, <1>2, <1>3, <1>4, <2>1 DEF IInv, TypeOK, Local, Solvent, PendingSolvent, PendingJustified
<1>5. CASE ~bucket[s].exists
  <2>1. /\ bucket' = [bucket EXCEPT ![s] = [exists |-> TRUE, tokens |-> Full,
                                            lastRefill |-> th[t].now]]
        /\ touched' = [touched EXCEPT ![s] = th[t].now]
    BY <1>5 DEF SetDefault
  <2>2. Solvent'
    BY <1>1, <1>3, <1>5, <2>1, FullType DEF IInv, TypeOK, Local, Solvent
  <2>3. \A u \in Threads : th[u].pc = "commit" => th[u].session # s
    BY <1>5 DEF IInv, Solvent
  <2>4. PendingSolvent' /\ PendingJustified'
    BY <1>1, <1>3, <2>1, <2>3 DEF IInv, TypeOK, Local, PendingSolvent, PendingJustified
  <2> QED  BY <1>2, <2>2, <2>4 DEF IInv
<1> QED  BY <1>4, <1>5

\* The level is computed from what the bucket holds at this moment.
LEMMA RefillIInv ==
    ASSUME IInv, NEW t \in Threads, Refill(t)
    PROVE  IInv'
<1> DEFINE s == th[t].session
           b == bucket[s]
           fill == Refilled(b, th[t].now)
<1>1. /\ s \in Sessions /\ th[t].now \in Nat /\ th[t].now <= clock
      /\ th[t].pc = "refill" /\ b.exists
      /\ b.tokens \in Int /\ b.lastRefill \in Nat /\ touched[s] \in Nat /\ clock \in Nat
  BY DEF Refill, IInv, TypeOK, Local, Solvent, Level
<1>2. /\ fill \in Level /\ fill \in Int
      /\ fill = Full \/ fill = b.tokens + (th[t].now - b.lastRefill)
  BY <1>1, RefilledBounds DEF Level
<1>3. /\ th' = [th EXCEPT ![t].pc = "commit", ![t].fill = fill]
      /\ clock' = clock /\ bucket' = bucket /\ touched' = touched
      /\ spent' = spent /\ opened' = opened /\ since' = since /\ lost' = lost
  BY DEF Refill, history
<1>4. b.tokens + (touched[s] - b.lastRefill) >= 0 /\ touched[s] <= clock
  BY <1>1 DEF IInv, Solvent
<1>5. fill + (clock - th[t].now) >= 0
  BY <1>1, <1>2, <1>4, FullType
<1>6. fill < Cost => touched[s] + Cost > th[t].now
  BY <1>1, <1>2, <1>4, FullType
<1> HIDE DEF fill, b
<1>7. TypeOK'
  BY <1>2, <1>3 DEF IInv, TypeOK, Local
<1>8. Solvent'
  BY <1>1, <1>3 DEF IInv, TypeOK, Local, Solvent, b
<1>9. PendingSolvent'
  BY <1>3, <1>5 DEF IInv, TypeOK, Local, PendingSolvent
<1>10. PendingJustified'
  BY <1>3, <1>6 DEF IInv, TypeOK, Local, PendingJustified
<1> QED  BY <1>7, <1>8, <1>9, <1>10 DEF IInv

\* What a store does to the history: the units it takes are counted, those it
\* overwrites are booked as lost, and every level still to be stored will
\* overwrite the units taken now.
LEMMA CommitBooks ==
    ASSUME TypeOK, NEW t \in Threads, Commit(t)
    PROVE  \E c \in Nat :
              /\ c = Taken(th[t].fill >= Cost)
              /\ spent' = [spent EXCEPT ![th[t].session] = @ + c]
              /\ lost' = [lost EXCEPT ![th[t].session] = @ + since[t]]
              /\ since'[t] = 0
              /\ \A u \in Threads \ {t} :
                    since'[u] = IF u \in Pending(th[t].session) THEN since[u] + c ELSE since[u]
              /\ spent' \in [Sessions -> Nat]
              /\ lost' \in [Sessions -> Nat]
              /\ since' \in [Threads -> Nat]
<1> DEFINE c == Taken(th[t].fill >= Cost)
           s == th[t].session
<1>1. c \in Nat /\ s \in Sessions
  BY FullType DEF Taken, TypeOK, Local
<1>2. /\ spent' = [spent EXCEPT ![s] = @ + c]
      /\ lost' = [lost EXCEPT ![s] = @ + since[t]]
      /\ since' = [u \in Threads |->
                      IF u = t THEN 0
                      ELSE IF u \in Pending(s) THEN since[u] + c ELSE since[u]]
  BY DEF Commit
<1> HIDE DEF c, s
<1>3. /\ spent' \in [Sessions -> Nat] /\ lost' \in [Sessions -> Nat]
      /\ since' \in [Threads -> Nat]
  BY <1>1, <1>2 DEF TypeOK
<1>4. /\ since'[t] = 0
      /\ \A u \in Threads \ {t} :
            since'[u] = IF u \in Pending(s) THEN since[u] + c ELSE since[u]
  BY <1>2
<1> QED  BY <1>1, <1>2, <1>3, <1>4 DEF c, s

\* The stale level overwrites whatever is in the bucket: still solvent.
LEMMA CommitIInv ==
    ASSUME IInv, NEW t \in Threads, Commit(t)
    PROVE  IInv'
<1> DEFINE s == th[t].session
           fill == th[t].fill
<1>1. /\ s \in Sessions /\ th[t].now \in Nat /\ th[t].now <= clock /\ clock \in Nat
      /\ th[t].pc = "commit" /\ bucket[s].exists
      /\ fill \in Int /\ fill <= Full
      /\ fill + (clock - th[t].now) >= 0
  BY DEF Commit, IInv, TypeOK, Local, Solvent, Level, PendingSolvent
<1>2. /\ Charged(fill) \in Level
      /\ Charged(fill) \in Int
      /\ Charged(fill) + (clock - th[t].now) >= 0
  BY <1>1, FullType DEF Charged, Level
<1>3. /\ bucket' = [bucket EXCEPT ![s].tokens = Charged(fill), ![s].lastRefill = th[t].now]
      /\ touched' = [touched EXCEPT ![s] = clock]
      /\ clock' = clock
  BY DEF Commit
<1>4. /\ th'[t].pc = "idle" /\ th'[t].now = 0
      /\ \A u \in Threads \ {t} : th'[u] = th[u]
  BY DEF Commit, IInv, TypeOK, Local
<1>5. spent[s] + Cost \in Nat /\ 0 \in Level
  BY <1>1, FullType DEF IInv, TypeOK, Level
<1>6. TypeOK'
  <2>1. bucket' \in [Sessions -> [exists: BOOLEAN, tokens: Level, lastRefill: Nat]]
    BY <1>1, <1>2, <1>3 DEF IInv, TypeOK
  <2>2. touched' \in [Sessions -> Nat] /\ clock' \in Nat
    BY <1>1, <1>3 DEF IInv, TypeOK
  <2>3. spent' \in [Sessions -> Nat] /\ opened' \in [Sessions -> Nat]
        /\ since' \in [Threads -> Nat] /\ lost' \in [Sessions -> Nat]
    BY CommitBooks, <1>5 DEF Commit, IInv, TypeOK
  <2>4. th' \in [Threads -> Local]
    <3> DEFINE answer == IF fill >= Cost THEN "admitted" ELSE "refused"
    <3>1. th' = [th EXCEPT ![t] = [th[t] EXCEPT !.pc = "idle", !.fill = 0, !.now = 0,
                                                 !.answer = answer]]
      BY DEF Commit, IInv, TypeOK
    <3>2. answer \in {"none", "admitted", "refused"}
      OBVIOUS
    <3> HIDE DEF answer
    <3>3. [th[t] EXCEPT !.pc = "idle", !.fill = 0, !.now = 0, !.answer = answer] \in Local
      BY <1>5, <3>2 DEF IInv, TypeOK, Local
    <3> QED  BY <3>1, <3>3 DEF IInv, TypeOK
  <2> QED  BY <2>1, <2>2, <2>3, <2>4 DEF IInv, TypeOK
<1>7. Solvent'
  <2>1. /\ bucket'[s].tokens = Charged(fill) /\ bucket'[s].lastRefill = th[t].now
        /\ touched'[s] = clock
        /\ \A q \in Sessions : bucket'[q].exists <=> bucket[q].exists
        /\ \A q \in Sessions \ {s} : bucket'[q] = bucket[q] /\ touched'[q] = touched[q]
    BY <1>1, <1>3 DEF IInv, TypeOK
  <2>2. \A u \in Threads : th[u].session \in Sessions
    BY DEF IInv, TypeOK, Local
  <2> HIDE DEF s, fill
  <2>3. \A q \in Sessions :
           /\ touched'[q] <= clock'
           /\ bucket'[q].exists =>
                  bucket'[q].tokens + (touched'[q] - bucket'[q].lastRefill) >= 0
    <3> SUFFICES ASSUME NEW q \in Sessions
                 PROVE  /\ touched'[q] <= clock'
                        /\ bucket'[q].exists =>
                              bucket'[q].tokens + (touched'[q] - bucket'[q].lastRefill) >= 0
      OBVIOUS
    <3>1. CASE q = s
      BY <1>1, <1>2, <1>3, <2>1, <3>1
    <3>2. CASE q # s
      BY <1>3, <2>1, <3>2 DEF IInv, Solvent
    <3> QED  BY <3>1, <3>2
  <2>4. \A u \in Threads :
           /\ th'[u].now <= clock'
           /\ th'[u].pc \in {"refill", "commit"} => bucket'[th'[u].session].exists
    <3> SUFFICES ASSUME NEW u \in Threads
                 PROVE  /\ th'[u].now <= clock'
                        /\ th'[u].pc \in {"refill", "commit"} =>
                              bucket'[th'[u].session].exists
      OBVIOUS
    <3>1. CASE u = t
      BY <1>1, <1>3, <1>4, <3>1
    <3>2. CASE u # t
      BY <1>3, <1>4, <2>1, <2>2, <3>2 DEF IInv, Solvent
    <3> QED  BY <3>1, <3>2
  <2> QED  BY <2>3, <2>4 DEF Solvent
<1>8. PendingSolvent'
  BY <1>3, <1>4 DEF IInv, PendingSolvent
<1>9. \A q \in Sessions : touched[q] \in Nat /\ touched'[q] \in Nat /\ touched'[q] >= touched[q]
  BY <1>1, <1>3 DEF IInv, TypeOK, Solvent
<1>10. PendingJustified'
  BY <1>4, <1>9 DEF IInv, TypeOK, Local, PendingJustified
<1> QED  BY <1>6, <1>7, <1>8, <1>10 DEF IInv

\* As time passes every level extrapolated to the present only rises.
LEMMA IdleIInv ==
    ASSUME IInv, Tick \/ UNCHANGED vars
    PROVE  IInv'
<1>1. /\ bucket' = bucket /\ th' = th /\ touched' = touched /\ spent' = spent /\ opened' = opened
      /\ since' = since /\ lost' = lost
      /\ clock \in Nat /\ clock' \in Nat /\ clock' >= clock
  BY DEF Tick, vars, history, IInv, TypeOK
<1> QED
  BY <1>1 DEF IInv, TypeOK, Local, Level, Solvent, PendingSolvent, PendingJustified

\* Every step preserves the inductive invariant.
LEMMA NextIInv == IInv /\ [Next]_vars => IInv'
BY CheckIInv, SetDefaultIInv, RefillIInv, CommitIInv, IdleIInv DEF Next, Stopped

\* The inductive invariant holds in every reachable state.
LEMMA Invariance == Spec => []IInv
BY InitIInv, NextIInv, PTL DEF Spec

-----------------------------------------------------------------------------
(* The theorems.                                                           *)

\* Every variable keeps its type; no bucket is ever filled over its capacity.
THEOREM TypeCorrect == Spec => []TypeOK
<1>1. IInv => TypeOK
  BY DEF IInv
<1> QED  BY <1>1, Invariance, PTL

\* Overlapping checks may store levels below zero, but never leave a session in
\* debt at the present instant.
THEOREM SessionsSolvent == Spec => []NeverInDebt
<1>1. IInv => NeverInDebt
  BY DEF IInv, TypeOK, Level, Solvent, NeverInDebt
<1> QED  BY <1>1, Invariance, PTL

\* No interleaving of checks refuses a session that has rested for a token's time.
THEOREM RefusalsJustified == Spec => RefusalJustified
<1> DEFINE A == \A t \in Threads :
                  th[t].pc = "commit" /\ th'[t].pc = "idle" /\ th'[t].answer = "refused" =>
                      touched[th[t].session] + Cost > th[t].now
<1>1. IInv /\ [Next]_vars => [A]_vars
  <2> SUFFICES ASSUME IInv, Next, NEW t \in Threads, th[t].pc = "commit",
                      th'[t].pc = "idle", th'[t].answer = "refused"
               PROVE  touched[th[t].session] + Cost > th[t].now
    OBVIOUS
  <2>1. th[t] \in Local
    BY DEF IInv, TypeOK
  <2>2. th' # th
    BY <2>1
  <2>3. \A u \in Threads : SetDefault(u) \/ Refill(u) => th'[u].pc # "idle"
    BY DEF SetDefault, Refill, IInv, TypeOK, Local
  <2>4. \A u \in Threads, s \in Sessions : Check(u, s) => u # t /\ th'[t] = th[t]
    BY DEF Check, IInv, TypeOK
  <2>5. \A u \in Threads \ {t} : SetDefault(u) \/ Refill(u) \/ Commit(u) => th'[t] = th[t]
    BY DEF SetDefault, Refill, Commit, IInv, TypeOK
  <2>6. Commit(t)
    BY <2>2, <2>3, <2>4, <2>5 DEF Next, Tick, Stopped, vars
  <2>7. th[t].fill < Cost
    BY <2>1, <2>6, FullType DEF Commit, IInv, TypeOK, Local, Level
  <2> QED  BY <2>7 DEF IInv, PendingJustified
<1> QED  BY <1>1, Invariance, PTL DEF Spec, RefusalJustified

-----------------------------------------------------------------------------
(* What the races cost.                                                    *)

\* The balance of a level: what a session has been granted and may still be
\* granted out of it, less what its bucket was filled with since it was made.
Balance(level, at, granted, s) == level - at + granted - (Full - opened[s])

\* A bucket and the grants on it never exceed the capacity and the refill up to
\* its last store, but for the units whose taking was overwritten; nor will they
\* after a store under way, which undoes the grants made since its reading.
Paid ==
    /\ \A s \in Sessions :
          IF bucket[s].exists
          THEN Balance(bucket[s].tokens, bucket[s].lastRefill, spent[s] - lost[s], s) <= 0
          ELSE spent[s] = 0 /\ lost[s] = 0
    /\ \A t \in Threads :
          LET s == th[t].session IN
          th[t].pc = "commit" =>
              Balance(th[t].fill, th[t].now, spent[s] - lost[s] - since[t], s) <= 0

\* A reading is fresh: nothing was taken since.
Fresh == \A t \in Threads : th[t].pc # "commit" => since[t] = 0

LEMMA CheckPaid ==
    ASSUME IInv, Fresh, Paid, NEW t \in Threads, NEW s \in Sessions, Check(t, s)
    PROVE  Fresh' /\ Paid'
<1>1. /\ th[t].pc # "commit" /\ th'[t].pc # "commit"
      /\ \A u \in Threads \ {t} : th'[u] = th[u]
      /\ bucket' = bucket /\ spent' = spent /\ opened' = opened
      /\ since' = since /\ lost' = lost
  BY DEF Check, history, IInv, TypeOK, Local
<1> QED  BY <1>1 DEF Fresh, Paid, Balance

\* A bucket is made full at the instant of its making, before any grant.
LEMMA SetDefaultPaid ==
    ASSUME IInv, Fresh, Paid, NEW t \in Threads, SetDefault(t)
    PROVE  Fresh' /\ Paid'
<1> DEFINE s == th[t].session
<1>1. /\ th[t].pc # "commit" /\ th'[t].pc # "commit"
      /\ \A u \in Threads \ {t} : th'[u] = th[u]
      /\ spent' = spent /\ since' = since /\ lost' = lost
      /\ s \in Sessions /\ th[t].now \in Nat
  BY DEF SetDefault, IInv, TypeOK, Local
<1>2. CASE bucket[s].exists
  <2>1. bucket' = bucket /\ opened' = opened
    BY <1>2 DEF SetDefault
  <2> QED  BY <1>1, <2>1 DEF Fresh, Paid, Balance
<1>3. CASE ~bucket[s].exists
  <2>1. /\ bucket' = [bucket EXCEPT ![s] = [exists |-> TRUE, tokens |-> Full,
                                            lastRefill |-> th[t].now]]
        /\ opened' = [opened EXCEPT ![s] = th[t].now]
    BY <1>3 DEF SetDefault
  <2>2. /\ bucket'[s].exists /\ bucket'[s].tokens = Full
        /\ bucket'[s].lastRefill = th[t].now /\ opened'[s] = th[t].now
        /\ spent'[s] = 0 /\ lost'[s] = 0
        /\ \A q \in Sessions \ {s} : bucket'[q] = bucket[q] /\ opened'[q] = opened[q]
    BY <1>1, <1>3, <2>1 DEF Paid, IInv, TypeOK
  <2>3. Full - th[t].now + (spent'[s] - lost'[s]) - (Full - opened'[s]) <= 0
    BY <1>1, <2>2, FullType
  <2>4. \A u \in Threads : th[u].pc = "commit" => u # t /\ th[u].session \in Sessions \ {s}
    BY <1>1, <1>3 DEF IInv, TypeOK, Local, Solvent
  <2> HIDE DEF s
  <2>5. \A q \in Sessions :
           IF bucket'[q].exists
           THEN Balance(bucket[q].tokens, bucket[q].lastRefill, spent[q] - lost[q], q)' <= 0
           ELSE spent'[q] = 0 /\ lost'[q] = 0
    <3> SUFFICES ASSUME NEW q \in Sessions
                 PROVE  IF bucket'[q].exists
                        THEN Balance(bucket[q].tokens, bucket[q].lastRefill,
                                     spent[q] - lost[q], q)' <= 0
                        ELSE spent'[q] = 0 /\ lost'[q] = 0
      OBVIOUS
    <3>1. CASE q = s
      BY <2>2, <2>3, <3>1 DEF Balance
    <3>2. CASE q # s
      BY <1>1, <2>2, <3>2 DEF Paid, Balance
    <3> QED  BY <3>1, <3>2
  <2>6. \A u \in Threads : th'[u].pc = "commit" =>
           th'[u] = th[u] /\ th[u].pc = "commit" /\ th[u].session \in Sessions \ {s}
    BY <1>1, <2>4
  <2>7. \A u \in Threads : th'[u].pc = "commit" =>
           Balance(th[u].fill, th[u].now,
                   spent[th[u].session] - lost[th[u].session] - since[u], th[u].session)' <= 0
    BY <1>1, <2>2, <2>6 DEF Paid, Balance
  <2> QED  BY <1>1, <2>5, <2>7 DEF Fresh, Paid
<1> QED  BY <1>2, <1>3

\* The level computed is at most the bucket's, and nothing was taken since.
LEMMA RefillPaid ==
    ASSUME IInv, Fresh, Paid, NEW t \in Threads, Refill(t)
    PROVE  Fresh' /\ Paid'
<1> DEFINE s == th[t].session
           b == bucket[s]
           fill == Refilled(b, th[t].now)
<1>1. /\ s \in Sessions /\ th[t].now \in Nat /\ th[t].pc = "refill"
      /\ b.exists /\ b.tokens \in Int /\ b.lastRefill \in Nat
      /\ spent[s] \in Nat /\ lost[s] \in Nat /\ opened[s] \in Nat
  BY DEF Refill, IInv, TypeOK, Local, Solvent, Level
<1>2. fill \in Int /\ fill <= b.tokens + (th[t].now - b.lastRefill)
  BY <1>1, RefilledBounds DEF Level
<1>3. since[t] = 0 /\ Balance(b.tokens, b.lastRefill, spent[s] - lost[s], s) <= 0
  BY <1>1 DEF Fresh, Paid
<1>4. /\ th' = [th EXCEPT ![t].pc = "commit", ![t].fill = fill]
      /\ bucket' = bucket /\ spent' = spent /\ opened' = opened
      /\ since' = since /\ lost' = lost
  BY DEF Refill, history
<1> HIDE DEF fill, b
<1>5. /\ th'[t].fill = fill /\ th'[t].now = th[t].now /\ th'[t].session = s
      /\ th'[t].pc = "commit" /\ \A u \in Threads \ {t} : th'[u] = th[u]
  BY <1>4 DEF IInv, TypeOK, Local
<1> HIDE DEF s
<1>6. Balance(fill, th[t].now, spent[s] - lost[s] - since[t], s) <= 0
  BY <1>1, <1>2, <1>3, FullType DEF Balance
<1> QED  BY <1>4, <1>5, <1>6 DEF Fresh, Paid, Balance

\* The store takes back the grants made since the reading: they are lost, and
\* with them out of the balance the stored level is paid for.
LEMMA CommitPaid ==
    ASSUME IInv, Fresh, Paid, NEW t \in Threads, Commit(t)
    PROVE  Fresh' /\ Paid'
<1> DEFINE s == th[t].session
           fill == th[t].fill
<1>1. PICK c \in Nat :
         /\ c = Taken(fill >= Cost)
         /\ spent' = [spent EXCEPT ![s] = @ + c]
         /\ lost' = [lost EXCEPT ![s] = @ + since[t]]
         /\ since'[t] = 0
         /\ \A u \in Threads \ {t} :
               since'[u] = IF u \in Pending(s) THEN since[u] + c ELSE since[u]
  BY CommitBooks DEF IInv
<1>2. /\ s \in Sessions /\ th[t].now \in Nat /\ th[t].pc = "commit"
      /\ fill \in Int /\ since[t] \in Nat /\ bucket[s].exists
      /\ spent[s] \in Nat /\ lost[s] \in Nat /\ opened[s] \in Nat
  BY DEF Commit, IInv, TypeOK, Local, Level, Solvent
<1>3. Charged(fill) \in Int /\ Charged(fill) = fill - c
  BY <1>1, <1>2, FullType DEF Charged, Taken
<1>4. /\ bucket' = [bucket EXCEPT ![s].tokens = Charged(fill), ![s].lastRefill = th[t].now]
      /\ opened' = opened
  BY DEF Commit
<1>5. /\ bucket'[s].exists /\ bucket'[s].tokens = Charged(fill)
      /\ bucket'[s].lastRefill = th[t].now
      /\ spent'[s] = spent[s] + c /\ lost'[s] = lost[s] + since[t]
      /\ \A q \in Sessions \ {s} :
            bucket'[q] = bucket[q] /\ spent'[q] = spent[q] /\ lost'[q] = lost[q]
  BY <1>1, <1>2, <1>4 DEF IInv, TypeOK
<1>6. th'[t].pc = "idle" /\ \A u \in Threads \ {t} : th'[u] = th[u]
  BY DEF Commit, IInv, TypeOK, Local
<1>7. Balance(fill, th[t].now, spent[s] - lost[s] - since[t], s) <= 0
  BY <1>2 DEF Paid
<1>8. Balance(Charged(fill), th[t].now, spent'[s] - lost'[s], s) <= 0
  <2> HIDE DEF s, fill
  <2> QED  BY <1>1, <1>2, <1>3, <1>5, <1>7, FullType DEF Balance
<1>9. Fresh'
  BY <1>1, <1>6 DEF Fresh, Pending
<1>10. \A u \in Threads \ {t} :
          th[u].pc = "commit" =>
              LET q == th[u].session IN
              Balance(th[u].fill, th[u].now, spent'[q] - lost'[q] - since'[u], q) <= 0
  <2> SUFFICES ASSUME NEW u \in Threads \ {t}, th[u].pc = "commit"
               PROVE  Balance(th[u].fill, th[u].now,
                              spent'[th[u].session] - lost'[th[u].session] - since'[u],
                              th[u].session) <= 0
    OBVIOUS
  <2> DEFINE q == th[u].session
  <2>1. /\ q \in Sessions /\ th[u].now \in Nat /\ th[u].fill \in Int /\ since[u] \in Nat
        /\ spent[q] \in Nat /\ lost[q] \in Nat /\ opened[q] \in Nat
    BY DEF IInv, TypeOK, Local, Level
  <2>2. Balance(th[u].fill, th[u].now, spent[q] - lost[q] - since[u], q) <= 0
    BY DEF Paid
  <2>3. q = s => u \in Pending(s)
    BY DEF Pending
  <2>4. q # s => u \notin Pending(s)
    BY DEF Pending
  <2> HIDE DEF q, s, fill
  <2>5. CASE q = s
    <3>1. since'[u] = since[u] + c
      BY <1>1, <2>3, <2>5
    <3>2. spent'[q] = spent[q] + c /\ lost'[q] = lost[q] + since[t]
      BY <1>5, <2>5
    <3> QED  BY <1>1, <1>2, <2>1, <2>2, <3>1, <3>2, FullType DEF Balance, q
  <2>6. CASE q # s
    <3>1. since'[u] = since[u] /\ spent'[q] = spent[q] /\ lost'[q] = lost[q]
      BY <1>1, <1>5, <2>1, <2>4, <2>6
    <3> QED  BY <2>2, <3>1 DEF q
  <2> QED  BY <2>5, <2>6
<1> HIDE DEF s, fill
<1>11. \A q \in Sessions :
          IF bucket'[q].exists
          THEN Balance(bucket'[q].tokens, bucket'[q].lastRefill, spent'[q] - lost'[q], q) <= 0
          ELSE spent'[q] = 0 /\ lost'[q] = 0
  BY <1>5, <1>8 DEF Paid
<1> QED  BY <1>4, <1>6, <1>9, <1>10, <1>11 DEF Paid, Balance

LEMMA NextPaid ==
    ASSUME IInv, Fresh, Paid, [Next]_vars
    PROVE  Fresh' /\ Paid'
<1>1. CASE Tick \/ UNCHANGED vars
  BY <1>1 DEF Tick, vars, history, Fresh, Paid, Balance
<1> QED  BY <1>1, CheckPaid, SetDefaultPaid, RefillPaid, CommitPaid DEF Next, Stopped

\* However its checks race, a session is granted no more than its capacity, what
\* has flowed in since its first request, and what stale stores have overwritten.
THEOREM GrantsPaid == Spec => []GrantsArePaid
<1>1. Init => Fresh /\ Paid
  BY DEF Init, Fresh, Paid
<1>2. IInv /\ Fresh /\ Paid /\ [Next]_vars => Fresh' /\ Paid'
  BY NextPaid
<1>3. IInv /\ Paid => GrantsArePaid
  <2> SUFFICES ASSUME IInv, Paid, NEW s \in Sessions, bucket[s].exists
               PROVE  spent[s] <= Full + (clock - opened[s]) + lost[s]
    BY DEF GrantsArePaid
  <2>1. bucket[s].tokens + (touched[s] - bucket[s].lastRefill) >= 0 /\ touched[s] <= clock
    BY DEF IInv, Solvent
  <2>2. /\ spent[s] \in Nat /\ lost[s] \in Nat /\ opened[s] \in Nat /\ touched[s] \in Nat
        /\ clock \in Nat /\ bucket[s].tokens \in Int /\ bucket[s].lastRefill \in Nat
    BY DEF IInv, TypeOK, Level
  <2>3. Balance(bucket[s].tokens, bucket[s].lastRefill, spent[s] - lost[s], s) <= 0
    BY DEF Paid
  <2> QED  BY <2>1, <2>2, <2>3, FullType DEF Balance
<1> QED  BY <1>1, <1>2, <1>3, Invariance, PTL DEF Spec
=============================================================================
