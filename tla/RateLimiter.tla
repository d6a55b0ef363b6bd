---------------------------- MODULE RateLimiter ----------------------------
(***************************************************************************)
(* The token bucket in front of the chat endpoint                          *)
(* (backend/app/services/rate_limiter.py), called by the threads that      *)
(* serve POST /sessions/{id}/messages.  RateLimiter has no lock: a check   *)
(* reads the clock, finds its bucket, computes the refilled level, and     *)
(* stores it; another check of the same session may run between any two of *)
(* these steps.  After the call of min() the code makes no call, so        *)
(* storing, comparing and taking the token is one step.                    *)
(*                                                                         *)
(* A tick is the time in which one unit flows into a bucket and a token is *)
(* Cost units, so that the level, a float in the code, is an integer here. *)
(***************************************************************************)
EXTENDS Integers

CONSTANTS
    Threads,        \* threads of the pool
    Sessions,       \* keys of _buckets
    Capacity,       \* rate_limit_capacity, in tokens
    Cost,           \* ticks it takes to refill one token
    MaxTime,        \* bound: the clock stops here
    MaxChecks       \* bound: calls of check each thread makes

ASSUME CapacityAssumption == Capacity \in Nat \ {0}
ASSUME CostAssumption == Cost \in Nat \ {0}
ASSUME BoundsAssumption == MaxTime \in Nat /\ MaxChecks \in Nat

VARIABLES
    clock,          \* time.monotonic
    bucket,         \* the _Bucket of each session
    th,             \* the check each thread is in, and its local variables
    spent,          \* history: units the admitted checks of a session stand for
    opened,         \* history: instant at which the bucket was made, full
    touched,        \* history: instant of the last store to the bucket
    since,          \* history: units admitted after a check read the level it will store
    lost            \* history: units whose taking such a store has undone

vars == <<clock, bucket, th, spent, opened, touched, since, lost>>
history == <<spent, opened, touched, since, lost>>

Full == Capacity * Cost

\* What a bucket may hold: it is never over capacity, but may be below zero.
Level == {n \in Int : n <= Full}

Local == [pc: {"idle", "bucket", "refill", "commit"}, session: Sessions, now: Nat,
          fill: Level, answer: {"none", "admitted", "refused"}, made: Nat]

TypeOK ==
    /\ clock \in Nat
    /\ bucket \in [Sessions -> [exists: BOOLEAN, tokens: Level, lastRefill: Nat]]
    /\ th \in [Threads -> Local]
    /\ spent \in [Sessions -> Nat]
    /\ opened \in [Sessions -> Nat]
    /\ touched \in [Sessions -> Nat]
    /\ since \in [Threads -> Nat]
    /\ lost \in [Sessions -> Nat]

Init ==
    /\ clock = 0
    /\ bucket = [s \in Sessions |-> [exists |-> FALSE, tokens |-> 0, lastRefill |-> 0]]
    /\ \E s \in Sessions :
          th = [t \in Threads |-> [pc |-> "idle", session |-> s, now |-> 0, fill |-> 0,
                                   answer |-> "none", made |-> 0]]
    /\ spent = [s \in Sessions |-> 0]
    /\ opened = [s \in Sessions |-> 0]
    /\ touched = [s \in Sessions |-> 0]
    /\ since = [t \in Threads |-> 0]
    /\ lost = [s \in Sessions |-> 0]

-----------------------------------------------------------------------------
(* check(session_id), step by step.                                        *)

\* now = time.monotonic()
Check(t, s) ==
    /\ th[t].pc = "idle"
    /\ th[t].made < MaxChecks
    /\ th' = [th EXCEPT ![t].pc = "bucket", ![t].session = s, ![t].now = clock,
                        ![t].answer = "none", ![t].made = @ + 1]
    /\ UNCHANGED <<clock, bucket, history>>

\* _buckets.setdefault(session_id, _Bucket(tokens=capacity, last_refill=now))
SetDefault(t) ==
    LET s == th[t].session IN
    /\ th[t].pc = "bucket"
    /\ IF bucket[s].exists
       THEN UNCHANGED <<bucket, opened, touched>>
       ELSE /\ bucket' = [bucket EXCEPT ![s] = [exists |-> TRUE, tokens |-> Full,
                                                lastRefill |-> th[t].now]]
            /\ opened' = [opened EXCEPT ![s] = th[t].now]
            /\ touched' = [touched EXCEPT ![s] = th[t].now]
    /\ th' = [th EXCEPT ![t].pc = "refill"]
    /\ UNCHANGED <<clock, spent, since, lost>>

\* The level of a bucket at an instant: min(capacity, tokens + elapsed * rate).
\* elapsed is negative when another check has stored a later last_refill.
\* The mutant counts time twice.
RefilledTwice(b, now) ==
    LET sum == b.tokens + 2 * (now - b.lastRefill) IN IF sum < Full THEN sum ELSE Full
Refilled(b, now) ==
    LET sum == b.tokens + (now - b.lastRefill) IN IF sum < Full THEN sum ELSE Full

\* _refill up to the return of min(): the level is computed, not stored.
Refill(t) ==
    /\ th[t].pc = "refill"
    /\ th' = [th EXCEPT ![t].pc = "commit",
                        ![t].fill = Refilled(bucket[th[t].session], th[t].now)]
    /\ UNCHANGED <<clock, bucket, history>>

\* What a check leaves in the bucket.  The mutant charges refusals too.
ChargedAlways(fill) == fill - Cost
Charged(fill) == IF fill < Cost THEN fill ELSE fill - Cost

\* The units an admitted check takes.
Taken(admit) == IF admit THEN Cost ELSE 0

\* Checks that have read the level of a session's bucket and will store theirs.
Pending(s) == {t \in Threads : th[t].pc = "commit" /\ th[t].session = s}

\* The rest of _refill and check: store, compare, take the token.
Commit(t) ==
    LET s == th[t].session
        admit == th[t].fill >= Cost
    IN
    /\ th[t].pc = "commit"
    /\ bucket' = [bucket EXCEPT ![s].tokens = Charged(th[t].fill),
                                ![s].lastRefill = th[t].now]
    /\ touched' = [touched EXCEPT ![s] = clock]
    /\ spent' = [spent EXCEPT ![s] = @ + Taken(admit)]
    /\ lost' = [lost EXCEPT ![s] = @ + since[t]]
    /\ since' = [u \in Threads |->
                     IF u = t THEN 0
                     ELSE IF u \in Pending(s) THEN since[u] + Taken(admit) ELSE since[u]]
    /\ th' = [th EXCEPT ![t].pc = "idle", ![t].fill = 0, ![t].now = 0,
                        ![t].answer = IF admit THEN "admitted" ELSE "refused"]
    /\ UNCHANGED <<clock, opened>>

Tick ==
    /\ clock < MaxTime
    /\ clock' = clock + 1
    /\ UNCHANGED <<bucket, th, history>>

\* The bounded workload is over.
Stopped ==
    /\ clock = MaxTime
    /\ \A t \in Threads : th[t].pc = "idle" /\ th[t].made = MaxChecks
    /\ UNCHANGED vars

Next ==
    \/ \E t \in Threads : SetDefault(t) \/ Refill(t) \/ Commit(t)
    \/ \E t \in Threads, s \in Sessions : Check(t, s)
    \/ Tick
    \/ Stopped

Spec == Init /\ [][Next]_vars

-----------------------------------------------------------------------------
(* Safety.                                                                 *)

\* The level can be stored below zero, by a check that read the clock before
\* the check it overtakes; at the present instant no bucket is in debt, so that
\* every session gets a token back after Cost ticks of rest.
NeverInDebt ==
    \A s \in Sessions :
        bucket[s].exists => bucket[s].tokens + (clock - bucket[s].lastRefill) >= 0

\* A check is refused only if the session's bucket was used less than a token's
\* time before it: the races never lock a session out.
RefusalJustified ==
    [][\A t \in Threads :
           th[t].pc = "commit" /\ th'[t].pc = "idle" /\ th'[t].answer = "refused" =>
               touched[th[t].session] + Cost > th[t].now]_vars

\* "Consume one token": all that a session has been granted since its bucket
\* was made is the capacity and what has flowed in since, and beyond that no more
\* than what overlapping checks have lost: the units admitted between a check's
\* reading of the level and its store, which overwrites their taking.
GrantsArePaid ==
    \A s \in Sessions :
        bucket[s].exists => spent[s] <= Full + (clock - opened[s]) + lost[s]
=============================================================================
