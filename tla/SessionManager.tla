--------------------------- MODULE SessionManager ---------------------------
(***************************************************************************)
(* The registry of sessions (backend/app/services/session_manager.py) and  *)
(* the request threads that call it (backend/app/api/sessions.py).         *)
(*                                                                         *)
(* FastAPI runs every synchronous route handler on a thread of a pool, and *)
(* SessionManager has no lock: the interpreter may switch threads at any   *)
(* call.  An action is what one thread does between two such points: the   *)
(* sweep of expired sessions is a scan (one step per record), then one     *)
(* dict.pop and one conn.close per expired session.  Popping and closing   *)
(* take no session.lock; the handlers that use the connection do.          *)
(***************************************************************************)
EXTENDS Integers, FiniteSets

CONSTANTS
    Threads,        \* threads of the pool that serves the sync handlers
    Ids,            \* the session ids uuid4 will hand out, all different
    TTL,            \* session_ttl_minutes, in clock ticks
    MaxTime,        \* bound: the clock stops here
    MaxRequests,    \* bound: requests each thread serves
    None            \* no session, no thread

ASSUME TTLAssumption == TTL \in Nat
ASSUME IdsAssumption == IsFiniteSet(Ids)
ASSUME BoundsAssumption == MaxTime \in Nat /\ MaxRequests \in Nat
ASSUME NoneAssumption == None \notin Threads \cup Ids

VARIABLES
    clock,          \* datetime.now
    registered,     \* the keys of _sessions
    rec,            \* the SessionRecord of each id
    th              \* the request each thread serves, and its local variables

vars == <<clock, registered, rec, th>>

\* create: POST /sessions.  messages: GET messages, whose handler only reads
\* the record.  tables: GET tables, whose handler uses conn under the lock, as
\* an upload and a question do.  delete: DELETE /sessions/{id}.
Ops == {"create", "messages", "tables", "delete"}
PCs == {"idle", "enter", "scan", "pop", "closing", "insert", "lookup", "touch",
        "acquire", "using", "unregister"}

\* rank: position in _sessions' insertion order, 0 before the session exists.
Record == [rank: Nat, createdAt: Nat, lastAccessed: Nat,
           conn: {"none", "open", "closed"}, lock: Threads \cup {None}]

\* id: the session a request names or creates.  now: the instant its manager
\* call read.  size, visited: the dict's size when the scan began, the records
\* it has tested.  expired: expired_ids not popped yet.  victim: popped and not
\* closed yet.  outcome: the last answer (2xx, 404, 500).  late: the session
\* named was already gone when the request began.  served: requests begun.
Local == [pc: PCs, op: Ops, id: Ids \cup {None}, now: Nat, size: Nat,
          visited: SUBSET Ids, expired: SUBSET Ids, victim: Ids \cup {None},
          outcome: {"none", "pending", "ok", "missing", "error"},
          late: BOOLEAN, served: Nat]

TypeOK ==
    /\ clock \in Nat
    /\ registered \in SUBSET Ids
    /\ rec \in [Ids -> Record]
    /\ th \in [Threads -> Local]

Init ==
    /\ clock = 0
    /\ registered = {}
    /\ rec = [i \in Ids |-> [rank |-> 0, createdAt |-> 0, lastAccessed |-> 0,
                             conn |-> "none", lock |-> None]]
    /\ th = [t \in Threads |->
               [pc |-> "idle", op |-> "create", id |-> None, now |-> 0, size |-> 0,
                visited |-> {}, expired |-> {}, victim |-> None,
                outcome |-> "none", late |-> FALSE, served |-> 0]]

-----------------------------------------------------------------------------
(* Helpers.                                                                *)

Goto(t, to) == th' = [th EXCEPT ![t].pc = to]

\* The handler returns or raises, and its local variables die.
Finish(t, answer) ==
    th' = [th EXCEPT ![t].pc = "idle", ![t].outcome = answer, ![t].now = 0,
                     ![t].size = 0, ![t].visited = {}, ![t].expired = {},
                     ![t].victim = None]

Known == {i \in Ids : rec[i].conn # "none"}

\* A dict iterates in insertion order.
IsFirst(i, S) == i \in S /\ \A j \in S : rec[i].rank <= rec[j].rank

IsExpiredEarly(i, t) == th[t].now - rec[i].lastAccessed >= TTL
IsExpired(i, t) == th[t].now - rec[i].lastAccessed > TTL

\* _sessions.pop(i).  The mutant reads the record and leaves it in the dict.
DictGet(i) == UNCHANGED registered
DictPop(i) == registered' = registered \ {i}

\* record.last_accessed_at = now.  The mutant stores the record back, as the
\* touch of a least-recently-used map would.
StoreBack(t) ==
    /\ rec' = [rec EXCEPT ![th[t].id].lastAccessed = th[t].now]
    /\ registered' = registered \cup {th[t].id}
Refresh(t) ==
    /\ rec' = [rec EXCEPT ![th[t].id].lastAccessed = th[t].now]
    /\ UNCHANGED registered

\* The mutants: a use of conn that takes no lock, a return that leaves it held.
Unguarded(i) == TRUE
LockFree(i) == rec[i].lock = None
StillLocked(i) == rec[i].lock
Unlocked(i) == None

-----------------------------------------------------------------------------
(* A request reaches a handler.  A client names only sessions it has been  *)
(* told of; uuid4 gives every create an id of its own.                     *)

Request(t, o, i) ==
    /\ th[t].pc = "idle"
    /\ th[t].served < MaxRequests
    /\ IF o = "create" THEN i \notin Known /\ \A u \in Threads : th[u].id # i
                       ELSE i \in Known
    /\ th' = [th EXCEPT ![t].pc = IF o = "delete" THEN "unregister" ELSE "enter",
                        ![t].op = o, ![t].id = i, ![t].outcome = "pending",
                        ![t].late = o # "create" /\ i \notin registered,
                        ![t].served = @ + 1]
    /\ UNCHANGED <<clock, registered, rec>>

\* create_session and get_session read the clock, then call _sweep_expired.
Enter(t) ==
    /\ th[t].pc = "enter"
    /\ th' = [th EXCEPT ![t].pc = "scan", ![t].now = clock]
    /\ UNCHANGED <<clock, registered, rec>>

-----------------------------------------------------------------------------
(* _sweep_expired: the comprehension over _sessions.items().  The iterator *)
(* raises RuntimeError once the dict's size differs from what it was when  *)
(* the scan began, or when it finds more keys than the dict had.           *)

Unvisited(t) == registered \ th[t].visited

StartSize(t) == IF th[t].visited = {} THEN Cardinality(registered) ELSE th[t].size

IteratorValid(t) ==
    /\ Cardinality(registered) = StartSize(t)
    /\ Unvisited(t) # {} => Cardinality(th[t].visited) < StartSize(t)

ScanRecord(t, i) ==
    /\ th[t].pc = "scan"
    /\ IteratorValid(t)
    /\ IsFirst(i, Unvisited(t))
    /\ th' = [th EXCEPT ![t].size = StartSize(t),
                        ![t].visited = @ \cup {i},
                        ![t].expired = @ \cup {j \in {i} : IsExpired(j, t)}]
    /\ UNCHANGED <<clock, registered, rec>>

ScanEnds(t) ==
    /\ th[t].pc = "scan"
    /\ \/ /\ IteratorValid(t)
          /\ Unvisited(t) = {}
          /\ th' = [th EXCEPT ![t].pc = "pop", ![t].size = 0, ![t].visited = {}]
       \/ ~IteratorValid(t) /\ Finish(t, "error")
    /\ UNCHANGED <<clock, registered, rec>>

-----------------------------------------------------------------------------
(* _sweep_expired: the loop that pops and closes what the scan found.      *)

\* The mutant drops the record and leaves the connection to itself.
SweepDrop(t, i) ==
    /\ th[t].pc = "pop"
    /\ IsFirst(i, th[t].expired)
    /\ i \in registered
    /\ DictPop(i)
    /\ th' = [th EXCEPT ![t].expired = @ \ {i}]
    /\ UNCHANGED <<clock, rec>>
SweepPop(t, i) ==
    /\ th[t].pc = "pop"
    /\ IsFirst(i, th[t].expired)
    /\ i \in registered
    /\ DictPop(i)
    /\ th' = [th EXCEPT ![t].pc = "closing", ![t].victim = i, ![t].expired = @ \ {i}]
    /\ UNCHANGED <<clock, rec>>

\* Another thread has popped the session since the scan: KeyError.
SweepRaises(t, i) ==
    /\ th[t].pc = "pop"
    /\ IsFirst(i, th[t].expired)
    /\ i \notin registered
    /\ Finish(t, "error")
    /\ UNCHANGED <<clock, registered, rec>>

\* conn.close() of the popped record, by a sweep or by close_session.
Close(t) ==
    /\ th[t].pc = "closing"
    /\ rec' = [rec EXCEPT ![th[t].victim].conn = "closed"]
    /\ IF th[t].op = "delete"
       THEN Finish(t, "ok")
       ELSE th' = [th EXCEPT ![t].pc = "pop", ![t].victim = None]
    /\ UNCHANGED <<clock, registered>>

SweepDone(t) ==
    /\ th[t].pc = "pop"
    /\ th[t].expired = {}
    /\ Goto(t, IF th[t].op = "create" THEN "insert" ELSE "lookup")
    /\ UNCHANGED <<clock, registered, rec>>

-----------------------------------------------------------------------------
(* The rest of create_session and get_session, and close_session.          *)

Insert(t) ==
    /\ th[t].pc = "insert"
    /\ registered' = registered \cup {th[t].id}
    /\ rec' = [rec EXCEPT ![th[t].id] =
                 [rank |-> Cardinality(Known) + 1, createdAt |-> th[t].now,
                  lastAccessed |-> th[t].now, conn |-> "open", lock |-> None]]
    /\ Finish(t, "ok")
    /\ UNCHANGED clock

Lookup(t) ==
    /\ th[t].pc = "lookup"
    /\ IF th[t].id \in registered THEN Goto(t, "touch") ELSE Finish(t, "missing")
    /\ UNCHANGED <<clock, registered, rec>>

Touch(t) ==
    /\ th[t].pc = "touch"
    /\ Refresh(t)
    /\ IF th[t].op = "tables" THEN Goto(t, "acquire") ELSE Finish(t, "ok")
    /\ UNCHANGED clock

Unregister(t) ==
    /\ th[t].pc = "unregister"
    /\ \/ /\ th[t].id \in registered
          /\ DictPop(th[t].id)
          /\ th' = [th EXCEPT ![t].pc = "closing", ![t].victim = th[t].id]
       \/ th[t].id \notin registered /\ Finish(t, "missing") /\ UNCHANGED registered
    /\ UNCHANGED <<clock, rec>>

-----------------------------------------------------------------------------
(* The handler's direct use of record.conn, `with session.lock: ...`.  On  *)
(* a connection closed in the meantime every statement raises; a session   *)
(* without tables has none to execute.                                     *)

Acquire(t) ==
    /\ th[t].pc = "acquire"
    /\ LockFree(th[t].id)
    /\ rec' = [rec EXCEPT ![th[t].id].lock = t]
    /\ Goto(t, "using")
    /\ UNCHANGED <<clock, registered>>

Release(t) ==
    /\ th[t].pc = "using"
    /\ rec' = [rec EXCEPT ![th[t].id].lock = Unlocked(th[t].id)]
    /\ \/ Finish(t, "ok")
       \/ rec[th[t].id].conn # "open" /\ Finish(t, "error")
    /\ UNCHANGED <<clock, registered>>

-----------------------------------------------------------------------------

Tick ==
    /\ clock < MaxTime
    /\ clock' = clock + 1
    /\ UNCHANGED <<registered, rec, th>>

\* The bounded workload is over: nothing is left to do.
Stopped ==
    /\ clock = MaxTime
    /\ \A t \in Threads : th[t].pc = "idle"
    /\ UNCHANGED vars

\* What a thread does without waiting for a client.
Step(t) ==
    \/ Enter(t)
    \/ \E i \in Ids : ScanRecord(t, i) \/ SweepPop(t, i) \/ SweepRaises(t, i)
    \/ ScanEnds(t) \/ Close(t) \/ SweepDone(t)
    \/ Insert(t) \/ Lookup(t) \/ Touch(t) \/ Unregister(t)
    \/ Acquire(t) \/ Release(t)

Next ==
    \/ \E t \in Threads : Step(t)
    \/ \E t \in Threads, o \in Ops, i \in Ids : Request(t, o, i)
    \/ Tick
    \/ Stopped

Spec == Init /\ [][Next]_vars

\* The operating system runs every thread that can run; requests and the
\* passing of time are promised by nobody.
FairSpec == Spec /\ \A t \in Threads : WF_vars(Step(t))

-----------------------------------------------------------------------------
(* Safety.                                                                 *)

\* A session that can still be looked up has an open connection: no request
\* gets hold of a record whose sweep or delete is already over
\* (session_manager.py pops before it closes).
RegisteredIsOpen == \A i \in registered : rec[i].conn = "open"

\* Overlapping sweeps and deletes of one session never close its connection
\* twice, nor while the session is registered: dict.pop hands it to one of them.
ClosedByOne ==
    \A t \in Threads : th[t].pc = "closing" =>
        /\ rec[th[t].victim].conn = "open"
        /\ th[t].victim \notin registered
        /\ \A u \in Threads \ {t} : th[u].pc = "closing" => th[u].victim # th[t].victim

\* Two handlers never use one connection at once (the reason for session.lock).
ConnUseExclusive ==
    \A t, u \in Threads :
        th[t].pc = "using" /\ th[u].pc = "using" /\ th[t].id = th[u].id => t = u

\* A 404 is final: the session it is about is not registered, then or later.
MissingIsGone ==
    \A t \in Threads : th[t].outcome = "missing" => th[t].id \notin registered

\* No interleaving of touch, sweep and delete brings a session back: one that was
\* gone when a request began is not served to it, and one a client was told is
\* missing (the frontend drops its stored id then) stays gone.
GoneStaysGone ==
    /\ \A t \in Threads : th[t].late => th[t].outcome # "ok"
    /\ MissingIsGone

\* A sweep evicts no session before its first TTL is over, whatever stale
\* instants the racing requests compare with and write back.
Evicts(t, i) == th[t].pc = "pop" /\ th'[t].victim = i
NoEarlyEviction ==
    [][\A t \in Threads, i \in Ids :
           Evicts(t, i) => clock - rec[i].createdAt > TTL]_vars

-----------------------------------------------------------------------------
(* Refinement: the racing threads implement one atomic registry.           *)

Phase(i) == CASE rec[i].conn = "none"   -> "absent"
              [] i \in registered       -> "live"
              [] rec[i].conn = "closed" -> "closed"
              [] OTHER                  -> "removed"

\* A request is decided once it has looked the session up, or popped it.
CallState(t) ==
    CASE th[t].pc = "idle" -> "idle"
      [] th[t].pc \in {"touch", "acquire", "using"} -> "found"
      [] th[t].pc = "closing" /\ th[t].op = "delete" -> "found"
      [] OTHER -> "asked"

Lifecycle == INSTANCE SessionLifecycle WITH
    Clients <- Threads,
    phase <- [i \in Ids |-> Phase(i)],
    call <- [t \in Threads |->
               [state |-> CallState(t), op |-> th[t].op, id |-> th[t].id,
                answer |-> IF th[t].outcome = "pending" THEN "none"
                           ELSE th[t].outcome]]

\* Seen through the API, every session is opened once, removed once and closed
\* once, and every answer tells what was true at one instant of the request.
LifecycleRefined == Lifecycle!Spec

-----------------------------------------------------------------------------
(* Liveness, under FairSpec.                                               *)

\* Every request is answered: no handler waits for a lock for ever, although
\* a session may be swept or deleted while its lock is held.
RequestsAnswered == \A t \in Threads : th[t].pc # "idle" ~> th[t].pc = "idle"

\* No connection leaks: what has left the dict is closed, even when the sweep
\* that popped it later fails.
RemovedIsClosed ==
    \A i \in Ids : rec[i].conn = "open" /\ i \notin registered ~> rec[i].conn = "closed"

-----------------------------------------------------------------------------
(* What the repository says and the code does not do.                      *)

\* "Every direct use of conn takes this lock first": nobody closes a
\* connection that a handler is using.
ClosedUnderLock ==
    \A t, u \in Threads :
        th[t].pc = "closing" /\ th[u].pc = "using" => th[t].victim # th[u].id
=============================================================================
