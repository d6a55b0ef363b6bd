------------------------ MODULE SessionManagerProofs ------------------------
(***************************************************************************)
(* Proofs about SessionManager: for any number of threads, sessions and    *)
(* requests, any TTL, and any interleaving of sweeps, lookups, deletes and *)
(* uses of a connection.                                                   *)
(*                                                                         *)
(* The invariants below are not inductive by themselves.  What makes them  *)
(* so is bookkeeping the code keeps implicitly: which operation a thread   *)
(* at a given point can be serving (PcOp), that the id of a create under   *)
(* way is nobody else's and unknown to the dict (CreateFresh), that a      *)
(* thread inside `with session.lock` holds that lock (UserHoldsLock), and  *)
(* that a request for a lost session cannot have passed the lookup (Lost). *)
(* The second half of the module adds what holds of the instants (Ages: no *)
(* instant a thread holds of a session lies before its creation) and shows *)
(* each step to be one step of SessionLifecycle, or none.                  *)
(* By that refinement what holds of the registry's phases holds of the     *)
(* threads.  The last part is about progress: a lock that is taken has its *)
(* user, a session popped has its closer (Progress), and the steps a       *)
(* request has left (Work) are bounded and count down.                     *)
(***************************************************************************)
EXTENDS SessionManager, FiniteSetTheorems, WellFoundedInduction, TLAPS

PcOp ==
    \A t \in Threads :
        /\ th[t].pc # "idle" => th[t].id \in Ids
        /\ th[t].pc = "insert" => th[t].op = "create"
        /\ th[t].pc \in {"lookup", "touch"} => th[t].op \in {"messages", "tables"}
        /\ th[t].pc \in {"acquire", "using"} => th[t].op = "tables"
        /\ th[t].pc = "unregister" => th[t].op = "delete"
        /\ th[t].pc \in {"enter", "scan", "pop"} => th[t].op # "delete"
        /\ th[t].op # "create" => th[t].id \in Known
        /\ th[t].pc = "closing" => th[t].victim \in Ids

CreateFresh ==
    \A t \in Threads :
        th[t].op = "create" /\ th[t].pc # "idle" =>
            /\ th[t].id \notin Known
            /\ \A u \in Threads \ {t} : th[u].id # th[t].id

UserHoldsLock ==
    \A t \in Threads : th[t].pc = "using" => rec[th[t].id].lock = t

Lost ==
    \A t \in Threads :
        /\ th[t].late =>
             /\ th[t].op # "create"
             /\ th[t].id \notin registered
             /\ th[t].pc \notin {"touch", "acquire", "using"}
             /\ th[t].op = "delete" => th[t].pc # "closing"
             /\ th[t].outcome # "ok"
        /\ th[t].outcome = "missing" => th[t].op # "create"

IInv ==
    /\ TypeOK
    /\ PcOp
    /\ CreateFresh
    /\ RegisteredIsOpen
    /\ ClosedByOne
    /\ UserHoldsLock
    /\ Lost
    /\ MissingIsGone

USE TTLAssumption, BoundsAssumption, NoneAssumption

\* The initial state satisfies the inductive invariant: no session, no request.
LEMMA InitIInv == Init => IInv
BY DEF Init, IInv, TypeOK, Record, Local, PCs, Ops, PcOp, CreateFresh, Known,
       RegisteredIsOpen, ClosedByOne, UserHoldsLock, Lost, MissingIsGone

\* What len() of the dict and of the scan's bookkeeping returns is a number.
LEMMA SizesAreNat ==
    ASSUME TypeOK, NEW t \in Threads
    PROVE  /\ Cardinality(registered) \in Nat
           /\ Cardinality(Known) \in Nat
           /\ StartSize(t) \in Nat
<1>1. IsFiniteSet(registered) /\ IsFiniteSet(Known)
  BY IdsAssumption, FS_Subset DEF TypeOK, Known
<1>2. Cardinality(registered) \in Nat /\ Cardinality(Known) \in Nat
  BY <1>1, FS_CardinalityType
<1> QED  BY <1>2 DEF StartSize, TypeOK, Local

\* A new request: only a create names an id nobody else names.
LEMMA RequestIInv ==
    ASSUME IInv, NEW t \in Threads, NEW o \in Ops, NEW i \in Ids, Request(t, o, i)
    PROVE  IInv'
<1> DEFINE R == [th[t] EXCEPT !.pc = IF o = "delete" THEN "unregister" ELSE "enter",
                 !.op = o, !.id = i, !.outcome = "pending",
                 !.late = o # "create" /\ i \notin registered,
                 !.served = @ + 1]
<1>1. th[t] \in Local
  BY DEF IInv, TypeOK
<1>2. /\ (o # "create" /\ i \notin registered) \in BOOLEAN
      /\ (IF o = "delete" THEN "unregister" ELSE "enter") \in PCs
      /\ th[t].served + 1 \in Nat
  BY <1>1 DEF PCs, Local
<1>3. R \in Local
  BY <1>1, <1>2 DEF Local, PCs, Ops, IInv, TypeOK
<1>4. th' = [th EXCEPT ![t] = R]
  BY DEF Request, IInv, TypeOK
<1>5. rec' \in [Ids -> Record]
  BY <1>1 DEF Request, IInv, TypeOK, Record, Local
<1>6. TypeOK'
  BY <1>3, <1>4, <1>5 DEF Request, IInv, TypeOK
<1>7. \A u \in Threads \ {t} : th'[u] = th[u]
  BY <1>4 DEF IInv, TypeOK
<1>8. /\ th[t].pc = "idle"
      /\ th'[t].pc = IF o = "delete" THEN "unregister" ELSE "enter"
      /\ th'[t].op = o /\ th'[t].id = i /\ th'[t].outcome = "pending"
      /\ th'[t].late = (o # "create" /\ i \notin registered)
      /\ IF o = "create" THEN i \notin Known /\ \A u \in Threads : th[u].id # i ELSE i \in Known
  BY <1>1, <1>4 DEF Request, IInv, TypeOK, Local
<1>9. rec' = rec
  BY DEF Request, IInv, TypeOK, Record
<1>10. Known' = Known
  BY <1>8, <1>9 DEF Known, IInv, ClosedByOne, PcOp
<1>11. registered' = registered
  BY DEF Request
<1> HIDE DEF R
<1>12. PcOp'
  BY <1>7, <1>8, <1>9, <1>10, <1>11 DEF IInv, PcOp, Ops
<1>13. CreateFresh'
  BY <1>7, <1>8, <1>9, <1>10, <1>11 DEF IInv, CreateFresh, PcOp
<1>14. RegisteredIsOpen'
  BY <1>7, <1>8, <1>9, <1>10, <1>11 DEF IInv, RegisteredIsOpen, PcOp, CreateFresh, ClosedByOne, TypeOK
<1>15. ClosedByOne'
  BY <1>7, <1>8, <1>9, <1>10, <1>11 DEF IInv, ClosedByOne, RegisteredIsOpen, PcOp, CreateFresh, TypeOK
<1>16. UserHoldsLock'
  BY <1>7, <1>8, <1>9, <1>10, <1>11 DEF IInv, UserHoldsLock, PcOp, CreateFresh
<1>17. Lost'
  BY <1>7, <1>8, <1>9, <1>10, <1>11 DEF IInv, Lost, PcOp, CreateFresh
<1>18. MissingIsGone'
  BY <1>7, <1>8, <1>9, <1>10, <1>11 DEF IInv, MissingIsGone, Lost, PcOp, CreateFresh
<1> QED  BY <1>6, <1>12, <1>13, <1>14, <1>15, <1>16, <1>17, <1>18 DEF IInv

\* Reading the clock.
LEMMA EnterIInv ==
    ASSUME IInv, NEW t \in Threads, Enter(t)
    PROVE  IInv'
<1> DEFINE R == [th[t] EXCEPT !.pc = "scan", !.now = clock]
<1>1. th[t] \in Local
  BY DEF IInv, TypeOK
<1>3. R \in Local
  BY <1>1 DEF Local, PCs, IInv, TypeOK
<1>4. th' = [th EXCEPT ![t] = R]
  BY DEF Enter, IInv, TypeOK
<1>5. rec' \in [Ids -> Record]
  BY <1>1 DEF Enter, IInv, TypeOK, Record, Local
<1>6. TypeOK'
  BY <1>3, <1>4, <1>5 DEF Enter, IInv, TypeOK
<1>7. \A u \in Threads \ {t} : th'[u] = th[u]
  BY <1>4 DEF IInv, TypeOK
<1>8. /\ th[t].pc = "enter"
      /\ th'[t].op = th[t].op /\ th'[t].id = th[t].id /\ th'[t].late = th[t].late
      /\ th'[t].pc = "scan" /\ th'[t].outcome = th[t].outcome /\ th'[t].victim = th[t].victim
  BY <1>1, <1>4 DEF Enter, IInv, TypeOK, Local
<1>9. rec' = rec
  BY DEF Enter, IInv, TypeOK, Record
<1>10. Known' = Known
  BY <1>8, <1>9 DEF Known, IInv, ClosedByOne, PcOp
<1>11. registered' = registered
  BY DEF Enter
<1> HIDE DEF R
<1>12. PcOp'
  BY <1>7, <1>8, <1>9, <1>10, <1>11 DEF IInv, PcOp
<1>13. CreateFresh'
  BY <1>7, <1>8, <1>9, <1>10, <1>11 DEF IInv, CreateFresh, PcOp
<1>14. RegisteredIsOpen'
  BY <1>7, <1>8, <1>9, <1>10, <1>11 DEF IInv, RegisteredIsOpen, PcOp, CreateFresh, ClosedByOne, TypeOK
<1>15. ClosedByOne'
  BY <1>7, <1>8, <1>9, <1>10, <1>11 DEF IInv, ClosedByOne, RegisteredIsOpen, PcOp, CreateFresh, TypeOK
<1>16. UserHoldsLock'
  BY <1>7, <1>8, <1>9, <1>10, <1>11 DEF IInv, UserHoldsLock, PcOp, CreateFresh
<1>17. Lost'
  BY <1>7, <1>8, <1>9, <1>10, <1>11 DEF IInv, Lost, PcOp, CreateFresh
<1>18. MissingIsGone'
  BY <1>7, <1>8, <1>9, <1>10, <1>11 DEF IInv, MissingIsGone, Lost, PcOp, CreateFresh
<1> QED  BY <1>6, <1>12, <1>13, <1>14, <1>15, <1>16, <1>17, <1>18 DEF IInv

\* Testing one record.
LEMMA ScanRecordIInv ==
    ASSUME IInv, NEW t \in Threads, NEW i \in Ids, ScanRecord(t, i)
    PROVE  IInv'
<1> DEFINE R == [th[t] EXCEPT !.size = StartSize(t), !.visited = @ \cup {i},
                 !.expired = @ \cup {j \in {i} : IsExpired(j, t)}]
<1>1. th[t] \in Local
  BY DEF IInv, TypeOK
<1>2. Cardinality(registered) \in Nat /\ Cardinality(Known) \in Nat /\ StartSize(t) \in Nat
  BY SizesAreNat DEF IInv
<1>3. R \in Local
  BY <1>1, <1>2 DEF Local, PCs, IInv, TypeOK
<1>4. th' = [th EXCEPT ![t] = R]
  BY DEF ScanRecord, IInv, TypeOK
<1>5. rec' \in [Ids -> Record]
  BY <1>1, <1>2 DEF ScanRecord, IInv, TypeOK, Record, Local
<1>6. TypeOK'
  BY <1>3, <1>4, <1>5 DEF ScanRecord, IInv, TypeOK
<1>7. \A u \in Threads \ {t} : th'[u] = th[u]
  BY <1>4 DEF IInv, TypeOK
<1>8. /\ th[t].pc = "scan"
      /\ th'[t].op = th[t].op /\ th'[t].id = th[t].id /\ th'[t].late = th[t].late
      /\ th'[t].pc = "scan" /\ th'[t].outcome = th[t].outcome /\ th'[t].victim = th[t].victim
  <2>1. th[t].pc = "scan"
    BY DEF ScanRecord
  <2> QED  BY <2>1, <1>1, <1>4 DEF IInv, TypeOK, Local
<1>9. rec' = rec
  BY DEF ScanRecord, IInv, TypeOK, Record
<1>10. Known' = Known
  BY <1>8, <1>9 DEF Known, IInv, ClosedByOne, PcOp
<1>11. registered' = registered
  BY DEF ScanRecord
<1> HIDE DEF R
<1>12. PcOp'
  BY <1>7, <1>8, <1>9, <1>10, <1>11 DEF IInv, PcOp
<1>13. CreateFresh'
  BY <1>7, <1>8, <1>9, <1>10, <1>11 DEF IInv, CreateFresh, PcOp
<1>14. RegisteredIsOpen'
  BY <1>7, <1>8, <1>9, <1>10, <1>11 DEF IInv, RegisteredIsOpen, PcOp, CreateFresh, ClosedByOne, TypeOK
<1>15. ClosedByOne'
  BY <1>7, <1>8, <1>9, <1>10, <1>11 DEF IInv, ClosedByOne, RegisteredIsOpen, PcOp, CreateFresh, TypeOK
<1>16. UserHoldsLock'
  BY <1>7, <1>8, <1>9, <1>10, <1>11 DEF IInv, UserHoldsLock, PcOp, CreateFresh
<1>17. Lost'
  BY <1>7, <1>8, <1>9, <1>10, <1>11 DEF IInv, Lost, PcOp, CreateFresh
<1>18. MissingIsGone'
  BY <1>7, <1>8, <1>9, <1>10, <1>11 DEF IInv, MissingIsGone, Lost, PcOp, CreateFresh
<1> QED  BY <1>6, <1>12, <1>13, <1>14, <1>15, <1>16, <1>17, <1>18 DEF IInv

\* The scan ends, or raises.
LEMMA ScanEndsIInv ==
    ASSUME IInv, NEW t \in Threads, ScanEnds(t)
    PROVE  IInv'
<1> DEFINE R1 == [th[t] EXCEPT !.pc = "pop", !.size = 0, !.visited = {}]
<1> DEFINE R2 == [th[t] EXCEPT !.pc = "idle", !.outcome = "error", !.now = 0, !.size = 0,
                  !.visited = {}, !.expired = {}, !.victim = None]
<1>1. th[t] \in Local
  BY DEF IInv, TypeOK
<1>3. R1 \in Local /\ R2 \in Local
  BY <1>1 DEF Local, PCs, IInv, TypeOK
<1>4. th' = [th EXCEPT ![t] = R1] \/ th' = [th EXCEPT ![t] = R2]
  BY DEF ScanEnds, Finish, IInv, TypeOK
<1>5. rec' \in [Ids -> Record]
  BY <1>1 DEF ScanEnds, Finish, IInv, TypeOK, Record, Local
<1>6. TypeOK'
  BY <1>3, <1>4, <1>5 DEF ScanEnds, Finish, IInv, TypeOK
<1>7. \A u \in Threads \ {t} : th'[u] = th[u]
  BY <1>4 DEF IInv, TypeOK
<1>8. /\ th[t].pc = "scan"
      /\ th'[t].op = th[t].op /\ th'[t].id = th[t].id /\ th'[t].late = th[t].late
      /\ \/ th'[t].pc = "pop" /\ th'[t].outcome = th[t].outcome /\ th'[t].victim = th[t].victim
         \/ th'[t].pc = "idle" /\ th'[t].outcome = "error"
  BY <1>1, <1>4 DEF ScanEnds, Finish, IInv, TypeOK, Local
<1>9. rec' = rec
  BY DEF ScanEnds, Finish, IInv, TypeOK, Record
<1>10. Known' = Known
  BY <1>8, <1>9 DEF Known, IInv, ClosedByOne, PcOp
<1>11. registered' = registered
  BY DEF ScanEnds, Finish
<1> HIDE DEF R1, R2
<1>12. PcOp'
  BY <1>7, <1>8, <1>9, <1>10, <1>11 DEF IInv, PcOp
<1>13. CreateFresh'
  BY <1>7, <1>8, <1>9, <1>10, <1>11 DEF IInv, CreateFresh, PcOp
<1>14. RegisteredIsOpen'
  BY <1>7, <1>8, <1>9, <1>10, <1>11 DEF IInv, RegisteredIsOpen, PcOp, CreateFresh, ClosedByOne, TypeOK
<1>15. ClosedByOne'
  BY <1>7, <1>8, <1>9, <1>10, <1>11 DEF IInv, ClosedByOne, RegisteredIsOpen, PcOp, CreateFresh, TypeOK
<1>16. UserHoldsLock'
  BY <1>7, <1>8, <1>9, <1>10, <1>11 DEF IInv, UserHoldsLock, PcOp, CreateFresh
<1>17. Lost'
  BY <1>7, <1>8, <1>9, <1>10, <1>11 DEF IInv, Lost, PcOp, CreateFresh
<1>18. MissingIsGone'
  BY <1>7, <1>8, <1>9, <1>10, <1>11 DEF IInv, MissingIsGone, Lost, PcOp, CreateFresh
<1> QED  BY <1>6, <1>12, <1>13, <1>14, <1>15, <1>16, <1>17, <1>18 DEF IInv

\* A sweep pops an expired session: nobody else can be closing it.
LEMMA SweepPopIInv ==
    ASSUME IInv, NEW t \in Threads, NEW i \in Ids, SweepPop(t, i)
    PROVE  IInv'
<1> DEFINE R == [th[t] EXCEPT !.pc = "closing", !.victim = i, !.expired = @ \ {i}]
<1>1. th[t] \in Local
  BY DEF IInv, TypeOK
<1>3. R \in Local
  BY <1>1 DEF Local, PCs, IInv, TypeOK
<1>4. th' = [th EXCEPT ![t] = R]
  BY DEF SweepPop, DictPop, IInv, TypeOK
<1>5. rec' \in [Ids -> Record]
  BY <1>1 DEF SweepPop, DictPop, IInv, TypeOK, Record, Local
<1>6. TypeOK'
  BY <1>3, <1>4, <1>5 DEF SweepPop, DictPop, IInv, TypeOK
<1>7. \A u \in Threads \ {t} : th'[u] = th[u]
  BY <1>4 DEF IInv, TypeOK
<1>8. /\ th[t].pc = "pop" /\ i \in registered
      /\ th'[t].op = th[t].op /\ th'[t].id = th[t].id /\ th'[t].late = th[t].late
      /\ th'[t].pc = "closing" /\ th'[t].outcome = th[t].outcome /\ th'[t].victim = i
  BY <1>1, <1>4 DEF SweepPop, DictPop, IInv, TypeOK, Local
<1>9. rec' = rec
  BY DEF SweepPop, DictPop, IInv, TypeOK, Record
<1>10. Known' = Known
  BY <1>8, <1>9 DEF Known, IInv, ClosedByOne, PcOp
<1>11. registered' = registered \ {i}
  BY DEF SweepPop, DictPop
<1> HIDE DEF R
<1>12. PcOp'
  BY <1>7, <1>8, <1>9, <1>10, <1>11 DEF IInv, PcOp
<1>13. CreateFresh'
  BY <1>7, <1>8, <1>9, <1>10, <1>11 DEF IInv, CreateFresh, PcOp
<1>14. RegisteredIsOpen'
  BY <1>7, <1>8, <1>9, <1>10, <1>11 DEF IInv, RegisteredIsOpen, PcOp, CreateFresh, ClosedByOne, TypeOK
<1>15. ClosedByOne'
  BY <1>7, <1>8, <1>9, <1>10, <1>11 DEF IInv, ClosedByOne, RegisteredIsOpen, PcOp, CreateFresh, TypeOK
<1>16. UserHoldsLock'
  BY <1>7, <1>8, <1>9, <1>10, <1>11 DEF IInv, UserHoldsLock, PcOp, CreateFresh
<1>17. Lost'
  BY <1>7, <1>8, <1>9, <1>10, <1>11 DEF IInv, Lost, PcOp, CreateFresh
<1>18. MissingIsGone'
  BY <1>7, <1>8, <1>9, <1>10, <1>11 DEF IInv, MissingIsGone, Lost, PcOp, CreateFresh
<1> QED  BY <1>6, <1>12, <1>13, <1>14, <1>15, <1>16, <1>17, <1>18 DEF IInv

\* The KeyError of a sweep that comes second.
LEMMA SweepRaisesIInv ==
    ASSUME IInv, NEW t \in Threads, NEW i \in Ids, SweepRaises(t, i)
    PROVE  IInv'
<1> DEFINE R == [th[t] EXCEPT !.pc = "idle", !.outcome = "error", !.now = 0, !.size = 0,
                 !.visited = {}, !.expired = {}, !.victim = None]
<1>1. th[t] \in Local
  BY DEF IInv, TypeOK
<1>3. R \in Local
  BY <1>1 DEF Local, PCs, IInv, TypeOK
<1>4. th' = [th EXCEPT ![t] = R]
  BY DEF SweepRaises, Finish, IInv, TypeOK
<1>5. rec' \in [Ids -> Record]
  BY <1>1 DEF SweepRaises, Finish, IInv, TypeOK, Record, Local
<1>6. TypeOK'
  BY <1>3, <1>4, <1>5 DEF SweepRaises, Finish, IInv, TypeOK
<1>7. \A u \in Threads \ {t} : th'[u] = th[u]
  BY <1>4 DEF IInv, TypeOK
<1>8. /\ th[t].pc = "pop"
      /\ th'[t].op = th[t].op /\ th'[t].id = th[t].id /\ th'[t].late = th[t].late
      /\ th'[t].pc = "idle" /\ th'[t].outcome = "error"
  BY <1>1, <1>4 DEF SweepRaises, Finish, IInv, TypeOK, Local
<1>9. rec' = rec
  BY DEF SweepRaises, Finish, IInv, TypeOK, Record
<1>10. Known' = Known
  BY <1>8, <1>9 DEF Known, IInv, ClosedByOne, PcOp
<1>11. registered' = registered
  BY DEF SweepRaises, Finish
<1> HIDE DEF R
<1>12. PcOp'
  BY <1>7, <1>8, <1>9, <1>10, <1>11 DEF IInv, PcOp
<1>13. CreateFresh'
  BY <1>7, <1>8, <1>9, <1>10, <1>11 DEF IInv, CreateFresh, PcOp
<1>14. RegisteredIsOpen'
  BY <1>7, <1>8, <1>9, <1>10, <1>11 DEF IInv, RegisteredIsOpen, PcOp, CreateFresh, ClosedByOne, TypeOK
<1>15. ClosedByOne'
  BY <1>7, <1>8, <1>9, <1>10, <1>11 DEF IInv, ClosedByOne, RegisteredIsOpen, PcOp, CreateFresh, TypeOK
<1>16. UserHoldsLock'
  BY <1>7, <1>8, <1>9, <1>10, <1>11 DEF IInv, UserHoldsLock, PcOp, CreateFresh
<1>17. Lost'
  BY <1>7, <1>8, <1>9, <1>10, <1>11 DEF IInv, Lost, PcOp, CreateFresh
<1>18. MissingIsGone'
  BY <1>7, <1>8, <1>9, <1>10, <1>11 DEF IInv, MissingIsGone, Lost, PcOp, CreateFresh
<1> QED  BY <1>6, <1>12, <1>13, <1>14, <1>15, <1>16, <1>17, <1>18 DEF IInv

\* Closing the popped connection: it is not registered, so RegisteredIsOpen stands.
LEMMA CloseIInv ==
    ASSUME IInv, NEW t \in Threads, Close(t)
    PROVE  IInv'
<1> DEFINE R1 == [th[t] EXCEPT !.pc = "idle", !.outcome = "ok", !.now = 0, !.size = 0,
                  !.visited = {}, !.expired = {}, !.victim = None]
<1> DEFINE R2 == [th[t] EXCEPT !.pc = "pop", !.victim = None]
<1>1. th[t] \in Local
  BY DEF IInv, TypeOK
<1>3. R1 \in Local /\ R2 \in Local
  BY <1>1 DEF Local, PCs, IInv, TypeOK
<1>4. th' = [th EXCEPT ![t] = R1] \/ th' = [th EXCEPT ![t] = R2]
  BY DEF Close, Finish, IInv, TypeOK
<1>5. rec' \in [Ids -> Record]
  BY <1>1 DEF Close, Finish, IInv, TypeOK, Record, Local, PcOp
<1>6. TypeOK'
  BY <1>3, <1>4, <1>5 DEF Close, Finish, IInv, TypeOK, PcOp
<1>7. \A u \in Threads \ {t} : th'[u] = th[u]
  BY <1>4 DEF IInv, TypeOK
<1>8. /\ th[t].pc = "closing"
      /\ th'[t].op = th[t].op /\ th'[t].id = th[t].id /\ th'[t].late = th[t].late
      /\ \/ th[t].op = "delete" /\ th'[t].pc = "idle" /\ th'[t].outcome = "ok"
         \/ th[t].op # "delete" /\ th'[t].pc = "pop" /\ th'[t].outcome = th[t].outcome
  BY <1>1, <1>4 DEF Close, Finish, IInv, TypeOK, Local
<1>9. \A j \in Ids : /\ rec'[j].conn = IF j = th[t].victim THEN "closed" ELSE rec[j].conn
                    /\ rec'[j].lock = rec[j].lock
  BY DEF Close, Finish, IInv, TypeOK, Record, PcOp
<1>10. Known' = Known
  BY <1>8, <1>9 DEF Known, IInv, ClosedByOne, PcOp
<1>11. registered' = registered
  BY DEF Close, Finish
<1> HIDE DEF R1, R2
<1>12. PcOp'
  BY <1>7, <1>8, <1>9, <1>10, <1>11 DEF IInv, PcOp
<1>13. CreateFresh'
  BY <1>7, <1>8, <1>9, <1>10, <1>11 DEF IInv, CreateFresh, PcOp
<1>14. RegisteredIsOpen'
  BY <1>7, <1>8, <1>9, <1>10, <1>11 DEF IInv, RegisteredIsOpen, PcOp, CreateFresh, ClosedByOne, TypeOK
<1>15. ClosedByOne'
  BY <1>7, <1>8, <1>9, <1>10, <1>11 DEF IInv, ClosedByOne, RegisteredIsOpen, PcOp, CreateFresh, TypeOK
<1>16. UserHoldsLock'
  BY <1>7, <1>8, <1>9, <1>10, <1>11 DEF IInv, UserHoldsLock, PcOp, CreateFresh
<1>17. Lost'
  BY <1>7, <1>8, <1>9, <1>10, <1>11 DEF IInv, Lost, PcOp, CreateFresh
<1>18. MissingIsGone'
  BY <1>7, <1>8, <1>9, <1>10, <1>11 DEF IInv, MissingIsGone, Lost, PcOp, CreateFresh
<1> QED  BY <1>6, <1>12, <1>13, <1>14, <1>15, <1>16, <1>17, <1>18 DEF IInv

\* The sweep is over.
LEMMA SweepDoneIInv ==
    ASSUME IInv, NEW t \in Threads, SweepDone(t)
    PROVE  IInv'
<1> DEFINE R == [th[t] EXCEPT !.pc = IF th[t].op = "create" THEN "insert" ELSE "lookup"]
<1>1. th[t] \in Local
  BY DEF IInv, TypeOK
<1>3. R \in Local
  BY <1>1 DEF Local, PCs, IInv, TypeOK
<1>4. th' = [th EXCEPT ![t] = R]
  BY DEF SweepDone, Goto, IInv, TypeOK
<1>5. rec' \in [Ids -> Record]
  BY <1>1 DEF SweepDone, Goto, IInv, TypeOK, Record, Local
<1>6. TypeOK'
  BY <1>3, <1>4, <1>5 DEF SweepDone, Goto, IInv, TypeOK
<1>7. \A u \in Threads \ {t} : th'[u] = th[u]
  BY <1>4 DEF IInv, TypeOK
<1>8. /\ th[t].pc = "pop" /\ th[t].op \in {"create", "messages", "tables", "delete"}
      /\ th'[t].op = th[t].op /\ th'[t].id = th[t].id /\ th'[t].late = th[t].late
      /\ th'[t].pc = (IF th[t].op = "create" THEN "insert" ELSE "lookup") /\ th'[t].outcome = th[t].outcome
  BY <1>1, <1>4 DEF SweepDone, Goto, IInv, TypeOK, Local, Ops
<1>9. rec' = rec
  BY DEF SweepDone, Goto, IInv, TypeOK, Record
<1>10. Known' = Known
  BY <1>8, <1>9 DEF Known, IInv, ClosedByOne, PcOp
<1>11. registered' = registered
  BY DEF SweepDone, Goto
<1> HIDE DEF R
<1>12. PcOp'
  BY <1>7, <1>8, <1>9, <1>10, <1>11 DEF IInv, PcOp
<1>13. CreateFresh'
  BY <1>7, <1>8, <1>9, <1>10, <1>11 DEF IInv, CreateFresh, PcOp
<1>14. RegisteredIsOpen'
  BY <1>7, <1>8, <1>9, <1>10, <1>11 DEF IInv, RegisteredIsOpen, PcOp, CreateFresh, ClosedByOne, TypeOK
<1>15. ClosedByOne'
  BY <1>7, <1>8, <1>9, <1>10, <1>11 DEF IInv, ClosedByOne, RegisteredIsOpen, PcOp, CreateFresh, TypeOK
<1>16. UserHoldsLock'
  BY <1>7, <1>8, <1>9, <1>10, <1>11 DEF IInv, UserHoldsLock, PcOp, CreateFresh
<1>17. Lost'
  BY <1>7, <1>8, <1>9, <1>10, <1>11 DEF IInv, Lost, PcOp, CreateFresh
<1>18. MissingIsGone'
  BY <1>7, <1>8, <1>9, <1>10, <1>11 DEF IInv, MissingIsGone, Lost, PcOp, CreateFresh
<1> QED  BY <1>6, <1>12, <1>13, <1>14, <1>15, <1>16, <1>17, <1>18 DEF IInv

\* The new session: its id was unknown to every other request.
LEMMA InsertIInv ==
    ASSUME IInv, NEW t \in Threads, Insert(t)
    PROVE  IInv'
<1> DEFINE R == [th[t] EXCEPT !.pc = "idle", !.outcome = "ok", !.now = 0, !.size = 0,
                 !.visited = {}, !.expired = {}, !.victim = None]
<1>1. th[t] \in Local
  BY DEF IInv, TypeOK
<1>2. Cardinality(registered) \in Nat /\ Cardinality(Known) \in Nat /\ StartSize(t) \in Nat
  BY SizesAreNat DEF IInv
<1>3. R \in Local
  BY <1>1, <1>2 DEF Local, PCs, IInv, TypeOK
<1>4. th' = [th EXCEPT ![t] = R]
  BY DEF Insert, Finish, IInv, TypeOK
<1>5. rec' \in [Ids -> Record]
  BY <1>1, <1>2 DEF Insert, Finish, IInv, TypeOK, Record, Local, PcOp
<1>6. TypeOK'
  BY <1>3, <1>4, <1>5 DEF Insert, Finish, IInv, TypeOK, PcOp
<1>7. \A u \in Threads \ {t} : th'[u] = th[u]
  BY <1>4 DEF IInv, TypeOK
<1>8. /\ th[t].pc = "insert"
      /\ th'[t].op = th[t].op /\ th'[t].id = th[t].id /\ th'[t].late = th[t].late
      /\ th'[t].pc = "idle" /\ th'[t].outcome = "ok"
  BY <1>1, <1>4 DEF Insert, Finish, IInv, TypeOK, Local
<1>9. \A j \in Ids : /\ rec'[j].conn = IF j = th[t].id THEN "open" ELSE rec[j].conn
                    /\ rec'[j].lock = IF j = th[t].id THEN None ELSE rec[j].lock
  BY DEF Insert, Finish, IInv, TypeOK, Record, PcOp
<1>10. Known' = Known \cup {th[t].id} /\ th[t].id \in Ids
  BY <1>8, <1>9 DEF Known, IInv, PcOp
<1>11. registered' = registered \cup {th[t].id}
  BY DEF Insert, Finish
<1> HIDE DEF R
<1>12. PcOp'
  BY <1>7, <1>8, <1>9, <1>10, <1>11 DEF IInv, PcOp
<1>13. CreateFresh'
  BY <1>7, <1>8, <1>9, <1>10, <1>11 DEF IInv, CreateFresh, PcOp
<1>14. RegisteredIsOpen'
  BY <1>7, <1>8, <1>9, <1>10, <1>11 DEF IInv, RegisteredIsOpen, PcOp, CreateFresh, ClosedByOne, TypeOK
<1>15. ClosedByOne'
  BY <1>7, <1>8, <1>9, <1>10, <1>11 DEF IInv, ClosedByOne, RegisteredIsOpen, PcOp, CreateFresh, TypeOK, Known
<1>16. UserHoldsLock'
  BY <1>7, <1>8, <1>9, <1>10, <1>11 DEF IInv, UserHoldsLock, PcOp, CreateFresh, Known
<1>17. Lost'
  BY <1>7, <1>8, <1>9, <1>10, <1>11 DEF IInv, Lost, PcOp, CreateFresh
<1>18. MissingIsGone'
  BY <1>7, <1>8, <1>9, <1>10, <1>11 DEF IInv, MissingIsGone, Lost, PcOp, CreateFresh
<1> QED  BY <1>6, <1>12, <1>13, <1>14, <1>15, <1>16, <1>17, <1>18 DEF IInv

\* The lookup decides between 404 and service.
LEMMA LookupIInv ==
    ASSUME IInv, NEW t \in Threads, Lookup(t)
    PROVE  IInv'
<1> DEFINE R1 == [th[t] EXCEPT !.pc = "touch"]
<1> DEFINE R2 == [th[t] EXCEPT !.pc = "idle", !.outcome = "missing", !.now = 0, !.size = 0,
                  !.visited = {}, !.expired = {}, !.victim = None]
<1>1. th[t] \in Local
  BY DEF IInv, TypeOK
<1>3. R1 \in Local /\ R2 \in Local
  BY <1>1 DEF Local, PCs, IInv, TypeOK
<1>4. th' = [th EXCEPT ![t] = R1] \/ th' = [th EXCEPT ![t] = R2]
  BY DEF Lookup, Goto, Finish, IInv, TypeOK
<1>5. rec' \in [Ids -> Record]
  BY <1>1 DEF Lookup, Goto, Finish, IInv, TypeOK, Record, Local
<1>6. TypeOK'
  BY <1>3, <1>4, <1>5 DEF Lookup, Goto, Finish, IInv, TypeOK
<1>7. \A u \in Threads \ {t} : th'[u] = th[u]
  BY <1>4 DEF IInv, TypeOK
<1>8. /\ th[t].pc = "lookup"
      /\ th'[t].op = th[t].op /\ th'[t].id = th[t].id /\ th'[t].late = th[t].late
      /\ \/ th[t].id \in registered /\ th'[t].pc = "touch" /\ th'[t].outcome = th[t].outcome /\ th'[t].victim = th[t].victim
         \/ th[t].id \notin registered /\ th'[t].pc = "idle" /\ th'[t].outcome = "missing"
  BY <1>1, <1>4 DEF Lookup, Goto, Finish, IInv, TypeOK, Local
<1>9. rec' = rec
  BY DEF Lookup, Goto, Finish, IInv, TypeOK, Record
<1>10. Known' = Known
  BY <1>8, <1>9 DEF Known, IInv, ClosedByOne, PcOp
<1>11. registered' = registered
  BY DEF Lookup, Goto, Finish
<1> HIDE DEF R1, R2
<1>12. PcOp'
  BY <1>7, <1>8, <1>9, <1>10, <1>11 DEF IInv, PcOp
<1>13. CreateFresh'
  BY <1>7, <1>8, <1>9, <1>10, <1>11 DEF IInv, CreateFresh, PcOp
<1>14. RegisteredIsOpen'
  BY <1>7, <1>8, <1>9, <1>10, <1>11 DEF IInv, RegisteredIsOpen, PcOp, CreateFresh, ClosedByOne, TypeOK
<1>15. ClosedByOne'
  BY <1>7, <1>8, <1>9, <1>10, <1>11 DEF IInv, ClosedByOne, RegisteredIsOpen, PcOp, CreateFresh, TypeOK
<1>16. UserHoldsLock'
  BY <1>7, <1>8, <1>9, <1>10, <1>11 DEF IInv, UserHoldsLock, PcOp, CreateFresh
<1>17. Lost'
  BY <1>7, <1>8, <1>9, <1>10, <1>11 DEF IInv, Lost, PcOp, CreateFresh
<1>18. MissingIsGone'
  BY <1>7, <1>8, <1>9, <1>10, <1>11 DEF IInv, MissingIsGone, Lost, PcOp, CreateFresh
<1> QED  BY <1>6, <1>12, <1>13, <1>14, <1>15, <1>16, <1>17, <1>18 DEF IInv

\* The touch writes to the record only, never to the dict.
LEMMA TouchIInv ==
    ASSUME IInv, NEW t \in Threads, Touch(t)
    PROVE  IInv'
<1> DEFINE R1 == [th[t] EXCEPT !.pc = "acquire"]
<1> DEFINE R2 == [th[t] EXCEPT !.pc = "idle", !.outcome = "ok", !.now = 0, !.size = 0,
                  !.visited = {}, !.expired = {}, !.victim = None]
<1>1. th[t] \in Local
  BY DEF IInv, TypeOK
<1>3. R1 \in Local /\ R2 \in Local
  BY <1>1 DEF Local, PCs, IInv, TypeOK
<1>4. th' = [th EXCEPT ![t] = R1] \/ th' = [th EXCEPT ![t] = R2]
  BY DEF Touch, Refresh, Goto, Finish, IInv, TypeOK
<1>5. rec' \in [Ids -> Record]
  BY <1>1 DEF Touch, Refresh, Goto, Finish, IInv, TypeOK, Record, Local, PcOp
<1>6. TypeOK'
  BY <1>3, <1>4, <1>5 DEF Touch, Refresh, Goto, Finish, IInv, TypeOK, PcOp
<1>7. \A u \in Threads \ {t} : th'[u] = th[u]
  BY <1>4 DEF IInv, TypeOK
<1>8. /\ th[t].pc = "touch"
      /\ th'[t].op = th[t].op /\ th'[t].id = th[t].id /\ th'[t].late = th[t].late
      /\ \/ th[t].op = "tables" /\ th'[t].pc = "acquire" /\ th'[t].outcome = th[t].outcome /\ th'[t].victim = th[t].victim
         \/ th'[t].pc = "idle" /\ th'[t].outcome = "ok"
  BY <1>1, <1>4 DEF Touch, Refresh, Goto, Finish, IInv, TypeOK, Local
<1>9. \A j \in Ids : /\ rec'[j].conn = rec[j].conn
                    /\ rec'[j].lock = rec[j].lock
  BY DEF Touch, Refresh, Goto, Finish, IInv, TypeOK, Record, PcOp
<1>10. Known' = Known
  BY <1>8, <1>9 DEF Known, IInv, ClosedByOne, PcOp
<1>11. registered' = registered
  BY DEF Touch, Refresh, Goto, Finish
<1> HIDE DEF R1, R2
<1>12. PcOp'
  BY <1>7, <1>8, <1>9, <1>10, <1>11 DEF IInv, PcOp
<1>13. CreateFresh'
  BY <1>7, <1>8, <1>9, <1>10, <1>11 DEF IInv, CreateFresh, PcOp
<1>14. RegisteredIsOpen'
  BY <1>7, <1>8, <1>9, <1>10, <1>11 DEF IInv, RegisteredIsOpen, PcOp, CreateFresh, ClosedByOne, TypeOK
<1>15. ClosedByOne'
  BY <1>7, <1>8, <1>9, <1>10, <1>11 DEF IInv, ClosedByOne, RegisteredIsOpen, PcOp, CreateFresh, TypeOK
<1>16. UserHoldsLock'
  BY <1>7, <1>8, <1>9, <1>10, <1>11 DEF IInv, UserHoldsLock, PcOp, CreateFresh
<1>17. Lost'
  BY <1>7, <1>8, <1>9, <1>10, <1>11 DEF IInv, Lost, PcOp, CreateFresh
<1>18. MissingIsGone'
  BY <1>7, <1>8, <1>9, <1>10, <1>11 DEF IInv, MissingIsGone, Lost, PcOp, CreateFresh
<1> QED  BY <1>6, <1>12, <1>13, <1>14, <1>15, <1>16, <1>17, <1>18 DEF IInv

\* close_session pops the session, or answers 404.
LEMMA UnregisterIInv ==
    ASSUME IInv, NEW t \in Threads, Unregister(t)
    PROVE  IInv'
<1> DEFINE R1 == [th[t] EXCEPT !.pc = "closing", !.victim = th[t].id]
<1> DEFINE R2 == [th[t] EXCEPT !.pc = "idle", !.outcome = "missing", !.now = 0, !.size = 0,
                  !.visited = {}, !.expired = {}, !.victim = None]
<1>1. th[t] \in Local
  BY DEF IInv, TypeOK
<1>3. R1 \in Local /\ R2 \in Local
  BY <1>1 DEF Local, PCs, IInv, TypeOK, PcOp
<1>4. th' = [th EXCEPT ![t] = R1] \/ th' = [th EXCEPT ![t] = R2]
  BY DEF Unregister, DictPop, Finish, IInv, TypeOK
<1>5. rec' \in [Ids -> Record]
  BY <1>1 DEF Unregister, DictPop, Finish, IInv, TypeOK, Record, Local, PcOp
<1>6. TypeOK'
  BY <1>3, <1>4, <1>5 DEF Unregister, DictPop, Finish, IInv, TypeOK, PcOp
<1>7. \A u \in Threads \ {t} : th'[u] = th[u]
  BY <1>4 DEF IInv, TypeOK
<1>8. /\ th[t].pc = "unregister"
      /\ th'[t].op = th[t].op /\ th'[t].id = th[t].id /\ th'[t].late = th[t].late
      /\ \/ th[t].id \in registered /\ registered' = registered \ {th[t].id}
             /\ th'[t].pc = "closing" /\ th'[t].outcome = th[t].outcome /\ th'[t].victim = th[t].id
         \/ th[t].id \notin registered /\ registered' = registered /\ th'[t].pc = "idle" /\ th'[t].outcome = "missing"
  BY <1>1, <1>4 DEF Unregister, DictPop, Finish, IInv, TypeOK, Local
<1>9. rec' = rec
  BY DEF Unregister, DictPop, Finish, IInv, TypeOK, Record, PcOp
<1>10. Known' = Known
  BY <1>8, <1>9 DEF Known, IInv, ClosedByOne, PcOp
<1> HIDE DEF R1, R2
<1>12. PcOp'
  BY <1>7, <1>8, <1>9, <1>10 DEF IInv, PcOp
<1>13. CreateFresh'
  BY <1>7, <1>8, <1>9, <1>10 DEF IInv, CreateFresh, PcOp
<1>14. RegisteredIsOpen'
  BY <1>7, <1>8, <1>9, <1>10 DEF IInv, RegisteredIsOpen, PcOp, CreateFresh, ClosedByOne, TypeOK
<1>15. ClosedByOne'
  BY <1>7, <1>8, <1>9, <1>10 DEF IInv, ClosedByOne, RegisteredIsOpen, PcOp, CreateFresh, TypeOK
<1>16. UserHoldsLock'
  BY <1>7, <1>8, <1>9, <1>10 DEF IInv, UserHoldsLock, PcOp, CreateFresh
<1>17. Lost'
  BY <1>7, <1>8, <1>9, <1>10 DEF IInv, Lost, PcOp, CreateFresh
<1>18. MissingIsGone'
  BY <1>7, <1>8, <1>9, <1>10 DEF IInv, MissingIsGone, Lost, PcOp, CreateFresh
<1> QED  BY <1>6, <1>12, <1>13, <1>14, <1>15, <1>16, <1>17, <1>18 DEF IInv

\* Taking the free session.lock.
LEMMA AcquireIInv ==
    ASSUME IInv, NEW t \in Threads, Acquire(t)
    PROVE  IInv'
<1> DEFINE R == [th[t] EXCEPT !.pc = "using"]
<1>1. th[t] \in Local
  BY DEF IInv, TypeOK
<1>3. R \in Local
  BY <1>1 DEF Local, PCs, IInv, TypeOK
<1>4. th' = [th EXCEPT ![t] = R]
  BY DEF Acquire, LockFree, Goto, IInv, TypeOK
<1>5. rec' \in [Ids -> Record]
  BY <1>1 DEF Acquire, LockFree, Goto, IInv, TypeOK, Record, Local, PcOp
<1>6. TypeOK'
  BY <1>3, <1>4, <1>5 DEF Acquire, LockFree, Goto, IInv, TypeOK, PcOp
<1>7. \A u \in Threads \ {t} : th'[u] = th[u]
  BY <1>4 DEF IInv, TypeOK
<1>8. /\ th[t].pc = "acquire"
      /\ rec[th[t].id].lock = None
      /\ th'[t].op = th[t].op /\ th'[t].id = th[t].id /\ th'[t].late = th[t].late
      /\ th'[t].pc = "using" /\ th'[t].outcome = th[t].outcome /\ th'[t].victim = th[t].victim
  BY <1>1, <1>4 DEF Acquire, LockFree, Goto, IInv, TypeOK, Local
<1>9. \A j \in Ids : /\ rec'[j].conn = rec[j].conn
                    /\ rec'[j].lock = IF j = th[t].id THEN t ELSE rec[j].lock
  BY DEF Acquire, LockFree, Goto, IInv, TypeOK, Record, PcOp
<1>10. Known' = Known
  BY <1>8, <1>9 DEF Known, IInv, ClosedByOne, PcOp
<1>11. registered' = registered
  BY DEF Acquire, LockFree, Goto
<1> HIDE DEF R
<1>12. PcOp'
  BY <1>7, <1>8, <1>9, <1>10, <1>11 DEF IInv, PcOp
<1>13. CreateFresh'
  BY <1>7, <1>8, <1>9, <1>10, <1>11 DEF IInv, CreateFresh, PcOp
<1>14. RegisteredIsOpen'
  BY <1>7, <1>8, <1>9, <1>10, <1>11 DEF IInv, RegisteredIsOpen, PcOp, CreateFresh, ClosedByOne, TypeOK
<1>15. ClosedByOne'
  BY <1>7, <1>8, <1>9, <1>10, <1>11 DEF IInv, ClosedByOne, RegisteredIsOpen, PcOp, CreateFresh, TypeOK
<1>16. UserHoldsLock'
  BY <1>7, <1>8, <1>9, <1>10, <1>11 DEF IInv, UserHoldsLock, PcOp, CreateFresh
<1>17. Lost'
  BY <1>7, <1>8, <1>9, <1>10, <1>11 DEF IInv, Lost, PcOp, CreateFresh
<1>18. MissingIsGone'
  BY <1>7, <1>8, <1>9, <1>10, <1>11 DEF IInv, MissingIsGone, Lost, PcOp, CreateFresh
<1> QED  BY <1>6, <1>12, <1>13, <1>14, <1>15, <1>16, <1>17, <1>18 DEF IInv

\* Giving it back.
LEMMA ReleaseIInv ==
    ASSUME IInv, NEW t \in Threads, Release(t)
    PROVE  IInv'
<1> DEFINE R(answer) == [th[t] EXCEPT !.pc = "idle", !.outcome = answer, !.now = 0,
                         !.size = 0, !.visited = {}, !.expired = {}, !.victim = None]
<1>1. th[t] \in Local
  BY DEF IInv, TypeOK
<1>3. R("ok") \in Local /\ R("error") \in Local
  BY <1>1 DEF Local, PCs, IInv, TypeOK
<1>4. th' = [th EXCEPT ![t] = R("ok")] \/ th' = [th EXCEPT ![t] = R("error")]
  BY DEF Release, Unlocked, Finish, IInv, TypeOK
<1>5. rec' \in [Ids -> Record]
  BY <1>1 DEF Release, Unlocked, Finish, IInv, TypeOK, Record, Local, PcOp
<1>6. TypeOK'
  BY <1>3, <1>4, <1>5 DEF Release, Unlocked, Finish, IInv, TypeOK, PcOp
<1>7. \A u \in Threads \ {t} : th'[u] = th[u]
  BY <1>4 DEF IInv, TypeOK
<1>8. /\ th[t].pc = "using"
      /\ th'[t].op = th[t].op /\ th'[t].id = th[t].id /\ th'[t].late = th[t].late
      /\ th'[t].pc = "idle" /\ th'[t].outcome \in {"ok", "error"}
  BY <1>1, <1>4 DEF Release, Unlocked, Finish, IInv, TypeOK, Local
<1>9. \A j \in Ids : /\ rec'[j].conn = rec[j].conn
                    /\ rec'[j].lock = IF j = th[t].id THEN None ELSE rec[j].lock
  BY DEF Release, Unlocked, Finish, IInv, TypeOK, Record, PcOp
<1>10. Known' = Known
  BY <1>8, <1>9 DEF Known, IInv, ClosedByOne, PcOp
<1>11. registered' = registered
  BY DEF Release, Unlocked, Finish
<1> HIDE DEF R
<1>12. PcOp'
  BY <1>7, <1>8, <1>9, <1>10, <1>11 DEF IInv, PcOp
<1>13. CreateFresh'
  BY <1>7, <1>8, <1>9, <1>10, <1>11 DEF IInv, CreateFresh, PcOp
<1>14. RegisteredIsOpen'
  BY <1>7, <1>8, <1>9, <1>10, <1>11 DEF IInv, RegisteredIsOpen, PcOp, CreateFresh, ClosedByOne, TypeOK
<1>15. ClosedByOne'
  BY <1>7, <1>8, <1>9, <1>10, <1>11 DEF IInv, ClosedByOne, RegisteredIsOpen, PcOp, CreateFresh, TypeOK
<1>16. UserHoldsLock'
  BY <1>7, <1>8, <1>9, <1>10, <1>11 DEF IInv, UserHoldsLock, PcOp, CreateFresh
<1>17. Lost'
  BY <1>7, <1>8, <1>9, <1>10, <1>11 DEF IInv, Lost, PcOp, CreateFresh
<1>18. MissingIsGone'
  BY <1>7, <1>8, <1>9, <1>10, <1>11 DEF IInv, MissingIsGone, Lost, PcOp, CreateFresh
<1> QED  BY <1>6, <1>12, <1>13, <1>14, <1>15, <1>16, <1>17, <1>18 DEF IInv

\* Time passing, and stuttering, change nothing the invariant speaks of.
LEMMA IdleIInv ==
    ASSUME IInv, Tick \/ UNCHANGED vars
    PROVE  IInv'
<1>1. registered' = registered /\ rec' = rec /\ th' = th /\ clock' \in Nat
  BY DEF Tick, vars, IInv, TypeOK
<1> QED
  BY <1>1 DEF IInv, TypeOK, PcOp, CreateFresh, Known, RegisteredIsOpen, ClosedByOne,
              UserHoldsLock, Lost, MissingIsGone

\* Every step of every thread preserves the inductive invariant.
LEMMA NextIInv == IInv /\ [Next]_vars => IInv'
<1> SUFFICES ASSUME IInv, [Next]_vars
             PROVE  IInv'
  OBVIOUS
<1>1. CASE Tick \/ Stopped \/ UNCHANGED vars
  BY <1>1, IdleIInv DEF Stopped
<1>2. CASE \E t \in Threads, o \in Ops, i \in Ids : Request(t, o, i)
  BY <1>2, RequestIInv
<1>3. CASE \E t \in Threads : Step(t)
  <2> PICK t \in Threads : Step(t)
    BY <1>3
  <2>1. CASE \E i \in Ids : ScanRecord(t, i) \/ SweepPop(t, i) \/ SweepRaises(t, i)
    BY <2>1, ScanRecordIInv, SweepPopIInv, SweepRaisesIInv
  <2>2. CASE Enter(t) \/ ScanEnds(t) \/ Close(t) \/ SweepDone(t)
    BY <2>2, EnterIInv, ScanEndsIInv, CloseIInv, SweepDoneIInv
  <2>3. CASE Insert(t) \/ Lookup(t) \/ Touch(t) \/ Unregister(t)
    BY <2>3, InsertIInv, LookupIInv, TouchIInv, UnregisterIInv
  <2>4. CASE Acquire(t) \/ Release(t)
    BY <2>4, AcquireIInv, ReleaseIInv
  <2> QED  BY <2>1, <2>2, <2>3, <2>4 DEF Step
<1> QED  BY <1>1, <1>2, <1>3 DEF Next

\* The inductive invariant holds in every reachable state.
LEMMA Invariance == Spec => []IInv
BY InitIInv, NextIInv, PTL DEF Spec

-----------------------------------------------------------------------------
(* The theorems.                                                           *)

\* Every variable keeps its type.
THEOREM TypeCorrect == Spec => []TypeOK
<1>1. IInv => TypeOK
  BY DEF IInv
<1> QED  BY <1>1, Invariance, PTL

\* Whatever the interleaving of sweeps, deletes and creates, a session that can
\* be looked up has an open connection.
THEOREM RegisteredSessionsAreOpen == Spec => []RegisteredIsOpen
<1>1. IInv => RegisteredIsOpen
  BY DEF IInv
<1> QED  BY <1>1, Invariance, PTL

\* Each connection is closed by one thread only, after its record has left the
\* dict: the unlocked manager closes nothing twice.
THEOREM ConnectionsClosedOnce == Spec => []ClosedByOne
<1>1. IInv => ClosedByOne
  BY DEF IInv
<1> QED  BY <1>1, Invariance, PTL

\* session.lock keeps two handlers from using one connection at once.
THEOREM HandlersExclusive == Spec => []ConnUseExclusive
<1>1. IInv => ConnUseExclusive
  BY DEF IInv, TypeOK, UserHoldsLock, ConnUseExclusive
<1> QED  BY <1>1, Invariance, PTL

\* A session lost to a delete or a sweep is never served to a later request, and
\* a 404 answer stays true for ever.
THEOREM SessionsStayGone == Spec => []GoneStaysGone
<1>1. IInv => GoneStaysGone
  BY DEF IInv, Lost, GoneStaysGone
<1> QED  BY <1>1, Invariance, PTL

-----------------------------------------------------------------------------
(* What each step does to the request it serves and to the sessions.       *)

\* The other requests are not concerned, and the request stays the same one.
Keeps(t) ==
    /\ \A u \in Threads \ {t} : th'[u] = th[u]
    /\ th'[t].op = th[t].op /\ th'[t].id = th[t].id

\* The request is answered, or goes on.
Finished(t, answer) ==
    /\ th'[t].pc = "idle" /\ th'[t].outcome = answer
    /\ th'[t].victim = None /\ th'[t].now = 0 /\ th'[t].expired = {}
Moved(t, to) ==
    /\ th'[t].pc = to /\ th'[t].outcome = th[t].outcome
    /\ th'[t].victim = th[t].victim /\ th'[t].now = th[t].now
    /\ th'[t].expired = th[t].expired

\* The connections, and the instants of the records, stay as they are.
SameConns == \A i \in Ids : rec'[i].conn = rec[i].conn
SameAges == \A i \in Ids : /\ rec'[i].createdAt = rec[i].createdAt
                           /\ rec'[i].lastAccessed = rec[i].lastAccessed

\* An answer ends the request and clears what it held.
LEMMA FinishEffect ==
    ASSUME TypeOK, NEW t \in Threads, NEW answer, Finish(t, answer)
    PROVE  Keeps(t) /\ Finished(t, answer)
BY DEF TypeOK, Local, Finish, Keeps, Finished

\* Going on changes only the point the thread has reached.
LEMMA GotoEffect ==
    ASSUME TypeOK, NEW t \in Threads, NEW to, Goto(t, to)
    PROVE  Keeps(t) /\ Moved(t, to)
BY DEF TypeOK, Local, Goto, Keeps, Moved

\* The arrival of a request.
LEMMA RequestEffect ==
    ASSUME IInv, NEW t \in Threads, NEW o \in Ops, NEW i \in Ids, Request(t, o, i)
    PROVE  /\ th[t].pc = "idle" /\ (o = "create" <=> i \notin Known)
           /\ \A u \in Threads \ {t} : th'[u] = th[u]
           /\ th'[t].op = o /\ th'[t].id = i /\ th'[t].outcome = "pending"
           /\ th'[t].pc = IF o = "delete" THEN "unregister" ELSE "enter"
           /\ th'[t].victim = th[t].victim /\ th'[t].now = th[t].now
           /\ th'[t].expired = th[t].expired
           /\ registered' = registered /\ SameConns /\ SameAges /\ clock' = clock
<1>1. th[t] \in Local /\ th \in [Threads -> Local]
  BY DEF IInv, TypeOK
<1>2. /\ th[t].pc = "idle" /\ (o = "create" <=> i \notin Known)
      /\ registered' = registered /\ SameConns /\ SameAges /\ clock' = clock
  BY DEF Request, SameConns, SameAges
<1> QED
  BY <1>1, <1>2 DEF Request, Local

\* The read of the clock.
LEMMA EnterEffect ==
    ASSUME IInv, NEW t \in Threads, Enter(t)
    PROVE  /\ th[t].pc = "enter" /\ Keeps(t) /\ clock' = clock
           /\ th'[t].pc = "scan" /\ th'[t].now = clock /\ th'[t].expired = th[t].expired
           /\ th'[t].victim = th[t].victim /\ th'[t].outcome = th[t].outcome
           /\ registered' = registered /\ SameConns /\ SameAges
<1>1. TypeOK /\ th \in [Threads -> Local] /\ rec \in [Ids -> Record]
  BY DEF IInv, TypeOK
<1>2. th[t].pc = "enter"
  BY DEF Enter
<1> QED
  BY <1>1, <1>2 DEF Enter, Local, Keeps, SameConns, SameAges

\* The test of one record.
LEMMA ScanRecordEffect ==
    ASSUME IInv, NEW t \in Threads, NEW i \in Ids, ScanRecord(t, i)
    PROVE  /\ th[t].pc = "scan" /\ Keeps(t) /\ clock' = clock
           /\ th'[t].pc = "scan" /\ th'[t].now = th[t].now
           /\ th'[t].expired = th[t].expired \cup {j \in {i} : IsExpired(j, t)}
           /\ th'[t].victim = th[t].victim /\ th'[t].outcome = th[t].outcome
           /\ i \in registered
           /\ registered' = registered /\ SameConns /\ SameAges
<1>1. TypeOK /\ th \in [Threads -> Local] /\ rec \in [Ids -> Record]
  BY DEF IInv, TypeOK
<1>2. th[t].pc = "scan"
  BY DEF ScanRecord
<1>3. i \in registered /\ registered' = registered /\ rec' = rec /\ clock' = clock
  BY DEF ScanRecord, IsFirst, Unvisited
<1>4. th' = [th EXCEPT ![t] = [th[t] EXCEPT
                 !.size = StartSize(t), !.visited = @ \cup {i},
                 !.expired = @ \cup {j \in {i} : IsExpired(j, t)}]]
  BY <1>1 DEF ScanRecord
<1> QED
  BY <1>1, <1>2, <1>3, <1>4 DEF Local, Keeps, SameConns, SameAges

\* The end of the scan, or its RuntimeError.
LEMMA ScanEndsEffect ==
    ASSUME IInv, NEW t \in Threads, ScanEnds(t)
    PROVE  /\ th[t].pc = "scan" /\ Keeps(t) /\ clock' = clock
           /\ Moved(t, "pop") \/ Finished(t, "error")
           /\ registered' = registered /\ SameConns /\ SameAges
<1>1. TypeOK /\ th \in [Threads -> Local] /\ rec \in [Ids -> Record]
  BY DEF IInv, TypeOK
<1>2. th[t].pc = "scan"
  BY DEF ScanEnds
<1>3. CASE th' = [th EXCEPT ![t].pc = "pop", ![t].size = 0, ![t].visited = {}]
  BY <1>1, <1>2, <1>3 DEF ScanEnds, Local, Keeps, Moved, SameConns, SameAges
<1>4. CASE Finish(t, "error")
  BY <1>1, <1>2, <1>4, FinishEffect DEF ScanEnds, SameConns, SameAges
<1> QED
  BY <1>3, <1>4 DEF ScanEnds

\* The pop of an expired session.
LEMMA SweepPopEffect ==
    ASSUME IInv, NEW t \in Threads, NEW i \in Ids, SweepPop(t, i)
    PROVE  /\ th[t].pc = "pop" /\ Keeps(t) /\ clock' = clock
           /\ th'[t].pc = "closing" /\ th'[t].victim = i /\ th'[t].now = th[t].now
           /\ th'[t].expired \subseteq th[t].expired /\ th'[t].outcome = th[t].outcome
           /\ i \in th[t].expired /\ i \in registered /\ registered' = registered \ {i}
           /\ SameConns /\ SameAges
<1>1. TypeOK /\ th \in [Threads -> Local] /\ rec \in [Ids -> Record]
  BY DEF IInv, TypeOK
<1>2. th[t].pc = "pop"
  BY DEF SweepPop
<1>3. i \in th[t].expired /\ i \in registered /\ registered' = registered \ {i}
  BY DEF SweepPop, IsFirst, DictPop
<1> QED
  BY <1>1, <1>2, <1>3 DEF SweepPop, Local, Keeps, SameConns, SameAges

\* The KeyError of a second sweep.
LEMMA SweepRaisesEffect ==
    ASSUME IInv, NEW t \in Threads, NEW i \in Ids, SweepRaises(t, i)
    PROVE  /\ th[t].pc = "pop" /\ Keeps(t) /\ clock' = clock
           /\ Finished(t, "error")
           /\ registered' = registered /\ SameConns /\ SameAges
<1>1. TypeOK /\ th \in [Threads -> Local] /\ rec \in [Ids -> Record]
  BY DEF IInv, TypeOK
<1>2. th[t].pc = "pop"
  BY DEF SweepRaises
<1> QED
  BY <1>1, <1>2, FinishEffect DEF SweepRaises, SameConns, SameAges

\* conn.close(): one connection, once.
LEMMA CloseEffect ==
    ASSUME IInv, NEW t \in Threads, Close(t)
    PROVE  /\ th[t].pc = "closing" /\ Keeps(t) /\ clock' = clock
           /\ \/ th[t].op = "delete" /\ Finished(t, "ok")
              \/ /\ th[t].op # "delete" /\ th'[t].pc = "pop" /\ th'[t].victim = None
                 /\ th'[t].now = th[t].now /\ th'[t].expired = th[t].expired
                 /\ th'[t].outcome = th[t].outcome
           /\ \A i \in Ids :
                 rec'[i].conn = IF i = th[t].victim THEN "closed" ELSE rec[i].conn
           /\ registered' = registered /\ SameAges
<1>1. TypeOK /\ th \in [Threads -> Local] /\ rec \in [Ids -> Record]
  BY DEF IInv, TypeOK
<1>2. th[t].pc = "closing"
  BY DEF Close
<1>3. /\ registered' = registered /\ clock' = clock /\ SameAges
      /\ \A i \in Ids :
            rec'[i].conn = IF i = th[t].victim THEN "closed" ELSE rec[i].conn
  BY <1>1, <1>2 DEF Close, Record, SameAges
<1>4. CASE th[t].op = "delete"
  BY <1>1, <1>2, <1>3, <1>4, FinishEffect DEF Close
<1>5. CASE th[t].op # "delete"
  BY <1>1, <1>2, <1>3, <1>5 DEF Close, Local, Keeps
<1> QED
  BY <1>4, <1>5

\* The end of the sweep.
LEMMA SweepDoneEffect ==
    ASSUME IInv, NEW t \in Threads, SweepDone(t)
    PROVE  /\ th[t].pc = "pop" /\ Keeps(t) /\ clock' = clock
           /\ Moved(t, IF th[t].op = "create" THEN "insert" ELSE "lookup")
           /\ registered' = registered /\ SameConns /\ SameAges
<1>1. TypeOK /\ th \in [Threads -> Local] /\ rec \in [Ids -> Record]
  BY DEF IInv, TypeOK
<1>2. th[t].pc = "pop"
  BY DEF SweepDone
<1> QED
  BY <1>1, <1>2, GotoEffect DEF SweepDone, SameConns, SameAges

\* The new record, for an id nobody knew.
LEMMA InsertEffect ==
    ASSUME IInv, NEW t \in Threads, Insert(t)
    PROVE  /\ th[t].pc = "insert" /\ Keeps(t) /\ clock' = clock
           /\ Finished(t, "ok") /\ registered' = registered \cup {th[t].id}
           /\ th[t].id \in Ids /\ th[t].id \notin Known /\ th[t].op = "create"
           /\ \A i \in Ids :
                 /\ rec'[i].conn = IF i = th[t].id THEN "open" ELSE rec[i].conn
                 /\ rec'[i].createdAt = IF i = th[t].id THEN th[t].now
                                        ELSE rec[i].createdAt
                 /\ rec'[i].lastAccessed = IF i = th[t].id THEN th[t].now
                                           ELSE rec[i].lastAccessed
<1>1. TypeOK /\ th \in [Threads -> Local] /\ rec \in [Ids -> Record]
  BY DEF IInv, TypeOK
<1>2. th[t].pc = "insert"
  BY DEF Insert
<1>3. th[t].id \in Ids /\ th[t].id \notin Known /\ th[t].op = "create"
  BY <1>2 DEF IInv, PcOp, CreateFresh
<1>4. Keeps(t) /\ Finished(t, "ok")
  BY <1>1, FinishEffect DEF Insert
<1> QED
  BY <1>1, <1>2, <1>3, <1>4 DEF Insert

\* The lookup, which finds the session or answers 404.
LEMMA LookupEffect ==
    ASSUME IInv, NEW t \in Threads, Lookup(t)
    PROVE  /\ th[t].pc = "lookup" /\ Keeps(t) /\ clock' = clock
           /\ \/ th[t].id \in registered /\ Moved(t, "touch")
              \/ th[t].id \notin registered /\ Finished(t, "missing")
           /\ registered' = registered /\ SameConns /\ SameAges
<1>1. TypeOK /\ th \in [Threads -> Local] /\ rec \in [Ids -> Record]
  BY DEF IInv, TypeOK
<1>2. th[t].pc = "lookup"
  BY DEF Lookup
<1>3. CASE th[t].id \in registered
  BY <1>1, <1>2, <1>3, GotoEffect DEF Lookup, SameConns, SameAges
<1>4. CASE th[t].id \notin registered
  BY <1>1, <1>2, <1>4, FinishEffect DEF Lookup, SameConns, SameAges
<1> QED
  BY <1>3, <1>4

\* The write of last_accessed_at.
LEMMA TouchEffect ==
    ASSUME IInv, NEW t \in Threads, Touch(t)
    PROVE  /\ th[t].pc = "touch" /\ Keeps(t) /\ clock' = clock
           /\ \/ th[t].op = "tables" /\ Moved(t, "acquire")
              \/ th[t].op # "tables" /\ Finished(t, "ok")
           /\ registered' = registered /\ SameConns
           /\ \A i \in Ids :
                 /\ rec'[i].createdAt = rec[i].createdAt
                 /\ rec'[i].lastAccessed = IF i = th[t].id THEN th[t].now
                                           ELSE rec[i].lastAccessed
<1>1. TypeOK /\ th \in [Threads -> Local] /\ rec \in [Ids -> Record]
  BY DEF IInv, TypeOK
<1>2. th[t].pc = "touch"
  BY DEF Touch
<1>3. /\ registered' = registered /\ clock' = clock /\ SameConns
      /\ \A i \in Ids :
            /\ rec'[i].createdAt = rec[i].createdAt
            /\ rec'[i].lastAccessed = IF i = th[t].id THEN th[t].now
                                      ELSE rec[i].lastAccessed
  BY <1>1, <1>2 DEF Touch, Refresh, Record, SameConns
<1>4. CASE th[t].op = "tables"
  BY <1>1, <1>2, <1>3, <1>4, GotoEffect DEF Touch
<1>5. CASE th[t].op # "tables"
  BY <1>1, <1>2, <1>3, <1>5, FinishEffect DEF Touch
<1> QED
  BY <1>4, <1>5

\* The pop of a delete, or its 404.
LEMMA UnregisterEffect ==
    ASSUME IInv, NEW t \in Threads, Unregister(t)
    PROVE  /\ th[t].pc = "unregister" /\ Keeps(t) /\ clock' = clock
           /\ \/ /\ th[t].id \in registered /\ registered' = registered \ {th[t].id}
                 /\ th'[t].pc = "closing" /\ th'[t].victim = th[t].id
                 /\ th'[t].now = th[t].now /\ th'[t].expired = th[t].expired
                 /\ th'[t].outcome = th[t].outcome
              \/ /\ th[t].id \notin registered /\ registered' = registered
                 /\ Finished(t, "missing")
           /\ SameConns /\ SameAges
<1>1. TypeOK /\ th \in [Threads -> Local] /\ rec \in [Ids -> Record]
  BY DEF IInv, TypeOK
<1>2. th[t].pc = "unregister"
  BY DEF Unregister
<1>3. rec' = rec /\ clock' = clock
  BY DEF Unregister
<1>4. CASE /\ th[t].id \in registered /\ DictPop(th[t].id)
           /\ th' = [th EXCEPT ![t].pc = "closing", ![t].victim = th[t].id]
  BY <1>1, <1>2, <1>3, <1>4 DEF DictPop, Local, Keeps, SameConns, SameAges
<1>5. CASE th[t].id \notin registered /\ Finish(t, "missing") /\ UNCHANGED registered
  BY <1>1, <1>2, <1>3, <1>5, FinishEffect DEF SameConns, SameAges
<1> QED
  BY <1>4, <1>5 DEF Unregister

\* The lock taken.
LEMMA AcquireEffect ==
    ASSUME IInv, NEW t \in Threads, Acquire(t)
    PROVE  /\ th[t].pc = "acquire" /\ Keeps(t) /\ clock' = clock
           /\ Moved(t, "using")
           /\ registered' = registered /\ SameConns /\ SameAges
<1>1. TypeOK /\ th \in [Threads -> Local] /\ rec \in [Ids -> Record]
  BY DEF IInv, TypeOK
<1>2. th[t].pc = "acquire"
  BY DEF Acquire
<1>3. registered' = registered /\ clock' = clock /\ SameConns /\ SameAges
  BY <1>1, <1>2 DEF Acquire, Record, SameConns, SameAges
<1> QED
  BY <1>1, <1>2, <1>3, GotoEffect DEF Acquire

\* The lock released with the answer.
LEMMA ReleaseEffect ==
    ASSUME IInv, NEW t \in Threads, Release(t)
    PROVE  /\ th[t].pc = "using" /\ Keeps(t) /\ clock' = clock
           /\ \/ Finished(t, "ok")
              \/ rec[th[t].id].conn # "open" /\ Finished(t, "error")
           /\ registered' = registered /\ SameConns /\ SameAges
<1>1. TypeOK /\ th \in [Threads -> Local] /\ rec \in [Ids -> Record]
  BY DEF IInv, TypeOK
<1>2. th[t].pc = "using"
  BY DEF Release
<1>3. registered' = registered /\ clock' = clock /\ SameConns /\ SameAges
  BY <1>1, <1>2 DEF Release, Record, SameConns, SameAges
<1> QED
  BY <1>1, <1>2, <1>3, FinishEffect DEF Release

-----------------------------------------------------------------------------
(* The instants that threads hold and records carry.                       *)

\* No instant a thread may write to a record lies before the record's creation,
\* and what a sweep has found expired is older than the TTL.
Named == \A t \in Threads : th[t].pc = "closing" /\ th[t].op = "delete" =>
                                th[t].victim = th[t].id
RecordAges == \A i \in Known : /\ rec[i].createdAt <= rec[i].lastAccessed
                               /\ rec[i].createdAt <= clock
HeldAges ==
    \A t \in Threads :
        /\ th[t].now <= clock
        /\ th[t].pc \in {"scan", "pop", "closing", "lookup", "touch"}
              /\ th[t].op \in {"messages", "tables"} =>
                 rec[th[t].id].createdAt <= th[t].now
        /\ \A i \in th[t].expired : i \in Known /\ th[t].now - rec[i].createdAt > TTL
        /\ th[t].pc # "closing" => th[t].victim = None
Ages == Named /\ RecordAges /\ HeldAges

\* All instants are numbers.
LEMMA InstantsTyped ==
    ASSUME TypeOK
    PROVE  /\ clock \in Nat /\ TTL \in Nat /\ registered \in SUBSET Ids
           /\ \A t \in Threads : th[t].now \in Nat /\ th[t].expired \in SUBSET Ids
           /\ \A i \in Ids : rec[i].createdAt \in Nat /\ rec[i].lastAccessed \in Nat
BY DEF TypeOK, Local, Record

\* What keeps the connections keeps the sessions that are known.
LEMMA KnownKept ==
    ASSUME IInv, NEW t \in Threads, Close(t) \/ SameConns
    PROVE  Known' = Known
<1>1. CASE SameConns
  BY <1>1 DEF SameConns, Known
<1>2. CASE Close(t)
  <2>1. th[t].victim \in Ids /\ rec[th[t].victim].conn = "open"
    BY <1>2 DEF IInv, PcOp, ClosedByOne, Close
  <2> QED
    BY <1>2, <2>1, CloseEffect DEF Known
<1> QED
  BY <1>1, <1>2

\* A step that changes no record's instants, and gives the request no new one.
LEMMA QuietAges ==
    ASSUME IInv, IInv', Ages, NEW t \in Threads, Keeps(t), SameAges, Known' = Known,
           clock' = clock, th'[t].now \in {th[t].now, 0},
           th'[t].expired = {} \/ (th'[t].now = th[t].now /\ th'[t].expired \subseteq th[t].expired),
           th'[t].pc \in {"scan", "pop", "closing", "lookup", "touch"} =>
               \/ th[t].pc \in {"scan", "pop", "closing", "lookup", "touch"}
                     /\ th'[t].now = th[t].now
               \/ th[t].op = "delete",
           th'[t].pc # "closing" => th'[t].victim = None,
           th'[t].pc = "closing" /\ th[t].op = "delete" => th'[t].victim = th[t].id
    PROVE  Ages'
<1>1. /\ TypeOK /\ th \in [Threads -> Local]
      /\ \A u \in Threads \ {t} : th'[u] = th[u]
      /\ th'[t].op = th[t].op /\ th'[t].id = th[t].id
  BY DEF IInv, TypeOK, Keeps
<1>2. Named'
  BY <1>1 DEF Ages, Named
<1>3. Known \subseteq Ids
  BY DEF Known
<1>4. RecordAges'
  BY <1>3 DEF Ages, RecordAges, SameAges
<1>5. ASSUME NEW u \in Threads
      PROVE  /\ th'[u].now <= clock
             /\ th'[u].pc \in {"scan", "pop", "closing", "lookup", "touch"}
                   /\ th'[u].op \in {"messages", "tables"} =>
                      rec[th'[u].id].createdAt <= th'[u].now
             /\ \A i \in th'[u].expired : i \in Known /\ th'[u].now - rec[i].createdAt > TTL
             /\ th'[u].pc # "closing" => th'[u].victim = None
  <2>1. CASE u # t
    BY <1>1, <2>1 DEF Ages, HeldAges
  <2>2. CASE u = t
    <3>1. th'[t].now <= clock
      BY <1>1, InstantsTyped DEF Ages, HeldAges
    <3>2. \A i \in th'[t].expired : i \in Known /\ th'[t].now - rec[i].createdAt > TTL
      BY DEF Ages, HeldAges
    <3>3. th'[t].pc \in {"scan", "pop", "closing", "lookup", "touch"}
                   /\ th'[t].op \in {"messages", "tables"} =>
                      rec[th'[t].id].createdAt <= th'[t].now
      BY <1>1 DEF Ages, HeldAges
    <3> QED
      BY <2>2, <3>1, <3>2, <3>3
  <2> QED
    BY <2>1, <2>2
<1>6. \A u \in Threads : th'[u].pc # "idle" => th'[u].id \in Ids
  BY DEF IInv, PcOp
<1>7. HeldAges'
  <2>1. \A u \in Threads : th'[u].pc \in {"scan", "pop", "closing", "lookup", "touch"} =>
            rec'[th'[u].id].createdAt = rec[th'[u].id].createdAt
    BY <1>6 DEF SameAges
  <2>2. \A i \in Known : rec'[i].createdAt = rec[i].createdAt
    BY <1>3 DEF SameAges
  <2> QED
    BY <1>5, <2>1, <2>2 DEF HeldAges
<1> QED
  BY <1>2, <1>4, <1>7 DEF Ages

\* Most steps give the request no new instant.
LEMMA StepQuietAges ==
    ASSUME IInv, IInv', Ages, NEW t \in Threads,
           \/ ScanEnds(t) \/ Close(t) \/ SweepDone(t) \/ Lookup(t) \/ Unregister(t)
           \/ Acquire(t) \/ Release(t)
           \/ \E i \in Ids : SweepPop(t, i) \/ SweepRaises(t, i)
    PROVE  Ages'
<1>1. PcOp /\ (th[t].pc # "closing" => th[t].victim = None)
  BY DEF IInv, Ages, HeldAges
<1>2. CASE ScanEnds(t)
  BY <1>1, <1>2, ScanEndsEffect, KnownKept, QuietAges DEF Moved, Finished
<1>3. CASE Close(t)
  BY <1>1, <1>3, CloseEffect, KnownKept, QuietAges DEF Finished
<1>4. CASE SweepDone(t)
  BY <1>1, <1>4, SweepDoneEffect, KnownKept, QuietAges DEF Moved
<1>5. CASE Lookup(t)
  BY <1>1, <1>5, LookupEffect, KnownKept, QuietAges DEF Moved, Finished
<1>6. CASE Unregister(t)
  <2>1. th[t].op = "delete"
    BY <1>1, <1>6, UnregisterEffect DEF PcOp
  <2> QED
    BY <1>1, <1>6, <2>1, UnregisterEffect, KnownKept, QuietAges DEF Finished
<1>7. CASE Acquire(t)
  BY <1>1, <1>7, AcquireEffect, KnownKept, QuietAges DEF Moved
<1>8. CASE Release(t)
  BY <1>1, <1>8, ReleaseEffect, KnownKept, QuietAges DEF Finished
<1>9. ASSUME NEW i \in Ids, SweepPop(t, i) PROVE Ages'
  <2>1. th[t].op # "delete"
    BY <1>1, <1>9, SweepPopEffect DEF PcOp
  <2> QED
    BY <1>1, <1>9, <2>1, SweepPopEffect, KnownKept, QuietAges
<1>10. ASSUME NEW i \in Ids, SweepRaises(t, i) PROVE Ages'
  BY <1>1, <1>10, SweepRaisesEffect, KnownKept, QuietAges DEF Finished
<1> QED
  BY <1>2, <1>3, <1>4, <1>5, <1>6, <1>7, <1>8, <1>9, <1>10

\* A new request names a session that exists, or will hold no instant of it.
LEMMA RequestAges ==
    ASSUME IInv, Ages, NEW t \in Threads, NEW o \in Ops, NEW i \in Ids, Request(t, o, i)
    PROVE  Ages'
<1>1. /\ th[t].pc = "idle" /\ \A u \in Threads \ {t} : th'[u] = th[u]
      /\ th'[t].pc \in {"unregister", "enter"}
      /\ th'[t].victim = th[t].victim /\ th'[t].now = th[t].now
      /\ th'[t].expired = th[t].expired
      /\ SameConns /\ SameAges /\ clock' = clock
  BY RequestEffect
<1>2. Known' = Known /\ Known \subseteq Ids
  BY <1>1, KnownKept DEF Known
<1>3. Named' /\ RecordAges'
  BY <1>1, <1>2 DEF Ages, Named, RecordAges, SameAges
<1>4. \A u \in Threads : th[u].pc # "idle" => th[u].id \in Ids
  BY DEF IInv, PcOp
<1>5. HeldAges'
  BY <1>1, <1>2, <1>4 DEF Ages, HeldAges, SameAges
<1> QED
  BY <1>3, <1>5 DEF Ages

\* The clock is read after the record it is compared with was made.
LEMMA EnterAges ==
    ASSUME IInv, Ages, NEW t \in Threads, Enter(t)
    PROVE  Ages'
<1>1. /\ th[t].pc = "enter" /\ \A u \in Threads \ {t} : th'[u] = th[u]
      /\ th'[t].op = th[t].op /\ th'[t].id = th[t].id
      /\ th'[t].pc = "scan" /\ th'[t].now = clock
      /\ th'[t].victim = th[t].victim /\ th'[t].expired = th[t].expired
      /\ SameConns /\ SameAges /\ clock' = clock
  BY EnterEffect DEF Keeps
<1>2. Known' = Known /\ Known \subseteq Ids
  BY <1>1, KnownKept DEF Known
<1>3. Named' /\ RecordAges'
  BY <1>1, <1>2 DEF Ages, Named, RecordAges, SameAges
<1>4. \A u \in Threads : /\ th[u].pc # "idle" => th[u].id \in Ids
                         /\ th[u].op # "create" => th[u].id \in Known
  BY DEF IInv, PcOp
<1>5. ASSUME NEW i \in th[t].expired PROVE i \in Known /\ clock - rec[i].createdAt > TTL
  <2>1. i \in Known /\ th[t].now - rec[i].createdAt > TTL /\ th[t].now <= clock
    BY DEF Ages, HeldAges
  <2> QED
    BY <1>2, <2>1, InstantsTyped DEF IInv
<1>6. th[t].op \in {"messages", "tables"} => rec[th[t].id].createdAt <= clock
  BY <1>4 DEF Ages, RecordAges
<1>7. ASSUME NEW u \in Threads
      PROVE  /\ th'[u].now <= clock
             /\ th'[u].pc \in {"scan", "pop", "closing", "lookup", "touch"}
                   /\ th'[u].op \in {"messages", "tables"} =>
                      rec'[th'[u].id].createdAt <= th'[u].now
             /\ \A i \in th'[u].expired : i \in Known /\ th'[u].now - rec'[i].createdAt > TTL
             /\ th'[u].pc # "closing" => th'[u].victim = None
  <2>1. CASE u # t
    BY <1>1, <1>2, <1>4, <2>1 DEF Ages, HeldAges, SameAges
  <2>2. CASE u = t
    <3>1. clock <= clock
      BY InstantsTyped DEF IInv
    <3>2. th[t].id \in Ids
      BY <1>1, <1>4
    <3> QED
      BY <1>1, <1>2, <1>5, <1>6, <2>2, <3>1, <3>2 DEF Ages, HeldAges, SameAges
  <2> QED
    BY <2>1, <2>2
<1>8. HeldAges'
  BY <1>1, <1>2, <1>7 DEF HeldAges
<1> QED
  BY <1>3, <1>8 DEF Ages

\* A record found expired was last used, and so was made, more than a TTL ago.
LEMMA ScanRecordAges ==
    ASSUME IInv, Ages, NEW t \in Threads, NEW i \in Ids, ScanRecord(t, i)
    PROVE  Ages'
<1>1. /\ th[t].pc = "scan" /\ \A u \in Threads \ {t} : th'[u] = th[u]
      /\ th'[t].op = th[t].op /\ th'[t].id = th[t].id
      /\ th'[t].pc = "scan" /\ th'[t].now = th[t].now /\ th'[t].victim = th[t].victim
      /\ th'[t].expired = th[t].expired \cup {j \in {i} : IsExpired(j, t)}
      /\ i \in registered /\ SameConns /\ SameAges /\ clock' = clock
  BY ScanRecordEffect DEF Keeps
<1>2. Known' = Known /\ Known \subseteq Ids
  BY <1>1, KnownKept DEF Known
<1>3. Named' /\ RecordAges'
  BY <1>1, <1>2 DEF Ages, Named, RecordAges, SameAges
<1>4. \A u \in Threads : th[u].pc # "idle" => th[u].id \in Ids
  BY DEF IInv, PcOp
<1>5. IsExpired(i, t) => i \in Known /\ th[t].now - rec[i].createdAt > TTL
  <2>1. i \in Known
    BY <1>1 DEF IInv, RegisteredIsOpen, Known
  <2>2. rec[i].createdAt <= rec[i].lastAccessed
    BY <2>1 DEF Ages, RecordAges
  <2> QED
    BY <2>1, <2>2, InstantsTyped DEF IInv, IsExpired
<1>6. \A j \in th'[t].expired : j \in Known /\ th[t].now - rec[j].createdAt > TTL
  BY <1>1, <1>5 DEF Ages, HeldAges
<1>7. ASSUME NEW u \in Threads
      PROVE  /\ th'[u].now <= clock
             /\ th'[u].pc \in {"scan", "pop", "closing", "lookup", "touch"}
                   /\ th'[u].op \in {"messages", "tables"} =>
                      rec'[th'[u].id].createdAt <= th'[u].now
             /\ \A j \in th'[u].expired : j \in Known /\ th'[u].now - rec'[j].createdAt > TTL
             /\ th'[u].pc # "closing" => th'[u].victim = None
  <2>1. CASE u # t
    BY <1>1, <1>2, <1>4, <2>1 DEF Ages, HeldAges, SameAges
  <2>2. CASE u = t
    BY <1>1, <1>2, <1>4, <1>6, <2>2 DEF Ages, HeldAges, SameAges
  <2> QED
    BY <2>1, <2>2
<1>8. HeldAges'
  BY <1>1, <1>2, <1>7 DEF HeldAges
<1> QED
  BY <1>3, <1>8 DEF Ages

\* A new record carries the instant its create has read; nobody holds one of it yet.
LEMMA InsertAges ==
    ASSUME IInv, Ages, NEW t \in Threads, Insert(t)
    PROVE  Ages'
<1> DEFINE n == th[t].id
<1>1. /\ \A u \in Threads \ {t} : th'[u] = th[u]
      /\ Finished(t, "ok") /\ clock' = clock /\ th'[t].op = th[t].op /\ th'[t].id = n
      /\ n \in Ids /\ n \notin Known /\ th[t].op = "create" /\ th[t].pc = "insert"
      /\ \A i \in Ids :
            /\ rec'[i].conn = IF i = n THEN "open" ELSE rec[i].conn
            /\ rec'[i].createdAt = IF i = n THEN th[t].now ELSE rec[i].createdAt
            /\ rec'[i].lastAccessed = IF i = n THEN th[t].now ELSE rec[i].lastAccessed
  BY InsertEffect DEF Keeps
<1>2. Known' = Known \cup {n} /\ Known \subseteq Ids
  BY <1>1 DEF Known
<1>3. clock \in Nat /\ th[t].now \in Nat /\ th[t].now <= clock
  BY InstantsTyped DEF IInv, Ages, HeldAges
<1>4. Named'
  BY <1>1 DEF Ages, Named, Finished
<1>5. RecordAges'
  BY <1>1, <1>2, <1>3 DEF Ages, RecordAges
<1>6. \A u \in Threads \ {t} : /\ th[u].pc # "idle" => th[u].id \in Ids
                               /\ th[u].id # n
  BY <1>1 DEF IInv, PcOp, CreateFresh
<1>7. ASSUME NEW u \in Threads
      PROVE  /\ th'[u].now <= clock
             /\ th'[u].pc \in {"scan", "pop", "closing", "lookup", "touch"}
                   /\ th'[u].op \in {"messages", "tables"} =>
                      rec'[th'[u].id].createdAt <= th'[u].now
             /\ \A j \in th'[u].expired : j \in Known /\ th'[u].now - rec'[j].createdAt > TTL
             /\ th'[u].pc # "closing" => th'[u].victim = None
  <2>1. CASE u # t
    BY <1>1, <1>2, <1>6, <2>1 DEF Ages, HeldAges
  <2>2. CASE u = t
    BY <1>1, <1>3, <2>2 DEF Finished
  <2> QED
    BY <2>1, <2>2
<1>8. HeldAges'
  BY <1>1, <1>2, <1>7 DEF HeldAges
<1> QED
  BY <1>4, <1>5, <1>8 DEF Ages

\* What a touch writes is stale at worst, but never older than the record.
LEMMA TouchAges ==
    ASSUME IInv, Ages, NEW t \in Threads, Touch(t)
    PROVE  Ages'
<1> DEFINE n == th[t].id
<1>1. /\ \A u \in Threads \ {t} : th'[u] = th[u]
      /\ clock' = clock /\ th[t].pc = "touch" /\ SameConns
      /\ Moved(t, "acquire") \/ Finished(t, "ok")
      /\ th'[t].op = th[t].op /\ th'[t].id = n
      /\ \A i \in Ids :
            /\ rec'[i].createdAt = rec[i].createdAt
            /\ rec'[i].lastAccessed = IF i = n THEN th[t].now ELSE rec[i].lastAccessed
  BY TouchEffect DEF Keeps
<1>2. Known' = Known /\ Known \subseteq Ids
  BY <1>1, KnownKept DEF Known
<1>3. /\ rec[n].createdAt <= th[t].now /\ clock \in Nat
      /\ th[t].op # "delete"
  BY <1>1, InstantsTyped DEF IInv, PcOp, Ages, HeldAges
<1>4. Named'
  BY <1>1, <1>3 DEF Ages, Named
<1>5. RecordAges'
  BY <1>1, <1>2, <1>3 DEF Ages, RecordAges
<1>6. \A u \in Threads : th[u].pc # "idle" => th[u].id \in Ids
  BY DEF IInv, PcOp
<1>7. ASSUME NEW u \in Threads
      PROVE  /\ th'[u].now <= clock
             /\ th'[u].pc \in {"scan", "pop", "closing", "lookup", "touch"}
                   /\ th'[u].op \in {"messages", "tables"} =>
                      rec'[th'[u].id].createdAt <= th'[u].now
             /\ \A j \in th'[u].expired : j \in Known /\ th'[u].now - rec'[j].createdAt > TTL
             /\ th'[u].pc # "closing" => th'[u].victim = None
  <2>1. CASE u # t
    BY <1>1, <1>2, <1>6, <2>1 DEF Ages, HeldAges
  <2>2. CASE u = t /\ Moved(t, "acquire")
    BY <1>1, <1>2, <2>2 DEF Moved, Ages, HeldAges
  <2>3. CASE u = t /\ Finished(t, "ok")
    BY <1>3, <2>3 DEF Finished
  <2> QED
    BY <1>1, <2>1, <2>2, <2>3
<1>8. HeldAges'
  BY <1>1, <1>2, <1>7 DEF HeldAges
<1> QED
  BY <1>4, <1>5, <1>8 DEF Ages

\* Time passes, or nothing happens.
LEMMA IdleAges ==
    ASSUME IInv, Ages, Tick \/ Stopped \/ UNCHANGED vars
    PROVE  Ages'
<1>1. rec' = rec /\ th' = th /\ clock' \in {clock, clock + 1}
  BY DEF Tick, Stopped, vars
<1>2. Known' = Known /\ Known \subseteq Ids
  BY <1>1 DEF Known
<1>3. ASSUME NEW x \in Nat, x <= clock PROVE x <= clock'
  BY <1>1, <1>3, InstantsTyped DEF IInv
<1>4. Named' /\ RecordAges' /\ HeldAges'
  BY <1>1, <1>2, <1>3, InstantsTyped DEF IInv, Ages, Named, RecordAges, HeldAges
<1> QED
  BY <1>4 DEF Ages

\* The ages are right in every reachable state.
LEMMA AgesInvariance == Spec => []Ages
<1>1. Init => Ages
  BY DEF Init, Ages, Named, RecordAges, HeldAges, Known
<1>2. IInv /\ IInv' /\ Ages /\ [Next]_vars => Ages'
  <2> SUFFICES ASSUME IInv, IInv', Ages, [Next]_vars PROVE Ages'
    OBVIOUS
  <2>1. ASSUME NEW t \in Threads, Step(t) PROVE Ages'
    BY <2>1, EnterAges, ScanRecordAges, InsertAges, TouchAges, StepQuietAges DEF Step
  <2> QED
    BY <2>1, RequestAges, IdleAges DEF Next
<1> QED
  BY <1>1, <1>2, Invariance, PTL DEF Spec

\* A thread that is about to pop holds no victim: a session becomes its victim
\* only by the pop itself.
LEMMA EvictsByPop ==
    ASSUME IInv, Ages, [Next]_vars, NEW t \in Threads, NEW i \in Ids, Evicts(t, i)
    PROVE  i \in th[t].expired /\ clock' = clock
<1>1. th[t].pc = "pop" /\ th'[t].victim = i /\ i # None /\ th[t].victim = None
  BY DEF Evicts, Ages, HeldAges
<1>2. CASE Tick \/ Stopped \/ UNCHANGED vars
  BY <1>1, <1>2 DEF Tick, Stopped, vars
<1>3. ASSUME NEW u \in Threads, NEW o \in Ops, NEW j \in Ids, Request(u, o, j) PROVE FALSE
  <2>1. /\ th[u].pc = "idle" /\ \A v \in Threads \ {u} : th'[v] = th[v]
    BY <1>3, RequestEffect
  <2> QED
    BY <1>1, <2>1
<1>4. ASSUME NEW u \in Threads, Step(u)
      PROVE  i \in th[t].expired /\ clock' = clock
  <2>1. CASE u # t
    <3>1. Keeps(u)
      BY <1>4, EnterEffect, ScanRecordEffect, ScanEndsEffect, SweepPopEffect,
         SweepRaisesEffect, CloseEffect, SweepDoneEffect, InsertEffect, LookupEffect,
         TouchEffect, UnregisterEffect, AcquireEffect, ReleaseEffect DEF Step
    <3> QED
      BY <1>1, <2>1, <3>1 DEF Keeps
  <2>2. CASE u = t /\ \E j \in Ids : SweepPop(t, j)
    BY <1>1, <2>2, SweepPopEffect
  <2>3. CASE u = t /\ (SweepDone(t) \/ \E j \in Ids : SweepRaises(t, j))
    BY <1>1, <2>3, SweepDoneEffect, SweepRaisesEffect DEF Moved, Finished
  <2>4. CASE u = t /\ (Enter(t) \/ ScanEnds(t) \/ Close(t) \/ \E j \in Ids : ScanRecord(t, j))
    BY <1>1, <2>4, EnterEffect, ScanEndsEffect, CloseEffect, ScanRecordEffect
  <2>5. CASE u = t /\ (Insert(t) \/ Lookup(t) \/ Touch(t))
    BY <1>1, <2>5, InsertEffect, LookupEffect, TouchEffect
  <2>6. CASE u = t /\ (Unregister(t) \/ Acquire(t) \/ Release(t))
    BY <1>1, <2>6, UnregisterEffect, AcquireEffect, ReleaseEffect
  <2> QED
    BY <1>4, <2>1, <2>2, <2>3, <2>4, <2>5, <2>6 DEF Step
<1> QED
  BY <1>2, <1>3, <1>4 DEF Next

\* Stale instants never evict a session early: whatever a racing request compares
\* with or writes back, a sweep pops no session before its first TTL is over.
THEOREM EvictionsNotEarly == Spec => NoEarlyEviction
<1>1. IInv /\ Ages /\ [Next]_vars =>
          [\A t \in Threads, i \in Ids : Evicts(t, i) => clock - rec[i].createdAt > TTL]_vars
  <2> SUFFICES ASSUME IInv, Ages, [Next]_vars, NEW t \in Threads, NEW i \in Ids, Evicts(t, i)
               PROVE  clock - rec[i].createdAt > TTL
    OBVIOUS
  <2>1. th[t].now - rec[i].createdAt > TTL /\ th[t].now <= clock
    BY EvictsByPop DEF Ages, HeldAges
  <2> QED
    BY <2>1, InstantsTyped DEF IInv
<1> QED
  BY <1>1, Invariance, AgesInvariance, PTL DEF Spec, NoEarlyEviction

-----------------------------------------------------------------------------
(* The refinement: what a client sees of the threads is SessionLifecycle.  *)

PhaseView == [i \in Ids |-> Phase(i)]
Answered(t) == IF th[t].outcome = "pending" THEN "none" ELSE th[t].outcome
CallView == [t \in Threads |-> [state |-> CallState(t), op |-> th[t].op,
                                id |-> th[t].id, answer |-> Answered(t)]]
LifecycleStep == [Lifecycle!Next]_(Lifecycle!vars)

\* Neither the dict nor a connection changes.
LEMMA PhasesKept ==
    ASSUME registered' = registered, SameConns
    PROVE  PhaseView' = PhaseView
<1>1. \A i \in Ids : Phase(i)' = Phase(i)
  BY DEF Phase, SameConns
<1> QED
  BY <1>1 DEF PhaseView

\* The dict or a connection changes for one session only.
LEMMA PhaseMoves ==
    ASSUME NEW i \in Ids, NEW p, Phase(i)' = p,
           \A j \in Ids \ {i} : rec'[j].conn = rec[j].conn
                                /\ (j \in registered' <=> j \in registered)
    PROVE  PhaseView' = [PhaseView EXCEPT ![i] = p]
<1>1. \A j \in Ids \ {i} : Phase(j)' = Phase(j)
  BY DEF Phase
<1> QED
  BY <1>1 DEF PhaseView

\* A request goes on, in the client's eyes where it was or a step further.
LEMMA CallMoves ==
    ASSUME NEW t \in Threads, Keeps(t), NEW s, CallState(t)' = s,
           th'[t].outcome = th[t].outcome
    PROVE  CallView' = [CallView EXCEPT ![t].state = s]
<1>1. \A u \in Threads \ {t} : CallState(u)' = CallState(u) /\ Answered(u)' = Answered(u)
  BY DEF Keeps, CallState, Answered
<1>2. Answered(t)' = Answered(t)
  BY DEF Answered
<1> QED
  BY <1>1, <1>2 DEF CallView, Keeps

\* A request goes on unseen by its client.
LEMMA CallKept ==
    ASSUME NEW t \in Threads, Keeps(t), CallState(t)' = CallState(t),
           th'[t].outcome = th[t].outcome
    PROVE  CallView' = CallView
<1>1. \A u \in Threads \ {t} : CallState(u)' = CallState(u) /\ Answered(u)' = Answered(u)
  BY DEF Keeps, CallState, Answered
<1>2. Answered(t)' = Answered(t)
  BY DEF Answered
<1> QED
  BY <1>1, <1>2 DEF CallView, Keeps

\* A request is answered.
LEMMA CallAnswered ==
    ASSUME NEW t \in Threads, Keeps(t), NEW a, a # "pending", Finished(t, a)
    PROVE  CallView' = [CallView EXCEPT ![t].state = "idle", ![t].answer = a]
<1>1. \A u \in Threads \ {t} : CallState(u)' = CallState(u) /\ Answered(u)' = Answered(u)
  BY DEF Keeps, CallState, Answered
<1>2. CallState(t)' = "idle" /\ Answered(t)' = a
  BY DEF Finished, CallState, Answered
<1> QED
  BY <1>1, <1>2 DEF CallView, Keeps

\* The phase of a session by what is known of it.
LEMMA Phases ==
    ASSUME RegisteredIsOpen, NEW i \in Ids
    PROVE  /\ PhaseView[i] = Phase(i)
           /\ Phase(i) = "absent" <=> i \notin Known
           /\ i \in registered /\ i \in Known => Phase(i) = "live"
           /\ i \notin registered /\ rec[i].conn = "open" => Phase(i) = "removed"
           /\ i \notin registered /\ rec[i].conn = "closed" => Phase(i) = "closed"
<1>1. PhaseView[i] = Phase(i)
  BY DEF PhaseView
<1>2. CASE rec[i].conn = "none"
  BY <1>1, <1>2 DEF Phase, Known, RegisteredIsOpen
<1>3. CASE i \in registered
  BY <1>1, <1>3 DEF Phase, Known, RegisteredIsOpen
<1>4. CASE rec[i].conn # "none" /\ i \notin registered
  BY <1>1, <1>4 DEF Phase, Known
<1> QED
  BY <1>2, <1>3, <1>4

\* The request reaches its handler.
LEMMA RequestIsAsk ==
    ASSUME IInv, NEW t \in Threads, NEW o \in Ops, NEW i \in Ids, Request(t, o, i)
    PROVE  LifecycleStep
<1>1. /\ th[t].pc = "idle" /\ (o = "create" <=> i \notin Known)
      /\ \A u \in Threads \ {t} : th'[u] = th[u]
      /\ th'[t].op = o /\ th'[t].id = i /\ th'[t].outcome = "pending"
      /\ th'[t].pc = IF o = "delete" THEN "unregister" ELSE "enter"
      /\ registered' = registered /\ SameConns
  BY RequestEffect
<1>2. \A u \in Threads \ {t} : CallState(u)' = CallState(u) /\ Answered(u)' = Answered(u)
  BY <1>1 DEF CallState, Answered
<1>3. CallState(t) = "idle" /\ CallState(t)' = "asked" /\ Answered(t)' = "none"
  BY <1>1 DEF CallState, Answered
<1>4. CallView' = [CallView EXCEPT ![t] = [state |-> "asked", op |-> o, id |-> i,
                                           answer |-> "none"]]
  BY <1>1, <1>2, <1>3 DEF CallView
<1>5. PhaseView' = PhaseView
  BY <1>1, PhasesKept
<1>6. CallView[t].state = "idle" /\ (o = "create" <=> PhaseView[i] = "absent")
  BY <1>1, <1>3, Phases DEF CallView, IInv
<1>7. Lifecycle!Ask(t, o, i)
  BY <1>4, <1>5, <1>6 DEF Lifecycle!Ask, CallView, PhaseView, Answered
<1> QED
  BY <1>7 DEF LifecycleStep, Lifecycle!Next, Ops

\* The fields of a client's call.
LEMMA CallOf ==
    ASSUME NEW t \in Threads
    PROVE  /\ CallView[t].state = CallState(t) /\ CallView[t].op = th[t].op
           /\ CallView[t].id = th[t].id
BY DEF CallView

\* Where a request stands, by the point its thread has reached.
LEMMA CallStates ==
    ASSUME NEW t \in Threads
    PROVE  /\ th[t].pc = "idle" => CallState(t) = "idle"
           /\ th[t].pc \in {"touch", "acquire", "using"} => CallState(t) = "found"
           /\ th[t].pc = "closing" /\ th[t].op = "delete" => CallState(t) = "found"
           /\ th[t].pc = "closing" /\ th[t].op # "delete" => CallState(t) = "asked"
           /\ th[t].pc \in {"enter", "scan", "pop", "insert", "lookup", "unregister"} =>
                 CallState(t) = "asked"
BY DEF CallState

\* The same after a step.
LEMMA CallStatesNext ==
    ASSUME NEW t \in Threads
    PROVE  /\ th'[t].pc \in {"touch", "acquire", "using"} => CallState(t)' = "found"
           /\ th'[t].pc = "closing" /\ th'[t].op = "delete" => CallState(t)' = "found"
           /\ th'[t].pc = "closing" /\ th'[t].op # "delete" => CallState(t)' = "asked"
           /\ th'[t].pc \in {"enter", "scan", "pop", "insert", "lookup", "unregister"} =>
                 CallState(t)' = "asked"
BY DEF CallState

\* Nothing a client could tell.
LEMMA Stutters ==
    ASSUME PhaseView' = PhaseView, CallView' = CallView
    PROVE  LifecycleStep
BY DEF LifecycleStep, Lifecycle!vars, PhaseView, CallView, Answered

\* A sweep that raises fails the request that ran it.
LEMMA Fails ==
    ASSUME IInv, NEW t \in Threads, th[t].pc \in {"scan", "pop"}, Keeps(t),
           Finished(t, "error"), registered' = registered, SameConns
    PROVE  LifecycleStep
<1>1. CallView[t].state = "asked" /\ CallView[t].op # "delete"
  BY CallOf, CallStates DEF IInv, PcOp
<1>2. CallView' = [CallView EXCEPT ![t].state = "idle", ![t].answer = "error"]
  BY CallAnswered
<1>3. PhaseView' = PhaseView
  BY PhasesKept
<1>4. Lifecycle!Fail(t)
  BY <1>1, <1>2, <1>3 DEF Lifecycle!Fail, Lifecycle!Reply, CallView, PhaseView, Answered
<1> QED
  BY <1>4 DEF LifecycleStep, Lifecycle!Next

\* Reading the clock, testing a record, waiting for a lock: no client sees it.
LEMMA InnerStep ==
    ASSUME IInv, NEW t \in Threads,
           \/ Enter(t) \/ SweepDone(t) \/ Acquire(t)
           \/ \E i \in Ids : ScanRecord(t, i)
    PROVE  LifecycleStep
<1>1. /\ Keeps(t) /\ th'[t].outcome = th[t].outcome
      /\ registered' = registered /\ SameConns
      /\ \/ /\ th[t].pc \in {"enter", "scan", "pop"}
            /\ th'[t].pc \in {"scan", "insert", "lookup"}
         \/ th[t].pc = "acquire" /\ th'[t].pc = "using"
  BY EnterEffect, SweepDoneEffect, AcquireEffect, ScanRecordEffect DEF Moved
<1>2. CallState(t)' = CallState(t)
  BY <1>1, CallStates, CallStatesNext
<1> QED
  BY <1>1, <1>2, CallKept, PhasesKept, Stutters

\* The scan ends unseen, or raises.
LEMMA ScanEndsStep ==
    ASSUME IInv, NEW t \in Threads, ScanEnds(t)
    PROVE  LifecycleStep
<1>1. CASE Finished(t, "error")
  BY <1>1, ScanEndsEffect, Fails
<1>2. CASE Moved(t, "pop")
  <2>1. /\ Keeps(t) /\ registered' = registered /\ SameConns
        /\ CallState(t)' = CallState(t) /\ th'[t].outcome = th[t].outcome
    BY <1>2, ScanEndsEffect, CallStates, CallStatesNext DEF Moved
  <2> QED
    BY <2>1, CallKept, PhasesKept, Stutters
<1> QED
  BY <1>1, <1>2, ScanEndsEffect

\* The pop of a sweep is the instant a session is evicted.
LEMMA SweepPopStep ==
    ASSUME IInv, NEW t \in Threads, NEW i \in Ids, SweepPop(t, i)
    PROVE  LifecycleStep
<1>1. /\ th[t].pc = "pop" /\ Keeps(t) /\ th'[t].pc = "closing"
      /\ th'[t].outcome = th[t].outcome /\ th[t].op # "delete"
      /\ i \in registered /\ registered' = registered \ {i} /\ SameConns
      /\ rec[i].conn = "open" /\ RegisteredIsOpen /\ RegisteredIsOpen'
  BY SweepPopEffect, SweepPopIInv DEF IInv, PcOp, RegisteredIsOpen
<1>2. CallView' = CallView
  BY <1>1, CallStates, CallStatesNext, CallKept DEF Keeps
<1>3. PhaseView[i] = "live" /\ Phase(i)' = "removed"
  <2>1. PhaseView[i] = "live"
    BY <1>1, Phases DEF Known
  <2>2. rec'[i].conn = "open" /\ i \notin registered'
    BY <1>1 DEF SameConns
  <2> QED
    BY <2>1, <2>2 DEF Phase
<1>4. PhaseView' = [PhaseView EXCEPT ![i] = "removed"]
  BY <1>1, <1>3, PhaseMoves DEF SameConns
<1>5. Lifecycle!Evict(i)
  BY <1>2, <1>3, <1>4 DEF Lifecycle!Evict, CallView, PhaseView, Answered
<1> QED
  BY <1>5 DEF LifecycleStep, Lifecycle!Next

\* conn.close() closes the session, and is what a delete has been waiting for.
LEMMA CloseStep ==
    ASSUME IInv, Ages, NEW t \in Threads, Close(t)
    PROVE  LifecycleStep
<1>0. PICK i \in Ids : i = th[t].victim
  BY CloseEffect DEF IInv, PcOp
<1>1. /\ th[t].pc = "closing" /\ Keeps(t)
      /\ rec[i].conn = "open" /\ i \notin registered
      /\ registered' = registered /\ RegisteredIsOpen
      /\ \A j \in Ids : rec'[j].conn = IF j = i THEN "closed" ELSE rec[j].conn
  BY <1>0, CloseEffect DEF IInv, ClosedByOne
<1>2. PhaseView[i] = "removed" /\ Phase(i)' = "closed"
  <2>1. PhaseView[i] = "removed"
    BY <1>1, Phases
  <2>2. rec'[i].conn = "closed" /\ i \notin registered'
    BY <1>1
  <2> QED
    BY <2>1, <2>2 DEF Phase
<1>3. PhaseView' = [PhaseView EXCEPT ![i] = "closed"]
  BY <1>1, <1>2, PhaseMoves
<1>4. CASE th[t].op = "delete"
  <2>1. CallView' = [CallView EXCEPT ![t].state = "idle", ![t].answer = "ok"]
    BY <1>4, CloseEffect, CallAnswered
  <2>2. CallView[t].state = "found" /\ CallView[t].op = "delete" /\ CallView[t].id = i
    BY <1>0, <1>1, <1>4, CallOf, CallStates DEF Ages, Named
  <2>3. Lifecycle!Answer(t)
    BY <1>2, <1>3, <2>1, <2>2
       DEF Lifecycle!Answer, Lifecycle!Reply, CallView, PhaseView, Answered
  <2> QED
    BY <2>3 DEF LifecycleStep, Lifecycle!Next
<1>5. CASE th[t].op # "delete"
  <2>1. th'[t].pc = "pop" /\ th'[t].outcome = th[t].outcome
    BY <1>5, CloseEffect
  <2>2. CallView' = CallView
    BY <1>1, <1>5, <2>1, CallStates, CallStatesNext, CallKept
  <2>3. Lifecycle!Close(i)
    BY <1>2, <1>3, <2>2 DEF Lifecycle!Close, CallView, PhaseView, Answered
  <2> QED
    BY <1>1, <2>3 DEF LifecycleStep, Lifecycle!Next
<1> QED
  BY <1>4, <1>5

\* The insertion opens the session and answers its create.
LEMMA InsertStep ==
    ASSUME IInv, NEW t \in Threads, Insert(t)
    PROVE  LifecycleStep
<1>0. PICK i \in Ids : i = th[t].id
  BY InsertEffect
<1>1. /\ th[t].pc = "insert" /\ Keeps(t) /\ Finished(t, "ok")
      /\ registered' = registered \cup {i} /\ i \notin Known
      /\ th[t].op = "create" /\ RegisteredIsOpen
      /\ \A j \in Ids : rec'[j].conn = IF j = i THEN "open" ELSE rec[j].conn
  BY <1>0, InsertEffect DEF IInv
<1>2. PhaseView[i] = "absent" /\ Phase(i)' = "live"
  <2>1. PhaseView[i] = "absent"
    BY <1>1, Phases
  <2>2. rec'[i].conn = "open" /\ i \in registered'
    BY <1>1
  <2> QED
    BY <2>1, <2>2 DEF Phase
<1>3. PhaseView' = [PhaseView EXCEPT ![i] = "live"]
  BY <1>1, <1>2, PhaseMoves
<1>4. CallView' = [CallView EXCEPT ![t].state = "idle", ![t].answer = "ok"]
  BY <1>1, CallAnswered
<1>5. CallView[t].state = "asked" /\ CallView[t].op = "create" /\ CallView[t].id = i
  BY <1>0, <1>1, CallOf, CallStates
<1>6. Lifecycle!Open(t)
  BY <1>2, <1>3, <1>4, <1>5
     DEF Lifecycle!Open, Lifecycle!Reply, CallView, PhaseView, Answered
<1> QED
  BY <1>6 DEF LifecycleStep, Lifecycle!Next

\* A 404: the session asked for has been opened, and is there no more.
LEMMA Misses ==
    ASSUME IInv, NEW t \in Threads, th[t].pc \in {"lookup", "unregister"}, Keeps(t),
           th[t].id \notin registered, Finished(t, "missing"),
           registered' = registered, SameConns
    PROVE  LifecycleStep
<1> DEFINE i == th[t].id
<1>1. i \in Ids /\ th[t].op # "create" /\ i \in Known /\ RegisteredIsOpen
  BY DEF IInv, PcOp
<1>2. rec[i].conn \in {"open", "closed"}
  BY <1>1 DEF IInv, TypeOK, Record, Known
<1>3. PhaseView[i] \in {"removed", "closed"}
  BY <1>1, <1>2, Phases
<1>4. CallView[t].state = "asked" /\ CallView[t].op # "create" /\ CallView[t].id = i
  BY <1>1, CallOf, CallStates
<1>5. CallView' = [CallView EXCEPT ![t].state = "idle", ![t].answer = "missing"]
  BY CallAnswered
<1>6. PhaseView' = PhaseView
  BY PhasesKept
<1>7. Lifecycle!Miss(t)
  BY <1>3, <1>4, <1>5, <1>6
     DEF Lifecycle!Miss, Lifecycle!Reply, CallView, PhaseView, Answered
<1> QED
  BY <1>7 DEF LifecycleStep, Lifecycle!Next

\* The lookup is the instant an answer is about.
LEMMA LookupStep ==
    ASSUME IInv, NEW t \in Threads, Lookup(t)
    PROVE  LifecycleStep
<1> DEFINE i == th[t].id
<1>1. /\ th[t].pc = "lookup" /\ Keeps(t) /\ registered' = registered /\ SameConns
      /\ \/ i \in registered /\ Moved(t, "touch")
         \/ i \notin registered /\ Finished(t, "missing")
  BY LookupEffect
<1>2. CASE i \in registered /\ Moved(t, "touch")
  <2>1. /\ i \in Ids /\ i \in Known /\ th[t].op \notin {"create", "delete"}
        /\ RegisteredIsOpen
    BY <1>1 DEF IInv, PcOp
  <2>2. PhaseView[i] = "live" /\ PhaseView' = PhaseView
    BY <1>1, <1>2, <2>1, Phases, PhasesKept
  <2>3. /\ CallView[t].state = "asked" /\ CallView[t].id = i
        /\ CallView[t].op \notin {"create", "delete"}
    BY <1>1, <2>1, CallOf, CallStates
  <2>4. CallView' = [CallView EXCEPT ![t].state = "found"]
    BY <1>1, <1>2, CallStatesNext, CallMoves DEF Moved
  <2>5. Lifecycle!Find(t)
    BY <2>2, <2>3, <2>4 DEF Lifecycle!Find, CallView, PhaseView, Answered
  <2> QED
    BY <2>5 DEF LifecycleStep, Lifecycle!Next
<1>3. CASE i \notin registered /\ Finished(t, "missing")
  BY <1>1, <1>3, Misses
<1> QED
  BY <1>1, <1>2, <1>3

\* A delete that pops finds its session, and removes it in the same instant.
LEMMA UnregisterStep ==
    ASSUME IInv, NEW t \in Threads, Unregister(t)
    PROVE  LifecycleStep
<1>0. PICK i \in Ids : i = th[t].id
  BY UnregisterEffect DEF IInv, PcOp
<1>1. /\ th[t].pc = "unregister" /\ Keeps(t) /\ SameConns
      /\ \/ /\ i \in registered /\ registered' = registered \ {i}
            /\ th'[t].pc = "closing" /\ th'[t].outcome = th[t].outcome
         \/ i \notin registered /\ registered' = registered /\ Finished(t, "missing")
  BY <1>0, UnregisterEffect
<1>2. CASE i \in registered /\ registered' = registered \ {i} /\ th'[t].pc = "closing"
           /\ th'[t].outcome = th[t].outcome
  <2>1. /\ i \in Known /\ th[t].op = "delete" /\ RegisteredIsOpen
        /\ rec[i].conn = "open"
    BY <1>0, <1>1, <1>2 DEF IInv, PcOp, RegisteredIsOpen
  <2>2. PhaseView[i] = "live"
    BY <1>2, <2>1, Phases
  <2>3. Phase(i)' = "removed"
    <3>1. rec'[i].conn = "open" /\ i \notin registered'
      BY <1>1, <1>2, <2>1 DEF SameConns
    <3> QED
      BY <3>1 DEF Phase
  <2>4. PhaseView' = [PhaseView EXCEPT ![i] = "removed"]
    BY <1>1, <1>2, <2>1, <2>3, PhaseMoves DEF SameConns
  <2>5. CallView[t].state = "asked" /\ CallView[t].id = i /\ CallView[t].op = "delete"
    BY <1>0, <1>1, <2>1, CallOf, CallStates
  <2>6. CallView' = [CallView EXCEPT ![t].state = "found"]
    BY <1>1, <1>2, <2>1, CallStatesNext, CallMoves DEF Keeps
  <2>7. Lifecycle!Find(t)
    BY <2>2, <2>4, <2>5, <2>6 DEF Lifecycle!Find, CallView, PhaseView, Answered
  <2> QED
    BY <2>7 DEF LifecycleStep, Lifecycle!Next
<1>3. CASE i \notin registered /\ registered' = registered /\ Finished(t, "missing")
  BY <1>0, <1>1, <1>3, Misses
<1> QED
  BY <1>1, <1>2, <1>3

\* The other handlers answer, or fail on a connection closed under them.
LEMMA Answers ==
    ASSUME IInv, NEW t \in Threads, th[t].pc \in {"touch", "using"}, Keeps(t),
           \/ Finished(t, "ok")
           \/ rec[th[t].id].conn # "open" /\ Finished(t, "error"),
           registered' = registered, SameConns
    PROVE  LifecycleStep
<1> DEFINE i == th[t].id
<1>1. i \in Ids /\ th[t].op \notin {"create", "delete"} /\ i \in Known /\ RegisteredIsOpen
  BY DEF IInv, PcOp
<1>2. rec[i].conn # "open" => PhaseView[i] = "closed"
  <2>1. rec[i].conn # "open" => rec[i].conn = "closed" /\ i \notin registered
    BY <1>1 DEF IInv, TypeOK, Record, Known, RegisteredIsOpen
  <2> QED
    BY <1>1, <2>1, Phases
<1>3. /\ CallView[t].state = "found" /\ CallView[t].id = i
      /\ CallView[t].op # "delete"
  BY <1>1, CallOf, CallStates
<1>4. \/ CallView' = [CallView EXCEPT ![t].state = "idle", ![t].answer = "ok"]
      \/ /\ PhaseView[i] = "closed"
         /\ CallView' = [CallView EXCEPT ![t].state = "idle", ![t].answer = "error"]
  BY <1>2, CallAnswered
<1>5. PhaseView' = PhaseView
  BY PhasesKept
<1>6. Lifecycle!Answer(t)
  BY <1>3, <1>4, <1>5
     DEF Lifecycle!Answer, Lifecycle!Reply, CallView, PhaseView, Answered
<1> QED
  BY <1>6 DEF LifecycleStep, Lifecycle!Next

\* A touch ends the messages request, and is not seen in a tables request.
LEMMA TouchStep ==
    ASSUME IInv, NEW t \in Threads, Touch(t)
    PROVE  LifecycleStep
<1>1. th[t].pc = "touch" /\ Keeps(t) /\ registered' = registered /\ SameConns
  BY TouchEffect
<1>2. CASE Moved(t, "acquire")
  BY <1>1, <1>2, CallStates, CallStatesNext, CallKept, PhasesKept, Stutters DEF Moved
<1>3. CASE Finished(t, "ok")
  BY <1>1, <1>3, Answers
<1> QED
  BY <1>2, <1>3, TouchEffect

\* Time is not seen by a client.
LEMMA IdleStep ==
    ASSUME Tick \/ Stopped \/ UNCHANGED vars
    PROVE  LifecycleStep
<1>1. registered' = registered /\ rec' = rec /\ th' = th
  BY DEF Tick, Stopped, vars
<1>2. PhaseView' = PhaseView
  BY <1>1, PhasesKept DEF SameConns
<1>3. \A t \in Threads : CallState(t)' = CallState(t) /\ Answered(t)' = Answered(t)
  BY <1>1 DEF CallState, Answered
<1>4. CallView' = CallView
  BY <1>1, <1>3 DEF CallView
<1> QED
  BY <1>2, <1>4, Stutters

\* Every step of the threads is one of the registry, or none.
LEMMA NextIsLifecycleStep == IInv /\ Ages /\ [Next]_vars => LifecycleStep
<1> SUFFICES ASSUME IInv, Ages, [Next]_vars PROVE LifecycleStep
  OBVIOUS
<1>1. ASSUME NEW t \in Threads, Step(t) PROVE LifecycleStep
  <2>1. ASSUME NEW i \in Ids, SweepRaises(t, i) PROVE LifecycleStep
    BY <2>1, SweepRaisesEffect, Fails
  <2>2. CASE Release(t)
    BY <2>2, ReleaseEffect, Answers
  <2> QED
    BY <1>1, <2>1, <2>2, InnerStep, ScanEndsStep, SweepPopStep, CloseStep, InsertStep,
       LookupStep, UnregisterStep, TouchStep DEF Step
<1> QED
  BY <1>1, RequestIsAsk, IdleStep DEF Next

\* However sweeps, lookups, deletes and uses interleave, the threads implement
\* one atomic registry: each session is opened, removed and closed once, and
\* each answer is true at one instant between the request and the answer.
THEOREM RegistryIsAtomic == Spec => LifecycleRefined
<1>1. Init => Lifecycle!Init
  <2> SUFFICES ASSUME Init PROVE Lifecycle!Init
    OBVIOUS
  <2>1. \A i \in Ids : Phase(i) = "absent"
    BY Phases DEF Init, RegisteredIsOpen, Known
  <2>2. \A t \in Threads : CallState(t) = "idle"
    BY CallStates DEF Init
  <2> QED
    BY <2>1, <2>2 DEF Init, Lifecycle!Init
<1>2. IInv /\ Ages /\ [Next]_vars => [Lifecycle!Next]_(Lifecycle!vars)
  BY NextIsLifecycleStep DEF LifecycleStep
<1> QED
  BY <1>1, <1>2, Invariance, AgesInvariance, PTL DEF Spec, LifecycleRefined, Lifecycle!Spec

-----------------------------------------------------------------------------
(* What a client can rely on, by the refinement.                           *)

\* The life of a session, step by step.
NextPhases(p) == IF p = "absent" THEN {"live"}
                 ELSE IF p = "live" THEN {"removed"}
                 ELSE IF p = "removed" THEN {"closed"}
                 ELSE {}

\* A session is opened, taken out of the dict and closed in this order, with no
\* step left out and none taken back.
SessionsAdvance ==
    [][\A i \in Ids : Phase(i)' = Phase(i) \/ Phase(i)' \in NextPhases(Phase(i))]_vars

\* A client told that its session is deleted (204) named one whose connection is
\* closed and which no lookup finds.
DeletedIsClosed ==
    \A t \in Threads : th[t].op = "delete" /\ th[t].outcome = "ok" =>
        rec[th[t].id].conn = "closed" /\ th[t].id \notin registered

\* The same, as the client sees it.
DeletesView ==
    \A t \in Threads :
        CallView[t].op = "delete" =>
            /\ CallView[t].id \in Ids
            /\ CallView[t].answer = "ok" => PhaseView[CallView[t].id] = "closed"

\* A step of the registry moves at most one session, to its next phase.
LEMMA LifecyclePhases ==
    ASSUME LifecycleStep
    PROVE  \/ PhaseView' = PhaseView
           \/ \E j, p : /\ p \in NextPhases(PhaseView[j])
                        /\ PhaseView' = [PhaseView EXCEPT ![j] = p]
<1>1. CASE UNCHANGED Lifecycle!vars
  BY <1>1 DEF Lifecycle!vars, PhaseView
<1>2. ASSUME NEW t \in Threads,
             \/ \E o \in {"create", "messages", "tables", "delete"}, i \in Ids :
                   Lifecycle!Ask(t, o, i)
             \/ Lifecycle!Miss(t) \/ Lifecycle!Fail(t)
      PROVE  PhaseView' = PhaseView
  BY <1>2 DEF Lifecycle!Ask, Lifecycle!Miss, Lifecycle!Fail, PhaseView
<1>3. ASSUME NEW t \in Threads, Lifecycle!Open(t)
      PROVE  /\ "live" \in NextPhases(PhaseView[CallView[t].id])
             /\ PhaseView' = [PhaseView EXCEPT ![CallView[t].id] = "live"]
  BY <1>3 DEF Lifecycle!Open, PhaseView, CallView, NextPhases
<1>4. ASSUME NEW t \in Threads, Lifecycle!Find(t)
      PROVE  \/ PhaseView' = PhaseView
             \/ /\ "removed" \in NextPhases(PhaseView[CallView[t].id])
                /\ PhaseView' = [PhaseView EXCEPT ![CallView[t].id] = "removed"]
  BY <1>4 DEF Lifecycle!Find, PhaseView, CallView, NextPhases
<1>5. ASSUME NEW t \in Threads, Lifecycle!Answer(t)
      PROVE  \/ PhaseView' = PhaseView
             \/ /\ "closed" \in NextPhases(PhaseView[CallView[t].id])
                /\ PhaseView' = [PhaseView EXCEPT ![CallView[t].id] = "closed"]
  BY <1>5 DEF Lifecycle!Answer, PhaseView, CallView, NextPhases
<1>6. ASSUME NEW i \in Ids, Lifecycle!Evict(i) \/ Lifecycle!Close(i)
      PROVE  \E p : /\ p \in NextPhases(PhaseView[i])
                    /\ PhaseView' = [PhaseView EXCEPT ![i] = p]
  BY <1>6 DEF Lifecycle!Evict, Lifecycle!Close, PhaseView, NextPhases
<1> QED
  BY <1>1, <1>2, <1>3, <1>4, <1>5, <1>6 DEF LifecycleStep, Lifecycle!Next

LEMMA CallRecords ==
    /\ CallView = [u \in Threads |-> CallView[u]]
    /\ \A u \in Threads :
          CallView[u] = [state |-> CallView[u].state, op |-> CallView[u].op,
                         id |-> CallView[u].id, answer |-> CallView[u].answer]
BY DEF CallView

\* A step of the registry leaves a request alone, begins one, takes it further,
\* or answers it; the answer to a delete closes its session.
LEMMA LifecycleCalls ==
    ASSUME LifecycleStep, NEW t \in Threads
    PROVE  \/ /\ CallView'[t].op \in {"create", "messages", "tables", "delete"}
              /\ CallView'[t].id \in Ids /\ CallView'[t].answer = "none"
           \/ /\ CallView'[t].op = CallView[t].op /\ CallView'[t].id = CallView[t].id
              /\ \/ CallView'[t].answer = CallView[t].answer
                 \/ CallView'[t].answer # "ok"
                 \/ CallView[t].op # "delete"
                 \/ PhaseView' = [PhaseView EXCEPT ![CallView[t].id] = "closed"]
<1> DEFINE Goes ==
       \/ /\ CallView'[t].op \in {"create", "messages", "tables", "delete"}
          /\ CallView'[t].id \in Ids /\ CallView'[t].answer = "none"
       \/ /\ CallView'[t].op = CallView[t].op /\ CallView'[t].id = CallView[t].id
          /\ \/ CallView'[t].answer = CallView[t].answer
             \/ CallView'[t].answer # "ok"
             \/ CallView[t].op # "delete"
             \/ PhaseView' = [PhaseView EXCEPT ![CallView[t].id] = "closed"]
<1>1. ASSUME \/ UNCHANGED Lifecycle!vars
             \/ \E i \in Ids : Lifecycle!Evict(i) \/ Lifecycle!Close(i)
      PROVE  Goes
  <2>1. CallView' = CallView
    BY <1>1 DEF Lifecycle!vars, Lifecycle!Evict, Lifecycle!Close, CallView, Answered
  <2> QED  BY <2>1
<1>2. ASSUME NEW u \in Threads, NEW o \in {"create", "messages", "tables", "delete"},
             NEW i \in Ids, Lifecycle!Ask(u, o, i)
      PROVE  Goes
  <2>1. CallView' = [CallView EXCEPT ![u] = [state |-> "asked", op |-> o, id |-> i,
                                             answer |-> "none"]]
    BY <1>2 DEF Lifecycle!Ask, CallView, Answered
  <2>2. CallView[u] \in [state: {CallView[u].state}, op: {CallView[u].op},
                         id: {CallView[u].id}, answer: {CallView[u].answer}]
        /\ DOMAIN CallView = Threads
    BY DEF CallView
  <2> QED  BY <2>1, <2>2
<1>3. ASSUME NEW u \in Threads, Lifecycle!Find(u)
      PROVE  Goes
  <2>1. CallView' = [CallView EXCEPT ![u].state = "found"]
    BY <1>3 DEF Lifecycle!Find, CallView, Answered
  <2>2. CASE u = t
    BY <2>1, <2>2 DEF CallView
  <2>3. CASE u # t
    BY <2>1, <2>3 DEF CallView
  <2> QED  BY <2>2, <2>3
<1>4. ASSUME NEW u \in Threads, NEW a,
             CallView' = [CallView EXCEPT ![u].state = "idle", ![u].answer = a],
             \/ a # "ok"
             \/ CallView[u].op # "delete"
             \/ PhaseView' = [PhaseView EXCEPT ![CallView[u].id] = "closed"]
      PROVE  Goes
  <2>1. CASE u = t
    <3>1. /\ CallView'[t].op = CallView[t].op /\ CallView'[t].id = CallView[t].id
          /\ CallView'[t].answer = a
      <4>1. CallView'[t] = [CallView[t] EXCEPT !.state = "idle", !.answer = a]
        BY <1>4, <2>1, CallRecords
      <4> QED  BY <4>1, CallRecords
    <3> QED  BY <1>4, <2>1, <3>1
  <2>2. CASE u # t
    <3>1. CallView'[t] = CallView[t]
      BY <1>4, <2>2, CallRecords
    <3> QED  BY <3>1
  <2> QED  BY <2>1, <2>2
<1>5. ASSUME NEW u \in Threads,
             Lifecycle!Open(u) \/ Lifecycle!Miss(u) \/ Lifecycle!Answer(u) \/ Lifecycle!Fail(u)
      PROVE  \E a : /\ CallView' = [CallView EXCEPT ![u].state = "idle", ![u].answer = a]
                    /\ \/ a # "ok"
                       \/ CallView[u].op # "delete"
                       \/ PhaseView' = [PhaseView EXCEPT ![CallView[u].id] = "closed"]
  <2>1. ASSUME Lifecycle!Open(u)
        PROVE  /\ CallView' = [CallView EXCEPT ![u].state = "idle", ![u].answer = "ok"]
               /\ CallView[u].op # "delete"
    BY <2>1 DEF Lifecycle!Open, Lifecycle!Reply, CallView, Answered
  <2>2. ASSUME Lifecycle!Miss(u)
        PROVE  CallView' = [CallView EXCEPT ![u].state = "idle", ![u].answer = "missing"]
    BY <2>2 DEF Lifecycle!Miss, Lifecycle!Reply, CallView, Answered
  <2>3. ASSUME Lifecycle!Fail(u)
        PROVE  CallView' = [CallView EXCEPT ![u].state = "idle", ![u].answer = "error"]
    BY <2>3 DEF Lifecycle!Fail, Lifecycle!Reply, CallView, Answered
  <2>4. ASSUME Lifecycle!Answer(u)
        PROVE  \E a \in {"ok", "error"} :
                  /\ CallView' = [CallView EXCEPT ![u].state = "idle", ![u].answer = a]
                  /\ \/ CallView[u].op # "delete"
                     \/ PhaseView' = [PhaseView EXCEPT ![CallView[u].id] = "closed"]
    BY <2>4 DEF Lifecycle!Answer, Lifecycle!Reply, CallView, PhaseView, Answered
  <2> QED  BY <1>5, <2>1, <2>2, <2>3, <2>4
<1>6. ASSUME NEW u \in Threads,
             Lifecycle!Open(u) \/ Lifecycle!Miss(u) \/ Lifecycle!Answer(u) \/ Lifecycle!Fail(u)
      PROVE  Goes
  BY <1>4, <1>5, <1>6
<1> HIDE DEF Goes
<1>7. Goes
  BY <1>1, <1>2, <1>3, <1>6 DEF LifecycleStep, Lifecycle!Next
<1> QED
  BY <1>7 DEF Goes

\* No interleaving makes a session skip or repeat a phase of its life.
THEOREM SessionsOnlyAdvance == Spec => SessionsAdvance
<1> DEFINE A == \A i \in Ids : Phase(i)' = Phase(i) \/ Phase(i)' \in NextPhases(Phase(i))
<1>1. LifecycleStep => A
  BY LifecyclePhases DEF PhaseView
<1>2. IInv /\ Ages /\ [Next]_vars => [A]_vars
  BY <1>1, NextIsLifecycleStep
<1> QED
  BY <1>2, Invariance, AgesInvariance, PTL DEF Spec, SessionsAdvance

\* Whatever else sweeps or deletes the session meanwhile, the answer to a delete
\* comes after the close, and for good.
THEOREM DeletesAreDone == Spec => []DeletedIsClosed
<1>1. Init => DeletesView
  BY DEF Init, DeletesView, CallView
<1>2. LifecycleStep /\ DeletesView => DeletesView'
  <2> SUFFICES ASSUME LifecycleStep, DeletesView, NEW t \in Threads,
                      CallView'[t].op = "delete"
               PROVE  /\ CallView'[t].id \in Ids
                      /\ CallView'[t].answer = "ok" => PhaseView'[CallView'[t].id] = "closed"
    BY DEF DeletesView
  <2>1. \A i \in Ids : PhaseView[i] = "closed" => PhaseView'[i] = "closed"
    <3>1. NextPhases("closed") = {}
      BY DEF NextPhases
    <3> QED  BY <3>1, LifecyclePhases DEF PhaseView
  <2>2. \A i \in Ids : [PhaseView EXCEPT ![i] = "closed"][i] = "closed"
    BY DEF PhaseView
  <2> QED  BY <2>1, <2>2, LifecycleCalls DEF DeletesView
<1>3. IInv /\ DeletesView => DeletedIsClosed
  <2> SUFFICES ASSUME IInv, DeletesView, NEW t \in Threads,
                      th[t].op = "delete", th[t].outcome = "ok"
               PROVE  rec[th[t].id].conn = "closed" /\ th[t].id \notin registered
    BY DEF DeletedIsClosed
  <2>1. th[t].id \in Ids /\ PhaseView[th[t].id] = "closed"
    BY DEF DeletesView, CallView, Answered
  <2> QED  BY <2>1, Phases DEF IInv, Phase, PhaseView
<1>4. IInv /\ Ages /\ [Next]_vars => LifecycleStep
  BY NextIsLifecycleStep
<1> QED
  BY <1>1, <1>2, <1>3, <1>4, Invariance, AgesInvariance, PTL DEF Spec

-----------------------------------------------------------------------------
(* What the liveness of the requests rests on, for any number of them: who *)
(* waits, waits for a thread that goes on; what is to be closed has a       *)
(* thread that closes it; and every step of a thread brings its request     *)
(* nearer to the answer.                                                    *)

\* A lock is held by a thread between its acquire and its release.
LockedIsUsed ==
    \A i \in Ids : rec[i].lock # None =>
        th[rec[i].lock].pc = "using" /\ th[rec[i].lock].id = i

\* An open connection without an entry in the dict is in the hands of a thread
\* that closes it next.
RemovedHasCloser ==
    \A i \in Ids : rec[i].conn = "open" /\ i \notin registered =>
        \E t \in Threads : th[t].pc = "closing" /\ th[t].victim = i

\* What the scan has tested and found expired belongs to this request only.
SweepBooks ==
    \A t \in Threads :
        /\ th[t].pc # "scan" => th[t].visited = {}
        /\ th[t].pc = "scan" => th[t].expired \subseteq th[t].visited
        /\ th[t].pc \notin {"scan", "pop", "closing"} => th[t].expired = {}
        /\ th[t].op = "delete" => th[t].expired = {}

Progress == LockedIsUsed /\ RemovedHasCloser /\ SweepBooks

\* The guards of Step(t).
CanGoOn(t) ==
    \/ th[t].pc \in {"enter", "closing", "insert", "lookup", "touch", "unregister", "using"}
    \/ /\ th[t].pc = "scan"
       /\ ~IteratorValid(t) \/ Unvisited(t) = {} \/ \E i \in Ids : IsFirst(i, Unvisited(t))
    \/ /\ th[t].pc = "pop"
       /\ th[t].expired = {} \/ \E i \in Ids : IsFirst(i, th[t].expired)
    \/ th[t].pc = "acquire" /\ LockFree(th[t].id)

\* A busy thread can go on, or waits for the lock of a session whose holder can.
NobodyStuck ==
    \A t \in Threads : th[t].pc # "idle" =>
        \/ CanGoOn(t)
        \/ /\ th[t].pc = "acquire"
           /\ \E u \in Threads \ {t} : /\ rec[th[t].id].lock = u
                                       /\ th[u].id = th[t].id /\ CanGoOn(u)

\* The most steps a request can still take.
Sessions == Cardinality(Ids)
Found(t) == Cardinality(th[t].expired)
Tested(t) == Cardinality(th[t].visited)
Work(t) ==
    CASE th[t].pc = "idle" -> 0
      [] th[t].pc = "using" -> 1
      [] th[t].pc = "acquire" -> 2
      [] th[t].pc = "touch" -> 3
      [] th[t].pc \in {"insert", "lookup"} -> 4
      [] th[t].pc = "pop" -> 5 + 2 * Found(t)
      [] th[t].pc = "closing" -> 6 + 2 * Found(t)
      [] th[t].pc = "unregister" -> 7
      [] th[t].pc = "scan" -> 6 + 2 * Found(t) + 3 * (Sessions - Tested(t))
      [] th[t].pc = "enter" -> 7 + 3 * Sessions

\* Each step a thread takes brings its request nearer to its end, and nothing
\* the others do takes it back.
StepsCount ==
    [][\A t \in Threads :
          /\ Step(t) => Work(t)' < Work(t)
          /\ ~Step(t) /\ th[t].pc # "idle" => th'[t] = th[t]]_vars

\* What a thread writes of its own books and of the locks.
LEMMA VisitedEffect ==
    ASSUME IInv, NEW t \in Threads, Step(t)
    PROVE  /\ \A u \in Threads \ {t} : th'[u] = th[u]
           /\ \/ /\ th[t].pc = "enter" /\ th'[t].pc = "scan"
                 /\ th'[t].visited = th[t].visited
              \/ \E i \in Ids :
                    /\ th[t].pc = "scan" /\ th'[t].pc = "scan" /\ i \in Unvisited(t)
                    /\ th'[t].visited = th[t].visited \cup {i}
                    /\ \/ th'[t].expired = th[t].expired
                       \/ th'[t].expired = th[t].expired \cup {i}
              \/ /\ th'[t].pc # "scan"
                 /\ \/ th'[t].visited = {}
                    \/ th[t].pc # "scan" /\ th'[t].visited = th[t].visited
<1>1. TypeOK /\ th \in [Threads -> Local] /\ th[t] \in Local
  BY DEF IInv, TypeOK
<1>2. ASSUME NEW answer, Finish(t, answer)
      PROVE  /\ \A u \in Threads \ {t} : th'[u] = th[u]
             /\ th'[t].pc # "scan" /\ th'[t].visited = {}
  BY <1>1, <1>2 DEF Finish, Local
<1>3. ASSUME NEW to, Goto(t, to), to # "scan", th[t].pc # "scan"
      PROVE  /\ \A u \in Threads \ {t} : th'[u] = th[u]
             /\ th'[t].pc # "scan" /\ th'[t].visited = th[t].visited
  BY <1>1, <1>3 DEF Goto, Local
<1>4. CASE Enter(t)
  BY <1>1, <1>4 DEF Enter, Local
<1>5. CASE \E i \in Ids : ScanRecord(t, i)
  <2> PICK i \in Ids : ScanRecord(t, i)
    BY <1>5
  <2>1. th' = [th EXCEPT ![t] = [th[t] EXCEPT
                 !.size = StartSize(t), !.visited = @ \cup {i},
                 !.expired = @ \cup {j \in {i} : IsExpired(j, t)}]]
    BY <1>1 DEF ScanRecord
  <2>2. th[t].pc = "scan" /\ i \in Unvisited(t)
    BY DEF ScanRecord, IsFirst
  <2>3. /\ \A u \in Threads \ {t} : th'[u] = th[u]
        /\ th'[t].pc = "scan" /\ th'[t].visited = th[t].visited \cup {i}
        /\ th'[t].expired = th[t].expired \cup {j \in {i} : IsExpired(j, t)}
    BY <1>1, <2>1, <2>2 DEF Local
  <2>4. {j \in {i} : IsExpired(j, t)} = {} \/ {j \in {i} : IsExpired(j, t)} = {i}
    OBVIOUS
  <2>5. \/ th'[t].expired = th[t].expired
        \/ th'[t].expired = th[t].expired \cup {i}
    BY <2>3, <2>4
  <2> QED  BY <2>2, <2>3, <2>5
<1>6. CASE ScanEnds(t)
  <2>1. CASE th' = [th EXCEPT ![t].pc = "pop", ![t].size = 0, ![t].visited = {}]
    BY <1>1, <2>1 DEF Local
  <2> QED  BY <1>2, <1>6, <2>1 DEF ScanEnds
<1>7. CASE \E i \in Ids : SweepPop(t, i)
  BY <1>1, <1>7 DEF SweepPop, Local
<1>8. CASE \E i \in Ids : SweepRaises(t, i)
  BY <1>2, <1>8 DEF SweepRaises
<1>9. CASE Close(t)
  <2>1. CASE th' = [th EXCEPT ![t].pc = "pop", ![t].victim = None]
    BY <1>1, <1>9, <2>1 DEF Close, Local
  <2> QED  BY <1>2, <1>9, <2>1 DEF Close
<1>10. CASE SweepDone(t)
  <2>1. th[t].pc # "scan"
    BY <1>10 DEF SweepDone
  <2>2. CASE Goto(t, "insert")
    BY <1>3, <2>1, <2>2
  <2>3. CASE Goto(t, "lookup")
    BY <1>3, <2>1, <2>3
  <2> QED  BY <1>10, <2>2, <2>3 DEF SweepDone
<1>11. CASE Insert(t) \/ Release(t)
  BY <1>2, <1>11 DEF Insert, Release
<1>12. CASE Lookup(t) \/ Touch(t) \/ Acquire(t)
  BY <1>2, <1>3, <1>12 DEF Lookup, Touch, Acquire
<1>13. CASE Unregister(t)
  <2>1. CASE th' = [th EXCEPT ![t].pc = "closing", ![t].victim = th[t].id]
    BY <1>1, <1>13, <2>1 DEF Unregister, Local
  <2> QED  BY <1>2, <1>13, <2>1 DEF Unregister
<1> QED
  BY <1>4, <1>5, <1>6, <1>7, <1>8, <1>9, <1>10, <1>11, <1>12, <1>13 DEF Step

\* What a thread does to the locks.
LEMMA LocksEffect ==
    ASSUME IInv, NEW t \in Threads, Step(t)
    PROVE  \/ \A i \in Ids : rec'[i].lock = rec[i].lock
           \/ /\ th[t].pc = "insert" /\ th[t].id \in Ids \ Known
              /\ \A i \in Ids : rec'[i].lock = IF i = th[t].id THEN None ELSE rec[i].lock
           \/ /\ th[t].pc = "acquire" /\ th'[t].pc = "using" /\ th'[t].id = th[t].id
              /\ \A i \in Ids : rec'[i].lock = IF i = th[t].id THEN t ELSE rec[i].lock
           \/ /\ th[t].pc = "using" /\ th'[t].id = th[t].id
              /\ \A i \in Ids : rec'[i].lock = IF i = th[t].id THEN None ELSE rec[i].lock
<1>1. TypeOK /\ rec \in [Ids -> Record]
  BY DEF IInv, TypeOK
<1>2. CASE rec' = rec
  BY <1>2
<1>3. CASE Close(t) \/ Touch(t)
  BY <1>1, <1>3 DEF Close, Touch, Refresh, Record
<1>4. CASE Insert(t)
  <2>1. th[t].pc = "insert" /\ th[t].id \in Ids \ Known
    BY <1>4, InsertEffect
  <2> QED  BY <1>1, <1>4, <2>1 DEF Insert
<1>5. CASE Acquire(t)
  <2>1. th[t].pc = "acquire" /\ th'[t].pc = "using" /\ th'[t].id = th[t].id
    BY <1>5, AcquireEffect DEF Keeps, Moved
  <2> QED  BY <1>1, <1>5, <2>1 DEF Acquire, Record
<1>6. CASE Release(t)
  <2>1. th[t].pc = "using" /\ th'[t].id = th[t].id
    BY <1>6, ReleaseEffect DEF Keeps
  <2> QED  BY <1>1, <1>6, <2>1 DEF Release, Unlocked, Record
<1> QED
  BY <1>2, <1>3, <1>4, <1>5, <1>6
  DEF Step, Enter, ScanRecord, ScanEnds, SweepPop, SweepRaises, SweepDone, Lookup, Unregister

\* No step leaves a lock held.
LEMMA StepLocks ==
    ASSUME IInv, LockedIsUsed, NEW t \in Threads, Step(t)
    PROVE  LockedIsUsed'
<1> SUFFICES ASSUME NEW i \in Ids, rec'[i].lock # None
             PROVE  th'[rec'[i].lock].pc = "using" /\ th'[rec'[i].lock].id = i
  BY DEF LockedIsUsed
<1>1. \A u \in Threads \ {t} : th'[u] = th[u]
  BY VisitedEffect
<1>2. rec[i].lock \in Threads \cup {None}
  BY DEF IInv, TypeOK, Record
<1>3. CASE rec'[i].lock = rec[i].lock /\ rec[i].lock # t
  BY <1>1, <1>2, <1>3 DEF LockedIsUsed
<1>4. CASE rec[i].lock = t
  <2>1. th[t].pc = "using" /\ th[t].id = i
    BY <1>2, <1>4 DEF LockedIsUsed
  <2>2. Release(t)
    BY <2>1 DEF Step, Enter, ScanRecord, ScanEnds, SweepPop, SweepRaises, Close, SweepDone,
                Insert, Lookup, Touch, Unregister, Acquire
  <2>3. rec'[i].lock = None
    BY <2>1, <2>2 DEF Release, Unlocked, IInv, TypeOK, Record
  <2> QED  BY <2>3
<1>5. CASE rec'[i].lock # rec[i].lock /\ rec[i].lock # t
  <2>1. /\ th[t].pc = "acquire" /\ th'[t].pc = "using" /\ th'[t].id = th[t].id
        /\ i = th[t].id /\ rec'[i].lock = t
    BY <1>5, LocksEffect
  <2> QED  BY <2>1
<1> QED
  BY <1>3, <1>4, <1>5

\* No step loses a connection: popping hands it to the thread that pops.
LEMMA StepRemoved ==
    ASSUME IInv, RemovedHasCloser, NEW t \in Threads, Step(t)
    PROVE  RemovedHasCloser'
<1> SUFFICES ASSUME NEW i \in Ids, rec'[i].conn = "open", i \notin registered'
             PROVE  \E u \in Threads : th'[u].pc = "closing" /\ th'[u].victim = i
  BY DEF RemovedHasCloser
<1>1. \A u \in Threads \ {t} : th'[u] = th[u]
  BY VisitedEffect
<1>2. CASE Close(t)
  <2>1. /\ th[t].pc = "closing" /\ i # th[t].victim /\ rec[i].conn = "open"
        /\ registered' = registered
    BY <1>2, CloseEffect
  <2>2. PICK u \in Threads : th[u].pc = "closing" /\ th[u].victim = i
    BY <2>1 DEF RemovedHasCloser
  <2> QED  BY <1>1, <2>1, <2>2
<1>3. CASE Insert(t)
  <2>1. /\ th[t].pc = "insert" /\ i # th[t].id /\ rec[i].conn = "open"
        /\ i \notin registered
    BY <1>3, InsertEffect
  <2>2. PICK u \in Threads : th[u].pc = "closing" /\ th[u].victim = i
    BY <2>1 DEF RemovedHasCloser
  <2> QED  BY <1>1, <2>1, <2>2
<1>4. CASE \E j \in Ids : SweepPop(t, j)
  <2> PICK j \in Ids : SweepPop(t, j)
    BY <1>4
  <2>1. /\ th[t].pc = "pop" /\ th'[t].pc = "closing" /\ th'[t].victim = j
        /\ registered' = registered \ {j} /\ rec[i].conn = "open"
    BY SweepPopEffect DEF SameConns
  <2>2. CASE i = j
    BY <2>1, <2>2
  <2>3. CASE i # j
    <3>1. PICK u \in Threads : th[u].pc = "closing" /\ th[u].victim = i
      BY <2>1, <2>3 DEF RemovedHasCloser
    <3> QED  BY <1>1, <2>1, <3>1
  <2> QED  BY <2>2, <2>3
<1>5. CASE Unregister(t)
  <2>1. rec[i].conn = "open" /\ th[t].pc = "unregister"
    BY <1>5, UnregisterEffect DEF SameConns
  <2>2. CASE registered' = registered
    <3>1. PICK u \in Threads : th[u].pc = "closing" /\ th[u].victim = i
      BY <2>1, <2>2 DEF RemovedHasCloser
    <3> QED  BY <1>1, <2>1, <3>1
  <2>3. CASE registered' # registered
    <3>1. /\ registered' = registered \ {th[t].id}
          /\ th'[t].pc = "closing" /\ th'[t].victim = th[t].id
      BY <1>5, <2>3, UnregisterEffect
    <3>2. CASE i = th[t].id
      BY <3>1, <3>2
    <3>3. CASE i # th[t].id
      <4>1. PICK u \in Threads : th[u].pc = "closing" /\ th[u].victim = i
        BY <2>1, <3>1, <3>3 DEF RemovedHasCloser
      <4> QED  BY <1>1, <2>1, <4>1
    <3> QED  BY <3>2, <3>3
  <2> QED  BY <2>2, <2>3
<1>6. CASE /\ th[t].pc # "closing" /\ registered' = registered
           /\ \A j \in Ids : rec'[j].conn = rec[j].conn
  <2>1. PICK u \in Threads : th[u].pc = "closing" /\ th[u].victim = i
    BY <1>6 DEF RemovedHasCloser
  <2> QED  BY <1>1, <1>6, <2>1
<1>7. CASE \/ Enter(t) \/ ScanEnds(t) \/ SweepDone(t) \/ Lookup(t) \/ Touch(t)
           \/ Acquire(t) \/ Release(t)
           \/ \E j \in Ids : ScanRecord(t, j) \/ SweepRaises(t, j)
  <2>1. /\ th[t].pc # "closing" /\ registered' = registered
        /\ \A j \in Ids : rec'[j].conn = rec[j].conn
    BY <1>7, EnterEffect, ScanEndsEffect, SweepDoneEffect, LookupEffect, TouchEffect,
       AcquireEffect, ReleaseEffect, ScanRecordEffect, SweepRaisesEffect DEF SameConns
  <2> QED  BY <1>6, <2>1
<1> QED
  BY <1>2, <1>3, <1>4, <1>5, <1>7 DEF Step

\* No step carries what a sweep has found into another request.
LEMMA StepBooks ==
    ASSUME IInv, SweepBooks, NEW t \in Threads, Step(t)
    PROVE  SweepBooks'
<1> SUFFICES /\ th'[t].pc # "scan" => th'[t].visited = {}
             /\ th'[t].pc = "scan" => th'[t].expired \subseteq th'[t].visited
             /\ th'[t].pc \notin {"scan", "pop", "closing"} => th'[t].expired = {}
             /\ th'[t].op = "delete" => th'[t].expired = {}
  <2>1. \A u \in Threads \ {t} : th'[u] = th[u]
    BY VisitedEffect
  <2> QED  BY <2>1 DEF SweepBooks
<1>1. th[t].pc # "scan" => th[t].visited = {}
  BY DEF SweepBooks
<1>2. th'[t].pc # "scan" => th'[t].visited = {}
  BY <1>1, VisitedEffect
<1>3. th'[t].pc = "scan" => th'[t].expired \subseteq th'[t].visited
  <2>1. SUFFICES ASSUME th'[t].pc = "scan" PROVE th'[t].expired \subseteq th'[t].visited
    OBVIOUS
  <2>2. CASE Enter(t)
    BY <2>2, EnterEffect DEF SweepBooks
  <2>3. CASE ~Enter(t)
    <3>1. PICK i \in Ids : /\ th[t].pc = "scan"
                           /\ th'[t].visited = th[t].visited \cup {i}
                           /\ \/ th'[t].expired = th[t].expired
                              \/ th'[t].expired = th[t].expired \cup {i}
      <4>1. th[t].pc # "enter"
        BY <2>3 DEF Step, Enter, ScanRecord, ScanEnds, SweepPop, SweepRaises, Close, SweepDone,
                Insert, Lookup, Touch, Unregister, Acquire, Release
      <4> QED  BY <2>1, <4>1, VisitedEffect
    <3> QED  BY <3>1 DEF SweepBooks
  <2> QED  BY <2>2, <2>3
<1>4. th'[t].op = th[t].op
  BY EnterEffect, ScanEndsEffect, SweepDoneEffect, LookupEffect, TouchEffect, CloseEffect,
     AcquireEffect, ReleaseEffect, ScanRecordEffect, SweepRaisesEffect, SweepPopEffect,
     InsertEffect, UnregisterEffect DEF Step, Keeps
<1>5. /\ th'[t].pc \notin {"scan", "pop", "closing"} => th'[t].expired = {}
      /\ th'[t].op = "delete" => th'[t].expired = {}
  <2>1. CASE Enter(t) \/ ScanEnds(t) \/ SweepDone(t)
    <3>1. th[t].op # "delete"
      BY <2>1 DEF Enter, ScanEnds, SweepDone, IInv, PcOp
    <3>2. CASE Enter(t) \/ ScanEnds(t)
      BY <1>4, <3>1, <3>2, EnterEffect, ScanEndsEffect DEF Moved, Finished
    <3>3. CASE SweepDone(t)
      <4>1. th[t].expired = {}
        BY <3>3 DEF SweepDone
      <4> QED  BY <3>3, <4>1, SweepDoneEffect DEF Moved
    <3> QED  BY <2>1, <3>2, <3>3
  <2>2. CASE \E i \in Ids : ScanRecord(t, i) \/ SweepRaises(t, i) \/ SweepPop(t, i)
    <3>1. th[t].op # "delete"
      BY <2>2 DEF ScanRecord, SweepPop, SweepRaises, IInv, PcOp
    <3> QED
      BY <1>4, <2>2, <3>1, ScanRecordEffect, SweepRaisesEffect, SweepPopEffect DEF Finished
  <2>3. CASE Lookup(t) \/ Touch(t) \/ Acquire(t) \/ Release(t) \/ Insert(t)
    <3>1. th[t].expired = {}
      BY <2>3 DEF Lookup, Touch, Acquire, Release, Insert, SweepBooks
    <3> QED
      BY <2>3, <3>1, LookupEffect, TouchEffect, AcquireEffect, ReleaseEffect, InsertEffect
      DEF Moved, Finished
  <2>4. CASE Close(t)
    BY <1>4, <2>4, CloseEffect DEF Finished, SweepBooks
  <2>5. CASE Unregister(t)
    <3>1. th[t].expired = {}
      BY <2>5 DEF Unregister, SweepBooks
    <3> QED  BY <2>5, <3>1, UnregisterEffect DEF Finished
  <2> QED  BY <2>1, <2>2, <2>3, <2>4, <2>5 DEF Step
<1> QED
  BY <1>2, <1>3, <1>5

\* Every step of the system keeps all three.
LEMMA NextProgress == IInv /\ Progress /\ [Next]_vars => Progress'
<1> SUFFICES ASSUME IInv, Progress, [Next]_vars PROVE Progress'
  OBVIOUS
<1>1. CASE Tick \/ Stopped \/ UNCHANGED vars
  BY <1>1 DEF Tick, Stopped, vars, Progress, LockedIsUsed, RemovedHasCloser, SweepBooks
<1>2. CASE \E t \in Threads, o \in Ops, i \in Ids : Request(t, o, i)
  <2> PICK t \in Threads, o \in Ops, i \in Ids : Request(t, o, i)
    BY <1>2
  <2>1. /\ th[t].pc = "idle" /\ \A u \in Threads \ {t} : th'[u] = th[u]
        /\ th'[t].pc \in {"enter", "unregister"} /\ th'[t].expired = th[t].expired
        /\ registered' = registered
    BY RequestEffect
  <2>2. rec' = rec /\ th'[t].visited = th[t].visited
    BY DEF Request, IInv, TypeOK, Local
  <2>3. LockedIsUsed'
    <3>1. \A j \in Ids : rec[j].lock \in Threads \cup {None}
      BY DEF IInv, TypeOK, Record
    <3> QED  BY <2>1, <2>2, <3>1 DEF Progress, LockedIsUsed
  <2>4. RemovedHasCloser'
    BY <2>1, <2>2 DEF Progress, RemovedHasCloser
  <2>5. SweepBooks'
    BY <2>1, <2>2 DEF Progress, SweepBooks
  <2> QED  BY <2>3, <2>4, <2>5 DEF Progress
<1>3. CASE \E t \in Threads : Step(t)
  BY <1>3, StepLocks, StepRemoved, StepBooks DEF Progress
<1> QED  BY <1>1, <1>2, <1>3 DEF Next

LEMMA ProgressInvariance == Spec => [](IInv /\ Progress)
<1>1. Init => IInv /\ Progress
  BY InitIInv DEF Init, Progress, LockedIsUsed, RemovedHasCloser, SweepBooks
<1>2. IInv /\ Progress /\ [Next]_vars => (IInv /\ Progress)'
  BY NextIInv, NextProgress
<1> QED  BY <1>1, <1>2, PTL DEF Spec

\* No lock is left held: whoever waits for one waits for a thread that is about to
\* release it.
THEOREM LocksAreReleased == Spec => []LockedIsUsed
<1>1. IInv /\ Progress => LockedIsUsed
  BY DEF Progress
<1> QED  BY <1>1, ProgressInvariance, PTL

\* No connection leaks: what has left the dict open is the victim of a thread
\* whose next step closes it, also when the sweep that popped it fails later.
THEOREM RemovedIsBeingClosed == Spec => []RemovedHasCloser
<1>1. IInv /\ Progress => RemovedHasCloser
  BY DEF Progress
<1> QED  BY <1>1, ProgressInvariance, PTL

\* A non-empty set of numbers has a least element.
LEMMA LeastNumber ==
    ASSUME NEW T \in SUBSET Nat, T # {}
    PROVE  \E n \in T : \A m \in T : n <= m
<1>1. PICK n \in T : \A m \in T : ~(<<m, n>> \in OpToRel(<, Nat))
  BY NatLessThanWellFounded, WFMin
<1>2. \A m \in T : ~(m < n)
  BY <1>1 DEF OpToRel
<1> QED  BY <1>2

\* A non-empty set of sessions has one that the dict yields first.
LEMMA SomeFirst ==
    ASSUME TypeOK, NEW S \in SUBSET Ids, S # {}
    PROVE  \E i \in Ids : IsFirst(i, S)
<1> DEFINE T == {rec[j].rank : j \in S}
<1>1. \A j \in S : rec[j].rank \in Nat
  BY DEF TypeOK, Record
<1>2. T \in SUBSET Nat /\ T # {}
  BY <1>1
<1>3. PICK n \in T : \A m \in T : n <= m
  <2> HIDE DEF T
  <2> QED  BY <1>2, LeastNumber
<1>4. PICK i \in S : n = rec[i].rank
  OBVIOUS
<1>5. \A j \in S : rec[i].rank <= rec[j].rank
  BY <1>3, <1>4
<1> QED  BY <1>5 DEF IsFirst

\* No handler waits for ever behind another: a busy thread can go on, or the one
\* it waits for can.
THEOREM NoRequestIsStuck == Spec => []NobodyStuck
<1>1. IInv /\ Progress => NobodyStuck
  <2> SUFFICES ASSUME IInv, Progress, NEW t \in Threads, th[t].pc # "idle"
               PROVE  \/ CanGoOn(t)
                      \/ /\ th[t].pc = "acquire"
                         /\ \E u \in Threads \ {t} : /\ rec[th[t].id].lock = u
                                                     /\ th[u].id = th[t].id /\ CanGoOn(u)
    BY DEF NobodyStuck
  <2>1. /\ th[t].pc \in PCs /\ th[t].expired \in SUBSET Ids /\ Unvisited(t) \in SUBSET Ids
        /\ th[t].id \in Ids
    BY DEF IInv, TypeOK, Local, Unvisited, PcOp
  <2>2. CASE th[t].pc = "scan"
    BY <2>1, <2>2, SomeFirst DEF CanGoOn, IInv
  <2>3. CASE th[t].pc = "pop"
    BY <2>1, <2>3, SomeFirst DEF CanGoOn, IInv
  <2>4. CASE th[t].pc = "acquire"
    <3>1. CASE rec[th[t].id].lock = None
      BY <2>4, <3>1 DEF CanGoOn, LockFree
    <3>2. CASE rec[th[t].id].lock # None
      <4>1. rec[th[t].id].lock \in Threads
        BY <2>1, <3>2 DEF IInv, TypeOK, Record
      <4>2. PICK u \in Threads : u = rec[th[t].id].lock
        BY <4>1
      <4>3. th[u].pc = "using" /\ th[u].id = th[t].id
        BY <2>1, <3>2, <4>2 DEF Progress, LockedIsUsed
      <4>4. u # t /\ CanGoOn(u)
        BY <2>4, <4>3 DEF CanGoOn
      <4> QED  BY <2>4, <4>2, <4>3, <4>4
    <3> QED  BY <3>1, <3>2
  <2>5. CASE th[t].pc \notin {"idle", "scan", "pop", "acquire"}
    BY <2>1, <2>5 DEF CanGoOn, PCs
  <2> QED  BY <2>2, <2>3, <2>4, <2>5
<1> QED  BY <1>1, ProgressInvariance, PTL

\* What is left to do at each point.
LEMMA WorkOf ==
    ASSUME NEW t \in Threads
    PROVE  /\ th[t].pc = "idle" => Work(t) = 0
           /\ th[t].pc = "using" => Work(t) = 1
           /\ th[t].pc = "acquire" => Work(t) = 2
           /\ th[t].pc = "touch" => Work(t) = 3
           /\ th[t].pc = "insert" => Work(t) = 4
           /\ th[t].pc = "lookup" => Work(t) = 4
           /\ th[t].pc = "pop" => Work(t) = 5 + 2 * Found(t)
           /\ th[t].pc = "closing" => Work(t) = 6 + 2 * Found(t)
           /\ th[t].pc = "unregister" => Work(t) = 7
           /\ th[t].pc = "scan" =>
                 Work(t) = 6 + 2 * Found(t) + 3 * (Sessions - Tested(t))
           /\ th[t].pc = "enter" => Work(t) = 7 + 3 * Sessions
BY Zenon DEF Work

\* The sets a scan keeps are finite.
LEMMA BooksFinite ==
    ASSUME TypeOK, NEW t \in Threads
    PROVE  /\ IsFiniteSet(th[t].expired) /\ IsFiniteSet(th[t].visited)
           /\ Found(t) \in Nat /\ Tested(t) \in Nat /\ Sessions \in Nat
           /\ Found(t) <= Sessions /\ Tested(t) <= Sessions
<1>1. th[t].expired \subseteq Ids /\ th[t].visited \subseteq Ids
  BY DEF TypeOK, Local
<1> QED
  BY <1>1, IdsAssumption, FS_Subset, FS_CardinalityType DEF Found, Tested, Sessions

LEMMA WorkNext ==
    ASSUME NEW t \in Threads
    PROVE  /\ th'[t].pc = "idle" => Work(t)' = 0
           /\ th'[t].pc = "using" => Work(t)' = 1
           /\ th'[t].pc = "acquire" => Work(t)' = 2
           /\ th'[t].pc = "touch" => Work(t)' = 3
           /\ th'[t].pc = "insert" => Work(t)' = 4
           /\ th'[t].pc = "lookup" => Work(t)' = 4
           /\ th'[t].pc = "pop" => Work(t)' = 5 + 2 * Cardinality(th'[t].expired)
           /\ th'[t].pc = "closing" => Work(t)' = 6 + 2 * Cardinality(th'[t].expired)
           /\ th'[t].pc = "scan" =>
                 Work(t)' = 6 + 2 * Cardinality(th'[t].expired)
                              + 3 * (Sessions - Cardinality(th'[t].visited))
BY Zenon DEF Work, Found, Tested, Sessions

\* A request never has more to do than one sweep of all the sessions there can be.
WorkBounded == \A t \in Threads : Work(t) \in 0 .. 7 + 3 * Sessions

LEMMA BooksBoundWork == IInv /\ Progress => WorkBounded
<1> SUFFICES ASSUME IInv, Progress, NEW t \in Threads
             PROVE  Work(t) \in 0 .. 7 + 3 * Sessions
  BY DEF WorkBounded
<1>1. TypeOK /\ th[t].pc \in PCs
  BY DEF IInv, TypeOK, Local
<1>2. /\ Found(t) \in Nat /\ Tested(t) \in Nat /\ Sessions \in Nat
      /\ Found(t) <= Sessions /\ Tested(t) <= Sessions
  BY <1>1, BooksFinite
<1>3. th[t].pc = "scan" => Found(t) <= Tested(t)
  BY <1>1, BooksFinite, FS_Subset DEF Progress, SweepBooks, Found, Tested
<1> QED  BY <1>1, <1>2, <1>3, WorkOf DEF PCs

\* Each step of a request leaves it less to do.
LEMMA StepCounts ==
    ASSUME IInv, Progress, NEW t \in Threads, Step(t)
    PROVE  Work(t)' < Work(t)
<1> DEFINE E == th[t].expired
<1>1. TypeOK
  BY DEF IInv
<1>2. /\ IsFiniteSet(E) /\ IsFiniteSet(th[t].visited)
      /\ Found(t) \in Nat /\ Tested(t) \in Nat /\ Sessions \in Nat
      /\ Found(t) <= Sessions /\ Tested(t) <= Sessions
      /\ Found(t) = Cardinality(E) /\ Tested(t) = Cardinality(th[t].visited)
  BY <1>1, BooksFinite DEF Found, Tested
<1>3. Cardinality({}) = 0
  BY FS_EmptySet
<1>4. CASE Enter(t)
  <2>1. /\ th[t].pc = "enter" /\ th'[t].pc = "scan"
        /\ th'[t].expired = {} /\ th'[t].visited = {}
    BY <1>4, EnterEffect, VisitedEffect DEF Progress, SweepBooks
  <2>2. Work(t) = 7 + 3 * Sessions /\ Work(t)' = 6 + 2 * 0 + 3 * (Sessions - 0)
    BY <1>3, <2>1, WorkOf, WorkNext
  <2> QED  BY <1>2, <2>2
<1>5. CASE \E i \in Ids : ScanRecord(t, i)
  <2>1. th[t].pc = "scan" /\ th'[t].pc = "scan"
    BY <1>5, ScanRecordEffect
  <2>2. PICK i \in Ids : /\ i \notin th[t].visited
                         /\ th'[t].visited = th[t].visited \cup {i}
                         /\ \/ th'[t].expired = E
                            \/ th'[t].expired = E \cup {i}
    BY <2>1, VisitedEffect DEF Unvisited
  <2>3. Cardinality(th'[t].visited) = Tested(t) + 1
    BY <1>2, <2>2, FS_AddElement
  <2>4. Cardinality(th'[t].expired) \in {Found(t), Found(t) + 1}
    <3>1. CASE th'[t].expired = E
      BY <1>2, <3>1
    <3>2. CASE th'[t].expired = E \cup {i} /\ i \notin E
      BY <1>2, <3>2, FS_AddElement
    <3>3. CASE th'[t].expired = E \cup {i} /\ i \in E
      <4>1. th'[t].expired = E
        BY <3>3
      <4> QED  BY <1>2, <4>1
    <3> QED  BY <2>2, <3>1, <3>2, <3>3
  <2>5. /\ Work(t) = 6 + 2 * Found(t) + 3 * (Sessions - Tested(t))
        /\ Work(t)' = 6 + 2 * Cardinality(th'[t].expired) + 3 * (Sessions - (Tested(t) + 1))
    BY <2>1, <2>3, WorkOf, WorkNext
  <2> QED  BY <1>2, <2>4, <2>5
<1>6. CASE ScanEnds(t)
  <2>1. th[t].pc = "scan" /\ (Moved(t, "pop") \/ Finished(t, "error"))
    BY <1>6, ScanEndsEffect
  <2>2. Work(t) = 6 + 2 * Found(t) + 3 * (Sessions - Tested(t))
    BY <2>1, WorkOf
  <2>3. Work(t)' = 5 + 2 * Found(t) \/ Work(t)' = 0
    BY <1>2, <2>1, WorkNext DEF Moved, Finished
  <2> QED  BY <1>2, <2>2, <2>3
<1>7. CASE \E i \in Ids : SweepPop(t, i)
  <2> PICK i \in Ids : SweepPop(t, i)
    BY <1>7
  <2>1. th[t].pc = "pop" /\ th'[t].pc = "closing" /\ i \in E
    BY SweepPopEffect
  <2>2. th'[t].expired = E \ {i}
    BY <1>1 DEF SweepPop, TypeOK, Local
  <2>3. Cardinality(th'[t].expired) = Found(t) - 1
    BY <1>2, <2>1, <2>2, FS_RemoveElement
  <2>4. Work(t) = 5 + 2 * Found(t) /\ Work(t)' = 6 + 2 * (Found(t) - 1)
    BY <2>1, <2>3, WorkOf, WorkNext
  <2> QED  BY <1>2, <2>4
<1>8. CASE \E i \in Ids : SweepRaises(t, i)
  <2>1. th[t].pc = "pop" /\ th'[t].pc = "idle"
    BY <1>8, SweepRaisesEffect DEF Finished
  <2> QED  BY <1>2, <2>1, WorkOf, WorkNext
<1>9. CASE Close(t)
  <2>1. /\ th[t].pc = "closing"
        /\ th'[t].pc = "idle" \/ (th'[t].pc = "pop" /\ th'[t].expired = E)
    BY <1>9, CloseEffect DEF Finished
  <2> QED  BY <1>2, <2>1, WorkOf, WorkNext
<1>10. CASE SweepDone(t)
  <2>1. th[t].pc = "pop" /\ th'[t].pc \in {"insert", "lookup"}
    BY <1>10, SweepDoneEffect DEF Moved
  <2> QED  BY <1>2, <2>1, WorkOf, WorkNext
<1>11. CASE Insert(t) \/ Lookup(t)
  <2>1. th[t].pc \in {"insert", "lookup"} /\ th'[t].pc \in {"idle", "touch"}
    BY <1>11, InsertEffect, LookupEffect DEF Moved, Finished
  <2> QED  BY <2>1, WorkOf, WorkNext
<1>12. CASE Touch(t)
  <2>1. th[t].pc = "touch" /\ th'[t].pc \in {"idle", "acquire"}
    BY <1>12, TouchEffect DEF Moved, Finished
  <2> QED  BY <2>1, WorkOf, WorkNext
<1>13. CASE Unregister(t)
  <2>1. /\ th[t].pc = "unregister"
        /\ th'[t].pc = "idle" \/ (th'[t].pc = "closing" /\ th'[t].expired = E)
    BY <1>13, UnregisterEffect DEF Finished
  <2>2. E = {}
    BY <2>1 DEF Progress, SweepBooks
  <2>3. Work(t) = 7 /\ (Work(t)' = 0 \/ Work(t)' = 6 + 2 * 0)
    BY <1>3, <2>1, <2>2, WorkOf, WorkNext
  <2> QED  BY <2>3
<1>14. CASE Acquire(t) \/ Release(t)
  <2>1. \/ th[t].pc = "acquire" /\ th'[t].pc = "using"
        \/ th[t].pc = "using" /\ th'[t].pc = "idle"
    BY <1>14, AcquireEffect, ReleaseEffect DEF Moved, Finished
  <2> QED  BY <2>1, WorkOf, WorkNext
<1> QED
  BY <1>4, <1>5, <1>6, <1>7, <1>8, <1>9, <1>10, <1>11, <1>12, <1>13, <1>14 DEF Step

\* A request ends after at most 7 + 3 * Sessions steps of its thread, whatever the
\* other threads do meanwhile: every step leaves less to do, and nobody adds to it.
THEOREM RequestsAreFinite == Spec => []WorkBounded /\ StepsCount
<1>1. IInv /\ Progress /\ [Next]_vars =>
        [\A t \in Threads :
            /\ Step(t) => Work(t)' < Work(t)
            /\ ~Step(t) /\ th[t].pc # "idle" => th'[t] = th[t]]_vars
  <2> SUFFICES ASSUME IInv, Progress, Next, NEW t \in Threads
               PROVE  /\ Step(t) => Work(t)' < Work(t)
                      /\ ~Step(t) /\ th[t].pc # "idle" => th'[t] = th[t]
    OBVIOUS
  <2>1. ASSUME ~Step(t), th[t].pc # "idle" PROVE th'[t] = th[t]
    <3>1. CASE \E u \in Threads : Step(u)
      <4> PICK u \in Threads : Step(u)
        BY <3>1
      <4> QED  BY <2>1, VisitedEffect
    <3>2. CASE \E u \in Threads, o \in Ops, i \in Ids : Request(u, o, i)
      <4> PICK u \in Threads, o \in Ops, i \in Ids : Request(u, o, i)
        BY <3>2
      <4> QED  BY <2>1, RequestEffect
    <3>3. CASE Tick \/ Stopped
      BY <3>3 DEF Tick, Stopped, vars
    <3> QED  BY <3>1, <3>2, <3>3 DEF Next
  <2> QED  BY <2>1, StepCounts
<1> QED
  BY <1>1, BooksBoundWork, ProgressInvariance, PTL DEF Spec, StepsCount
=============================================================================
