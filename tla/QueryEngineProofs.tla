------------------------- MODULE QueryEngineProofs -------------------------
(***************************************************************************)
(* Proofs about QueryEngine for any number of concurrent questions, any    *)
(* set of tables and any replies of the model.                             *)
(*                                                                         *)
(* The argument: a thread owns the lock exactly while it is at a point     *)
(* inside `with session.lock`, and a worker exists exactly while the       *)
(* question that started it is at such a point (Holding).  Tables are only *)
(* ever added, so what was allowed at the start is still there, and was    *)
(* shown to the model, when the query runs (Prompted).  A turn is appended *)
(* in the step that settles the answer and in no other (Recording).        *)
(*                                                                         *)
(* The holder of the lock waits neither for it nor for the event loop, so  *)
(* nobody waits in a circle, and the steps a question has left (Work)      *)
(* count down, its one retry included.                                     *)
(***************************************************************************)
EXTENDS QueryEngine, SequenceTheorems, TLAPS

USE TablesAssumption, HistoryAssumption, NamesAssumption, BoundAssumption

Waits == {"waiting", "interrupting", "joining"}

Holding ==
    \A q \in Questions :
        /\ lock = q <=> run[q].pc \in Waits \cup {"describing"}
        /\ run[q].worker # "none" <=> run[q].pc \in Waits

Prompted ==
    \A q \in Questions :
        /\ run[q].allowed \subseteq tables
        /\ run[q].pc \notin {"new", "arrived", "schema", "describing", "done"} =>
              run[q].allowed \subseteq run[q].schema
        /\ run[q].pc \in Waits \cup {"execute"} =>
              run[q].sql.select /\ Counted(run[q].sql) \subseteq run[q].allowed

Recording ==
    /\ RecordedOnce
    /\ \A q \in Questions :
          /\ run[q].answer = "none" <=> run[q].pc # "done"
          /\ run[q].pc = "finish" => run[q].result \in Turn /\ run[q].result.question = q

IInv == TypeOK /\ Holding /\ Prompted /\ Recording

\* Before the first question.
LEMMA InitIInv == Init => IInv
<1> SUFFICES ASSUME Init PROVE IInv
  OBVIOUS
<1> DEFINE R == [pc |-> "new", allowed |-> {}, schema |-> {}, history |-> <<>>,
                 attempt |-> 0, sql |-> NotSelect, worker |-> "none", runaway |-> FALSE,
                 result |-> None, answer |-> "none", before |-> {}, reply |-> "none"]
<1>1. R \in Local /\ <<>> \in Seq(Turn)
  BY DEF Local, PCs, Statement
<1> HIDE DEF R
<1>5. run = [q \in Questions |-> R]
  BY DEF Init, R
<1>2. TypeOK
  BY <1>1, <1>5 DEF Init, TypeOK
<1>3. Holding /\ Prompted
  BY DEF Init, Holding, Prompted, Waits
<1>4. Recording
  BY DEF Init, Recording, RecordedOnce, TurnsOf
<1> QED  BY <1>2, <1>3, <1>4 DEF IInv

\* The history given to the model is a list of turns.
LEMMA RecentTurnsType ==
    ASSUME NEW s \in Seq(Turn), NEW n \in Nat
    PROVE  RecentTurns(s, n) \in Seq(Turn)
<1> DEFINE m == IF Len(s) < n THEN 1 ELSE Len(s) - n + 1
<1>1. Len(s) \in Nat /\ m \in 1 .. Len(s) + 1
  BY LenProperties
<1>2. SubSeq(s, m, Len(s)) \in Seq(Turn)
  BY <1>1, SubSeqProperties
<1> QED  BY <1>2 DEF RecentTurns

\* The request reaches a thread.
LEMMA DispatchIInv ==
    ASSUME IInv, NEW q \in Questions, Dispatch(q)
    PROVE  IInv'
<1> DEFINE R == [run[q] EXCEPT !.pc = "arrived"]
<1>1. run[q] \in Local
  BY DEF IInv, TypeOK
<1>3. R \in Local
  BY <1>1 DEF Local, PCs, IInv, TypeOK
<1>4. run' = [run EXCEPT ![q] = R]
  BY DEF Dispatch, Goto, IInv, TypeOK
<1>5. tables' = tables /\ lock' = lock /\ turns' = turns
  BY DEF Dispatch, Goto, session
<1>6. open' \in BOOLEAN /\ interrupted' \in BOOLEAN /\ uploads' \in Nat
      /\ loop' \in {Uploader, None} /\ clock' \in Nat
  BY DEF Dispatch, Goto, session, IInv, TypeOK
<1>8. TypeOK'
  BY <1>3, <1>4, <1>5, <1>6 DEF IInv, TypeOK
<1>9. \A r \in Questions \ {q} : run'[r] = run[r]
  BY <1>4 DEF IInv, TypeOK
<1>10. /\ run[q].pc = "new"
       /\ run'[q].pc = "arrived"
       /\ run'[q].allowed = run[q].allowed
       /\ run'[q].schema = run[q].schema
       /\ run'[q].sql = run[q].sql
       /\ run'[q].answer = run[q].answer
       /\ run'[q].result = run[q].result
       /\ run'[q].worker = run[q].worker
  BY <1>1, <1>4 DEF Dispatch, Goto, Local, IInv, TypeOK
<1> HIDE DEF R
<1>11. Holding'
  BY <1>5, <1>9, <1>10 DEF IInv, Holding, Waits
<1>12. Prompted'
  BY <1>5, <1>9, <1>10 DEF IInv, Prompted, Holding, Waits, TypeOK
<1>13. \A r \in Questions : TurnsOf(r)' = TurnsOf(r)
  BY <1>5 DEF TurnsOf
<1>14. Recording'
  BY <1>5, <1>9, <1>10, <1>13 DEF IInv, Recording, RecordedOnce, Holding, Waits
<1> QED  BY <1>8, <1>11, <1>12, <1>14 DEF IInv

\* The unlocked read of table_sources.
LEMMA BeginIInv ==
    ASSUME IInv, NEW q \in Questions, Begin(q)
    PROVE  IInv'
<1> DEFINE R == [run[q] EXCEPT !.pc = "schema", !.allowed = tables, !.before = Recorded]
<1>1. run[q] \in Local
  BY DEF IInv, TypeOK
<1>2. Recorded \subseteq Questions
  <2>1. \A i \in 1 .. Len(turns) : turns[i] \in Turn
    BY ElementOfSeq DEF IInv, TypeOK
  <2> QED  BY <2>1 DEF Recorded, Turn
<1>3. R \in Local
  BY <1>1, <1>2 DEF Local, PCs, IInv, TypeOK
<1>4. run' = [run EXCEPT ![q] = R]
  BY DEF Begin, IInv, TypeOK
<1>5. tables' = tables /\ lock' = lock /\ turns' = turns
  BY DEF Begin, session
<1>6. open' \in BOOLEAN /\ interrupted' \in BOOLEAN /\ uploads' \in Nat
      /\ loop' \in {Uploader, None} /\ clock' \in Nat
  BY DEF Begin, session, IInv, TypeOK
<1>8. TypeOK'
  BY <1>3, <1>4, <1>5, <1>6 DEF IInv, TypeOK
<1>9. \A r \in Questions \ {q} : run'[r] = run[r]
  BY <1>4 DEF IInv, TypeOK
<1>10. /\ run[q].pc = "arrived"
       /\ run'[q].pc = "schema"
       /\ run'[q].allowed = tables
       /\ run'[q].schema = run[q].schema
       /\ run'[q].sql = run[q].sql
       /\ run'[q].answer = run[q].answer
       /\ run'[q].result = run[q].result
       /\ run'[q].worker = run[q].worker
  BY <1>1, <1>4 DEF Begin, Local, IInv, TypeOK
<1> HIDE DEF R
<1>11. Holding'
  BY <1>5, <1>9, <1>10 DEF IInv, Holding, Waits
<1>12. Prompted'
  BY <1>5, <1>9, <1>10 DEF IInv, Prompted, Holding, Waits, TypeOK
<1>13. \A r \in Questions : TurnsOf(r)' = TurnsOf(r)
  BY <1>5 DEF TurnsOf
<1>14. Recording'
  BY <1>5, <1>9, <1>10, <1>13 DEF IInv, Recording, RecordedOnce, Holding, Waits
<1> QED  BY <1>8, <1>11, <1>12, <1>14 DEF IInv

\* Taking the lock to describe the tables.
LEMMA LockSchemaIInv ==
    ASSUME IInv, NEW q \in Questions, LockSchema(q)
    PROVE  IInv'
<1> DEFINE R == [run[q] EXCEPT !.pc = "describing"]
<1>1. run[q] \in Local
  BY DEF IInv, TypeOK
<1>3. R \in Local
  BY <1>1 DEF Local, PCs, IInv, TypeOK
<1>4. run' = [run EXCEPT ![q] = R]
  BY DEF LockSchema, Goto, IInv, TypeOK
<1>5. tables' = tables /\ lock' = q /\ lock = None /\ turns' = turns
  BY DEF LockSchema, Goto, session
<1>6. open' \in BOOLEAN /\ interrupted' \in BOOLEAN /\ uploads' \in Nat
      /\ loop' \in {Uploader, None} /\ clock' \in Nat
  BY DEF LockSchema, Goto, session, IInv, TypeOK
<1>8. TypeOK'
  BY <1>3, <1>4, <1>5, <1>6 DEF IInv, TypeOK
<1>9. \A r \in Questions \ {q} : run'[r] = run[r]
  BY <1>4 DEF IInv, TypeOK
<1>10. /\ run[q].pc = "schema"
       /\ run'[q].pc = "describing"
       /\ run'[q].allowed = run[q].allowed
       /\ run'[q].schema = run[q].schema
       /\ run'[q].sql = run[q].sql
       /\ run'[q].answer = run[q].answer
       /\ run'[q].result = run[q].result
       /\ run'[q].worker = run[q].worker
  BY <1>1, <1>4 DEF LockSchema, Goto, Local, IInv, TypeOK
<1> HIDE DEF R
<1>11. Holding'
  BY <1>5, <1>9, <1>10 DEF IInv, Holding, Waits
<1>12. Prompted'
  BY <1>5, <1>9, <1>10 DEF IInv, Prompted, Holding, Waits, TypeOK
<1>13. \A r \in Questions : TurnsOf(r)' = TurnsOf(r)
  BY <1>5 DEF TurnsOf
<1>14. Recording'
  BY <1>5, <1>9, <1>10, <1>13 DEF IInv, Recording, RecordedOnce, Holding, Waits
<1> QED  BY <1>8, <1>11, <1>12, <1>14 DEF IInv

\* The description holds every table there is, hence every allowed one.
LEMMA DescribeIInv ==
    ASSUME IInv, NEW q \in Questions, Describe(q)
    PROVE  IInv'
<1> DEFINE R1 == [run[q] EXCEPT !.pc = "recall", !.schema = tables]
<1> DEFINE R2 == [run[q] EXCEPT !.pc = "done", !.answer = "500"]
<1>1. run[q] \in Local
  BY DEF IInv, TypeOK
<1>3. R1 \in Local /\ R2 \in Local
  BY <1>1 DEF Local, PCs, IInv, TypeOK
<1>4. \/ run' = [run EXCEPT ![q] = R1]
      \/ run' = [run EXCEPT ![q] = R2]
  BY DEF Describe, Raise, IInv, TypeOK
<1>5. tables' = tables /\ lock' = None /\ turns' = turns
  BY DEF Describe, Raise, session
<1>6. open' \in BOOLEAN /\ interrupted' \in BOOLEAN /\ uploads' \in Nat
      /\ loop' \in {Uploader, None} /\ clock' \in Nat
  BY DEF Describe, Raise, session, IInv, TypeOK
<1>8. TypeOK'
  BY <1>3, <1>4, <1>5, <1>6 DEF IInv, TypeOK
<1>9. \A r \in Questions \ {q} : run'[r] = run[r]
  BY <1>4 DEF IInv, TypeOK
<1>10. /\ run[q].pc = "describing"
       /\ run'[q].allowed = run[q].allowed /\ run'[q].worker = run[q].worker /\ run'[q].sql = run[q].sql
       /\ \/ run'[q].pc = "recall" /\ run'[q].schema = tables /\ run'[q].answer = run[q].answer
          \/ run'[q].pc = "done" /\ run'[q].answer = "500"
  BY <1>1, <1>4 DEF Describe, Raise, Local, IInv, TypeOK
<1> HIDE DEF R1, R2
<1>11. Holding'
  BY <1>5, <1>9, <1>10 DEF IInv, Holding, Waits
<1>12. Prompted'
  BY <1>5, <1>9, <1>10 DEF IInv, Prompted, Holding, Waits, TypeOK
<1>13. \A r \in Questions : TurnsOf(r)' = TurnsOf(r)
  BY <1>5 DEF TurnsOf
<1>14. Recording'
  BY <1>5, <1>9, <1>10, <1>13 DEF IInv, Recording, RecordedOnce, Holding, Waits
<1> QED  BY <1>8, <1>11, <1>12, <1>14 DEF IInv

\* Reading the history.
LEMMA RecallIInv ==
    ASSUME IInv, NEW q \in Questions, Recall(q)
    PROVE  IInv'
<1> DEFINE R == [run[q] EXCEPT !.pc = "generate", !.history = RecentTurns(turns, HistoryTurns)]
<1>1. run[q] \in Local
  BY DEF IInv, TypeOK
<1>2. RecentTurns(turns, HistoryTurns) \in Seq(Turn)
  BY RecentTurnsType DEF IInv, TypeOK
<1>3. R \in Local
  BY <1>1, <1>2 DEF Local, PCs, IInv, TypeOK
<1>4. run' = [run EXCEPT ![q] = R]
  BY DEF Recall, IInv, TypeOK
<1>5. tables' = tables /\ lock' = lock /\ turns' = turns
  BY DEF Recall, session
<1>6. open' \in BOOLEAN /\ interrupted' \in BOOLEAN /\ uploads' \in Nat
      /\ loop' \in {Uploader, None} /\ clock' \in Nat
  BY DEF Recall, session, IInv, TypeOK
<1>8. TypeOK'
  BY <1>3, <1>4, <1>5, <1>6 DEF IInv, TypeOK
<1>9. \A r \in Questions \ {q} : run'[r] = run[r]
  BY <1>4 DEF IInv, TypeOK
<1>10. /\ run[q].pc = "recall"
       /\ run'[q].pc = "generate"
       /\ run'[q].allowed = run[q].allowed
       /\ run'[q].schema = run[q].schema
       /\ run'[q].sql = run[q].sql
       /\ run'[q].answer = run[q].answer
       /\ run'[q].result = run[q].result
       /\ run'[q].worker = run[q].worker
  BY <1>1, <1>4 DEF Recall, Local, IInv, TypeOK
<1> HIDE DEF R
<1>11. Holding'
  BY <1>5, <1>9, <1>10 DEF IInv, Holding, Waits
<1>12. Prompted'
  BY <1>5, <1>9, <1>10 DEF IInv, Prompted, Holding, Waits, TypeOK
<1>13. \A r \in Questions : TurnsOf(r)' = TurnsOf(r)
  BY <1>5 DEF TurnsOf
<1>14. Recording'
  BY <1>5, <1>9, <1>10, <1>13 DEF IInv, Recording, RecordedOnce, Holding, Waits
<1> QED  BY <1>8, <1>11, <1>12, <1>14 DEF IInv

\* Any SQL the model may write.
LEMMA ModelAnswersIInv ==
    ASSUME IInv, NEW q \in Questions, NEW sql \in Sqls, ModelAnswers(q, sql)
    PROVE  IInv'
<1> DEFINE R == [run[q] EXCEPT !.pc = "validate", !.sql = sql, !.reply = "other"]
<1>1. run[q] \in Local
  BY DEF IInv, TypeOK
<1>3. R \in Local
  BY <1>1, SqlsAssumption DEF Local, PCs, IInv, TypeOK
<1>4. run' = [run EXCEPT ![q] = R]
  BY DEF ModelAnswers, IInv, TypeOK
<1>5. tables' = tables /\ lock' = lock /\ turns' = turns
  BY DEF ModelAnswers, session
<1>6. open' \in BOOLEAN /\ interrupted' \in BOOLEAN /\ uploads' \in Nat
      /\ loop' \in {Uploader, None} /\ clock' \in Nat
  BY DEF ModelAnswers, session, IInv, TypeOK
<1>8. TypeOK'
  BY <1>3, <1>4, <1>5, <1>6 DEF IInv, TypeOK
<1>9. \A r \in Questions \ {q} : run'[r] = run[r]
  BY <1>4 DEF IInv, TypeOK
<1>10. /\ run[q].pc = "generate"
       /\ run'[q].pc = "validate"
       /\ run'[q].allowed = run[q].allowed
       /\ run'[q].schema = run[q].schema
       /\ run'[q].sql = sql
       /\ run'[q].answer = run[q].answer
       /\ run'[q].result = run[q].result
       /\ run'[q].worker = run[q].worker
  BY <1>1, <1>4 DEF ModelAnswers, Local, IInv, TypeOK
<1> HIDE DEF R
<1>11. Holding'
  BY <1>5, <1>9, <1>10 DEF IInv, Holding, Waits
<1>12. Prompted'
  BY <1>5, <1>9, <1>10 DEF IInv, Prompted, Holding, Waits, TypeOK
<1>13. \A r \in Questions : TurnsOf(r)' = TurnsOf(r)
  BY <1>5 DEF TurnsOf
<1>14. Recording'
  BY <1>5, <1>9, <1>10, <1>13 DEF IInv, Recording, RecordedOnce, Holding, Waits
<1> QED  BY <1>8, <1>11, <1>12, <1>14 DEF IInv

\* A refusal is a result.
LEMMA ModelDeclinesIInv ==
    ASSUME IInv, NEW q \in Questions, ModelDeclines(q)
    PROVE  IInv'
<1> DEFINE R == [run[q] EXCEPT !.pc = "finish",
                 !.result = [question |-> q, outcome |-> "error", createdAt |-> clock]]
<1>1. run[q] \in Local
  BY DEF IInv, TypeOK
<1>2. [question |-> q, outcome |-> "error", createdAt |-> clock] \in Turn /\ clock + 1 \in Nat
  BY DEF Turn, IInv, TypeOK
<1>3. R \in Local
  BY <1>1, <1>2 DEF Local, PCs, IInv, TypeOK
<1>4. run' = [run EXCEPT ![q] = R]
  BY DEF ModelDeclines, MakeResult, IInv, TypeOK
<1>5. tables' = tables /\ lock' = lock /\ turns' = turns
  BY DEF ModelDeclines, MakeResult, session
<1>6. open' \in BOOLEAN /\ interrupted' \in BOOLEAN /\ uploads' \in Nat
      /\ loop' \in {Uploader, None} /\ clock' \in Nat
  BY <1>2 DEF ModelDeclines, MakeResult, session, IInv, TypeOK
<1>8. TypeOK'
  BY <1>3, <1>4, <1>5, <1>6 DEF IInv, TypeOK
<1>9. \A r \in Questions \ {q} : run'[r] = run[r]
  BY <1>4 DEF IInv, TypeOK
<1>10. /\ run[q].pc = "generate"
       /\ run'[q].pc = "finish"
       /\ run'[q].allowed = run[q].allowed
       /\ run'[q].schema = run[q].schema
       /\ run'[q].sql = run[q].sql
       /\ run'[q].answer = run[q].answer
       /\ run'[q].result = [question |-> q, outcome |-> "error", createdAt |-> clock]
       /\ run'[q].worker = run[q].worker
  BY <1>1, <1>4 DEF ModelDeclines, MakeResult, Local, IInv, TypeOK
<1> HIDE DEF R
<1>11. Holding'
  BY <1>5, <1>9, <1>10 DEF IInv, Holding, Waits
<1>12. Prompted'
  BY <1>5, <1>9, <1>10 DEF IInv, Prompted, Holding, Waits, TypeOK
<1>13. \A r \in Questions : TurnsOf(r)' = TurnsOf(r)
  BY <1>5 DEF TurnsOf
<1>14. Recording'
  BY <1>5, <1>9, <1>10, <1>13, <1>2 DEF IInv, Recording, RecordedOnce, Holding, Waits
<1> QED  BY <1>8, <1>11, <1>12, <1>14 DEF IInv

\* An outage is none.
LEMMA ModelUnavailableIInv ==
    ASSUME IInv, NEW q \in Questions, ModelUnavailable(q)
    PROVE  IInv'
<1> DEFINE R == [run[q] EXCEPT !.pc = "done", !.answer = "502"]
<1>1. run[q] \in Local
  BY DEF IInv, TypeOK
<1>3. R \in Local
  BY <1>1 DEF Local, PCs, IInv, TypeOK
<1>4. run' = [run EXCEPT ![q] = R]
  BY DEF ModelUnavailable, Raise, IInv, TypeOK
<1>5. tables' = tables /\ lock' = lock /\ turns' = turns
  BY DEF ModelUnavailable, Raise, session
<1>6. open' \in BOOLEAN /\ interrupted' \in BOOLEAN /\ uploads' \in Nat
      /\ loop' \in {Uploader, None} /\ clock' \in Nat
  BY DEF ModelUnavailable, Raise, session, IInv, TypeOK
<1>8. TypeOK'
  BY <1>3, <1>4, <1>5, <1>6 DEF IInv, TypeOK
<1>9. \A r \in Questions \ {q} : run'[r] = run[r]
  BY <1>4 DEF IInv, TypeOK
<1>10. /\ run[q].pc = "generate"
       /\ run'[q].pc = "done"
       /\ run'[q].allowed = run[q].allowed
       /\ run'[q].schema = run[q].schema
       /\ run'[q].sql = run[q].sql
       /\ run'[q].answer = "502"
       /\ run'[q].result = run[q].result
       /\ run'[q].worker = run[q].worker
  BY <1>1, <1>4 DEF ModelUnavailable, Raise, Local, IInv, TypeOK
<1> HIDE DEF R
<1>11. Holding'
  BY <1>5, <1>9, <1>10 DEF IInv, Holding, Waits
<1>12. Prompted'
  BY <1>5, <1>9, <1>10 DEF IInv, Prompted, Holding, Waits, TypeOK
<1>13. \A r \in Questions : TurnsOf(r)' = TurnsOf(r)
  BY <1>5 DEF TurnsOf
<1>14. Recording'
  BY <1>5, <1>9, <1>10, <1>13 DEF IInv, Recording, RecordedOnce, Holding, Waits
<1> QED  BY <1>8, <1>11, <1>12, <1>14 DEF IInv

\* Nor is an unreadable reply.
LEMMA ModelMalformedIInv ==
    ASSUME IInv, NEW q \in Questions, ModelMalformed(q)
    PROVE  IInv'
<1> DEFINE R == [run[q] EXCEPT !.pc = "done", !.answer = "500", !.reply = "malformed"]
<1>1. run[q] \in Local
  BY DEF IInv, TypeOK
<1>3. R \in Local
  BY <1>1 DEF Local, PCs, IInv, TypeOK
<1>4. run' = [run EXCEPT ![q] = R]
  BY DEF ModelMalformed, IInv, TypeOK
<1>5. tables' = tables /\ lock' = lock /\ turns' = turns
  BY DEF ModelMalformed, session
<1>6. open' \in BOOLEAN /\ interrupted' \in BOOLEAN /\ uploads' \in Nat
      /\ loop' \in {Uploader, None} /\ clock' \in Nat
  BY DEF ModelMalformed, session, IInv, TypeOK
<1>8. TypeOK'
  BY <1>3, <1>4, <1>5, <1>6 DEF IInv, TypeOK
<1>9. \A r \in Questions \ {q} : run'[r] = run[r]
  BY <1>4 DEF IInv, TypeOK
<1>10. /\ run[q].pc = "generate"
       /\ run'[q].pc = "done"
       /\ run'[q].allowed = run[q].allowed
       /\ run'[q].schema = run[q].schema
       /\ run'[q].sql = run[q].sql
       /\ run'[q].answer = "500"
       /\ run'[q].result = run[q].result
       /\ run'[q].worker = run[q].worker
  BY <1>1, <1>4 DEF ModelMalformed, Local, IInv, TypeOK
<1> HIDE DEF R
<1>11. Holding'
  BY <1>5, <1>9, <1>10 DEF IInv, Holding, Waits
<1>12. Prompted'
  BY <1>5, <1>9, <1>10 DEF IInv, Prompted, Holding, Waits, TypeOK
<1>13. \A r \in Questions : TurnsOf(r)' = TurnsOf(r)
  BY <1>5 DEF TurnsOf
<1>14. Recording'
  BY <1>5, <1>9, <1>10, <1>13 DEF IInv, Recording, RecordedOnce, Holding, Waits
<1> QED  BY <1>8, <1>11, <1>12, <1>14 DEF IInv

\* Only a SELECT over allowed tables goes on to execution.
LEMMA ValidateIInv ==
    ASSUME IInv, NEW q \in Questions, Validate(q)
    PROVE  IInv'
<1> DEFINE R == [run[q] EXCEPT !.pc = IF run[q].sql.select /\ Counted(run[q].sql) \subseteq run[q].allowed
                 THEN "execute" ELSE "failed"]
<1>1. run[q] \in Local
  BY DEF IInv, TypeOK
<1>3. R \in Local
  BY <1>1 DEF Local, PCs, IInv, TypeOK
<1>4. run' = [run EXCEPT ![q] = R]
  BY DEF Validate, Goto, Valid, IInv, TypeOK
<1>5. tables' = tables /\ lock' = lock /\ turns' = turns
  BY DEF Validate, Goto, Valid, session
<1>6. open' \in BOOLEAN /\ interrupted' \in BOOLEAN /\ uploads' \in Nat
      /\ loop' \in {Uploader, None} /\ clock' \in Nat
  BY DEF Validate, Goto, Valid, session, IInv, TypeOK
<1>8. TypeOK'
  BY <1>3, <1>4, <1>5, <1>6 DEF IInv, TypeOK
<1>9. \A r \in Questions \ {q} : run'[r] = run[r]
  BY <1>4 DEF IInv, TypeOK
<1>10. /\ run[q].pc = "validate"
       /\ run'[q].pc = IF run[q].sql.select /\ Counted(run[q].sql) \subseteq run[q].allowed THEN "execute" ELSE "failed"
       /\ run'[q].allowed = run[q].allowed
       /\ run'[q].schema = run[q].schema
       /\ run'[q].sql = run[q].sql
       /\ run'[q].answer = run[q].answer
       /\ run'[q].result = run[q].result
       /\ run'[q].worker = run[q].worker
  BY <1>1, <1>4 DEF Validate, Goto, Valid, Local, IInv, TypeOK
<1> HIDE DEF R
<1>11. Holding'
  BY <1>5, <1>9, <1>10 DEF IInv, Holding, Waits
<1>12. Prompted'
  BY <1>5, <1>9, <1>10 DEF IInv, Prompted, Holding, Waits, TypeOK
<1>13. \A r \in Questions : TurnsOf(r)' = TurnsOf(r)
  BY <1>5 DEF TurnsOf
<1>14. Recording'
  BY <1>5, <1>9, <1>10, <1>13 DEF IInv, Recording, RecordedOnce, Holding, Waits
<1> QED  BY <1>8, <1>11, <1>12, <1>14 DEF IInv

\* Taking the lock and starting a worker.
LEMMA LockConnIInv ==
    ASSUME IInv, NEW q \in Questions, LockConn(q)
    PROVE  IInv'
<1> DEFINE R == [run[q] EXCEPT !.pc = "waiting", !.worker = "queued"]
<1>1. run[q] \in Local
  BY DEF IInv, TypeOK
<1>3. R \in Local
  BY <1>1 DEF Local, PCs, IInv, TypeOK
<1>4. run' = [run EXCEPT ![q] = R]
  BY DEF LockConn, IInv, TypeOK
<1>5. tables' = tables /\ lock' = q /\ lock = None /\ turns' = turns
  BY DEF LockConn, session
<1>6. open' \in BOOLEAN /\ interrupted' \in BOOLEAN /\ uploads' \in Nat
      /\ loop' \in {Uploader, None} /\ clock' \in Nat
  BY DEF LockConn, session, IInv, TypeOK
<1>8. TypeOK'
  BY <1>3, <1>4, <1>5, <1>6 DEF IInv, TypeOK
<1>9. \A r \in Questions \ {q} : run'[r] = run[r]
  BY <1>4 DEF IInv, TypeOK
<1>10. /\ run[q].pc = "execute"
       /\ run'[q].pc = "waiting"
       /\ run'[q].allowed = run[q].allowed
       /\ run'[q].schema = run[q].schema
       /\ run'[q].sql = run[q].sql
       /\ run'[q].answer = run[q].answer
       /\ run'[q].result = run[q].result
       /\ run'[q].worker = "queued"
  BY <1>1, <1>4 DEF LockConn, Local, IInv, TypeOK
<1> HIDE DEF R
<1>11. Holding'
  BY <1>5, <1>9, <1>10 DEF IInv, Holding, Waits
<1>12. Prompted'
  BY <1>5, <1>9, <1>10 DEF IInv, Prompted, Holding, Waits, TypeOK
<1>13. \A r \in Questions : TurnsOf(r)' = TurnsOf(r)
  BY <1>5 DEF TurnsOf
<1>14. Recording'
  BY <1>5, <1>9, <1>10, <1>13 DEF IInv, Recording, RecordedOnce, Holding, Waits
<1> QED  BY <1>8, <1>11, <1>12, <1>14 DEF IInv

\* The worker starts its query; its question holds the lock.
LEMMA WorkerStartsIInv ==
    ASSUME IInv, NEW q \in Questions, WorkerStarts(q)
    PROVE  IInv'
<1> DEFINE R1 == [run[q] EXCEPT !.worker = "running", !.runaway = TRUE]
<1> DEFINE R2 == [run[q] EXCEPT !.worker = "running", !.runaway = FALSE]
<1> DEFINE R3 == [run[q] EXCEPT !.worker = "error"]
<1>1. run[q] \in Local
  BY DEF IInv, TypeOK
<1>3. R1 \in Local /\ R2 \in Local /\ R3 \in Local
  BY <1>1 DEF Local, PCs, IInv, TypeOK
<1>4. \/ run' = [run EXCEPT ![q] = R1]
      \/ run' = [run EXCEPT ![q] = R2]
      \/ run' = [run EXCEPT ![q] = R3]
  BY DEF WorkerStarts, IInv, TypeOK
<1>5. tables' = tables /\ lock' = lock /\ turns' = turns
  BY DEF WorkerStarts, session
<1>6. open' \in BOOLEAN /\ interrupted' \in BOOLEAN /\ uploads' \in Nat
      /\ loop' \in {Uploader, None} /\ clock' \in Nat
  BY DEF WorkerStarts, session, IInv, TypeOK
<1>8. TypeOK'
  BY <1>3, <1>4, <1>5, <1>6 DEF IInv, TypeOK
<1>9. \A r \in Questions \ {q} : run'[r] = run[r]
  BY <1>4 DEF IInv, TypeOK
<1>10. /\ run[q].worker \in {"queued", "running"} /\ run'[q].worker # "none"
       /\ run'[q].pc = run[q].pc
       /\ run'[q].allowed = run[q].allowed /\ run'[q].schema = run[q].schema /\ run'[q].sql = run[q].sql
       /\ run'[q].answer = run[q].answer /\ run'[q].result = run[q].result
  BY <1>1, <1>4 DEF WorkerStarts, Local, IInv, TypeOK
<1> HIDE DEF R1, R2, R3
<1>11. Holding'
  BY <1>5, <1>9, <1>10 DEF IInv, Holding, Waits
<1>12. Prompted'
  BY <1>5, <1>9, <1>10 DEF IInv, Prompted, Holding, Waits, TypeOK
<1>13. \A r \in Questions : TurnsOf(r)' = TurnsOf(r)
  BY <1>5 DEF TurnsOf
<1>14. Recording'
  BY <1>5, <1>9, <1>10, <1>13 DEF IInv, Recording, RecordedOnce, Holding, Waits
<1> QED  BY <1>8, <1>11, <1>12, <1>14 DEF IInv

\* The worker ends; its question still holds the lock.
LEMMA WorkerEndsIInv ==
    ASSUME IInv, NEW q \in Questions, WorkerEnds(q)
    PROVE  IInv'
<1> DEFINE R1 == [run[q] EXCEPT !.worker = "ok", !.runaway = FALSE]
<1> DEFINE R2 == [run[q] EXCEPT !.worker = "error", !.runaway = FALSE]
<1>1. run[q] \in Local
  BY DEF IInv, TypeOK
<1>3. R1 \in Local /\ R2 \in Local
  BY <1>1 DEF Local, PCs, IInv, TypeOK
<1>4. \/ run' = [run EXCEPT ![q] = R1]
      \/ run' = [run EXCEPT ![q] = R2]
  BY DEF WorkerEnds, IInv, TypeOK
<1>5. tables' = tables /\ lock' = lock /\ turns' = turns
  BY DEF WorkerEnds, session
<1>6. open' \in BOOLEAN /\ interrupted' \in BOOLEAN /\ uploads' \in Nat
      /\ loop' \in {Uploader, None} /\ clock' \in Nat
  BY DEF WorkerEnds, session, IInv, TypeOK
<1>8. TypeOK'
  BY <1>3, <1>4, <1>5, <1>6 DEF IInv, TypeOK
<1>9. \A r \in Questions \ {q} : run'[r] = run[r]
  BY <1>4 DEF IInv, TypeOK
<1>10. /\ run[q].worker \in {"queued", "running"} /\ run'[q].worker # "none"
       /\ run'[q].pc = run[q].pc
       /\ run'[q].allowed = run[q].allowed /\ run'[q].schema = run[q].schema /\ run'[q].sql = run[q].sql
       /\ run'[q].answer = run[q].answer /\ run'[q].result = run[q].result
  BY <1>1, <1>4 DEF WorkerEnds, Local, IInv, TypeOK
<1> HIDE DEF R1, R2
<1>11. Holding'
  BY <1>5, <1>9, <1>10 DEF IInv, Holding, Waits
<1>12. Prompted'
  BY <1>5, <1>9, <1>10 DEF IInv, Prompted, Holding, Waits, TypeOK
<1>13. \A r \in Questions : TurnsOf(r)' = TurnsOf(r)
  BY <1>5 DEF TurnsOf
<1>14. Recording'
  BY <1>5, <1>9, <1>10, <1>13 DEF IInv, Recording, RecordedOnce, Holding, Waits
<1> QED  BY <1>8, <1>11, <1>12, <1>14 DEF IInv

\* Worker and lock are given up together.
LEMMA CollectIInv ==
    ASSUME IInv, NEW q \in Questions, Collect(q)
    PROVE  IInv'
<1> DEFINE R == [run[q] EXCEPT !.pc = IF run[q].worker = "ok" THEN "summarize" ELSE "failed",
                 !.worker = "none"]
<1>1. run[q] \in Local
  BY DEF IInv, TypeOK
<1>3. R \in Local
  BY <1>1 DEF Local, PCs, IInv, TypeOK
<1>4. run' = [run EXCEPT ![q] = R]
  BY DEF Collect, IInv, TypeOK
<1>5. tables' = tables /\ lock' = None /\ turns' = turns
  BY DEF Collect, session
<1>6. open' \in BOOLEAN /\ interrupted' \in BOOLEAN /\ uploads' \in Nat
      /\ loop' \in {Uploader, None} /\ clock' \in Nat
  BY DEF Collect, session, IInv, TypeOK
<1>8. TypeOK'
  BY <1>3, <1>4, <1>5, <1>6 DEF IInv, TypeOK
<1>9. \A r \in Questions \ {q} : run'[r] = run[r]
  BY <1>4 DEF IInv, TypeOK
<1>10. /\ run[q].pc = "waiting"
       /\ run'[q].pc = IF run[q].worker = "ok" THEN "summarize" ELSE "failed"
       /\ run'[q].allowed = run[q].allowed
       /\ run'[q].schema = run[q].schema
       /\ run'[q].sql = run[q].sql
       /\ run'[q].answer = run[q].answer
       /\ run'[q].result = run[q].result
       /\ run'[q].worker = "none"
  BY <1>1, <1>4 DEF Collect, Local, IInv, TypeOK
<1> HIDE DEF R
<1>11. Holding'
  BY <1>5, <1>9, <1>10 DEF IInv, Holding, Waits
<1>12. Prompted'
  BY <1>5, <1>9, <1>10 DEF IInv, Prompted, Holding, Waits, TypeOK
<1>13. \A r \in Questions : TurnsOf(r)' = TurnsOf(r)
  BY <1>5 DEF TurnsOf
<1>14. Recording'
  BY <1>5, <1>9, <1>10, <1>13 DEF IInv, Recording, RecordedOnce, Holding, Waits
<1> QED  BY <1>8, <1>11, <1>12, <1>14 DEF IInv

\* A timeout gives up neither.
LEMMA TimesOutIInv ==
    ASSUME IInv, NEW q \in Questions, TimesOut(q)
    PROVE  IInv'
<1> DEFINE R == [run[q] EXCEPT !.pc = "interrupting"]
<1>1. run[q] \in Local
  BY DEF IInv, TypeOK
<1>3. R \in Local
  BY <1>1 DEF Local, PCs, IInv, TypeOK
<1>4. run' = [run EXCEPT ![q] = R]
  BY DEF TimesOut, Goto, IInv, TypeOK
<1>5. tables' = tables /\ lock' = lock /\ turns' = turns
  BY DEF TimesOut, Goto, session
<1>6. open' \in BOOLEAN /\ interrupted' \in BOOLEAN /\ uploads' \in Nat
      /\ loop' \in {Uploader, None} /\ clock' \in Nat
  BY DEF TimesOut, Goto, session, IInv, TypeOK
<1>8. TypeOK'
  BY <1>3, <1>4, <1>5, <1>6 DEF IInv, TypeOK
<1>9. \A r \in Questions \ {q} : run'[r] = run[r]
  BY <1>4 DEF IInv, TypeOK
<1>10. /\ run[q].pc = "waiting"
       /\ run'[q].pc = "interrupting"
       /\ run'[q].allowed = run[q].allowed
       /\ run'[q].schema = run[q].schema
       /\ run'[q].sql = run[q].sql
       /\ run'[q].answer = run[q].answer
       /\ run'[q].result = run[q].result
       /\ run'[q].worker = run[q].worker
  BY <1>1, <1>4 DEF TimesOut, Goto, Local, IInv, TypeOK
<1> HIDE DEF R
<1>11. Holding'
  BY <1>5, <1>9, <1>10 DEF IInv, Holding, Waits
<1>12. Prompted'
  BY <1>5, <1>9, <1>10 DEF IInv, Prompted, Holding, Waits, TypeOK
<1>13. \A r \in Questions : TurnsOf(r)' = TurnsOf(r)
  BY <1>5 DEF TurnsOf
<1>14. Recording'
  BY <1>5, <1>9, <1>10, <1>13 DEF IInv, Recording, RecordedOnce, Holding, Waits
<1> QED  BY <1>8, <1>11, <1>12, <1>14 DEF IInv

\* The interrupt goes to the own worker.
LEMMA InterruptIInv ==
    ASSUME IInv, NEW q \in Questions, Interrupt(q)
    PROVE  IInv'
<1> DEFINE R == [run[q] EXCEPT !.pc = "joining"]
<1>1. run[q] \in Local
  BY DEF IInv, TypeOK
<1>3. R \in Local
  BY <1>1 DEF Local, PCs, IInv, TypeOK
<1>4. run' = [run EXCEPT ![q] = R]
  BY DEF Interrupt, Goto, IInv, TypeOK
<1>5. tables' = tables /\ lock' = lock /\ turns' = turns
  BY DEF Interrupt, Goto, session
<1>6. open' \in BOOLEAN /\ interrupted' \in BOOLEAN /\ uploads' \in Nat
      /\ loop' \in {Uploader, None} /\ clock' \in Nat
  BY DEF Interrupt, Goto, session, IInv, TypeOK
<1>8. TypeOK'
  BY <1>3, <1>4, <1>5, <1>6 DEF IInv, TypeOK
<1>9. \A r \in Questions \ {q} : run'[r] = run[r]
  BY <1>4 DEF IInv, TypeOK
<1>10. /\ run[q].pc = "interrupting"
       /\ run'[q].pc = "joining"
       /\ run'[q].allowed = run[q].allowed
       /\ run'[q].schema = run[q].schema
       /\ run'[q].sql = run[q].sql
       /\ run'[q].answer = run[q].answer
       /\ run'[q].result = run[q].result
       /\ run'[q].worker = run[q].worker
  BY <1>1, <1>4 DEF Interrupt, Goto, Local, IInv, TypeOK
<1> HIDE DEF R
<1>11. Holding'
  BY <1>5, <1>9, <1>10 DEF IInv, Holding, Waits
<1>12. Prompted'
  BY <1>5, <1>9, <1>10 DEF IInv, Prompted, Holding, Waits, TypeOK
<1>13. \A r \in Questions : TurnsOf(r)' = TurnsOf(r)
  BY <1>5 DEF TurnsOf
<1>14. Recording'
  BY <1>5, <1>9, <1>10, <1>13 DEF IInv, Recording, RecordedOnce, Holding, Waits
<1> QED  BY <1>8, <1>11, <1>12, <1>14 DEF IInv

\* After a timeout too, worker and lock are given up together.
LEMMA JoinIInv ==
    ASSUME IInv, NEW q \in Questions, Join(q)
    PROVE  IInv'
<1> DEFINE R == [run[q] EXCEPT !.pc = "failed", !.worker = "none"]
<1>1. run[q] \in Local
  BY DEF IInv, TypeOK
<1>3. R \in Local
  BY <1>1 DEF Local, PCs, IInv, TypeOK
<1>4. run' = [run EXCEPT ![q] = R]
  BY DEF Join, IInv, TypeOK
<1>5. tables' = tables /\ lock' = None /\ turns' = turns
  BY DEF Join, session
<1>6. open' \in BOOLEAN /\ interrupted' \in BOOLEAN /\ uploads' \in Nat
      /\ loop' \in {Uploader, None} /\ clock' \in Nat
  BY DEF Join, session, IInv, TypeOK
<1>8. TypeOK'
  BY <1>3, <1>4, <1>5, <1>6 DEF IInv, TypeOK
<1>9. \A r \in Questions \ {q} : run'[r] = run[r]
  BY <1>4 DEF IInv, TypeOK
<1>10. /\ run[q].pc = "joining"
       /\ run'[q].pc = "failed"
       /\ run'[q].allowed = run[q].allowed
       /\ run'[q].schema = run[q].schema
       /\ run'[q].sql = run[q].sql
       /\ run'[q].answer = run[q].answer
       /\ run'[q].result = run[q].result
       /\ run'[q].worker = "none"
  BY <1>1, <1>4 DEF Join, Local, IInv, TypeOK
<1> HIDE DEF R
<1>11. Holding'
  BY <1>5, <1>9, <1>10 DEF IInv, Holding, Waits
<1>12. Prompted'
  BY <1>5, <1>9, <1>10 DEF IInv, Prompted, Holding, Waits, TypeOK
<1>13. \A r \in Questions : TurnsOf(r)' = TurnsOf(r)
  BY <1>5 DEF TurnsOf
<1>14. Recording'
  BY <1>5, <1>9, <1>10, <1>13 DEF IInv, Recording, RecordedOnce, Holding, Waits
<1> QED  BY <1>8, <1>11, <1>12, <1>14 DEF IInv

\* The one retry.
LEMMA RetryIInv ==
    ASSUME IInv, NEW q \in Questions, Retry(q)
    PROVE  IInv'
<1> DEFINE R == [run[q] EXCEPT !.pc = "generate", !.attempt = 1]
<1>1. run[q] \in Local
  BY DEF IInv, TypeOK
<1>3. R \in Local
  BY <1>1 DEF Local, PCs, IInv, TypeOK
<1>4. run' = [run EXCEPT ![q] = R]
  BY DEF Retry, IInv, TypeOK
<1>5. tables' = tables /\ lock' = lock /\ turns' = turns
  BY DEF Retry, session
<1>6. open' \in BOOLEAN /\ interrupted' \in BOOLEAN /\ uploads' \in Nat
      /\ loop' \in {Uploader, None} /\ clock' \in Nat
  BY DEF Retry, session, IInv, TypeOK
<1>8. TypeOK'
  BY <1>3, <1>4, <1>5, <1>6 DEF IInv, TypeOK
<1>9. \A r \in Questions \ {q} : run'[r] = run[r]
  BY <1>4 DEF IInv, TypeOK
<1>10. /\ run[q].pc = "failed"
       /\ run'[q].pc = "generate"
       /\ run'[q].allowed = run[q].allowed
       /\ run'[q].schema = run[q].schema
       /\ run'[q].sql = run[q].sql
       /\ run'[q].answer = run[q].answer
       /\ run'[q].result = run[q].result
       /\ run'[q].worker = run[q].worker
  BY <1>1, <1>4 DEF Retry, Local, IInv, TypeOK
<1> HIDE DEF R
<1>11. Holding'
  BY <1>5, <1>9, <1>10 DEF IInv, Holding, Waits
<1>12. Prompted'
  BY <1>5, <1>9, <1>10 DEF IInv, Prompted, Holding, Waits, TypeOK
<1>13. \A r \in Questions : TurnsOf(r)' = TurnsOf(r)
  BY <1>5 DEF TurnsOf
<1>14. Recording'
  BY <1>5, <1>9, <1>10, <1>13 DEF IInv, Recording, RecordedOnce, Holding, Waits
<1> QED  BY <1>8, <1>11, <1>12, <1>14 DEF IInv

\* The second failure is a result.
LEMMA GiveUpIInv ==
    ASSUME IInv, NEW q \in Questions, GiveUp(q)
    PROVE  IInv'
<1> DEFINE R == [run[q] EXCEPT !.pc = "finish",
                 !.result = [question |-> q, outcome |-> "error", createdAt |-> clock]]
<1>1. run[q] \in Local
  BY DEF IInv, TypeOK
<1>2. [question |-> q, outcome |-> "error", createdAt |-> clock] \in Turn /\ clock + 1 \in Nat
  BY DEF Turn, IInv, TypeOK
<1>3. R \in Local
  BY <1>1, <1>2 DEF Local, PCs, IInv, TypeOK
<1>4. run' = [run EXCEPT ![q] = R]
  BY DEF GiveUp, MakeResult, IInv, TypeOK
<1>5. tables' = tables /\ lock' = lock /\ turns' = turns
  BY DEF GiveUp, MakeResult, session
<1>6. open' \in BOOLEAN /\ interrupted' \in BOOLEAN /\ uploads' \in Nat
      /\ loop' \in {Uploader, None} /\ clock' \in Nat
  BY <1>2 DEF GiveUp, MakeResult, session, IInv, TypeOK
<1>8. TypeOK'
  BY <1>3, <1>4, <1>5, <1>6 DEF IInv, TypeOK
<1>9. \A r \in Questions \ {q} : run'[r] = run[r]
  BY <1>4 DEF IInv, TypeOK
<1>10. /\ run[q].pc = "failed"
       /\ run'[q].pc = "finish"
       /\ run'[q].allowed = run[q].allowed
       /\ run'[q].schema = run[q].schema
       /\ run'[q].sql = run[q].sql
       /\ run'[q].answer = run[q].answer
       /\ run'[q].result = [question |-> q, outcome |-> "error", createdAt |-> clock]
       /\ run'[q].worker = run[q].worker
  BY <1>1, <1>4 DEF GiveUp, MakeResult, Local, IInv, TypeOK
<1> HIDE DEF R
<1>11. Holding'
  BY <1>5, <1>9, <1>10 DEF IInv, Holding, Waits
<1>12. Prompted'
  BY <1>5, <1>9, <1>10 DEF IInv, Prompted, Holding, Waits, TypeOK
<1>13. \A r \in Questions : TurnsOf(r)' = TurnsOf(r)
  BY <1>5 DEF TurnsOf
<1>14. Recording'
  BY <1>5, <1>9, <1>10, <1>13, <1>2 DEF IInv, Recording, RecordedOnce, Holding, Waits
<1> QED  BY <1>8, <1>11, <1>12, <1>14 DEF IInv

\* Rows are a result.
LEMMA SummarizeIInv ==
    ASSUME IInv, NEW q \in Questions, Summarize(q)
    PROVE  IInv'
<1> DEFINE R == [run[q] EXCEPT !.pc = "finish",
                 !.result = [question |-> q, outcome |-> "answered", createdAt |-> clock]]
<1>1. run[q] \in Local
  BY DEF IInv, TypeOK
<1>2. [question |-> q, outcome |-> "answered", createdAt |-> clock] \in Turn /\ clock + 1 \in Nat
  BY DEF Turn, IInv, TypeOK
<1>3. R \in Local
  BY <1>1, <1>2 DEF Local, PCs, IInv, TypeOK
<1>4. run' = [run EXCEPT ![q] = R]
  BY DEF Summarize, MakeResult, IInv, TypeOK
<1>5. tables' = tables /\ lock' = lock /\ turns' = turns
  BY DEF Summarize, MakeResult, session
<1>6. open' \in BOOLEAN /\ interrupted' \in BOOLEAN /\ uploads' \in Nat
      /\ loop' \in {Uploader, None} /\ clock' \in Nat
  BY <1>2 DEF Summarize, MakeResult, session, IInv, TypeOK
<1>8. TypeOK'
  BY <1>3, <1>4, <1>5, <1>6 DEF IInv, TypeOK
<1>9. \A r \in Questions \ {q} : run'[r] = run[r]
  BY <1>4 DEF IInv, TypeOK
<1>10. /\ run[q].pc = "summarize"
       /\ run'[q].pc = "finish"
       /\ run'[q].allowed = run[q].allowed
       /\ run'[q].schema = run[q].schema
       /\ run'[q].sql = run[q].sql
       /\ run'[q].answer = run[q].answer
       /\ run'[q].result = [question |-> q, outcome |-> "answered", createdAt |-> clock]
       /\ run'[q].worker = run[q].worker
  BY <1>1, <1>4 DEF Summarize, MakeResult, Local, IInv, TypeOK
<1> HIDE DEF R
<1>11. Holding'
  BY <1>5, <1>9, <1>10 DEF IInv, Holding, Waits
<1>12. Prompted'
  BY <1>5, <1>9, <1>10 DEF IInv, Prompted, Holding, Waits, TypeOK
<1>13. \A r \in Questions : TurnsOf(r)' = TurnsOf(r)
  BY <1>5 DEF TurnsOf
<1>14. Recording'
  BY <1>5, <1>9, <1>10, <1>13, <1>2 DEF IInv, Recording, RecordedOnce, Holding, Waits
<1> QED  BY <1>8, <1>11, <1>12, <1>14 DEF IInv

\* A summary that fails otherwise is none.
LEMMA SummaryRaisesIInv ==
    ASSUME IInv, NEW q \in Questions, SummaryRaises(q)
    PROVE  IInv'
<1> DEFINE R == [run[q] EXCEPT !.pc = "done", !.answer = "500"]
<1>1. run[q] \in Local
  BY DEF IInv, TypeOK
<1>3. R \in Local
  BY <1>1 DEF Local, PCs, IInv, TypeOK
<1>4. run' = [run EXCEPT ![q] = R]
  BY DEF SummaryRaises, Raise, IInv, TypeOK
<1>5. tables' = tables /\ lock' = lock /\ turns' = turns
  BY DEF SummaryRaises, Raise, session
<1>6. open' \in BOOLEAN /\ interrupted' \in BOOLEAN /\ uploads' \in Nat
      /\ loop' \in {Uploader, None} /\ clock' \in Nat
  BY DEF SummaryRaises, Raise, session, IInv, TypeOK
<1>8. TypeOK'
  BY <1>3, <1>4, <1>5, <1>6 DEF IInv, TypeOK
<1>9. \A r \in Questions \ {q} : run'[r] = run[r]
  BY <1>4 DEF IInv, TypeOK
<1>10. /\ run[q].pc = "summarize"
       /\ run'[q].pc = "done"
       /\ run'[q].allowed = run[q].allowed
       /\ run'[q].schema = run[q].schema
       /\ run'[q].sql = run[q].sql
       /\ run'[q].answer = "500"
       /\ run'[q].result = run[q].result
       /\ run'[q].worker = run[q].worker
  BY <1>1, <1>4 DEF SummaryRaises, Raise, Local, IInv, TypeOK
<1> HIDE DEF R
<1>11. Holding'
  BY <1>5, <1>9, <1>10 DEF IInv, Holding, Waits
<1>12. Prompted'
  BY <1>5, <1>9, <1>10 DEF IInv, Prompted, Holding, Waits, TypeOK
<1>13. \A r \in Questions : TurnsOf(r)' = TurnsOf(r)
  BY <1>5 DEF TurnsOf
<1>14. Recording'
  BY <1>5, <1>9, <1>10, <1>13 DEF IInv, Recording, RecordedOnce, Holding, Waits
<1> QED  BY <1>8, <1>11, <1>12, <1>14 DEF IInv

\* The turn and the answer, in one step.
LEMMA FinishIInv ==
    ASSUME IInv, NEW q \in Questions, Finish(q)
    PROVE  IInv'
<1> DEFINE R == [run[q] EXCEPT !.pc = "done", !.answer = "result"]
<1>1. run[q] \in Local
  BY DEF IInv, TypeOK
<1>3. R \in Local
  BY <1>1 DEF Local, PCs, IInv, TypeOK
<1>4. run' = [run EXCEPT ![q] = R]
  BY DEF Finish, IInv, TypeOK
<1>5. tables' = tables /\ lock' = lock /\ turns' = Append(turns, run[q].result)
  BY DEF Finish, session
<1>6. open' \in BOOLEAN /\ interrupted' \in BOOLEAN /\ uploads' \in Nat
      /\ loop' \in {Uploader, None} /\ clock' \in Nat
  BY DEF Finish, session, IInv, TypeOK
<1>7. run[q].pc = "finish" /\ run[q].result \in Turn /\ run[q].result.question = q
  BY DEF Finish, IInv, Recording
<1>8. TypeOK'
  BY <1>3, <1>4, <1>5, <1>6, <1>7, AppendProperties DEF IInv, TypeOK
<1>9. \A r \in Questions \ {q} : run'[r] = run[r]
  BY <1>4 DEF IInv, TypeOK
<1>10. /\ run[q].pc = "finish"
       /\ run'[q].pc = "done"
       /\ run'[q].allowed = run[q].allowed
       /\ run'[q].schema = run[q].schema
       /\ run'[q].sql = run[q].sql
       /\ run'[q].answer = "result"
       /\ run'[q].result = run[q].result
       /\ run'[q].worker = run[q].worker
  BY <1>1, <1>4 DEF Finish, Local, IInv, TypeOK
<1> HIDE DEF R
<1>11. Holding'
  BY <1>5, <1>9, <1>10 DEF IInv, Holding, Waits
<1>12. Prompted'
  BY <1>5, <1>9, <1>10 DEF IInv, Prompted, Holding, Waits, TypeOK
<1>13. TurnsOf(q) = {} /\ turns \in Seq(Turn)
  BY <1>7 DEF IInv, TypeOK, Recording, RecordedOnce
<1>14. /\ Len(turns') = Len(turns) + 1
       /\ turns'[Len(turns) + 1] = run[q].result
       /\ \A i \in 1 .. Len(turns) : turns'[i] = turns[i]
       /\ Len(turns) \in Nat
  BY <1>5, <1>7, <1>13, AppendProperties, LenProperties
<1>15. TurnsOf(q)' = {Len(turns) + 1}
  BY <1>7, <1>13, <1>14 DEF TurnsOf
<1>16. \A r \in Questions \ {q} : TurnsOf(r)' = TurnsOf(r)
  BY <1>7, <1>14 DEF TurnsOf
<1>17. RecordedOnce'
  <2>1. run'[q].answer = "result" /\ turns'[Len(turns) + 1] = run'[q].result
    BY <1>10, <1>14
  <2>2. ASSUME NEW r \in Questions \ {q}
        PROVE  /\ run'[r].answer = "result" =>
                     \E i \in TurnsOf(r)' : TurnsOf(r)' = {i} /\ turns'[i] = run'[r].result
               /\ run'[r].answer # "result" => TurnsOf(r)' = {}
    BY <1>9, <1>14, <1>16 DEF IInv, Recording, RecordedOnce, TurnsOf
  <2> QED  BY <1>15, <2>1, <2>2 DEF RecordedOnce
<1>18. Recording'
  BY <1>9, <1>10, <1>17 DEF IInv, Recording
<1> QED  BY <1>8, <1>11, <1>12, <1>18 DEF IInv

\* An upload takes and leaves the lock and adds tables; the end of the session
\* closes the connection; nothing else changes.
LEMMA OtherIInv ==
    ASSUME IInv,
           \/ ArriveUpload \/ StartUpload \/ EndUpload \/ \E name \in Tables : LoadTable(name)
           \/ CloseConn \/ UNCHANGED vars
    PROVE  IInv'
<1>0. TypeOK
  BY DEF IInv
<1>1. /\ run' = run /\ turns' = turns
      /\ tables \subseteq tables' /\ tables' \subseteq Tables
      /\ \/ lock' = lock
         \/ lock = None /\ lock' = Uploader
         \/ lock = Uploader /\ lock' = None
      /\ open' \in BOOLEAN /\ interrupted' \in BOOLEAN /\ uploads' \in Nat
      /\ loop' \in {Uploader, None} /\ clock' = clock
  <2>1. CASE ArriveUpload \/ StartUpload
    BY <1>0, <2>1 DEF ArriveUpload, StartUpload, TypeOK
  <2>2. CASE EndUpload
    BY <1>0, <2>2 DEF EndUpload, TypeOK
  <2>3. CASE \E name \in Tables : LoadTable(name)
    BY <1>0, <2>3 DEF LoadTable, TypeOK
  <2>4. CASE CloseConn \/ UNCHANGED vars
    BY <1>0, <2>4 DEF CloseConn, vars, TypeOK
  <2> QED  BY <2>1, <2>2, <2>3, <2>4
<1>2. TypeOK'
  BY <1>1 DEF IInv, TypeOK
<1>3. Holding'
  BY <1>1 DEF IInv, Holding, TypeOK
<1>4. Prompted'
  BY <1>1 DEF IInv, Prompted
<1>5. \A r \in Questions : TurnsOf(r)' = TurnsOf(r)
  BY <1>1 DEF TurnsOf
<1>6. Recording'
  BY <1>1, <1>5 DEF IInv, Recording, RecordedOnce
<1> QED  BY <1>2, <1>3, <1>4, <1>6 DEF IInv

\* Every step preserves the inductive invariant.
LEMMA NextIInv == IInv /\ [Next]_vars => IInv'
<1> SUFFICES ASSUME IInv, [Next]_vars
             PROVE  IInv'
  OBVIOUS
<1>1. CASE \/ ArriveUpload \/ StartUpload \/ EndUpload \/ \E name \in Tables : LoadTable(name)
           \/ CloseConn \/ UNCHANGED vars
  BY <1>1, OtherIInv
<1>2. ASSUME NEW q \in Questions, Thread(q) PROVE IInv'
  <2>1. CASE Dispatch(q) \/ Begin(q) \/ LockSchema(q) \/ Describe(q) \/ Recall(q)
    BY <2>1, DispatchIInv, BeginIInv, LockSchemaIInv, DescribeIInv, RecallIInv
  <2>2. CASE \/ \E sql \in Sqls : ModelAnswers(q, sql)
             \/ ModelDeclines(q) \/ ModelUnavailable(q) \/ ModelMalformed(q)
    BY <2>2, ModelAnswersIInv, ModelDeclinesIInv, ModelUnavailableIInv, ModelMalformedIInv
  <2>3. CASE \/ Validate(q) \/ LockConn(q) \/ Collect(q)
             \/ TimesOut(q) \/ Interrupt(q) \/ Join(q)
    BY <2>3, ValidateIInv, LockConnIInv, CollectIInv, TimesOutIInv, InterruptIInv, JoinIInv
  <2>4. CASE Retry(q) \/ GiveUp(q) \/ Summarize(q) \/ SummaryRaises(q) \/ Finish(q)
    BY <2>4, RetryIInv, GiveUpIInv, SummarizeIInv, SummaryRaisesIInv, FinishIInv
  <2> QED  BY <1>2, <2>1, <2>2, <2>3, <2>4 DEF Thread
<1>3. ASSUME NEW q \in Questions, Worker(q) PROVE IInv'
  BY <1>3, WorkerStartsIInv, WorkerEndsIInv DEF Worker
<1> QED  BY <1>1, <1>2, <1>3 DEF Next, Computes, Stopped

\* The inductive invariant holds in every reachable state.
LEMMA Invariance == Spec => []IInv
BY InitIInv, NextIInv, PTL DEF Spec

-----------------------------------------------------------------------------
(* The history a question is answered with.                                *)

\* The turns of a prompt are the last ones of the b on record when it was made.
BeforeRecall == {"new", "arrived", "schema", "describing", "recall"}
Skipped(b) == IF b < HistoryTurns THEN 0 ELSE b - HistoryTurns
Remembers(q, b) ==
    /\ Len(run[q].history) = b - Skipped(b)
    /\ \A i \in 1 .. b - Skipped(b) : run[q].history[i] = turns[Skipped(b) + i]
    /\ \A r \in run[q].before : \E i \in 1 .. b : turns[i].question = r
Remembering ==
    /\ \A q \in Questions : run[q].before \subseteq Recorded
    /\ \A q \in Questions :
          run[q].pc \notin BeforeRecall /\ run[q].answer # "500" =>
              \E b \in 0 .. Len(turns) : Remembers(q, b)

\* A step that touches no history and reads none.
LEMMA QuietRemembering ==
    ASSUME Remembering, turns' = turns,
           \A q \in Questions :
              /\ run'[q].history = run[q].history /\ run'[q].before = run[q].before
              /\ run'[q].pc \notin BeforeRecall /\ run'[q].answer # "500" =>
                    run[q].pc \notin BeforeRecall /\ run[q].answer # "500"
    PROVE  Remembering'
BY DEF Remembering, Remembers, Recorded

\* A turn is appended.
LEMMA FinishRemembering ==
    ASSUME IInv, Remembering, NEW q \in Questions, Finish(q)
    PROVE  Remembering'
<1>1. /\ turns' = Append(turns, run[q].result) /\ turns \in Seq(Turn)
      /\ run[q].result \in Turn /\ run[q].pc = "finish" /\ run[q].answer = "none"
  BY DEF Finish, IInv, Recording, TypeOK
<1>2. /\ Len(turns) \in Nat /\ Len(turns') = Len(turns) + 1
      /\ \A i \in 1 .. Len(turns) : turns'[i] = turns[i]
  BY <1>1, AppendProperties, LenProperties
<1>3. \A r \in Questions :
        /\ run'[r].history = run[r].history /\ run'[r].before = run[r].before
        /\ run'[r].pc \notin BeforeRecall /\ run'[r].answer # "500" =>
              run[r].pc \notin BeforeRecall /\ run[r].answer # "500"
  BY <1>1 DEF Finish, IInv, TypeOK, Local, BeforeRecall
<1>4. Recorded \subseteq Recorded'
  BY <1>2 DEF Recorded
<1>5. ASSUME NEW r \in Questions, NEW b \in 0 .. Len(turns), Remembers(r, b)
      PROVE  b \in 0 .. Len(turns') /\ Remembers(r, b)'
  <2>1. \A i \in 1 .. b - Skipped(b) : Skipped(b) + i \in 1 .. Len(turns)
    BY <1>2 DEF Skipped
  <2>2. \A i \in 1 .. b : i \in 1 .. Len(turns)
    BY <1>2
  <2>3. run'[r].history = run[r].history /\ run'[r].before = run[r].before
    BY <1>3
  <2>4. \A i \in 1 .. b - Skipped(b) : run'[r].history[i] = turns'[Skipped(b) + i]
    BY <1>2, <1>5, <2>1, <2>3 DEF Remembers
  <2>5. \A x \in run'[r].before : \E i \in 1 .. b : turns'[i].question = x
    BY <1>2, <1>5, <2>2, <2>3 DEF Remembers
  <2>6. Len(run'[r].history) = b - Skipped(b)
    BY <1>5, <2>3 DEF Remembers
  <2> QED
    BY <1>2, <2>4, <2>5, <2>6 DEF Remembers, Skipped
<1> QED
  BY <1>3, <1>4, <1>5 DEF Remembering

\* The history is read.
LEMMA RecallRemembering ==
    ASSUME IInv, Remembering, NEW q \in Questions, Recall(q)
    PROVE  Remembering'
<1>1. /\ run[q] \in Local /\ turns' = turns /\ turns \in Seq(Turn) /\ Len(turns) \in Nat
      /\ \A r \in Questions : run'[r].before = run[r].before
      /\ \A r \in Questions \ {q} : run'[r] = run[r]
  BY LenProperties DEF Recall, session, IInv, TypeOK, Local
<1>2. run'[q].history = RecentTurns(turns, HistoryTurns)
  BY <1>1 DEF Recall, IInv, TypeOK, Local
<1> DEFINE b == Len(turns)
           a == Skipped(b)
<1>3. a \in 0 .. b /\ RecentTurns(turns, HistoryTurns) = SubSeq(turns, a + 1, b)
  BY <1>1 DEF RecentTurns, Skipped
<1>4. /\ Len(SubSeq(turns, a + 1, b)) = b - a
      /\ \A i \in 1 .. b - a : SubSeq(turns, a + 1, b)[i] = turns[a + i]
  <2>1. a + 1 \in 1 .. b + 1
    BY <1>1, <1>3
  <2> HIDE DEF a
  <2>2. /\ Len(SubSeq(turns, a + 1, b)) = IF a + 1 <= b THEN b - (a + 1) + 1 ELSE 0
        /\ \A i \in 1 .. b - (a + 1) + 1 : SubSeq(turns, a + 1, b)[i] = turns[(a + 1) + i - 1]
    BY <1>1, <2>1, SubSeqProperties
  <2> QED
    BY <1>1, <1>3, <2>2
<1>5. \A r \in run'[q].before : \E i \in 1 .. b : turns'[i].question = r
  BY <1>1 DEF Remembering, Recorded
<1>6. Remembers(q, b)'
  <2> HIDE DEF a
  <2>1. /\ Len(run'[q].history) = b - a
        /\ \A i \in 1 .. b - a : run'[q].history[i] = turns'[a + i]
    BY <1>1, <1>2, <1>3, <1>4
  <2> QED
    BY <1>1, <1>5, <2>1 DEF Remembers, Skipped, a
<1>7. ASSUME NEW r \in Questions \ {q}, NEW c \in 0 .. Len(turns), Remembers(r, c)
      PROVE  Remembers(r, c)'
  BY <1>1, <1>7 DEF Remembers, Skipped
<1>8. \A r \in Questions : run'[r].before \subseteq Recorded'
  BY <1>1 DEF Remembering, Recorded
<1> QED
  BY <1>1, <1>6, <1>7, <1>8 DEF Remembering

\* The steps of a question that leave its history and every other question alone.
QuietThread(q) ==
    \/ Dispatch(q) \/ LockSchema(q) \/ Describe(q)
    \/ \E sql \in Sqls : ModelAnswers(q, sql)
    \/ ModelDeclines(q) \/ ModelUnavailable(q) \/ ModelMalformed(q)
    \/ Validate(q) \/ LockConn(q) \/ Collect(q)
    \/ TimesOut(q) \/ Interrupt(q) \/ Join(q)
    \/ Retry(q) \/ GiveUp(q) \/ Summarize(q) \/ SummaryRaises(q)
    \/ WorkerStarts(q) \/ WorkerEnds(q)
Undisturbed(q) ==
    /\ turns' = turns
    /\ \A r \in Questions \ {q} : run'[r] = run[r]
    /\ run'[q].history = run[q].history
    /\ run'[q].before = run[q].before
    /\ run'[q].pc \notin BeforeRecall /\ run'[q].answer # "500" =>
          run[q].pc \notin BeforeRecall /\ run[q].answer # "500"

LEMMA NextRemembering == IInv /\ Remembering /\ [Next]_vars => Remembering'
<1> SUFFICES ASSUME IInv, Remembering, [Next]_vars PROVE Remembering'
  OBVIOUS
<1>1. run \in [Questions -> Local]
  BY DEF IInv, TypeOK
<1>2. \A q \in Questions : run[q].answer = "none" <=> run[q].pc # "done"
  BY DEF IInv, Recording
<1>3. CASE run' = run /\ turns' = turns
  BY <1>3, QuietRemembering
<1>4. ASSUME NEW q \in Questions, Begin(q) PROVE Remembering'
  <2>1. /\ run'[q].pc = "schema" /\ run'[q].before = Recorded /\ turns' = turns
        /\ \A r \in Questions \ {q} : run'[r] = run[r]
    BY <1>1, <1>4 DEF Begin, session, Local
  <2> QED
    BY <2>1 DEF Remembering, Remembers, Recorded, BeforeRecall
<1>5. ASSUME NEW q \in Questions, QuietThread(q) PROVE Remembering'
  <2>1. run[q].answer = "500" => run[q].pc = "done"
    BY <1>2, <1>5
  <2>2. Undisturbed(q)
    <3>0. CASE Dispatch(q)
      BY <1>1, <2>1, <3>0 DEF Dispatch, Goto, session, Undisturbed, Local, BeforeRecall
    <3>1. CASE LockSchema(q)
      BY <1>1, <2>1, <3>1 DEF LockSchema, Goto, Undisturbed, Local, BeforeRecall
    <3>2. CASE Describe(q)
      BY <1>1, <2>1, <3>2 DEF Describe, Goto, Raise, Undisturbed, Local, BeforeRecall
    <3>3. CASE \E sql \in Sqls : ModelAnswers(q, sql)
      BY <1>1, <2>1, <3>3 DEF ModelAnswers, session, Undisturbed, Local, BeforeRecall
    <3>4. CASE ModelDeclines(q)
      BY <1>1, <2>1, <3>4 DEF ModelDeclines, MakeResult, Undisturbed, Local, BeforeRecall
    <3>5. CASE ModelUnavailable(q)
      BY <1>1, <2>1, <3>5 DEF ModelUnavailable, Raise, session, Undisturbed, Local, BeforeRecall
    <3>6. CASE ModelMalformed(q)
      BY <1>1, <2>1, <3>6 DEF ModelMalformed, session, Undisturbed, Local, BeforeRecall
    <3>7. CASE Validate(q)
      BY <1>1, <2>1, <3>7 DEF Validate, Goto, session, Undisturbed, Local, BeforeRecall
    <3>8. CASE LockConn(q)
      BY <1>1, <2>1, <3>8 DEF LockConn, Undisturbed, Local, BeforeRecall
    <3>9. CASE Collect(q)
      BY <1>1, <2>1, <3>9 DEF Collect, Undisturbed, Local, BeforeRecall
    <3>10. CASE TimesOut(q)
      BY <1>1, <2>1, <3>10 DEF TimesOut, Goto, session, Undisturbed, Local, BeforeRecall
    <3>11. CASE Interrupt(q)
      BY <1>1, <2>1, <3>11 DEF Interrupt, Goto, Undisturbed, Local, BeforeRecall
    <3>12. CASE Join(q)
      BY <1>1, <2>1, <3>12 DEF Join, Undisturbed, Local, BeforeRecall
    <3>13. CASE Retry(q)
      BY <1>1, <2>1, <3>13 DEF Retry, session, Undisturbed, Local, BeforeRecall
    <3>14. CASE GiveUp(q)
      BY <1>1, <2>1, <3>14 DEF GiveUp, MakeResult, Undisturbed, Local, BeforeRecall
    <3>15. CASE Summarize(q)
      BY <1>1, <2>1, <3>15 DEF Summarize, MakeResult, Undisturbed, Local, BeforeRecall
    <3>18. CASE SummaryRaises(q)
      BY <1>1, <2>1, <3>18 DEF SummaryRaises, Raise, session, Undisturbed, Local, BeforeRecall
    <3>16. CASE WorkerStarts(q)
      BY <1>1, <2>1, <3>16 DEF WorkerStarts, Undisturbed, Local, BeforeRecall
    <3>17. CASE WorkerEnds(q)
      BY <1>1, <2>1, <3>17 DEF WorkerEnds, session, Undisturbed, Local, BeforeRecall
    <3> QED
      BY <1>5, <3>0, <3>1, <3>2, <3>3, <3>4, <3>5, <3>6, <3>7, <3>8, <3>9, <3>10, <3>11, <3>12, <3>13, <3>14, <3>15, <3>16, <3>17, <3>18 DEF QuietThread
  <2>3. \A r \in Questions : /\ run'[r].history = run[r].history
                               /\ run'[r].before = run[r].before
                               /\ run'[r].pc \notin BeforeRecall /\ run'[r].answer # "500" =>
                                    run[r].pc \notin BeforeRecall /\ run[r].answer # "500"
    BY <2>2 DEF Undisturbed
  <2> QED
    BY <2>2, <2>3, QuietRemembering DEF Undisturbed
<1>10. CASE \/ ArriveUpload \/ StartUpload \/ EndUpload \/ \E name \in Tables : LoadTable(name)
            \/ CloseConn \/ UNCHANGED vars
  BY <1>3, <1>10 DEF ArriveUpload, StartUpload, EndUpload, LoadTable, CloseConn, vars
<1> QED
  BY <1>3, <1>4, <1>5, <1>10, FinishRemembering, RecallRemembering
     DEF Next, Thread, Worker, QuietThread, Computes, Stopped, vars

-----------------------------------------------------------------------------
(* The theorems.                                                           *)

\* Every variable keeps its type.
THEOREM TypeCorrect == Spec => []TypeOK
<1>1. IInv => TypeOK
  BY DEF IInv
<1> QED  BY <1>1, Invariance, PTL

\* The connection is used by one thread at a time, timeouts, workers left behind
\* and uploads included.
THEOREM ConnectionExclusive == Spec => []ConnExclusive
<1>1. IInv => ConnExclusive
  <2> SUFFICES ASSUME IInv, NEW u \in Users, NEW v \in Users PROVE u = v
    BY DEF ConnExclusive
  <2>1. lock = u /\ lock = v
    BY DEF Users, IInv, Holding, Waits
  <2> QED  BY <2>1
<1> QED  BY <1>1, Invariance, PTL

\* A timeout never interrupts another question's query.
THEOREM InterruptsContained == Spec => []InterruptsOwn
<1>1. IInv => InterruptsOwn
  BY DEF InterruptsOwn, IInv, Holding, Waits
<1> QED  BY <1>1, Invariance, PTL

\* DuckDB runs only SELECTs, and a table of the session that one reads is loaded and
\* was shown to the model, unless a CTE of the statement bears its name: whatever the
\* model writes and whatever an upload does meanwhile.
THEOREM OnlyKnownTablesRead == Spec => []OnlyKnownTables
<1>1. IInv => OnlyKnownTables
  <2> SUFFICES ASSUME IInv, NEW q \in Questions, run[q].worker # "none"
               PROVE  /\ run[q].sql.select
                      /\ \A r \in run[q].sql.refs :
                            r.name \in (tables \cap run[q].schema) \cup run[q].sql.ctes
    BY DEF OnlyKnownTables
  <2>1. run[q].pc \in Waits
    BY DEF IInv, Holding
  <2>2. \A r \in run[q].sql.refs : r.name \in Counted(run[q].sql) \cup run[q].sql.ctes
    BY DEF Counted
  <2>3. run[q].sql.select /\ Counted(run[q].sql) \subseteq run[q].allowed
    BY <2>1 DEF IInv, Prompted
  <2>4. run[q].allowed \subseteq tables /\ run[q].allowed \subseteq run[q].schema
    BY <2>1 DEF IInv, Prompted, Waits
  <2> QED  BY <2>2, <2>3, <2>4
<1> QED  BY <1>1, Invariance, PTL

\* The conversation holds each answered question once and no other.
THEOREM AnswersRecordedOnce == Spec => []RecordedOnce
<1>1. IInv => RecordedOnce
  BY DEF IInv, Recording
<1> QED  BY <1>1, Invariance, PTL

\* A follow-up is prompted with every turn on record when it came, or with
\* history_turns_context later ones, whatever is recorded meanwhile.
THEOREM FollowUpsRemember == Spec => []FollowUpsSeeAnswers
<1>1. Init => Remembering
  BY DEF Init, Remembering, BeforeRecall
<1>2. IInv /\ Remembering => FollowUpsSeeAnswers
  <2> SUFFICES ASSUME IInv, Remembering, NEW q \in Questions, NEW r \in run[q].before,
                      run[q].pc \notin BeforeRecall, run[q].answer # "500", ~InHistory(q, r)
               PROVE  /\ Len(run[q].history) = HistoryTurns
                      /\ \A i \in TurnsOf(r) : \A j \in 1 .. Len(turns) :
                            InHistory(q, turns[j].question) => i < j
    BY DEF FollowUpsSeeAnswers, BeforeRecall
  <2>1. turns \in Seq(Turn) /\ Len(turns) \in Nat
    BY LenProperties DEF IInv, TypeOK
  <2>2. \A i, j \in 1 .. Len(turns) : turns[i].question = turns[j].question => i = j
    <3> SUFFICES ASSUME NEW i \in 1 .. Len(turns), NEW j \in 1 .. Len(turns),
                        turns[i].question = turns[j].question
                 PROVE  i = j
      OBVIOUS
    <3> DEFINE x == turns[i].question
    <3>1. x \in Questions
      <4>1. turns[i] \in Turn
        BY <2>1, ElementOfSeq
      <4> QED
        BY <4>1 DEF Turn
    <3>2. i \in TurnsOf(x) /\ j \in TurnsOf(x)
      BY DEF TurnsOf
    <3> QED
      BY <3>1, <3>2 DEF IInv, Recording, RecordedOnce
  <2>3. PICK b \in 0 .. Len(turns) : Remembers(q, b)
    BY DEF Remembering
  <2>4. PICK k \in 1 .. b : turns[k].question = r
    BY <2>3 DEF Remembers
  <2>5. k <= Skipped(b)
    <3>1. ASSUME Skipped(b) < k PROVE FALSE
      <4>1. k - Skipped(b) \in 1 .. Len(run[q].history)
        BY <2>1, <2>3, <2>4, <3>1 DEF Remembers, Skipped
      <4>2. run[q].history[k - Skipped(b)] = turns[Skipped(b) + (k - Skipped(b))]
        BY <2>3, <4>1 DEF Remembers
      <4>3. Skipped(b) + (k - Skipped(b)) = k
        BY <2>1, <2>4 DEF Skipped
      <4> QED
        BY <2>4, <4>1, <4>2, <4>3 DEF InHistory
    <3> QED
      BY <2>1, <2>4, <3>1 DEF Skipped
  <2>6. Len(run[q].history) = HistoryTurns
    BY <2>1, <2>3, <2>4, <2>5 DEF Remembers, Skipped
  <2>7. ASSUME NEW i \in TurnsOf(r), NEW j \in 1 .. Len(turns),
               InHistory(q, turns[j].question)
        PROVE  i < j
    <3>1. i = k
      BY <2>1, <2>2, <2>4, <2>3 DEF TurnsOf
    <3>2. PICK m \in 1 .. Len(run[q].history) :
                run[q].history[m].question = turns[j].question
      BY <2>7 DEF InHistory
    <3>3. /\ m \in 1 .. b - Skipped(b) /\ Skipped(b) + m \in 1 .. Len(turns)
          /\ Skipped(b) < Skipped(b) + m
      BY <2>1, <2>3, <3>2 DEF Remembers, Skipped
    <3>4. run[q].history[m] = turns[Skipped(b) + m]
      BY <2>3, <3>3 DEF Remembers
    <3>5. j = Skipped(b) + m
      BY <2>2, <3>2, <3>3, <3>4
    <3> QED
      BY <2>1, <2>5, <3>1, <3>3, <3>5 DEF Skipped
  <2> QED
    BY <2>6, <2>7
<1> QED
  BY <1>1, <1>2, InitIInv, NextIInv, NextRemembering, PTL DEF Spec

-----------------------------------------------------------------------------
(* The conversation implements ConversationLog.                            *)

\* The answer of a question that has been settled stays, and so does the log.
SettlesNothing == turns' = turns /\ \A q \in Questions : run'[q].answer = run[q].answer
Settles(q, answer) ==
    /\ run[q].answer = "none" /\ run'[q].answer = answer
    /\ \A r \in Questions \ {q} : run'[r].answer = run[r].answer

\* Every step records and settles nothing, or ends a question without a turn, or
\* appends the turn of the question it ends.
LEMMA StepSettles ==
    ASSUME IInv, [Next]_vars
    PROVE  \/ SettlesNothing
           \/ \E q \in Questions : turns' = turns /\ \E a \in {"500", "502"} : Settles(q, a)
           \/ \E q \in Questions : /\ turns' = Append(turns, run[q].result)
                                   /\ run[q].result \in Turn /\ run[q].result.question = q
                                   /\ Settles(q, "result")
<1>1. /\ run \in [Questions -> Local]
      /\ \A q \in Questions : run[q].answer = "none" <=> run[q].pc # "done"
  BY DEF IInv, TypeOK, Recording
<1>2. CASE run' = run /\ turns' = turns
  BY <1>2 DEF SettlesNothing
<1>3. ASSUME NEW q \in Questions,
             \/ Dispatch(q) \/ Begin(q) \/ LockSchema(q) \/ Recall(q)
             \/ \E sql \in Sqls : ModelAnswers(q, sql)
             \/ ModelDeclines(q) \/ Validate(q) \/ LockConn(q) \/ Collect(q)
             \/ TimesOut(q) \/ Interrupt(q) \/ Join(q) \/ Retry(q) \/ GiveUp(q) \/ Summarize(q)
             \/ WorkerStarts(q) \/ WorkerEnds(q)
      PROVE  SettlesNothing
  <2>1. CASE Dispatch(q) \/ Begin(q) \/ LockSchema(q) \/ Recall(q)
    <3>1. CASE Dispatch(q)
      BY <1>1, <3>1 DEF Dispatch, Goto, session, Local, SettlesNothing
    <3>2. CASE Begin(q)
      BY <1>1, <3>2 DEF Begin, Goto, session, Local, SettlesNothing
    <3>3. CASE LockSchema(q)
      BY <1>1, <3>3 DEF LockSchema, Goto, session, Local, SettlesNothing
    <3>4. CASE Recall(q)
      BY <1>1, <3>4 DEF Recall, Goto, session, Local, SettlesNothing
    <3> QED
      BY <2>1, <3>1, <3>2, <3>3, <3>4
  <2>2. CASE \E sql \in Sqls : ModelAnswers(q, sql)
    BY <1>1, <2>2 DEF ModelAnswers, session, Local, SettlesNothing
  <2>3. CASE ModelDeclines(q) \/ GiveUp(q) \/ Summarize(q)
    <3>1. CASE ModelDeclines(q)
      BY <1>1, <3>1 DEF ModelDeclines, MakeResult, Local, SettlesNothing
    <3>2. CASE GiveUp(q)
      BY <1>1, <3>2 DEF GiveUp, MakeResult, Local, SettlesNothing
    <3>3. CASE Summarize(q)
      BY <1>1, <3>3 DEF Summarize, MakeResult, Local, SettlesNothing
    <3> QED
      BY <2>3, <3>1, <3>2, <3>3
  <2>4. CASE Validate(q) \/ LockConn(q) \/ Collect(q)
    <3>1. CASE Validate(q)
      BY <1>1, <3>1 DEF Validate, Goto, session, Local, SettlesNothing
    <3>2. CASE LockConn(q)
      BY <1>1, <3>2 DEF LockConn, Goto, session, Local, SettlesNothing
    <3>3. CASE Collect(q)
      BY <1>1, <3>3 DEF Collect, Goto, session, Local, SettlesNothing
    <3> QED
      BY <2>4, <3>1, <3>2, <3>3
  <2>5. CASE TimesOut(q) \/ Interrupt(q) \/ Join(q) \/ Retry(q)
    <3>1. CASE TimesOut(q)
      BY <1>1, <3>1 DEF TimesOut, Goto, session, Local, SettlesNothing
    <3>2. CASE Interrupt(q)
      BY <1>1, <3>2 DEF Interrupt, Goto, Local, SettlesNothing
    <3>3. CASE Join(q)
      BY <1>1, <3>3 DEF Join, Local, SettlesNothing
    <3>4. CASE Retry(q)
      BY <1>1, <3>4 DEF Retry, session, Local, SettlesNothing
    <3> QED
      BY <2>5, <3>1, <3>2, <3>3, <3>4
  <2>6. CASE WorkerStarts(q) \/ WorkerEnds(q)
    <3>1. CASE WorkerStarts(q)
      <4>1. /\ turns' = turns
            /\ \/ \E b \in BOOLEAN :
                     run' = [run EXCEPT ![q].worker = "running", ![q].runaway = b]
               \/ run' = [run EXCEPT ![q].worker = "error"]
        BY <3>1 DEF WorkerStarts
      <4>2. run'[q].answer = run[q].answer /\ \A r \in Questions \ {q} : run'[r] = run[r]
        BY <1>1, <4>1 DEF Local
      <4> QED
        BY <4>1, <4>2 DEF SettlesNothing
    <3>2. CASE WorkerEnds(q)
      BY <1>1, <3>2 DEF WorkerEnds, session, Local, SettlesNothing
    <3> QED
      BY <2>6, <3>1, <3>2
  <2> QED
    BY <1>3, <2>1, <2>2, <2>3, <2>4, <2>5, <2>6
<1>4. ASSUME NEW q \in Questions, Describe(q)
      PROVE  SettlesNothing \/ (turns' = turns /\ Settles(q, "500"))
  <2>1. run[q].answer = "none" /\ turns' = turns
    BY <1>1, <1>4 DEF Describe
  <2>2. CASE run' = [run EXCEPT ![q].pc = "recall", ![q].schema = tables]
    BY <1>1, <2>1, <2>2 DEF SettlesNothing, Local
  <2>3. CASE Raise(q, "500")
    BY <1>1, <2>1, <2>3 DEF Raise, Settles, Local
  <2> QED
    BY <1>4, <2>2, <2>3 DEF Describe
<1>5. ASSUME NEW q \in Questions, ModelUnavailable(q) \/ ModelMalformed(q) \/ SummaryRaises(q)
      PROVE  turns' = turns /\ \E a \in {"500", "502"} : Settles(q, a)
  <2>1. run[q].answer = "none" /\ turns' = turns
    BY <1>1, <1>5 DEF ModelUnavailable, ModelMalformed, SummaryRaises, session
  <2>4. CASE SummaryRaises(q)
    BY <1>1, <2>1, <2>4 DEF SummaryRaises, Raise, Settles, Local
  <2>2. CASE ModelUnavailable(q)
    BY <1>1, <2>1, <2>2 DEF ModelUnavailable, Raise, Settles, Local
  <2>3. CASE ModelMalformed(q)
    BY <1>1, <2>1, <2>3 DEF ModelMalformed, Settles, Local
  <2> QED
    BY <1>5, <2>1, <2>2, <2>3, <2>4
<1>6. ASSUME NEW q \in Questions, Finish(q)
      PROVE  /\ turns' = Append(turns, run[q].result)
             /\ run[q].result \in Turn /\ run[q].result.question = q
             /\ Settles(q, "result")
  <2>1. run[q].pc = "finish" /\ run[q].answer = "none"
    BY <1>1, <1>6 DEF Finish
  <2>2. run[q].result \in Turn /\ run[q].result.question = q
    BY <2>1 DEF IInv, Recording
  <2> QED
    BY <1>1, <1>6, <2>1, <2>2 DEF Finish, Settles, Local
<1>7. CASE \/ ArriveUpload \/ StartUpload \/ EndUpload \/ \E name \in Tables : LoadTable(name)
           \/ CloseConn \/ UNCHANGED vars
  BY <1>2, <1>7 DEF ArriveUpload, StartUpload, EndUpload, LoadTable, CloseConn, vars
<1>8. CASE Stopped \/ \E q \in Questions : Computes(q)
  BY <1>2, <1>8 DEF Stopped, Computes, vars
<1>9. ASSUME NEW q \in Questions, Thread(q) \/ Worker(q)
      PROVE  \/ SettlesNothing
             \/ turns' = turns /\ \E a \in {"500", "502"} : Settles(q, a)
             \/ /\ turns' = Append(turns, run[q].result)
                /\ run[q].result \in Turn /\ run[q].result.question = q
                /\ Settles(q, "result")
  BY <1>3, <1>4, <1>5, <1>6, <1>9 DEF Thread, Worker
<1> QED
  BY <1>7, <1>8, <1>9 DEF Next

\* What the refinement shows of a turn, of the log, of a question.
Shown(t) == [question |-> t.question, outcome |-> t.outcome]
ShownLog(s) == [i \in 1 .. Len(s) |-> Shown(s[i])]
ShownStatus(q) == CASE run[q].answer = "none"   -> "asked"
                    [] run[q].answer = "result" -> "answered"
                    [] OTHER                    -> "failed"

\* The log a client can tell, with one more turn.
LEMMA ShownAppend ==
    ASSUME NEW s \in Seq(Turn), NEW t \in Turn
    PROVE  ShownLog(Append(s, t)) = Append(ShownLog(s), Shown(t))
<1> DEFINE S == [question: Questions, outcome: {"answered", "error"}]
<1>0. Len(s) \in Nat /\ \A i \in 1 .. Len(s) : s[i] \in Turn
  BY ElementOfSeq, LenProperties
<1>1. Shown(t) \in S /\ Len(s) \in Nat /\ \A i \in 1 .. Len(s) : Shown(s[i]) \in S
  <2>1. \A x \in Turn : Shown(x) \in S
    BY DEF Turn, Shown
  <2> QED
    BY <1>0, <2>1
<1>2. ShownLog(s) \in Seq(S) /\ Len(ShownLog(s)) = Len(s)
  BY <1>1 DEF ShownLog
<1>3. /\ Len(Append(s, t)) = Len(s) + 1
      /\ \A i \in 1 .. Len(s) : Append(s, t)[i] = s[i]
      /\ Append(s, t)[Len(s) + 1] = t
  BY AppendProperties
<1>4. /\ Append(ShownLog(s), Shown(t)) \in Seq(S)
      /\ Len(Append(ShownLog(s), Shown(t))) = Len(s) + 1
      /\ \A i \in 1 .. Len(s) : Append(ShownLog(s), Shown(t))[i] = ShownLog(s)[i]
      /\ Append(ShownLog(s), Shown(t))[Len(s) + 1] = Shown(t)
  BY <1>1, <1>2, AppendProperties
<1>5. \A i \in 1 .. Len(s) + 1 : Shown(Append(s, t)[i]) \in S
  BY <1>1, <1>3
<1>6. ShownLog(Append(s, t)) \in Seq(S) /\ Len(ShownLog(Append(s, t))) = Len(s) + 1
  BY <1>1, <1>3, <1>5 DEF ShownLog
<1>7. ASSUME NEW i \in 1 .. Len(s) + 1
      PROVE  ShownLog(Append(s, t))[i] = Append(ShownLog(s), Shown(t))[i]
  <2>1. ShownLog(Append(s, t))[i] = Shown(Append(s, t)[i])
    BY <1>3 DEF ShownLog
  <2>2. CASE i \in 1 .. Len(s)
    BY <1>3, <1>4, <2>1, <2>2 DEF ShownLog
  <2>3. CASE i = Len(s) + 1
    BY <1>3, <1>4, <2>1, <2>3
  <2> QED
    <3>1. i \in 1 .. Len(s) \/ i = Len(s) + 1
      BY <1>1, <1>7
    <3> QED
      BY <2>2, <2>3, <3>1
<1> QED
  BY <1>4, <1>6, <1>7, SeqEqual

\* QueryEngine implements ConversationLog: seen from outside, the conversation is
\* an append-only log to which run_nl_query adds one turn in the instant in which
\* the question's answer is settled, or none.
THEOREM ConversationIsLog == Spec => LogRefined
<1> USE DEF Shown, ShownLog, ShownStatus
<1>1. Init => Log!Init
  BY DEF Init, Log!Init
<1>2. IInv /\ [Next]_vars => [Log!Next]_(Log!vars)
  <2> SUFFICES ASSUME IInv, [Next]_vars PROVE [Log!Next]_(Log!vars)
    OBVIOUS
  <2> DEFINE log == ShownLog(turns)
             status == [q \in Questions |-> ShownStatus(q)]
  <2>1. CASE SettlesNothing
    <3>1. status' = status /\ log' = log
      BY <2>1 DEF SettlesNothing
    <3> QED
      BY <3>1 DEF Log!vars
  <2>2. ASSUME NEW q \in Questions, turns' = turns, NEW a \in {"500", "502"}, Settles(q, a)
        PROVE  Log!Next
    <3>1. status' = [status EXCEPT ![q] = "failed"] /\ status[q] = "asked" /\ log' = log
      BY <2>2 DEF Settles
    <3>2. Log!Fail(q)
      BY <3>1 DEF Log!Fail
    <3> QED
      BY <3>2 DEF Log!Next
  <2>3. ASSUME NEW q \in Questions, turns' = Append(turns, run[q].result),
               run[q].result \in Turn, run[q].result.question = q, Settles(q, "result")
        PROVE  Log!Next
    <3>1. status' = [status EXCEPT ![q] = "answered"] /\ status[q] = "asked"
      BY <2>3 DEF Settles
    <3>2. run[q].result.outcome \in {"answered", "error"}
      BY <2>3 DEF Turn
    <3>3. log' = Append(log, [question |-> q, outcome |-> run[q].result.outcome])
      BY <2>3, ShownAppend DEF IInv, TypeOK
    <3>4. \E outcome \in {"answered", "error"} : Log!Answer(q, outcome)
      BY <3>1, <3>2, <3>3 DEF Log!Answer
    <3> QED
      BY <3>4 DEF Log!Next
  <2> QED
    BY <2>1, <2>2, <2>3, StepSettles
<1> QED
  BY <1>1, <1>2, Invariance, PTL DEF Spec, LogRefined, Log!Spec

\* The log only grows, turn by turn, and what a question was answered stays.
TurnsOnlyAdded ==
    [][/\ Len(turns') \in {Len(turns), Len(turns) + 1}
       /\ \A k \in 1 .. Len(turns) : turns'[k] = turns[k]
       /\ \A q \in Questions : run[q].answer # "none" => run'[q].answer = run[q].answer]_vars

\* No question, retry or failure takes a turn out of the conversation, changes
\* one, or answers a question a second time.
THEOREM ConversationOnlyGrows == Spec => TurnsOnlyAdded
<1> DEFINE A == /\ Len(turns') \in {Len(turns), Len(turns) + 1}
                /\ \A k \in 1 .. Len(turns) : turns'[k] = turns[k]
                /\ \A q \in Questions : run[q].answer # "none" => run'[q].answer = run[q].answer
<1>1. IInv /\ [Next]_vars => [A]_vars
  <2> SUFFICES ASSUME IInv, [Next]_vars PROVE A
    OBVIOUS
  <2>1. turns \in Seq(Turn)
    BY DEF IInv, TypeOK
  <2>2. CASE turns' = turns
    <3>1. \A q \in Questions : run[q].answer # "none" => run'[q].answer = run[q].answer
      BY StepSettles DEF SettlesNothing, Settles
    <3> QED  BY <2>1, <2>2, <3>1
  <2>3. ASSUME NEW q \in Questions, turns' = Append(turns, run[q].result),
               run[q].result \in Turn, Settles(q, "result")
        PROVE  A
    BY <2>1, <2>3 DEF Settles
  <2> QED  BY <2>2, <2>3, StepSettles DEF SettlesNothing
<1> QED
  BY <1>1, Invariance, PTL DEF Spec, TurnsOnlyAdded

-----------------------------------------------------------------------------
(* What the liveness of the questions rests on, for any number of them: no *)
(* circle of waiting over the lock and the event loop, and a bounded number *)
(* of steps to every answer.                                               *)

\* The guards of Thread(q) and Worker(q).
CanGoOn(q) ==
    \/ run[q].pc \in {"arrived", "describing", "recall", "generate", "validate", "waiting",
                      "interrupting", "failed", "summarize", "finish"}
    \/ run[q].pc = "new" /\ loop = None
    \/ run[q].pc \in {"schema", "execute"} /\ lock = None
    \/ run[q].worker = "queued"
    \/ run[q].worker = "running" /\ (run[q].runaway => interrupted)
    \/ run[q].pc = "joining" /\ run[q].worker \in {"ok", "error"}

\* An upload that holds the lock keeps the loop too, and ends both at once.
LoopOfUploader == lock = Uploader => loop = Uploader

\* Who holds the lock waits neither for the loop nor for the lock.
HolderGoesOn ==
    \/ lock = Uploader /\ loop = Uploader
    \/ \E r \in Questions : lock = r /\ (CanGoOn(r) \/ InterruptLost(r))

\* A question that waits, waits for one who goes on, unless a runaway query has
\* missed its interrupt: for the holder of the lock, or for an upload that keeps
\* the event loop and can take the lock, or waits for it in its turn.
NobodyStuck ==
    \A q \in Questions : run[q].pc # "done" =>
        \/ CanGoOn(q) \/ InterruptLost(q)
        \/ run[q].pc \in {"schema", "execute"} /\ HolderGoesOn
        \/ run[q].pc = "new" /\ loop = Uploader /\ (lock = None \/ HolderGoesOn)

\* The most steps a question and its workers can still take: one attempt at most
\* follows the first.
Undone(q) ==
    CASE run[q].worker = "queued" -> 2
      [] run[q].worker = "running" -> 1
      [] OTHER -> 0
Another(q) == IF run[q].attempt = 0 THEN 9 ELSE 0
Work(q) ==
    CASE run[q].pc = "done" -> 0
      [] run[q].pc = "finish" -> 1
      [] run[q].pc = "summarize" -> 2
      [] run[q].pc = "failed" -> 2 + Another(q)
      [] run[q].pc = "joining" -> 3 + Undone(q) + Another(q)
      [] run[q].pc = "interrupting" -> 4 + Undone(q) + Another(q)
      [] run[q].pc = "waiting" -> 5 + Undone(q) + Another(q)
      [] run[q].pc = "execute" -> 8 + Another(q)
      [] run[q].pc = "validate" -> 9 + Another(q)
      [] run[q].pc = "generate" -> 10 + Another(q)
      [] run[q].pc = "recall" -> 20
      [] run[q].pc = "describing" -> 21
      [] run[q].pc = "schema" -> 22
      [] run[q].pc = "arrived" -> 23
      [] run[q].pc = "new" -> 24
WorkBounded == \A q \in Questions : Work(q) \in 0 .. 24

\* Each step of a question or its worker brings the answer nearer, and nothing the
\* others do takes it back.
StepsCount ==
    [][\A q \in Questions :
          /\ Thread(q) \/ Worker(q) => Work(q)' < Work(q)
          /\ ~(Thread(q) \/ Worker(q)) => run'[q] = run[q]]_vars

\* The upload's lock goes with the loop.
LEMMA LoopInvariance == Spec => [](IInv /\ LoopOfUploader)
<1>1. Init => IInv /\ LoopOfUploader
  BY InitIInv DEF Init, LoopOfUploader
<1>2. IInv /\ LoopOfUploader /\ [Next]_vars => (IInv /\ LoopOfUploader)'
  <2> SUFFICES ASSUME LoopOfUploader, [Next]_vars PROVE LoopOfUploader'
    BY NextIInv
  <2>1. ASSUME NEW q \in Questions, Thread(q) \/ Worker(q)
        PROVE  loop' = loop /\ (lock' = lock \/ lock' = q \/ lock' = None)
    BY <2>1
    DEF Thread, Worker, Dispatch, Begin, LockSchema, Describe, Recall, ModelAnswers,
        ModelDeclines, ModelUnavailable, ModelMalformed, Validate, LockConn, WorkerStarts,
        WorkerEnds, Collect, TimesOut, Interrupt, Join, Retry, GiveUp, Summarize, SummaryRaises,
        Finish, session
  <2>2. CASE \E q \in Questions : Thread(q) \/ Worker(q)
    BY <2>1, <2>2 DEF LoopOfUploader
  <2>3. CASE (\E q \in Questions : Computes(q)) \/ CloseConn \/ Stopped \/ UNCHANGED vars
    BY <2>3 DEF Computes, CloseConn, Stopped, vars, LoopOfUploader
  <2>4. CASE \/ ArriveUpload \/ StartUpload \/ EndUpload
             \/ \E name \in Tables : LoadTable(name)
    BY <2>4 DEF ArriveUpload, StartUpload, EndUpload, LoadTable, LoopOfUploader
  <2> QED  BY <2>2, <2>3, <2>4 DEF Next
<1> QED  BY <1>1, <1>2, PTL DEF Spec

\* No circle of waiting: the questions wait for the lock, an upload for the lock
\* with the loop in its hands, a request for the loop; the holder of the lock waits
\* for neither, and a worker it joins ends unless its interrupt was lost.
THEOREM NoCircularWait == Spec => []NobodyStuck
<1>1. ASSUME IInv, LoopOfUploader PROVE NobodyStuck
  <2>1. ASSUME NEW q \in Questions, run[q].pc \in Waits \cup {"describing"}
        PROVE  CanGoOn(q) \/ InterruptLost(q)
    <3>1. CASE run[q].pc # "joining"
      BY <2>1, <3>1 DEF Waits, CanGoOn
    <3>2. CASE run[q].pc = "joining"
      <4>1. run[q].worker \in {"queued", "running", "ok", "error"}
        BY <1>1, <3>2 DEF IInv, Holding, Waits, TypeOK, Local
      <4> QED  BY <3>2, <4>1 DEF CanGoOn, InterruptLost
    <3> QED  BY <3>1, <3>2
  <2>2. ASSUME lock # None PROVE HolderGoesOn
    <3>1. CASE lock = Uploader
      BY <1>1, <3>1 DEF LoopOfUploader, HolderGoesOn
    <3>2. CASE lock # Uploader
      <4>1. PICK r \in Questions : lock = r
        BY <1>1, <2>2, <3>2 DEF IInv, TypeOK
      <4>2. run[r].pc \in Waits \cup {"describing"}
        BY <1>1, <4>1 DEF IInv, Holding
      <4> QED  BY <2>1, <4>1, <4>2 DEF HolderGoesOn
    <3> QED  BY <3>1, <3>2
  <2>3. ASSUME NEW q \in Questions, run[q].pc # "done"
        PROVE  \/ CanGoOn(q) \/ InterruptLost(q)
               \/ run[q].pc \in {"schema", "execute"} /\ HolderGoesOn
               \/ run[q].pc = "new" /\ loop = Uploader /\ (lock = None \/ HolderGoesOn)
    <3>1. run[q].pc \in PCs /\ loop \in {Uploader, None}
      BY <1>1 DEF IInv, TypeOK, Local
    <3>2. CASE run[q].pc \in {"schema", "execute"}
      BY <2>2, <3>2 DEF CanGoOn
    <3>3. CASE run[q].pc = "new"
      BY <2>2, <3>1, <3>3 DEF CanGoOn
    <3>4. CASE run[q].pc \in Waits
      BY <2>1, <3>4
    <3>5. CASE run[q].pc \notin Waits \cup {"schema", "execute", "new"}
      BY <2>3, <3>1, <3>5 DEF CanGoOn, PCs, Waits
    <3> QED  BY <3>2, <3>3, <3>4, <3>5
  <2> QED  BY <2>3 DEF NobodyStuck
<1>2. IInv /\ LoopOfUploader => NobodyStuck
  BY <1>1
<1> QED  BY <1>2, LoopInvariance, PTL

\* A step from one point to another, and what it does to the attempt and the worker.
Moves(q, from, to) ==
    /\ run[q].pc = from /\ run'[q].pc = to
    /\ run'[q].attempt = run[q].attempt /\ run'[q].worker = run[q].worker

Gets(q, worker) ==
    /\ run'[q].pc = run[q].pc /\ run'[q].attempt = run[q].attempt
    /\ run'[q].worker = worker

\* What a question's own steps do to it, in the order of an attempt.
LEMMA AttemptMoves ==
    ASSUME IInv, NEW q \in Questions, Thread(q) \/ Worker(q)
    PROVE  /\ \A r \in Questions \ {q} : run'[r] = run[r]
           /\ \/ Moves(q, "new", "arrived") \/ Moves(q, "arrived", "schema")
              \/ Moves(q, "schema", "describing")
              \/ Moves(q, "describing", "recall") \/ Moves(q, "describing", "done")
              \/ Moves(q, "recall", "generate")
              \/ Moves(q, "generate", "validate") \/ Moves(q, "generate", "finish")
              \/ Moves(q, "generate", "done")
              \/ Moves(q, "validate", "execute") \/ Moves(q, "validate", "failed")
              \/ /\ run[q].pc = "execute" /\ run'[q].pc = "waiting"
                 /\ run'[q].attempt = run[q].attempt /\ run'[q].worker = "queued"
              \/ Moves(q, "waiting", "interrupting") \/ Moves(q, "interrupting", "joining")
              \/ /\ run[q].pc \in {"waiting", "joining"}
                 /\ run'[q].pc \in {"summarize", "failed"}
                 /\ run'[q].attempt = run[q].attempt
              \/ /\ run[q].pc = "failed" /\ run'[q].pc = "generate"
                 /\ run[q].attempt = 0 /\ run'[q].attempt = 1
              \/ Moves(q, "failed", "finish") \/ Moves(q, "summarize", "finish")
              \/ Moves(q, "summarize", "done") \/ Moves(q, "finish", "done")
              \/ run[q].worker = "queued" /\ (Gets(q, "running") \/ Gets(q, "error"))
              \/ run[q].worker = "running" /\ (Gets(q, "ok") \/ Gets(q, "error"))
<1> USE DEF Moves
<1>1. run \in [Questions -> Local] /\ run[q] \in Local
  BY DEF IInv, TypeOK
<1>2. ASSUME NEW to, Goto(q, to)
      PROVE  /\ \A r \in Questions \ {q} : run'[r] = run[r]
             /\ run'[q].pc = to
             /\ run'[q].attempt = run[q].attempt /\ run'[q].worker = run[q].worker
  BY <1>1, <1>2 DEF Goto, Local
<1>3. CASE Dispatch(q) \/ LockSchema(q) \/ Validate(q) \/ TimesOut(q) \/ Interrupt(q)
  BY <1>2, <1>3 DEF Dispatch, LockSchema, Validate, TimesOut, Interrupt
<1>4. CASE Begin(q) \/ Recall(q)
  BY <1>1, <1>4 DEF Begin, Recall, Local
<1>5. CASE Describe(q)
  <2>1. \/ run' = [run EXCEPT ![q].pc = "recall", ![q].schema = tables]
        \/ run' = [run EXCEPT ![q].pc = "done", ![q].answer = "500"]
    BY <1>5 DEF Describe, Raise
  <2>2. run[q].pc = "describing"
    BY <1>5 DEF Describe
  <2> QED  BY <1>1, <2>1, <2>2 DEF Local
<1>6. CASE (\E sql \in Sqls : ModelAnswers(q, sql)) \/ ModelUnavailable(q) \/ ModelMalformed(q)
  <2>1. run[q].pc = "generate"
    BY <1>6 DEF ModelAnswers, ModelUnavailable, ModelMalformed
  <2>2. CASE ModelUnavailable(q)
    BY <1>1, <2>1, <2>2 DEF ModelUnavailable, Raise, Local
  <2>3. CASE ModelMalformed(q)
    BY <1>1, <2>1, <2>3 DEF ModelMalformed, Local
  <2>4. CASE \E sql \in Sqls : ModelAnswers(q, sql)
    <3>1. PICK sql \in Sqls : ModelAnswers(q, sql)
      BY <2>4
    <3>2. run' = [run EXCEPT ![q].pc = "validate", ![q].sql = sql, ![q].reply = "other"]
      BY <3>1 DEF ModelAnswers
    <3> QED  BY <1>1, <2>1, <3>2 DEF Local
  <2> QED  BY <1>6, <2>2, <2>3, <2>4
<1>7. CASE ModelDeclines(q) \/ GiveUp(q) \/ Summarize(q)
  <2>1. \E out : run' = [run EXCEPT ![q].pc = "finish", ![q].result = out]
    BY <1>7 DEF ModelDeclines, GiveUp, Summarize, MakeResult
  <2>2. run[q].pc \in {"generate", "failed", "summarize"}
    BY <1>7 DEF ModelDeclines, GiveUp, Summarize
  <2>3. PICK out : run' = [run EXCEPT ![q].pc = "finish", ![q].result = out]
    BY <2>1
  <2>4. /\ \A r \in Questions \ {q} : run'[r] = run[r]
        /\ run'[q].pc = "finish"
        /\ run'[q].attempt = run[q].attempt /\ run'[q].worker = run[q].worker
    BY <1>1, <2>3 DEF Local
  <2> QED  BY <2>2, <2>4
<1>8. CASE LockConn(q)
  BY <1>1, <1>8 DEF LockConn, Local
<1>9. CASE WorkerStarts(q)
  <2>1. \/ \E b \in BOOLEAN :
              run' = [run EXCEPT ![q].worker = "running", ![q].runaway = b]
        \/ run' = [run EXCEPT ![q].worker = "error"]
    BY <1>9 DEF WorkerStarts
  <2>2. run[q].worker = "queued"
    BY <1>9 DEF WorkerStarts
  <2>3. /\ \A r \in Questions \ {q} : run'[r] = run[r]
        /\ Gets(q, "running") \/ Gets(q, "error")
    BY <1>1, <2>1 DEF Local, Gets
  <2> QED  BY <2>2, <2>3
<1>10. CASE WorkerEnds(q)
  <2>1. \E end \in {"ok", "error"} :
              run' = [run EXCEPT ![q].worker = end, ![q].runaway = FALSE]
    BY <1>10 DEF WorkerEnds
  <2>2. run[q].worker = "running"
    BY <1>10 DEF WorkerEnds
  <2>3. /\ \A r \in Questions \ {q} : run'[r] = run[r]
        /\ Gets(q, "ok") \/ Gets(q, "error")
    BY <1>1, <2>1 DEF Local, Gets
  <2> QED  BY <2>2, <2>3
<1>11. CASE Collect(q) \/ Join(q)
  <2>1. /\ run[q].pc \in {"waiting", "joining"}
        /\ \E to \in {"summarize", "failed"} :
              run' = [run EXCEPT ![q].pc = to, ![q].worker = "none"]
    BY <1>11 DEF Collect, Join
  <2> QED  BY <1>1, <2>1 DEF Local
<1>12. CASE Retry(q)
  BY <1>1, <1>12 DEF Retry, Local
<1>13. CASE Finish(q)
  BY <1>1, <1>13 DEF Finish, Local
<1>14. CASE SummaryRaises(q)
  BY <1>1, <1>14 DEF SummaryRaises, Raise, Local
<1> QED
  BY <1>3, <1>4, <1>5, <1>6, <1>7, <1>8, <1>9, <1>10, <1>11, <1>12, <1>13, <1>14
  DEF Thread, Worker

\* What is left to do at each point.
LEMMA WorkOf ==
    ASSUME NEW q \in Questions
    PROVE  /\ run[q].pc = "done" => Work(q) = 0
           /\ run[q].pc = "finish" => Work(q) = 1
           /\ run[q].pc = "summarize" => Work(q) = 2
           /\ run[q].pc = "failed" => Work(q) = 2 + Another(q)
           /\ run[q].pc = "joining" => Work(q) = 3 + Undone(q) + Another(q)
           /\ run[q].pc = "interrupting" => Work(q) = 4 + Undone(q) + Another(q)
           /\ run[q].pc = "waiting" => Work(q) = 5 + Undone(q) + Another(q)
           /\ run[q].pc = "execute" => Work(q) = 8 + Another(q)
           /\ run[q].pc = "validate" => Work(q) = 9 + Another(q)
           /\ run[q].pc = "generate" => Work(q) = 10 + Another(q)
           /\ run[q].pc = "recall" => Work(q) = 20
           /\ run[q].pc = "describing" => Work(q) = 21
           /\ run[q].pc = "schema" => Work(q) = 22
           /\ run[q].pc = "arrived" => Work(q) = 23
           /\ run[q].pc = "new" => Work(q) = 24
           /\ run[q].worker = "queued" => Undone(q) = 2
           /\ run[q].worker = "running" => Undone(q) = 1
           /\ run[q].worker \notin {"queued", "running"} => Undone(q) = 0
BY Zenon DEF Work, Undone

LEMMA WorkNext ==
    ASSUME NEW q \in Questions
    PROVE  /\ run'[q].pc = "done" => Work(q)' = 0
           /\ run'[q].pc = "finish" => Work(q)' = 1
           /\ run'[q].pc = "summarize" => Work(q)' = 2
           /\ run'[q].pc = "failed" => Work(q)' = 2 + Another(q)'
           /\ run'[q].pc = "joining" => Work(q)' = 3 + Undone(q)' + Another(q)'
           /\ run'[q].pc = "interrupting" => Work(q)' = 4 + Undone(q)' + Another(q)'
           /\ run'[q].pc = "waiting" => Work(q)' = 5 + Undone(q)' + Another(q)'
           /\ run'[q].pc = "execute" => Work(q)' = 8 + Another(q)'
           /\ run'[q].pc = "validate" => Work(q)' = 9 + Another(q)'
           /\ run'[q].pc = "generate" => Work(q)' = 10 + Another(q)'
           /\ run'[q].pc = "recall" => Work(q)' = 20
           /\ run'[q].pc = "describing" => Work(q)' = 21
           /\ run'[q].pc = "schema" => Work(q)' = 22
           /\ run'[q].pc = "arrived" => Work(q)' = 23
           /\ run'[q].worker = "queued" => Undone(q)' = 2
           /\ run'[q].worker = "running" => Undone(q)' = 1
           /\ run'[q].worker \notin {"queued", "running"} => Undone(q)' = 0
BY Zenon DEF Work, Undone

\* There is another attempt left, or not.
LEMMA Attempts ==
    ASSUME NEW q \in Questions
    PROVE  /\ Another(q) \in {0, 9} /\ Another(q)' \in {0, 9}
           /\ run[q].attempt = 0 => Another(q) = 9
           /\ run'[q].attempt = 1 => Another(q)' = 0
           /\ run'[q].attempt = run[q].attempt => Another(q)' = Another(q)
BY DEF Another

\* Each step of a question leaves it less to do.
LEMMA StepCounts ==
    ASSUME IInv, NEW q \in Questions, Thread(q) \/ Worker(q)
    PROVE  Work(q)' < Work(q)
<1>1. Undone(q) \in 0 .. 2
  BY WorkOf
<1>2. /\ Another(q) \in {0, 9} /\ Another(q)' \in {0, 9}
      /\ run[q].attempt = 0 => Another(q) = 9
      /\ run'[q].attempt = 1 => Another(q)' = 0
      /\ run'[q].attempt = run[q].attempt => Another(q)' = Another(q)
  BY Attempts
<1>3. run'[q].worker = run[q].worker => Undone(q)' = Undone(q)
  BY WorkOf, WorkNext
<1>4. CASE \/ Moves(q, "new", "arrived") \/ Moves(q, "arrived", "schema")
           \/ Moves(q, "schema", "describing")
           \/ Moves(q, "describing", "recall") \/ Moves(q, "describing", "done")
           \/ Moves(q, "recall", "generate") \/ Moves(q, "generate", "validate")
           \/ Moves(q, "generate", "finish") \/ Moves(q, "generate", "done")
           \/ Moves(q, "validate", "execute") \/ Moves(q, "validate", "failed")
           \/ Moves(q, "failed", "finish") \/ Moves(q, "summarize", "finish")
           \/ Moves(q, "summarize", "done") \/ Moves(q, "finish", "done")
  BY <1>2, <1>4, WorkOf, WorkNext DEF Moves
<1>5. CASE /\ run[q].pc = "execute" /\ run'[q].pc = "waiting"
           /\ run'[q].attempt = run[q].attempt /\ run'[q].worker = "queued"
  BY <1>2, <1>5, WorkOf, WorkNext
<1>6. CASE Moves(q, "waiting", "interrupting") \/ Moves(q, "interrupting", "joining")
  BY <1>1, <1>2, <1>3, <1>6, WorkOf, WorkNext DEF Moves
<1>7. CASE /\ run[q].pc \in {"waiting", "joining"} /\ run'[q].pc \in {"summarize", "failed"}
           /\ run'[q].attempt = run[q].attempt
  BY <1>1, <1>2, <1>7, WorkOf, WorkNext
<1>8. CASE /\ run[q].pc = "failed" /\ run'[q].pc = "generate"
           /\ run[q].attempt = 0 /\ run'[q].attempt = 1
  BY <1>2, <1>8, WorkOf, WorkNext
<1>9. CASE \/ run[q].worker = "queued" /\ (Gets(q, "running") \/ Gets(q, "error"))
           \/ run[q].worker = "running" /\ (Gets(q, "ok") \/ Gets(q, "error"))
  <2>1. Undone(q)' < Undone(q)
    BY <1>9, WorkOf, WorkNext DEF Gets
  <2>2. run[q].pc \in Waits /\ run'[q].pc = run[q].pc /\ run'[q].attempt = run[q].attempt
    BY <1>9 DEF Gets, IInv, Holding
  <2>3. Undone(q)' \in 0 .. 2
    BY WorkNext
  <2> QED  BY <1>1, <1>2, <2>1, <2>2, <2>3, WorkOf, WorkNext DEF Waits
<1> QED
  BY <1>4, <1>5, <1>6, <1>7, <1>8, <1>9, AttemptMoves

\* The model is asked at most twice and no question comes back to where it was: it
\* is answered after at most 24 steps of its own, whatever the others do.
THEOREM QuestionsAreFinite == Spec => []WorkBounded /\ StepsCount
<1>1. IInv => WorkBounded
  <2> SUFFICES ASSUME IInv, NEW q \in Questions PROVE Work(q) \in 0 .. 24
    BY DEF WorkBounded
  <2>1. run[q].pc \in PCs
    BY DEF IInv, TypeOK, Local
  <2>2. Undone(q) \in 0 .. 2 /\ Another(q) \in {0, 9}
    BY WorkOf, Attempts
  <2> QED  BY <2>1, <2>2, WorkOf DEF PCs
<1>2. IInv /\ [Next]_vars =>
        [\A q \in Questions :
            /\ Thread(q) \/ Worker(q) => Work(q)' < Work(q)
            /\ ~(Thread(q) \/ Worker(q)) => run'[q] = run[q]]_vars
  <2> SUFFICES ASSUME IInv, Next, NEW q \in Questions
               PROVE  /\ Thread(q) \/ Worker(q) => Work(q)' < Work(q)
                      /\ ~(Thread(q) \/ Worker(q)) => run'[q] = run[q]
    OBVIOUS
  <2>1. ASSUME ~(Thread(q) \/ Worker(q)) PROVE run'[q] = run[q]
    <3>1. CASE \E r \in Questions : Thread(r) \/ Worker(r)
      BY <2>1, <3>1, AttemptMoves
    <3>2. CASE \/ \E r \in Questions : Computes(r)
               \/ ArriveUpload \/ StartUpload \/ EndUpload
               \/ (\E name \in Tables : LoadTable(name)) \/ CloseConn \/ Stopped
      BY <3>2 DEF Computes, ArriveUpload, StartUpload, EndUpload, LoadTable, CloseConn,
                  Stopped, vars
    <3> QED  BY <3>1, <3>2 DEF Next
  <2> QED  BY <2>1, StepCounts
<1> QED
  BY <1>1, <1>2, Invariance, PTL DEF Spec, StepsCount
=============================================================================
