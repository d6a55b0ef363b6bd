---------------------------- MODULE QueryEngine ----------------------------
(***************************************************************************)
(* The questions put to one session at once, each a call of run_nl_query   *)
(* (backend/app/services/query_engine.py) on a thread of its own, and the  *)
(* upload that may run beside them (csv_ingestion.py).                     *)
(*                                                                         *)
(* A question reads the tables it may use, describes them to the model     *)
(* under session.lock, remembers the last turns, and asks for SQL.  The    *)
(* SQL is validated, then executed by a worker thread while the question   *)
(* holds the lock; a timeout interrupts the connection.  One failure of    *)
(* either kind is put to the model once more.  Every result is appended to *)
(* the conversation.  The model (llm_client.py) may answer anything.       *)
(***************************************************************************)
EXTENDS Integers, Sequences, FiniteSets

CONSTANTS
    Questions,      \* the calls of run_nl_query, all on the same session
    Names,          \* the names a statement may use, for tables and for its CTEs
    Sqls,           \* the statements the model may write
    Tables,         \* names of tables an upload may load
    FirstTables,    \* those loaded before the questions arrive
    HistoryTurns,   \* history_turns_context
    MaxUploads,     \* bound: uploads that reach the session meanwhile
    Uploader,       \* the thread that serves an upload
    None

ASSUME TablesAssumption == FirstTables \subseteq Tables /\ Tables \subseteq Names
ASSUME HistoryAssumption == HistoryTurns \in Nat
ASSUME BoundAssumption == MaxUploads \in Nat
ASSUME NamesAssumption == /\ None \notin Questions \cup {Uploader}
                          /\ Uploader \notin Questions

VARIABLES
    tables,         \* the keys of session.table_sources, all in DuckDB too
    lock,           \* session.lock: who holds it
    open,           \* session.conn has not been closed
    interrupted,    \* the connection's interrupt flag
    turns,          \* session.turns
    uploads,        \* uploads begun
    loop,           \* the event loop: the upload that keeps it, or None
    clock,          \* instants at which results are made, for created_at
    run             \* the call of each question and its local variables

vars == <<tables, lock, open, interrupted, turns, uploads, loop, clock, run>>
session == <<tables, lock, open, interrupted, turns, uploads, loop, clock>>

\* SQL is a single SELECT, or anything else.  A SELECT is told by its references
\* (the exp.Table nodes) and by the CTEs it defines, at any depth.  A reference has a
\* bare name and what DuckDB takes it for: a CTE that is in scope there, a table of
\* the session, or something else (a name qualified by another schema).
Ref == [name: Names, to: {"cte", "table", "other"}]
NotSelect == [select |-> FALSE, refs |-> {}, ctes |-> {}]
Statement == [select: {TRUE}, refs: SUBSET Ref, ctes: SUBSET Names] \cup {NotSelect}

ASSUME SqlsAssumption ==
    /\ Sqls \subseteq Statement
    /\ \A sql \in Sqls : \A r \in sql.refs : r.to = "cte" => r.name \in sql.ctes

Turn == [question: Questions, outcome: {"answered", "error"}, createdAt: Nat]

PCs == {"new", "arrived", "schema", "describing", "recall", "generate", "validate", "execute",
        "waiting", "interrupting", "joining", "failed", "summarize", "finish", "done"}

\* before: history, questions on record when this one came.  answer: what the
\* handler returned: a QueryResult, 502 (LLMServiceError), 500 (any other).
Local == [pc: PCs, allowed: SUBSET Tables, schema: SUBSET Tables,
          history: Seq(Turn), attempt: {0, 1}, sql: Statement,
          worker: {"none", "queued", "running", "ok", "error"}, runaway: BOOLEAN,
          result: Turn \cup {None}, answer: {"none", "result", "502", "500"},
          before: SUBSET Questions, reply: {"none", "malformed", "other"}]

TypeOK ==
    /\ tables \in SUBSET Tables
    /\ lock \in Questions \cup {Uploader, None}
    /\ open \in BOOLEAN
    /\ interrupted \in BOOLEAN
    /\ turns \in Seq(Turn)
    /\ uploads \in Nat
    /\ loop \in {Uploader, None}
    /\ clock \in Nat
    /\ run \in [Questions -> Local]

Init ==
    /\ tables = FirstTables
    /\ lock = None
    /\ open = TRUE
    /\ interrupted = FALSE
    /\ turns = <<>>
    /\ uploads = 0
    /\ loop = None
    /\ clock = 0
    /\ run = [q \in Questions |->
                [pc |-> "new", allowed |-> {}, schema |-> {}, history |-> <<>>,
                 attempt |-> 0, sql |-> NotSelect, worker |-> "none", runaway |-> FALSE,
                 result |-> None, answer |-> "none", before |-> {}, reply |-> "none"]]

-----------------------------------------------------------------------------
(* Helpers.                                                                *)

Goto(q, to) == run' = [run EXCEPT ![q].pc = to]

Recorded == {turns[i].question : i \in 1 .. Len(turns)}

\* recent_turns(session, n): the last n, oldest first.  The mutant takes the last of
\* them for the question at hand.
AllButLast(s, n) == SubSeq(s, IF Len(s) <= n THEN 1 ELSE Len(s) - n, Len(s) - 1)
RecentTurns(s, n) == SubSeq(s, IF Len(s) < n THEN 1 ELSE Len(s) - n + 1, Len(s))

\* QueryResult(...) stamps created_at; _finish appends it in a later step.
MakeResult(q, outcome) ==
    /\ clock' = clock + 1
    /\ run' = [run EXCEPT ![q].pc = "finish",
                          ![q].result = [question |-> q, outcome |-> outcome,
                                         createdAt |-> clock]]

\* The handler ends in an exception: no turn.
Raise(q, status) == run' = [run EXCEPT ![q].pc = "done", ![q].answer = status]

\* validate_select_sql(sql, allowed) goes by bare names, whatever qualifies them, and
\* takes the alias of any CTE of the statement from all of them, in its scope or not.
\* The mutant accepts any single SELECT.
Counted(sql) == {r.name : r \in sql.refs} \ sql.ctes
AnySelect(sql, allowed) == sql.select
Valid(sql, allowed) == sql.select /\ Counted(sql) \subseteq allowed

-----------------------------------------------------------------------------
(* The prompt: allowed tables, schema context, history.                    *)

\* The event loop hands the request to a thread of the pool.
Dispatch(q) ==
    /\ run[q].pc = "new"
    /\ loop = None
    /\ Goto(q, "arrived")
    /\ UNCHANGED session

\* allowed_tables = set(session.table_sources.keys()), without the lock.
Begin(q) ==
    /\ run[q].pc = "arrived"
    /\ run' = [run EXCEPT ![q].pc = "schema", ![q].allowed = tables,
                          ![q].before = Recorded]
    /\ UNCHANGED session

\* list_tables describes every table on the connection, under the lock.
LockSchema(q) ==
    /\ run[q].pc = "schema"
    /\ lock = None
    /\ lock' = q
    /\ Goto(q, "describing")
    /\ UNCHANGED <<tables, open, interrupted, turns, uploads, loop, clock>>

\* On a connection closed by a sweep or a delete it raises, outside any try, if
\* there is a table to describe.
Describe(q) ==
    /\ run[q].pc = "describing"
    /\ lock' = None
    /\ \/ /\ open \/ tables = {}
          /\ run' = [run EXCEPT ![q].pc = "recall", ![q].schema = tables]
          /\ interrupted' = (interrupted /\ tables = {})
       \/ ~open /\ tables # {} /\ Raise(q, "500") /\ UNCHANGED interrupted
    /\ UNCHANGED <<tables, open, turns, uploads, loop, clock>>

Recall(q) ==
    /\ run[q].pc = "recall"
    /\ run' = [run EXCEPT ![q].pc = "generate",
                          ![q].history = RecentTurns(turns, HistoryTurns)]
    /\ UNCHANGED session

-----------------------------------------------------------------------------
(* generate_sql, the first time and (attempt 1) to correct a failure.      *)

ModelAnswers(q, sql) ==
    /\ run[q].pc = "generate"
    /\ run' = [run EXCEPT ![q].pc = "validate", ![q].sql = sql, ![q].reply = "other"]
    /\ UNCHANGED session

\* No tool call (RuntimeError), intent 'unsupported', or no SQL: an error turn.
ModelDeclines(q) ==
    /\ run[q].pc = "generate"
    /\ MakeResult(q, "error")
    /\ UNCHANGED <<tables, lock, open, interrupted, turns, uploads, loop>>

\* LLMServiceError is logged and raised again: 502.  The mutant records it.
OutageRecorded(q) ==
    /\ run[q].pc = "generate"
    /\ clock' = clock + 1
    /\ turns' = Append(turns, [question |-> q, outcome |-> "error", createdAt |-> clock])
    /\ Raise(q, "502")
    /\ UNCHANGED <<tables, lock, open, interrupted, uploads, loop>>
ModelUnavailable(q) ==
    /\ run[q].pc = "generate"
    /\ Raise(q, "502")
    /\ UNCHANGED session

\* A tool call whose arguments are not JSON, or lack a key: JSONDecodeError and
\* KeyError are no RuntimeError, nothing catches them.
ModelMalformed(q) ==
    /\ run[q].pc = "generate"
    /\ run' = [run EXCEPT ![q].pc = "done", ![q].answer = "500",
                          ![q].reply = "malformed"]
    /\ UNCHANGED session

-----------------------------------------------------------------------------
(* One attempt: validate, limit, execute with a timeout.                   *)

Validate(q) ==
    /\ run[q].pc = "validate"
    /\ Goto(q, IF Valid(run[q].sql, run[q].allowed) THEN "execute" ELSE "failed")
    /\ UNCHANGED session

\* with session.lock: ThreadPoolExecutor(1).submit(_run)
LockConn(q) ==
    /\ run[q].pc = "execute"
    /\ lock = None
    /\ lock' = q
    /\ run' = [run EXCEPT ![q].pc = "waiting", ![q].worker = "queued"]
    /\ UNCHANGED <<tables, open, interrupted, turns, uploads, loop, clock>>

\* The worker begins conn.execute: DuckDB clears the interrupt flag when a query
\* starts (so do the statements of Describe and LoadTable).  A runaway query would
\* not end by itself.
WorkerStarts(q) ==
    /\ run[q].worker = "queued"
    /\ \/ /\ open
          /\ interrupted' = FALSE
          /\ \E b \in BOOLEAN :
                run' = [run EXCEPT ![q].worker = "running", ![q].runaway = b]
       \/ /\ ~open
          /\ run' = [run EXCEPT ![q].worker = "error"]
          /\ UNCHANGED interrupted
    /\ UNCHANGED <<tables, lock, open, turns, uploads, loop, clock>>

\* The query ends, with rows or with an error; an interrupted one ends soon.
WorkerEnds(q) ==
    /\ run[q].worker = "running"
    /\ run[q].runaway => interrupted
    /\ \E end \in {"ok", "error"} :
          run' = [run EXCEPT ![q].worker = end, ![q].runaway = FALSE]
    /\ UNCHANGED session

\* future.result returns or raises; leaving both `with` blocks frees the lock.
Collect(q) ==
    /\ run[q].pc = "waiting"
    /\ run[q].worker \in {"ok", "error"}
    /\ lock' = None
    /\ run' = [run EXCEPT ![q].pc = IF run[q].worker = "ok" THEN "summarize"
                                    ELSE "failed",
                          ![q].worker = "none"]
    /\ UNCHANGED <<tables, open, interrupted, turns, uploads, loop, clock>>

\* future.result times out.
TimesOut(q) ==
    /\ run[q].pc = "waiting"
    /\ Goto(q, "interrupting")
    /\ UNCHANGED session

\* conn.interrupt().  A closed connection refuses it, which run_nl_query takes for
\* a failed execution as it does the TimeoutError.
Interrupt(q) ==
    /\ run[q].pc = "interrupting"
    /\ interrupted' = (interrupted \/ open)
    /\ Goto(q, "joining")
    /\ UNCHANGED <<tables, lock, open, turns, uploads, loop, clock>>

\* The executor's `with` waits for the worker before the lock is freed.  The
\* mutant leaves at once, as shutdown(wait=False) would.
LeaveWorker(q) ==
    /\ run[q].pc = "joining"
    /\ lock' = None
    /\ Goto(q, "failed")
    /\ UNCHANGED <<tables, open, interrupted, turns, uploads, loop, clock>>
Join(q) ==
    /\ run[q].pc = "joining"
    /\ run[q].worker \in {"ok", "error"}
    /\ lock' = None
    /\ run' = [run EXCEPT ![q].pc = "failed", ![q].worker = "none"]
    /\ UNCHANGED <<tables, open, interrupted, turns, uploads, loop, clock>>

\* A failure goes back to the model once.  The mutant does not count attempts.
RetryUncounted(q) ==
    /\ run[q].pc = "failed"
    /\ run[q].attempt = 0
    /\ Goto(q, "generate")
    /\ UNCHANGED session
Retry(q) ==
    /\ run[q].pc = "failed"
    /\ run[q].attempt = 0
    /\ run' = [run EXCEPT ![q].pc = "generate", ![q].attempt = 1]
    /\ UNCHANGED session

GiveUp(q) ==
    /\ run[q].pc = "failed"
    /\ run[q].attempt = 1
    /\ MakeResult(q, "error")
    /\ UNCHANGED <<tables, lock, open, interrupted, turns, uploads, loop>>

\* compose and synthesize_summary: an outage falls back to a fixed caption.  Any other
\* failure of the summary (a reply without choices) is caught by nothing.
Summarize(q) ==
    /\ run[q].pc = "summarize"
    /\ MakeResult(q, "answered")
    /\ UNCHANGED <<tables, lock, open, interrupted, turns, uploads, loop>>

SummaryRaises(q) ==
    /\ run[q].pc = "summarize"
    /\ Raise(q, "500")
    /\ UNCHANGED session

\* _finish: append_turn, then return to the handler.
Finish(q) ==
    /\ run[q].pc = "finish"
    /\ turns' = Append(turns, run[q].result)
    /\ run' = [run EXCEPT ![q].pc = "done", ![q].answer = "result"]
    /\ UNCHANGED <<tables, lock, open, interrupted, uploads, loop, clock>>

-----------------------------------------------------------------------------
(* The rest of the session: an upload, and the end of the session.         *)

\* upload_csvs is a coroutine: from its last await to its answer nothing else runs
\* on the event loop, also while it waits for the lock.
ArriveUpload ==
    /\ loop = None
    /\ uploads < MaxUploads
    /\ uploads' = uploads + 1
    /\ loop' = Uploader
    /\ UNCHANGED <<tables, lock, open, interrupted, turns, clock, run>>

\* ingest_upload_batch loads its tables one by one under the lock.
StartUpload ==
    /\ loop = Uploader
    /\ lock = None
    /\ lock' = Uploader
    /\ UNCHANGED <<tables, open, interrupted, turns, uploads, loop, clock, run>>

LoadTable(name) ==
    /\ lock = Uploader
    /\ open
    /\ name \notin tables
    /\ tables' = tables \cup {name}
    /\ interrupted' = FALSE
    /\ UNCHANGED <<lock, open, turns, uploads, loop, clock, run>>

EndUpload ==
    /\ lock = Uploader
    /\ lock' = None
    /\ loop' = None
    /\ UNCHANGED <<tables, open, interrupted, turns, uploads, clock, run>>

\* A sweep or a delete closes the connection, without the lock.
CloseConn ==
    /\ open
    /\ open' = FALSE
    /\ UNCHANGED <<tables, lock, interrupted, turns, uploads, loop, clock, run>>

\* A runaway query computes on: the session is busy, not deadlocked.
Computes(q) ==
    /\ run[q].worker = "running"
    /\ run[q].runaway /\ ~interrupted
    /\ UNCHANGED vars

Stopped ==
    /\ \A q \in Questions : run[q].pc = "done"
    /\ UNCHANGED vars

-----------------------------------------------------------------------------

Thread(q) ==
    \/ Dispatch(q) \/ Begin(q) \/ LockSchema(q) \/ Describe(q) \/ Recall(q)
    \/ \E sql \in Sqls : ModelAnswers(q, sql)
    \/ ModelDeclines(q) \/ ModelUnavailable(q) \/ ModelMalformed(q)
    \/ Validate(q) \/ LockConn(q) \/ Collect(q)
    \/ TimesOut(q) \/ Interrupt(q) \/ Join(q)
    \/ Retry(q) \/ GiveUp(q) \/ Summarize(q) \/ SummaryRaises(q) \/ Finish(q)

Worker(q) == WorkerStarts(q) \/ WorkerEnds(q)

Next ==
    \/ \E q \in Questions : Thread(q) \/ Worker(q) \/ Computes(q)
    \/ ArriveUpload \/ StartUpload \/ EndUpload \/ \E name \in Tables : LoadTable(name)
    \/ CloseConn
    \/ Stopped

Spec == Init /\ [][Next]_vars

\* Threads run, OpenAI calls return or time out (llm_timeout_seconds), a waiting
\* question times out, a query that is not a runaway ends, an upload ends.
FairSpec ==
    /\ Spec
    /\ \A q \in Questions : WF_vars(Thread(q)) /\ WF_vars(Worker(q))
    /\ WF_vars(StartUpload) /\ WF_vars(EndUpload)

-----------------------------------------------------------------------------
(* Safety.                                                                 *)

\* Who is inside a DuckDB call on the session's connection.
Users == {q \in Questions : run[q].pc = "describing" \/ run[q].worker = "running"}
             \cup (IF lock = Uploader THEN {Uploader} ELSE {})

\* Two threads never use the connection at once, although a question that has
\* timed out leaves its worker behind (execute_with_timeout).
ConnExclusive == \A u, v \in Users : u = v

\* conn.interrupt() reaches the question's own query or none: never the one of
\* another question.
InterruptsOwn ==
    \A q, r \in Questions :
        run[q].pc = "interrupting" /\ run[r].worker \in {"queued", "running"} => q = r

\* The conversation and what run_nl_query returns agree: a question is on record
\* exactly once if the call returned a result, and not at all if it raised.  (The
\* handler may still fail to build its response from a result: that turn stays.)
TurnsOf(q) == {i \in 1 .. Len(turns) : turns[i].question = q}
RecordedOnce ==
    \A q \in Questions :
        /\ run[q].answer = "result" =>
              \E i \in TurnsOf(q) : TurnsOf(q) = {i} /\ turns[i] = run[q].result
        /\ run[q].answer # "result" => TurnsOf(q) = {}

\* Whatever the model wrote and whatever is being uploaded, DuckDB is given only
\* SELECTs, and a table of the session that one reads was shown to the model and is
\* still there when the query runs, unless a CTE of the same statement, of another
\* scope, bears its name (validate_select_sql does not tell scopes apart).
OnlyKnownTables ==
    \A q \in Questions :
        run[q].worker # "none" =>
            /\ run[q].sql.select
            /\ \A r \in run[q].sql.refs :
                  r.to = "table" => r.name \in (tables \cap run[q].schema) \cup run[q].sql.ctes

\* Follow-ups work: a turn recorded before a question came is in its history,
\* unless the history is full of later turns.
InHistory(q, r) == \E i \in 1 .. Len(run[q].history) : run[q].history[i].question = r
FollowUpsSeeAnswers ==
    \A q \in Questions :
        run[q].pc \notin {"new", "arrived", "schema", "describing", "recall"}
            /\ run[q].answer # "500" =>
        \A r \in run[q].before :
            \/ InHistory(q, r)
            \/ /\ Len(run[q].history) = HistoryTurns
               /\ \A i \in TurnsOf(r) : \A j \in 1 .. Len(turns) :
                     InHistory(q, turns[j].question) => i < j

-----------------------------------------------------------------------------
(* Refinement and liveness.                                                *)

Log == INSTANCE ConversationLog WITH
    log <- [i \in 1 .. Len(turns) |-> [question |-> turns[i].question,
                                       outcome |-> turns[i].outcome]],
    status <- [q \in Questions |->
                 CASE run[q].answer = "none"   -> "asked"
                   [] run[q].answer = "result" -> "answered"
                   [] OTHER                    -> "failed"]

\* The conversation is an append-only log to which each question adds at most
\* one turn, in the same instant in which its answer is settled.
LogRefined == Log!Spec

\* The interrupt has come before the worker started the query, or after the
\* connection was closed, and the query is one that does not end by itself.
InterruptLost(q) == run[q].pc = "joining" /\ run[q].runaway /\ ~interrupted

\* Every question is answered (or fails) in the end: no deadlock over the lock,
\* no endless retry, no query outliving its timeout, and the event loop, which an
\* upload keeps while it waits for them, is free for the other sessions again and
\* again; unless a runaway query has missed its interrupt.
Answered ==
    (\A q \in Questions : []~InterruptLost(q)) =>
        /\ \A q \in Questions : <>(run[q].pc = "done")
        /\ []<>(loop = None)

-----------------------------------------------------------------------------
(* What the repository says and the code does not do.                      *)

\* "malformed model output comes back as a QueryResult with error set and is
\* recorded in the session's conversation history".
MalformedRecorded ==
    \A q \in Questions :
        run[q].pc = "done" /\ run[q].reply = "malformed" => TurnsOf(q) # {}

\* "SQL from the LLM only ever reaches DuckDB after sqlglot confirms it is a single
\* read-only SELECT that references tables already loaded into the session".
ReferencesLoaded ==
    \A q \in Questions :
        run[q].worker = "running" =>
            \A r \in run[q].sql.refs : r.to # "cte" => r.to = "table" /\ r.name \in tables
=============================================================================
