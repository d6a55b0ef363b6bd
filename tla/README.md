# TableTalk in TLA+

TableTalk lets a user upload CSV files and ask questions about them in plain
language. A FastAPI backend keeps each user's tables in an in-memory DuckDB
connection, has a language model write SQL, runs it under a timeout and shapes
the result into a text, a table or a chart; a Next.js page shows the chat. This
directory holds TLA+ modules for that program, TLC configurations that check
them on small instances, and proofs, checked by TLAPS, of the properties that
matter most. Paths below are relative to the repository (`backend/app/...` is
`src/backend/app/...` in `PROJECT.json`, which maps each definition to its lines).

Contents: [the system](#1-the-system) ·
[modules](#2-modules-and-how-they-correspond-to-the-code) ·
[runs](#3-runs-bounds-and-what-they-show) · [fairness](#4-fairness) ·
[proofs](#5-what-is-proved) · [divergences](#6-where-the-code-and-its-words-differ) ·
[not modelled](#7-what-is-not-modelled) · [plan](#8-plan) · [running](#9-running)

## 1. The system

One backend process. FastAPI serves `def` handlers on threads of a pool, which
the interpreter switches at any call, and `async def` handlers (only
`upload_csvs`) on the event loop, which they keep until they `await`.

| Component | State | Operations | Talks to |
|---|---|---|---|
| Session manager (`services/session_manager.py`) | `_sessions`: id to record (connection, lock, last access, tables, reports, turns) | `create_session`, `get_session`, `close_session`; the first two sweep expired sessions first | every handler calls it; it closes connections |
| Rate limiter (`services/rate_limiter.py`) | `_buckets`: id to level and last refill | `check` | `POST /messages`, before the question |
| Query engine (`services/query_engine.py`) | local to a call | `run_nl_query`: prompt, generate, validate, limit, execute with timeout, retry once, compose, summarise, record | session lock and connection, model client, conversation store, composer |
| Conversation store (`services/conversation_store.py`) | `session.turns` | `append_turn`, `recent_turns` | query engine; `GET /messages` |
| Model client (`services/llm_client.py`) | none | `generate_sql`, `synthesize_summary` | the OpenAI service (external) |
| Response composer (`services/response_composer.py`) | none | `compose` | query engine |
| CSV ingestion (`services/csv_ingestion.py`) | `session.table_sources`, DuckDB tables, temporary files | `ingest_upload_batch`, `list_tables` | session lock and connection, data cleaning |
| Data cleaning (`services/data_cleaning.py`) | `session.table_quality` (written by ingestion) | `clean_values`, `compute_quality` | ingestion |
| Chat page (`frontend/app/page.tsx`, `lib/storage.ts`, `lib/api.ts`) | React state of a tab; one id in `localStorage` | bootstrap, send, merge uploads | the HTTP API |
| Forms (`components/FileUpload.tsx`, `ChatPanel.tsx`) | of each upload form: uploading, error, errors per file, last upload, the selection of its input | choose, drop, send, open and close the sheet | the page and the HTTP API |
| Answer views (`components/ChatMessage.tsx`, `ChartView.tsx`, `TableView.tsx`, `SqlDisclosure.tsx`) | none | draw a message | Recharts (external) |

What is hard here, and what must be true:

* **The session manager has no lock.** Sweeps, lookups, touches and deletes of
  racing threads interleave: a connection must be closed exactly once, a record
  popped must never come back, nothing may be evicted before its time, a sweep
  that fails half-way must leak nothing.
* **A DuckDB connection is not safe for two threads** (`session_manager.py:33-41`).
  `session.lock` has to keep handlers apart, also when a query has timed out and
  its worker thread is still inside DuckDB, and must always be given back.
* **A question is long**: it reads the allowed tables, the schema and the history
  at three different moments, then runs SQL written by a model at a fourth, while
  uploads add tables, other questions add turns, and the session may be closed.
  It must end, be recorded once, and read no table of the session it was not shown.
* **A check of the rate limiter is a read-modify-write without a lock.**
* **An upload is a batch** with collisions of file, table and column names,
  temporary files, and failures at every step.
* **The browser** may be refreshed, have two tabs on one session, lose answers, and
  see a session expire between two requests.
* **Upload forms come and go** with the tables they fill (the empty page's form
  vanishes when it succeeds), while several uploads, of one form or of several, are
  answered in any order.
* **An upload keeps the event loop**, also while it waits for a question's query.
* **Row limits and chart shapes** have borders (zero rows, one row, the limit, the
  limit plus one, all nulls) where an empty chart or a silent truncation hides; and
  a chart's series travel under names that SQL gave, which may be equal.

`PROJECT.json` lists these one by one under `hazards`, at their lines.

## 2. Modules and how they correspond to the code

| Module | Models | Composed of / used by |
|---|---|---|
| `SessionManager` | the manager and the request threads that call it | implements `SessionLifecycle` |
| `SessionLifecycle` | what the session API promises: opened, removed and closed once, every answer true at one instant | abstract |
| `RateLimiter` | racing `check` calls | |
| `QueryEngine` | concurrent questions to one session, their workers, an upload, the end of the session | implements `ConversationLog` |
| `ConversationLog` | an append-only conversation: one turn per answered question, in the instant it is answered | abstract |
| `Identifiers` | `name`, `name_2`, `name_3`, ...: the suffix search used for table and column names | used by the next two |
| `ColumnNames` | column names of a table on both load paths | |
| `CsvIngestion` | uploads to one session beside a reader and the close of the session | |
| `ResponseComposer` | row limit, result, chart type, caption, notice and SQL of one answer | extended by `AnswerViews` |
| `AnswerViews` | the card the chat draws of that answer, in steps composed with `ResponseComposer`'s | |
| `Frontend` | tabs of a browser against a backend that may fail | |
| `UploadForms` | the upload forms of one page, the list of tables they feed | details what `Frontend` takes as one step, the answer of an upload that is shown |
| `MC*` | instances for TLC | |
| `*Proofs` | theorems and their proofs | |

### SessionManager

An action is what one thread does between two points at which another may come
in. `Request` is a handler being entered; `Enter` reads the clock; `ScanRecord` and
`ScanEnds` are the comprehension in `_sweep_expired`, one step per record,
including the `RuntimeError` of a dict that changes size under its iterator;
`SweepPop`, `SweepRaises` (the `KeyError` of a session somebody else popped) and
`Close` are the loop `_sessions.pop(id).conn.close()`; `Insert`, `Lookup`, `Touch`
and `Unregister` are the rest of the three operations. `Acquire` and `Release` are a handler's
`with session.lock`. `registered` is the set of keys of `_sessions`, `rec` the
records, which outlive their registration because handlers hold references to
them; `th` holds the local variables of each thread. One tick is a unit of the
TTL's clock. The operations are represented by one of each kind: creating, reading
the record only (`GET /messages`), using the connection under the lock
(`GET /tables`, and in the same way uploads and questions), deleting.

### RateLimiter

`Check` reads the clock, `SetDefault` finds or makes the bucket, `Refill` computes the
level, `Commit` stores it, compares and takes the token: after `min()` the code
makes no call, so this is one step. The level is counted in units of which `Cost`
make a token and one flows in per tick, which makes it an integer. `spent`,
`opened`, `touched`, `since` and `lost` are history variables: what a session was granted, when its
bucket was made, when it was last used, what other checks have taken since a check read it, and what
of that its store has overwritten.

### QueryEngine

`Begin` (the unlocked read of `table_sources`), `LockSchema` and `Describe` (the schema for the
prompt), `Recall` (the last turns), `ModelAnswers`, `ModelDeclines`,
`ModelUnavailable`, `ModelMalformed` (everything the model client may return or
raise), `Validate`, `LockConn`, `WorkerStarts` and `WorkerEnds` (the thread of the
executor), `Collect`, `TimesOut`, `Interrupt`, `Join` (leaving the executor's `with`
waits for the worker), `Retry`, `GiveUp`, `Summarize`, `SummaryRaises` (the service answers with something that
is no completion), `Finish`. A statement is a single `SELECT` or not. A `SELECT` has references, each a bare
name with what DuckDB takes it for (a CTE in scope, a table of the session, something
else), and the CTEs it defines: `Valid` looks at the bare names less those of all the CTEs (`Counted`), which is
what `validate_select_sql` does, and the properties at what is read. A query may be a runaway that ends only when interrupted, and
DuckDB clears a pending interrupt when a query starts and refuses one on a closed
connection, so an interrupt may be lost.

`loop` is the event loop. A question is handed to a thread only when it is free
(`Dispatch`); an upload keeps it from `ArriveUpload`, through the wait for `session.lock` that
`StartUpload` ends and the loading of its tables (`LoadTable`), to `EndUpload`: so one question that is slow
holds up every other request of the process, through the upload that waits for it.
`CloseConn` is the end of the session.

### Identifiers, ColumnNames, CsvIngestion

A name is the sequence of the parts it is joined from with underscores, so that
`data_2` from a suffix and `data_2` from a file of that name are one. `FirstFree` is the
`while candidate in used` loop. `ColumnNames` takes one file both ways at once. Each reader gives it columns
(`Header`), `Dedupe` finds their names one at a time, then pandas' path
loads the table with them (`LoadClean`), and the native one goes once over the pairs of old and new names:
`KeepName` where they are one string, else `Rename`, which looks the old name up among the names the
columns have by then, without case as DuckDB does, or `RenameFails`, where another column has the new name. It
ends after the last pair (`RenamesDone`), whatever the columns are called. Of DuckDB's reader it is assumed that its
columns have different names, of pandas' nothing.

In `CsvIngestion` an upload keeps the event loop from `Resume` to its answer, so two
uploads exclude each other, but a reader thread and the close of the session
may come between any two steps. `Parse`, `CleaningRaises` and `Reject` are
the validation of the batch; `Plan` is what is read before the lock is taken;
`Create`, `Describe`, `Register` and `Assess` are one turn of the loading loop with
each place where it may raise; `Assess` may at any time, on an open connection too
(`compute_quality` runs queries of its own), and the table is registered by then. A file is small, large or bad; what is kept of its
contents is who uploaded it and its place in the batch.

### ResponseComposer

A result is a number of rows and, per column, a kind and the set of its null cells.
`ApplyRowLimit` is `apply_row_limit` (a `LIMIT` that is no literal is left alone), `Execute`
cuts the rows, `Compose` is `compose` with `_column_kinds` and `_shape_chart`. `Fail` is every end
in an error; `sql` says what `sql_used` holds: nothing, a statement that was refused, or the one that ran.

### AnswerViews

The value of row `p` in column `c` is the pair `<<p, c>>`, so that a chart that shows the wrong
number shows a wrong pair. `FlatRow` is the record `ChartView` writes for a point, `x` first and then the
series by name, later ones over earlier; `SeriesNames` are the names found in all points, a `Mark` is what
Recharts draws for a record that has a series' key, a bar for each (`Marks`), but a line only from one record to
the next (`LineMarks`: `dot={false}`, and `connectNulls` is off), `Slice` is what a pie takes of a point, `Hue` the colour.
`TableView`, `SqlDisclosure`, `ErrorCard` and `AnswerCard` are the components of those names and
the branches of `ChatMessage`.

### Frontend

Each tab runs `bootstrap` (two requests, then the stored id is used or replaced),
sends questions while none is pending, and uploads while other uploads are under
way. A request is served in one step and its answer seen in a later one; either may
fail. A reload forgets the tab's state while its requests still reach the backend.

### UploadForms

`Mounted` says which of the three forms the page renders: the empty page's (`hero`), the rail's (`aside`), the
sheet's. `Render` is React: a form that is not rendered any more loses its state, and its uploads
go on without it. `Choose` and `Drop` are `handleFiles` up to the request (the browser reports no change
when the selection that is already in the input is chosen again), `Accept`, `Reject` and
`Lose` the backend or the network, `Succeed` and `Fail` the rest of `handleFiles` with `handleUploaded`. A table
is told by how often its file has been loaded, which is how a stale listing is recognised.

## 3. Runs, bounds and what they show

Bounds are constants and named in the modules. Between them the passing runs take
every action of every module.

| Run | Instance | Shows |
|---|---|---|
| `SessionManager_requests` | 2 threads, 2 sessions, 2 requests each, TTL 1, clock to 2 | `RegisteredIsOpen`, `ClosedByOne`, `ConnUseExclusive`, `GoneStaysGone`, `NoEarlyEviction`; refinement `LifecycleRefined`; liveness `RequestsAnswered`, `RemovedIsClosed` |
| `RateLimiter_checks` | 2 threads, 2 sessions, 3 checks each, 2 tokens of 2 units, clock to 4 | `NeverInDebt`, `GrantsArePaid`, `RefusalJustified` |
| `QueryEngine_session` | 2 questions, 2 tables (one loaded later), 1 upload, history of 1; 4 statements: no `SELECT`, one of the new table, one whose CTE reads the old table beside another schema's table of that name, one that reads the new table beside a CTE of that name in another scope | `ConnExclusive`, `InterruptsOwn`, `RecordedOnce`, `OnlyKnownTables`, `FollowUpsSeeAnswers`; refinement `LogRefined`; liveness `Answered` (every question, and the event loop free again and again) |
| `ColumnNames_paths` | every file of 1 to 3 columns, repeated or not, called `a`, `A`, `a!`, `a_2` or `b`, as pandas and as DuckDB tell repeated ones apart, both paths | `NamesDistinct`, `SameNames` |
| `CsvIngestion_uploads` | 2 uploads of every batch of 1 or 2 files out of 3 names and 3 kinds, 1 reader | `ListedExist`, `EveryFileLoaded`, `RejectedLeavesNothing`, `SpoolsUnlinked`, `OwnTablesOnly`, `OneTablePerFile`, `ListingWhole`, `ReportsOfSameFile` |
| `Frontend_tabs` | 2 tabs, 2 page loads, 2 sessions, 2 questions, 2 files, 1 fault | `NothingForgotten`, `OnlyFailuresMoveOn`, `ChatFollowsLog` |
| `UploadForms_pages` | 3 uploads of 1 or 2 files, a pick that is refused, the sheet opened twice | `ListingFresh`, `OneUploadsErrors`, `LoadingShown`, `Retryable` |
| `ResponseComposer_answers` (of `AnswerViews`) | 0 to 5 rows, 1 to 3 columns, all null patterns for up to 2 columns and 3 rows, every naming of the columns from `x`, `a`, `b`, limits 0, 1, 3, 6 and the maximum 4, bars up to 3, pies up to 2, 2 colours | `Readable`, `LimitTold`, `DrawnAsGiven`, `ToldApart` |
| `SessionManager_closelock`, `QueryEngine_malformed`, `QueryEngine_references`, `CsvIngestion_partial` | small | the four disagreements of section 6 |

Why they are enough to be worth something:

* Two threads with two requests each are the least that lets a sweep race a sweep,
  a delete, a touch and a create, with a request that comes after a session is gone.
  Two sessions let a sweep fail at the second after it popped the first. A TTL of 1
  and a clock to 2 put an idle session exactly at, and one tick over, its TTL. What
  more threads could add to the safety properties is covered by the proofs.
* Two tokens and three checks per thread let a bucket run empty, refuse, refill in
  part and in full; two threads make the lost update and the stale clock happen.
* Two questions suffice for one to hold the lock, time out and be interrupted while
  the other waits, retries or records; the upload adds a table that was neither
  allowed nor shown, and waits for the lock while the second question is not yet
  dispatched. Longer histories, and a history full of later turns, are covered by the proof of `FollowUpsSeeAnswers`. The
  statements are one of each kind that the validation and DuckDB can see differently.
* `Data.csv` and `data.csv` share a stem and `data_2.csv` is what a suffix makes: two
  batches of two of them are the shortest chain in which a suffixed name meets a file
  of that name, a re-upload, and a file named twice. Column names are chosen alike: three of them
  that normalise to one name, two that DuckDB takes for one, and the name a suffix makes.
* Four rows as the maximum, with results of up to five and literal limits on both sides of it,
  reach both sides of every border in `compose` and `apply_row_limit`. Three rows let a number of a
  line stand alone between nulls. Three names for up to three
  columns give every coincidence: all alike, two alike, one of them `x`. Three series
  and two colours make a colour come round.
* Three uploads are the least in which two forms are busy while a third upload, of a
  form that has come back, is answered before them; a sheet opened twice is a
  form that is unmounted and mounted again under a late answer.

The type invariants are proved (section 5), and so no run repeats them. `SYMMETRY` is used only in runs without liveness, over sets whose members no
constant tells apart. A run ends in a stuttering action (`Stopped`, `Ended`) when the bounded
workload is over, so that TLC's deadlock check stays on and means something.

## 4. Fairness

Safety is checked and proved for `Spec`, without fairness. Liveness uses `FairSpec`:

* `SessionManager`: weak fairness of each thread's steps. The operating system
  runs threads that can run. Nothing is assumed of requests or of the clock. Weak
  fairness is enough for the lock, because each thread of the instance takes it at most
  `MaxRequests` times.
* `QueryEngine`: weak fairness of each question's thread and worker (`Dispatch` is the
  first step of a thread: a free event loop turns to the requests it has), and of an upload's taking of
  the lock and its end. This assumes that calls of the model return or time out
  (`llm_timeout_seconds`), that a question waiting for its query times out
  (`query_timeout_seconds`), that an interrupted query ends, and that an upload that has the lock ends.
  It does not assume that a query ends by itself, that the model answers well, or that
  anybody uploads or closes anything.
  `Answered` excludes behaviours in which a query that would run for ever has
  missed its interrupt (section 6). In the others every question ends, and the event loop, which
  an upload keeps while it waits for a question, is free infinitely often.

## 5. What is proved

All proofs are checked to the last leaf by `tlapm`, for every value of the constants
that satisfies the modules' named assumptions: sizes are natural numbers, capacity
and cost are positive, `None` is none of the other values (nor of the data of
uploads, `NoDataAssumption`), `Ids` is finite (so that
the sizes the dict's iterator compares are numbers), and in `ColumnNames`
the columns DuckDB's reader gives a file are different as DuckDB compares them, and normalised names are in lower case.

| Module | Theorems | Invariant that makes them inductive |
|---|---|---|
| `SessionManagerProofs` | `TypeCorrect`, `RegisteredSessionsAreOpen`, `ConnectionsClosedOnce`, `HandlersExclusive`, `SessionsStayGone`; `EvictionsNotEarly`; `RegistryIsAtomic` (it implements `SessionLifecycle`), and by it `SessionsOnlyAdvance`, `DeletesAreDone`; `LocksAreReleased`, `RemovedIsBeingClosed`, `NoRequestIsStuck`, `RequestsAreFinite` | `IInv`: which operation a thread at a given point may be serving (`PcOp`); the id of a create under way is nobody else's (`CreateFresh`); a thread inside the `with` holds the lock, also after the session was swept (`UserHoldsLock`); a request for a lost session has not passed the lookup (`Lost`). For evictions: no instant a thread holds of a session, nor one written to its record, lies before its creation, and what a sweep holds as expired is older than the TTL (`Ages`). For the refinement: a session's phase follows from the dict and its connection (`Phases`), a call's state from the point its thread has reached (`CallStates`). For progress: a lock that is taken has its user inside the `with`, a session popped and open is some thread's victim, and what a sweep holds as expired it has visited (`Progress`) |
| `RateLimiterProofs` | `TypeCorrect`, `SessionsSolvent`, `RefusalsJustified`, `GrantsPaid` | a level computed from a stale bucket, extrapolated to any later instant, is not negative (`PendingSolvent`), and one too low to admit comes from a bucket somebody used less than a token's time before (`PendingJustified`). For the grants: what a session was granted and what is in its bucket never exceed the capacity and what has flowed in, but for the units whose taking was overwritten, nor will they after a store under way, which undoes the grants made since it read the bucket (`Paid`) |
| `QueryEngineProofs` | `TypeCorrect`, `ConnectionExclusive`, `InterruptsContained`, `OnlyKnownTablesRead`, `AnswersRecordedOnce`, `FollowUpsRemember`; `ConversationIsLog` (it implements `ConversationLog`), `ConversationOnlyGrows`; `NoCircularWait`, `QuestionsAreFinite` | the lock's owner is at a point inside its `with`, and a worker exists only while its question is (`Holding`); tables are only added, so what was allowed was shown to the model and is still there (`Prompted`); a turn is appended in the step that settles the answer (`Recording`); the history a question read is a stretch of the log as it was, and nothing recorded before it asked lies after that stretch (`Remembering`); an upload that has the lock has the event loop (`LoopOfUploader`) |
| `IdentifierProofs` | `FirstFreeIsFree` | no induction over the loop: among one more suffixes than there are names in use, one is free (a surjection onto a finite set), and the least is taken |
| `IngestionProofs` | of `CsvIngestion`: `UploadsTyped`, `ListedTablesExist`, `FilesAreLoaded`, `NothingIsLeft`, `SpoolsAreUnlinked`, `OnlyOwnTables`, `FileBacksOneTable`, `ListingsAreWhole`, `ReportsAreOfTheirFile`, `NoUploadIsStuck`, `UploadsAreFinite`; of `ColumnNames`: `ColumnsTypeCorrect`, `DedupedNamesDistinct`, `PathsAgree` | who is on the event loop and inside the lock, and how far it is (`Steps`); what an upload read before it took the lock still holds but for its own tables (`Planned`), its tables hold its files (`Made`, `Whole`), tables, sources and reports are of one file (`Listed`, `Assessed`), what is on disk is not yet loaded (`Spooled`, `Waiting`); what a reader has seen stays true (`Readings`). For columns: each name was the first free one when it was given out (`Given`), and all are known when the renames begin (`Complete`); the columns before the one at hand have their new names, the others their old ones, all of them different as DuckDB compares them, so that an old name finds its own column (`Renaming`) |
| `AnswerViewsProofs` | `TypeCorrect`, `ChartsReadable`, `LimitsTold` for `ResponseComposer`; `ChartsFaithful`, `ChartsTellApart` for the screen; `ViewsShowAnswers` (`AnswerViews` implements `ResponseComposer`, which carries the former over) | at each stage the message is what the code made of the stage before (`Stages`), and a card is what the components make of the message (`CardShown`) |
| `FrontendProofs` | `TypeCorrect`, `ShownIsKept`, `ChatInOrder`, `TabsStay`, `InputIsFreed` | what a tab has shown is on record, and is on the page or will be once both answers of a restore are there (`Backed`, `Kept`); a tab awaits only requests of its present load, so of its present session (`Requests`); it awaits one answer at a time, which comes after all that its chat shows, in the log as on the page (`Ordered`, with each question on record once, `Once`); a tab that is alone leaves a session only when a restore finds it gone (`Home`); while the input is disabled an answer of the present load is on its way (`Inputs`) |
| `UploadFormsProofs` | `TypeCorrect`, `ListingsFresh`, `FileErrorsBelong`, `LoadingIsShown`, `SelectionsFreed` | a file that is not listed as loaded last has its answer on the way, unless it is `unsure` (`FreshInv`); what a form shows and holds belongs to an upload it has on its way, or to none (`FormsInv`) |

The proof about uploads goes in two parts: each step's effect on the upload that makes it, and that
nothing of any other upload is disturbed by it. What carries it is that the event loop lets one upload at a time past
`Resume`. `ingest_upload_batch` reads `table_sources` before it takes `session.lock`, so the names it
holds for used could be stale; that they are not (`StillUsed`, `StillThere`, `StillNew`) is due to
the loop and not to the lock, and would fail if `upload_csvs` were handed to a thread.

`SessionManager`'s and `QueryEngine`'s properties are not inductive by
themselves: `ConnUseExclusive`, for one, holds in states where two threads
are about to enter and the lock is owned by neither, from which it would break.

Only model-checked: liveness (`RequestsAnswered`, `RemovedIsClosed`, `Answered`), which
TLAPS cannot do under fairness. What of it is safety is proved, for any number of threads, questions
and uploads:

| | A request (`SessionManager`) | A question (`QueryEngine`) | An upload (`CsvIngestion`) |
|---|---|---|---|
| can go on, or waits for one that can | `NoRequestIsStuck`, `LocksAreReleased` | `NoCircularWait` | `NoUploadIsStuck` |
| has at most so many steps of its own left, one less after each, and nobody else adds any | `RequestsAreFinite`: 7 + 3n for n session ids | `QuestionsAreFinite`: 24, the retry included | `UploadsAreFinite`: 5n + 5 for n files |

`RemovedIsBeingClosed` is the same for a session taken out of the registry. What is left to TLC is
the step from there to "eventually": that a thread that can go on does, and that whoever waits for
a lock gets it in the end. "Can go on" (`CanGoOn`) is a state predicate in place of `ENABLED`; that the two agree
follows from the guards, and was compared by TLC on the instances of the runs. `NoCircularWait`
excepts, like `Answered`, a query that would run for ever and has missed its interrupt (section 6).

## 6. Where the code and its words differ

Checked by a run that TLC finds violated (`findings` in `PROJECT.json`):

| Run | Says | Does |
|---|---|---|
| `SessionManager_closelock` | "Every direct use of `conn` ... takes this lock first" (`session_manager.py:39-41`) | `close_session` and the sweep close the connection without it, under a handler that is using it |
| `QueryEngine_malformed` | malformed model output comes back as a result with `error` and is recorded (`query_engine.py:176-180`) | a tool call that is no JSON or lacks a key raises out of the handler: 500, no turn |
| `QueryEngine_references` | SQL "only ever reaches DuckDB after sqlglot confirms it is a single read-only SELECT that references tables already loaded into the session" (`query_engine.py:3-6`) | the names of all CTEs are taken from the bare names of the tables (`query_engine.py:72-74`): a statement that reads a table which is not loaded passes when a CTE of another scope has its name |
| `CsvIngestion_partial` | "Ingestion is all-or-nothing per upload request" (`csv_ingestion.py:3-6`) | the first of two parsed files is loaded and registered (`csv_ingestion.py:282`), its assessment raises, the upload ends in a 500, and the table stays; the second file is never loaded |

Seen in the code, with no run of their own:

* A table name qualified by a schema counts by its last part (`query_engine.py:72`), so a statement may read a table of
  another schema that has the name of a loaded one, or of one of its own CTEs. `OnlyKnownTables` speaks of tables of the
  session, the only ones the model is shown.
* "The exact, validated read-only query executed for this answer." (`SqlDisclosure.tsx:36-38`) is also
  the heading under an error, over the SQL of an attempt that was refused and never ran
  (`query_engine.py:263-265`, `280-281`; `ChatMessage.tsx:47`).
* "A chart response must never ship without some caption" (`query_engine.py:129-130`, also
  `response_composer.py:22-24`): the fallback stands in for a failure only, and a model that returns an empty
  summary (`llm_client.py:220`) leaves a chart without one.
* "Column naming rules must match the pandas path exactly" (`csv_ingestion.py:163-168`): pandas
  keeps `A` and `a` apart, which then become `a` and `a_2`, while DuckDB's reader takes them for one name and gives
  `A` and `a_1`, which become `a` and `a_1`. `SameNames` speaks of files whose columns the readers name
  alike up to normalisation.
* A failure of building the response after the question was recorded (`api/sessions.py:108`) is a 500
  with a turn; `RecordedOnce` speaks of `run_nl_query`, up to its return.

Seen with TLC by stating a stronger property, and reflected in the properties'
wording instead of a run:

* A sweep may evict a session that another request has just used: the scan compares
  with an instant read earlier, and a touch between scan and pop does not save it.
  `NoEarlyEviction` therefore bounds eviction from creation, not from the last use.
* Overlapping sweeps end a request in a 500 (`KeyError`, `RuntimeError`), which
  `SessionLifecycle` allows as `Fail`.
* Two overlapping checks may grant more than the bucket held: a lost update.
  `GrantsArePaid` bounds the excess by the units that stale stores have overwritten (`lost`).
* An interrupt sent before the worker has started its query, or after the connection
  was closed, has no effect, and the question waits for the query to end by itself,
  with the lock held, past the timeout.
* `created_at` is stamped before the turn is appended, so the times of a conversation
  need not ascend.
* A large file whose new name for one column is the name another column still has
  fails its upload (`csv_ingestion.py:178-180`), which the pandas path would load. `SameNames`
  speaks of tables that are loaded.
* Reports are looked up after the lock is released (`api/sessions.py:90-93`): a listing
  may pair a table with the report of a newer upload of the same file, nothing worse. A table
  whose assessment raised is listed without a report.
* A batch leaves its earlier tables in the session also when a later file fails while it is loaded, or
  the connection is closed under it; `CsvIngestion_partial` shows one way of several.
* The page drops its stored session on any failure of the restore, not only a 404
  (`page.tsx:45-47`), although the session is "persisted in `localStorage` across refreshes"
  (`README.md:158-159`).
* "Result truncated to the row limit." (`ChatMessage.tsx:40-42`) is shown whenever a `LIMIT` was added
  (`query_engine.py:86-87`), also when nothing was cut: `LimitTold` promises the other direction.
* A chart of two rows may have a single number, the other being null: `Readable` counts points.
* A line is drawn without dots (`ChartView.tsx:112`): a number with no other beside it in its series is not seen. A
  line chart may so be empty. `DrawnAsGiven` speaks of the others.
* A series called `x` replaces the axis label of its points, and of two series of one name only
  the last is drawn (`ChartView.tsx:83-87`). `DrawnAsGiven` speaks of plain names.
* When two uploads of one form cross, the first to end takes "Uploading..." away
  (`FileUpload.tsx:63`), and the errors shown may be of two uploads: `LoadingShown` and
  `OneUploadsErrors` except crossings.
* A selection that `handleFiles` refuses stays in the input (`FileUpload.tsx:45`), and choosing the same
  files again does nothing. `Retryable` speaks of selections that were sent.
* What the empty page's form or the sheet's has to say is lost when it is unmounted, an error of
  a second upload of the empty page among it; the list of tables stays behind the
  backend after a lost answer or one that was overtaken, until the page is loaded again.
* "Row limit applies regardless" (`README.md:267`): a `LIMIT` that is not a literal,
  and `FETCH FIRST`, are not capped. `LimitTold` speaks of the others.

## 7. What is not modelled

* Values: cells, prompts, SQL text beyond its references and CTEs, JSON, log lines. The
  coercion and outlier rules of `data_cleaning.py` are arithmetic on cells; only when
  they run and what their failure does is modelled.
* The OpenAI service, DuckDB and pandas: external; what the code relies on of
  them (iteration order of a dict, atomic single statements, interrupt, refusal of a
  duplicate column) is stated in the actions.
* The rate limiter in front of a question: the two modules share no state.
* Temporary files left after a 500: the repository promises nothing about them.
* The second bootstrap of React's development-only strict mode, the highlight while a file is
  dragged over a form, scrolling, styling, numbers on an axis (`formatAxisNumber`).
* The quality figures under a table: sums over its report.
* The three-dimensional backdrop, the theme, the wrappers of `components/ui`: no other part depends on
  their state.
* Configuration (the constants), logging, the health endpoint, scripts, deployment. That
  there is one backend process is assumed everywhere, as the repository's README says.

## 8. Plan

Order of work, most important behaviour first. Done: the session registry and its
abstract API; the rate limiter; questions, the conversation log and the event loop; column names;
uploads; tabs; upload forms; answers up to the screen; their runs; proofs about all of them, of the three refinements, and that
requests, questions and uploads neither wait in a circle nor take steps without end.
What is left:

1. **Data cleaning**: coercion (which columns are tried, when a column is converted, what is
   reported) and the quality report, as functions checked against a reference
   definition over small columns.
2. **Progress of the page**: that every upload form and every tab that waits has an answer coming, as it
   is proved for the chat's input (`InputIsFreed`).
3. **Composition** of `CsvIngestion`'s steps with `QueryEngine`'s, in place of the latter's short upload.

## 9. Running

    tlc -workers 2 -config SessionManager_requests.cfg MCSessionManager
    tlapm SessionManagerProofs.tla

Each run is a `.cfg` named after it, for the `MC` module listed in `PROJECT.json`; none
takes longer than four minutes on two workers. `PROJECT.json` also lists, for every
property, a mutation of the modelled code (an operator defined next to the one it
replaces) under which the property fails.
