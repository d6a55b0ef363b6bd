---------------------------- MODULE CsvIngestion ----------------------------
(***************************************************************************)
(* Uploads to one session (backend/app/services/csv_ingestion.py, handler  *)
(* upload_csvs in api/sessions.py) beside the threads that list its tables *)
(* (get_tables) and those that close it.                                   *)
(*                                                                         *)
(* upload_csvs is a coroutine.  Several uploads may be awaiting their      *)
(* bodies, but from the first file parsed to the response an upload never  *)
(* awaits: it keeps the event loop, and with it every other upload out.    *)
(* It takes session.lock only to load the tables.  Synchronous handlers    *)
(* run on threads of their own and may come between any two of its steps.  *)
(***************************************************************************)
EXTENDS Identifiers

CONSTANTS
    Uploads,        \* requests POST /sessions/{id}/upload
    Readers,        \* requests GET /sessions/{id}/tables
    Filenames,
    Stem,           \* normalize_identifier(stem, "table") of each filename
    Batches,        \* what a client may upload: sequences of files
    None

\* bad: refused by _read_and_validate_csv.  large: over large_file_threshold_mb.
File == [name: Filenames, kind: {"small", "large", "bad"}]

ASSUME StemAssumption == Stem \in [Filenames -> Name]
ASSUME BatchesAssumption == \A b \in Batches : b \in Seq(File) /\ b # <<>>
ASSUME NoneAssumption == None \notin Uploads /\ None \notin Name

VARIABLES
    tables,         \* the tables in DuckDB: of each, the file it was loaded from
    sources,        \* session.table_sources, in insertion order
    quality,        \* session.table_quality: of each report, the file it describes
    temp,           \* the temporary files on disk
    open,           \* session.conn has not been closed
    lock,           \* session.lock: the upload that holds it
    loop,           \* the upload on the event loop
    up,             \* each upload and its local variables
    rd              \* each reader and its local variables

vars == <<tables, sources, quality, temp, open, lock, loop, up, rd>>
session == <<tables, sources, quality, open>>

\* The contents of a file: the upload it came with and its place in the batch.
Data == Uploads \X Nat

ASSUME NoDataAssumption == None \notin Data

\* parsed: places of the files that passed validation.  replaces:
\* table_name_by_filename.  made: the tables loaded, in order.
Upload == [pc: {"new", "reading", "parse", "lock", "create", "describe", "register",
                "assess", "respond", "done"},
           batch: Batches \cup {<<>>}, i: Nat, parsed: Seq(Nat), errors: BOOLEAN,
           replaces: [Filenames -> Name \cup {None}], used: SUBSET Name,
           claimed: SUBSET Filenames, made: Seq(Name),
           answer: {"none", "200", "400", "500"}]

\* listed: what list_tables returned.  shown: the data and the report (of which
\* data) of each table in the answer.
Reader == [pc: {"new", "listed", "done"}, listed: SUBSET (Name \X Data),
           shown: SUBSET (Data \X (Data \cup {None}))]

TypeOK ==
    /\ DOMAIN tables \subseteq Name /\ \A n \in DOMAIN tables : tables[n] \in Data
    /\ DOMAIN quality \subseteq Name /\ \A n \in DOMAIN quality : quality[n] \in Data
    /\ sources \in Seq([name: Name, file: Filenames])
    /\ temp \subseteq Data
    /\ open \in BOOLEAN
    /\ {lock, loop} \subseteq Uploads \cup {None}
    /\ up \in [Uploads -> Upload]
    /\ rd \in [Readers -> Reader]

Init ==
    /\ tables = <<>> /\ sources = <<>> /\ quality = <<>>
    /\ temp = {}
    /\ open = TRUE
    /\ lock = None
    /\ loop = None
    /\ up = [u \in Uploads |->
               [pc |-> "new", batch |-> <<>>, i |-> 1, parsed |-> <<>>, errors |-> FALSE,
                replaces |-> [f \in Filenames |-> None], used |-> {}, claimed |-> {},
                made |-> <<>>, answer |-> "none"]]
    /\ rd = [r \in Readers |-> [pc |-> "new", listed |-> {}, shown |-> {}]]

-----------------------------------------------------------------------------
(* Helpers.                                                                *)

\* d[key] = value, of a Python dict.
Put(d, key, value) == [k \in DOMAIN d \cup {key} |-> IF k = key THEN value ELSE d[k]]

Registered == {sources[j].name : j \in 1 .. Len(sources)}
Of(file) == {j \in 1 .. Len(sources) : sources[j].file = file}

\* An exception other than HTTPException leaves the handler: 500.
Raise(u) ==
    /\ up' = [up EXCEPT ![u].pc = "done", ![u].answer = "500"]
    /\ lock' = None
    /\ loop' = None

\* The file being loaded, its place in the batch, and its table.
Place(u) == up[u].parsed[up[u].i]
Current(u) == up[u].batch[Place(u)]
Target(u) == up[u].made[Len(up[u].made)]

-----------------------------------------------------------------------------
(* upload_csvs: get_session, await f.read() of every file, and then        *)
(* ingest_upload_batch without another await.                              *)

Receive(u, batch) ==
    /\ up[u].pc = "new"
    /\ loop = None
    /\ up' = [up EXCEPT ![u].pc = "reading", ![u].batch = batch]
    /\ UNCHANGED <<session, temp, lock, loop, rd>>

Resume(u) ==
    /\ up[u].pc = "reading"
    /\ loop = None
    /\ loop' = u
    /\ up' = [up EXCEPT ![u].pc = "parse"]
    /\ UNCHANGED <<session, temp, lock, rd>>

\* _read_and_validate_csv, _clean_columns, clean_values of the next file.  A large
\* file is spooled for DuckDB to read; if the probe refuses it, unlinked again.
Parse(u) ==
    /\ up[u].pc = "parse"
    /\ up[u].i <= Len(up[u].batch)
    /\ LET kind == up[u].batch[up[u].i].kind IN
       \/ /\ kind = "bad"
          /\ up' = [up EXCEPT ![u].errors = TRUE, ![u].i = @ + 1]
          /\ UNCHANGED temp
       \/ /\ kind # "bad"
          /\ up' = [up EXCEPT ![u].parsed = Append(@, up[u].i), ![u].i = @ + 1]
          /\ temp' = IF kind = "large" THEN temp \cup {<<u, up[u].i>>} ELSE temp
    /\ UNCHANGED <<session, lock, loop, rd>>

\* clean_values is outside the try: whatever pandas raises in it ends the request.
CleaningRaises(u) ==
    /\ up[u].pc = "parse"
    /\ up[u].i <= Len(up[u].batch)
    /\ up[u].batch[up[u].i].kind = "small"
    /\ Raise(u)
    /\ UNCHANGED <<session, temp, rd>>

\* One bad file: unlink what was spooled, 400.  The mutant leaves it on disk.
RejectOnly(u) ==
    /\ up[u].pc = "parse" /\ up[u].i > Len(up[u].batch)
    /\ up[u].errors
    /\ loop' = None
    /\ up' = [up EXCEPT ![u].pc = "done", ![u].answer = "400"]
    /\ UNCHANGED <<session, temp, lock, rd>>
Reject(u) ==
    /\ up[u].pc = "parse" /\ up[u].i > Len(up[u].batch)
    /\ up[u].errors
    /\ temp' = temp \ {<<u, up[u].parsed[j]>> : j \in 1 .. Len(up[u].parsed)}
    /\ loop' = None
    /\ up' = [up EXCEPT ![u].pc = "done", ![u].answer = "400"]
    /\ UNCHANGED <<session, lock, rd>>

\* table_name_by_filename: the first table registered for the file.  The mutant
\* takes key and value of table_sources the wrong way round.
FirstSourceOf(f) ==
    IF Of(f) = {} THEN None
    ELSE sources[CHOOSE j \in Of(f) : \A k \in Of(f) : j <= k].file
FirstTableOf(f) ==
    IF Of(f) = {} THEN None
    ELSE sources[CHOOSE j \in Of(f) : \A k \in Of(f) : j <= k].name

\* The names an upload must not take.  The mutant forgets the session's own.
NoNames == {}
NamesInUse == Registered

\* Both are read before the lock is taken.
Plan(u) ==
    /\ up[u].pc = "parse" /\ up[u].i > Len(up[u].batch)
    /\ ~up[u].errors
    /\ up' = [up EXCEPT ![u].pc = "lock", ![u].i = 1, ![u].used = NamesInUse,
                        ![u].replaces = [f \in Filenames |-> FirstTableOf(f)]]
    /\ UNCHANGED <<session, temp, lock, loop, rd>>

\* with session.lock: the event loop waits, too.
TakeLock(u) ==
    /\ up[u].pc = "lock"
    /\ lock = None
    /\ lock' = u
    /\ up' = [up EXCEPT ![u].pc = "create"]
    /\ UNCHANGED <<session, temp, loop, rd>>

\* The table of the current file: the one it replaces, for its first occurrence
\* in the batch, or a new name.  The mutants: a name for every file, and a
\* re-upload that replaces as often as it occurs.
AlwaysNew(u) == FirstFree(Stem[Current(u).name], up[u].used)
Unclaimed(u) ==
    LET f == Current(u).name IN
    IF up[u].replaces[f] # None THEN up[u].replaces[f]
    ELSE FirstFree(Stem[f], up[u].used)
NameFor(u) ==
    LET f == Current(u).name IN
    IF up[u].replaces[f] # None /\ f \notin up[u].claimed THEN up[u].replaces[f]
    ELSE FirstFree(Stem[f], up[u].used)

\* Choose the table, then CREATE OR REPLACE it, all or nothing.  A large file may
\* fail only now (the probe saw its first rows); a closed connection fails every
\* statement.  The temporary file is unlinked in any case.  The mutant does so
\* after the statement, not in the `finally`.
CreateThenUnlink(u) ==
    /\ up[u].pc = "create"
    /\ up[u].i <= Len(up[u].parsed)
    /\ \/ /\ open
          /\ temp' = temp \ {<<u, Place(u)>>}
          /\ LET name == NameFor(u) IN
             /\ tables' = Put(tables, name, <<u, Place(u)>>)
             /\ up' = [up EXCEPT ![u].pc = "describe", ![u].used = @ \cup {name},
                                 ![u].claimed = @ \cup {Current(u).name},
                                 ![u].made = Append(@, name)]
          /\ UNCHANGED <<lock, loop>>
       \/ Raise(u) /\ UNCHANGED <<tables, temp>>
    /\ UNCHANGED <<sources, quality, open, rd>>
Create(u) ==
    /\ up[u].pc = "create"
    /\ up[u].i <= Len(up[u].parsed)
    /\ temp' = temp \ {<<u, Place(u)>>}
    /\ \/ /\ open
          /\ LET name == NameFor(u) IN
             /\ tables' = Put(tables, name, <<u, Place(u)>>)
             /\ up' = [up EXCEPT ![u].pc = "describe", ![u].used = @ \cup {name},
                                 ![u].claimed = @ \cup {Current(u).name},
                                 ![u].made = Append(@, name)]
          /\ UNCHANGED <<lock, loop>>
       \/ Raise(u) /\ UNCHANGED tables
    /\ UNCHANGED <<sources, quality, open, rd>>

\* The renames of a large file's columns (ColumnNames), one of which may fail,
\* and the description of the table.  The mutant drops the table that failed.
DescribeOrDrop(u) ==
    /\ up[u].pc = "describe"
    /\ \/ /\ open
          /\ up' = [up EXCEPT ![u].pc = "register"]
          /\ UNCHANGED <<tables, lock, loop>>
       \/ /\ ~open \/ Current(u).kind = "large"
          /\ Raise(u)
          /\ tables' = [n \in DOMAIN tables \ {Target(u)} |-> tables[n]]
    /\ UNCHANGED <<sources, quality, open, temp, rd>>
Describe(u) ==
    /\ up[u].pc = "describe"
    /\ \/ /\ open
          /\ up' = [up EXCEPT ![u].pc = "register"]
          /\ UNCHANGED <<lock, loop>>
       \/ (~open \/ Current(u).kind = "large") /\ Raise(u)
    /\ UNCHANGED <<session, temp, rd>>

\* table_sources[name] = filename; a name that is there keeps its position.
Register(u) ==
    /\ up[u].pc = "register"
    /\ LET new == [name |-> Target(u), file |-> Current(u).name] IN
       sources' = IF new.name \in Registered
                  THEN [j \in 1 .. Len(sources) |->
                          IF sources[j].name = new.name THEN new ELSE sources[j]]
                  ELSE Append(sources, new)
    /\ up' = [up EXCEPT ![u].pc = "assess"]
    /\ UNCHANGED <<tables, quality, temp, open, lock, loop, rd>>

\* table_quality[name] = compute_quality(...).  One of its queries may fail, also on
\* an open connection (a table may bear the name of the CTE in it): the table
\* is registered by then.
Assess(u) ==
    /\ up[u].pc = "assess"
    /\ \/ /\ open
          /\ quality' = Put(quality, Target(u), tables[Target(u)])
          /\ up' = [up EXCEPT ![u].pc = "create", ![u].i = @ + 1]
          /\ UNCHANGED <<lock, loop>>
       \/ Raise(u) /\ UNCHANGED quality
    /\ UNCHANGED <<tables, sources, temp, open, rd>>

Unlock(u) ==
    /\ up[u].pc = "create"
    /\ up[u].i > Len(up[u].parsed)
    /\ lock' = None
    /\ up' = [up EXCEPT ![u].pc = "respond"]
    /\ UNCHANGED <<session, temp, loop, rd>>

\* UploadResponse: the tables described, each with its report.
Respond(u) ==
    /\ up[u].pc = "respond"
    /\ loop' = None
    /\ up' = [up EXCEPT ![u].pc = "done", ![u].answer = "200"]
    /\ UNCHANGED <<session, temp, lock, rd>>

-----------------------------------------------------------------------------
(* The threads beside them.                                                *)

\* list_tables: every table of table_sources, described under the lock (on a
\* closed connection that raises).  The mutant does not take the lock.
ListUnlocked(r) ==
    /\ rd[r].pc = "new"
    /\ rd' = IF open \/ sources = <<>>
             THEN [rd EXCEPT ![r].pc = "listed",
                             ![r].listed = {<<n, tables[n]>> : n \in Registered}]
             ELSE [rd EXCEPT ![r].pc = "done"]
    /\ UNCHANGED <<session, temp, lock, loop, up>>
ListTables(r) ==
    /\ rd[r].pc = "new"
    /\ lock = None
    /\ rd' = IF open \/ sources = <<>>
             THEN [rd EXCEPT ![r].pc = "listed",
                             ![r].listed = {<<n, tables[n]>> : n \in Registered}]
             ELSE [rd EXCEPT ![r].pc = "done"]
    /\ UNCHANGED <<session, temp, lock, loop, up>>

\* get_tables: the reports, looked up after the lock has been left.
AddReports(r) ==
    /\ rd[r].pc = "listed"
    /\ rd' = [rd EXCEPT ![r].pc = "done",
                        ![r].shown = {<<t[2], IF t[1] \in DOMAIN quality
                                              THEN quality[t[1]] ELSE None>> :
                                      t \in rd[r].listed}]
    /\ UNCHANGED <<session, temp, lock, loop, up>>

\* A sweep or a delete closes the connection, at any moment.
CloseConn ==
    /\ open
    /\ open' = FALSE
    /\ UNCHANGED <<tables, sources, quality, temp, lock, loop, up, rd>>

Stopped ==
    /\ \A u \in Uploads : up[u].pc = "done"
    /\ UNCHANGED vars

Next ==
    \/ \E u \in Uploads :
          \/ \E batch \in Batches : Receive(u, batch)
          \/ Resume(u) \/ Parse(u) \/ CleaningRaises(u) \/ Reject(u)
          \/ Plan(u) \/ TakeLock(u)
          \/ Create(u) \/ Describe(u) \/ Register(u) \/ Assess(u)
          \/ Unlock(u) \/ Respond(u)
    \/ \E r \in Readers : ListTables(r) \/ AddReports(r)
    \/ CloseConn
    \/ Stopped

Spec == Init /\ [][Next]_vars

-----------------------------------------------------------------------------
(* Safety.                                                                 *)

\* Every table the session lists is in DuckDB, whichever step of which upload
\* failed: otherwise every later listing, and with it every question, would fail.
ListedExist ==
    /\ Registered \subseteq DOMAIN tables
    /\ \A j, k \in 1 .. Len(sources) : sources[j].name = sources[k].name => j = k

\* A file that passes is in the session when its upload answers 200: two files
\* of a batch never end in one table, whatever their names have in common and
\* whatever the suffixed names run into; each table is registered, assessed, and
\* no temporary file is left.
EveryFileLoaded ==
    \A u \in Uploads : up[u].pc = "respond" =>
        /\ Len(up[u].made) = Len(up[u].batch)
        /\ \A j \in 1 .. Len(up[u].batch) :
              LET name == up[u].made[j] IN
              /\ tables[name] = <<u, j>>
              /\ quality[name] = <<u, j>>
              /\ \E k \in 1 .. Len(sources) :
                    sources[k] = [name |-> name, file |-> up[u].batch[j].name]
              /\ <<u, j>> \notin temp

\* A rejected batch leaves nothing behind: no table, no report, no temporary
\* file, although some of its files had been parsed or spooled.
RejectedLeavesNothing ==
    \A u \in Uploads : up[u].answer = "400" =>
        \A j \in 1 .. Len(up[u].batch) :
            /\ <<u, j>> \notin temp
            /\ \A n \in DOMAIN tables : tables[n] # <<u, j>>
            /\ \A n \in DOMAIN quality : quality[n] # <<u, j>>

\* A temporary file never outlives its use: it is there only for a file that was
\* not loaded, of an upload under way or of one that ended in a 500, and then it is
\* not the file that failed.
SpoolsUnlinked ==
    \A d \in temp :
        /\ up[d[1]].answer \in {"none", "500"}
        /\ up[d[1]].answer = "500" => d[2] # up[d[1]].i
        /\ \A n \in DOMAIN tables : tables[n] # d

\* Data is replaced only by a newer upload of the same file: no other file,
\* however named, overwrites a table of the session.
OwnTablesOnly ==
    [][\A j \in 1 .. Len(sources) : \A u \in Uploads :
          LET n == sources[j].name IN
          up[u].pc = "create" /\ tables'[n] # tables[n] =>
              Current(u).name = sources[j].file]_vars

\* "Re-uploading a filename that already backs a table replaces that table": as
\* long as no batch names a file twice, a file backs at most one table, also
\* when some of the uploads failed half-way.
NamedOnce(b) == \A j, k \in 1 .. Len(b) : b[j].name = b[k].name => j = k
OneTablePerFile ==
    (\A u \in Uploads : NamedOnce(up[u].batch)) =>
        \A j, k \in 1 .. Len(sources) : sources[j].file = sources[k].file => j = k

\* A listing, and the schema shown to the model, is never of a batch that is
\* being loaded: with one table of an upload that succeeds it has them all.
ListingWhole ==
    \A r \in Readers, u \in Uploads :
        up[u].answer = "200" =>
            LET listed == {t[1] : t \in rd[r].listed}
                mine == {up[u].made[j] : j \in 1 .. Len(up[u].made)}
            IN  (\E t \in rd[r].listed : t[2][1] = u) => mine \subseteq listed

\* Although the reports are looked up after the lock has been left, a table is
\* never shown with one of another file (the report may be of another upload of the
\* same file), and without one only if the upload that loaded it failed.
FileOf(d) == up[d[1]].batch[d[2]].name
ReportsOfSameFile ==
    \A r \in Readers : \A s \in rd[r].shown :
        IF s[2] = None THEN up[s[1][1]].answer = "500" ELSE FileOf(s[2]) = FileOf(s[1])

-----------------------------------------------------------------------------
(* What the repository says and the code does not do.                      *)

\* "Ingestion is all-or-nothing per upload request ... keeps a failed batch from
\* leaving the session in a half-updated state".
InSession(d) == \E n \in Registered : tables[n] = d
AllOrNothing ==
    \A u \in Uploads : up[u].answer \in {"400", "500"} =>
        \A j, k \in 1 .. Len(up[u].batch) : InSession(<<u, j>>) => InSession(<<u, k>>)
=============================================================================
