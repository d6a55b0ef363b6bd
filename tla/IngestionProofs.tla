--------------------------- MODULE IngestionProofs ---------------------------
(***************************************************************************)
(* Proofs about the ingestion of files: CsvIngestion for any number of     *)
(* uploads, readers, files and batches, and ColumnNames for every file.    *)
(*                                                                         *)
(* An upload has the event loop from its first file parsed to its answer,  *)
(* so of all uploads at most one has a plan or a batch half loaded (Steps: *)
(* Exclusive, Progress).  What it read before it took the lock - the names *)
(* in use, the table each file is to replace - still stands when it is     *)
(* used, but for what the upload has itself made since (Planned): that is  *)
(* why a name it gives out is free, why a table it replaces is one of the  *)
(* same file, and why a file named once in its batch gets one table.       *)
(*                                                                         *)
(* Data, once loaded, is known by its upload and its place in the batch;   *)
(* tables, sources and reports are about the same file (Listed, Made), and *)
(* nothing is ever taken out of them, so what a reader has seen stays true *)
(* (Readings).                                                             *)
(*                                                                         *)
(* The lock is only ever held by the upload on the event loop, which never *)
(* waits for anything but the lock: hence no waiting in a circle, and the  *)
(* steps an upload has left (Work) count down to its answer.               *)
(*                                                                         *)
(* Column names are given out one by one and each is free when it is given *)
(* (IdentifierProofs); a name so given is its own folded form (Given), so  *)
(* no two are one name to DuckDB.  The columns of a table differ all the   *)
(* time, so a rename finds the column whose turn it is, whatever the       *)
(* earlier ones are called by then (Renaming).  The names follow from the  *)
(* normalised columns alone: at the least place where the two paths        *)
(* differed, the same names would be in use.                               *)
(***************************************************************************)
EXTENDS CsvIngestion, ColumnNames, IdentifierProofs

USE StemAssumption, BatchesAssumption, NoneAssumption

-----------------------------------------------------------------------------
(* The inductive invariant of CsvIngestion.                                *)

\* Where an upload is on the event loop; where it holds the lock; where all its files
\* are parsed.
Active == {"parse", "lock", "create", "describe", "register", "assess", "respond"}
Inside == {"create", "describe", "register", "assess"}
Loading == {"lock", "respond"} \cup Inside

\* An upload that has come so far keeps the event loop, or holds the lock.
Exclusive ==
    \A u \in Uploads :
        /\ loop = u <=> up[u].pc \in Active
        /\ lock = u <=> up[u].pc \in Inside

\* The places of a batch that passes are parsed, and then loaded, in order.
InOrder(u, n) ==
    Len(up[u].parsed) = n /\ \A j \in 1 .. Len(up[u].parsed) : up[u].parsed[j] = j
Progress(u) ==
    /\ up[u].pc \in {"new", "reading"} =>
          up[u].i = 1 /\ up[u].parsed = <<>> /\ ~up[u].errors
    /\ up[u].pc = "new" => up[u].batch = <<>>
    /\ up[u].pc \in {"parse"} \cup Loading => up[u].i \in 1 .. Len(up[u].batch) + 1
    /\ up[u].pc = "parse" /\ ~up[u].errors => InOrder(u, up[u].i - 1)
    /\ up[u].pc \in Loading => InOrder(u, Len(up[u].batch)) /\ IsFiniteSet(up[u].used)
    /\ up[u].pc = "create" => Len(up[u].made) = up[u].i - 1
    /\ up[u].pc \in Inside \ {"create"} =>
          /\ up[u].i <= Len(up[u].batch) /\ Len(up[u].made) = up[u].i
          /\ Target(u) \in DOMAIN tables
    /\ up[u].pc = "respond" \/ up[u].answer = "200" =>
          Len(up[u].made) = Len(up[u].batch)
    /\ up[u].pc \notin Inside \cup {"respond", "done"} \/ up[u].answer = "400" =>
          up[u].made = <<>>
    /\ up[u].pc \notin Inside \cup {"respond", "done"} => up[u].claimed = {}
    /\ up[u].pc = "lock" => up[u].i = 1
    /\ up[u].pc = "respond" => up[u].i = Len(up[u].batch) + 1
    /\ up[u].pc # "done" <=> up[u].answer = "none"

Steps == TypeOK /\ Exclusive /\ \A u \in Uploads : Progress(u)

\* Whether the upload that some data came with has begun to load; whether an upload
\* has failed.
Begun(d) == up[d[1]].made # <<>>
Failed(v) == up[v].pc = "done" /\ up[v].answer = "500"

\* The session's tables, files and reports agree.
Listed ==
    /\ ListedExist
    /\ DOMAIN quality \subseteq Registered
    /\ \A n \in DOMAIN tables : Begun(tables[n])
    /\ \A n \in DOMAIN quality : Begun(quality[n])
    /\ \A k \in 1 .. Len(sources) :
          LET n == sources[k].name IN
          /\ FileOf(tables[n]) = sources[k].file
          /\ n \in DOMAIN quality => FileOf(quality[n]) = sources[k].file

\* The session still is as it was when the upload made its plan, but for the tables
\* of its own: names in use are known, a table to be replaced is one of the same file.
Logged(u, j) == j < up[u].i \/ up[u].pc = "assess"
MadeBy(u, f) == \E j \in 1 .. Len(up[u].made) : up[u].batch[j].name = f
StillUsed(u) ==
    /\ Registered \subseteq up[u].used
    /\ \A j \in 1 .. Len(up[u].made) : up[u].made[j] \in up[u].used
StillThere(u) ==
    \A f \in Filenames : up[u].replaces[f] # None =>
        \E k \in 1 .. Len(sources) : sources[k] = [name |-> up[u].replaces[f], file |-> f]
StillNew(u) ==
    \A f \in Filenames : up[u].replaces[f] = None /\ Of(f) # {} =>
        \E j \in 1 .. Len(up[u].made) : up[u].batch[j].name = f /\ Logged(u, j)

\* The first file of a name, and no other file, has replaced the table of that name.
FirstReplaces(u) ==
    /\ \A f \in Filenames : f \in up[u].claimed <=> MadeBy(u, f)
    /\ \A j \in 1 .. Len(up[u].made) : \A f \in Filenames :
          up[u].made[j] = up[u].replaces[f] => up[u].batch[j].name = f
    /\ \A f \in Filenames : MadeBy(u, f) /\ up[u].replaces[f] # None =>
          \E j \in 1 .. Len(up[u].made) :
              up[u].batch[j].name = f /\ up[u].made[j] = up[u].replaces[f]

Planned(u) ==
    up[u].pc \in Loading =>
        StillUsed(u) /\ StillThere(u) /\ StillNew(u) /\ FirstReplaces(u)

\* The tables an upload has made hold its files, in order.
LoadedAt(u, j) ==
    LET n == up[u].made[j] IN
    /\ n \in DOMAIN tables /\ tables[n] = <<u, j>>
    /\ <<u, j>> \notin temp
    /\ Logged(u, j) =>
          \E k \in 1 .. Len(sources) :
              sources[k] = [name |-> n, file |-> up[u].batch[j].name]
    /\ j < up[u].i => n \in DOMAIN quality /\ quality[n] = <<u, j>>
Loaded(u) == \A j \in 1 .. Len(up[u].made) : LoadedAt(u, j)
Made(u) == up[u].pc \in Inside \cup {"respond"} => Loaded(u)

\* A temporary file belongs to a batch that has not been refused.
SpooledAt(d) ==
    LET v == d[1] IN
    /\ up[v].answer # "400" /\ up[v].pc \notin {"new", "reading"}
    /\ up[v].pc = "parse" =>
          \E j \in 1 .. Len(up[v].parsed) : up[v].parsed[j] = d[2]
Spooled == \A d \in temp : SpooledAt(d)

\* A table without a report is the one at hand, or was loaded by an upload that failed.
Assessed ==
    \A n \in Registered \ DOMAIN quality :
        LET v == tables[n][1] IN
        Failed(v) \/ (up[v].pc \in {"describe", "register", "assess"} /\ Target(v) = n)

\* An upload that succeeds has registered all it made.
Whole(u) ==
    up[u].pc = "respond" \/ up[u].answer = "200" =>
        \A j \in 1 .. Len(up[u].made) : up[u].made[j] \in Registered

Agree ==
    /\ Listed /\ Spooled /\ Assessed /\ OneTablePerFile
    /\ \A u \in Uploads : Planned(u) /\ Made(u) /\ Whole(u)

\* What a reader has listed is registered, assessed unless its upload failed, and was
\* loaded by an upload that is past its loading, with all that this upload has made.
HasListed(L) ==
    /\ \A t \in L :
          /\ t[1] \in DOMAIN quality \/ Failed(t[2][1])
          /\ Begun(t[2])
          /\ up[t[2][1]].pc \in {"respond", "done"}
          /\ \E k \in 1 .. Len(sources) :
                sources[k] = [name |-> t[1], file |-> FileOf(t[2])]
    /\ \A t \in L : LET u == t[2][1] IN
          up[u].pc = "respond" \/ up[u].answer = "200" =>
              \A j \in 1 .. Len(up[u].made) : \E s \in L : s[1] = up[u].made[j]

\* What it shows of a table has a report, of a batch that named the same file, or is
\* of an upload that failed.
HasShown(S) ==
    \A s \in S :
        /\ Begun(s[1])
        /\ IF s[2] = None THEN Failed(s[1][1])
           ELSE Begun(s[2]) /\ FileOf(s[1]) = FileOf(s[2])

Reading(r) == HasListed(rd[r].listed) /\ HasShown(rd[r].shown)
Readings == \A r \in Readers : Reading(r)

-----------------------------------------------------------------------------
(* Facts used at every step.                                               *)

\* Only upload u moves.
Moves(u) == /\ up' \in [Uploads -> Upload]
            /\ \A v \in Uploads \ {u} : up'[v] = up[v]

LEMMA UploadStep ==
    ASSUME TypeOK, NEW u \in Uploads, NEW r \in Upload, up' = [up EXCEPT ![u] = r]
    PROVE  /\ up' \in [Uploads -> Upload]
           /\ up'[u] = r
           /\ \A v \in Uploads \ {u} : up'[v] = up[v]
BY DEF TypeOK

\* The fields of an upload.
LEMMA UploadTyped ==
    ASSUME TypeOK, NEW u \in Uploads
    PROVE  /\ up[u] \in Upload
           /\ up[u].batch \in Seq(File) /\ Len(up[u].batch) \in Nat
           /\ up[u].i \in Nat
           /\ up[u].parsed \in Seq(Nat) /\ Len(up[u].parsed) \in Nat
           /\ up[u].made \in Seq(Name) /\ Len(up[u].made) \in Nat
<1>1. up[u] \in Upload
  BY DEF TypeOK
<1>2. up[u].batch \in Seq(File)
  <2>1. <<>> \in Seq(File)
    OBVIOUS
  <2> QED
    BY <1>1, <2>1 DEF Upload
<1>3. up[u].i \in Nat /\ up[u].parsed \in Seq(Nat) /\ up[u].made \in Seq(Name)
  BY <1>1 DEF Upload
<1> QED
  BY <1>1, <1>2, <1>3, LenProperties

\* A file of the batch.
LEMMA FileTyped ==
    ASSUME TypeOK, NEW u \in Uploads, NEW j \in 1 .. Len(up[u].batch)
    PROVE  up[u].batch[j] \in File /\ up[u].batch[j].name \in Filenames
<1>1. up[u].batch[j] \in File
  BY UploadTyped, ElementOfSeq
<1> QED
  BY <1>1 DEF File

\* The entries of table_sources.
LEMMA SourcesTyped ==
    ASSUME TypeOK
    PROVE  /\ Len(sources) \in Nat
           /\ \A j \in 1 .. Len(sources) :
                 /\ sources[j] \in [name: Name, file: Filenames]
                 /\ sources[j].name \in Name /\ sources[j].file \in Filenames
                 /\ sources[j].name \in Registered
           /\ Registered \subseteq Name
<1>1. sources \in Seq([name: Name, file: Filenames]) /\ Len(sources) \in Nat
  BY LenProperties DEF TypeOK
<1>2. \A j \in 1 .. Len(sources) : sources[j] \in [name: Name, file: Filenames]
  BY <1>1, ElementOfSeq
<1> QED
  BY <1>1, <1>2 DEF Registered

\* The first table of a file is one of its tables.
LEMMA FirstTable ==
    ASSUME TypeOK, NEW f \in Filenames, Of(f) # {}
    PROVE  \E j \in 1 .. Len(sources) :
              sources[j].file = f /\ sources[j].name = FirstTableOf(f)
<1>1. Of(f) \in SUBSET Nat
  BY SourcesTyped DEF Of
<1>2. PICK n \in Of(f) : \A m \in Of(f) : n <= m
  BY <1>1, LeastNumber
<1> DEFINE j == CHOOSE j \in Of(f) : \A k \in Of(f) : j <= k
<1>3. j \in Of(f)
  BY <1>2
<1>4. FirstTableOf(f) = sources[j].name
  BY DEF FirstTableOf
<1> HIDE DEF j
<1> QED
  BY <1>3, <1>4 DEF Of

LEMMA PlanTyped ==
    ASSUME TypeOK
    PROVE  /\ NamesInUse \in SUBSET Name
           /\ [f \in Filenames |-> FirstTableOf(f)] \in [Filenames -> Name \cup {None}]
           /\ IsFiniteSet(NamesInUse)
<1>1. NamesInUse \in SUBSET Name
  BY SourcesTyped DEF NamesInUse
<1>2. \A f \in Filenames : FirstTableOf(f) \in Name \cup {None}
  <2> TAKE f \in Filenames
  <2>1. CASE Of(f) = {}
    BY <2>1 DEF FirstTableOf
  <2>2. CASE Of(f) # {}
    BY <2>2, FirstTable, SourcesTyped
  <2> QED
    BY <2>1, <2>2
<1>3. IsFiniteSet(Registered)
  <2>0. 1 \in Int /\ Len(sources) \in Int
    BY SourcesTyped
  <2>1. IsFiniteSet(1 .. Len(sources))
    BY <2>0, FS_Interval
  <2>2. [j \in 1 .. Len(sources) |-> sources[j].name]
            \in Surjection(1 .. Len(sources), Registered)
    BY DEF Surjection, Registered
  <2> QED
    BY <2>1, <2>2, FS_Surjection
<1> QED
  BY <1>1, <1>2, <1>3 DEF NamesInUse

\* The file at hand is the next of the batch.
LEMMA PlaceIsNext ==
    ASSUME Steps, NEW u \in Uploads, up[u].pc \in Inside, up[u].i <= Len(up[u].batch)
    PROVE  /\ up[u].i \in 1 .. Len(up[u].batch)
           /\ Place(u) = up[u].i /\ Current(u) = up[u].batch[up[u].i]
           /\ Current(u) \in File /\ Current(u).name \in Filenames
           /\ Len(up[u].parsed) = Len(up[u].batch)
<1>1. TypeOK /\ Progress(u)
  BY DEF Steps
<1>2. /\ Len(up[u].parsed) = Len(up[u].batch)
      /\ \A j \in 1 .. Len(up[u].parsed) : up[u].parsed[j] = j
      /\ up[u].i \in 1 .. Len(up[u].batch)
  BY <1>1, UploadTyped DEF Progress, Loading, Inside, InOrder
<1>3. Place(u) = up[u].i /\ Current(u) = up[u].batch[up[u].i]
  BY <1>2 DEF Place, Current
<1> QED
  BY <1>1, <1>2, <1>3, FileTyped

\* The table chosen is the one to replace, or free.
LEMMA CreateFacts ==
    ASSUME Steps, NEW u \in Uploads, up[u].pc = "create", up[u].i <= Len(up[u].parsed)
    PROVE  /\ up[u].i \in 1 .. Len(up[u].batch)
           /\ Place(u) = up[u].i /\ Current(u) = up[u].batch[up[u].i]
           /\ Current(u) \in File /\ Current(u).name \in Filenames
           /\ NameFor(u) \in Name
           /\ \/ /\ up[u].replaces[Current(u).name] # None
                 /\ Current(u).name \notin up[u].claimed
                 /\ NameFor(u) = up[u].replaces[Current(u).name]
              \/ /\ \/ up[u].replaces[Current(u).name] = None
                    \/ Current(u).name \in up[u].claimed
                 /\ NameFor(u) \notin up[u].used
<1>1. TypeOK /\ Progress(u)
  BY DEF Steps
<1>2. Len(up[u].parsed) = Len(up[u].batch) /\ IsFiniteSet(up[u].used)
  BY <1>1 DEF Progress, Loading, Inside, InOrder
<1>3. /\ up[u].i \in 1 .. Len(up[u].batch)
      /\ Place(u) = up[u].i /\ Current(u) = up[u].batch[up[u].i]
      /\ Current(u) \in File /\ Current(u).name \in Filenames
  BY <1>2, PlaceIsNext DEF Inside
<1> DEFINE f == Current(u).name
<1>4. up[u].replaces[f] \in Name \cup {None}
  BY <1>1, <1>3, UploadTyped DEF Upload
<1>5. CASE up[u].replaces[f] # None /\ f \notin up[u].claimed
  BY <1>3, <1>4, <1>5 DEF NameFor
<1>6. CASE ~(up[u].replaces[f] # None /\ f \notin up[u].claimed)
  <2>1. NameFor(u) = FirstFree(Stem[f], up[u].used)
    BY <1>6 DEF NameFor
  <2>2. Stem[f] \in Seq(Words \cup Nat) /\ Nat \subseteq Words \cup Nat
    BY <1>3 DEF Name
  <2>3. NameFor(u) \in Name /\ NameFor(u) \notin up[u].used
    BY <1>2, <2>1, <2>2, FirstFreeIsFree DEF Name
  <2> QED
    BY <1>3, <1>6, <2>3
<1> QED
  BY <1>5, <1>6

\* The table at hand, and its entry in table_sources.
RegisterEntry(u) == [name |-> Target(u), file |-> Current(u).name]

LEMMA EntryTyped ==
    ASSUME Steps, NEW u \in Uploads, up[u].pc \in Inside \ {"create"}
    PROVE  /\ Target(u) \in Name /\ Target(u) = up[u].made[up[u].i]
           /\ Target(u) \in DOMAIN tables /\ tables[Target(u)] \in Data
           /\ up[u].i \in 1 .. Len(up[u].batch) /\ up[u].i \in 1 .. Len(up[u].made)
           /\ Len(up[u].made) = up[u].i
           /\ Current(u) = up[u].batch[up[u].i] /\ Current(u).name \in Filenames
           /\ RegisterEntry(u) \in [name: Name, file: Filenames]
<1>1. TypeOK /\ Progress(u)
  BY DEF Steps
<1>2. up[u].i <= Len(up[u].batch) /\ Len(up[u].made) = up[u].i
  BY <1>1 DEF Progress, Inside
<1>3. /\ up[u].i \in 1 .. Len(up[u].batch)
      /\ Current(u) = up[u].batch[up[u].i] /\ Current(u).name \in Filenames
  BY <1>2, PlaceIsNext DEF Inside
<1>4. Target(u) = up[u].made[up[u].i] /\ up[u].i \in 1 .. Len(up[u].made)
  BY <1>1, <1>2, <1>3, UploadTyped DEF Target
<1>5. Target(u) \in Name
  BY <1>1, <1>4, UploadTyped, ElementOfSeq
<1>6. Target(u) \in DOMAIN tables
  BY <1>1 DEF Progress, Inside
<1>7. tables[Target(u)] \in Data
  BY <1>1, <1>6 DEF TypeOK
<1> QED
  BY <1>2, <1>3, <1>4, <1>5, <1>6, <1>7 DEF RegisterEntry

-----------------------------------------------------------------------------
(* What each step does to its upload.                                      *)

\* A request arrives.
LEMMA ReceiveEffect ==
    ASSUME TypeOK, NEW u \in Uploads, NEW batch \in Batches, Receive(u, batch)
    PROVE  /\ Moves(u)
           /\ up'[u].i = up[u].i /\ up'[u].parsed = up[u].parsed
           /\ up'[u].errors = up[u].errors /\ up'[u].replaces = up[u].replaces
           /\ up'[u].used = up[u].used /\ up'[u].claimed = up[u].claimed
           /\ up'[u].made = up[u].made /\ up'[u].answer = up[u].answer
           /\ up'[u].pc = "reading"
           /\ up'[u].batch = batch
<1>1. up[u] \in Upload
  BY DEF TypeOK
<1> DEFINE R0 == [up[u] EXCEPT !.pc = "reading",
                   !.batch = batch]
<1>3. R0 \in Upload
  BY <1>1 DEF Upload
<1>4. up' = [up EXCEPT ![u] = R0]
  BY <1>1 DEF Receive, Upload, TypeOK
<1>5. /\ R0.pc = "reading"
      /\ R0.batch = batch
      /\ R0.i = up[u].i
      /\ R0.parsed = up[u].parsed
      /\ R0.errors = up[u].errors
      /\ R0.replaces = up[u].replaces
      /\ R0.used = up[u].used
      /\ R0.claimed = up[u].claimed
      /\ R0.made = up[u].made
      /\ R0.answer = up[u].answer
  BY <1>1 DEF Upload
<1> HIDE DEF R0
<1> QED
  BY <1>3, <1>4, <1>5, UploadStep DEF Moves

\* Its files have been read.
LEMMA ResumeEffect ==
    ASSUME TypeOK, NEW u \in Uploads, Resume(u)
    PROVE  /\ Moves(u)
           /\ up'[u].batch = up[u].batch /\ up'[u].i = up[u].i
           /\ up'[u].parsed = up[u].parsed /\ up'[u].errors = up[u].errors
           /\ up'[u].replaces = up[u].replaces /\ up'[u].used = up[u].used
           /\ up'[u].claimed = up[u].claimed /\ up'[u].made = up[u].made
           /\ up'[u].answer = up[u].answer
           /\ up'[u].pc = "parse"
<1>1. up[u] \in Upload
  BY DEF TypeOK
<1> DEFINE R0 == [up[u] EXCEPT !.pc = "parse"]
<1>3. R0 \in Upload
  BY <1>1 DEF Upload
<1>4. up' = [up EXCEPT ![u] = R0]
  BY <1>1 DEF Resume, Upload, TypeOK
<1>5. /\ R0.pc = "parse"
      /\ R0.batch = up[u].batch
      /\ R0.i = up[u].i
      /\ R0.parsed = up[u].parsed
      /\ R0.errors = up[u].errors
      /\ R0.replaces = up[u].replaces
      /\ R0.used = up[u].used
      /\ R0.claimed = up[u].claimed
      /\ R0.made = up[u].made
      /\ R0.answer = up[u].answer
  BY <1>1 DEF Upload
<1> HIDE DEF R0
<1> QED
  BY <1>3, <1>4, <1>5, UploadStep DEF Moves

\* The next file is refused, or parsed.
LEMMA ParseEffect ==
    ASSUME TypeOK, NEW u \in Uploads, Parse(u)
    PROVE  /\ Moves(u)
           /\ up'[u].pc = up[u].pc /\ up'[u].batch = up[u].batch
           /\ up'[u].replaces = up[u].replaces /\ up'[u].used = up[u].used
           /\ up'[u].claimed = up[u].claimed /\ up'[u].made = up[u].made
           /\ up'[u].answer = up[u].answer
           /\ \/ /\ up'[u].i = up[u].i + 1
                 /\ up'[u].parsed = up[u].parsed
                 /\ up'[u].errors = TRUE
              \/ /\ up'[u].i = up[u].i + 1
                 /\ up'[u].parsed = Append(up[u].parsed, up[u].i)
                 /\ up'[u].errors = up[u].errors
<1>1. up[u] \in Upload
  BY DEF TypeOK
<1> DEFINE R0 == [up[u] EXCEPT !.i = up[u].i + 1,
                   !.errors = TRUE]
<1> DEFINE R1 == [up[u] EXCEPT !.i = up[u].i + 1,
                   !.parsed = Append(up[u].parsed, up[u].i)]
<1>2. Append(up[u].parsed, up[u].i) \in Seq(Nat)
  BY <1>1, AppendProperties DEF Upload
<1>3. R0 \in Upload /\ R1 \in Upload
  <2>0. up[u].i + 1 \in Nat
    BY <1>1 DEF Upload
  <2>1. R0 \in Upload
    BY <1>1, <1>2, <2>0 DEF Upload
  <2>2. R1 \in Upload
    BY <1>1, <1>2, <2>0 DEF Upload
  <2> QED
    BY <2>1, <2>2
<1>4. \/ up' = [up EXCEPT ![u] = R0]
      \/ up' = [up EXCEPT ![u] = R1]
  BY <1>1, <1>2 DEF Parse, Upload, TypeOK
<1>5. /\ R0.pc = up[u].pc
      /\ R0.batch = up[u].batch
      /\ R0.i = up[u].i + 1
      /\ R0.parsed = up[u].parsed
      /\ R0.errors = TRUE
      /\ R0.replaces = up[u].replaces
      /\ R0.used = up[u].used
      /\ R0.claimed = up[u].claimed
      /\ R0.made = up[u].made
      /\ R0.answer = up[u].answer
      /\ R1.pc = up[u].pc
      /\ R1.batch = up[u].batch
      /\ R1.i = up[u].i + 1
      /\ R1.parsed = Append(up[u].parsed, up[u].i)
      /\ R1.errors = up[u].errors
      /\ R1.replaces = up[u].replaces
      /\ R1.used = up[u].used
      /\ R1.claimed = up[u].claimed
      /\ R1.made = up[u].made
      /\ R1.answer = up[u].answer
  BY <1>1 DEF Upload
<1> HIDE DEF R0, R1
<1> QED
  BY <1>3, <1>4, <1>5, UploadStep DEF Moves

\* The batch is refused.
LEMMA RejectEffect ==
    ASSUME TypeOK, NEW u \in Uploads, Reject(u)
    PROVE  /\ Moves(u)
           /\ up'[u].batch = up[u].batch /\ up'[u].i = up[u].i
           /\ up'[u].parsed = up[u].parsed /\ up'[u].errors = up[u].errors
           /\ up'[u].replaces = up[u].replaces /\ up'[u].used = up[u].used
           /\ up'[u].claimed = up[u].claimed /\ up'[u].made = up[u].made
           /\ up'[u].pc = "done"
           /\ up'[u].answer = "400"
<1>1. up[u] \in Upload
  BY DEF TypeOK
<1> DEFINE R0 == [up[u] EXCEPT !.pc = "done",
                   !.answer = "400"]
<1>3. R0 \in Upload
  BY <1>1 DEF Upload
<1>4. up' = [up EXCEPT ![u] = R0]
  BY <1>1 DEF Reject, Upload, TypeOK
<1>5. /\ R0.pc = "done"
      /\ R0.batch = up[u].batch
      /\ R0.i = up[u].i
      /\ R0.parsed = up[u].parsed
      /\ R0.errors = up[u].errors
      /\ R0.replaces = up[u].replaces
      /\ R0.used = up[u].used
      /\ R0.claimed = up[u].claimed
      /\ R0.made = up[u].made
      /\ R0.answer = "400"
  BY <1>1 DEF Upload
<1> HIDE DEF R0
<1> QED
  BY <1>3, <1>4, <1>5, UploadStep DEF Moves

\* What to replace, and what not to take.
LEMMA PlanEffect ==
    ASSUME TypeOK, NEW u \in Uploads, Plan(u)
    PROVE  /\ Moves(u)
           /\ up'[u].batch = up[u].batch /\ up'[u].parsed = up[u].parsed
           /\ up'[u].errors = up[u].errors /\ up'[u].claimed = up[u].claimed
           /\ up'[u].made = up[u].made /\ up'[u].answer = up[u].answer
           /\ up'[u].pc = "lock"
           /\ up'[u].i = 1
           /\ up'[u].replaces = [f \in Filenames |-> FirstTableOf(f)]
           /\ up'[u].used = NamesInUse
<1>1. up[u] \in Upload
  BY DEF TypeOK
<1> DEFINE R0 == [up[u] EXCEPT !.pc = "lock",
                   !.i = 1,
                   !.used = NamesInUse,
                   !.replaces = [f \in Filenames |-> FirstTableOf(f)]]
<1>2. NamesInUse \in SUBSET Name /\ [f \in Filenames |-> FirstTableOf(f)] \in [Filenames -> Name \cup {None}]
  BY PlanTyped
<1>3. R0 \in Upload
  BY <1>1, <1>2 DEF Upload
<1>4. up' = [up EXCEPT ![u] = R0]
  BY <1>1, <1>2 DEF Plan, Upload, TypeOK
<1>5. /\ R0.pc = "lock"
      /\ R0.batch = up[u].batch
      /\ R0.i = 1
      /\ R0.parsed = up[u].parsed
      /\ R0.errors = up[u].errors
      /\ R0.replaces = [f \in Filenames |-> FirstTableOf(f)]
      /\ R0.used = NamesInUse
      /\ R0.claimed = up[u].claimed
      /\ R0.made = up[u].made
      /\ R0.answer = up[u].answer
  BY <1>1 DEF Upload
<1> HIDE DEF R0
<1> QED
  BY <1>3, <1>4, <1>5, UploadStep DEF Moves

\* The lock is taken.
LEMMA TakeLockEffect ==
    ASSUME TypeOK, NEW u \in Uploads, TakeLock(u)
    PROVE  /\ Moves(u)
           /\ up'[u].batch = up[u].batch /\ up'[u].i = up[u].i
           /\ up'[u].parsed = up[u].parsed /\ up'[u].errors = up[u].errors
           /\ up'[u].replaces = up[u].replaces /\ up'[u].used = up[u].used
           /\ up'[u].claimed = up[u].claimed /\ up'[u].made = up[u].made
           /\ up'[u].answer = up[u].answer
           /\ up'[u].pc = "create"
<1>1. up[u] \in Upload
  BY DEF TypeOK
<1> DEFINE R0 == [up[u] EXCEPT !.pc = "create"]
<1>3. R0 \in Upload
  BY <1>1 DEF Upload
<1>4. up' = [up EXCEPT ![u] = R0]
  BY <1>1 DEF TakeLock, Upload, TypeOK
<1>5. /\ R0.pc = "create"
      /\ R0.batch = up[u].batch
      /\ R0.i = up[u].i
      /\ R0.parsed = up[u].parsed
      /\ R0.errors = up[u].errors
      /\ R0.replaces = up[u].replaces
      /\ R0.used = up[u].used
      /\ R0.claimed = up[u].claimed
      /\ R0.made = up[u].made
      /\ R0.answer = up[u].answer
  BY <1>1 DEF Upload
<1> HIDE DEF R0
<1> QED
  BY <1>3, <1>4, <1>5, UploadStep DEF Moves

\* A table is made, or not.
LEMMA CreateEffect ==
    ASSUME Steps, NEW u \in Uploads, Create(u)
    PROVE  /\ Moves(u)
           /\ up'[u].batch = up[u].batch /\ up'[u].i = up[u].i
           /\ up'[u].parsed = up[u].parsed /\ up'[u].errors = up[u].errors
           /\ up'[u].replaces = up[u].replaces
           /\ \/ /\ open
                 /\ up'[u].pc = "describe"
                 /\ up'[u].used = up[u].used \cup {NameFor(u)}
                 /\ up'[u].claimed = up[u].claimed \cup {Current(u).name}
                 /\ up'[u].made = Append(up[u].made, NameFor(u))
                 /\ up'[u].answer = up[u].answer
              \/ /\ up'[u].pc = "done"
                 /\ up'[u].used = up[u].used
                 /\ up'[u].claimed = up[u].claimed
                 /\ up'[u].made = up[u].made
                 /\ up'[u].answer = "500"
<1>0. TypeOK
  BY DEF Steps
<1>1. up[u] \in Upload
  BY <1>0 DEF TypeOK
<1> DEFINE R0 == [up[u] EXCEPT !.pc = "describe",
                   !.used = up[u].used \cup {NameFor(u)},
                   !.claimed = up[u].claimed \cup {Current(u).name},
                   !.made = Append(up[u].made, NameFor(u))]
<1> DEFINE R1 == [up[u] EXCEPT !.pc = "done",
                   !.answer = "500"]
<1>2. Append(up[u].made, NameFor(u)) \in Seq(Name) /\ NameFor(u) \in Name /\ Current(u).name \in Filenames
  BY <1>1, CreateFacts, AppendProperties DEF Upload, Create, File
<1>3. R0 \in Upload /\ R1 \in Upload
  <2>1. R0 \in Upload
    BY <1>1, <1>2, <1>0 DEF Upload
  <2>2. R1 \in Upload
    BY <1>1, <1>2, <1>0 DEF Upload
  <2> QED
    BY <2>1, <2>2
<1>4. \/ open /\ up' = [up EXCEPT ![u] = R0]
      \/ up' = [up EXCEPT ![u] = R1]
  BY <1>1, <1>2, <1>0 DEF Create, Raise, Upload, TypeOK
<1>5. /\ R0.pc = "describe"
      /\ R0.batch = up[u].batch
      /\ R0.i = up[u].i
      /\ R0.parsed = up[u].parsed
      /\ R0.errors = up[u].errors
      /\ R0.replaces = up[u].replaces
      /\ R0.used = up[u].used \cup {NameFor(u)}
      /\ R0.claimed = up[u].claimed \cup {Current(u).name}
      /\ R0.made = Append(up[u].made, NameFor(u))
      /\ R0.answer = up[u].answer
      /\ R1.pc = "done"
      /\ R1.batch = up[u].batch
      /\ R1.i = up[u].i
      /\ R1.parsed = up[u].parsed
      /\ R1.errors = up[u].errors
      /\ R1.replaces = up[u].replaces
      /\ R1.used = up[u].used
      /\ R1.claimed = up[u].claimed
      /\ R1.made = up[u].made
      /\ R1.answer = "500"
  BY <1>1 DEF Upload
<1> HIDE DEF R0, R1
<1> QED
  BY <1>3, <1>4, <1>5, UploadStep, <1>0 DEF Moves

\* It is described, or not.
LEMMA DescribeEffect ==
    ASSUME TypeOK, NEW u \in Uploads, Describe(u)
    PROVE  /\ Moves(u)
           /\ up'[u].batch = up[u].batch /\ up'[u].i = up[u].i
           /\ up'[u].parsed = up[u].parsed /\ up'[u].errors = up[u].errors
           /\ up'[u].replaces = up[u].replaces /\ up'[u].used = up[u].used
           /\ up'[u].claimed = up[u].claimed /\ up'[u].made = up[u].made
           /\ \/ /\ open
                 /\ up'[u].pc = "register"
                 /\ up'[u].answer = up[u].answer
              \/ /\ up'[u].pc = "done"
                 /\ up'[u].answer = "500"
<1>1. up[u] \in Upload
  BY DEF TypeOK
<1> DEFINE R0 == [up[u] EXCEPT !.pc = "register"]
<1> DEFINE R1 == [up[u] EXCEPT !.pc = "done",
                   !.answer = "500"]
<1>3. R0 \in Upload /\ R1 \in Upload
  <2>1. R0 \in Upload
    BY <1>1 DEF Upload
  <2>2. R1 \in Upload
    BY <1>1 DEF Upload
  <2> QED
    BY <2>1, <2>2
<1>4. \/ open /\ up' = [up EXCEPT ![u] = R0]
      \/ up' = [up EXCEPT ![u] = R1]
  BY <1>1 DEF Describe, Raise, Upload, TypeOK
<1>5. /\ R0.pc = "register"
      /\ R0.batch = up[u].batch
      /\ R0.i = up[u].i
      /\ R0.parsed = up[u].parsed
      /\ R0.errors = up[u].errors
      /\ R0.replaces = up[u].replaces
      /\ R0.used = up[u].used
      /\ R0.claimed = up[u].claimed
      /\ R0.made = up[u].made
      /\ R0.answer = up[u].answer
      /\ R1.pc = "done"
      /\ R1.batch = up[u].batch
      /\ R1.i = up[u].i
      /\ R1.parsed = up[u].parsed
      /\ R1.errors = up[u].errors
      /\ R1.replaces = up[u].replaces
      /\ R1.used = up[u].used
      /\ R1.claimed = up[u].claimed
      /\ R1.made = up[u].made
      /\ R1.answer = "500"
  BY <1>1 DEF Upload
<1> HIDE DEF R0, R1
<1> QED
  BY <1>3, <1>4, <1>5, UploadStep DEF Moves

\* It is registered.
LEMMA RegisterEffect ==
    ASSUME TypeOK, NEW u \in Uploads, Register(u)
    PROVE  /\ Moves(u)
           /\ up'[u].batch = up[u].batch /\ up'[u].i = up[u].i
           /\ up'[u].parsed = up[u].parsed /\ up'[u].errors = up[u].errors
           /\ up'[u].replaces = up[u].replaces /\ up'[u].used = up[u].used
           /\ up'[u].claimed = up[u].claimed /\ up'[u].made = up[u].made
           /\ up'[u].answer = up[u].answer
           /\ up'[u].pc = "assess"
<1>1. up[u] \in Upload
  BY DEF TypeOK
<1> DEFINE R0 == [up[u] EXCEPT !.pc = "assess"]
<1>3. R0 \in Upload
  BY <1>1 DEF Upload
<1>4. up' = [up EXCEPT ![u] = R0]
  BY <1>1 DEF Register, Upload, TypeOK
<1>5. /\ R0.pc = "assess"
      /\ R0.batch = up[u].batch
      /\ R0.i = up[u].i
      /\ R0.parsed = up[u].parsed
      /\ R0.errors = up[u].errors
      /\ R0.replaces = up[u].replaces
      /\ R0.used = up[u].used
      /\ R0.claimed = up[u].claimed
      /\ R0.made = up[u].made
      /\ R0.answer = up[u].answer
  BY <1>1 DEF Upload
<1> HIDE DEF R0
<1> QED
  BY <1>3, <1>4, <1>5, UploadStep DEF Moves

\* It is assessed, or not.
LEMMA AssessEffect ==
    ASSUME TypeOK, NEW u \in Uploads, Assess(u)
    PROVE  /\ Moves(u)
           /\ up'[u].batch = up[u].batch /\ up'[u].parsed = up[u].parsed
           /\ up'[u].errors = up[u].errors /\ up'[u].replaces = up[u].replaces
           /\ up'[u].used = up[u].used /\ up'[u].claimed = up[u].claimed
           /\ up'[u].made = up[u].made
           /\ \/ /\ open
                 /\ up'[u].pc = "create"
                 /\ up'[u].i = up[u].i + 1
                 /\ up'[u].answer = up[u].answer
              \/ /\ up'[u].pc = "done"
                 /\ up'[u].i = up[u].i
                 /\ up'[u].answer = "500"
<1>1. up[u] \in Upload
  BY DEF TypeOK
<1> DEFINE R0 == [up[u] EXCEPT !.pc = "create",
                   !.i = up[u].i + 1]
<1> DEFINE R1 == [up[u] EXCEPT !.pc = "done",
                   !.answer = "500"]
<1>3. R0 \in Upload /\ R1 \in Upload
  <2>0. up[u].i + 1 \in Nat
    BY <1>1 DEF Upload
  <2>1. R0 \in Upload
    BY <1>1, <2>0 DEF Upload
  <2>2. R1 \in Upload
    BY <1>1 DEF Upload
  <2> QED
    BY <2>1, <2>2
<1>4. \/ open /\ up' = [up EXCEPT ![u] = R0]
      \/ up' = [up EXCEPT ![u] = R1]
  BY <1>1 DEF Assess, Raise, Upload, TypeOK
<1>5. /\ R0.pc = "create"
      /\ R0.batch = up[u].batch
      /\ R0.i = up[u].i + 1
      /\ R0.parsed = up[u].parsed
      /\ R0.errors = up[u].errors
      /\ R0.replaces = up[u].replaces
      /\ R0.used = up[u].used
      /\ R0.claimed = up[u].claimed
      /\ R0.made = up[u].made
      /\ R0.answer = up[u].answer
      /\ R1.pc = "done"
      /\ R1.batch = up[u].batch
      /\ R1.i = up[u].i
      /\ R1.parsed = up[u].parsed
      /\ R1.errors = up[u].errors
      /\ R1.replaces = up[u].replaces
      /\ R1.used = up[u].used
      /\ R1.claimed = up[u].claimed
      /\ R1.made = up[u].made
      /\ R1.answer = "500"
  BY <1>1 DEF Upload
<1> HIDE DEF R0, R1
<1> QED
  BY <1>3, <1>4, <1>5, UploadStep DEF Moves

\* The lock is left.
LEMMA UnlockEffect ==
    ASSUME TypeOK, NEW u \in Uploads, Unlock(u)
    PROVE  /\ Moves(u)
           /\ up'[u].batch = up[u].batch /\ up'[u].i = up[u].i
           /\ up'[u].parsed = up[u].parsed /\ up'[u].errors = up[u].errors
           /\ up'[u].replaces = up[u].replaces /\ up'[u].used = up[u].used
           /\ up'[u].claimed = up[u].claimed /\ up'[u].made = up[u].made
           /\ up'[u].answer = up[u].answer
           /\ up'[u].pc = "respond"
<1>1. up[u] \in Upload
  BY DEF TypeOK
<1> DEFINE R0 == [up[u] EXCEPT !.pc = "respond"]
<1>3. R0 \in Upload
  BY <1>1 DEF Upload
<1>4. up' = [up EXCEPT ![u] = R0]
  BY <1>1 DEF Unlock, Upload, TypeOK
<1>5. /\ R0.pc = "respond"
      /\ R0.batch = up[u].batch
      /\ R0.i = up[u].i
      /\ R0.parsed = up[u].parsed
      /\ R0.errors = up[u].errors
      /\ R0.replaces = up[u].replaces
      /\ R0.used = up[u].used
      /\ R0.claimed = up[u].claimed
      /\ R0.made = up[u].made
      /\ R0.answer = up[u].answer
  BY <1>1 DEF Upload
<1> HIDE DEF R0
<1> QED
  BY <1>3, <1>4, <1>5, UploadStep DEF Moves

\* The answer is given.
LEMMA RespondEffect ==
    ASSUME TypeOK, NEW u \in Uploads, Respond(u)
    PROVE  /\ Moves(u)
           /\ up'[u].batch = up[u].batch /\ up'[u].i = up[u].i
           /\ up'[u].parsed = up[u].parsed /\ up'[u].errors = up[u].errors
           /\ up'[u].replaces = up[u].replaces /\ up'[u].used = up[u].used
           /\ up'[u].claimed = up[u].claimed /\ up'[u].made = up[u].made
           /\ up'[u].pc = "done"
           /\ up'[u].answer = "200"
<1>1. up[u] \in Upload
  BY DEF TypeOK
<1> DEFINE R0 == [up[u] EXCEPT !.pc = "done",
                   !.answer = "200"]
<1>3. R0 \in Upload
  BY <1>1 DEF Upload
<1>4. up' = [up EXCEPT ![u] = R0]
  BY <1>1 DEF Respond, Upload, TypeOK
<1>5. /\ R0.pc = "done"
      /\ R0.batch = up[u].batch
      /\ R0.i = up[u].i
      /\ R0.parsed = up[u].parsed
      /\ R0.errors = up[u].errors
      /\ R0.replaces = up[u].replaces
      /\ R0.used = up[u].used
      /\ R0.claimed = up[u].claimed
      /\ R0.made = up[u].made
      /\ R0.answer = "200"
  BY <1>1 DEF Upload
<1> HIDE DEF R0
<1> QED
  BY <1>3, <1>4, <1>5, UploadStep DEF Moves

\* Cleaning fails.
LEMMA CleaningRaisesEffect ==
    ASSUME TypeOK, NEW u \in Uploads, CleaningRaises(u)
    PROVE  /\ Moves(u)
           /\ up'[u].batch = up[u].batch /\ up'[u].i = up[u].i
           /\ up'[u].parsed = up[u].parsed /\ up'[u].errors = up[u].errors
           /\ up'[u].replaces = up[u].replaces /\ up'[u].used = up[u].used
           /\ up'[u].claimed = up[u].claimed /\ up'[u].made = up[u].made
           /\ up'[u].pc = "done"
           /\ up'[u].answer = "500"
<1>1. up[u] \in Upload
  BY DEF TypeOK
<1> DEFINE R0 == [up[u] EXCEPT !.pc = "done",
                   !.answer = "500"]
<1>3. R0 \in Upload
  BY <1>1 DEF Upload
<1>4. up' = [up EXCEPT ![u] = R0]
  BY <1>1 DEF CleaningRaises, Raise, Upload, TypeOK
<1>5. /\ R0.pc = "done"
      /\ R0.batch = up[u].batch
      /\ R0.i = up[u].i
      /\ R0.parsed = up[u].parsed
      /\ R0.errors = up[u].errors
      /\ R0.replaces = up[u].replaces
      /\ R0.used = up[u].used
      /\ R0.claimed = up[u].claimed
      /\ R0.made = up[u].made
      /\ R0.answer = "500"
  BY <1>1 DEF Upload
<1> HIDE DEF R0
<1> QED
  BY <1>3, <1>4, <1>5, UploadStep DEF Moves

-----------------------------------------------------------------------------
(* The steps of an upload keep their order.                                *)

\* The session and the files on disk have their types.
SessionTyped ==
    /\ DOMAIN tables \subseteq Name /\ \A n \in DOMAIN tables : tables[n] \in Data
    /\ DOMAIN quality \subseteq Name /\ \A n \in DOMAIN quality : quality[n] \in Data
    /\ sources \in Seq([name: Name, file: Filenames])
    /\ temp \subseteq Data
    /\ open \in BOOLEAN

\* Uploads that do not move stay where they are.
LEMMA FrameSteps ==
    ASSUME Steps, NEW u \in Uploads, Moves(u), SessionTyped', rd' = rd,
           loop' \in {loop, u, None}, loop' = u <=> up'[u].pc \in Active,
           loop' = None => loop \in {u, None}, loop' = u => loop \in {u, None},
           lock' \in {lock, u, None}, lock' = u <=> up'[u].pc \in Inside,
           lock' = None => lock \in {u, None}, lock' = u => lock \in {u, None},
           DOMAIN tables \subseteq DOMAIN tables', Progress(u)'
    PROVE  Steps'
<1>1. TypeOK /\ Exclusive /\ \A v \in Uploads : Progress(v)
  BY DEF Steps
<1>2. {lock', loop'} \subseteq Uploads \cup {None}
  BY <1>1 DEF TypeOK
<1>3. TypeOK'
  BY <1>1, <1>2 DEF TypeOK, SessionTyped, Moves
<1>4. \A v \in Uploads \ {u} : Progress(v)'
  BY <1>1 DEF Progress, InOrder, Target, Moves
<1>5. \A v \in Uploads \ {u} :
          (loop' = v <=> up'[v].pc \in Active) /\ (lock' = v <=> up'[v].pc \in Inside)
  BY <1>1 DEF Exclusive, Moves
<1>6. Exclusive'
  BY <1>5 DEF Exclusive
<1> QED
  BY <1>3, <1>4, <1>6 DEF Steps

LEMMA InitSteps == Init => Steps
<1> SUFFICES ASSUME Init PROVE Steps
  OBVIOUS
<1>1. /\ \A u \in Uploads : up[u].pc = "new" /\ up[u].i = 1 /\ up[u].parsed = <<>>
      /\ \A u \in Uploads : up[u].errors = FALSE
      /\ \A u \in Uploads : up[u].made = <<>> /\ up[u].answer = "none" /\ up[u].batch = <<>>
      /\ \A u \in Uploads : up[u].claimed = {}
      /\ loop = None /\ lock = None
  BY DEF Init
<1>2. TypeOK
  <2>1. <<>> \in Seq([name: Name, file: Filenames]) /\ DOMAIN <<>> = {}
    OBVIOUS
  <2>2. up \in [Uploads -> Upload]
    <3>1. <<>> \in Seq(Nat) /\ <<>> \in Seq(Name) /\ {} \in SUBSET Name
      OBVIOUS
    <3>2. [f \in Filenames |-> None] \in [Filenames -> Name \cup {None}]
      OBVIOUS
    <3> QED
      BY <3>1, <3>2 DEF Init, Upload
  <2>3. rd \in [Readers -> Reader]
    BY DEF Init, Reader
  <2> QED
    BY <2>1, <2>2, <2>3 DEF Init, TypeOK
<1>3. Exclusive
  BY <1>1 DEF Exclusive, Active, Inside
<1>4. \A u \in Uploads : Progress(u)
  <2> TAKE u \in Uploads
  <2>1. ~up[u].errors
    BY <1>1
  <2> QED
    BY <1>1, <2>1 DEF Progress, Loading, Inside
<1> QED
  BY <1>2, <1>3, <1>4 DEF Steps

LEMMA ReceiveSteps ==
    ASSUME Steps, NEW u \in Uploads, NEW batch \in Batches, Receive(u, batch)
    PROVE  Steps'
<1>1. TypeOK /\ Exclusive /\ Progress(u)
  BY DEF Steps
<1>2. SessionTyped'
  BY <1>1 DEF Receive, TypeOK, SessionTyped, session
<1>3. Progress(u)'
  BY <1>1, UploadTyped, ReceiveEffect DEF Receive, session, Target, Progress, InOrder, Loading, Inside
<1> QED
  BY <1>1, <1>2, <1>3, FrameSteps, ReceiveEffect DEF Receive, session, Exclusive, Active, Inside, Raise

LEMMA ResumeSteps ==
    ASSUME Steps, NEW u \in Uploads, Resume(u)
    PROVE  Steps'
<1>1. TypeOK /\ Exclusive /\ Progress(u)
  BY DEF Steps
<1>2. SessionTyped'
  BY <1>1 DEF Resume, TypeOK, SessionTyped, session
<1>3. Progress(u)'
  BY <1>1, UploadTyped, ResumeEffect DEF Resume, session, Target, Progress, InOrder, Loading, Inside
<1> QED
  BY <1>1, <1>2, <1>3, FrameSteps, ResumeEffect DEF Resume, session, Exclusive, Active, Inside, Raise

LEMMA ParseSteps ==
    ASSUME Steps, NEW u \in Uploads, Parse(u)
    PROVE  Steps'
<1>1. TypeOK /\ Exclusive /\ Progress(u)
  BY DEF Steps
<1>2. SessionTyped'
  <2>1. {<<u, up[u].i>>} \subseteq Data
    BY <1>1, UploadTyped DEF Data
  <2> QED
    BY <1>1, <2>1 DEF Parse, TypeOK, SessionTyped, session
<1>3. Progress(u)'
  <2>1. /\ up[u].pc = "parse" /\ up[u].i \in 1 .. Len(up[u].batch) /\ Len(up[u].batch) \in Nat
        /\ up[u].parsed \in Seq(Nat) /\ Len(up[u].parsed) \in Nat
    BY <1>1, UploadTyped DEF Parse, Progress
  <2>2. /\ up'[u].pc = "parse" /\ up'[u].i = up[u].i + 1 /\ up'[u].batch = up[u].batch
        /\ up'[u].made = up[u].made /\ up'[u].answer = up[u].answer
        /\ up'[u].claimed = up[u].claimed
    BY <1>1, <2>1, ParseEffect
  <2>3. /\ up'[u].i \in 1 .. Len(up'[u].batch) + 1 /\ up'[u].i - 1 = up[u].i
        /\ up'[u].made = <<>> /\ up'[u].answer = "none" /\ up'[u].claimed = {}
    BY <1>1, <2>1, <2>2 DEF Progress, Inside
  <2>4. ~up'[u].errors => InOrder(u, up[u].i - 1)'
    <3> SUFFICES ASSUME ~up'[u].errors PROVE InOrder(u, up[u].i - 1)'
      OBVIOUS
    <3>1. up'[u].errors # TRUE
      OBVIOUS
    <3>2. /\ up'[u].errors = up[u].errors
          /\ up'[u].parsed = Append(up[u].parsed, up[u].i)
      BY <1>1, <3>1, ParseEffect
    <3>3. ~up[u].errors
      BY <3>2
    <3>4. InOrder(u, up[u].i - 1)
      BY <1>1, <2>1, <3>3 DEF Progress
    <3>5. PICK p : p = up[u].parsed
      OBVIOUS
    <3>6. PICK n \in Nat : n = up[u].i
      BY <2>1, <1>1, UploadTyped
    <3>7. Len(p) = n - 1 /\ \A j \in 1 .. Len(p) : p[j] = j
      BY <3>4, <3>5, <3>6 DEF InOrder
    <3>8. up'[u].parsed = Append(p, n) /\ p \in Seq(Nat) /\ up'[u].i = n + 1
      BY <2>1, <2>2, <3>2, <3>5, <3>6
    <3>9. /\ Len(up'[u].parsed) = n
          /\ \A j \in 1 .. Len(p) : up'[u].parsed[j] = j
          /\ up'[u].parsed[n] = n
      BY <3>7, <3>8, AppendProperties
    <3> QED
      BY <3>6, <3>7, <3>8, <3>9 DEF InOrder
  <2> QED
    BY <2>2, <2>3, <2>4 DEF Progress, Loading, Inside
<1> QED
  BY <1>1, <1>2, <1>3, FrameSteps, ParseEffect DEF Parse, session, Exclusive, Active, Inside, Raise

LEMMA RejectSteps ==
    ASSUME Steps, NEW u \in Uploads, Reject(u)
    PROVE  Steps'
<1>1. TypeOK /\ Exclusive /\ Progress(u)
  BY DEF Steps
<1>2. SessionTyped'
  BY <1>1 DEF Reject, TypeOK, SessionTyped, session
<1>3. Progress(u)'
  BY <1>1, UploadTyped, RejectEffect DEF Reject, session, Target, Progress, InOrder, Loading, Inside
<1> QED
  BY <1>1, <1>2, <1>3, FrameSteps, RejectEffect DEF Reject, session, Exclusive, Active, Inside, Raise

LEMMA PlanSteps ==
    ASSUME Steps, NEW u \in Uploads, Plan(u)
    PROVE  Steps'
<1>1. TypeOK /\ Exclusive /\ Progress(u)
  BY DEF Steps
<1>2. SessionTyped'
  BY <1>1 DEF Plan, TypeOK, SessionTyped, session
<1>3. Progress(u)'
  <2>1. /\ up[u].pc = "parse" /\ up[u].i = Len(up[u].batch) + 1 /\ Len(up[u].batch) \in Nat
        /\ ~up[u].errors
    BY <1>1, UploadTyped DEF Plan, Progress
  <2>2. /\ InOrder(u, Len(up[u].batch)) /\ up[u].made = <<>> /\ up[u].answer = "none"
        /\ up[u].claimed = {}
    BY <1>1, <2>1 DEF Progress, Inside
  <2>3. InOrder(u, Len(up[u].batch))' /\ IsFiniteSet(up'[u].used)
    BY <1>1, <2>2, PlanEffect, PlanTyped DEF InOrder
  <2> QED
    <3>0. /\ up'[u].batch = up[u].batch /\ up'[u].i = 1 /\ up'[u].pc = "lock"
          /\ up'[u].made = up[u].made /\ up'[u].answer = up[u].answer
          /\ up'[u].claimed = up[u].claimed
      BY <1>1, PlanEffect
    <3>1. /\ 1 \in 1 .. Len(up'[u].batch) + 1 /\ up'[u].i = 1 /\ up'[u].pc = "lock"
          /\ up'[u].made = <<>> /\ up'[u].answer = "none" /\ up'[u].claimed = {}
      BY <2>1, <2>2, <3>0
    <3> QED
      BY <2>3, <3>1 DEF Progress, Loading, Inside
<1> QED
  BY <1>1, <1>2, <1>3, FrameSteps, PlanEffect DEF Plan, session, Exclusive, Active, Inside, Raise

LEMMA TakeLockSteps ==
    ASSUME Steps, NEW u \in Uploads, TakeLock(u)
    PROVE  Steps'
<1>1. TypeOK /\ Exclusive /\ Progress(u)
  BY DEF Steps
<1>2. SessionTyped'
  BY <1>1 DEF TakeLock, TypeOK, SessionTyped, session
<1>3. Progress(u)'
  BY <1>1, UploadTyped, TakeLockEffect DEF TakeLock, session, Target, Progress, InOrder, Loading, Inside
<1> QED
  BY <1>1, <1>2, <1>3, FrameSteps, TakeLockEffect DEF TakeLock, session, Exclusive, Active, Inside, Raise

\* An exception ends the request and gives up what it holds.
LEMMA RaiseSteps ==
    ASSUME Steps, NEW u \in Uploads, up[u].pc \in Active, Moves(u), SessionTyped', rd' = rd,
           up'[u].pc = "done", up'[u].answer = "500", up'[u].made = up[u].made,
           up'[u].batch = up[u].batch, lock' = None, loop' = None,
           DOMAIN tables \subseteq DOMAIN tables'
    PROVE  Steps'
<1>1. TypeOK /\ Exclusive /\ Progress(u)
  BY DEF Steps
<1>2. loop = u
  BY <1>1 DEF Exclusive
<1>3. lock \in {u, None}
  <2>1. lock \in Uploads \cup {None}
    BY <1>1 DEF TypeOK
  <2>2. \A v \in Uploads : lock = v => loop = v
    BY <1>1 DEF Exclusive, Active, Inside
  <2> QED
    BY <1>2, <2>1, <2>2
<1>4. Progress(u)'
  BY <1>1 DEF Progress, Loading, Inside
<1> QED
  BY <1>2, <1>3, <1>4, FrameSteps DEF Active, Inside

LEMMA CreateSteps ==
    ASSUME Steps, NEW u \in Uploads, Create(u)
    PROVE  Steps'
<1>1. TypeOK /\ Exclusive /\ Progress(u)
  BY DEF Steps
<1>2. /\ up[u].pc = "create" /\ up[u].i \in 1 .. Len(up[u].batch) /\ Place(u) = up[u].i
      /\ NameFor(u) \in Name /\ Len(up[u].made) = up[u].i - 1
      /\ up[u].i \in Nat /\ Len(up[u].batch) \in Nat
      /\ up[u].made \in Seq(Name) /\ Len(up[u].made) \in Nat
      /\ InOrder(u, Len(up[u].batch)) /\ IsFiniteSet(up[u].used) /\ up[u].answer = "none"
  BY <1>1, CreateFacts, UploadTyped DEF Create, Progress, Loading, Inside
<1>3. CASE up'[u].pc = "describe"
  <2>1. /\ up'[u].used = up[u].used \cup {NameFor(u)}
        /\ up'[u].made = Append(up[u].made, NameFor(u))
        /\ Moves(u)
    BY <1>3, CreateEffect
  <2>2. /\ tables' = Put(tables, NameFor(u), <<u, Place(u)>>)
        /\ lock' = lock /\ loop' = loop
        /\ sources' = sources /\ quality' = quality /\ open' = open /\ rd' = rd
        /\ temp' \subseteq temp
    <3>1. up' # [up EXCEPT ![u].pc = "done", ![u].answer = "500"]
      BY <1>1, <1>3 DEF TypeOK, Upload
    <3> QED
      BY <3>1 DEF Create, Raise
  <2>3. SessionTyped'
    <3>1. <<u, Place(u)>> \in Data
      BY <1>2 DEF Data
    <3>2. /\ DOMAIN tables' = DOMAIN tables \cup {NameFor(u)}
          /\ \A n \in DOMAIN tables' : tables'[n] \in {tables[n], <<u, Place(u)>>}
          /\ \A n \in DOMAIN tables' \ DOMAIN tables : tables'[n] = <<u, Place(u)>>
      BY <2>2 DEF Put
    <3>3. DOMAIN tables' \subseteq Name /\ \A n \in DOMAIN tables' : tables'[n] \in Data
      BY <1>1, <1>2, <3>1, <3>2 DEF TypeOK
    <3> QED
      BY <1>1, <2>2, <3>3 DEF TypeOK, SessionTyped
  <2>4. Len(up'[u].made) = up[u].i
    <3>1. Len(Append(up[u].made, NameFor(u))) = Len(up[u].made) + 1
      BY <1>2, AppendProperties
    <3> QED
      BY <1>2, <2>1, <3>1
  <2>5. IsFiniteSet(up'[u].used)
    <3>1. IsFiniteSet(up[u].used)
      BY <1>2
    <3>2. IsFiniteSet(up[u].used \cup {NameFor(u)})
      BY <3>1, FS_AddElement
    <3> QED
      BY <2>1, <3>2
  <2>6. Target(u)' = NameFor(u) /\ NameFor(u) \in DOMAIN tables'
        /\ DOMAIN tables \subseteq DOMAIN tables'
    <3>1. up'[u].made[Len(up[u].made) + 1] = NameFor(u)
      BY <1>2, <2>1, AppendProperties
    <3> QED
      BY <1>2, <2>2, <2>4, <3>1 DEF Target, Put
  <2>7. Progress(u)'
    BY <1>2, <1>3, <2>4, <2>5, <2>6, CreateEffect DEF Progress, Loading, Inside, InOrder
  <2> QED
    BY <1>1, <1>2, <1>3, <2>1, <2>2, <2>3, <2>6, <2>7, FrameSteps DEF Exclusive, Active, Inside
<1>4. CASE up'[u].pc = "done"
  <2>1. ~(up' = [up EXCEPT ![u].pc = "describe", ![u].used = @ \cup {NameFor(u)},
                           ![u].claimed = @ \cup {Current(u).name},
                           ![u].made = Append(@, NameFor(u))])
    BY <1>1, <1>4 DEF TypeOK, Upload
  <2>2. /\ tables' = tables /\ lock' = None /\ loop' = None
        /\ sources' = sources /\ quality' = quality /\ open' = open /\ rd' = rd
        /\ temp' \subseteq temp
    BY <2>1 DEF Create, Raise
  <2>3. SessionTyped'
    BY <1>1, <2>2 DEF TypeOK, SessionTyped
  <2> QED
    BY <1>2, <1>4, <2>2, <2>3, CreateEffect, RaiseSteps DEF Active
<1> QED
  BY <1>3, <1>4, CreateEffect

LEMMA DescribeSteps ==
    ASSUME Steps, NEW u \in Uploads, Describe(u)
    PROVE  Steps'
<1>1. TypeOK /\ Exclusive /\ Progress(u)
  BY DEF Steps
<1>2. SessionTyped'
  BY <1>1 DEF Describe, TypeOK, SessionTyped, session
<1>3. CASE up'[u].pc = "register"
  <2>1. up' # [up EXCEPT ![u].pc = "done", ![u].answer = "500"]
    BY <1>1, <1>3 DEF TypeOK, Upload
  <2>2. /\ lock' = lock /\ loop' = loop /\ rd' = rd /\ up[u].pc = "describe"
        /\ tables' = tables
    BY <2>1 DEF Describe, Raise, session
  <2>3. Progress(u)'
    BY <1>1, <1>3, <2>2, DescribeEffect DEF Progress, Target, InOrder, Loading, Inside
  <2> QED
    BY <1>1, <1>2, <1>3, <2>2, <2>3, FrameSteps, DescribeEffect DEF Exclusive, Active, Inside
<1>4. CASE up'[u].pc = "done"
  <2>1. up' # [up EXCEPT ![u].pc = "register"]
    BY <1>1, <1>4 DEF TypeOK, Upload
  <2>2. /\ lock' = None /\ loop' = None /\ rd' = rd /\ up[u].pc = "describe"
        /\ tables' = tables
    BY <2>1 DEF Describe, Raise, session
  <2> QED
    BY <1>1, <1>2, <1>4, <2>2, RaiseSteps, DescribeEffect DEF Active
<1> QED
  BY <1>1, <1>3, <1>4, DescribeEffect

LEMMA RegisterSteps ==
    ASSUME Steps, NEW u \in Uploads, Register(u)
    PROVE  Steps'
<1>1. TypeOK /\ Exclusive /\ Progress(u)
  BY DEF Steps
<1>2. SessionTyped'
  <2>1. RegisterEntry(u) \in [name: Name, file: Filenames]
    BY EntryTyped DEF Register, Inside
  <2>2. sources \in Seq([name: Name, file: Filenames])
    BY <1>1 DEF TypeOK
  <2>3. sources' \in Seq([name: Name, file: Filenames])
    <3>1. CASE RegisterEntry(u).name \in Registered
      <4>1. sources' = [j \in 1 .. Len(sources) |->
                 IF sources[j].name = RegisterEntry(u).name THEN RegisterEntry(u) ELSE sources[j]]
        BY <3>1 DEF Register, RegisterEntry
      <4>2. \A j \in 1 .. Len(sources) : sources'[j] \in [name: Name, file: Filenames]
        BY <1>1, <2>1, <4>1, SourcesTyped
      <4> QED
        BY <1>1, <4>1, <4>2, SourcesTyped, IsASeq
    <3>2. CASE RegisterEntry(u).name \notin Registered
      <4>1. sources' = Append(sources, RegisterEntry(u))
        BY <3>2 DEF Register, RegisterEntry
      <4> QED
        BY <2>1, <2>2, <4>1, AppendProperties
    <3> QED
      BY <3>1, <3>2
  <2> QED
    BY <1>1, <2>3 DEF Register, TypeOK, SessionTyped
<1>3. Progress(u)'
  BY <1>1, UploadTyped, RegisterEffect DEF Register, Target, Progress, InOrder, Loading, Inside
<1> QED
  BY <1>1, <1>2, <1>3, FrameSteps, RegisterEffect DEF Register, Exclusive, Active, Inside

LEMMA AssessSteps ==
    ASSUME Steps, NEW u \in Uploads, Assess(u)
    PROVE  Steps'
<1>1. TypeOK /\ Exclusive /\ Progress(u)
  BY DEF Steps
<1>2. up[u].pc = "assess" /\ rd' = rd
  BY DEF Assess
<1>3. CASE up'[u].pc = "create"
  <2>1. up' # [up EXCEPT ![u].pc = "done", ![u].answer = "500"]
    BY <1>1, <1>3 DEF TypeOK, Upload
  <2>2. /\ lock' = lock /\ loop' = loop /\ quality' = Put(quality, Target(u), tables[Target(u)])
        /\ tables' = tables /\ sources' = sources /\ temp' = temp /\ open' = open
    BY <2>1 DEF Assess, Raise
  <2>3. SessionTyped'
    <3>1. Target(u) \in Name /\ tables[Target(u)] \in Data
      BY EntryTyped, <1>2 DEF Inside
    <3>2. /\ DOMAIN quality' = DOMAIN quality \cup {Target(u)}
          /\ \A n \in DOMAIN quality' : quality'[n] \in {quality[n], tables[Target(u)]}
          /\ \A n \in DOMAIN quality' \ DOMAIN quality : quality'[n] = tables[Target(u)]
      BY <2>2 DEF Put
    <3>3. DOMAIN quality' \subseteq Name /\ \A n \in DOMAIN quality' : quality'[n] \in Data
      BY <1>1, <3>1, <3>2 DEF TypeOK
    <3> QED
      BY <1>1, <2>2, <3>3 DEF TypeOK, SessionTyped
  <2>4. Progress(u)'
    <3>1. up'[u].i = up[u].i + 1
      BY <1>1, <1>3, AssessEffect
    <3>2. /\ up[u].i \in 1 .. Len(up[u].batch) /\ Len(up[u].made) = up[u].i
          /\ Len(up[u].batch) \in Nat /\ InOrder(u, Len(up[u].batch))
          /\ IsFiniteSet(up[u].used) /\ up[u].answer = "none"
      BY <1>1, <1>2, UploadTyped DEF Progress, Inside, Loading
    <3>3. InOrder(u, Len(up[u].batch))' /\ IsFiniteSet(up'[u].used)
      BY <1>1, <3>2, AssessEffect DEF InOrder
    <3>4. /\ up'[u].pc = "create" /\ up'[u].answer = "none"
          /\ Len(up'[u].made) = up'[u].i - 1 /\ up'[u].i \in 1 .. Len(up'[u].batch) + 1
      BY <1>1, <1>3, <3>1, <3>2, AssessEffect
    <3> QED
      BY <3>3, <3>4 DEF Progress, Loading, Inside
  <2> QED
    BY <1>1, <1>2, <1>3, <2>2, <2>3, <2>4, FrameSteps, AssessEffect DEF Exclusive, Active, Inside
<1>4. CASE up'[u].pc = "done"
  <2>1. up' # [up EXCEPT ![u].pc = "create", ![u].i = @ + 1]
    BY <1>1, <1>4 DEF TypeOK, Upload
  <2>2. /\ lock' = None /\ loop' = None /\ quality' = quality
        /\ tables' = tables /\ sources' = sources /\ temp' = temp /\ open' = open
    BY <2>1 DEF Assess, Raise
  <2>3. SessionTyped'
    BY <1>1, <2>2 DEF TypeOK, SessionTyped
  <2> QED
    BY <1>1, <1>2, <1>4, <2>2, <2>3, RaiseSteps, AssessEffect DEF Active
<1> QED
  BY <1>1, <1>3, <1>4, AssessEffect

LEMMA UnlockSteps ==
    ASSUME Steps, NEW u \in Uploads, Unlock(u)
    PROVE  Steps'
<1>1. TypeOK /\ Exclusive /\ Progress(u)
  BY DEF Steps
<1>2. SessionTyped'
  BY <1>1 DEF Unlock, TypeOK, SessionTyped, session
<1>3. Progress(u)'
  BY <1>1, UploadTyped, UnlockEffect DEF Unlock, session, Target, Progress, InOrder, Loading, Inside
<1> QED
  BY <1>1, <1>2, <1>3, FrameSteps, UnlockEffect DEF Unlock, session, Exclusive, Active, Inside, Raise

LEMMA RespondSteps ==
    ASSUME Steps, NEW u \in Uploads, Respond(u)
    PROVE  Steps'
<1>1. TypeOK /\ Exclusive /\ Progress(u)
  BY DEF Steps
<1>2. SessionTyped'
  BY <1>1 DEF Respond, TypeOK, SessionTyped, session
<1>3. Progress(u)'
  BY <1>1, UploadTyped, RespondEffect DEF Respond, session, Target, Progress, InOrder, Loading, Inside
<1> QED
  BY <1>1, <1>2, <1>3, FrameSteps, RespondEffect DEF Respond, session, Exclusive, Active, Inside, Raise

LEMMA CleaningRaisesSteps ==
    ASSUME Steps, NEW u \in Uploads, CleaningRaises(u)
    PROVE  Steps'
<1>1. TypeOK
  BY DEF Steps
<1>2. SessionTyped'
  BY <1>1 DEF CleaningRaises, TypeOK, SessionTyped, session
<1> QED
  BY <1>1, <1>2, RaiseSteps, CleaningRaisesEffect DEF CleaningRaises, Raise, session, Active

-----------------------------------------------------------------------------
(* What an upload has loaded agrees with the session.                      *)

\* What has begun to load stays a part of the same batch.
Keep == \A d \in Data : Begun(d) => Begun(d)' /\ FileOf(d)' = FileOf(d)

LEMMA KeepStep ==
    ASSUME Steps, NEW u \in Uploads, Moves(u),
           up'[u].batch = up[u].batch \/ up[u].made = <<>>,
           up[u].made = <<>> \/ up'[u].made # <<>>
    PROVE  Keep
<1> SUFFICES ASSUME NEW d \in Data, Begun(d)
             PROVE  Begun(d)' /\ FileOf(d)' = FileOf(d)
  BY DEF Keep
<1>1. d[1] \in Uploads /\ up[d[1]].made # <<>>
  BY DEF Data, Begun
<1>2. up'[d[1]].made # <<>> /\ up'[d[1]].batch = up[d[1]].batch
  BY <1>1 DEF Moves
<1> QED
  BY <1>2 DEF Begun, FileOf

\* One upload at a time is on the event loop.
LEMMA OthersIdle ==
    ASSUME Steps, NEW u \in Uploads, loop \in {u, None}
    PROVE  \A v \in Uploads \ {u} : up[v].pc \notin Active
BY DEF Steps, Exclusive

\* What is on disk belongs to upload u, or was there before.
Spools(u) == \A d \in temp' : IF d[1] = u THEN SpooledAt(d)' ELSE d \in temp

\* Of the uploads only the one that moves has anything planned or half-made.
LEMMA FrameData ==
    ASSUME Steps, Agree, NEW u \in Uploads, Moves(u), loop \in {u, None},
           Registered \subseteq Registered', Listed', Assessed', OneTablePerFile',
           Spools(u),
           temp' \subseteq Data,
           Planned(u)', Made(u)', Whole(u)'
    PROVE  Agree'
<1>1. \A v \in Uploads \ {u} : up'[v] = up[v] /\ up[v].pc \notin Active
  BY OthersIdle DEF Moves
<1>2. \A v \in Uploads \ {u} : Planned(v)' /\ Made(v)'
  BY <1>1 DEF Planned, Made, Active, Loading, Inside
<1>3. \A v \in Uploads \ {u} : Whole(v)'
  BY <1>1 DEF Agree, Whole, Active
<1>4. Spooled'
  <2> SUFFICES ASSUME NEW d \in temp', d[1] # u PROVE SpooledAt(d)'
    BY DEF Spooled, Spools
  <2>1. d \in temp /\ d[1] \in Uploads
    BY DEF Data, Spools
  <2>2. SpooledAt(d) /\ up'[d[1]] = up[d[1]]
    BY <1>1, <2>1 DEF Agree, Spooled
  <2> QED
    BY <2>2 DEF SpooledAt
<1> QED
  BY <1>2, <1>3, <1>4 DEF Agree

LEMMA QuietListed ==
    ASSUME Steps, Agree, Keep, tables' = tables, sources' = sources, quality' = quality
    PROVE  Listed'
<1>1. Listed /\ TypeOK
  BY DEF Agree, Steps
<1>2. Registered' = Registered /\ ListedExist'
  BY <1>1 DEF Registered, Listed, ListedExist
<1>3. /\ \A n \in DOMAIN tables : tables[n] \in Data
      /\ \A n \in DOMAIN quality : quality[n] \in Data
  BY <1>1 DEF TypeOK
<1>4. /\ \A n \in DOMAIN tables : Begun(tables[n])' /\ FileOf(tables[n])' = FileOf(tables[n])
      /\ \A n \in DOMAIN quality : Begun(quality[n])' /\ FileOf(quality[n])' = FileOf(quality[n])
  <2>1. \A n \in DOMAIN tables : /\ (Begun(tables[n]))'
                                 /\ (FileOf(tables[n]))' = FileOf(tables[n])
    <3> TAKE n \in DOMAIN tables
    <3>1. PICK d \in Data : d = tables[n]
      BY <1>3
    <3>2. Begun(d)
      BY <1>1, <3>1 DEF Listed
    <3>3. Begun(d)' /\ FileOf(d)' = FileOf(d)
      BY <3>2 DEF Keep
    <3> QED
      BY <3>1, <3>3 DEF Begun, FileOf
  <2>2. \A n \in DOMAIN quality : /\ (Begun(quality[n]))'
                                  /\ (FileOf(quality[n]))' = FileOf(quality[n])
    <3> TAKE n \in DOMAIN quality
    <3>1. PICK d \in Data : d = quality[n]
      BY <1>3
    <3>2. Begun(d)
      BY <1>1, <3>1 DEF Listed
    <3>3. Begun(d)' /\ FileOf(d)' = FileOf(d)
      BY <3>2 DEF Keep
    <3> QED
      BY <3>1, <3>3 DEF Begun, FileOf
  <2> QED
    BY <2>1, <2>2
<1>5. \A k \in 1 .. Len(sources) : sources[k].name \in DOMAIN tables
  BY <1>1 DEF Listed, ListedExist, Registered
<1> QED
  BY <1>1, <1>2, <1>4, <1>5 DEF Listed

\* A table that is listed was loaded by an upload.
LEMMA ListedByUpload ==
    ASSUME TypeOK, Listed, NEW n \in Registered
    PROVE  tables[n] \in Data /\ tables[n][1] \in Uploads
BY DEF TypeOK, Listed, ListedExist, Data

LEMMA QuietAssessed ==
    ASSUME Steps, Agree, NEW u \in Uploads, Moves(u), loop \in {u, None},
           tables' = tables, sources' = sources, quality' = quality,
           up'[u].made = up[u].made,
           \/ up[u].pc \notin {"describe", "register", "assess", "done"}
           \/ up[u].pc = "describe" /\ up'[u].pc = "register"
           \/ up'[u].pc = "done" /\ up'[u].answer = "500"
    PROVE  Assessed'
<1> SUFFICES ASSUME NEW n \in Registered \ DOMAIN quality,
                    NEW v \in Uploads, v = tables[n][1]
             PROVE  \/ Failed(v)'
                    \/ /\ up'[v].pc \in {"describe", "register", "assess"}
                       /\ Target(v)' = n
  <2>1. Registered' = Registered
    BY DEF Registered
  <2>2. \A n \in Registered : tables[n][1] \in Uploads
    BY ListedByUpload DEF Steps, Agree
  <2> QED
    BY <2>1, <2>2 DEF Assessed, Failed, Target
<1>1. Failed(v) \/ (up[v].pc \in {"describe", "register", "assess"} /\ Target(v) = n)
  BY DEF Agree, Assessed
<1>2. CASE v # u
  BY <1>1, <1>2, OthersIdle DEF Moves, Failed, Active
<1>3. CASE v = u
  BY <1>1, <1>3 DEF Failed, Target
<1> QED
  BY <1>2, <1>3

LEMMA QuietOne ==
    ASSUME Agree, NEW u \in Uploads, Moves(u), sources' = sources,
           up'[u].batch = up[u].batch \/ up[u].batch = <<>>
    PROVE  OneTablePerFile'
<1>1. NamedOnce(<<>>)
  BY DEF NamedOnce
<1>2. \A v \in Uploads : NamedOnce(up'[v].batch) => NamedOnce(up[v].batch)
  BY <1>1 DEF Moves
<1>3. \A b : NamedOnce(b)' <=> NamedOnce(b)
  BY DEF NamedOnce
<1> QED
  BY <1>2 DEF Agree, OneTablePerFile, NamedOnce

\* An upload that only goes on to its next step.
LEMMA SameOwn ==
    ASSUME Steps, Agree, NEW u \in Uploads,
           tables' = tables, sources' = sources, quality' = quality, temp' \subseteq temp,
           up'[u].batch = up[u].batch, up'[u].i = up[u].i, up'[u].replaces = up[u].replaces,
           up'[u].used = up[u].used, up'[u].claimed = up[u].claimed, up'[u].made = up[u].made,
           up[u].pc # "assess", up'[u].pc # "assess"
    PROVE  /\ up[u].pc \in Loading => Planned(u)'
           /\ up[u].pc \in Inside \cup {"respond"} => Made(u)'
<1>1. Registered' = Registered /\ \A f \in Filenames : Of(f)' = Of(f)
  BY DEF Registered, Of
<1>2. \A j : Logged(u, j)' <=> Logged(u, j)
  BY DEF Logged
<1>3. \A f : MadeBy(u, f)' <=> MadeBy(u, f)
  BY DEF MadeBy
<1>4. Planned(u) /\ Made(u)
  BY DEF Agree
<1>5. Loaded(u) => Loaded(u)'
  BY <1>2 DEF Loaded, LoadedAt
<1>6. /\ StillUsed(u) => StillUsed(u)'
      /\ StillThere(u) => StillThere(u)'
      /\ StillNew(u) => StillNew(u)'
      /\ FirstReplaces(u) => FirstReplaces(u)'
  BY <1>1, <1>2, <1>3 DEF StillUsed, StillThere, StillNew, FirstReplaces
<1> QED
  BY <1>4, <1>5, <1>6 DEF Planned, Made

\* A step that changes neither the session nor what its upload has made.
LEMMA QuietData ==
    ASSUME Steps, Steps', Agree, NEW u \in Uploads, Moves(u), loop \in {u, None},
           tables' = tables, sources' = sources, quality' = quality, open' = open,
           up'[u].batch = up[u].batch \/ (up[u].batch = <<>> /\ up[u].made = <<>>),
           up'[u].made = up[u].made,
           \/ up[u].pc \notin {"describe", "register", "assess", "done"}
           \/ up[u].pc = "describe" /\ up'[u].pc = "register"
           \/ up'[u].pc = "done" /\ up'[u].answer = "500",
           Spools(u),
           Planned(u)', Made(u)', Whole(u)'
    PROVE  Agree'
<1>1. Keep
  BY KeepStep
<1>2. temp' \subseteq Data
  BY DEF Steps, TypeOK
<1>3. Registered \subseteq Registered'
  BY DEF Registered
<1> QED
  BY <1>1, <1>2, <1>3, QuietListed, QuietAssessed, QuietOne, FrameData

\* What an exception leaves is of no upload.
LEMMA RaiseData ==
    ASSUME Steps, Steps', Agree, NEW u \in Uploads, Moves(u), up[u].pc \in Active,
           tables' = tables, sources' = sources, quality' = quality, open' = open,
           up'[u].batch = up[u].batch, up'[u].made = up[u].made,
           up'[u].pc = "done", up'[u].answer = "500", temp' \subseteq temp
    PROVE  Agree'
<1>1. loop = u
  BY DEF Steps, Exclusive
<1>2. Spools(u)
  BY DEF Spools, SpooledAt
<1>3. Planned(u)' /\ Made(u)' /\ Whole(u)'
  BY DEF Planned, Made, Whole, Loading, Inside
<1> QED
  BY <1>1, <1>2, <1>3, QuietData

LEMMA ReceiveData ==
    ASSUME Steps, Steps', Agree, NEW u \in Uploads, NEW batch \in Batches, Receive(u, batch)
    PROVE  Agree'
<1>1. TypeOK /\ Progress(u) /\ Spooled /\ Progress(u)'
  BY DEF Steps, Agree
<1>2. up'[u].pc = "reading" /\ up[u].pc = "new" /\ Moves(u) /\ up'[u].made = up[u].made
  BY <1>1, ReceiveEffect DEF Receive
<1>3. up[u].batch = <<>> /\ up[u].made = <<>> /\ up'[u].answer = "none"
  BY <1>1, <1>2 DEF Progress, Inside
<1>4. Spools(u)
  BY <1>1, <1>2 DEF Spools, Spooled, SpooledAt, Receive
<1>5. Planned(u)' /\ Made(u)' /\ Whole(u)'
  BY <1>2, <1>3 DEF Planned, Made, Whole, Loading, Inside
<1> QED
  BY <1>2, <1>3, <1>4, <1>5, QuietData DEF Receive, session

LEMMA ResumeData ==
    ASSUME Steps, Steps', Agree, NEW u \in Uploads, Resume(u)
    PROVE  Agree'
<1>1. TypeOK /\ Progress(u) /\ Spooled /\ Progress(u)'
  BY DEF Steps, Agree
<1>2. /\ up'[u].pc = "parse" /\ up[u].pc = "reading" /\ Moves(u)
      /\ up'[u].made = up[u].made /\ up'[u].batch = up[u].batch
  BY <1>1, ResumeEffect DEF Resume
<1>3. up'[u].answer = "none"
  BY <1>1, <1>2 DEF Progress
<1>4. Spools(u)
  BY <1>1, <1>2 DEF Spools, Spooled, SpooledAt, Resume
<1>5. Planned(u)' /\ Made(u)' /\ Whole(u)'
  BY <1>2, <1>3 DEF Planned, Made, Whole, Loading, Inside
<1> QED
  BY <1>2, <1>3, <1>4, <1>5, QuietData DEF Resume, session

LEMMA ParseData ==
    ASSUME Steps, Steps', Agree, NEW u \in Uploads, Parse(u)
    PROVE  Agree'
<1>1. TypeOK /\ Progress(u) /\ Spooled /\ Progress(u)' /\ Exclusive
  BY DEF Steps, Agree
<1>2. /\ up'[u].pc = "parse" /\ up[u].pc = "parse" /\ Moves(u)
      /\ up'[u].made = up[u].made /\ up'[u].batch = up[u].batch
  BY <1>1, ParseEffect DEF Parse
<1>3. up'[u].answer = "none" /\ loop = u
  BY <1>1, <1>2 DEF Progress, Exclusive, Active
<1>4. Spools(u)
  <2> SUFFICES ASSUME NEW d \in temp'
               PROVE  IF d[1] = u THEN SpooledAt(d)' ELSE d \in temp
    BY DEF Spools
  <2>1. CASE d \in temp /\ d[1] = u
    <3>1. PICK j \in 1 .. Len(up[u].parsed) : up[u].parsed[j] = d[2]
      BY <1>1, <1>2, <2>1 DEF Spooled, SpooledAt
    <3>2. \/ up'[u].parsed = up[u].parsed
          \/ up'[u].parsed = Append(up[u].parsed, up[u].i)
      BY <1>1, ParseEffect
    <3>3. j \in 1 .. Len(up'[u].parsed) /\ up'[u].parsed[j] = d[2]
      BY <1>1, <3>1, <3>2, UploadTyped, AppendProperties
    <3> QED
      BY <1>2, <1>3, <2>1, <3>3 DEF SpooledAt
  <2>2. CASE d \notin temp
    <3>1. /\ d = <<u, up[u].i>>
          /\ up' = [up EXCEPT ![u].parsed = Append(@, up[u].i), ![u].i = @ + 1]
      BY <2>2 DEF Parse
    <3>2. up'[u].parsed = Append(up[u].parsed, up[u].i)
      BY <1>1, <3>1 DEF TypeOK, Upload
    <3>3. /\ Len(up[u].parsed) + 1 \in 1 .. Len(up'[u].parsed)
          /\ up'[u].parsed[Len(up[u].parsed) + 1] = d[2]
      BY <1>1, <3>1, <3>2, UploadTyped, AppendProperties
    <3> QED
      BY <1>2, <1>3, <3>1, <3>3 DEF SpooledAt
  <2> QED
    BY <2>1, <2>2
<1>5. Planned(u)' /\ Made(u)' /\ Whole(u)'
  BY <1>2, <1>3 DEF Planned, Made, Whole, Loading, Inside
<1> QED
  BY <1>2, <1>3, <1>4, <1>5, QuietData DEF Parse, session

LEMMA RejectData ==
    ASSUME Steps, Steps', Agree, NEW u \in Uploads, Reject(u)
    PROVE  Agree'
<1>1. TypeOK /\ Progress(u) /\ Spooled /\ Progress(u)' /\ Exclusive
  BY DEF Steps, Agree
<1>2. /\ up'[u].pc = "done" /\ up[u].pc = "parse" /\ Moves(u) /\ up'[u].answer = "400"
      /\ up'[u].made = up[u].made /\ up'[u].batch = up[u].batch
  BY <1>1, RejectEffect DEF Reject
<1>3. loop = u
  BY <1>1, <1>2 DEF Exclusive, Active
<1>4. \A d \in temp' : d \in temp /\ d[1] # u
  <2> SUFFICES ASSUME NEW d \in temp', d[1] = u PROVE FALSE
    BY DEF Reject
  <2>1. d \in temp /\ d \notin {<<u, up[u].parsed[j]>> : j \in 1 .. Len(up[u].parsed)}
    BY DEF Reject
  <2>2. PICK j \in 1 .. Len(up[u].parsed) : up[u].parsed[j] = d[2]
    BY <1>1, <1>2, <2>1 DEF Spooled, SpooledAt
  <2>3. d = <<u, up[u].parsed[j]>>
    BY <1>1, <2>1, <2>2 DEF TypeOK, Data
  <2> QED
    BY <2>1, <2>2, <2>3
<1>5. Planned(u)' /\ Made(u)' /\ Whole(u)' /\ Spools(u)
  BY <1>2, <1>3, <1>4 DEF Planned, Made, Whole, Loading, Inside, Spools
<1> QED
  BY <1>2, <1>3, <1>5, QuietData DEF Reject, session

LEMMA PlanData ==
    ASSUME Steps, Steps', Agree, NEW u \in Uploads, Plan(u)
    PROVE  Agree'
<1>1. TypeOK /\ Progress(u) /\ Spooled /\ Progress(u)' /\ Exclusive
  BY DEF Steps, Agree
<1>2. /\ up'[u].pc = "lock" /\ up[u].pc = "parse" /\ Moves(u)
      /\ up'[u].made = up[u].made /\ up'[u].batch = up[u].batch
      /\ up'[u].used = NamesInUse /\ up'[u].claimed = up[u].claimed
      /\ up'[u].replaces = [f \in Filenames |-> FirstTableOf(f)]
  BY <1>1, PlanEffect DEF Plan
<1>3. loop = u /\ up'[u].answer = "none" /\ up'[u].made = <<>> /\ up[u].claimed = {}
  BY <1>1, <1>2 DEF Progress, Exclusive, Active, Inside
<1>4. Spools(u)
  BY <1>1, <1>2, <1>3 DEF Spools, SpooledAt, Plan
<1>5. sources' = sources
  BY DEF Plan, session
<1>6. Registered' = Registered /\ \A f \in Filenames : Of(f)' = Of(f)
  BY <1>5 DEF Registered, Of
<1>7. StillUsed(u)'
  BY <1>2, <1>3, <1>6 DEF StillUsed, NamesInUse
<1>8. /\ \A f \in Filenames : up'[u].replaces[f] = FirstTableOf(f)
      /\ \A f \in Filenames : FirstTableOf(f) = None <=> Of(f) = {}
  <2>1. \A f \in Filenames : Of(f) # {} => FirstTableOf(f) # None
    BY <1>1, FirstTable, SourcesTyped
  <2> QED
    BY <1>2, <2>1 DEF FirstTableOf
<1>9. StillThere(u)'
  <2> SUFFICES ASSUME NEW f \in Filenames, up'[u].replaces[f] # None
               PROVE  \E k \in 1 .. Len(sources) :
                         sources[k] = [name |-> up'[u].replaces[f], file |-> f]
    BY <1>5 DEF StillThere
  <2>1. PICK k \in 1 .. Len(sources) :
            sources[k].file = f /\ sources[k].name = FirstTableOf(f)
    BY <1>1, <1>8, FirstTable
  <2>2. sources[k] \in [name: Name, file: Filenames]
    BY <1>1, SourcesTyped
  <2>3. sources[k] = [name |-> up'[u].replaces[f], file |-> f]
    BY <1>8, <2>1, <2>2
  <2> QED
    BY <2>3
<1>10. StillNew(u)'
  BY <1>6, <1>8 DEF StillNew
<1>11. FirstReplaces(u)'
  <2>1. \A f \in Filenames : ~MadeBy(u, f)'
    BY <1>3 DEF MadeBy
  <2> QED
    BY <1>2, <1>3, <2>1 DEF FirstReplaces
<1>12. Planned(u)' /\ Made(u)' /\ Whole(u)'
  BY <1>2, <1>3, <1>7, <1>9, <1>10, <1>11 DEF Planned, Made, Whole, Loading, Inside
<1> QED
  BY <1>2, <1>3, <1>4, <1>12, QuietData DEF Plan, session

\* A step that leaves the disk alone, or frees some of it.
LEMMA NoSpooling ==
    ASSUME NEW u \in Uploads, temp' \subseteq temp, up'[u].answer # "400",
           up'[u].pc \notin {"new", "reading", "parse"}
    PROVE  Spools(u)
BY DEF Spools, SpooledAt

LEMMA TakeLockData ==
    ASSUME Steps, Steps', Agree, NEW u \in Uploads, TakeLock(u)
    PROVE  Agree'
<1>1. TypeOK /\ Progress(u) /\ Progress(u)' /\ Exclusive
  BY DEF Steps
<1>2. /\ up'[u].pc = "create" /\ up[u].pc = "lock" /\ Moves(u)
      /\ up'[u].made = up[u].made /\ up'[u].batch = up[u].batch /\ up'[u].i = up[u].i
      /\ up'[u].used = up[u].used /\ up'[u].claimed = up[u].claimed
      /\ up'[u].replaces = up[u].replaces
  BY <1>1, TakeLockEffect DEF TakeLock
<1>3. loop = u /\ up'[u].answer = "none" /\ up'[u].made = <<>>
  BY <1>1, <1>2 DEF Progress, Exclusive, Active, Inside
<1>4. /\ tables' = tables /\ sources' = sources /\ quality' = quality /\ open' = open
      /\ temp' = temp
  BY DEF TakeLock, session
<1>5. Planned(u)'
  BY <1>2, <1>4, SameOwn DEF Loading
<1>6. Made(u)' /\ Whole(u)'
  BY <1>2, <1>3 DEF Made, Loaded, LoadedAt, Whole
<1>7. Spools(u)
  BY <1>2, <1>3, <1>4, NoSpooling
<1> QED
  BY <1>2, <1>3, <1>4, <1>5, <1>6, <1>7, QuietData

LEMMA DescribeData ==
    ASSUME Steps, Steps', Agree, NEW u \in Uploads, Describe(u)
    PROVE  Agree'
<1>1. TypeOK /\ Progress(u)' /\ Exclusive
  BY DEF Steps
<1>2. /\ up'[u].pc = "register" \/ (up'[u].pc = "done" /\ up'[u].answer = "500")
      /\ up[u].pc = "describe" /\ Moves(u)
      /\ up'[u].made = up[u].made /\ up'[u].batch = up[u].batch /\ up'[u].i = up[u].i
      /\ up'[u].used = up[u].used /\ up'[u].claimed = up[u].claimed
      /\ up'[u].replaces = up[u].replaces
  BY <1>1, DescribeEffect DEF Describe
<1>3. /\ tables' = tables /\ sources' = sources /\ quality' = quality /\ open' = open
      /\ temp' = temp
  BY DEF Describe, session
<1>4. CASE up'[u].pc = "register"
  <2>1. loop = u /\ up'[u].answer = "none"
    BY <1>1, <1>2, <1>4 DEF Progress, Exclusive, Active
  <2>2. Planned(u)' /\ Made(u)'
    BY <1>2, <1>3, <1>4, SameOwn DEF Loading, Inside
  <2>3. Whole(u)'
    BY <1>4, <2>1 DEF Whole
  <2>4. Spools(u)
    BY <1>3, <1>4, <2>1, NoSpooling
  <2> QED
    BY <1>2, <1>3, <2>1, <2>2, <2>3, <2>4, QuietData
<1>5. CASE up'[u].pc = "done" /\ up'[u].answer = "500"
  BY <1>2, <1>3, <1>5, RaiseData DEF Active
<1> QED
  BY <1>2, <1>4, <1>5

LEMMA UnlockData ==
    ASSUME Steps, Steps', Agree, NEW u \in Uploads, Unlock(u)
    PROVE  Agree'
<1>1. TypeOK /\ Progress(u) /\ Progress(u)' /\ Exclusive /\ Made(u)
  BY DEF Steps, Agree
<1>2. /\ up'[u].pc = "respond" /\ up[u].pc = "create" /\ Moves(u)
      /\ up'[u].made = up[u].made /\ up'[u].batch = up[u].batch /\ up'[u].i = up[u].i
      /\ up'[u].used = up[u].used /\ up'[u].claimed = up[u].claimed
      /\ up'[u].replaces = up[u].replaces
  BY <1>1, UnlockEffect DEF Unlock
<1>3. loop = u /\ up'[u].answer = "none"
  BY <1>1, <1>2 DEF Progress, Exclusive, Active
<1>4. /\ tables' = tables /\ sources' = sources /\ quality' = quality /\ open' = open
      /\ temp' = temp
  BY DEF Unlock, session
<1>5. Planned(u)' /\ Made(u)'
  BY <1>2, <1>4, SameOwn DEF Loading, Inside
<1>6. Whole(u)'
  <2> SUFFICES ASSUME NEW j \in 1 .. Len(up[u].made) PROVE up[u].made[j] \in Registered
    BY <1>2, <1>4 DEF Whole, Registered
  <2>1. Loaded(u) /\ Len(up[u].made) = up[u].i - 1 /\ up[u].i \in Nat
    BY <1>1, <1>2, UploadTyped DEF Made, Progress, Inside
  <2>2. Logged(u, j)
    BY <2>1 DEF Logged
  <2>3. PICK k \in 1 .. Len(sources) :
            sources[k] = [name |-> up[u].made[j], file |-> up[u].batch[j].name]
    BY <2>1, <2>2 DEF Loaded, LoadedAt
  <2>4. sources[k].name = up[u].made[j]
    BY <2>3
  <2> QED
    BY <2>4 DEF Registered
<1>7. Spools(u)
  BY <1>2, <1>3, <1>4, NoSpooling
<1> QED
  BY <1>2, <1>3, <1>4, <1>5, <1>6, <1>7, QuietData

LEMMA RespondData ==
    ASSUME Steps, Steps', Agree, NEW u \in Uploads, Respond(u)
    PROVE  Agree'
<1>1. TypeOK /\ Exclusive /\ Whole(u)
  BY DEF Steps, Agree
<1>2. /\ up'[u].pc = "done" /\ up'[u].answer = "200" /\ up[u].pc = "respond" /\ Moves(u)
      /\ up'[u].made = up[u].made /\ up'[u].batch = up[u].batch
  BY <1>1, RespondEffect DEF Respond
<1>3. loop = u
  BY <1>1, <1>2 DEF Exclusive, Active
<1>4. /\ tables' = tables /\ sources' = sources /\ quality' = quality /\ open' = open
      /\ temp' = temp
  BY DEF Respond, session
<1>5. Planned(u)' /\ Made(u)'
  BY <1>2 DEF Planned, Made, Loading, Inside
<1>6. Whole(u)'
  BY <1>1, <1>2, <1>4 DEF Whole, Registered
<1>7. Spools(u)
  BY <1>2, <1>4, NoSpooling
<1> QED
  BY <1>2, <1>3, <1>4, <1>5, <1>6, <1>7, QuietData

LEMMA CleaningRaisesData ==
    ASSUME Steps, Steps', Agree, NEW u \in Uploads, CleaningRaises(u)
    PROVE  Agree'
<1>1. TypeOK
  BY DEF Steps
<1>2. /\ up'[u].pc = "done" /\ up'[u].answer = "500" /\ up[u].pc = "parse" /\ Moves(u)
      /\ up'[u].made = up[u].made /\ up'[u].batch = up[u].batch
  BY <1>1, CleaningRaisesEffect DEF CleaningRaises
<1>3. /\ tables' = tables /\ sources' = sources /\ quality' = quality /\ open' = open
      /\ temp' = temp
  BY DEF CleaningRaises, session
<1> QED
  BY <1>2, <1>3, RaiseData DEF Active

\* The table chosen is none of the batch's own; a table that is replaced is of the
\* same file, and no other file's is to be replaced by it.
LEMMA NameIsOwn ==
    ASSUME Steps, Agree, NEW u \in Uploads, up[u].pc = "create", up[u].i <= Len(up[u].parsed)
    PROVE  /\ \A j \in 1 .. Len(up[u].made) : up[u].made[j] # NameFor(u)
           /\ \A k \in 1 .. Len(sources) : sources[k].name = NameFor(u) =>
                 sources[k].file = Current(u).name
           /\ \A f \in Filenames : up[u].replaces[f] = NameFor(u) => f = Current(u).name
           /\ ~MadeBy(u, Current(u).name) /\ up[u].replaces[Current(u).name] # None =>
                 NameFor(u) = up[u].replaces[Current(u).name]
<1> DEFINE f == Current(u).name
<1>1. TypeOK /\ Progress(u) /\ Listed /\ ListedExist
  BY DEF Steps, Agree, Listed
<1>2. StillUsed(u) /\ StillThere(u) /\ FirstReplaces(u)
  BY DEF Agree, Planned, Loading, Inside
<1>3. f \in Filenames /\ NameFor(u) \in Name
  BY CreateFacts
<1>4. \A j, k \in 1 .. Len(sources) : sources[j].name = sources[k].name => j = k
  BY <1>1 DEF ListedExist
<1>5. f \in up[u].claimed <=> MadeBy(u, f)
  BY <1>2, <1>3 DEF FirstReplaces
<1>6. CASE NameFor(u) \notin up[u].used /\ (up[u].replaces[f] = None \/ f \in up[u].claimed)
  <2>1. \A j \in 1 .. Len(up[u].made) : up[u].made[j] # NameFor(u)
    BY <1>2, <1>6 DEF StillUsed
  <2>2. \A k \in 1 .. Len(sources) : sources[k].name # NameFor(u)
    BY <1>1, <1>2, <1>6, SourcesTyped DEF StillUsed
  <2>3. \A g \in Filenames : up[u].replaces[g] # NameFor(u)
    <3> SUFFICES ASSUME NEW g \in Filenames, up[u].replaces[g] = NameFor(u) PROVE FALSE
      OBVIOUS
    <3>1. PICK k \in 1 .. Len(sources) : sources[k] = [name |-> NameFor(u), file |-> g]
      BY <1>2, <1>3 DEF StillThere
    <3>2. sources[k].name = NameFor(u)
      BY <3>1
    <3> QED
      BY <2>2, <3>2
  <2> QED
    BY <1>5, <1>6, <2>1, <2>2, <2>3
<1>7. CASE /\ up[u].replaces[f] # None /\ f \notin up[u].claimed
           /\ NameFor(u) = up[u].replaces[f]
  <2>1. PICK k \in 1 .. Len(sources) : sources[k] = [name |-> NameFor(u), file |-> f]
    BY <1>2, <1>3, <1>7 DEF StillThere
  <2>2. \A j \in 1 .. Len(up[u].made) : up[u].made[j] # NameFor(u)
    BY <1>2, <1>3, <1>5, <1>7 DEF FirstReplaces, MadeBy
  <2>3. \A m \in 1 .. Len(sources) : sources[m].name = NameFor(u) => sources[m].file = f
    BY <1>4, <2>1
  <2>4. \A g \in Filenames : up[u].replaces[g] = NameFor(u) => g = f
    <3> SUFFICES ASSUME NEW g \in Filenames, up[u].replaces[g] = NameFor(u) PROVE g = f
      OBVIOUS
    <3>1. PICK m \in 1 .. Len(sources) : sources[m] = [name |-> NameFor(u), file |-> g]
      BY <1>2, <1>3 DEF StillThere
    <3>2. sources[m].name = NameFor(u) /\ sources[m].file = g
      BY <3>1
    <3> QED
      BY <2>3, <3>2
  <2> QED
    BY <1>7, <2>2, <2>3, <2>4
<1> QED
  BY <1>6, <1>7, CreateFacts

LEMMA CreateMakes ==
    ASSUME Steps, Steps', Agree, NEW u \in Uploads, Create(u), up'[u].pc = "describe"
    PROVE  Agree'
<1> DEFINE m == up[u].made
<1>1. TypeOK /\ Progress(u) /\ Progress(u)' /\ Exclusive /\ Listed /\ ListedExist
  BY DEF Steps, Agree, Listed
<1>2. /\ up[u].pc = "create" /\ up[u].i <= Len(up[u].parsed)
      /\ loop = u /\ up'[u].answer = "none"
  BY <1>1 DEF Create, Progress, Exclusive, Active
<1>3. PICK n : n = NameFor(u)
  OBVIOUS
<1>4. PICK f : f = Current(u).name
  OBVIOUS
<1>5. PICK i \in Nat : i = up[u].i
  BY <1>1, UploadTyped
<1>6. /\ i \in 1 .. Len(up[u].batch) /\ Place(u) = i /\ up[u].batch[i].name = f
      /\ n \in Name /\ f \in Filenames
      /\ m \in Seq(Name) /\ Len(m) = i - 1 /\ Len(m) \in Nat
  BY <1>1, <1>2, <1>3, <1>4, <1>5, CreateFacts, UploadTyped DEF Progress
<1>7. /\ up'[u].made = Append(m, n)
      /\ up'[u].used = up[u].used \cup {n} /\ up'[u].claimed = up[u].claimed \cup {f}
      /\ Moves(u) /\ up'[u].batch = up[u].batch /\ up'[u].i = i
      /\ up'[u].replaces = up[u].replaces
  BY <1>3, <1>4, <1>5, CreateEffect
<1>8. /\ Len(up'[u].made) = i /\ up'[u].made[i] = n
      /\ \A j \in 1 .. Len(m) : up'[u].made[j] = m[j] /\ j < i
      /\ \A j \in 1 .. Len(up'[u].made) : j \in 1 .. Len(m) \/ j = i
  BY <1>6, <1>7, AppendProperties
<1>9. /\ tables' = Put(tables, n, <<u, i>>) /\ temp' = temp \ {<<u, i>>}
      /\ sources' = sources /\ quality' = quality /\ open' = open
  <2>1. up' # [up EXCEPT ![u].pc = "done", ![u].answer = "500"]
    BY <1>1 DEF TypeOK, Upload
  <2> QED
    BY <1>3, <1>6, <2>1 DEF Create, Raise
<1>10. /\ DOMAIN tables' = DOMAIN tables \cup {n} /\ tables'[n] = <<u, i>>
       /\ \A o \in DOMAIN tables : o # n => tables'[o] = tables[o]
  BY <1>9 DEF Put
<1>11. /\ \A j \in 1 .. Len(m) : m[j] # n
       /\ \A k \in 1 .. Len(sources) : sources[k].name = n => sources[k].file = f
       /\ \A g \in Filenames : up[u].replaces[g] = n => g = f
       /\ ~MadeBy(u, f) /\ up[u].replaces[f] # None => n = up[u].replaces[f]
  BY <1>2, <1>3, <1>4, NameIsOwn
<1> HIDE DEF m
<1>12. /\ StillUsed(u) /\ StillThere(u) /\ StillNew(u) /\ FirstReplaces(u) /\ Loaded(u)
  BY <1>2 DEF Agree, Planned, Made, Loading, Inside
<1>13. Keep
  <2>1. up'[u].made # <<>>
    BY <1>5, <1>6, <1>8
  <2> QED
    BY <1>7, <2>1, KeepStep
<1>14. Registered' = Registered /\ \A g \in Filenames : Of(g)' = Of(g)
  BY <1>9 DEF Registered, Of
<1>15. Listed'
  <2>1. ListedExist'
    BY <1>1, <1>9, <1>10, <1>14 DEF ListedExist
  <2>2. \A o \in DOMAIN tables' : Begun(tables[o])'
    <3> TAKE o \in DOMAIN tables'
    <3>1. CASE o = n
      BY <1>5, <1>6, <1>8, <1>10, <3>1 DEF Begun
    <3>2. CASE o # n
      <4>1. o \in DOMAIN tables /\ tables'[o] = tables[o]
        BY <1>10, <3>2
      <4>2. PICK d \in Data : d = tables[o]
        BY <1>1, <4>1 DEF TypeOK
      <4>3. Begun(d)
        BY <1>1, <4>1, <4>2 DEF Listed
      <4>4. Begun(d)'
        BY <1>13, <4>3 DEF Keep
      <4> QED
        BY <4>1, <4>2, <4>4 DEF Begun
    <3> QED
      BY <3>1, <3>2
  <2>3. \A o \in DOMAIN quality : Begun(quality[o])' /\ FileOf(quality[o])' = FileOf(quality[o])
    <3> TAKE o \in DOMAIN quality
    <3>1. PICK d \in Data : d = quality[o]
      BY <1>1 DEF TypeOK
    <3>2. Begun(d)
      BY <1>1, <3>1 DEF Listed
    <3>3. Begun(d)' /\ FileOf(d)' = FileOf(d)
      BY <1>13, <3>2 DEF Keep
    <3> QED
      BY <1>9, <3>1, <3>3 DEF Begun, FileOf
  <2>4. \A k \in 1 .. Len(sources) : FileOf(tables[sources[k].name])' = sources[k].file
    <3> TAKE k \in 1 .. Len(sources)
    <3>1. CASE sources[k].name = n
      BY <1>6, <1>7, <1>9, <1>10, <1>11, <3>1 DEF FileOf
    <3>2. CASE sources[k].name # n
      <4>1. PICK o : o = sources[k].name
        OBVIOUS
      <4>2. o \in DOMAIN tables /\ tables'[o] = tables[o]
        BY <1>1, <1>10, <3>2, <4>1 DEF ListedExist, Registered
      <4>3. PICK d \in Data : d = tables[o]
        BY <1>1, <4>2 DEF TypeOK
      <4>4. Begun(d) /\ FileOf(d) = sources[k].file
        BY <1>1, <4>1, <4>2, <4>3 DEF Listed
      <4>5. FileOf(d)' = FileOf(d)
        BY <1>13, <4>4 DEF Keep
      <4> QED
        BY <1>9, <4>1, <4>2, <4>3, <4>4, <4>5 DEF FileOf
    <3> QED
      BY <3>1, <3>2
  <2> QED
    BY <1>1, <1>9, <1>14, <2>1, <2>2, <2>3, <2>4 DEF Listed
<1>16. Assessed' /\ OneTablePerFile'
  <2>1. OneTablePerFile'
    BY <1>7, <1>9, QuietOne
  <2>2. Assessed'
    <3> SUFFICES ASSUME NEW o \in Registered \ DOMAIN quality,
                        NEW v \in Uploads, v = tables'[o][1]
                 PROVE  \/ Failed(v)'
                        \/ /\ up'[v].pc \in {"describe", "register", "assess"}
                           /\ Target(v)' = o
      <4>1. \A o \in Registered : tables[o][1] \in Uploads /\ o \in DOMAIN tables
        BY <1>1, ListedByUpload DEF ListedExist
      <4>2. \A o \in Registered : tables'[o][1] \in Uploads
        BY <1>10, <4>1
      <4> QED
        BY <1>9, <1>14, <4>2 DEF Assessed, Failed, Target
    <3>1. CASE o = n
      <4>1. v = u
        BY <1>10, <3>1
      <4> QED
        BY <1>8, <3>1, <4>1 DEF Target
    <3>2. CASE o # n
      <4>1. v = tables[o][1]
        BY <1>1, <1>10, <3>2 DEF ListedExist
      <4>2. Failed(v) \/ up[v].pc \in {"describe", "register", "assess"}
        BY <4>1 DEF Agree, Assessed
      <4>3. v # u
        BY <1>2, <4>2 DEF Failed
      <4> QED
        BY <1>2, <1>7, <4>2, <4>3, OthersIdle DEF Moves, Failed, Active
    <3> QED
      BY <3>1, <3>2
  <2> QED
    BY <2>1, <2>2
<1>17. \A j \in 1 .. Len(m) : j \in 1 .. Len(up'[u].made) /\ (Logged(u, j)' <=> Logged(u, j))
  BY <1>2, <1>5, <1>6, <1>7, <1>8 DEF Logged
<1>18. StillUsed(u)' /\ StillThere(u)'
  <2>1. StillUsed(u)'
    BY <1>7, <1>8, <1>12, <1>14 DEF StillUsed, m
  <2>2. StillThere(u)'
    BY <1>7, <1>9, <1>12 DEF StillThere
  <2> QED
    BY <2>1, <2>2
<1>19. StillNew(u)'
  <2> SUFFICES ASSUME NEW g \in Filenames, up[u].replaces[g] = None, Of(g) # {}
               PROVE  \E j \in 1 .. Len(up'[u].made) :
                         up[u].batch[j].name = g /\ Logged(u, j)'
    BY <1>7, <1>14 DEF StillNew
  <2>1. PICK j \in 1 .. Len(m) : up[u].batch[j].name = g /\ Logged(u, j)
    BY <1>12 DEF StillNew, m
  <2> QED
    BY <1>17, <2>1
<1>20. FirstReplaces(u)'
  <2>1. \A g \in Filenames : MadeBy(u, g)' <=> MadeBy(u, g) \/ g = f
    BY <1>5, <1>6, <1>7, <1>8 DEF MadeBy, m
  <2>2. \A g \in Filenames : g \in up'[u].claimed <=> MadeBy(u, g)'
    BY <1>7, <1>12, <2>1 DEF FirstReplaces
  <2>3. \A j \in 1 .. Len(up'[u].made) : \A g \in Filenames :
            up'[u].made[j] = up'[u].replaces[g] => up'[u].batch[j].name = g
    BY <1>6, <1>7, <1>8, <1>11, <1>12 DEF FirstReplaces, m
  <2>4. ASSUME NEW g \in Filenames, MadeBy(u, g)', up'[u].replaces[g] # None
        PROVE  \E j \in 1 .. Len(up'[u].made) :
                  up'[u].batch[j].name = g /\ up'[u].made[j] = up'[u].replaces[g]
    <3>1. CASE MadeBy(u, g)
      <4>1. PICK j \in 1 .. Len(m) : up[u].batch[j].name = g /\ m[j] = up[u].replaces[g]
        BY <1>7, <1>12, <2>4, <3>1 DEF FirstReplaces, m
      <4> QED
        BY <1>7, <1>8, <1>17, <4>1
    <3>2. CASE ~MadeBy(u, g)
      BY <1>5, <1>6, <1>7, <1>8, <1>11, <2>1, <2>4, <3>2
    <3> QED
      BY <3>1, <3>2
  <2> QED
    BY <2>2, <2>3, <2>4 DEF FirstReplaces
<1>21. Loaded(u)'
  <2> SUFFICES ASSUME NEW j \in 1 .. Len(up'[u].made) PROVE LoadedAt(u, j)'
    BY DEF Loaded
  <2>1. CASE j = i
    BY <1>2, <1>7, <1>8, <1>9, <1>10, <2>1 DEF LoadedAt, Logged
  <2>2. CASE j \in 1 .. Len(m)
    <3>1. /\ m[j] \in DOMAIN tables /\ tables[m[j]] = <<u, j>> /\ <<u, j>> \notin temp
          /\ Logged(u, j) => \E k \in 1 .. Len(sources) :
                sources[k] = [name |-> m[j], file |-> up[u].batch[j].name]
          /\ m[j] \in DOMAIN quality /\ quality[m[j]] = <<u, j>>
      BY <1>5, <1>8, <1>12, <2>2 DEF Loaded, LoadedAt, m
    <3>2. PICK o : o = m[j]
      OBVIOUS
    <3>3. /\ up'[u].made[j] = o /\ up'[u].batch[j] = up[u].batch[j] /\ o # n
          /\ (Logged(u, j)' <=> Logged(u, j))
      BY <1>7, <1>8, <1>11, <1>17, <2>2, <3>2
    <3>4. o \in DOMAIN tables' /\ tables'[o] = <<u, j>> /\ <<u, j>> \notin temp'
      BY <1>9, <1>10, <3>1, <3>2, <3>3
    <3>5. Logged(u, j)' => \E k \in 1 .. Len(sources') :
             sources'[k] = [name |-> o, file |-> up'[u].batch[j].name]
      BY <1>9, <3>1, <3>2, <3>3
    <3>6. o \in DOMAIN quality' /\ quality'[o] = <<u, j>>
      BY <1>9, <3>1, <3>2
    <3> QED
      BY <3>3, <3>4, <3>5, <3>6 DEF LoadedAt
  <2> QED
    BY <1>8, <2>1, <2>2
<1>22. Planned(u)' /\ Made(u)' /\ Whole(u)'
  BY <1>2, <1>18, <1>19, <1>20, <1>21 DEF Planned, Made, Whole
<1>23. Spools(u) /\ temp' \subseteq Data
  <2>1. Spools(u)
    BY <1>2, <1>9, NoSpooling
  <2>2. temp' \subseteq Data
    BY DEF Steps, TypeOK
  <2> QED
    BY <2>1, <2>2
<1> QED
  BY <1>2, <1>7, <1>14, <1>15, <1>16, <1>22, <1>23, FrameData

LEMMA CreateData ==
    ASSUME Steps, Steps', Agree, NEW u \in Uploads, Create(u)
    PROVE  Agree'
<1>1. TypeOK
  BY DEF Steps
<1>2. CASE up'[u].pc = "describe"
  BY <1>2, CreateMakes
<1>3. CASE up'[u].pc = "done"
  <2>1. ~(up' = [up EXCEPT ![u].pc = "describe", ![u].used = @ \cup {NameFor(u)},
                           ![u].claimed = @ \cup {Current(u).name},
                           ![u].made = Append(@, NameFor(u))])
    BY <1>1, <1>3 DEF TypeOK, Upload
  <2>2. /\ tables' = tables /\ sources' = sources /\ quality' = quality /\ open' = open
        /\ temp' \subseteq temp /\ up[u].pc = "create"
    BY <2>1 DEF Create, Raise
  <2>3. /\ Moves(u) /\ up'[u].answer = "500" /\ up'[u].batch = up[u].batch
        /\ up'[u].made = up[u].made
    BY <1>3, CreateEffect
  <2> QED
    BY <1>3, <2>2, <2>3, RaiseData DEF Active
<1> QED
  BY <1>2, <1>3, CreateEffect

\* A table is registered once, and for the file it has been loaded from.
LEMMA RegisterExtends ==
    ASSUME Steps, Agree, NEW u \in Uploads, Register(u)
    PROVE  /\ Len(sources) \in Nat /\ Len(sources') \in Nat
           /\ Len(sources) <= Len(sources')
           /\ \A k \in 1 .. Len(sources) : sources'[k] = sources[k]
           /\ \E k \in 1 .. Len(sources') : sources'[k] = RegisterEntry(u)
           /\ \/ sources' = sources
              \/ /\ Target(u) \notin Registered
                 /\ Len(sources') = Len(sources) + 1
                 /\ sources'[Len(sources) + 1] = RegisterEntry(u)
<1>1. TypeOK /\ Progress(u) /\ Listed /\ Loaded(u) /\ up[u].pc = "register"
  BY DEF Steps, Agree, Made, Register, Inside
<1>2. PICK e : e = RegisterEntry(u)
  OBVIOUS
<1>3. PICK i \in Nat : i = up[u].i
  BY <1>1, UploadTyped
<1>4. /\ Target(u) = up[u].made[i] /\ i \in 1 .. Len(up[u].made)
      /\ e = [name |-> Target(u), file |-> up[u].batch[i].name]
      /\ e \in [name: Name, file: Filenames]
  BY <1>1, <1>2, <1>3, EntryTyped DEF RegisterEntry, Inside
<1>5. tables[Target(u)] = <<u, i>>
  BY <1>1, <1>4 DEF Loaded, LoadedAt
<1>6. sources \in Seq([name: Name, file: Filenames]) /\ Len(sources) \in Nat
  BY <1>1, SourcesTyped DEF TypeOK
<1>7. CASE Target(u) \in Registered
  <2>1. sources' = [j \in 1 .. Len(sources) |->
                      IF sources[j].name = Target(u) THEN e ELSE sources[j]]
    BY <1>2, <1>7 DEF Register, RegisterEntry
  <2>2. \A j \in 1 .. Len(sources) : sources[j].name = Target(u) => sources[j] = e
    <3> SUFFICES ASSUME NEW j \in 1 .. Len(sources), sources[j].name = Target(u)
                 PROVE  sources[j] = e
      OBVIOUS
    <3>1. FileOf(tables[Target(u)]) = sources[j].file
      BY <1>1 DEF Listed
    <3>2. sources[j].file = up[u].batch[i].name
      BY <1>5, <3>1 DEF FileOf
    <3>3. sources[j] \in [name: Name, file: Filenames]
      BY <1>1, SourcesTyped
    <3> QED
      BY <1>4, <3>2, <3>3
  <2>3. \A j \in 1 .. Len(sources) : sources'[j] = sources[j]
    BY <2>1, <2>2
  <2>4. sources = [j \in 1 .. Len(sources) |-> sources[j]]
    BY <1>6, LenProperties
  <2>5. sources' = sources
    BY <2>1, <2>2, <2>4
  <2>6. \E k \in 1 .. Len(sources) : sources[k] = e
    BY <1>7, <2>2 DEF Registered
  <2> QED
    BY <1>2, <1>6, <2>5, <2>6
<1>8. CASE Target(u) \notin Registered
  <2>1. sources' = Append(sources, e)
    BY <1>2, <1>8 DEF Register, RegisterEntry
  <2>2. /\ Len(sources') = Len(sources) + 1 /\ sources'[Len(sources) + 1] = e
        /\ \A k \in 1 .. Len(sources) : sources'[k] = sources[k]
    BY <1>4, <1>6, <2>1, AppendProperties
  <2>3. Len(sources) + 1 \in 1 .. Len(sources')
    BY <1>6, <2>2
  <2> QED
    BY <1>2, <1>6, <1>8, <2>2, <2>3
<1> QED
  BY <1>7, <1>8

LEMMA RegisterData ==
    ASSUME Steps, Steps', Agree, NEW u \in Uploads, Register(u)
    PROVE  Agree'
<1>1. TypeOK /\ Progress(u) /\ Progress(u)' /\ Exclusive /\ Listed /\ ListedExist
  BY DEF Steps, Agree, Listed
<1>2. /\ up[u].pc = "register" /\ up'[u].pc = "assess" /\ Moves(u)
      /\ up'[u].made = up[u].made /\ up'[u].batch = up[u].batch /\ up'[u].i = up[u].i
      /\ up'[u].used = up[u].used /\ up'[u].claimed = up[u].claimed
      /\ up'[u].replaces = up[u].replaces
  BY <1>1, RegisterEffect DEF Register
<1>3. loop = u /\ up'[u].answer = "none"
  BY <1>1, <1>2 DEF Progress, Exclusive, Active
<1>4. /\ tables' = tables /\ quality' = quality /\ open' = open /\ temp' = temp
  BY DEF Register
<1>5. PICK n : n = Target(u)
  OBVIOUS
<1>6. PICK i \in Nat : i = up[u].i
  BY <1>1, UploadTyped
<1>7. PICK f : f = up[u].batch[i].name
  OBVIOUS
<1>8. PICK c \in Nat : c = Len(sources)
  BY <1>1, SourcesTyped
<1>9. /\ n = up[u].made[i] /\ i \in 1 .. Len(up[u].made) /\ Len(up[u].made) = i
      /\ n \in DOMAIN tables
      /\ RegisterEntry(u) = [name |-> n, file |-> f]
  BY <1>1, <1>2, <1>5, <1>6, <1>7, EntryTyped DEF RegisterEntry, Inside
<1>10. /\ StillUsed(u) /\ StillThere(u) /\ StillNew(u) /\ FirstReplaces(u) /\ Loaded(u)
  BY <1>2 DEF Agree, Planned, Made, Loading, Inside
<1>11. tables[n] = <<u, i>>
  BY <1>9, <1>10 DEF Loaded, LoadedAt
<1>12. /\ Len(sources') \in Nat /\ c <= Len(sources')
       /\ \A k \in 1 .. c : k \in 1 .. Len(sources') /\ sources'[k] = sources[k]
       /\ \E k \in 1 .. Len(sources') : sources'[k] = [name |-> n, file |-> f]
       /\ \/ sources' = sources
          \/ /\ n \notin Registered
             /\ Len(sources') = c + 1
             /\ sources'[c + 1] = [name |-> n, file |-> f]
  <2>1. /\ Len(sources') \in Nat /\ c <= Len(sources')
        /\ \A k \in 1 .. c : sources'[k] = sources[k]
        /\ \/ sources' = sources
           \/ /\ n \notin Registered
              /\ Len(sources') = c + 1 /\ sources'[c + 1] = RegisterEntry(u)
    BY <1>5, <1>8, RegisterExtends
  <2>2. \E k \in 1 .. Len(sources') : sources'[k] = RegisterEntry(u)
    BY RegisterExtends
  <2>3. \A k \in 1 .. c : k \in 1 .. Len(sources')
    BY <2>1
  <2> QED
    BY <1>9, <2>1, <2>2, <2>3
<1>13. Registered \subseteq Registered' /\ Registered' \subseteq Registered \cup {n}
  <2>1. Registered \subseteq Registered'
    BY <1>8, <1>12 DEF Registered
  <2>2. CASE sources' = sources
    BY <2>1, <2>2 DEF Registered
  <2>3. CASE Len(sources') = c + 1 /\ sources'[c + 1] = [name |-> n, file |-> f]
    <3>1. \A k \in 1 .. Len(sources') : k \in 1 .. c \/ k = c + 1
      BY <2>3
    <3>2. \A k \in 1 .. Len(sources') : sources'[k].name \in Registered \cup {n}
      BY <1>8, <1>12, <2>3, <3>1 DEF Registered
    <3> QED
      BY <2>1, <3>2 DEF Registered
  <2> QED
    BY <1>12, <2>2, <2>3
<1>14. Keep
  BY <1>2, KeepStep
<1>15. Listed'
  <2>1. CASE sources' = sources
    BY <1>4, <1>14, <2>1, QuietListed
  <2>2. CASE /\ n \notin Registered
             /\ Len(sources') = c + 1
             /\ sources'[c + 1] = [name |-> n, file |-> f]
    <3>1. \A k \in 1 .. Len(sources') : k \in 1 .. c \/ k = c + 1
      BY <2>2
    <3>2. \A k \in 1 .. c : sources[k].name \in Registered /\ sources[k].name # n
      BY <1>8, <2>2 DEF Registered
    <3>3. \A k \in 1 .. c : sources'[k].name = sources[k].name
      BY <1>12
    <3>4. sources'[c + 1].name = n /\ sources'[c + 1].file = f
      BY <2>2
    <3>5. ListedExist'
      <4>1. Registered' \subseteq DOMAIN tables'
        BY <1>1, <1>4, <1>9, <1>13 DEF ListedExist
      <4>2. \A j, k \in 1 .. Len(sources') : sources'[j].name = sources'[k].name => j = k
        BY <1>1, <1>8, <3>1, <3>2, <3>3, <3>4 DEF ListedExist
      <4> QED
        BY <4>1, <4>2 DEF ListedExist
    <3>6. \A o \in DOMAIN tables : Begun(tables[o])'
      <4> TAKE o \in DOMAIN tables
      <4>1. PICK d \in Data : d = tables[o]
        BY <1>1 DEF TypeOK
      <4>2. Begun(d)
        BY <1>1, <4>1 DEF Listed
      <4>3. Begun(d)'
        BY <1>14, <4>2 DEF Keep
      <4> QED
        BY <1>4, <4>1, <4>3 DEF Begun
    <3>7. \A o \in DOMAIN quality : Begun(quality[o])' /\ FileOf(quality[o])' = FileOf(quality[o])
      <4> TAKE o \in DOMAIN quality
      <4>1. PICK d \in Data : d = quality[o]
        BY <1>1 DEF TypeOK
      <4>2. Begun(d)
        BY <1>1, <4>1 DEF Listed
      <4>3. Begun(d)' /\ FileOf(d)' = FileOf(d)
        BY <1>14, <4>2 DEF Keep
      <4> QED
        BY <1>4, <4>1, <4>3 DEF Begun, FileOf
    <3>8. \A k \in 1 .. Len(sources') :
             /\ FileOf(tables[sources[k].name])' = sources'[k].file
             /\ sources'[k].name \in DOMAIN quality =>
                   FileOf(quality[sources[k].name])' = sources'[k].file
      <4> TAKE k \in 1 .. Len(sources')
      <4>1. CASE k = c + 1
        <5>1. n \notin DOMAIN quality
          BY <1>1, <2>2 DEF Listed
        <5> QED
          BY <1>2, <1>4, <1>7, <1>11, <3>4, <4>1, <5>1 DEF FileOf
      <4>2. CASE k \in 1 .. c
        <5>1. PICK o : o = sources[k].name
          OBVIOUS
        <5>2. sources'[k].name = o /\ sources'[k].file = sources[k].file /\ o \in DOMAIN tables
          BY <1>1, <1>12, <3>2, <4>2, <5>1 DEF ListedExist
        <5>3. PICK d \in Data : d = tables[o]
          BY <1>1, <5>2 DEF TypeOK
        <5>4. Begun(d) /\ FileOf(d) = sources[k].file
          BY <1>1, <1>8, <4>2, <5>1, <5>2, <5>3 DEF Listed
        <5>5. FileOf(d)' = sources[k].file
          BY <1>14, <5>4 DEF Keep
        <5>6. o \in DOMAIN quality => FileOf(quality[o])' = sources[k].file
          BY <1>1, <1>8, <3>7, <4>2, <5>1 DEF Listed
        <5> QED
          BY <1>4, <5>2, <5>3, <5>5, <5>6 DEF FileOf
      <4> QED
        BY <3>1, <4>1, <4>2
    <3> QED
      BY <1>1, <1>4, <1>13, <3>5, <3>6, <3>7, <3>8 DEF Listed
  <2> QED
    BY <1>12, <2>1, <2>2
<1>16. Assessed'
  <2> SUFFICES ASSUME NEW o \in Registered' \ DOMAIN quality,
                      NEW v \in Uploads, v = tables[o][1]
               PROVE  \/ Failed(v)'
                      \/ /\ up'[v].pc \in {"describe", "register", "assess"}
                         /\ Target(v)' = o
    <3>1. \A o \in Registered : tables[o][1] \in Uploads
      BY <1>1, ListedByUpload
    <3>2. \A o \in Registered' : tables[o][1] \in Uploads
      BY <1>11, <1>13, <3>1
    <3> QED
      BY <1>4, <3>2 DEF Assessed, Failed, Target
  <2>1. Target(u)' = n
    BY <1>2, <1>5 DEF Target
  <2>2. CASE o = n
    <3>1. v = u
      BY <1>11, <2>2
    <3> QED
      BY <1>2, <2>1, <2>2, <3>1
  <2>3. CASE o # n
    <3>1. /\ Failed(v) \/ up[v].pc \in {"describe", "register", "assess"}
          /\ v = u => Target(u) = o
      BY <1>2, <1>13, <2>3 DEF Agree, Assessed, Failed
    <3>2. v # u
      BY <1>5, <2>3, <3>1
    <3> QED
      BY <1>2, <1>3, <3>1, <3>2, OthersIdle DEF Moves, Failed, Active
  <2> QED
    BY <2>2, <2>3
<1>17. OneTablePerFile'
  <2> SUFFICES ASSUME \A v \in Uploads : NamedOnce(up'[v].batch),
                      NEW j \in 1 .. Len(sources'), NEW k \in 1 .. Len(sources'),
                      sources'[j].file = sources'[k].file
               PROVE  j = k
    BY DEF OneTablePerFile
  <2>1. \A v \in Uploads : NamedOnce(up[v].batch)
    BY <1>2 DEF Moves
  <2>2. \A l, m \in 1 .. c : sources[l].file = sources[m].file => l = m
    BY <1>8, <2>1 DEF Agree, OneTablePerFile
  <2>3. CASE sources' = sources
    BY <1>8, <2>2, <2>3
  <2>4. CASE /\ n \notin Registered
             /\ Len(sources') = c + 1
             /\ sources'[c + 1] = [name |-> n, file |-> f]
    <3>1. \A l \in 1 .. Len(sources') : l \in 1 .. c \/ l = c + 1
      BY <2>4
    <3>2. \A l \in 1 .. c : sources[l].file # f
      <4> SUFFICES ASSUME NEW l \in 1 .. c, sources[l].file = f PROVE FALSE
        OBVIOUS
      <4>1. f \in Filenames /\ Of(f) # {}
        BY <1>1, <1>8, SourcesTyped DEF Of
      <4>2. i \in 1 .. Len(up[u].batch) /\ Len(up[u].batch) \in Nat
        BY <1>1, <1>2, <1>6, UploadTyped, EntryTyped DEF Inside
      <4>3. \A j1 \in 1 .. Len(up[u].made) : up[u].batch[j1].name = f => j1 = i
        BY <1>7, <1>9, <2>1, <4>2 DEF NamedOnce
      <4>4. CASE up[u].replaces[f] = None
        <5>1. PICK j1 \in 1 .. Len(up[u].made) :
                  up[u].batch[j1].name = f /\ Logged(u, j1)
          BY <1>10, <4>1, <4>4 DEF StillNew
        <5> QED
          BY <1>2, <1>6, <4>3, <5>1 DEF Logged
      <4>5. CASE up[u].replaces[f] # None
        <5>1. MadeBy(u, f)
          BY <1>7, <1>9 DEF MadeBy
        <5>2. n = up[u].replaces[f]
          BY <1>9, <1>10, <4>1, <4>3, <4>5, <5>1 DEF FirstReplaces
        <5>3. PICK k1 \in 1 .. Len(sources) : sources[k1] = [name |-> n, file |-> f]
          BY <1>10, <4>1, <4>5, <5>2 DEF StillThere
        <5>4. sources[k1].name = n
          BY <5>3
        <5> QED
          BY <2>4, <5>4 DEF Registered
      <4> QED
        BY <4>4, <4>5
    <3>3. sources'[c + 1].file = f /\ \A l \in 1 .. c : sources'[l].file = sources[l].file
      BY <1>12, <2>4
    <3> QED
      BY <2>2, <3>1, <3>2, <3>3
  <2> QED
    BY <1>12, <2>3, <2>4
<1>18. StillUsed(u)'
  <2>1. n \in up[u].used
    BY <1>9, <1>10 DEF StillUsed
  <2> QED
    BY <1>2, <1>10, <1>13, <2>1 DEF StillUsed
<1>19. StillThere(u)'
  <2> SUFFICES ASSUME NEW g \in Filenames, up[u].replaces[g] # None
               PROVE  \E k \in 1 .. Len(sources') :
                         sources'[k] = [name |-> up[u].replaces[g], file |-> g]
    BY <1>2 DEF StillThere
  <2>1. PICK k \in 1 .. Len(sources) : sources[k] = [name |-> up[u].replaces[g], file |-> g]
    BY <1>10 DEF StillThere
  <2> QED
    BY <1>8, <1>12, <2>1
<1>20. StillNew(u)'
  <2> SUFFICES ASSUME NEW g \in Filenames, up[u].replaces[g] = None, Of(g)' # {}
               PROVE  \E j \in 1 .. Len(up[u].made) : up[u].batch[j].name = g
    BY <1>2 DEF StillNew, Logged
  <2>1. PICK k \in 1 .. Len(sources') : sources'[k].file = g
    BY DEF Of
  <2>2. CASE g = f
    BY <1>7, <1>9, <2>2
  <2>3. CASE g # f
    <3>1. k \in 1 .. c /\ sources[k].file = g
      BY <1>8, <1>12, <2>1, <2>3
    <3>2. Of(g) # {}
      BY <1>8, <3>1 DEF Of
    <3> QED
      BY <1>10, <3>2 DEF StillNew
  <2> QED
    BY <2>2, <2>3
<1>21. FirstReplaces(u)'
  <2>1. \A g : MadeBy(u, g)' <=> MadeBy(u, g)
    BY <1>2 DEF MadeBy
  <2> QED
    BY <1>2, <1>10, <2>1 DEF FirstReplaces
<1>22. Loaded(u)'
  <2> SUFFICES ASSUME NEW j \in 1 .. Len(up'[u].made) PROVE LoadedAt(u, j)'
    BY DEF Loaded
  <2>1. j \in 1 .. Len(up[u].made) /\ LoadedAt(u, j)
    BY <1>2, <1>10 DEF Loaded
  <2>2. \E k \in 1 .. Len(sources') :
            sources'[k] = [name |-> up[u].made[j], file |-> up[u].batch[j].name]
    <3>1. CASE j = i
      BY <1>7, <1>9, <1>12, <3>1
    <3>2. CASE j # i
      <4>1. Logged(u, j)
        BY <1>6, <1>9, <2>1, <3>2 DEF Logged
      <4>2. PICK k \in 1 .. Len(sources) :
                sources[k] = [name |-> up[u].made[j], file |-> up[u].batch[j].name]
        BY <2>1, <4>1 DEF LoadedAt
      <4> QED
        BY <1>8, <1>12, <4>2
    <3> QED
      BY <3>1, <3>2
  <2>3. /\ up[u].made[j] \in DOMAIN tables /\ tables[up[u].made[j]] = <<u, j>>
        /\ <<u, j>> \notin temp
        /\ j < up[u].i => /\ up[u].made[j] \in DOMAIN quality
                          /\ quality[up[u].made[j]] = <<u, j>>
    BY <2>1 DEF LoadedAt
  <2> QED
    BY <1>2, <1>4, <2>2, <2>3 DEF LoadedAt
<1>23. Planned(u)' /\ Made(u)' /\ Whole(u)'
  BY <1>2, <1>3, <1>18, <1>19, <1>20, <1>21, <1>22 DEF Planned, Made, Whole
<1>24. Spools(u) /\ temp' \subseteq Data
  <2>1. Spools(u)
    BY <1>2, <1>3, <1>4, NoSpooling
  <2>2. temp' \subseteq Data
    BY DEF Steps, TypeOK
  <2> QED
    BY <2>1, <2>2
<1> QED
  BY <1>2, <1>3, <1>13, <1>15, <1>16, <1>17, <1>23, <1>24, FrameData

LEMMA AssessMakes ==
    ASSUME Steps, Steps', Agree, NEW u \in Uploads, Assess(u), up'[u].pc = "create"
    PROVE  Agree'
<1>1. TypeOK /\ Progress(u) /\ Progress(u)' /\ Exclusive /\ Listed /\ ListedExist
  BY DEF Steps, Agree, Listed
<1>2. /\ up[u].pc = "assess" /\ Moves(u)
      /\ up'[u].made = up[u].made /\ up'[u].batch = up[u].batch
      /\ up'[u].used = up[u].used /\ up'[u].claimed = up[u].claimed
      /\ up'[u].replaces = up[u].replaces
  BY <1>1, AssessEffect DEF Assess
<1>3. loop = u /\ up'[u].answer = "none" /\ up'[u].i = up[u].i + 1
  BY <1>1, <1>2, AssessEffect DEF Progress, Exclusive, Active
<1>4. /\ quality' = Put(quality, Target(u), tables[Target(u)])
      /\ tables' = tables /\ sources' = sources /\ temp' = temp /\ open' = open
  <2>1. up' # [up EXCEPT ![u].pc = "done", ![u].answer = "500"]
    BY <1>1 DEF TypeOK, Upload
  <2> QED
    BY <2>1 DEF Assess, Raise
<1>5. PICK n : n = Target(u)
  OBVIOUS
<1>6. PICK i \in Nat : i = up[u].i
  BY <1>1, UploadTyped
<1>7. n = up[u].made[i] /\ i \in 1 .. Len(up[u].made) /\ Len(up[u].made) = i
  BY <1>1, <1>2, <1>5, <1>6, EntryTyped DEF Inside
<1>8. /\ StillUsed(u) /\ StillThere(u) /\ StillNew(u) /\ FirstReplaces(u) /\ Loaded(u)
  BY <1>2 DEF Agree, Planned, Made, Loading, Inside
<1>9. /\ n \in DOMAIN tables /\ tables[n] = <<u, i>>
      /\ \E k \in 1 .. Len(sources) : sources[k] = [name |-> n, file |-> up[u].batch[i].name]
  BY <1>2, <1>7, <1>8 DEF Loaded, LoadedAt, Logged
<1>10. n \in Registered
  <2>1. PICK k \in 1 .. Len(sources) : sources[k] = [name |-> n, file |-> up[u].batch[i].name]
    BY <1>9
  <2>2. sources[k].name = n
    BY <2>1
  <2> QED
    BY <2>2 DEF Registered
<1>11. /\ DOMAIN quality' = DOMAIN quality \cup {n} /\ quality'[n] = <<u, i>>
       /\ \A o \in DOMAIN quality : o # n => quality'[o] = quality[o]
  BY <1>4, <1>5, <1>9 DEF Put
<1>12. Keep
  BY <1>2, KeepStep
<1>13. Registered' = Registered /\ \A g \in Filenames : Of(g)' = Of(g)
  BY <1>4 DEF Registered, Of
<1>14. Listed'
  <2>1. ListedExist' /\ DOMAIN quality' \subseteq Registered'
    BY <1>1, <1>4, <1>10, <1>11, <1>13 DEF ListedExist, Listed
  <2>2. \A o \in DOMAIN tables : /\ Begun(tables[o])'
                                 /\ FileOf(tables[o])' = FileOf(tables[o])
    <3> TAKE o \in DOMAIN tables
    <3>1. PICK d \in Data : d = tables[o]
      BY <1>1 DEF TypeOK
    <3>2. Begun(d)
      BY <1>1, <3>1 DEF Listed
    <3>3. Begun(d)' /\ FileOf(d)' = FileOf(d)
      BY <1>12, <3>2 DEF Keep
    <3> QED
      BY <1>4, <3>1, <3>3 DEF Begun, FileOf
  <2>3. \A o \in DOMAIN quality : o # n =>
            /\ Begun(quality[o])'
            /\ FileOf(quality[o])' = FileOf(quality[o])
    <3> SUFFICES ASSUME NEW o \in DOMAIN quality, o # n
                 PROVE  Begun(quality[o])' /\ FileOf(quality[o])' = FileOf(quality[o])
      OBVIOUS
    <3>1. PICK d \in Data : d = quality[o]
      BY <1>1 DEF TypeOK
    <3>2. Begun(d)
      BY <1>1, <3>1 DEF Listed
    <3>3. Begun(d)' /\ FileOf(d)' = FileOf(d)
      BY <1>12, <3>2 DEF Keep
    <3> QED
      BY <1>11, <3>1, <3>3 DEF Begun, FileOf
  <2>4. Begun(quality[n])' /\ FileOf(quality[n])' = FileOf(tables[n])'
    <3>1. tables'[n] = quality'[n]
      BY <1>4, <1>9, <1>11
    <3> QED
      BY <1>9, <2>2, <3>1 DEF Begun, FileOf
  <2>5. \A o \in DOMAIN quality' : Begun(quality[o])'
    BY <1>11, <2>3, <2>4
  <2>6. \A k \in 1 .. Len(sources) :
           /\ FileOf(tables[sources[k].name])' = sources[k].file
           /\ sources[k].name \in DOMAIN quality' =>
                 FileOf(quality[sources[k].name])' = sources[k].file
    <3> TAKE k \in 1 .. Len(sources)
    <3>1. PICK o : o = sources[k].name
      OBVIOUS
    <3>2. o \in DOMAIN tables
      BY <1>1, <3>1 DEF ListedExist, Registered
    <3>3. FileOf(tables[o])' = sources[k].file
      BY <1>1, <2>2, <3>1, <3>2 DEF Listed
    <3>4. o \in DOMAIN quality' => FileOf(quality[o])' = sources[k].file
      BY <1>1, <1>11, <2>3, <2>4, <3>1, <3>3 DEF Listed
    <3> QED
      BY <1>4, <3>1, <3>3, <3>4 DEF FileOf
  <2> QED
    BY <1>4, <2>1, <2>2, <2>5, <2>6 DEF Listed
<1>15. Assessed'
  <2> SUFFICES ASSUME NEW o \in Registered \ DOMAIN quality',
                      NEW v \in Uploads, v = tables[o][1]
               PROVE  Failed(v)'
    <3>1. \A o \in Registered : tables[o][1] \in Uploads
      BY <1>1, ListedByUpload
    <3> QED
      BY <1>4, <1>13, <3>1 DEF Assessed, Failed
  <2>1. o \in Registered \ DOMAIN quality /\ o # n
    BY <1>11
  <2>2. Failed(v) \/ (up[v].pc \in {"describe", "register", "assess"} /\ Target(v) = o)
    BY <2>1 DEF Agree, Assessed
  <2>3. v # u
    BY <1>2, <1>5, <2>1, <2>2 DEF Failed
  <2> QED
    BY <1>2, <1>3, <2>2, <2>3, OthersIdle DEF Moves, Failed, Active
<1>16. OneTablePerFile'
  BY <1>2, <1>4, QuietOne
<1>17. \A j \in 1 .. Len(up[u].made) : Logged(u, j)' /\ Logged(u, j) /\ j < up'[u].i
  BY <1>2, <1>3, <1>6, <1>7 DEF Logged
<1>18. StillUsed(u)' /\ StillThere(u)' /\ StillNew(u)'
  BY <1>2, <1>4, <1>8, <1>13, <1>17 DEF StillUsed, StillThere, StillNew
<1>19. FirstReplaces(u)'
  <2>1. \A g : MadeBy(u, g)' <=> MadeBy(u, g)
    BY <1>2 DEF MadeBy
  <2> QED
    BY <1>2, <1>8, <2>1 DEF FirstReplaces
<1>20. Loaded(u)'
  <2> SUFFICES ASSUME NEW j \in 1 .. Len(up'[u].made) PROVE LoadedAt(u, j)'
    BY DEF Loaded
  <2>1. j \in 1 .. Len(up[u].made) /\ LoadedAt(u, j)
    BY <1>2, <1>8 DEF Loaded
  <2>2. PICK o : o = up[u].made[j]
    OBVIOUS
  <2>3. /\ o \in DOMAIN tables /\ tables[o] = <<u, j>> /\ <<u, j>> \notin temp
        /\ \E k \in 1 .. Len(sources) : sources[k] = [name |-> o, file |-> up[u].batch[j].name]
    BY <1>17, <2>1, <2>2 DEF LoadedAt
  <2>4. o \in DOMAIN quality' /\ quality'[o] = <<u, j>>
    <3>1. CASE j = i
      BY <1>7, <1>11, <2>2, <3>1
    <3>2. CASE j # i
      <4>1. j < up[u].i
        BY <1>6, <1>7, <2>1, <3>2
      <4>2. o \in DOMAIN quality /\ quality[o] = <<u, j>>
        BY <2>1, <2>2, <4>1 DEF LoadedAt
      <4>3. o # n
        BY <1>9, <2>3, <3>2
      <4> QED
        BY <1>11, <4>2, <4>3
    <3> QED
      BY <3>1, <3>2
  <2> QED
    BY <1>2, <1>4, <2>2, <2>3, <2>4 DEF LoadedAt
<1>21. Planned(u)' /\ Made(u)' /\ Whole(u)'
  BY <1>3, <1>18, <1>19, <1>20 DEF Planned, Made, Whole
<1>22. Spools(u) /\ temp' \subseteq Data
  <2>1. Spools(u)
    BY <1>3, <1>4, NoSpooling
  <2>2. temp' \subseteq Data
    BY DEF Steps, TypeOK
  <2> QED
    BY <2>1, <2>2
<1> QED
  BY <1>2, <1>3, <1>13, <1>14, <1>15, <1>16, <1>21, <1>22, FrameData

LEMMA AssessData ==
    ASSUME Steps, Steps', Agree, NEW u \in Uploads, Assess(u)
    PROVE  Agree'
<1>1. TypeOK
  BY DEF Steps
<1>2. CASE up'[u].pc = "create"
  BY <1>2, AssessMakes
<1>3. CASE up'[u].pc = "done"
  <2>1. up' # [up EXCEPT ![u].pc = "create", ![u].i = @ + 1]
    BY <1>1, <1>3 DEF TypeOK, Upload
  <2>2. /\ tables' = tables /\ sources' = sources /\ quality' = quality /\ open' = open
        /\ temp' = temp /\ up[u].pc = "assess"
    BY <2>1 DEF Assess, Raise
  <2>3. /\ Moves(u) /\ up'[u].answer = "500" /\ up'[u].batch = up[u].batch
        /\ up'[u].made = up[u].made
    BY <1>1, <1>3, AssessEffect
  <2> QED
    BY <1>3, <2>2, <2>3, RaiseData DEF Active
<1> QED
  BY <1>1, <1>2, <1>3, AssessEffect

-----------------------------------------------------------------------------
(* Every step of an upload.                                                *)

\* A step of upload u, of any kind.
Moving(u) ==
    \/ \E batch \in Batches : Receive(u, batch)
    \/ Resume(u) \/ Parse(u) \/ CleaningRaises(u) \/ Reject(u)
    \/ Plan(u) \/ TakeLock(u)
    \/ Create(u) \/ Describe(u) \/ Register(u) \/ Assess(u)
    \/ Unlock(u) \/ Respond(u)

LEMMA MovingData ==
    ASSUME Steps, Agree, NEW u \in Uploads, Moving(u)
    PROVE  Steps' /\ Agree'
<1>1. CASE \E batch \in Batches : Receive(u, batch)
  BY <1>1, ReceiveSteps, ReceiveData
<1>2. CASE Resume(u) \/ Parse(u) \/ CleaningRaises(u) \/ Reject(u)
  BY <1>2, ResumeSteps, ResumeData, ParseSteps, ParseData,
     CleaningRaisesSteps, CleaningRaisesData, RejectSteps, RejectData
<1>3. CASE Plan(u) \/ TakeLock(u) \/ Create(u) \/ Describe(u)
  BY <1>3, PlanSteps, PlanData, TakeLockSteps, TakeLockData,
     CreateSteps, CreateData, DescribeSteps, DescribeData
<1>4. CASE Register(u) \/ Assess(u) \/ Unlock(u) \/ Respond(u)
  BY <1>4, RegisterSteps, RegisterData, AssessSteps, AssessData,
     UnlockSteps, UnlockData, RespondSteps, RespondData
<1> QED
  BY <1>1, <1>2, <1>3, <1>4 DEF Moving

\* Steps that move no upload and change no table.
LEMMA IdleData ==
    ASSUME Steps, Agree, rd' \in [Readers -> Reader], up' = up, tables' = tables,
           sources' = sources, quality' = quality, temp' = temp,
           lock' = lock, loop' = loop, open' \in {open, FALSE}
    PROVE  Steps' /\ Agree'
<1>1. Steps'
  <2>1. TypeOK'
    BY DEF Steps, TypeOK
  <2>2. Exclusive' /\ \A u \in Uploads : Progress(u)'
    BY DEF Steps, Exclusive, Progress, InOrder, Target
  <2> QED
    BY <2>1, <2>2 DEF Steps
<1>2. Registered' = Registered /\ \A f \in Filenames : Of(f)' = Of(f)
  BY DEF Registered, Of
<1>3. Listed'
  <2>1. \A d \in Data : (Begun(d)' <=> Begun(d)) /\ FileOf(d)' = FileOf(d)
    BY DEF Begun, FileOf
  <2> QED
    BY <2>1, QuietListed DEF Keep
<1>4. Spooled' /\ Assessed' /\ OneTablePerFile'
  <2>1. \A d : SpooledAt(d)' <=> SpooledAt(d)
    BY DEF SpooledAt
  <2>2. \A u : Target(u)' = Target(u)
    BY DEF Target
  <2>3. Spooled'
    BY <2>1 DEF Agree, Spooled
  <2>4. Assessed'
    BY <1>2, <2>2 DEF Agree, Assessed, Failed
  <2>5. OneTablePerFile'
    BY DEF Agree, OneTablePerFile, NamedOnce
  <2> QED
    BY <2>3, <2>4, <2>5
<1>5. \A u \in Uploads : Planned(u)' /\ Made(u)' /\ Whole(u)'
  <2> TAKE u \in Uploads
  <2>1. Planned(u) /\ Made(u) /\ Whole(u)
    BY DEF Agree
  <2>2. \A j : Logged(u, j)' <=> Logged(u, j)
    BY DEF Logged
  <2>3. \A f : MadeBy(u, f)' <=> MadeBy(u, f)
    BY DEF MadeBy
  <2>4. Loaded(u) => Loaded(u)'
    BY <2>2 DEF Loaded, LoadedAt
  <2>5. /\ StillUsed(u) => StillUsed(u)'
        /\ StillThere(u) => StillThere(u)'
        /\ StillNew(u) => StillNew(u)'
        /\ FirstReplaces(u) => FirstReplaces(u)'
    BY <1>2, <2>2, <2>3 DEF StillUsed, StillThere, StillNew, FirstReplaces
  <2> QED
    BY <1>2, <2>1, <2>4, <2>5 DEF Planned, Made, Whole
<1> QED
  BY <1>1, <1>3, <1>4, <1>5 DEF Agree

LEMMA InitData == Init => Agree
<1> SUFFICES ASSUME Init PROVE Agree
  OBVIOUS
<1>1. /\ DOMAIN tables = {} /\ DOMAIN quality = {} /\ sources = <<>> /\ temp = {}
      /\ Len(sources) = 0 /\ Registered = {}
      /\ \A u \in Uploads : up[u].pc = "new" /\ up[u].answer = "none"
  BY DEF Init, Registered
<1>2. Listed /\ Spooled /\ Assessed /\ OneTablePerFile
  BY <1>1 DEF Listed, ListedExist, Spooled, Assessed, OneTablePerFile
<1>3. \A u \in Uploads : Planned(u) /\ Made(u) /\ Whole(u)
  BY <1>1 DEF Planned, Made, Whole, Loading, Inside
<1> QED
  BY <1>2, <1>3 DEF Agree

-----------------------------------------------------------------------------
(* What a reader has been told stays so.                                   *)

\* The session keeps what it has listed, and an upload that is past its loading
\* what it has made.
Settled(v) ==
    up[v].pc \in {"respond", "done"} =>
        /\ up'[v].pc \in {"respond", "done"} /\ up'[v].made = up[v].made
        /\ \/ up[v].pc = "respond" \/ up[v].answer = "200"
           \/ ~(up'[v].pc = "respond" \/ up'[v].answer = "200")
        /\ Failed(v) => Failed(v)'
Grows ==
    /\ Keep
    /\ \A e : (\E k \in 1 .. Len(sources) : sources[k] = e) =>
                 \E k \in 1 .. Len(sources') : sources'[k] = e
    /\ DOMAIN quality \subseteq DOMAIN quality'
    /\ \A v \in Uploads : Settled(v)

LEMMA GrowsQuiet ==
    ASSUME Steps, NEW u \in Uploads, Moves(u), sources' = sources,
           DOMAIN quality \subseteq DOMAIN quality',
           up[u].pc \notin {"respond", "done"},
           up'[u].batch = up[u].batch \/ up[u].made = <<>>,
           up'[u].made = up[u].made \/ up'[u].made # <<>>
    PROVE  Grows
<1>1. Keep
  BY KeepStep
<1>2. \A v \in Uploads : Settled(v)
  BY DEF Settled, Failed, Moves
<1> QED
  BY <1>1, <1>2 DEF Grows

LEMMA MovingGrows ==
    ASSUME Steps, Agree, NEW u \in Uploads, Moving(u)
    PROVE  Grows /\ rd' = rd
<1>1. TypeOK /\ Progress(u)
  BY DEF Steps
<1>2. ASSUME NEW batch \in Batches, Receive(u, batch) PROVE Grows /\ rd' = rd
  <2>1. up[u].pc = "new" /\ up[u].made = <<>> /\ up'[u].made = up[u].made /\ Moves(u)
    BY <1>1, <1>2, ReceiveEffect DEF Receive, Progress, Inside
  <2>2. sources' = sources /\ quality' = quality /\ rd' = rd
    BY <1>2 DEF Receive, session
  <2> QED
    BY <2>1, <2>2, GrowsQuiet
<1>3. CASE Resume(u)
  BY <1>1, <1>3, ResumeEffect, GrowsQuiet DEF Resume, session
<1>4. CASE Parse(u)
  BY <1>1, <1>4, ParseEffect, GrowsQuiet DEF Parse, session
<1>5. CASE CleaningRaises(u)
  BY <1>1, <1>5, CleaningRaisesEffect, GrowsQuiet DEF CleaningRaises, session
<1>6. CASE Reject(u)
  BY <1>1, <1>6, RejectEffect, GrowsQuiet DEF Reject, session
<1>7. CASE Plan(u)
  <2>1. /\ Moves(u) /\ up'[u].batch = up[u].batch /\ up'[u].made = up[u].made
        /\ up[u].pc = "parse"
    BY <1>1, <1>7, PlanEffect DEF Plan
  <2>2. sources' = sources /\ quality' = quality /\ rd' = rd
    BY <1>7 DEF Plan, session
  <2> QED
    BY <2>1, <2>2, GrowsQuiet
<1>8. CASE TakeLock(u)
  BY <1>1, <1>8, TakeLockEffect, GrowsQuiet DEF TakeLock, session
<1>9. CASE Create(u)
  <2>1. /\ Moves(u) /\ up'[u].batch = up[u].batch /\ up[u].pc = "create"
        /\ \/ up'[u].made = up[u].made
           \/ up'[u].made = Append(up[u].made, NameFor(u)) /\ NameFor(u) \in Name
    BY <1>9, CreateEffect, CreateFacts DEF Create
  <2>2. up'[u].made = up[u].made \/ up'[u].made # <<>>
    BY <1>1, <2>1, UploadTyped, AppendProperties
  <2>3. sources' = sources /\ quality' = quality /\ rd' = rd
    BY <1>9 DEF Create
  <2> QED
    BY <2>1, <2>2, <2>3, GrowsQuiet
<1>10. CASE Describe(u)
  <2>1. /\ Moves(u) /\ up'[u].batch = up[u].batch /\ up'[u].made = up[u].made
        /\ up[u].pc = "describe"
    BY <1>1, <1>10, DescribeEffect DEF Describe
  <2>2. sources' = sources /\ quality' = quality /\ rd' = rd
    BY <1>10 DEF Describe, session
  <2> QED
    BY <2>1, <2>2, GrowsQuiet
<1>11. CASE Register(u)
  <2>1. /\ Moves(u) /\ up'[u].batch = up[u].batch /\ up'[u].made = up[u].made
        /\ up[u].pc = "register"
    BY <1>1, <1>11, RegisterEffect DEF Register
  <2>2. quality' = quality /\ rd' = rd
    BY <1>11 DEF Register
  <2>3. \A k \in 1 .. Len(sources) : k \in 1 .. Len(sources') /\ sources'[k] = sources[k]
    BY <1>11, RegisterExtends
  <2>4. Keep /\ \A v \in Uploads : Settled(v)
    BY <2>1, KeepStep DEF Settled, Failed, Moves
  <2> QED
    BY <2>2, <2>3, <2>4 DEF Grows
<1>12. CASE Assess(u)
  <2>1. /\ Moves(u) /\ up'[u].batch = up[u].batch /\ up'[u].made = up[u].made
        /\ up[u].pc = "assess"
    BY <1>1, <1>12, AssessEffect DEF Assess
  <2>2. sources' = sources /\ rd' = rd /\ DOMAIN quality \subseteq DOMAIN quality'
    BY <1>12 DEF Assess, Put
  <2> QED
    BY <2>1, <2>2, GrowsQuiet
<1>13. CASE Unlock(u)
  BY <1>1, <1>13, UnlockEffect, GrowsQuiet DEF Unlock, session
<1>14. CASE Respond(u)
  <2>1. /\ Moves(u) /\ up'[u].batch = up[u].batch /\ up'[u].made = up[u].made
        /\ up[u].pc = "respond" /\ up'[u].pc = "done"
    BY <1>1, <1>14, RespondEffect DEF Respond
  <2>2. sources' = sources /\ quality' = quality /\ rd' = rd
    BY <1>14 DEF Respond, session
  <2>3. Keep /\ \A v \in Uploads : Settled(v)
    BY <2>1, KeepStep DEF Settled, Failed, Moves
  <2> QED
    BY <2>2, <2>3 DEF Grows
<1> QED
  BY <1>2, <1>3, <1>4, <1>5, <1>6, <1>7, <1>8, <1>9, <1>10, <1>11, <1>12, <1>13, <1>14
     DEF Moving

\* What a reader holds.
LEMMA ReaderTyped ==
    ASSUME TypeOK, NEW r \in Readers
    PROVE  /\ rd[r] \in Reader
           /\ \A t \in rd[r].listed : t[1] \in Name /\ t[2] \in Data /\ t[2][1] \in Uploads
           /\ \A s \in rd[r].shown : s[1] \in Data /\ s[2] \in Data \cup {None}
<1>1. rd[r] \in Reader
  BY DEF TypeOK
<1> QED
  BY <1>1 DEF Reader, Data

LEMMA ListedKept ==
    ASSUME Grows, NEW L \in SUBSET (Name \X Data), HasListed(L)
    PROVE  HasListed(L)'
<1>1. \A t \in L : t[2] \in Data /\ t[2][1] \in Uploads
  BY DEF Data
<1>2. \A t \in L : Begun(t[2])' /\ FileOf(t[2])' = FileOf(t[2])
  BY <1>1 DEF HasListed, Grows, Keep
<1>3. \A t \in L : /\ up'[t[2][1]].pc \in {"respond", "done"}
                   /\ up'[t[2][1]].made = up[t[2][1]].made
                   /\ \/ up[t[2][1]].pc = "respond" \/ up[t[2][1]].answer = "200"
                      \/ ~(up'[t[2][1]].pc = "respond" \/ up'[t[2][1]].answer = "200")
  BY <1>1 DEF HasListed, Grows, Settled
<1>4. \A t \in L : /\ t[1] \in DOMAIN quality' \/ Failed(t[2][1])'
                   /\ \E k \in 1 .. Len(sources') :
                         sources'[k] = [name |-> t[1], file |-> FileOf(t[2])']
  <2>1. \A t \in L : Failed(t[2][1]) => Failed(t[2][1])'
    BY <1>1 DEF HasListed, Grows, Settled
  <2>2. \A t \in L : t[1] \in DOMAIN quality' \/ Failed(t[2][1])'
    BY <2>1 DEF HasListed, Grows
  <2>3. \A t \in L : \E k \in 1 .. Len(sources') :
            sources'[k] = [name |-> t[1], file |-> FileOf(t[2])']
    BY <1>2 DEF HasListed, Grows
  <2> QED
    BY <2>2, <2>3
<1>5. \A t \in L : LET u == t[2][1] IN
          up'[u].pc = "respond" \/ up'[u].answer = "200" =>
              \A j \in 1 .. Len(up'[u].made) : \E s \in L : s[1] = up'[u].made[j]
  BY <1>3 DEF HasListed
<1> QED
  BY <1>2, <1>3, <1>4, <1>5 DEF HasListed

LEMMA ShownKept ==
    ASSUME Grows, NEW S \in SUBSET (Data \X (Data \cup {None})), HasShown(S)
    PROVE  HasShown(S)'
<1>1. \A s \in S : s[1] \in Data /\ s[1][1] \in Uploads /\ s[2] \in Data \cup {None}
  BY DEF Data
<1>2. \A s \in S : Begun(s[1])' /\ FileOf(s[1])' = FileOf(s[1])
  BY <1>1 DEF HasShown, Grows, Keep
<1>3. \A s \in S : s[2] = None => Failed(s[1][1])'
  BY <1>1 DEF HasShown, Grows, Settled, Failed
<1>4. \A s \in S : s[2] # None => Begun(s[2])' /\ FileOf(s[1])' = FileOf(s[2])'
  BY <1>1, <1>2 DEF HasShown, Grows, Keep
<1> QED
  BY <1>2, <1>3, <1>4 DEF HasShown

LEMMA ReadingsKept ==
    ASSUME Steps, Readings, Grows, rd' = rd
    PROVE  Readings'
<1> SUFFICES ASSUME NEW r \in Readers PROVE Reading(r)'
  BY DEF Readings
<1>1. /\ rd[r].listed \in SUBSET (Name \X Data)
      /\ rd[r].shown \in SUBSET (Data \X (Data \cup {None}))
  BY DEF Steps, TypeOK, Reader
<1>2. PICK L, S : L = rd[r].listed /\ S = rd[r].shown
  OBVIOUS
<1>3. HasListed(L) /\ HasShown(S)
  BY <1>2 DEF Readings, Reading
<1>4. HasListed(L)' /\ HasShown(S)'
  BY <1>1, <1>2, <1>3, ListedKept, ShownKept
<1> QED
  BY <1>2, <1>4 DEF Reading

\* Only reader r moves.
LEMMA ReaderStep ==
    ASSUME TypeOK, Readings, NEW r \in Readers,
           NEW L \in SUBSET (Name \X Data),
           NEW S \in SUBSET (Data \X (Data \cup {None})),
           rd' \in [Readers -> Reader],
           \A q \in Readers \ {r} : rd'[q] = rd[q],
           rd'[r].listed = L, rd'[r].shown = S,
           HasListed(L), HasShown(S),
           up' = up, tables' = tables, sources' = sources, quality' = quality
    PROVE  Readings'
<1>1. \A M : HasListed(M)' <=> HasListed(M)
  <2>1. \A d : (Begun(d)' <=> Begun(d)) /\ FileOf(d)' = FileOf(d)
    BY DEF Begun, FileOf
  <2> QED
    BY <2>1 DEF HasListed, Failed
<1>2. \A M : HasShown(M)' <=> HasShown(M)
  <2>1. \A d : (Begun(d)' <=> Begun(d)) /\ FileOf(d)' = FileOf(d)
    BY DEF Begun, FileOf
  <2> QED
    BY <2>1 DEF HasShown, Failed
<1>3. ASSUME NEW q \in Readers PROVE HasListed(rd[q].listed)' /\ HasShown(rd[q].shown)'
  <2>1. PICK M, T : M = rd'[q].listed /\ T = rd'[q].shown
    OBVIOUS
  <2>2. HasListed(M) /\ HasShown(T)
    BY <2>1 DEF Readings, Reading
  <2> QED
    BY <1>1, <1>2, <2>1, <2>2
<1> QED
  BY <1>3 DEF Readings, Reading

LEMMA ListTablesReadings ==
    ASSUME Steps, Agree, Readings, NEW r \in Readers, ListTables(r)
    PROVE  rd' \in [Readers -> Reader] /\ Readings'
<1>1. TypeOK /\ Exclusive /\ Listed /\ ListedExist
  BY DEF Steps, Agree, Listed
<1>2. /\ lock = None /\ up' = up /\ tables' = tables /\ sources' = sources
      /\ quality' = quality
  BY DEF ListTables, session
<1>3. rd[r] \in Reader /\ HasListed(rd[r].listed) /\ HasShown(rd[r].shown)
  BY <1>1, ReaderTyped DEF Readings, Reading
<1> DEFINE L == {<<n, tables[n]>> : n \in Registered}
           R0 == [rd[r] EXCEPT !.pc = "listed", !.listed = L]
           R1 == [rd[r] EXCEPT !.pc = "done"]
<1>4. L \in SUBSET (Name \X Data)
  <2>1. \A n \in Registered : n \in Name /\ tables[n] \in Data
    BY <1>1, SourcesTyped DEF ListedExist, TypeOK
  <2> QED
    BY <2>1
<1>5. \A t \in L : t[1] \in Registered /\ t[2] = tables[t[1]] /\ t[2] \in Data
  BY <1>4
<1>6. \A n \in Registered : \E t \in L : t[1] = n
  <2> TAKE n \in Registered
  <2>1. <<n, tables[n]>> \in L
    OBVIOUS
  <2> QED
    BY <2>1
<1> HIDE DEF L
<1>7. CASE open \/ sources = <<>>
  <2>1. R0 \in Reader /\ rd' = [rd EXCEPT ![r] = R0]
    BY <1>1, <1>3, <1>4, <1>7 DEF ListTables, L, Reader, TypeOK
  <2>2. R0.listed = L /\ R0.shown = rd[r].shown
    BY <1>3 DEF Reader
  <2> HIDE DEF R0
  <2>3. /\ rd' \in [Readers -> Reader] /\ rd'[r] = R0
        /\ \A q \in Readers \ {r} : rd'[q] = rd[q]
    BY <1>1, <2>1 DEF TypeOK
  <2>5. \A t \in L : t[1] \in DOMAIN quality \/ Failed(t[2][1])
    <3> SUFFICES ASSUME NEW t \in L, t[1] \notin DOMAIN quality PROVE Failed(t[2][1])
      OBVIOUS
    <3>1. /\ t[2] = tables[t[1]] /\ t[2][1] \in Uploads
          /\ \/ Failed(t[2][1])
             \/ up[t[2][1]].pc \in {"describe", "register", "assess"}
      BY <1>1, <1>5, ListedByUpload DEF Agree, Assessed
    <3> QED
      BY <1>1, <1>2, <3>1 DEF Exclusive, Inside
  <2>6. \A t \in L : Begun(t[2])
    BY <1>1, <1>5 DEF Listed, ListedExist
  <2>7. \A t \in L : up[t[2][1]].pc \in {"respond", "done"}
    <3> TAKE t \in L
    <3>1. PICK v \in Uploads : v = t[2][1]
      BY <1>5 DEF Data
    <3>2. up[v].made # <<>>
      BY <2>6, <3>1 DEF Begun
    <3>3. up[v].pc \in Inside \cup {"respond", "done"}
      BY <3>2 DEF Steps, Progress
    <3>4. up[v].pc \notin Inside
      BY <1>1, <1>2 DEF Exclusive
    <3> QED
      BY <3>1, <3>3, <3>4
  <2>8. \A t \in L : \E k \in 1 .. Len(sources) :
            sources[k] = [name |-> t[1], file |-> FileOf(t[2])]
    <3> TAKE t \in L
    <3>1. PICK k \in 1 .. Len(sources) : sources[k].name = t[1]
      BY <1>5 DEF Registered
    <3>2. FileOf(t[2]) = sources[k].file
      BY <1>1, <1>5, <3>1 DEF Listed
    <3>3. sources[k] \in [name: Name, file: Filenames]
      BY <1>1, SourcesTyped
    <3>4. sources[k] = [name |-> t[1], file |-> FileOf(t[2])]
      BY <3>1, <3>2, <3>3
    <3> QED
      BY <3>4
  <2>9. \A t \in L : LET u == t[2][1] IN
            up[u].pc = "respond" \/ up[u].answer = "200" =>
                \A j \in 1 .. Len(up[u].made) : \E s \in L : s[1] = up[u].made[j]
    <3> TAKE t \in L
    <3>1. PICK v \in Uploads : v = t[2][1]
      BY <1>5 DEF Data
    <3>2. up[v].pc = "respond" \/ up[v].answer = "200" =>
              \A j \in 1 .. Len(up[v].made) : up[v].made[j] \in Registered
      BY DEF Agree, Whole
    <3> QED
      BY <1>6, <3>1, <3>2
  <2>10. HasListed(L)
    BY <2>5, <2>6, <2>7, <2>8, <2>9 DEF HasListed
  <2>11. rd[r].shown \in SUBSET (Data \X (Data \cup {None}))
    BY <1>3 DEF Reader
  <2>12. rd'[r].listed = L /\ rd'[r].shown = rd[r].shown
    BY <2>2, <2>3
  <2> QED
    BY <1>1, <1>2, <1>3, <1>4, <2>3, <2>10, <2>11, <2>12, ReaderStep
<1>8. CASE ~(open \/ sources = <<>>)
  <2>1. R1 \in Reader /\ rd' = [rd EXCEPT ![r] = R1]
    BY <1>1, <1>3, <1>8 DEF ListTables, Reader, TypeOK
  <2>2. R1.listed = rd[r].listed /\ R1.shown = rd[r].shown
    BY <1>3 DEF Reader
  <2> HIDE DEF R1
  <2>3. /\ rd' \in [Readers -> Reader] /\ rd'[r] = R1
        /\ \A q \in Readers \ {r} : rd'[q] = rd[q]
    BY <1>1, <2>1 DEF TypeOK
  <2>4. /\ rd[r].shown \in SUBSET (Data \X (Data \cup {None}))
        /\ rd[r].listed \in SUBSET (Name \X Data)
    BY <1>3 DEF Reader
  <2>5. rd'[r].listed = rd[r].listed /\ rd'[r].shown = rd[r].shown
    BY <2>2, <2>3
  <2> QED
    BY <1>1, <1>2, <1>3, <2>3, <2>4, <2>5, ReaderStep
<1> QED
  BY <1>7, <1>8

LEMMA AddReportsReadings ==
    ASSUME Steps, Agree, Readings, NEW r \in Readers, AddReports(r)
    PROVE  rd' \in [Readers -> Reader] /\ Readings'
<1>1. TypeOK /\ Listed
  BY DEF Steps, Agree
<1>2. up' = up /\ tables' = tables /\ sources' = sources /\ quality' = quality
  BY DEF AddReports, session
<1>3. rd[r] \in Reader /\ HasListed(rd[r].listed)
  BY <1>1, ReaderTyped DEF Readings, Reading
<1> DEFINE S == {<<t[2], IF t[1] \in DOMAIN quality THEN quality[t[1]] ELSE None>> :
                    t \in rd[r].listed}
           R0 == [rd[r] EXCEPT !.pc = "done", !.shown = S]
<1>4. \A t \in rd[r].listed :
          /\ Begun(t[2]) /\ t[2] \in Data
          /\ t[1] \notin DOMAIN quality => Failed(t[2][1])
          /\ t[1] \in DOMAIN quality =>
                /\ quality[t[1]] \in Data /\ Begun(quality[t[1]])
                /\ FileOf(t[2]) = FileOf(quality[t[1]])
  <2> TAKE t \in rd[r].listed
  <2>1. /\ t[1] \in DOMAIN quality \/ Failed(t[2][1])
        /\ Begun(t[2]) /\ t[2] \in Data
        /\ \E k \in 1 .. Len(sources) : sources[k] = [name |-> t[1], file |-> FileOf(t[2])]
    BY <1>1, <1>3, ReaderTyped DEF HasListed
  <2>2. PICK k \in 1 .. Len(sources) : sources[k] = [name |-> t[1], file |-> FileOf(t[2])]
    BY <2>1
  <2>3. sources[k].name = t[1] /\ sources[k].file = FileOf(t[2])
    BY <2>2
  <2>4. t[1] \in DOMAIN quality => FileOf(quality[t[1]]) = FileOf(t[2])
    BY <1>1, <2>3 DEF Listed
  <2> QED
    BY <1>1, <2>1, <2>4 DEF Listed, TypeOK
<1>5. \A s \in S : \E t \in rd[r].listed :
          s = <<t[2], IF t[1] \in DOMAIN quality THEN quality[t[1]] ELSE None>>
  OBVIOUS
<1>6. S \in SUBSET (Data \X (Data \cup {None}))
  BY <1>4
<1>7. rd' = [rd EXCEPT ![r] = R0]
  BY <1>1, <1>3 DEF AddReports, Reader, TypeOK
<1> HIDE DEF S
<1>8. HasShown(S)
  <2> SUFFICES ASSUME NEW s \in S
               PROVE  /\ Begun(s[1])
                      /\ IF s[2] = None THEN Failed(s[1][1])
                         ELSE Begun(s[2]) /\ FileOf(s[1]) = FileOf(s[2])
    BY DEF HasShown
  <2>1. PICK t \in rd[r].listed :
            s = <<t[2], IF t[1] \in DOMAIN quality THEN quality[t[1]] ELSE None>>
    BY <1>5
  <2>2. CASE t[1] \in DOMAIN quality
    <3>1. s[1] = t[2] /\ s[2] = quality[t[1]]
      BY <2>1, <2>2
    <3>2. s[2] # None
      BY <1>4, <2>2, <3>1, NoDataAssumption
    <3> QED
      BY <1>4, <2>2, <3>1, <3>2
  <2>3. CASE t[1] \notin DOMAIN quality
    BY <1>4, <2>1, <2>3
  <2> QED
    BY <2>2, <2>3
<1>9. R0 \in Reader
  BY <1>3, <1>6 DEF Reader
<1>10. R0.listed = rd[r].listed /\ R0.shown = S
  BY <1>3 DEF Reader
<1> HIDE DEF R0
<1>11. /\ rd' \in [Readers -> Reader] /\ rd'[r] = R0
       /\ \A q \in Readers \ {r} : rd'[q] = rd[q]
  BY <1>1, <1>7, <1>9 DEF TypeOK
<1>12. rd[r].listed \in SUBSET (Name \X Data)
  BY <1>3 DEF Reader
<1>13. rd'[r].listed = rd[r].listed /\ rd'[r].shown = S
  BY <1>10, <1>11
<1> QED
  BY <1>1, <1>2, <1>3, <1>6, <1>8, <1>11, <1>12, <1>13, ReaderStep

-----------------------------------------------------------------------------
(* The invariant.                                                          *)

IInv == Steps /\ Agree /\ Readings

LEMMA InitIInv == Init => IInv
<1> SUFFICES ASSUME Init PROVE IInv
  OBVIOUS
<1>1. \A r \in Readers : rd[r].listed = {} /\ rd[r].shown = {}
  BY DEF Init
<1>2. Readings
  BY <1>1 DEF Readings, Reading, HasListed, HasShown
<1> QED
  BY <1>2, InitSteps, InitData DEF IInv

LEMMA NextIInv == IInv /\ [Next]_vars => IInv'
<1> SUFFICES ASSUME IInv, [Next]_vars PROVE IInv'
  OBVIOUS
<1>1. Steps /\ Agree /\ Readings
  BY DEF IInv
<1>2. ASSUME NEW u \in Uploads, Moving(u) PROVE IInv'
  BY <1>1, <1>2, MovingData, MovingGrows, ReadingsKept DEF IInv
<1>3. ASSUME NEW r \in Readers, ListTables(r) PROVE IInv'
  <2>1. rd' \in [Readers -> Reader] /\ Readings'
    BY <1>1, <1>3, ListTablesReadings
  <2> QED
    BY <1>1, <1>3, <2>1, IdleData DEF IInv, ListTables, session
<1>4. ASSUME NEW r \in Readers, AddReports(r) PROVE IInv'
  <2>1. rd' \in [Readers -> Reader] /\ Readings'
    BY <1>1, <1>4, AddReportsReadings
  <2> QED
    BY <1>1, <1>4, <2>1, IdleData DEF IInv, AddReports, session
<1>5. CASE CloseConn \/ UNCHANGED vars
  <2>1. /\ up' = up /\ tables' = tables /\ sources' = sources /\ quality' = quality
        /\ temp' = temp /\ lock' = lock /\ loop' = loop /\ rd' = rd
        /\ open' \in {open, FALSE}
    BY <1>5 DEF CloseConn, vars
  <2>2. rd' \in [Readers -> Reader]
    BY <1>1, <2>1 DEF Steps, TypeOK
  <2>3. Readings'
    <3>1. Grows
      BY <2>1 DEF Grows, Keep, Begun, FileOf, Settled, Failed
    <3> QED
      BY <1>1, <2>1, <3>1, ReadingsKept
  <2> QED
    BY <1>1, <2>1, <2>2, <2>3, IdleData DEF IInv
<1>6. CASE Stopped
  BY <1>5, <1>6 DEF Stopped
<1> QED
  BY <1>2, <1>3, <1>4, <1>5, <1>6 DEF Next, Moving

LEMMA Invariance == Spec => []IInv
BY InitIInv, NextIInv, PTL DEF Spec

-----------------------------------------------------------------------------
(* The theorems.                                                           *)

\* The uploads, the readers and the session keep their types through every step of
\* upload_csvs, ingest_upload_batch and get_tables.
THEOREM UploadsTyped == Spec => []TypeOK
<1>1. IInv => TypeOK
  BY DEF IInv, Steps
<1> QED
  BY <1>1, Invariance, PTL

\* Every table of table_sources is in DuckDB, whichever steps of ingest_upload_batch
\* failed.
THEOREM ListedTablesExist == Spec => []ListedExist
<1>1. IInv => ListedExist
  BY DEF IInv, Agree, Listed
<1> QED
  BY <1>1, Invariance, PTL

\* An upload that answers 200 has loaded, registered and assessed every file of its
\* batch, in a table of its own.
THEOREM FilesAreLoaded == Spec => []EveryFileLoaded
<1>1. IInv => EveryFileLoaded
  <2> SUFFICES ASSUME IInv, NEW u \in Uploads, up[u].pc = "respond"
               PROVE  /\ Len(up[u].made) = Len(up[u].batch)
                      /\ \A j \in 1 .. Len(up[u].batch) :
                            /\ tables[up[u].made[j]] = <<u, j>>
                            /\ quality[up[u].made[j]] = <<u, j>>
                            /\ \E k \in 1 .. Len(sources) : sources[k] =
                                  [name |-> up[u].made[j], file |-> up[u].batch[j].name]
                            /\ <<u, j>> \notin temp
    BY DEF EveryFileLoaded
  <2>1. /\ TypeOK /\ Progress(u) /\ Loaded(u)
    BY DEF IInv, Steps, Agree, Made
  <2>2. /\ Len(up[u].made) = Len(up[u].batch) /\ up[u].i = Len(up[u].batch) + 1
        /\ Len(up[u].batch) \in Nat
    BY <2>1, UploadTyped DEF Progress
  <2>3. \A j \in 1 .. Len(up[u].batch) : LoadedAt(u, j) /\ j < up[u].i /\ Logged(u, j)
    BY <2>1, <2>2 DEF Loaded, Logged
  <2> QED
    BY <2>2, <2>3 DEF LoadedAt
<1> QED
  BY <1>1, Invariance, PTL

\* A batch that is answered 400 leaves no table, no report and no temporary file.
THEOREM NothingIsLeft == Spec => []RejectedLeavesNothing
<1>1. IInv => RejectedLeavesNothing
  <2> SUFFICES ASSUME IInv, NEW u \in Uploads, up[u].answer = "400",
                      NEW j \in 1 .. Len(up[u].batch)
               PROVE  /\ <<u, j>> \notin temp
                      /\ \A n \in DOMAIN tables : tables[n] # <<u, j>>
                      /\ \A n \in DOMAIN quality : quality[n] # <<u, j>>
    BY DEF RejectedLeavesNothing
  <2>1. up[u].made = <<>>
    BY DEF IInv, Steps, Progress
  <2>2. ~Begun(<<u, j>>)
    BY <2>1 DEF Begun
  <2>3. /\ \A n \in DOMAIN tables : Begun(tables[n])
        /\ \A n \in DOMAIN quality : Begun(quality[n])
    BY DEF IInv, Agree, Listed
  <2>4. <<u, j>> \notin temp
    BY DEF IInv, Agree, Spooled, SpooledAt
  <2>5. \A n \in DOMAIN tables : tables[n] # <<u, j>>
    BY <2>2, <2>3
  <2>6. \A n \in DOMAIN quality : quality[n] # <<u, j>>
    BY <2>2, <2>3
  <2> QED
    BY <2>4, <2>5, <2>6
<1> QED
  BY <1>1, Invariance, PTL

\* CREATE OR REPLACE of an upload never hits a table of another file.
THEOREM OnlyOwnTables == Spec => OwnTablesOnly
<1> DEFINE Step == \A j \in 1 .. Len(sources) : \A u \in Uploads :
                       up[u].pc = "create" /\ tables'[sources[j].name] # tables[sources[j].name] =>
                           Current(u).name = sources[j].file
<1>1. IInv /\ [Next]_vars => Step
  <2> SUFFICES ASSUME IInv, [Next]_vars, NEW j \in 1 .. Len(sources), NEW u \in Uploads,
                      up[u].pc = "create", tables'[sources[j].name] # tables[sources[j].name]
               PROVE  Current(u).name = sources[j].file
    OBVIOUS
  <2>1. PICK v \in Uploads : Create(v)
    BY DEF Next, vars, session, Receive, Resume, Parse, CleaningRaises, Reject, Plan, TakeLock,
           Describe, Register, Assess, Unlock, Respond, ListTables, AddReports, CloseConn,
           Stopped
  <2>2. v = u
    BY <2>1 DEF Create, IInv, Steps, Exclusive, Inside
  <2>3. sources[j].name \in DOMAIN tables
    BY DEF IInv, Agree, Listed, ListedExist, Registered
  <2>4. sources[j].name = NameFor(u)
    BY <2>1, <2>2, <2>3 DEF Create, Put
  <2> QED
    BY <2>1, <2>2, <2>4, NameIsOwn DEF IInv, Create
<1>2. IInv /\ [Next]_vars => [Step]_vars
  BY <1>1
<1> QED
  BY <1>2, Invariance, PTL DEF Spec, OwnTablesOnly

\* Re-uploads replace: while no batch names a file twice, a file backs one table.
THEOREM FileBacksOneTable == Spec => []OneTablePerFile
<1>1. IInv => OneTablePerFile
  BY DEF IInv, Agree
<1> QED
  BY <1>1, Invariance, PTL

\* list_tables returns all the tables of an upload that succeeds, or none.
THEOREM ListingsAreWhole == Spec => []ListingWhole
<1>1. IInv => ListingWhole
  <2> SUFFICES ASSUME IInv, NEW r \in Readers, NEW u \in Uploads, up[u].answer = "200",
                      NEW t \in rd[r].listed, t[2][1] = u,
                      NEW j \in 1 .. Len(up[u].made)
               PROVE  \E s \in rd[r].listed : s[1] = up[u].made[j]
    BY DEF ListingWhole
  <2>1. HasListed(rd[r].listed)
    BY DEF IInv, Readings, Reading
  <2> QED
    BY <2>1 DEF HasListed
<1> QED
  BY <1>1, Invariance, PTL

\* get_tables shows no table with the report of another file, and none without a report
\* but those of an upload that failed, although it looks the reports up after the lock
\* has been left.
THEOREM ReportsAreOfTheirFile == Spec => []ReportsOfSameFile
<1>1. IInv => ReportsOfSameFile
  BY DEF IInv, Readings, Reading, HasShown, ReportsOfSameFile, Failed
<1> QED
  BY <1>1, Invariance, PTL

-----------------------------------------------------------------------------
(* Temporary files.                                                        *)

\* A file on disk has not been loaded yet, and is not the one that failed; one that
\* is in a table has.
Behind(d) ==
    LET v == up[d[1]] IN
    /\ Len(v.made) < d[2] /\ d[2] <= Len(v.batch)
    /\ v.pc = "parse" => d[2] < v.i
    /\ v.answer = "500" => d[2] # v.i
InTable(n) == tables[n][2] <= Len(up[tables[n][1]].made)
Waiting ==
    /\ \A d \in temp : Behind(d)
    /\ \A n \in DOMAIN tables : InTable(n)

\* Only the files of the upload that moves can have changed.
LEMMA FrameWaiting ==
    ASSUME Steps, Waiting, NEW u \in Uploads, Moves(u),
           \A d \in temp' : IF d[1] = u THEN Behind(d)' ELSE d \in temp,
           \A n \in DOMAIN tables' : IF tables'[n][1] = u THEN InTable(n)'
                                     ELSE n \in DOMAIN tables /\ tables'[n] = tables[n],
           Steps'
    PROVE  Waiting'
<1>1. /\ \A v \in Uploads \ {u} : up'[v] = up[v]
      /\ temp \subseteq Data /\ temp' \subseteq Data
      /\ \A n \in DOMAIN tables : tables[n] \in Data
  BY DEF Moves, Steps, TypeOK
<1>2. ASSUME NEW d \in temp' PROVE Behind(d)'
  <2>1. CASE d[1] # u
    BY <1>1, <2>1 DEF Data, Waiting, Behind
  <2> QED
    BY <2>1
<1>3. ASSUME NEW n \in DOMAIN tables' PROVE InTable(n)'
  <2>1. CASE tables'[n][1] # u
    BY <1>1, <2>1 DEF Data, Waiting, InTable
  <2> QED
    BY <2>1
<1> QED
  BY <1>2, <1>3 DEF Waiting

\* Most steps spool nothing, load nothing and do not fail.
LEMMA QuietWaiting ==
    ASSUME Steps, Steps', Waiting, NEW u \in Uploads, Moves(u), tables' = tables,
           temp' \subseteq temp, up'[u].made = up[u].made, up'[u].batch = up[u].batch,
           \A d \in temp' : d[1] = u =>
               /\ up'[u].pc = "parse" => d[2] < up'[u].i
               /\ up'[u].answer = "500" => d[2] # up'[u].i
    PROVE  Waiting'
<1>1. \A d \in temp' : d[1] = u => Behind(d)'
  BY DEF Waiting, Behind
<1>2. \A n \in DOMAIN tables : tables[n][1] = u => InTable(n)'
  BY DEF Waiting, InTable
<1> QED
  BY <1>1, <1>2, FrameWaiting

\* Before and while a batch is parsed.
LEMMA EarlyWaiting ==
    ASSUME Steps, Agree, Waiting, Steps', NEW u \in Uploads,
           \/ \E batch \in Batches : Receive(u, batch)
           \/ Resume(u) \/ CleaningRaises(u) \/ Reject(u)
    PROVE  Waiting'
<1>1. TypeOK /\ Progress(u) /\ Spooled
  BY DEF Steps, Agree
<1>2. ASSUME NEW batch \in Batches, Receive(u, batch) PROVE Waiting'
  <2>1. Moves(u) /\ up'[u].made = up[u].made /\ up[u].pc = "new"
    BY <1>1, <1>2, ReceiveEffect DEF Receive
  <2>2. temp' = temp /\ tables' = tables
    BY <1>2 DEF Receive, session
  <2>3. \A d \in temp : d[1] # u
    BY <1>1, <2>1 DEF Spooled, SpooledAt
  <2>4. \A n \in DOMAIN tables : tables[n][1] = u => InTable(n)'
    BY <2>1, <2>2 DEF Waiting, InTable
  <2> QED
    BY <2>1, <2>2, <2>3, <2>4, FrameWaiting
<1>3. CASE Resume(u)
  <2>1. /\ Moves(u) /\ up[u].pc = "reading"
        /\ up'[u].made = up[u].made /\ up'[u].batch = up[u].batch
    BY <1>1, <1>3, ResumeEffect DEF Resume
  <2>2. temp' = temp /\ tables' = tables
    BY <1>3 DEF Resume, session
  <2>3. \A d \in temp : d[1] # u
    BY <1>1, <2>1 DEF Spooled, SpooledAt
  <2> QED
    BY <2>1, <2>2, <2>3, QuietWaiting
<1>4. CASE CleaningRaises(u)
  <2>1. /\ Moves(u) /\ up[u].pc = "parse" /\ up'[u].pc = "done" /\ up'[u].i = up[u].i
        /\ up'[u].made = up[u].made /\ up'[u].batch = up[u].batch
    BY <1>1, <1>4, CleaningRaisesEffect DEF CleaningRaises
  <2>2. temp' = temp /\ tables' = tables
    BY <1>4 DEF CleaningRaises, session
  <2>3. up[u].i \in Nat /\ temp \subseteq Data
    BY <1>1, UploadTyped DEF TypeOK
  <2>4. \A d \in temp : d[1] = u => d[2] # up[u].i
    <3> SUFFICES ASSUME NEW d \in temp, d[1] = u PROVE d[2] # up[u].i
      OBVIOUS
    <3>1. d[2] < up[u].i /\ d[2] \in Nat
      BY <2>1, <2>3 DEF Waiting, Behind, Data
    <3> QED
      BY <2>3, <3>1
  <2> QED
    BY <2>1, <2>2, <2>4, QuietWaiting
<1>5. CASE Reject(u)
  <2>1. /\ Moves(u) /\ up'[u].pc = "done" /\ up'[u].answer = "400"
        /\ up'[u].made = up[u].made /\ up'[u].batch = up[u].batch
    BY <1>1, <1>5, RejectEffect DEF Reject
  <2>2. temp' \subseteq temp /\ tables' = tables
    BY <1>5 DEF Reject, session
  <2> QED
    BY <2>1, <2>2, QuietWaiting
<1> QED
  BY <1>2, <1>3, <1>4, <1>5

\* A file is spooled at its own place.
LEMMA ParseWaiting ==
    ASSUME Steps, Agree, Waiting, Steps', NEW u \in Uploads, Parse(u)
    PROVE  Waiting'
<1>1. TypeOK /\ Progress(u)
  BY DEF Steps
<1>2. /\ Moves(u) /\ up[u].pc = "parse" /\ up'[u].pc = "parse" /\ up'[u].i = up[u].i + 1
      /\ up'[u].made = up[u].made /\ up'[u].batch = up[u].batch
      /\ up'[u].answer = up[u].answer
  BY <1>1, ParseEffect DEF Parse
<1>3. /\ up[u].i \in 1 .. Len(up[u].batch) /\ up[u].made = <<>> /\ up[u].answer = "none"
      /\ Len(up[u].batch) \in Nat /\ temp \subseteq Data
  <2>1. up[u].i \in 1 .. Len(up[u].batch) + 1 /\ up[u].i <= Len(up[u].batch)
    BY <1>1, <1>2 DEF Progress, Parse
  <2>2. Len(up[u].batch) \in Nat
    BY <1>1, UploadTyped
  <2>3. up[u].made = <<>> /\ up[u].answer = "none" /\ temp \subseteq Data
    BY <1>1, <1>2 DEF Progress, Inside, TypeOK
  <2> QED
    BY <2>1, <2>2, <2>3
<1>4. tables' = tables /\ temp' \subseteq temp \cup {<<u, up[u].i>>}
  BY DEF Parse, session
<1>5. ASSUME NEW d \in temp', d[1] = u PROVE Behind(d)'
  <2>1. CASE d = <<u, up[u].i>>
    BY <1>2, <1>3, <2>1 DEF Behind
  <2>2. CASE d \in temp
    <3>1. /\ Len(up[u].made) < d[2] /\ d[2] <= Len(up[u].batch) /\ d[2] < up[u].i
          /\ d[2] \in Nat
      BY <1>2, <1>3, <1>5, <2>2 DEF Waiting, Behind, Data
    <3> QED
      BY <1>2, <1>3, <1>5, <3>1 DEF Behind
  <2> QED
    BY <1>4, <2>1, <2>2
<1>6. \A d \in temp' : d[1] # u => d \in temp
  BY <1>4
<1>7. \A n \in DOMAIN tables : tables[n][1] = u => InTable(n)'
  BY <1>2, <1>4 DEF Waiting, InTable
<1> QED
  BY <1>2, <1>4, <1>5, <1>6, <1>7, FrameWaiting

\* The file at hand leaves the disk, whether it is loaded or not.
LEMMA CreateWaiting ==
    ASSUME Steps, Agree, Waiting, Steps', NEW u \in Uploads, Create(u)
    PROVE  Waiting'
<1>1. TypeOK /\ Progress(u) /\ up[u].pc = "create" /\ up[u].i <= Len(up[u].parsed)
  BY DEF Steps, Create
<1>2. /\ up[u].i \in 1 .. Len(up[u].batch) /\ Place(u) = up[u].i /\ NameFor(u) \in Name
      /\ Len(up[u].batch) \in Nat /\ Len(up[u].made) = up[u].i - 1
      /\ up[u].made \in Seq(Name) /\ temp \subseteq Data
  BY <1>1, CreateFacts, UploadTyped DEF Progress, TypeOK
<1>3. Moves(u) /\ up'[u].batch = up[u].batch /\ up'[u].i = up[u].i
  BY CreateEffect
<1>4. temp' = temp \ {<<u, up[u].i>>}
  BY <1>2 DEF Create
<1>5. \/ /\ up'[u].made = up[u].made /\ tables' = tables
         /\ up'[u].pc = "done" /\ up'[u].answer = "500"
      \/ /\ up'[u].made = Append(up[u].made, NameFor(u))
         /\ up'[u].pc = "describe" /\ up'[u].answer = "none"
         /\ tables' = Put(tables, NameFor(u), <<u, up[u].i>>)
  <2>1. up[u].answer = "none"
    BY <1>1 DEF Progress
  <2>2. CASE open /\ up' = [up EXCEPT ![u].pc = "describe",
                    ![u].used = @ \cup {NameFor(u)},
                    ![u].claimed = @ \cup {Current(u).name},
                    ![u].made = Append(@, NameFor(u))]
               /\ tables' = Put(tables, NameFor(u), <<u, Place(u)>>)
    <3>1. up'[u].pc = "describe"
      BY <1>1, <2>2 DEF TypeOK, Upload
    <3>2. up'[u].made = Append(up[u].made, NameFor(u)) /\ up'[u].answer = up[u].answer
      BY <3>1, CreateEffect
    <3> QED
      BY <1>2, <2>1, <2>2, <3>1, <3>2
  <2>3. CASE Raise(u) /\ tables' = tables
    <3>1. up'[u].pc = "done"
      BY <1>1, <2>3 DEF Raise, TypeOK, Upload
    <3>2. up'[u].made = up[u].made /\ up'[u].answer = "500"
      BY <3>1, CreateEffect
    <3> QED
      BY <2>3, <3>1, <3>2
  <2> QED
    BY <2>2, <2>3 DEF Create
<1>6. /\ Len(up'[u].made) \in {up[u].i - 1, up[u].i}
      /\ up'[u].pc # "parse" /\ Len(up[u].made) <= Len(up'[u].made)
  BY <1>2, <1>5, AppendProperties
<1>7. ASSUME NEW d \in temp', d[1] = u PROVE Behind(d)'
  <2>1. /\ d \in temp /\ d[2] # up[u].i /\ d[2] \in Nat
        /\ Len(up[u].made) < d[2] /\ d[2] <= Len(up[u].batch)
    BY <1>2, <1>4, <1>7 DEF Data, Waiting, Behind
  <2>2. up[u].i < d[2]
    BY <1>2, <2>1
  <2> QED
    BY <1>2, <1>3, <1>6, <1>7, <2>1, <2>2 DEF Behind
<1>8. ASSUME NEW n \in DOMAIN tables'
      PROVE  IF tables'[n][1] = u THEN InTable(n)'
             ELSE n \in DOMAIN tables /\ tables'[n] = tables[n]
  <2>1. CASE n \in DOMAIN tables /\ tables'[n] = tables[n]
    <3>1. tables[n] \in Data
      BY <1>1, <2>1 DEF TypeOK
    <3>2. tables[n][1] = u => tables[n][2] <= Len(up[u].made)
      BY <2>1 DEF Waiting, InTable
    <3>3. tables[n][1] = u => tables[n][2] <= Len(up'[u].made)
      BY <1>2, <1>6, <3>1, <3>2 DEF Data
    <3> QED
      BY <2>1, <3>3 DEF InTable
  <2>2. CASE ~(n \in DOMAIN tables /\ tables'[n] = tables[n])
    <3>1. /\ tables'[n] = <<u, up[u].i>>
          /\ up'[u].made = Append(up[u].made, NameFor(u))
      BY <1>5, <2>2 DEF Put
    <3>2. Len(up'[u].made) = up[u].i
      BY <1>2, <3>1, AppendProperties
    <3> QED
      BY <1>2, <3>1, <3>2 DEF InTable
  <2> QED
    BY <2>1, <2>2
<1>9. \A d \in temp' : d[1] # u => d \in temp
  BY <1>4
<1> QED
  BY <1>3, <1>7, <1>8, <1>9, FrameWaiting

\* A file that fails after it was loaded is not on disk any more.
LEMMA LaterWaiting ==
    ASSUME Steps, Agree, Waiting, Steps', NEW u \in Uploads,
           \/ Plan(u) \/ TakeLock(u) \/ Describe(u) \/ Register(u) \/ Assess(u)
           \/ Unlock(u) \/ Respond(u)
    PROVE  Waiting'
<1>1. TypeOK /\ Progress(u) /\ Progress(u)'
  BY DEF Steps
<1>2. temp' = temp /\ tables' = tables
  BY DEF Plan, TakeLock, Describe, Register, Assess, Unlock, Respond, session
<1>3. CASE Plan(u) \/ TakeLock(u) \/ Register(u) \/ Unlock(u) \/ Respond(u)
  <2>1. /\ Moves(u) /\ up'[u].made = up[u].made /\ up'[u].batch = up[u].batch
        /\ up'[u].pc # "parse"
    BY <1>1, <1>3, PlanEffect, TakeLockEffect, RegisterEffect, UnlockEffect, RespondEffect
       DEF Steps
  <2>2. up'[u].answer # "500"
    BY <1>1, <1>3, PlanEffect, TakeLockEffect, RegisterEffect, UnlockEffect, RespondEffect
       DEF Progress, Steps
  <2> QED
    BY <1>2, <2>1, <2>2, QuietWaiting
<1>4. CASE Describe(u) \/ Assess(u)
  <2>1. /\ Moves(u) /\ up'[u].made = up[u].made /\ up'[u].batch = up[u].batch
        /\ \/ up'[u].answer = "500" /\ up'[u].pc = "done" /\ up'[u].i = up[u].i
           \/ up'[u].answer = up[u].answer /\ up'[u].pc \in {"create", "register"}
    BY <1>1, <1>4, DescribeEffect, AssessEffect
  <2>2. up[u].pc \in {"describe", "assess"}
    BY <1>4 DEF Describe, Assess
  <2>3. Len(up[u].made) = up[u].i /\ up[u].answer = "none" /\ up[u].i \in Nat
    BY <1>1, <2>2, UploadTyped DEF Progress, Inside
  <2>4. ASSUME NEW d \in temp, d[1] = u PROVE d[2] # up[u].i
    <3>1. d[2] \in Nat /\ Len(up[u].made) < d[2]
      BY <1>1, <2>4 DEF TypeOK, Data, Waiting, Behind
    <3> QED
      BY <2>3, <3>1
  <2> QED
    BY <1>2, <2>1, <2>3, <2>4, QuietWaiting
<1> QED
  BY <1>3, <1>4

LEMMA WaitingInvariance == Spec => []Waiting
<1>1. Init => Waiting
  BY DEF Init, Waiting
<1>2. IInv /\ IInv' /\ Waiting /\ [Next]_vars => Waiting'
  <2> SUFFICES ASSUME IInv, IInv', Waiting, [Next]_vars PROVE Waiting'
    OBVIOUS
  <2>1. Steps /\ Agree /\ Steps'
    BY DEF IInv
  <2>2. ASSUME NEW u \in Uploads, Moving(u) PROVE Waiting'
    BY <2>1, <2>2, EarlyWaiting, ParseWaiting, CreateWaiting, LaterWaiting DEF Moving
  <2>3. CASE (\E r \in Readers : ListTables(r) \/ AddReports(r)) \/ CloseConn
             \/ Stopped \/ UNCHANGED vars
    <3>1. up' = up /\ temp' = temp /\ tables' = tables
      BY <2>3 DEF ListTables, AddReports, CloseConn, Stopped, vars, session
    <3> QED
      BY <3>1 DEF Waiting, Behind, InTable
  <2> QED
    BY <2>2, <2>3 DEF Next, Moving
<1> QED
  BY <1>1, <1>2, Invariance, PTL DEF Spec

\* No temporary file is left of an upload that ends well or in a 400 (the unlinks
\* of ingest_upload_batch), of a file that is loaded, or of the file that fails
\* (the `finally` of _ingest_native).
THEOREM SpoolsAreUnlinked == Spec => []SpoolsUnlinked
<1>1. IInv /\ Waiting => SpoolsUnlinked
  <2> SUFFICES ASSUME IInv, Waiting, NEW d \in temp
               PROVE  /\ up[d[1]].answer \in {"none", "500"}
                      /\ up[d[1]].answer = "500" => d[2] # up[d[1]].i
                      /\ \A n \in DOMAIN tables : tables[n] # d
    BY DEF SpoolsUnlinked
  <2> DEFINE u == d[1]
  <2>1. TypeOK /\ SpooledAt(d) /\ Behind(d)
    BY DEF IInv, Steps, Agree, Spooled, Waiting
  <2>2. u \in Uploads /\ d[2] \in Nat
    BY <2>1 DEF TypeOK, Data
  <2>3. Progress(u) /\ Len(up[u].made) \in Nat /\ up[u].answer \in {"none", "200", "400", "500"}
    BY <2>1, <2>2, UploadTyped DEF IInv, Steps, Upload
  <2>4. Len(up[u].made) < d[2] /\ d[2] <= Len(up[u].batch) /\ Len(up[u].batch) \in Nat
    BY <2>1, <2>2, UploadTyped DEF Behind
  <2>5. up[u].answer # "200"
    BY <2>2, <2>3, <2>4 DEF Progress
  <2>6. up[u].answer # "400"
    BY <2>1 DEF SpooledAt
  <2>7. \A n \in DOMAIN tables : tables[n] # d
    <3> SUFFICES ASSUME NEW n \in DOMAIN tables, tables[n] = d PROVE FALSE
      OBVIOUS
    <3>1. d[2] <= Len(up[u].made)
      BY DEF Waiting, InTable
    <3> QED
      BY <2>2, <2>3, <2>4, <3>1
  <2> QED
    BY <2>1, <2>3, <2>5, <2>6, <2>7 DEF Behind
<1> QED
  BY <1>1, Invariance, WaitingInvariance, PTL

-----------------------------------------------------------------------------
(* That every upload comes to its answer: whoever waits for the event loop *)
(* or the lock waits for an upload that can take its next step, and every  *)
(* step brings an upload nearer to the answer.                             *)

\* The guards of an upload's steps.
CanGoOn(u) ==
    \/ up[u].pc = "reading" /\ loop = None
    \/ up[u].pc = "lock" /\ lock = None
    \/ up[u].pc \in {"parse", "create", "describe", "register", "assess", "respond"}

\* An upload that cannot go on has another one on the event loop that can; a
\* listing that waits for the lock has it in the hands of one that can.
NobodyStuck ==
    /\ \A u \in Uploads : up[u].pc \notin {"new", "done"} =>
          CanGoOn(u) \/ (loop \in Uploads /\ CanGoOn(loop))
    /\ \A r \in Readers : rd[r].pc = "new" =>
          lock = None \/ (lock \in Uploads /\ CanGoOn(lock))

\* The steps an upload has left: its files to parse, then four steps for each
\* table, the lock, the release and the answer.
Work(u) ==
    LET files == Len(up[u].batch)
        left == files + 1 - up[u].i
    IN  CASE up[u].pc = "reading"  -> 5 * files + 5
          [] up[u].pc = "parse"    -> 4 * files + left + 4
          [] up[u].pc = "lock"     -> 4 * files + 3
          [] up[u].pc = "create"   -> 4 * left + 2
          [] up[u].pc = "describe" -> 4 * left + 1
          [] up[u].pc = "register" -> 4 * left
          [] up[u].pc = "assess"   -> 4 * left - 1
          [] up[u].pc = "respond"  -> 1
          [] OTHER                 -> 0

WorkBounded == \A u \in Uploads : Work(u) \in 0 .. 5 * Len(up[u].batch) + 5

\* From the moment its request is there, each step of an upload uses up some of
\* what is left, and nobody else's step adds to it.
StepsCount ==
    [][\A u \in Uploads : up[u].pc # "new" =>
          \/ up'[u] = up[u]
          \/ Work(u)' < Work(u) /\ up'[u].batch = up[u].batch]_vars

LEMMA WorkOf ==
    ASSUME NEW u \in Uploads
    PROVE  /\ up[u].pc = "reading"  => Work(u) = 5 * Len(up[u].batch) + 5
           /\ up[u].pc = "parse"    =>
                 Work(u) = 4 * Len(up[u].batch) + (Len(up[u].batch) + 1 - up[u].i) + 4
           /\ up[u].pc = "lock"     => Work(u) = 4 * Len(up[u].batch) + 3
           /\ up[u].pc = "create"   => Work(u) = 4 * (Len(up[u].batch) + 1 - up[u].i) + 2
           /\ up[u].pc = "describe" => Work(u) = 4 * (Len(up[u].batch) + 1 - up[u].i) + 1
           /\ up[u].pc = "register" => Work(u) = 4 * (Len(up[u].batch) + 1 - up[u].i)
           /\ up[u].pc = "assess"   => Work(u) = 4 * (Len(up[u].batch) + 1 - up[u].i) - 1
           /\ up[u].pc = "respond"  => Work(u) = 1
           /\ up[u].pc \in {"new", "done"} => Work(u) = 0
BY Zenon DEF Work

\* The instance of WorkOf for the next state.
LEMMA WorkNext ==
    ASSUME NEW u \in Uploads
    PROVE  /\ up'[u].pc = "reading"  => Work(u)' = 5 * Len(up'[u].batch) + 5
           /\ up'[u].pc = "parse"    =>
                 Work(u)' = 4 * Len(up'[u].batch) + (Len(up'[u].batch) + 1 - up'[u].i) + 4
           /\ up'[u].pc = "lock"     => Work(u)' = 4 * Len(up'[u].batch) + 3
           /\ up'[u].pc = "create"   => Work(u)' = 4 * (Len(up'[u].batch) + 1 - up'[u].i) + 2
           /\ up'[u].pc = "describe" => Work(u)' = 4 * (Len(up'[u].batch) + 1 - up'[u].i) + 1
           /\ up'[u].pc = "register" => Work(u)' = 4 * (Len(up'[u].batch) + 1 - up'[u].i)
           /\ up'[u].pc = "assess"   => Work(u)' = 4 * (Len(up'[u].batch) + 1 - up'[u].i) - 1
           /\ up'[u].pc = "respond"  => Work(u)' = 1
           /\ up'[u].pc \in {"new", "done"} => Work(u)' = 0
BY Zenon DEF Work

\* Where an upload is in its batch.
LEMMA PlaceInBatch ==
    ASSUME Steps, NEW u \in Uploads
    PROVE  /\ Len(up[u].batch) \in Nat /\ up[u].i \in Nat
           /\ up[u].pc \in {"new", "reading", "parse", "lock", "create", "describe",
                            "register", "assess", "respond", "done"}
           /\ up[u].pc = "reading" => up[u].i = 1
           /\ up[u].pc \in {"parse", "create"} => up[u].i <= Len(up[u].batch) + 1
           /\ up[u].pc \in {"describe", "register", "assess"} => up[u].i <= Len(up[u].batch)
           /\ up[u].pc = "lock" => up[u].i = 1
           /\ up[u].pc \in {"create", "lock"} => Len(up[u].parsed) = Len(up[u].batch)
BY UploadTyped DEF Steps, Upload, Progress, InOrder, Loading, Inside

LEMMA WorkIsBounded == Steps => WorkBounded
<1> SUFFICES ASSUME Steps, NEW u \in Uploads
             PROVE  Work(u) \in 0 .. 5 * Len(up[u].batch) + 5
  BY DEF WorkBounded
<1> DEFINE n == Len(up[u].batch)
           i == up[u].i
<1>1. n \in Nat /\ i \in Nat
  BY PlaceInBatch
<1>2. up[u].pc \in {"parse", "create", "describe", "register", "assess"} => i >= 1
  BY DEF Steps, Progress, Loading, Inside
<1>3. /\ up[u].pc \in {"parse", "create"} => i <= n + 1
      /\ up[u].pc \in {"describe", "register", "assess"} => i <= n
      /\ up[u].pc \in {"new", "reading", "parse", "lock", "create", "describe",
                       "register", "assess", "respond", "done"}
  BY PlaceInBatch
<1>4. /\ up[u].pc = "reading"  => Work(u) = 5 * n + 5
      /\ up[u].pc = "parse"    => Work(u) = 4 * n + (n + 1 - i) + 4
      /\ up[u].pc = "lock"     => Work(u) = 4 * n + 3
      /\ up[u].pc = "create"   => Work(u) = 4 * (n + 1 - i) + 2
      /\ up[u].pc = "describe" => Work(u) = 4 * (n + 1 - i) + 1
      /\ up[u].pc = "register" => Work(u) = 4 * (n + 1 - i)
      /\ up[u].pc = "assess"   => Work(u) = 4 * (n + 1 - i) - 1
      /\ up[u].pc = "respond"  => Work(u) = 1
      /\ up[u].pc \in {"new", "done"} => Work(u) = 0
  BY WorkOf
<1> HIDE DEF n, i
<1>5. Work(u) \in 0 .. 5 * n + 5
  BY <1>1, <1>2, <1>3, <1>4
<1> QED
  BY <1>5 DEF n

\* A step that ends the upload.
LEMMA DoneCounts ==
    ASSUME Steps, NEW u \in Uploads, up[u].pc \notin {"new", "done"}, up'[u].pc = "done"
    PROVE  Work(u)' < Work(u)
<1>1. Work(u)' = 0
  BY WorkNext
<1>2. Work(u) > 0
  <2> DEFINE n == Len(up[u].batch)
             left == n + 1 - up[u].i
  <2>1. /\ n \in Nat /\ left \in Int
        /\ up[u].pc \in {"parse", "create"} => left >= 0
        /\ up[u].pc \in {"describe", "register", "assess"} => left >= 1
    BY PlaceInBatch
  <2>2. /\ up[u].pc = "reading"  => Work(u) = 5 * n + 5
        /\ up[u].pc = "parse"    => Work(u) = 4 * n + left + 4
        /\ up[u].pc = "lock"     => Work(u) = 4 * n + 3
        /\ up[u].pc = "create"   => Work(u) = 4 * left + 2
        /\ up[u].pc = "describe" => Work(u) = 4 * left + 1
        /\ up[u].pc = "register" => Work(u) = 4 * left
        /\ up[u].pc = "assess"   => Work(u) = 4 * left - 1
        /\ up[u].pc = "respond"  => Work(u) = 1
    BY WorkOf
  <2> HIDE DEF n, left
  <2> QED  BY <2>1, <2>2, PlaceInBatch
<1> QED
  BY <1>1, <1>2

\* Each step of an upload that has its request.
LEMMA MovingCounts ==
    ASSUME Steps, NEW u \in Uploads, Moving(u), up[u].pc # "new"
    PROVE  Work(u)' < Work(u) /\ up'[u].batch = up[u].batch
<1> DEFINE n == Len(up[u].batch)
           i == up[u].i
<1>0. TypeOK /\ n \in Nat /\ i \in Nat
  BY PlaceInBatch DEF Steps
<1>1. CASE Resume(u)
  <2>1. /\ up[u].pc = "reading" /\ up'[u].pc = "parse" /\ up'[u].batch = up[u].batch
        /\ up'[u].i = 1
    BY <1>0, <1>1, ResumeEffect, PlaceInBatch DEF Resume
  <2>2. Work(u) = 5 * n + 5 /\ Work(u)' = 4 * n + (n + 1 - 1) + 4
    BY <2>1, WorkOf, WorkNext
  <2> HIDE DEF n
  <2> QED  BY <1>0, <2>1, <2>2
<1>2. CASE Parse(u)
  <2>1. /\ up[u].pc = "parse" /\ up'[u].pc = "parse" /\ up'[u].i = up[u].i + 1
        /\ up'[u].batch = up[u].batch
    BY <1>0, <1>2, ParseEffect DEF Parse
  <2>2. /\ Work(u) = 4 * n + (n + 1 - i) + 4
        /\ Work(u)' = 4 * n + (n + 1 - (i + 1)) + 4
    BY <2>1, WorkOf, WorkNext
  <2> HIDE DEF n, i
  <2> QED  BY <1>0, <2>1, <2>2
<1>3. CASE Plan(u)
  <2>1. /\ up[u].pc = "parse" /\ up'[u].pc = "lock" /\ up'[u].batch = up[u].batch
        /\ i <= n + 1
    BY <1>0, <1>3, PlanEffect, PlaceInBatch DEF Plan
  <2>2. Work(u) = 4 * n + (n + 1 - i) + 4 /\ Work(u)' = 4 * n + 3
    BY <2>1, WorkOf, WorkNext
  <2> HIDE DEF n, i
  <2> QED  BY <1>0, <2>1, <2>2
<1>4. CASE TakeLock(u)
  <2>1. /\ up[u].pc = "lock" /\ up'[u].pc = "create" /\ up'[u].batch = up[u].batch
        /\ up'[u].i = 1
    BY <1>0, <1>4, TakeLockEffect, PlaceInBatch DEF TakeLock
  <2>2. Work(u) = 4 * n + 3 /\ Work(u)' = 4 * (n + 1 - 1) + 2
    BY <2>1, WorkOf, WorkNext
  <2> HIDE DEF n
  <2> QED  BY <1>0, <2>1, <2>2
<1>5. CASE Create(u)
  <2>1. /\ up[u].pc = "create" /\ up'[u].pc \in {"describe", "done"}
        /\ up'[u].batch = up[u].batch /\ up'[u].i = up[u].i
    BY <1>5, CreateEffect DEF Create
  <2>2. CASE up'[u].pc = "describe"
    <3>1. Work(u) = 4 * (n + 1 - i) + 2 /\ Work(u)' = 4 * (n + 1 - i) + 1
      BY <2>1, <2>2, WorkOf, WorkNext
    <3> HIDE DEF n, i
    <3> QED  BY <1>0, <2>1, <3>1
  <2> QED  BY <2>1, <2>2, DoneCounts
<1>6. CASE Describe(u)
  <2>1. /\ up[u].pc = "describe" /\ up'[u].pc \in {"register", "done"}
        /\ up'[u].batch = up[u].batch /\ up'[u].i = up[u].i
    BY <1>0, <1>6, DescribeEffect DEF Describe
  <2>2. CASE up'[u].pc = "register"
    <3>1. Work(u) = 4 * (n + 1 - i) + 1 /\ Work(u)' = 4 * (n + 1 - i)
      BY <2>1, <2>2, WorkOf, WorkNext
    <3> HIDE DEF n, i
    <3> QED  BY <1>0, <2>1, <3>1
  <2> QED  BY <2>1, <2>2, DoneCounts
<1>7. CASE Register(u)
  <2>1. /\ up[u].pc = "register" /\ up'[u].pc = "assess"
        /\ up'[u].batch = up[u].batch /\ up'[u].i = up[u].i
    BY <1>0, <1>7, RegisterEffect DEF Register
  <2>2. Work(u) = 4 * (n + 1 - i) /\ Work(u)' = 4 * (n + 1 - i) - 1
    BY <2>1, WorkOf, WorkNext
  <2> HIDE DEF n, i
  <2> QED  BY <1>0, <2>1, <2>2
<1>8. CASE Assess(u)
  <2>1. /\ up[u].pc = "assess" /\ up'[u].batch = up[u].batch
        /\ \/ up'[u].pc = "create" /\ up'[u].i = up[u].i + 1
           \/ up'[u].pc = "done"
    BY <1>0, <1>8, AssessEffect DEF Assess
  <2>2. CASE up'[u].pc = "create" /\ up'[u].i = up[u].i + 1
    <3>1. /\ Work(u) = 4 * (n + 1 - i) - 1
          /\ Work(u)' = 4 * (n + 1 - (i + 1)) + 2
      BY <2>1, <2>2, WorkOf, WorkNext
    <3> HIDE DEF n, i
    <3> QED  BY <1>0, <2>1, <3>1
  <2> QED  BY <2>1, <2>2, DoneCounts
<1>9. CASE Unlock(u)
  <2>1. /\ up[u].pc = "create" /\ up'[u].pc = "respond" /\ up'[u].batch = up[u].batch
    BY <1>0, <1>9, UnlockEffect DEF Unlock
  <2> QED  BY <2>1, PlaceInBatch, WorkOf, WorkNext
<1>10. CASE CleaningRaises(u) \/ Reject(u) \/ Respond(u)
  <2>1. /\ up[u].pc \in {"parse", "respond"} /\ up'[u].pc = "done"
        /\ up'[u].batch = up[u].batch
    BY <1>0, <1>10, CleaningRaisesEffect, RejectEffect, RespondEffect
       DEF CleaningRaises, Reject, Respond
  <2> QED  BY <2>1, DoneCounts
<1>11. ~ \E batch \in Batches : Receive(u, batch)
  BY DEF Receive
<1> QED
  BY <1>1, <1>2, <1>3, <1>4, <1>5, <1>6, <1>7, <1>8, <1>9, <1>10, <1>11 DEF Moving

\* A step of upload u leaves every other one as it is.
LEMMA MovingMoves ==
    ASSUME Steps, NEW u \in Uploads, Moving(u)
    PROVE  Moves(u)
<1>0. TypeOK
  BY DEF Steps
<1>1. CASE \E batch \in Batches : Receive(u, batch)
  BY <1>0, <1>1, ReceiveEffect
<1>2. CASE Resume(u) \/ Parse(u) \/ CleaningRaises(u) \/ Reject(u) \/ Plan(u) \/ TakeLock(u)
  BY <1>0, <1>2, ResumeEffect, ParseEffect, CleaningRaisesEffect, RejectEffect, PlanEffect,
     TakeLockEffect
<1>3. CASE Create(u) \/ Describe(u) \/ Register(u) \/ Assess(u) \/ Unlock(u) \/ Respond(u)
  BY <1>0, <1>3, CreateEffect, DescribeEffect, RegisterEffect, AssessEffect, UnlockEffect,
     RespondEffect
<1> QED  BY <1>1, <1>2, <1>3 DEF Moving

\* Neither the event loop nor session.lock, taken in this order, ever leaves the
\* uploads and listings of a session waiting for each other.
THEOREM NoUploadIsStuck == Spec => []NobodyStuck
<1>1. Steps => NobodyStuck
  <2> SUFFICES ASSUME Steps PROVE NobodyStuck
    OBVIOUS
  <2>1. /\ \A u \in Uploads :
              /\ loop = u <=> up[u].pc \in Active
              /\ lock = u <=> up[u].pc \in Inside
        /\ loop \in Uploads \cup {None} /\ lock \in Uploads \cup {None}
    BY DEF Steps, Exclusive, TypeOK
  <2>2. \A u \in Uploads : up[u].pc \in {"new", "reading", "parse", "lock", "create",
                             "describe", "register", "assess", "respond", "done"}
    BY PlaceInBatch
  <2>3. lock \in Uploads => loop = lock /\ CanGoOn(lock)
    BY <2>1 DEF Active, Inside, CanGoOn
  <2>4. loop \in Uploads => CanGoOn(loop)
    BY <2>1, <2>3 DEF Active, Inside, CanGoOn
  <2>5. \A u \in Uploads : up[u].pc \notin {"new", "done"} =>
           CanGoOn(u) \/ (loop \in Uploads /\ CanGoOn(loop))
    BY <2>1, <2>2, <2>4 DEF Active, CanGoOn
  <2> QED
    BY <2>1, <2>3, <2>5 DEF NobodyStuck
<1>2. IInv => Steps
  BY DEF IInv
<1> QED
  BY <1>1, <1>2, Invariance, PTL

\* An upload of n files is answered after at most 5n + 5 steps of its own from the
\* moment it waits for the event loop.
THEOREM UploadsAreFinite == Spec => []WorkBounded /\ StepsCount
<1> DEFINE A == \A u \in Uploads : up[u].pc # "new" =>
                  \/ up'[u] = up[u]
                  \/ Work(u)' < Work(u) /\ up'[u].batch = up[u].batch
<1>1. IInv => WorkBounded
  BY WorkIsBounded DEF IInv
<1>2. IInv /\ [Next]_vars => [A]_vars
  <2> SUFFICES ASSUME IInv, Next PROVE A
    OBVIOUS
  <2>1. Steps
    BY DEF IInv
  <2>2. CASE up' = up
    BY <2>2
  <2>3. ASSUME NEW u \in Uploads, Moving(u)
        PROVE  A
    <3>1. \A v \in Uploads \ {u} : up'[v] = up[v]
      BY <2>1, <2>3, MovingMoves DEF Moves
    <3> QED
      BY <2>1, <2>3, <3>1, MovingCounts
  <2>4. CASE \/ \E r \in Readers : ListTables(r) \/ AddReports(r)
             \/ CloseConn \/ Stopped
    BY <2>2, <2>4 DEF ListTables, AddReports, CloseConn, Stopped, vars
  <2> QED
    BY <2>3, <2>4 DEF Next, Moving
<1> QED
  BY <1>1, <1>2, Invariance, PTL DEF Spec, StepsCount

-----------------------------------------------------------------------------
(* The names of columns.                                                   *)

USE WordsAssumption, CellsAssumption, HeaderAssumption

\* Where the names of a path have all been found.
Complete == \A p \in Paths : pc[p] # "dedupe" => Len(result[p]) = Len(Raw(p))

\* Every name was the first free one when it was given out.
Before(p, k) == {result[p][j] : j \in 1 .. k - 1}
GivenAt(p, k) ==
    /\ result[p][k] = FirstFree(Normalized[Raw(p)[k]], Before(p, k))
    /\ result[p][k] \notin Before(p, k)
    /\ Fold(result[p][k]) = result[p][k]
Given == \A p \in Paths : \A k \in 1 .. Len(result[p]) : GivenAt(p, k)

\* The data frame has its names when it is loaded.
Renamed == pc["pandas"] = "done" => columns["pandas"] = result["pandas"]

\* The table's columns have their names up to the one that is next, differ from one
\* another all the time, and have all their names at the end.
Renaming ==
    /\ at \in 1 .. Len(Raw("native")) + 1
    /\ DifferentNames(columns["native"])
    /\ \A j \in 1 .. Len(Raw("native")) :
          columns["native"][j] = IF j < at /\ pc["native"] # "dedupe"
                                 THEN result["native"][j] ELSE Raw("native")[j]
    /\ pc["native"] = "dedupe" => at = 1
    /\ pc["native"] = "done" => at = Len(Raw("native")) + 1

ColumnsIInv == ColumnsTyped /\ Complete /\ Given /\ Renamed /\ Renaming

\* The columns that a reader gives a file.
LEMMA RawTyped ==
    ASSUME ColumnsTyped, NEW p \in Paths
    PROVE  /\ Raw(p) \in Seq(Cells) /\ Raw(p) \in Seq(Name) /\ Len(Raw(p)) \in Nat
           /\ result[p] \in Seq(Name) /\ Len(result[p]) \in Nat
           /\ columns[p] \in Seq(Name) /\ Len(columns[p]) = Len(Raw(p))
<1>1. Raw(p) \in Seq(Cells) /\ Cells \subseteq Name
  BY DEF ColumnsTyped, Raw
<1>2. Raw(p) \in Seq(Name)
  BY <1>1, SeqMonotonic
<1> QED  BY <1>1, <1>2, LenProperties DEF ColumnsTyped, Raw

\* A number at the end of a name that is its own folded form leaves it so.
LEMMA FoldSuffixed ==
    ASSUME NEW name \in Name, NEW k \in Nat, Fold(name) = name
    PROVE  Fold(Suffixed(name, k)) = Suffixed(name, k)
<1> DEFINE s == Append(name, k)
           W == Words \cup Nat
           e(x) == IF x \in Words THEN Lower[x] ELSE x
<1>1. /\ name \in Seq(W) /\ k \in W /\ Len(name) \in Nat
      /\ s \in Seq(W) /\ Len(s) = Len(name) + 1
      /\ \A j \in 1 .. Len(name) : s[j] = name[j]
      /\ s[Len(name) + 1] = k
  BY AppendProperties, LenProperties DEF Name
<1>2. s = [j \in 1 .. Len(s) |-> s[j]]
  BY <1>1, LenProperties
<1>3. \A j \in 1 .. Len(name) : e(name[j]) = name[j]
  BY DEF Fold
<1>4. \A j \in 1 .. Len(s) : e(s[j]) = s[j]
  <2> TAKE j \in 1 .. Len(s)
  <2>1. CASE j \in 1 .. Len(name)
    BY <1>1, <1>3, <2>1
  <2>2. CASE j = Len(name) + 1
    <3>1. k \notin Words
      OBVIOUS
    <3> QED  BY <1>1, <2>2, <3>1
  <2> QED  BY <1>1, <2>1, <2>2
<1>5. Fold(s) = [j \in 1 .. Len(s) |-> e(s[j])]
  BY DEF Fold
<1> HIDE DEF s, e
<1>6. Fold(s) = s
  BY <1>2, <1>4, <1>5
<1> QED  BY <1>6 DEF Suffixed, s

LEMMA InitColumns == ColumnsInit => ColumnsIInv
<1> SUFFICES ASSUME ColumnsInit PROVE ColumnsIInv
  OBVIOUS
<1>1. Len(<<>>) = 0 /\ <<>> \in Seq(Name)
  OBVIOUS
<1>2. \A p \in Paths : Header[p][csv] \in Seq(Name) /\ Len(Header[p][csv]) \in Nat
  <2> TAKE p \in Paths
  <2>1. Header[p][csv] \in Seq(Cells) /\ Cells \subseteq Name
    BY DEF ColumnsInit
  <2> QED  BY <2>1, SeqMonotonic, LenProperties
<1>3. ColumnsTyped
  BY <1>1, <1>2 DEF ColumnsInit, ColumnsTyped
<1>4. "pandas" \in Paths /\ "native" \in Paths
  BY DEF Paths
<1>5. Complete /\ Given /\ Renamed
  BY <1>1, <1>4 DEF ColumnsInit, Complete, Given, Renamed
<1>6. Renaming
  <2>1. DifferentNames(Header["native"][csv]) /\ columns["native"] = Header["native"][csv]
    BY <1>4 DEF ColumnsInit
  <2> QED  BY <1>2, <1>4, <2>1 DEF ColumnsInit, Renaming, Raw
<1> QED  BY <1>3, <1>5, <1>6 DEF ColumnsIInv

\* The next name is a name, free, and its own folded form.
LEMMA NextNameIsFree ==
    ASSUME ColumnsIInv, NEW p \in Paths, Len(result[p]) < Len(Raw(p)),
           NEW cell, cell = Raw(p)[Len(result[p]) + 1]
    PROVE  /\ NextName(p, cell) \in Name /\ NextName(p, cell) \notin Used(p)
           /\ Fold(NextName(p, cell)) = NextName(p, cell)
<1>1. /\ Raw(p) \in Seq(Cells) /\ Len(Raw(p)) \in Nat
      /\ result[p] \in Seq(Name) /\ Len(result[p]) \in Nat
  BY RawTyped DEF ColumnsIInv
<1>2. cell \in Cells
  BY <1>1, ElementOfSeq
<1>3. Normalized[cell] \in Seq(Words \cup Nat) /\ Fold(Normalized[cell]) = Normalized[cell]
  BY <1>2 DEF Name
<1>4. IsFiniteSet(Used(p))
  <2> DEFINE n == Len(result[p])
             f == [i \in 1 .. n |-> result[p][i]]
  <2>1. IsFiniteSet(1 .. n)
    BY <1>1, FS_Interval
  <2>2. f \in Surjection(1 .. n, Used(p))
    BY DEF Surjection, Used
  <2> QED  BY <2>1, <2>2, FS_Surjection
<1>5. /\ NextName(p, cell) \in Seq(Words \cup Nat) /\ NextName(p, cell) \notin Used(p)
      /\ \/ NextName(p, cell) = Normalized[cell]
         \/ \E k \in Nat : NextName(p, cell) = Suffixed(Normalized[cell], k)
  BY <1>3, <1>4, FirstFreeIsFree DEF NextName
<1>6. Fold(NextName(p, cell)) = NextName(p, cell)
  BY <1>3, <1>5, FoldSuffixed DEF Name
<1> QED  BY <1>5, <1>6 DEF Name

LEMMA DedupeIInv == ASSUME ColumnsIInv, NEW p \in Paths, Dedupe(p) PROVE ColumnsIInv'
<1> DEFINE n == Len(result[p])
           cell == Raw(p)[n + 1]
           name == NextName(p, cell)
<1>1. name \in Name /\ name \notin Used(p) /\ Fold(name) = name
  BY NextNameIsFree DEF Dedupe
<1>2. result[p] \in Seq(Name) /\ n \in Nat /\ Len(Raw(p)) \in Nat /\ n + 1 <= Len(Raw(p))
  BY RawTyped DEF ColumnsIInv, Dedupe
<1>3. /\ result' = [result EXCEPT ![p] = Append(result[p], name)]
      /\ csv' = csv /\ pc' = pc /\ columns' = columns /\ at' = at /\ pc[p] = "dedupe"
  BY DEF Dedupe, ColumnsIInv, ColumnsTyped
<1>4. /\ Append(result[p], name) \in Seq(Name) /\ Len(Append(result[p], name)) = n + 1
      /\ \A j \in 1 .. n : Append(result[p], name)[j] = result[p][j]
      /\ Append(result[p], name)[n + 1] = name
  BY <1>1, <1>2, AppendProperties
<1>5. name = FirstFree(Normalized[Raw(p)[n + 1]], Before(p, n + 1)) /\ Before(p, n + 1) = Used(p)
  BY <1>2 DEF NextName, Before, Used
<1>6. /\ result' \in [Paths -> Seq(Name)] /\ result'[p] = Append(result[p], name)
      /\ \A q \in Paths \ {p} : result'[q] = result[q]
  BY <1>3, <1>4 DEF ColumnsIInv, ColumnsTyped
<1>7. \A q : Raw(q)' = Raw(q)
  BY <1>3 DEF Raw
<1> HIDE DEF name, cell, n
<1>8. ColumnsTyped'
  BY <1>2, <1>3, <1>4, <1>6 DEF ColumnsIInv, ColumnsTyped, Raw, n
<1>9. Given'
  <2> SUFFICES ASSUME NEW q \in Paths, NEW k \in 1 .. Len(result'[q]) PROVE GivenAt(q, k)'
    BY DEF Given
  <2>1. CASE q # p
    <3>1. GivenAt(q, k)
      BY <1>6, <2>1 DEF ColumnsIInv, Given
    <3>2. result'[q] = result[q]
      BY <1>6, <2>1
    <3>3. Before(q, k)' = Before(q, k)
      BY <3>2 DEF Before
    <3> QED  BY <1>7, <3>1, <3>2, <3>3 DEF GivenAt
  <2>2. CASE q = p
    <3>1. k \in 1 .. n + 1 /\ n \in Nat
      BY <1>2, <1>4, <1>6, <2>2
    <3>2. Before(p, k)' = Before(p, k)
      BY <1>4, <1>6, <3>1 DEF Before
    <3>3. CASE k \in 1 .. n
      <4>1. GivenAt(p, k) /\ result'[p][k] = result[p][k]
        BY <1>4, <1>6, <3>3 DEF ColumnsIInv, Given, n
      <4> QED  BY <1>7, <2>2, <3>2, <4>1 DEF GivenAt
    <3>4. CASE k = n + 1
      <4>1. result'[p][k] = name
        BY <1>4, <1>6, <3>4
      <4> QED  BY <1>1, <1>5, <1>7, <2>2, <3>2, <3>4, <4>1 DEF GivenAt
    <3> QED  BY <3>1, <3>3, <3>4
  <2> QED  BY <2>1, <2>2
<1>10. Complete' /\ Renamed'
  BY <1>3, <1>6, <1>7 DEF ColumnsIInv, Complete, Renamed, Paths
<1>11. Renaming'
  BY <1>3, <1>6, <1>7 DEF ColumnsIInv, Renaming, Paths
<1> QED  BY <1>8, <1>9, <1>10, <1>11 DEF ColumnsIInv

\* What the renames leave alone.
LEMMA FrameColumns ==
    ASSUME ColumnsIInv, csv' = csv, result' = result, Complete', Renamed', Renaming',
           ColumnsTyped'
    PROVE  ColumnsIInv'
<1>1. \A p, k : GivenAt(p, k)' <=> GivenAt(p, k)
  <2>1. \A p, k : Before(p, k)' = Before(p, k) /\ Raw(p)' = Raw(p)
    BY DEF Before, Raw
  <2> QED  BY <2>1 DEF GivenAt
<1>2. Given'
  BY <1>1 DEF ColumnsIInv, Given
<1> QED  BY <1>2 DEF ColumnsIInv

LEMMA LoadCleanIInv == ASSUME ColumnsIInv, LoadClean PROVE ColumnsIInv'
<1>1. "pandas" \in Paths /\ "native" \in Paths /\ "pandas" # "native"
  BY DEF Paths
<1>2. /\ csv' = csv /\ result' = result /\ at' = at
      /\ pc' \in [Paths -> {"dedupe", "rename", "done", "failed"}]
      /\ columns' \in [Paths -> Seq(Name)]
      /\ columns'["pandas"] = result["pandas"] /\ columns'["native"] = columns["native"]
      /\ pc'["pandas"] = "done" /\ pc'["native"] = pc["native"]
      /\ Len(result["pandas"]) = Len(Raw("pandas"))
      /\ \A q \in Paths : q = "pandas" \/ q = "native"
  BY <1>1 DEF LoadClean, ColumnsIInv, ColumnsTyped, Paths
<1>3. ColumnsTyped'
  BY <1>2 DEF ColumnsIInv, ColumnsTyped, Raw
<1>4. Complete' /\ Renamed' /\ Renaming'
  BY <1>2 DEF ColumnsIInv, Complete, Renamed, Renaming, Raw
<1> QED  BY <1>2, <1>3, <1>4, FrameColumns

\* A step of _ingest_native from one statement to the next.
LEMMA NativeIInv ==
    ASSUME ColumnsIInv, StartRenames \/ RenameFails \/ RenamesDone
    PROVE  ColumnsIInv'
<1>1. "pandas" \in Paths /\ "native" \in Paths /\ "pandas" # "native"
  BY DEF Paths
<1>2. /\ csv' = csv /\ result' = result /\ at' = at /\ columns' = columns
      /\ pc' \in [Paths -> {"dedupe", "rename", "done", "failed"}]
      /\ pc'["pandas"] = pc["pandas"]
      /\ \A q \in Paths : q = "pandas" \/ q = "native"
  BY <1>1 DEF StartRenames, RenameFails, RenamesDone, ColumnsIInv, ColumnsTyped, Paths
<1>3. /\ Len(result["native"]) = Len(Raw("native"))
      /\ \/ pc["native"] = "dedupe" /\ pc'["native"] = "rename"
         \/ pc["native"] = "rename" /\ pc'["native"] = "failed"
         \/ pc["native"] = "rename" /\ pc'["native"] = "done" /\ at > Len(Raw("native"))
  BY <1>1 DEF StartRenames, RenameFails, RenamesDone, ColumnsIInv, ColumnsTyped, Complete
<1>4. ColumnsTyped'
  BY <1>2 DEF ColumnsIInv, ColumnsTyped
<1>5. Complete' /\ Renamed'
  BY <1>2, <1>3 DEF ColumnsIInv, Complete, Renamed, Raw
<1>6. Len(Raw("native")) \in Nat
  BY <1>1, RawTyped DEF ColumnsIInv
<1>7. Renaming'
  BY <1>2, <1>3, <1>6 DEF ColumnsIInv, Renaming, Raw
<1> QED  BY <1>2, <1>4, <1>5, <1>7, FrameColumns

LEMMA KeepNameIInv == ASSUME ColumnsIInv, KeepName PROVE ColumnsIInv'
<1>1. "native" \in Paths
  BY DEF Paths
<1>2. /\ csv' = csv /\ result' = result /\ columns' = columns /\ pc' = pc /\ at' = at + 1
      /\ pc["native"] = "rename" /\ at <= Len(Raw("native"))
      /\ Raw("native")[at] = result["native"][at] /\ Len(Raw("native")) \in Nat
      /\ at \in 1 .. Len(Raw("native")) + 1
  BY <1>1, RawTyped DEF KeepName, SameString, Old, New, ColumnsIInv, Renaming
<1>3. ColumnsTyped'
  BY <1>2 DEF ColumnsIInv, ColumnsTyped
<1>4. Complete' /\ Renamed'
  BY <1>2 DEF ColumnsIInv, Complete, Renamed, Raw
<1>5. Renaming'
  BY <1>2 DEF ColumnsIInv, Renaming, Raw
<1> QED  BY <1>2, <1>3, <1>4, <1>5, FrameColumns

\* The column found is the next one, since the columns differ; its new name leaves
\* them different, since it is not taken.
LEMMA RenameIInv ==
    ASSUME ColumnsIInv, NEW i \in 1 .. Len(columns["native"]), Rename(i)
    PROVE  ColumnsIInv'
<1> DEFINE n == Len(Raw("native"))
           old == columns["native"]
           res == result["native"]
<1>1. "pandas" \in Paths /\ "native" \in Paths /\ "pandas" # "native"
  BY DEF Paths
<1>2. /\ n \in Nat /\ old \in Seq(Name) /\ Len(old) = n
      /\ res \in Seq(Name) /\ at \in 1 .. n /\ pc["native"] = "rename" /\ Len(res) = n
  <2>1. n \in Nat /\ old \in Seq(Name) /\ Len(old) = n /\ res \in Seq(Name)
    BY <1>1, RawTyped DEF ColumnsIInv
  <2>2. pc["native"] = "rename" /\ at <= n /\ at \in 1 .. n + 1
    BY DEF Rename, ColumnsIInv, Renaming
  <2>3. Len(res) = n
    BY <1>1, <2>2 DEF ColumnsIInv, Complete
  <2> QED  BY <2>1, <2>2, <2>3
<1>3. /\ csv' = csv /\ result' = result /\ pc' = pc /\ at' = at + 1
      /\ columns' = [columns EXCEPT !["native"] = [old EXCEPT ![i] = res[at]]]
      /\ Fold(old[i]) = Fold(Raw("native")[at])
      /\ \A k \in 1 .. n : k # i => Fold(old[k]) # Fold(res[at])
  BY <1>1, <1>2 DEF Rename, Found, Taken, Old, New, ColumnsIInv, ColumnsTyped
<1>4. old[at] = Raw("native")[at] /\ DifferentNames(old)
  BY <1>2 DEF ColumnsIInv, Renaming
<1>5. i = at
  BY <1>2, <1>3, <1>4 DEF DifferentNames
<1>6. res[at] \in Name
  BY <1>2, ElementOfSeq
<1> DEFINE new == [old EXCEPT ![i] = res[at]]
<1>7. /\ new \in Seq(Name) /\ Len(new) = n
      /\ \A j \in 1 .. n : new[j] = IF j = i THEN res[at] ELSE old[j]
  BY <1>2, <1>6, ExceptSeq
<1> HIDE DEF new
<1>8. /\ columns' \in [Paths -> Seq(Name)] /\ columns'["native"] = new
      /\ columns'["pandas"] = columns["pandas"]
      /\ \A q \in Paths : q = "pandas" \/ q = "native"
  BY <1>1, <1>3, <1>7 DEF ColumnsIInv, ColumnsTyped, Paths, new
<1>9. ColumnsTyped'
  BY <1>2, <1>3, <1>7, <1>8 DEF ColumnsIInv, ColumnsTyped, Raw
<1>10. Complete' /\ Renamed'
  BY <1>3, <1>8 DEF ColumnsIInv, Complete, Renamed, Raw
<1>11. DifferentNames(new)
  <2> SUFFICES ASSUME NEW j \in 1 .. n, NEW k \in 1 .. n, Fold(new[j]) = Fold(new[k])
               PROVE  j = k
    BY <1>7 DEF DifferentNames
  <2>1. CASE j # i /\ k # i
    BY <1>2, <1>4, <1>7, <2>1 DEF DifferentNames
  <2>2. CASE j = i
    BY <1>3, <1>7, <2>2
  <2>3. CASE k = i
    BY <1>3, <1>7, <2>3
  <2> QED  BY <2>1, <2>2, <2>3
<1>12. Renaming'
  <2>1. Raw("native")' = Raw("native")
    BY <1>3 DEF Raw
  <2>2. \A j \in 1 .. n : new[j] = IF j < at + 1 THEN res[j] ELSE Raw("native")[j]
    <3> TAKE j \in 1 .. n
    <3>1. old[j] = IF j < at THEN res[j] ELSE Raw("native")[j]
      BY <1>2 DEF ColumnsIInv, Renaming
    <3> QED  BY <1>2, <1>5, <1>7, <3>1
  <2>3. at' \in 1 .. n + 1 /\ pc'["native"] = "rename" /\ result' = result
    BY <1>2, <1>3
  <2>4. DifferentNames(columns["native"])'
    BY <1>8, <1>11 DEF DifferentNames, Fold
  <2>5. \A j \in 1 .. Len(Raw("native")) :
            columns'["native"][j] = IF j < at' THEN result["native"][j] ELSE Raw("native")[j]
    BY <1>3, <1>8, <2>2
  <2> QED  BY <2>1, <2>3, <2>4, <2>5 DEF Renaming
<1> QED  BY <1>3, <1>9, <1>10, <1>12, FrameColumns

LEMMA NextColumns == ColumnsIInv /\ [ColumnsNext]_columnVars => ColumnsIInv'
<1> SUFFICES ASSUME ColumnsIInv, [ColumnsNext]_columnVars
             PROVE  ColumnsIInv'
  OBVIOUS
<1>1. CASE \E p \in Paths : Dedupe(p)
  BY <1>1, DedupeIInv
<1>2. CASE LoadClean
  BY <1>2, LoadCleanIInv
<1>3. CASE StartRenames \/ RenameFails \/ RenamesDone
  BY <1>3, NativeIInv
<1>4. CASE KeepName
  BY <1>4, KeepNameIInv
<1>5. CASE \E i \in 1 .. Len(columns["native"]) : Rename(i)
  BY <1>5, RenameIInv
<1>6. CASE BothEnded \/ UNCHANGED columnVars
  <2>1. csv' = csv /\ result' = result /\ columns' = columns /\ pc' = pc /\ at' = at
    BY <1>6 DEF BothEnded, columnVars
  <2>2. Complete' /\ Renamed' /\ Renaming' /\ ColumnsTyped'
    BY <2>1 DEF ColumnsIInv, ColumnsTyped, Complete, Renamed, Renaming, Raw
  <2> QED  BY <2>1, <2>2, FrameColumns
<1> QED  BY <1>1, <1>2, <1>3, <1>4, <1>5, <1>6 DEF ColumnsNext

LEMMA ColumnsInvariance == ColumnsSpec => []ColumnsIInv
BY InitColumns, NextColumns, PTL DEF ColumnsSpec

-----------------------------------------------------------------------------
(* The theorems about columns.                                             *)

\* dedupe_names finds at most as many names as there are columns, and both load paths
\* keep as many columns as the reader gave them.
THEOREM ColumnsTypeCorrect == ColumnsSpec => []ColumnsTyped
<1>1. ColumnsIInv => ColumnsTyped
  BY DEF ColumnsIInv
<1> QED  BY <1>1, ColumnsInvariance, PTL

\* dedupe_names never gives two names that DuckDB takes for one, for any file.
THEOREM DedupedNamesDistinct == ColumnsSpec => []NamesDistinct
<1>1. ColumnsIInv => NamesDistinct
  <2> SUFFICES ASSUME ColumnsIInv, NEW p \in Paths,
                      NEW i \in 1 .. Len(result[p]), NEW j \in 1 .. Len(result[p]),
                      Fold(result[p][i]) = Fold(result[p][j])
               PROVE  i = j
    BY DEF NamesDistinct, DifferentNames
  <2>1. GivenAt(p, i) /\ GivenAt(p, j) /\ Len(result[p]) \in Nat
    BY RawTyped DEF ColumnsIInv, Given
  <2>2. result[p][i] = result[p][j]
    BY <2>1 DEF GivenAt
  <2>3. /\ i < j => result[p][i] \in Before(p, j)
        /\ j < i => result[p][j] \in Before(p, i)
    BY <2>1 DEF Before
  <2>4. ~(i < j) /\ ~(j < i)
    BY <2>1, <2>2, <2>3 DEF GivenAt
  <2> QED  BY <2>1, <2>4
<1> QED  BY <1>1, ColumnsInvariance, PTL

\* dedupe_names is a function of the normalised names: where the readers agree on
\* them, the paths find the same names.
LEMMA SameGiven ==
    ASSUME ColumnsIInv, ReadersAgree, pc["pandas"] # "dedupe", pc["native"] # "dedupe"
    PROVE  result["pandas"] = result["native"]
<1> DEFINE a == result["pandas"]
           b == result["native"]
           T == {k \in 1 .. Len(a) : a[k] # b[k]}
<1>1. "pandas" \in Paths /\ "native" \in Paths
  BY DEF Paths
<1>2. a \in Seq(Name) /\ b \in Seq(Name) /\ Len(a) \in Nat /\ Len(a) = Len(b)
      /\ Len(a) = Len(Raw("native"))
  BY <1>1, RawTyped DEF ColumnsIInv, Complete, ReadersAgree
<1>3. T = {}
  <2> SUFFICES ASSUME T # {} PROVE FALSE
    OBVIOUS
  <2>0. T \in SUBSET Nat
    BY <1>2
  <2>1. PICK k \in T : \A m \in T : k <= m
    BY <2>0, LeastNumber
  <2>2. k \in 1 .. Len(a) /\ a[k] # b[k]
    BY <2>1
  <2>3. \A j \in 1 .. k - 1 : a[j] = b[j]
    <3> SUFFICES ASSUME NEW j \in 1 .. k - 1, a[j] # b[j] PROVE FALSE
      OBVIOUS
    <3>1. j \in T /\ j < k
      BY <1>2, <2>2
    <3> QED  BY <1>2, <2>1, <2>2, <3>1
  <2>4. Before("pandas", k) = Before("native", k)
    BY <2>3 DEF Before
  <2>5. GivenAt("pandas", k) /\ GivenAt("native", k)
    BY <1>1, <1>2, <2>2 DEF ColumnsIInv, Given
  <2>6. Normalized[Raw("pandas")[k]] = Normalized[Raw("native")[k]]
    BY <1>2, <2>2 DEF ReadersAgree
  <2> QED  BY <2>2, <2>4, <2>5, <2>6 DEF GivenAt
<1> HIDE DEF a, b
<1>4. \A k \in 1 .. Len(a) : a[k] = b[k]
  BY <1>3
<1>5. a = b
  BY <1>2, <1>4, SeqEqual
<1> QED  BY <1>5 DEF a, b

\* The renames of _ingest_native end with every column under its own new name; a file
\* whose columns both readers name alike, up to normalisation, is loaded by both paths
\* with the same columns.
THEOREM PathsAgree == ColumnsSpec => []SameNames
<1>1. ColumnsIInv => SameNames
  <2> SUFFICES ASSUME ColumnsIInv PROVE SameNames
    OBVIOUS
  <2>1. "pandas" \in Paths /\ "native" \in Paths
    BY DEF Paths
  <2>2. pc["native"] = "done" => columns["native"] = result["native"]
    <3> SUFFICES ASSUME pc["native"] = "done"
                 PROVE  columns["native"] = result["native"]
      OBVIOUS
    <3>1. /\ columns["native"] \in Seq(Name) /\ result["native"] \in Seq(Name)
          /\ Len(columns["native"]) = Len(Raw("native")) /\ Len(Raw("native")) \in Nat
      BY <2>1, RawTyped DEF ColumnsIInv
    <3>2. Len(result["native"]) = Len(Raw("native"))
      BY <2>1 DEF ColumnsIInv, Complete
    <3>3. \A j \in 1 .. Len(Raw("native")) : columns["native"][j] = result["native"][j]
      BY <3>1 DEF ColumnsIInv, Renaming
    <3> QED  BY <3>1, <3>2, <3>3, SeqEqual
  <2>3. ReadersAgree /\ (\A p \in Paths : pc[p] = "done") =>
            columns["pandas"] = columns["native"]
    BY <2>1, <2>2, SameGiven DEF ColumnsIInv, Renamed
  <2> QED  BY <2>2, <2>3 DEF SameNames
<1> QED  BY <1>1, ColumnsInvariance, PTL
=============================================================================
