---------------------------- MODULE ColumnNames ----------------------------
(***************************************************************************)
(* The column names of an uploaded table (backend/app/services/            *)
(* csv_ingestion.py).  Up to the large-file threshold pandas reads the     *)
(* file and has its columns renamed before DuckDB sees them                *)
(* (_clean_columns); above it DuckDB reads the file and the columns are    *)
(* renamed one by one (_ingest_native).  Both normalise each column and    *)
(* then call dedupe_names, here one step per name.                         *)
(*                                                                         *)
(* The same file goes both ways here, side by side: on whichever side of   *)
(* the threshold it falls, its columns are to have the same names.         *)
(***************************************************************************)
EXTENDS Identifiers

CONSTANTS
    Csvs,           \* the files
    Cells,          \* column names as a CSV reader may give them
    Header,         \* the columns each reader gives a file: Header[path][file]
    Normalized,     \* normalize_identifier(cell, "column") of each cell
    Lower           \* the lower case of each word

Paths == {"pandas", "native"}

\* DuckDB compares the columns of a table without case.
Fold(name) == [j \in 1 .. Len(name) |-> IF name[j] \in Words THEN Lower[name[j]] ELSE name[j]]
DifferentNames(names) ==
    \A i, j \in 1 .. Len(names) : Fold(names[i]) = Fold(names[j]) => i = j

\* DuckDB's reader has told repeated columns apart, as DuckDB compares them; pandas
\* has done so in its own way, about which nothing is assumed.
ASSUME WordsAssumption == Lower \in [Words -> Words] /\ \A w \in Words : w \notin Nat
ASSUME CellsAssumption == \A c \in Cells : /\ {c, Normalized[c]} \subseteq Name
                                           /\ Fold(Normalized[c]) = Normalized[c]
ASSUME HeaderAssumption ==
    \A f \in Csvs : /\ \A p \in Paths : Header[p][f] \in Seq(Cells)
                    /\ DifferentNames(Header["native"][f])

VARIABLES
    csv,            \* the file
    pc,             \* of each path
    result,         \* dedupe_names on each path: the names found so far
    columns,        \* the columns on each path, of the data frame or of the table
    at              \* the column that _ingest_native renames next

columnVars == <<csv, pc, result, columns, at>>

ColumnsTyped ==
    /\ csv \in Csvs
    /\ pc \in [Paths -> {"dedupe", "rename", "done", "failed"}]
    /\ result \in [Paths -> Seq(Name)] /\ columns \in [Paths -> Seq(Name)]
    /\ \A p \in Paths : /\ Len(result[p]) <= Len(Header[p][csv])
                        /\ Len(columns[p]) = Len(Header[p][csv])
    /\ at \in Nat

\* raw_columns, or df.columns.
Raw(p) == Header[p][csv]

\* Over the large-file threshold the table has been created with its raw columns.
ColumnsInit ==
    /\ csv \in Csvs
    /\ pc = [p \in Paths |-> "dedupe"]
    /\ result = [p \in Paths |-> <<>>]
    /\ columns = [p \in Paths |-> Header[p][csv]]
    /\ at = 1

\* The names given out so far: `used` is the set of `result`.
Used(p) == {result[p][j] : j \in 1 .. Len(result[p])}

\* One turn of the loop of dedupe_names.  The mutant counts the name's earlier
\* occurrences instead of looking for a free suffix.
CountedName(p, cell) ==
    LET name == Normalized[cell]
        n == Cardinality({j \in 1 .. Len(result[p]) : Normalized[Raw(p)[j]] = name})
    IN  IF n = 0 THEN name ELSE Suffixed(name, n + 1)
NextName(p, cell) == FirstFree(Normalized[cell], Used(p))

Dedupe(p) ==
    /\ pc[p] = "dedupe"
    /\ Len(result[p]) < Len(Raw(p))
    /\ result' = [result EXCEPT ![p] = Append(@, NextName(p, Raw(p)[Len(@) + 1]))]
    /\ UNCHANGED <<csv, pc, columns, at>>

\* df.columns = dedupe_names(...), then the table is created: all at once.
LoadClean ==
    /\ pc["pandas"] = "dedupe"
    /\ Len(result["pandas"]) = Len(Raw("pandas"))
    /\ columns' = [columns EXCEPT !["pandas"] = result["pandas"]]
    /\ pc' = [pc EXCEPT !["pandas"] = "done"]
    /\ UNCHANGED <<csv, result, at>>

StartRenames ==
    /\ pc["native"] = "dedupe"
    /\ Len(result["native"]) = Len(Raw("native"))
    /\ pc' = [pc EXCEPT !["native"] = "rename"]
    /\ UNCHANGED <<csv, result, columns, at>>

\* for old, new in zip(raw_columns, normalized), once: ALTER TABLE ... RENAME COLUMN
\* old TO new, unless they are one string.  DuckDB looks `old` up among the names the
\* columns have by now.  The mutant compares the strings as DuckDB would.
Old == Raw("native")[at]
New == result["native"][at]
SameFolded(old, new) == Fold(old) = Fold(new)
SameString(old, new) == old = new

KeepName ==
    /\ pc["native"] = "rename" /\ at <= Len(Raw("native"))
    /\ SameString(Old, New)
    /\ at' = at + 1
    /\ UNCHANGED <<csv, pc, result, columns>>

\* The column found, and whether another one has the new name.
Found(j) == Fold(columns["native"][j]) = Fold(Old)
Taken(j) == \E k \in 1 .. Len(columns["native"]) :
                k # j /\ Fold(columns["native"][k]) = Fold(New)

Rename(j) ==
    /\ pc["native"] = "rename" /\ at <= Len(Raw("native"))
    /\ ~SameString(Old, New)
    /\ Found(j) /\ ~Taken(j)
    /\ columns' = [columns EXCEPT !["native"][j] = New]
    /\ at' = at + 1
    /\ UNCHANGED <<csv, pc, result>>

\* CatalogException: the upload ends in a server error.
RenameFails ==
    /\ pc["native"] = "rename" /\ at <= Len(Raw("native"))
    /\ ~SameString(Old, New)
    /\ \A j \in 1 .. Len(columns["native"]) : Found(j) => Taken(j)
    /\ pc' = [pc EXCEPT !["native"] = "failed"]
    /\ UNCHANGED <<csv, result, columns, at>>

RenamesDone ==
    /\ pc["native"] = "rename" /\ at > Len(Raw("native"))
    /\ pc' = [pc EXCEPT !["native"] = "done"]
    /\ UNCHANGED <<csv, result, columns, at>>

BothEnded ==
    /\ \A p \in Paths : pc[p] \in {"done", "failed"}
    /\ UNCHANGED columnVars

ColumnsNext ==
    \/ \E p \in Paths : Dedupe(p)
    \/ LoadClean
    \/ StartRenames \/ KeepName \/ RenameFails \/ RenamesDone
    \/ \E j \in 1 .. Len(columns["native"]) : Rename(j)
    \/ BothEnded

ColumnsSpec == ColumnsInit /\ [][ColumnsNext]_columnVars

-----------------------------------------------------------------------------
(* Safety.                                                                 *)

\* A table never gets two columns of one name, as DuckDB compares names, also when
\* a suffix that dedupe_names would take is the name of a column of its own.
NamesDistinct == \A p \in Paths : DifferentNames(result[p])

\* Wherever the threshold lies, a file that is loaded has the same columns in the same
\* order, although DuckDB renames them one by one, each by its old name, in a table
\* where the earlier ones have their new names already.  The readers must agree on
\* the columns up to normalisation: about repeated ones they may not.
ReadersAgree ==
    /\ Len(Raw("pandas")) = Len(Raw("native"))
    /\ \A i \in 1 .. Len(Raw("native")) :
          Normalized[Raw("pandas")[i]] = Normalized[Raw("native")[i]]
SameNames ==
    /\ pc["native"] = "done" => columns["native"] = result["native"]
    /\ ReadersAgree /\ (\A p \in Paths : pc[p] = "done") =>
          columns["pandas"] = columns["native"]
=============================================================================
