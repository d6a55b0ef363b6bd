---------------------------- MODULE Identifiers ----------------------------
(***************************************************************************)
(* SQL identifiers as csv_ingestion.py makes them, for columns and tables. *)
(* An identifier is the sequence of the parts it was joined from with      *)
(* underscores: <<"data">>, and <<"data", 2>> for data_2, whether an       *)
(* upload was named so or a collision made it so.                          *)
(***************************************************************************)
EXTENDS Naturals, Sequences, FiniteSets

CONSTANT Words      \* what file names and header cells are made of

Name == Seq(Words \cup Nat)

Suffixed(name, k) == Append(name, k)

\* candidate = name; while candidate in used: candidate = name_2, name_3, ...
FirstFree(name, used) ==
    IF name \notin used THEN name
    ELSE LET k == CHOOSE n \in 2 .. Cardinality(used) + 2 :
                     /\ Suffixed(name, n) \notin used
                     /\ \A m \in 2 .. n - 1 : Suffixed(name, m) \in used
         IN  Suffixed(name, k)
=============================================================================
