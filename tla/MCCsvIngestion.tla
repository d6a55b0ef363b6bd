--------------------------- MODULE MCCsvIngestion ---------------------------
(***************************************************************************)
(* Instances of CsvIngestion for TLC.  Three files whose names meet:       *)
(* Data.csv and data.csv have one stem, data_2.csv is what a suffix makes. *)
(***************************************************************************)
EXTENDS CsvIngestion, TLC

CONSTANTS u1, u2, r1, data, upper, lower, second

OneUpload == {u1}
TwoUploads == {u1, u2}
OneReader == {r1}
NoReaders == {}

ThreeFiles == {upper, lower, second}
SomeWords == {data}
Stems == [f \in Filenames |-> IF f = second THEN <<data, 2>> ELSE <<data>>]

Upto(n, S) == UNION {[1 .. m -> S] : m \in 1 .. n}
AllBatches == Upto(2, File)

Symmetry == Permutations(Uploads)
=============================================================================
