------------------------- MODULE MCProjectRecords -------------------------
(* One project and three uploads, the last two of which hold the same bytes.*)
(* Analyses are interchangeable.                                            *)
EXTENDS ProjectRecords, TLC

CONSTANTS f1, d1, d2

MCDigest == [f \in Files |-> IF f = f1 THEN d1 ELSE d2]

RecordSymmetry == Permutations(Jobs)
=============================================================================
