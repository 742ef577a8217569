--------------------------- MODULE MCLocationTree ---------------------------
(***************************************************************************)
(* LocationTree with model values for TLC.                                  *)
(***************************************************************************)
EXTENDS LocationTree, TLC

\* Workers, uuids and codes are interchangeable: nothing orders or names one.
Symmetry == Permutations(Worker) \cup Permutations(Id) \cup Permutations(Code)
=============================================================================
