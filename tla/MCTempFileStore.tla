-------------------------- MODULE MCTempFileStore --------------------------
(* Small instances of TempFileStore for TLC.                               *)
EXTENDS TempFileStore, TLC

CONSTANTS i1, i2, c1, c2, c3, c4

CallSymmetry == Permutations(Calls) \cup Permutations(Ids)
============================================================================
