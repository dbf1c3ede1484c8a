--------------------------- MODULE MCWriteRecovery ---------------------------
(***************************************************************************)
(* WriteRecovery for TLC: files and the texts of the calls are             *)
(* interchangeable.                                                        *)
(***************************************************************************)
EXTENDS WriteRecovery, TLC

Symmetry == Permutations(File) \union Permutations(Text)
============================================================================
