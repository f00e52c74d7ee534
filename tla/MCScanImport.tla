---------------------------- MODULE MCScanImport ----------------------------
(***************************************************************************)
(* ScanImport for TLC: claims, workers and reclaim passes are               *)
(* interchangeable in the safety runs.                                     *)
(***************************************************************************)
EXTENDS ScanImport, TLC

Symmetry == Permutations(Tokens) \cup Permutations(Workers) \cup Permutations(Sweepers)

=============================================================================
