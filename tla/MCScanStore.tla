------------------------------ MODULE MCScanStore -------------------------------
(* A small instance of ScanStore for TLC. *)
EXTENDS ScanStore, TLC

CONSTANTS w1, w2

WorkerSymmetry == Permutations({w1, w2})
================================================================================
