---------------------------- MODULE MCScanScheduler ----------------------------
(* A small instance of ScanScheduler for TLC. *)
EXTENDS ScanScheduler

CONSTANTS p1, p2, p3

\* Two peers share an ip.
MCHost == [p \in {p1, p2, p3} |-> IF p = p3 THEN "ip 2" ELSE "ip 1"]
================================================================================
