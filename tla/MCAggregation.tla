----------------------------- MODULE MCAggregation ------------------------------
(* A small instance of Aggregation, and of the Collector in it, for TLC. *)
EXTENDS Aggregation, TLC

CONSTANTS r1, r2, r3, alice, bob, block, slot

MCUser == [r \in {r1, r2} |-> alice] @@ [r \in {r3} |-> bob]
MCRequestData == [r \in {r1} |-> block] @@ [r \in {r2, r3} |-> slot]
================================================================================
