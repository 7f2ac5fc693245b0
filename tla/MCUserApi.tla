------------------------------- MODULE MCUserApi --------------------------------
(* A small instance of UserApi for TLC. *)
EXTENDS UserApi, TLC

CONSTANTS r1, r2, r3, u1, u2

\* Two first requests of one user, and one of another.
MCSender == [r \in {r1, r2} |-> u1] @@ [r \in {r3} |-> u2]
================================================================================
