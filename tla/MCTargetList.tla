----------------------------- MODULE MCTargetList ------------------------------
(* Small instances of TargetList for TLC. *)
EXTENDS TargetList

CONSTANTS a, b, c, d, m1

Entry(u) == [url |-> u, methods |-> {m1}]

\* Snapshots of the database: full and partial ones in several orders, and the
\* empty one that stands for a database error.
MCSnapshots == { <<>>,
                 <<Entry(a), Entry(b), Entry(c), Entry(d)>>,
                 <<Entry(d), Entry(b)>>,
                 <<Entry(c), Entry(a)>> }
================================================================================
