--------------------------- MODULE MCProxyTransport ----------------------------
(* Small instances of ProxyTransport for TLC. *)
EXTENDS ProxyTransport, TLC

CONSTANTS a, b, f, m1, m2, new

NoSnapshots == { <<>> }

\* Two endpoints, one of which lacks a method, and a later scan that lost one.
TwoSnapshots == { << [url |-> a, methods |-> {m1, m2}], [url |-> b, methods |-> {m1}] >>,
                  << [url |-> b, methods |-> {m1, m2}] >> }

OneSnapshot == { << [url |-> a, methods |-> {m1}] >> }

OneFailover  == <<f>>
NoFailovers  == <<>>

\* With two windows to the hour 4 an hour is 2 a window, 6 is 3, and 1 is 0.
HourlyLimits == [x \in {f} |-> 4]
HigherLimits == [x \in {f} |-> 6]
LowLimit     == [x \in {f} |-> 1]
Unlimited    == [x \in {f} |-> 0]
NoLimits     == [x \in {} |-> 0]

Symmetry == Permutations(Threads)
================================================================================
