-------------------------------- MODULE Delivery -------------------------------
(***************************************************************************)
(* What the delayed insertion into ClickHouse promises to those who add    *)
(* records to it: a record that was accepted is stored once, or lost, and  *)
(* that is final; and no record is lost before something has gone wrong.   *)
(***************************************************************************)
CONSTANT Records

VARIABLES fate,   \* what has become of each record
          fault   \* has anything gone wrong that may cost records?

deliveryVars == <<fate, fault>>

Fates == {"new", "pending", "stored", "lost"}

DeliveryInit ==
    /\ fate = [r \in Records |-> "new"]
    /\ fault \in BOOLEAN

Become(rs, f) == fate' = [r \in Records |-> IF r \in rs THEN f ELSE fate[r]]
Pending == {r \in Records : fate[r] = "pending"}

Accept(r) ==
    /\ fate[r] = "new" /\ Become({r}, "pending")
    /\ UNCHANGED fault

Reject(r) ==
    /\ fate[r] = "new" /\ Become({r}, "lost") /\ fault
    /\ UNCHANGED fault

\* Some pending records reach the database; others may be lost with a fault.
Settle(stored, lost) ==
    /\ stored \cup lost \subseteq Pending /\ stored \cap lost = {}
    /\ fate' = [r \in Records |-> IF r \in stored THEN "stored"
                                  ELSE IF r \in lost THEN "lost" ELSE fate[r]]
    /\ fault => fault'
    /\ lost # {} => fault'
    /\ fault' \in BOOLEAN

DeliveryNext ==
    \/ \E r \in Records : Accept(r) \/ Reject(r)
    \/ \E stored, lost \in SUBSET Records : Settle(stored, lost)

DeliverySpec == DeliveryInit /\ [][DeliveryNext]_deliveryVars
================================================================================
