---------------------------- MODULE CollectorProofs ----------------------------
(***************************************************************************)
(* Proofs about Collector, for every set of records: the type invariant,   *)
(* that every record is in one place, and that the collector implements    *)
(* Delivery.  The two invariants are inductive together.                   *)
(***************************************************************************)
EXTENDS Collector, TLAPS

\* The inductive invariant.
IInv == TypeOK /\ Accounted

LEMMA InitIInv == Init => IInv
<1> SUFFICES ASSUME Init PROVE IInv
  OBVIOUS
<1>1. TypeOK
  BY DEF Init, TypeOK, Inserting
<1>2. Accounted
  BY DEF Init, Accounted, InDatabase
<1> QED BY <1>1, <1>2 DEF IInv

LEMMA StoredType == TypeOK /\ Stored => copies' \in [Records -> Nat]
<1> SUFFICES ASSUME TypeOK, Stored PROVE copies' \in [Records -> Nat]
  OBVIOUS
<1>1. copies \in [Records -> Nat]
  BY DEF TypeOK
<1>2. copies' = [r \in Records |-> IF r \in entries THEN copies[r] + 1 ELSE copies[r]]
  BY DEF Stored
<1> QED BY <1>1, <1>2

LEMMA NextTypeOK == TypeOK /\ [Next]_vars => TypeOK'
<1> SUFFICES ASSUME TypeOK, [Next]_vars PROVE TypeOK'
  OBVIOUS
<1> USE DEF TypeOK, Inserting
<1>1. ASSUME NEW r \in Records, Add(r) PROVE TypeOK'
  BY <1>1 DEF Add
<1>2. CASE FlushOnTimer
  BY <1>2 DEF FlushOnTimer, GetCachedEntries
<1>3. CASE FlushOnDone
  BY <1>3 DEF FlushOnDone, GetCachedEntries
<1>4. CASE InsertSucceeds
  <2>1. copies' \in [Records -> Nat]
    BY <1>4, StoredType DEF InsertSucceeds
  <2>2. cpc' \in {"select", "stopped"}
    BY <1>4 DEF InsertSucceeds, AfterInsert
  <2> QED BY <1>4, <2>1, <2>2 DEF InsertSucceeds
<1>5. CASE InsertFails
  <2>1. copies' \in [Records -> Nat]
    BY <1>5, StoredType DEF InsertFails
  <2>2. cpc' \in {"select", "stopped"}
    BY <1>5 DEF InsertFails, AfterInsert
  <2>3. lost' \subseteq Records
    BY <1>5 DEF InsertFails
  <2> QED BY <1>5, <2>1, <2>2, <2>3 DEF InsertFails
<1>6. CASE Cancel
  BY <1>6 DEF Cancel
<1>7. CASE Exit
  <2>1. copies' \in [Records -> Nat]
    BY <1>7, StoredType DEF Exit
  <2>2. lost' \subseteq Records
    BY <1>7 DEF Exit
  <2> QED BY <1>7, <2>1, <2>2 DEF Exit
<1>8. CASE UNCHANGED vars
  BY <1>8 DEF vars
<1> QED BY <1>1, <1>2, <1>3, <1>4, <1>5, <1>6, <1>7, <1>8 DEF Next

\* When the batch reaches the database every copy in it is the first.
LEMMA FirstCopies ==
    ASSUME IInv, Stored
    PROVE  /\ \A r \in Records : copies'[r] <= 1
           /\ InDatabase' = InDatabase \cup entries
<1>1. \A r \in Records : copies'[r] = IF r \in entries THEN copies[r] + 1 ELSE copies[r]
  BY DEF Stored
<1>2. \A r \in Records : copies[r] \in Nat /\ copies[r] <= 1
  BY DEF IInv, TypeOK, Accounted
<1>3. entries \subseteq Records
  BY DEF IInv, TypeOK
<1>4. ASSUME NEW r \in entries PROVE copies[r] = 0
  <2>1. ~(copies[r] > 0)
    BY <1>3 DEF IInv, Accounted, InDatabase
  <2> QED BY <1>2, <1>3, <2>1
<1>5. \A r \in Records : copies'[r] > 0 <=> r \in entries \/ copies[r] > 0
  BY <1>1, <1>4, <1>2
<1> QED BY <1>1, <1>4, <1>2, <1>3, <1>5 DEF InDatabase

LEMMA NextAccounted == IInv /\ [Next]_vars => Accounted'
<1> SUFFICES ASSUME IInv, [Next]_vars PROVE Accounted'
  OBVIOUS
<1>0. copies' = copies => InDatabase' = InDatabase
  BY DEF InDatabase
<1> USE DEF Accounted
<1>1. ASSUME NEW r \in Records, Add(r) PROVE Accounted'
  BY <1>0, <1>1 DEF Add, IInv
<1>2. CASE FlushOnTimer
  <2>1. entries = {}
    BY <1>2 DEF FlushOnTimer, IInv, TypeOK, Inserting
  <2> QED BY <1>0, <1>2, <2>1 DEF FlushOnTimer, GetCachedEntries, IInv
<1>3. CASE FlushOnDone
  <2>1. entries = {}
    BY <1>3 DEF FlushOnDone, IInv, TypeOK, Inserting
  <2> QED BY <1>0, <1>3, <2>1 DEF FlushOnDone, GetCachedEntries, IInv
<1>4. CASE InsertSucceeds
  BY <1>4, FirstCopies DEF InsertSucceeds, IInv
<1>5. CASE InsertFails
  <2>1. CASE Stored /\ UNCHANGED lost
    BY <1>5, <2>1, FirstCopies DEF InsertFails, IInv
  <2>2. CASE lost' = lost \cup entries /\ UNCHANGED copies
    BY <1>0, <1>5, <2>2 DEF InsertFails, IInv
  <2> QED BY <1>5, <2>1, <2>2 DEF InsertFails
<1>6. CASE Cancel
  BY <1>0, <1>6 DEF Cancel, IInv
<1>7. CASE Exit
  <2>1. CASE Stored /\ lost' = lost \cup cache
    BY <1>7, <2>1, FirstCopies DEF Exit, IInv
  <2>2. CASE UNCHANGED copies /\ lost' = lost \cup cache \cup entries
    BY <1>0, <1>7, <2>2 DEF Exit, IInv
  <2> QED BY <1>7, <2>1, <2>2 DEF Exit
<1>8. CASE UNCHANGED vars
  BY <1>0, <1>8 DEF vars, IInv
<1> QED BY <1>1, <1>2, <1>3, <1>4, <1>5, <1>6, <1>7, <1>8 DEF Next

LEMMA Invariant == Spec => []IInv
<1>1. IInv /\ [Next]_vars => IInv'
  BY NextTypeOK, NextAccounted DEF IInv
<1> QED BY InitIInv, <1>1, PTL DEF Spec

\* Types, and the goroutine never inserts an empty batch.
THEOREM CollectorTypeCorrect == Spec => []TypeOK
<1>1. IInv => TypeOK
  BY DEF IInv
<1> QED BY Invariant, <1>1, PTL

\* Every record that was added is in one place and never stored twice.
THEOREM EveryRecordAccounted == Spec => []Accounted
<1>1. IInv => Accounted
  BY DEF IInv
<1> QED BY Invariant, <1>1, PTL

--------------------------------------------------------------------------------
(***************************************************************************)
(* The refinement.  A record's fate says where it is and the other way     *)
(* round, before and after a step; so each step is the step of Delivery    *)
(* that settles the records which change places.                           *)
(***************************************************************************)
LEMMA FatePlaces ==
    ASSUME IInv, NEW r \in Records
    PROVE  /\ FateOf(r) = "stored"  <=> r \in InDatabase
           /\ FateOf(r) = "lost"    <=> r \in lost
           /\ FateOf(r) = "pending" <=> r \in cache \cup entries
           /\ FateOf(r) = "new"     <=> r \notin added
<1>1. copies[r] \in {0, 1}
  <2>1. copies[r] \in Nat
    BY DEF IInv, TypeOK
  <2>2. copies[r] <= 1
    BY DEF IInv, Accounted
  <2> QED BY <2>1, <2>2
<1>2. r \in InDatabase <=> copies[r] = 1
  BY <1>1 DEF InDatabase
<1> QED BY <1>1, <1>2 DEF FateOf, IInv, Accounted

LEMMA FatePlacesAfter ==
    ASSUME IInv', NEW r \in Records
    PROVE  /\ FateOf(r)' = "stored"  <=> r \in InDatabase'
           /\ FateOf(r)' = "lost"    <=> r \in lost'
           /\ FateOf(r)' = "pending" <=> r \in cache' \cup entries'
           /\ FateOf(r)' = "new"     <=> r \notin added'
<1>1. copies'[r] \in {0, 1}
  <2>1. copies'[r] \in Nat
    BY DEF IInv, TypeOK
  <2>2. copies'[r] <= 1
    BY DEF IInv, Accounted
  <2> QED BY <2>1, <2>2
<1>2. r \in InDatabase' <=> copies'[r] = 1
  BY <1>1 DEF InDatabase
<1> QED BY <1>1, <1>2 DEF FateOf, IInv, Accounted

\* A record is somewhere.
LEMMA FateKnown ==
    ASSUME IInv, NEW r \in Records
    PROVE  FateOf(r) \in {"new", "pending", "stored", "lost"}
<1>1. copies[r] \in {0, 1}
  <2>1. copies[r] \in Nat
    BY DEF IInv, TypeOK
  <2>2. copies[r] <= 1
    BY DEF IInv, Accounted
  <2> QED BY <2>1, <2>2
<1> QED BY <1>1 DEF FateOf

LEMMA FateKnownAfter ==
    ASSUME IInv', NEW r \in Records
    PROVE  FateOf(r)' \in {"new", "pending", "stored", "lost"}
<1>1. copies'[r] \in {0, 1}
  <2>1. copies'[r] \in Nat
    BY DEF IInv, TypeOK
  <2>2. copies'[r] <= 1
    BY DEF IInv, Accounted
  <2> QED BY <2>1, <2>2
<1> QED BY <1>1 DEF FateOf

LEMMA RefineInit == Init => D!DeliveryInit
<1> SUFFICES ASSUME Init PROVE D!DeliveryInit
  OBVIOUS
<1>1. \A r \in Records : FateOf(r) = "new"
  BY DEF Init, FateOf
<1> QED BY <1>1 DEF Init, D!DeliveryInit

\* A step that adds nothing and takes records from the batch and the cache.
LEMMA RefineSettle ==
    ASSUME IInv, IInv', added' = added,
           NEW stored \in SUBSET Records, NEW gone \in SUBSET Records,
           stored \cup gone \subseteq cache \cup entries, stored \cap gone = {},
           InDatabase' = InDatabase \cup stored, lost' = lost \cup gone,
           chStorage' = chStorage, failed => failed', running' => running,
           gone # {} => failed' \/ ~running'
    PROVE  D!Settle(stored, gone)
<1>1. stored \cup gone \subseteq D!Pending
  BY FatePlaces DEF D!Pending
<1>2. ASSUME NEW r \in Records
      PROVE  FateOf(r)' = IF r \in stored THEN "stored"
                          ELSE IF r \in gone THEN "lost" ELSE FateOf(r)
  <2>1. CASE r \in stored
    BY <2>1, FatePlacesAfter
  <2>2. CASE r \in gone
    BY <2>2, FatePlacesAfter
  <2>3. CASE r \notin stored /\ r \notin gone
    BY <2>3, FatePlaces, FatePlacesAfter, FateKnown, FateKnownAfter
  <2> QED BY <2>1, <2>2, <2>3
<1>3. [r \in Records |-> FateOf(r)]'
        = [r \in Records |-> IF r \in stored THEN "stored"
                             ELSE IF r \in gone THEN "lost"
                             ELSE [x \in Records |-> FateOf(x)][r]]
  BY <1>2
<1> QED BY <1>1, <1>3 DEF D!Settle

LEMMA RefineNext == IInv /\ IInv' /\ [Next]_vars => [D!DeliveryNext]_(D!deliveryVars)
<1> SUFFICES ASSUME IInv, IInv', [Next]_vars
             PROVE  D!DeliveryNext \/ UNCHANGED D!deliveryVars
  OBVIOUS
<1>0. copies' = copies => InDatabase' = InDatabase
  BY DEF InDatabase
<1>1. ASSUME NEW r \in Records, Add(r) PROVE D!DeliveryNext
  <2>1. \A x \in Records \ {r} : FateOf(x)' = FateOf(x)
    BY <1>1 DEF Add, FateOf
  <2>2. FateOf(r) = "new"
    BY <1>1, FatePlaces DEF Add
  <2>3. CASE chStorage
    <3>1. FateOf(r)' = "pending"
      BY <1>1, <2>3, FatePlacesAfter DEF Add
    <3>2. D!Accept(r)
      BY <1>1, <2>1, <2>2, <3>1 DEF D!Accept, D!Become, Add
    <3> QED BY <3>2 DEF D!DeliveryNext
  <2>4. CASE ~chStorage
    <3>1. FateOf(r)' = "lost"
      BY <1>1, <2>4, FatePlacesAfter DEF Add
    <3>2. D!Reject(r)
      BY <1>1, <2>1, <2>2, <2>4, <3>1 DEF D!Reject, D!Become, Add
    <3> QED BY <3>2 DEF D!DeliveryNext
  <2> QED BY <2>3, <2>4 DEF IInv, TypeOK
<1>2. ASSUME D!Settle({}, {}) \/ D!Settle(entries, {}) \/ D!Settle({}, entries)
             \/ D!Settle(entries, cache) \/ D!Settle({}, cache \cup entries)
      PROVE  D!DeliveryNext
  BY <1>2 DEF D!DeliveryNext, IInv, TypeOK
<1>3. CASE FlushOnTimer \/ FlushOnDone \/ Cancel \/ UNCHANGED vars
  <2>1. /\ added' = added /\ copies' = copies /\ lost' = lost
        /\ chStorage' = chStorage /\ failed' = failed /\ running' = running
    BY <1>3 DEF FlushOnTimer, FlushOnDone, Cancel, vars
  <2>2. D!Settle({}, {})
    BY <1>0, <2>1, RefineSettle
  <2> QED BY <1>2, <2>2
<1>4. CASE InsertSucceeds
  <2>1. D!Settle(entries, {})
    BY <1>4, FirstCopies, RefineSettle DEF InsertSucceeds, IInv, TypeOK
  <2> QED BY <1>2, <2>1
<1>5. CASE InsertFails
  <2>1. CASE Stored /\ UNCHANGED lost
    <3>1. D!Settle(entries, {})
      BY <1>5, <2>1, FirstCopies, RefineSettle DEF InsertFails, IInv, TypeOK
    <3> QED BY <1>2, <3>1
  <2>2. CASE lost' = lost \cup entries /\ UNCHANGED copies
    <3>1. D!Settle({}, entries)
      BY <1>0, <1>5, <2>2, RefineSettle DEF InsertFails, IInv, TypeOK
    <3> QED BY <1>2, <3>1
  <2> QED BY <1>5, <2>1, <2>2 DEF InsertFails
<1>6. CASE Exit
  <2>0. /\ added' = added /\ chStorage' = chStorage /\ failed' = failed
        /\ ~running'
    BY <1>6 DEF Exit
  <2>1. CASE Stored /\ lost' = lost \cup cache
    <3>1. /\ entries \in SUBSET Records /\ cache \in SUBSET Records
          /\ entries \cap cache = {}
      BY DEF IInv, TypeOK, Accounted
    <3>2. InDatabase' = InDatabase \cup entries
      BY <2>1, FirstCopies
    <3>3. D!Settle(entries, cache)
      BY <2>0, <2>1, <3>1, <3>2, RefineSettle
    <3> QED BY <1>2, <3>3
  <2>2. CASE UNCHANGED copies /\ lost' = lost \cup cache \cup entries
    <3>1. cache \cup entries \in SUBSET Records
      BY DEF IInv, TypeOK
    <3>2. lost' = lost \cup (cache \cup entries)
      BY <2>2
    <3>3. D!Settle({}, cache \cup entries)
      BY <1>0, <2>0, <2>2, <3>1, <3>2, RefineSettle
    <3> QED BY <1>2, <3>3
  <2> QED BY <1>6, <2>1, <2>2 DEF Exit
<1> QED BY <1>1, <1>3, <1>4, <1>5, <1>6 DEF Next

\* The collector delivers what it accepts: at most once, finally, and without
\* losing a record before an insert failed or the process ended.
THEOREM CollectorImplementsDelivery == Spec => Implements
<1>1. IInv /\ IInv' /\ [Next]_vars => [D!DeliveryNext]_(D!deliveryVars)
  BY RefineNext
<1> QED BY RefineInit, Invariant, <1>1, PTL DEF Spec, Implements, D!DeliverySpec
================================================================================
