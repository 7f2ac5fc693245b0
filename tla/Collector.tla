------------------------------- MODULE Collector -------------------------------
(***************************************************************************)
(* The delayed insertion of records into ClickHouse (type Collector of     *)
(* internal/pkg/storage/clickhouse/delayed_insertion).  The goroutines of  *)
(* the proxy and the scanner add records to a cache; the collector's own   *)
(* goroutine takes the whole cache every flushInterval, and once more when *)
(* the context is canceled, and inserts it as one batch.  Nobody waits for *)
(* that goroutine when the process ends.                                   *)
(*                                                                         *)
(* The mutex makes Add and getCachedEntries atomic.  ClickHouse may report *)
(* an error for a batch that it did not store, and for one that it did.    *)
(***************************************************************************)
EXTENDS Integers, FiniteSets

CONSTANT Records   \* the records there are to add, each added once

VARIABLES
    chStorage, \* is there a ClickHouse storage (chStorage # nil)?
    canceled,  \* has the context been canceled?
    running,   \* does the process run?
    cache,     \* c.cache
    entries,   \* what flushData took from the cache
    cpc,       \* where the collector's goroutine is
    added,     \* history: the records that Add was called with
    copies,    \* how often the database holds each record
    lost,      \* history: the records that are nowhere any more
    failed     \* history: has an insert reported an error?

vars == <<chStorage, canceled, running, cache, entries, cpc, added, copies, lost, failed>>

\* New starts the goroutine only when there is a storage.
Init ==
    /\ chStorage \in BOOLEAN
    /\ canceled = FALSE /\ running = TRUE
    /\ cache = {} /\ entries = {}
    /\ cpc = IF chStorage THEN "select" ELSE "none"
    /\ added = {}
    /\ copies = [r \in Records |-> 0]
    /\ lost = {} /\ failed = FALSE

AddUnlessDone(r) ==   \* slip: a record that comes after the signal is refused
    /\ running /\ r \in Records \ added
    /\ added' = added \cup {r}
    /\ IF chStorage /\ ~canceled THEN cache' = cache \cup {r} /\ UNCHANGED lost
                                 ELSE lost' = lost \cup {r} /\ UNCHANGED cache
    /\ UNCHANGED <<chStorage, canceled, running, entries, cpc, copies, failed>>

Add(r) ==
    /\ running /\ r \in Records \ added
    /\ added' = added \cup {r}
    /\ IF chStorage THEN cache' = cache \cup {r} /\ UNCHANGED lost
                    ELSE lost' = lost \cup {r} /\ UNCHANGED cache
    /\ UNCHANGED <<chStorage, canceled, running, entries, cpc, copies, failed>>

\* getCachedEntries: an empty cache ends flushData at once.
GetCachedEntries(next) ==
    /\ cache # {}
    /\ entries' = cache /\ cache' = {}
    /\ cpc' = next

FlushEmpty ==   \* slip: the length is not looked at
    /\ running /\ cpc = "select"
    /\ entries' = cache /\ cache' = {} /\ cpc' = "insert"
    /\ UNCHANGED <<chStorage, canceled, running, added, copies, lost, failed>>

FlushOnTimer ==
    /\ running /\ cpc = "select"
    /\ GetCachedEntries("insert")
    /\ UNCHANGED <<chStorage, canceled, running, added, copies, lost, failed>>

FlushOnDone ==
    /\ running /\ canceled /\ cpc = "select"
    /\ \/ GetCachedEntries("last insert")
       \/ cache = {} /\ cpc' = "stopped" /\ UNCHANGED <<cache, entries>>
    /\ UNCHANGED <<chStorage, canceled, running, added, copies, lost, failed>>

\* Where the goroutine goes after an insert: an error is logged, no more.
ReturnOnError == IF failed' \/ cpc = "last insert" THEN "stopped" ELSE "select"   \* slip

AfterInsert == IF cpc = "insert" THEN "select" ELSE "stopped"

Stored == copies' = [r \in Records |-> IF r \in entries THEN copies[r] + 1 ELSE copies[r]]

InsertSucceeds ==
    /\ running /\ cpc \in {"insert", "last insert"}
    /\ Stored
    /\ failed' = failed
    /\ entries' = {} /\ cpc' = AfterInsert
    /\ UNCHANGED <<chStorage, canceled, running, cache, added, lost>>

\* The batch is dropped, whether the database holds it or not.
RetryEntries ==   \* slip: after an error the batch goes back into the cache
    /\ running /\ cpc \in {"insert", "last insert"}
    /\ Stored \/ UNCHANGED copies
    /\ failed' = TRUE
    /\ cache' = cache \cup entries
    /\ entries' = {} /\ cpc' = AfterInsert
    /\ UNCHANGED <<chStorage, canceled, running, added, lost>>

InsertFails ==
    /\ running /\ cpc \in {"insert", "last insert"}
    /\ \/ Stored /\ UNCHANGED lost
       \/ lost' = lost \cup entries /\ UNCHANGED copies
    /\ failed' = TRUE
    /\ entries' = {} /\ cpc' = AfterInsert
    /\ UNCHANGED <<chStorage, canceled, running, cache, added>>

Cancel ==
    /\ running /\ ~canceled /\ canceled' = TRUE
    /\ UNCHANGED <<chStorage, running, cache, entries, cpc, added, copies, lost, failed>>

\* The process ends, after a signal or by a log.Fatalf elsewhere.  A batch that
\* is on its way may still arrive.
Exit ==
    /\ running /\ running' = FALSE
    /\ \/ Stored /\ lost' = lost \cup cache
       \/ UNCHANGED copies /\ lost' = lost \cup cache \cup entries
    /\ cache' = {} /\ entries' = {} /\ cpc' = "none"
    /\ UNCHANGED <<chStorage, canceled, added, failed>>

Next ==
    \/ \E r \in Records : Add(r)
    \/ FlushOnTimer \/ FlushOnDone \/ InsertSucceeds \/ InsertFails
    \/ Cancel \/ Exit

Spec == Init /\ [][Next]_vars

\* Fairness: the timer fires, and an insert returns.
Fairness ==
    /\ WF_vars(FlushOnTimer \/ FlushOnDone)
    /\ WF_vars(InsertSucceeds \/ InsertFails)

LiveSpec == Spec /\ Fairness

--------------------------------------------------------------------------------
\* Types, and what the goroutine's place says of the batch: it only inserts
\* batches that hold something (delayed_insertion.go:132-135).
Inserting == cpc \in {"insert", "last insert"}

TypeOK ==
    /\ chStorage \in BOOLEAN /\ canceled \in BOOLEAN /\ running \in BOOLEAN
    /\ cache \subseteq Records /\ entries \subseteq Records
    /\ cpc \in {"none", "select", "insert", "last insert", "stopped"}
    /\ (entries # {}) <=> Inserting
    /\ added \subseteq Records /\ lost \subseteq Records
    /\ copies \in [Records -> Nat]
    /\ failed \in BOOLEAN

\* Every record that was added is in one place: the cache, the batch on its way,
\* the database, where it is once, or nowhere.  So no batch is inserted again,
\* although an insert that reports an error may have stored it, and no Add falls
\* between the cache that is taken and the one that is new
\* (delayed_insertion.go:127-162, util.go:3-19).
InDatabase == {r \in Records : copies[r] > 0}
Accounted ==
    /\ \A r \in Records : copies[r] <= 1
    /\ added = cache \cup entries \cup InDatabase \cup lost
    /\ cache \cap entries = {} /\ cache \cap InDatabase = {} /\ cache \cap lost = {}
    /\ entries \cap InDatabase = {} /\ entries \cap lost = {}
    /\ InDatabase \cap lost = {}

\* A record that is in the cache before the last flush is stored, or lost with
\* its batch or the process, whatever the batches before it came to.
EventuallySettled ==
    \A r \in Records :
        (r \in cache /\ cpc \in {"select", "insert"}) ~> (copies[r] > 0 \/ r \in lost)

\* The collector implements Delivery: a record's fate is where it is now, and
\* what may cost records is a missing storage, a failed insert or a stop.
FateOf(r) ==
    IF copies[r] > 1 THEN "stored twice"
    ELSE IF copies[r] = 1 THEN "stored"
    ELSE IF r \in lost THEN "lost"
    ELSE IF r \in added THEN "pending" ELSE "new"

D == INSTANCE Delivery WITH
        fate  <- [r \in Records |-> FateOf(r)],
        fault <- ~chStorage \/ failed \/ ~running

Implements == D!DeliverySpec
================================================================================
