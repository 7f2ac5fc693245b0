------------------------------- MODULE ScanStore --------------------------------
(***************************************************************************)
(* What the scanner writes into SQLite, and what the proxy and the scanner *)
(* api may read of it at any time (internal/scanner/adapters/solana,       *)
(* internal/scanner/scaners/nmap, internal/pkg/storage/sqlite).            *)
(*                                                                         *)
(* A scan of a peer writes each method in a statement of its own, then the *)
(* flags of the peer, then, if it is dead, deletes its methods.  Each      *)
(* statement may fail, the context may be canceled and the process may     *)
(* crash between any two of them; readers run in other processes.          *)
(*                                                                         *)
(* One scan of a peer follows the other by an hour.  Two of them overlap   *)
(* only when a worker is held up that long, which the whois connection of  *)
(* GetNewNodes, without a deadline, may do.                                *)
(*                                                                         *)
(* Left out is what is only copied: address, version, public key, scheme,  *)
(* response times and the validator flag.                                  *)
(***************************************************************************)
EXTENDS Integers, FiniteSets

CONSTANTS
    Peers,          \* ip and port of the nodes there are
    KnownPeers,     \* those the migrations insert
    Methods,        \* the table rpc_methods
    GetVersion,     \* the method that needs no check of its own
    NoPeer,         \* a worker's peer between two tasks
    Workers,        \* scan goroutines
    MaxRounds,      \* bound: rounds of scans, restarts included
    Slots,          \* slots a node may answer with
    SlotSpace,      \* 2^64
    OutdatedSlotShift

ASSUME StoreAssumption ==
    /\ KnownPeers \subseteq Peers /\ GetVersion \in Methods /\ NoPeer \notin Peers
    /\ MaxRounds \in Nat \ {0}
    /\ SlotSpace \in Nat /\ Slots \subseteq 1 .. SlotSpace - 1
    /\ OutdatedSlotShift \in 0 .. SlotSpace - 1

VARIABLES
    listed, alive, rpc, mainNet, outdated, \* the peers that have a row, and each flag
    support,    \* rpc_peers_methods: the methods of each peer
    canceled,   \* has the scanner's context been canceled?
    scanStart,  \* a.scanStartTime, as the number of the round
    fetched,    \* has the scheduler the peers of the round?
    left,       \* the peers of the round that are still to be sent
    snapAlive, snapMainNet, \* flags of the peers when the round got them
    wpc,        \* where each worker is
    peer,       \* the peer it has at hand
    oldMainNet, \* task.peer.IsMainNet, from the round's snapshot
    fresh,      \* nodes that insertData has yet to insert
    todo,       \* methods that are still to be checked
    valid,      \* methods that were found valid
    verdict,    \* what the node turned out to be
    pending,    \* flags that CheckOutdatedNodes has yet to write
    lone,       \* history: has no other scan of the worker's peer overlapped?
    untested,   \* history: peers with the migration's row or with overlapping scans,
                \* and no whole lone scan since
    last,       \* history: what the latest whole scan found
    measured,   \* history: what the latest check of the slot says of the flag
    recorded,   \* history: peers with a ClickHouse record of the present round
    replaced,   \* history: has a record replaced one with the same key?
    late        \* history: has a worker been busy when the next round began?

rowVars == <<listed, alive, rpc, mainNet, outdated, support>>
roundVars == <<scanStart, fetched, left, snapAlive, snapMainNet>>
workerVars == <<wpc, peer, oldMainNet, fresh, todo, valid, verdict, lone>>
checkVars == <<pending, measured>>
recordVars == <<recorded, replaced>>
vars == <<rowVars, canceled, roundVars, workerVars, checkVars, untested, last,
          recordVars, late>>

NothingKnown == [known |-> FALSE, alive |-> FALSE, mainNet |-> FALSE, methods |-> {}]
Found(a, m, ms) == [known |-> TRUE, alive |-> a, mainNet |-> m, methods |-> ms]

Flag(set, p, b) == IF b THEN set \cup {p} ELSE set \ {p}

\* The migrations insert a first peer as alive, and none of its methods.  The
\* scheduler begins with GetPeers, before anything has been found.
Init ==
    /\ listed = KnownPeers /\ mainNet = KnownPeers
    /\ alive = KnownPeers /\ rpc = KnownPeers /\ outdated = {}
    /\ support = [p \in Peers |-> {}]
    /\ canceled = FALSE
    /\ scanStart = 1 /\ fetched = TRUE
    /\ left = KnownPeers /\ snapAlive = KnownPeers /\ snapMainNet = KnownPeers
    /\ wpc = [w \in Workers |-> "idle"] /\ peer = [w \in Workers |-> NoPeer]
    /\ oldMainNet = [w \in Workers |-> FALSE]
    /\ fresh = [w \in Workers |-> {}]
    /\ todo = [w \in Workers |-> {}] /\ valid = [w \in Workers |-> {}]
    /\ verdict = [w \in Workers |-> "dead"]
    /\ lone = [w \in Workers |-> TRUE]
    /\ pending = {} /\ measured = [p \in Peers |-> "never"]
    /\ untested = KnownPeers /\ last = [p \in Peers |-> NothingKnown]
    /\ recorded = {} /\ replaced = FALSE /\ late = FALSE

--------------------------------------------------------------------------------
(* Rounds, as far as the rows are concerned: ScanScheduler has the rest. *)

\* A statement succeeds only while the context is not done.
DbMayWork == ~canceled

\* The rows end early, without an error, when reading them fails.
GetPeers ==
    /\ DbMayWork /\ ~fetched /\ fetched' = TRUE
    /\ \E ps \in SUBSET listed :
         left' = ps /\ snapAlive' = alive \cap ps /\ snapMainNet' = mainNet \cap ps
    /\ UNCHANGED <<rowVars, canceled, scanStart, workerVars, checkVars, untested,
                   last, recordVars, late>>

Busy(w) == wpc[w] # "idle"

\* BeforeRun takes the time of the round when nothing can fail any more.
SameStartTime ==   \* slip: the records of all rounds get the same time
    /\ ~canceled /\ fetched /\ left = {} /\ scanStart < MaxRounds
    /\ scanStart' = scanStart + 1 /\ fetched' = FALSE
    /\ late' = (late \/ \E w \in Workers : Busy(w))
    /\ UNCHANGED <<rowVars, canceled, left, snapAlive, snapMainNet, workerVars,
                   checkVars, untested, last, recordVars>>

BeforeRun ==
    /\ ~canceled /\ fetched /\ left = {} /\ scanStart < MaxRounds
    /\ scanStart' = scanStart + 1 /\ fetched' = FALSE
    /\ recorded' = {}
    /\ late' = (late \/ \E w \in Workers : Busy(w))
    /\ UNCHANGED <<rowVars, canceled, left, snapAlive, snapMainNet, workerVars,
                   checkVars, untested, last, replaced>>

\* A worker gets a peer with the flags of the snapshot, which tell GetNewNodes
\* whether the node is worth asking for others.
Take(w) ==
    /\ wpc[w] = "idle"
    /\ \E p \in left :
         /\ left' = left \ {p}
         /\ snapAlive' = snapAlive \ {p} /\ snapMainNet' = snapMainNet \ {p}
         /\ peer' = [peer EXCEPT ![w] = p]
         /\ oldMainNet' = [oldMainNet EXCEPT ![w] = p \in snapMainNet]
         /\ wpc' = [wpc EXCEPT ![w] = IF p \in snapAlive \cap snapMainNet THEN "nodes"
                                                                           ELSE "methods"]
    /\ UNCHANGED <<rowVars, canceled, scanStart, fetched, fresh, todo, valid, verdict,
                   lone, checkVars, untested, last, recordVars, late>>

--------------------------------------------------------------------------------
(* GetNewNodes. *)

\* One of the calls fails, or there is nothing new.
SkipNewNodes(w) ==
    /\ wpc[w] = "nodes" /\ wpc' = [wpc EXCEPT ![w] = "methods"]
    /\ UNCHANGED <<rowVars, canceled, roundVars, peer, oldMainNet, fresh,
                   todo, valid, verdict, lone, checkVars, untested, last, recordVars, late>>

\* getNodes, filterAndUpdateNodes, which reads the peers there are, and whois.
FindNewNodes(w) ==
    /\ wpc[w] = "nodes" /\ DbMayWork
    /\ \E ps \in SUBSET (Peers \ listed) :
         /\ ps # {}
         /\ fresh' = [fresh EXCEPT ![w] = ps]
    /\ wpc' = [wpc EXCEPT ![w] = "insert"]
    /\ UNCHANGED <<rowVars, canceled, roundVars, peer, oldMainNet, todo,
                   valid, verdict, lone, checkVars, untested, last, recordVars, late>>

\* GetOrCreatePeer: a row that has appeared in the meantime is left alone; two
\* inserts at once end in an error of the later one (the unique index).
ReplaceRow(p, main) ==   \* slip: insert or replace
    /\ DbMayWork
    /\ listed' = listed \cup {p}
    /\ alive' = alive \ {p} /\ rpc' = rpc \ {p} /\ mainNet' = Flag(mainNet, p, main)
    /\ outdated' = outdated \ {p} /\ UNCHANGED support

GetOrCreatePeer(p, main) ==
    /\ DbMayWork
    /\ listed' = listed \cup {p}
    /\ mainNet' = IF p \in listed THEN mainNet ELSE Flag(mainNet, p, main)
    /\ UNCHANGED <<alive, rpc, outdated, support>>

InsertNode(w) ==
    /\ wpc[w] = "insert"
    /\ \E p \in fresh[w] :
         /\ GetOrCreatePeer(p, TRUE)
         /\ fresh' = [fresh EXCEPT ![w] = @ \ {p}]
         /\ wpc' = [wpc EXCEPT ![w] = IF fresh[w] = {p} THEN "methods" ELSE "insert"]
    /\ UNCHANGED <<canceled, roundVars, peer, oldMainNet, todo, valid,
                   verdict, lone, checkVars, untested, last, recordVars, late>>

InsertFails(w) ==
    /\ wpc[w] = "insert"
    /\ fresh' = [fresh EXCEPT ![w] = {}]
    /\ wpc' = [wpc EXCEPT ![w] = "methods"]
    /\ UNCHANGED <<rowVars, canceled, roundVars, peer, oldMainNet, todo,
                   valid, verdict, lone, checkVars, untested, last, recordVars, late>>

\* ScanAndInsertPorts of an nmap goroutine.
InsertPort ==
    /\ \E p \in Peers : GetOrCreatePeer(p, FALSE)
    /\ UNCHANGED <<canceled, roundVars, workerVars, checkVars, untested, last,
                   recordVars, late>>

--------------------------------------------------------------------------------
(* ScanMethods. *)

Scanning(w) == wpc[w] \in {"probe", "check", "update", "delete"}
Scans(p) == {w \in Workers : Scanning(w) /\ peer[w] = p}

\* GetRpcMethodsMapByBlockchainID.
ReadMethods(w) ==
    /\ wpc[w] = "methods" /\ DbMayWork
    /\ wpc' = [wpc EXCEPT ![w] = "probe"]
    /\ lone' = [v \in Workers |-> IF v = w THEN Scans(peer[w]) = {}
                                  ELSE lone[v] /\ v \notin Scans(peer[w])]
    /\ untested' = Flag(untested, peer[w], peer[w] \in untested \/ Scans(peer[w]) # {})
    /\ last' = [last EXCEPT ![peer[w]] = IF Scans(peer[w]) = {} THEN @ ELSE NothingKnown]
    /\ UNCHANGED <<rowVars, canceled, roundVars, peer, oldMainNet, fresh,
                   todo, valid, verdict, checkVars, recordVars, late>>

\* The worker is idle again; its variables are out of scope.
Idle(w) ==
    /\ wpc' = [wpc EXCEPT ![w] = "idle"]
    /\ peer' = [peer EXCEPT ![w] = NoPeer]
    /\ oldMainNet' = [oldMainNet EXCEPT ![w] = FALSE]
    /\ todo' = [todo EXCEPT ![w] = {}] /\ valid' = [valid EXCEPT ![w] = {}]
    /\ verdict' = [verdict EXCEPT ![w] = "dead"]
    /\ lone' = [lone EXCEPT ![w] = TRUE]
    /\ UNCHANGED fresh

\* An error before the first write: GetRpcMethodsMapByBlockchainID or, although
\* the node answers, GetGenesisHash.
GiveUpScan(w) ==
    /\ wpc[w] \in {"methods", "probe"} /\ Idle(w)
    /\ UNCHANGED <<rowVars, canceled, roundVars, checkVars, untested, last,
                   recordVars, late>>

\* getValidRpc and GetGenesisHash.  A canceled context looks like a dead node.
ProbeAndMark(w) ==   \* slip: a node of the main net is marked as alive at once
    /\ wpc[w] = "probe" /\ DbMayWork
    /\ \E v \in {"dead", "other net", "main net"} :
         /\ verdict' = [verdict EXCEPT ![w] = v]
         /\ todo' = [todo EXCEPT ![w] = IF v = "main net" THEN Methods ELSE {}]
         /\ wpc' = [wpc EXCEPT ![w] = IF v = "main net" THEN "check" ELSE "update"]
         /\ alive' = IF v = "main net" THEN alive \cup {peer[w]} ELSE alive
    /\ UNCHANGED <<listed, rpc, mainNet, outdated, support, canceled, roundVars,
                   peer, oldMainNet, fresh, valid, lone, checkVars, untested,
                   last, recordVars, late>>

Probe(w) ==
    /\ wpc[w] = "probe"
    /\ \E v \in IF canceled THEN {"dead"} ELSE {"dead", "other net", "main net"} :
         /\ verdict' = [verdict EXCEPT ![w] = v]
         /\ todo' = [todo EXCEPT ![w] = IF v = "main net" THEN Methods ELSE {}]
         /\ wpc' = [wpc EXCEPT ![w] = IF v = "main net" THEN "check" ELSE "update"]
    /\ UNCHANGED <<rowVars, canceled, roundVars, peer, oldMainNet, fresh,
                   valid, lone, checkVars, untested, last, recordVars, late>>

\* The outcomes checkRpcMethod has: getVersion has answered in getValidRpc.
Results(m) == IF m = GetVersion THEN {TRUE} ELSE IF canceled THEN {FALSE} ELSE BOOLEAN

\* checkRpcMethod and the write of its result; a check touches no shared state.
CheckAgain(w) ==   \* slip: the method stays among those to check
    /\ wpc[w] = "check" /\ DbMayWork
    /\ \E m \in todo[w], ok \in BOOLEAN :
         /\ ok \in Results(m)
         /\ support' = [support EXCEPT ![peer[w]] = Flag(@, m, ok)]
         /\ valid' = [valid EXCEPT ![w] = Flag(@, m, ok)]
         /\ wpc' = [wpc EXCEPT ![w] = IF todo[w] = {m} THEN "update" ELSE "check"]
    /\ UNCHANGED <<listed, alive, rpc, mainNet, outdated, canceled, roundVars, peer,
                   oldMainNet, fresh, todo, verdict, lone, checkVars, untested,
                   last, recordVars, late>>

CheckMethod(w) ==
    /\ wpc[w] = "check" /\ DbMayWork
    /\ \E m \in todo[w], ok \in BOOLEAN :
         /\ ok \in Results(m)
         /\ support' = [support EXCEPT ![peer[w]] = Flag(@, m, ok)]
         /\ valid' = [valid EXCEPT ![w] = Flag(@, m, ok)]
         /\ todo' = [todo EXCEPT ![w] = @ \ {m}]
         /\ wpc' = [wpc EXCEPT ![w] = IF todo[w] = {m} THEN "update" ELSE "check"]
    /\ UNCHANGED <<listed, alive, rpc, mainNet, outdated, canceled, roundVars, peer,
                   oldMainNet, fresh, verdict, lone, checkVars, untested, last,
                   recordVars, late>>

\* A write fails: ScanMethods returns, and what it has written stays.
WriteFails(w) ==
    /\ wpc[w] \in {"check", "delete"} /\ Idle(w)
    /\ last' = [last EXCEPT ![peer[w]] = NothingKnown]
    /\ UNCHANGED <<rowVars, canceled, roundVars, checkVars, untested, recordVars,
                   late>>

\* scannerPeersCollector.Add: records with the same key, which is the start of the
\* round and the peer, replace each other.
AddRecord(w) ==
    /\ recorded' = recorded \cup {peer[w]}
    /\ replaced' = (replaced \/ peer[w] \in recorded)

\* The end of a scan that has written all it had to.
ScanIsWhole(w, found) ==
    /\ Idle(w)
    /\ last' = [last EXCEPT ![peer[w]] = IF lone[w] THEN found ELSE NothingKnown]
    /\ untested' = IF lone[w] THEN untested \ {peer[w]} ELSE untested

\* updatePeerInfo: the record first, then the flags, the methods last.  A dead
\* node keeps what the snapshot says of its net.
NewMainNet(w) == IF verdict[w] = "dead" THEN oldMainNet[w] ELSE verdict[w] = "main net"

UpdateWholeRow(w) ==   \* slip: the statement sets prs_is_outdated, too
    /\ alive' = Flag(alive, peer[w], verdict[w] = "main net")
    /\ rpc' = Flag(rpc, peer[w], verdict[w] = "main net" /\ valid[w] = Methods)
    /\ mainNet' = Flag(mainNet, peer[w], NewMainNet(w))
    /\ outdated' = outdated \ {peer[w]}
    /\ UNCHANGED <<listed, support>>

UpdatePeerByID(w) ==
    /\ alive' = Flag(alive, peer[w], verdict[w] = "main net")
    /\ rpc' = Flag(rpc, peer[w], verdict[w] = "main net" /\ valid[w] = Methods)
    /\ mainNet' = Flag(mainNet, peer[w], NewMainNet(w))
    /\ UNCHANGED <<listed, outdated, support>>

UpdatePeerInfo(w) ==
    /\ wpc[w] = "update" /\ DbMayWork
    /\ AddRecord(w) /\ UpdatePeerByID(w)
    /\ IF verdict[w] = "main net"
       THEN ScanIsWhole(w, Found(TRUE, TRUE, valid[w]))
       ELSE /\ wpc' = [wpc EXCEPT ![w] = "delete"]
            /\ UNCHANGED <<peer, oldMainNet, fresh, todo, valid, verdict,
                           lone, untested, last>>
    /\ UNCHANGED <<canceled, roundVars, checkVars, late>>

\* The record has gone to the collector by then.
UpdateFails(w) ==
    /\ wpc[w] = "update" /\ AddRecord(w) /\ Idle(w)
    /\ last' = [last EXCEPT ![peer[w]] = NothingKnown]
    /\ UNCHANGED <<rowVars, canceled, roundVars, checkVars, untested, late>>

\* DeleteRpcPeerMethod of all methods, after the row says that the peer is dead.
DeleteMethods(w) ==
    /\ wpc[w] = "delete" /\ DbMayWork
    /\ support' = [support EXCEPT ![peer[w]] = {}]
    /\ ScanIsWhole(w, Found(FALSE, NewMainNet(w), {}))
    /\ UNCHANGED <<listed, alive, rpc, mainNet, outdated, canceled, roundVars,
                   checkVars, recordVars, late>>

--------------------------------------------------------------------------------
(* CheckOutdatedNodes. *)

\* The subtraction of uint64 values wraps.
Minus(a, b) == IF b <= a THEN a - b ELSE a - b + SlotSpace
IsOutdated(slot, highest) == slot < Minus(highest, OutdatedSlotShift)

\* GetPeers and GetSlot of each; 0 stands for no answer.
GetSlots ==
    /\ DbMayWork /\ pending = {}
    /\ \E slot \in [alive \cap mainNet -> Slots \cup {0}], highest \in Slots :
         LET answered == {p \in alive \cap mainNet : slot[p] # 0}
         IN /\ \E p \in answered : slot[p] = highest
            /\ \A p \in answered : slot[p] <= highest
            /\ pending' = {p \in answered : (p \in outdated) # IsOutdated(slot[p], highest)}
            /\ measured' = [p \in Peers |->
                  IF p \notin answered THEN measured[p]
                  ELSE IF \/ highest < OutdatedSlotShift
                          \/ slot[p] + OutdatedSlotShift < highest
                       THEN "lags" ELSE "keeps up"]
    /\ UNCHANGED <<rowVars, canceled, roundVars, workerVars, untested, last,
                   recordVars, late>>

\* UpdatePeerIsOutdated.
WriteOutdated ==
    /\ DbMayWork
    /\ \E p \in pending : /\ outdated' = Flag(outdated, p, p \notin outdated)
                          /\ pending' = pending \ {p}
    /\ UNCHANGED <<listed, alive, rpc, mainNet, support, canceled, roundVars,
                   workerVars, measured, untested, last, recordVars, late>>

WriteOutdatedFails ==
    /\ \E p \in pending : /\ pending' = pending \ {p}
                          /\ measured' = [measured EXCEPT ![p] = "never"]
    /\ UNCHANGED <<rowVars, canceled, roundVars, workerVars, untested, last,
                   recordVars, late>>

--------------------------------------------------------------------------------
(* The process. *)

Cancel ==
    /\ ~canceled /\ canceled' = TRUE
    /\ UNCHANGED <<rowVars, roundVars, workerVars, checkVars, untested, last,
                   recordVars, late>>

\* The process ends at any step, after a signal or a log.Fatalf, and is started
\* again; nobody writes in between.  NewSolanaAdapter calls BeforeRun.
Restart ==
    /\ scanStart < MaxRounds /\ scanStart' = scanStart + 1
    /\ canceled' = FALSE /\ fetched' = FALSE /\ recorded' = {}
    /\ left' = {} /\ snapAlive' = {} /\ snapMainNet' = {}
    /\ wpc' = [w \in Workers |-> "idle"] /\ peer' = [w \in Workers |-> NoPeer]
    /\ oldMainNet' = [w \in Workers |-> FALSE]
    /\ fresh' = [w \in Workers |-> {}]
    /\ todo' = [w \in Workers |-> {}] /\ valid' = [w \in Workers |-> {}]
    /\ verdict' = [w \in Workers |-> "dead"] /\ lone' = [w \in Workers |-> TRUE]
    /\ last' = [p \in Peers |-> IF Scans(p) = {} THEN last[p] ELSE NothingKnown]
    /\ pending' = {}
    /\ measured' = [p \in Peers |-> IF p \in pending THEN "never" ELSE measured[p]]
    /\ UNCHANGED <<rowVars, untested, replaced, late>>

--------------------------------------------------------------------------------
WorkerStep(w) ==
    \/ Take(w) \/ SkipNewNodes(w) \/ FindNewNodes(w) \/ InsertNode(w) \/ InsertFails(w)
    \/ ReadMethods(w) \/ GiveUpScan(w) \/ Probe(w) \/ CheckMethod(w) \/ WriteFails(w)
    \/ UpdatePeerInfo(w) \/ UpdateFails(w) \/ DeleteMethods(w)

Next ==
    \/ \E w \in Workers : WorkerStep(w)
    \/ GetPeers \/ BeforeRun \/ InsertPort
    \/ GetSlots \/ WriteOutdated \/ WriteOutdatedFails
    \/ Cancel \/ Restart

Spec == Init /\ [][Next]_vars

--------------------------------------------------------------------------------
TypeOK ==
    /\ listed \subseteq Peers
    /\ alive \subseteq listed /\ rpc \subseteq listed
    /\ mainNet \subseteq listed /\ outdated \subseteq listed
    /\ support \in [Peers -> SUBSET Methods]
    /\ canceled \in BOOLEAN
    /\ scanStart \in 1 .. MaxRounds /\ fetched \in BOOLEAN
    /\ left \subseteq listed /\ snapAlive \subseteq left /\ snapMainNet \subseteq left
    /\ wpc \in [Workers -> {"idle", "nodes", "insert", "methods", "probe", "check",
                            "update", "delete"}]
    /\ peer \in [Workers -> listed \cup {NoPeer}]
    /\ \A w \in Workers : wpc[w] # "idle" => peer[w] \in listed
    /\ oldMainNet \in [Workers -> BOOLEAN]
    /\ fresh \in [Workers -> SUBSET Peers]
    /\ todo \in [Workers -> SUBSET Methods] /\ valid \in [Workers -> SUBSET Methods]
    /\ \A w \in Workers : /\ todo[w] \cap valid[w] = {}
                          /\ wpc[w] = "check" <=> todo[w] # {}
                          /\ wpc[w] \in {"idle", "nodes", "insert", "methods", "probe"} =>
                                valid[w] = {}
    /\ verdict \in [Workers -> {"dead", "other net", "main net"}]
    /\ lone \in [Workers -> BOOLEAN]
    /\ pending \subseteq listed
    /\ measured \in [Peers -> {"never", "keeps up", "lags"}]
    /\ untested \subseteq listed
    /\ last \in [Peers -> [known : BOOLEAN, alive : BOOLEAN, mainNet : BOOLEAN,
                           methods : SUBSET Methods]]
    /\ recorded \subseteq listed /\ replaced \in BOOLEAN
    /\ late \in BOOLEAN

\* What GetEndpoints returns to the proxy and the api (peers.go:133-151).
Visible == (alive \cap mainNet) \ outdated

\* Nobody ever reads an endpoint without methods, which the left join would turn
\* into one method without a name (peers.go:137-151): a scan adds methods before
\* the peer is alive, and takes the flag away before it deletes them.  Failing
\* statements, a canceled context and a crash between two of them do not change
\* that.  Two scans of the peer at the same time do, and so does the row of the
\* migration, until a whole scan of the peer alone (scan_methods.go:25-42, 76-111).
VisibleHasMethods == \A p \in Visible \ untested : GetVersion \in support[p]

\* Once a scan has ended, without an error and alone, the rows of its peer are
\* what it found, whatever inserts, checks of the slot and scans of other peers
\* came in between, and whatever an earlier scan left behind
\* (scan_methods.go:46-113, peers.go:62-81).
RowsAreAsFound ==
    \A p \in Peers : last[p].known /\ Scans(p) = {} =>
        /\ (p \in alive) = last[p].alive
        /\ (p \in rpc) = (last[p].alive /\ last[p].methods = Methods)
        /\ (p \in mainNet) = last[p].mainNet
        /\ support[p] = last[p].methods

\* In ClickHouse, the records of one scan never replace those of another, as their
\* key is the start of the round and the peer; unless a worker was late and has
\* put the next round's time on its record (scan_methods.go:14-20, solana.go:149,
\* build/clickhouse/init-db.sh).
RecordsAreKept == replaced => late

\* The flag of a peer whose slot was measured last says whether it lagged, and
\* no scan or insert in between changes it.  With a highest slot below 15 the
\* subtraction wraps and every peer is outdated (solana.go:205-227).
OutdatedAsMeasured ==
    \A p \in Peers \ pending :
        measured[p] # "never" => ((p \in outdated) <=> (measured[p] = "lags"))
================================================================================
