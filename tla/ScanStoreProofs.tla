----------------------------- MODULE ScanStoreProofs ----------------------------
(***************************************************************************)
(* ScanStore keeps its types and its four properties for every set of      *)
(* peers, methods and workers, every number of rounds and every slot.      *)
(*                                                                         *)
(* Four arguments, each inductive on its own or on top of the ones before: *)
(*   Rounds   while no worker is late, a peer is in one place of a round:  *)
(*            still to be sent, with one worker, or recorded;              *)
(*   Flags    a flag lags behind its measurement exactly while the write   *)
(*            is pending;                                                  *)
(*   Overlaps a scan that is marked lone has its peer to itself, and the   *)
(*            peer of one that is not is marked untested;                  *)
(*   Scanned  so a lone scan finds in the rows what it has written so far, *)
(*            from which AliveHas and AsFound follow at its end.           *)
(***************************************************************************)
EXTENDS ScanStore, TLAPS

USE DEF rowVars, roundVars, workerVars, checkVars, recordVars

Labels == {"idle", "nodes", "insert", "methods", "probe", "check", "update", "delete"}
Verdicts == {"dead", "other net", "main net"}
Findings == [known : BOOLEAN, alive : BOOLEAN, mainNet : BOOLEAN, methods : SUBSET Methods]

TRows ==
    /\ listed \subseteq Peers
    /\ alive \subseteq listed /\ rpc \subseteq listed
    /\ mainNet \subseteq listed /\ outdated \subseteq listed
    /\ support \in [Peers -> SUBSET Methods]
TRound ==
    /\ canceled \in BOOLEAN /\ scanStart \in 1 .. MaxRounds /\ fetched \in BOOLEAN
    /\ left \subseteq listed /\ snapAlive \subseteq left /\ snapMainNet \subseteq left
    /\ late \in BOOLEAN
TWorkers ==
    /\ wpc \in [Workers -> Labels]
    /\ peer \in [Workers -> listed \cup {NoPeer}]
    /\ \A w \in Workers : wpc[w] # "idle" => peer[w] \in listed
    /\ oldMainNet \in [Workers -> BOOLEAN]
    /\ fresh \in [Workers -> SUBSET Peers]
    /\ verdict \in [Workers -> Verdicts] /\ lone \in [Workers -> BOOLEAN]
TChecks ==
    /\ todo \in [Workers -> SUBSET Methods] /\ valid \in [Workers -> SUBSET Methods]
    /\ \A w \in Workers : /\ todo[w] \cap valid[w] = {}
                          /\ wpc[w] = "check" <=> todo[w] # {}
                          /\ wpc[w] \in {"idle", "nodes", "insert", "methods", "probe"} =>
                                valid[w] = {}
TRest ==
    /\ pending \subseteq listed
    /\ measured \in [Peers -> {"never", "keeps up", "lags"}]
    /\ untested \subseteq listed /\ last \in [Peers -> Findings]
    /\ recorded \subseteq listed /\ replaced \in BOOLEAN
Types == TRows /\ TRound /\ TWorkers /\ TChecks /\ TRest

--------------------------------------------------------------------------------
(* Types. *)

LEMMA TRowsNext ==
    ASSUME Types, [Next]_vars
    PROVE  TRows'
<1> USE StoreAssumption DEF Types, TRows, TRound, TWorkers, TChecks, TRest, Flag,
                            Found, NothingKnown, Labels, Verdicts, Findings
<1>1. ASSUME NEW w \in Workers, Take(w)
      PROVE  TRows'
  BY <1>1 DEF Take
<1>2. ASSUME NEW w \in Workers, SkipNewNodes(w)
      PROVE  TRows'
  BY <1>2 DEF SkipNewNodes
<1>3. ASSUME NEW w \in Workers, FindNewNodes(w)
      PROVE  TRows'
  BY <1>3 DEF FindNewNodes
<1>4. ASSUME NEW w \in Workers, InsertNode(w)
      PROVE  TRows'
  <2>1. PICK p \in fresh[w] : GetOrCreatePeer(p, TRUE)
    BY <1>4 DEF InsertNode
  <2>2. p \in Peers
    BY <2>1
  <2> QED
    BY <2>1, <2>2 DEF GetOrCreatePeer
<1>5. ASSUME NEW w \in Workers, InsertFails(w)
      PROVE  TRows'
  BY <1>5 DEF InsertFails
<1>6. ASSUME NEW w \in Workers, ReadMethods(w)
      PROVE  TRows'
  BY <1>6 DEF ReadMethods, Scans, Scanning
<1>7. ASSUME NEW w \in Workers, GiveUpScan(w)
      PROVE  TRows'
  BY <1>7 DEF GiveUpScan, Idle
<1>8. ASSUME NEW w \in Workers, Probe(w)
      PROVE  TRows'
  BY <1>8 DEF Probe
<1>9. ASSUME NEW w \in Workers, CheckMethod(w)
      PROVE  TRows'
  <2>1. PICK m \in todo[w], ok \in BOOLEAN :
          support' = [support EXCEPT ![peer[w]] = Flag(@, m, ok)]
    BY <1>9 DEF CheckMethod
  <2>2. UNCHANGED <<listed, alive, rpc, mainNet, outdated>>
    BY <1>9 DEF CheckMethod
  <2>3. m \in Methods /\ wpc[w] # "idle"
    BY <1>9 DEF CheckMethod
  <2>4. peer[w] \in Peers /\ Flag(support[peer[w]], m, ok) \subseteq Methods
    BY <2>3
  <2> QED
    BY <2>1, <2>2, <2>4
<1>10. ASSUME NEW w \in Workers, WriteFails(w)
      PROVE  TRows'
  BY <1>10 DEF WriteFails, Idle
<1>11. ASSUME NEW w \in Workers, UpdatePeerInfo(w)
      PROVE  TRows'
  <2>1. UpdatePeerByID(w) /\ wpc[w] # "idle"
    BY <1>11 DEF UpdatePeerInfo
  <2>2. peer[w] \in listed
    BY <2>1
  <2> QED
    BY <2>1, <2>2 DEF UpdatePeerByID
<1>12. ASSUME NEW w \in Workers, UpdateFails(w)
      PROVE  TRows'
  BY <1>12 DEF UpdateFails, AddRecord, Idle
<1>13. ASSUME NEW w \in Workers, DeleteMethods(w)
      PROVE  TRows'
  BY <1>13 DEF DeleteMethods, ScanIsWhole, Idle, NewMainNet
<1>14. CASE GetPeers
  BY <1>14 DEF GetPeers
<1>15. CASE BeforeRun
  BY <1>15 DEF BeforeRun
<1>16. CASE InsertPort
  BY <1>16 DEF InsertPort, GetOrCreatePeer
<1>17. CASE GetSlots
  BY <1>17 DEF GetSlots
<1>18. CASE WriteOutdated
  BY <1>18 DEF WriteOutdated
<1>19. CASE WriteOutdatedFails
  BY <1>19 DEF WriteOutdatedFails
<1>20. CASE Cancel
  BY <1>20 DEF Cancel
<1>21. CASE Restart
  BY <1>21 DEF Restart
<1>22. CASE UNCHANGED vars
  BY <1>22 DEF vars
<1> QED
  BY <1>1, <1>2, <1>3, <1>4, <1>5, <1>6, <1>7, <1>8, <1>9, <1>10, <1>11, <1>12, <1>13,
   <1>14, <1>15, <1>16, <1>17, <1>18, <1>19, <1>20, <1>21, <1>22
     DEF Next, WorkerStep

LEMMA TRoundNext ==
    ASSUME Types, [Next]_vars
    PROVE  TRound'
<1> USE StoreAssumption DEF Types, TRows, TRound, TWorkers, TChecks, TRest, Flag,
                            Found, NothingKnown, Labels, Verdicts, Findings
<1>1. ASSUME NEW w \in Workers, Take(w)
      PROVE  TRound'
  BY <1>1 DEF Take
<1>2. ASSUME NEW w \in Workers, SkipNewNodes(w)
      PROVE  TRound'
  BY <1>2 DEF SkipNewNodes
<1>3. ASSUME NEW w \in Workers, FindNewNodes(w)
      PROVE  TRound'
  BY <1>3 DEF FindNewNodes
<1>4. ASSUME NEW w \in Workers, InsertNode(w)
      PROVE  TRound'
  BY <1>4 DEF InsertNode, GetOrCreatePeer
<1>5. ASSUME NEW w \in Workers, InsertFails(w)
      PROVE  TRound'
  BY <1>5 DEF InsertFails
<1>6. ASSUME NEW w \in Workers, ReadMethods(w)
      PROVE  TRound'
  BY <1>6 DEF ReadMethods, Scans, Scanning
<1>7. ASSUME NEW w \in Workers, GiveUpScan(w)
      PROVE  TRound'
  BY <1>7 DEF GiveUpScan, Idle
<1>8. ASSUME NEW w \in Workers, Probe(w)
      PROVE  TRound'
  BY <1>8 DEF Probe
<1>9. ASSUME NEW w \in Workers, CheckMethod(w)
      PROVE  TRound'
  BY <1>9 DEF CheckMethod, Results
<1>10. ASSUME NEW w \in Workers, WriteFails(w)
      PROVE  TRound'
  BY <1>10 DEF WriteFails, Idle
<1>11. ASSUME NEW w \in Workers, UpdatePeerInfo(w)
      PROVE  TRound'
  BY <1>11 DEF UpdatePeerInfo, AddRecord, UpdatePeerByID, ScanIsWhole, Idle, NewMainNet
<1>12. ASSUME NEW w \in Workers, UpdateFails(w)
      PROVE  TRound'
  BY <1>12 DEF UpdateFails, AddRecord, Idle
<1>13. ASSUME NEW w \in Workers, DeleteMethods(w)
      PROVE  TRound'
  BY <1>13 DEF DeleteMethods, ScanIsWhole, Idle, NewMainNet
<1>14. CASE GetPeers
  BY <1>14 DEF GetPeers
<1>15. CASE BeforeRun
  <2>1. scanStart \in 1 .. MaxRounds /\ MaxRounds \in Nat
    OBVIOUS
  <2>2. scanStart < MaxRounds /\ scanStart' = scanStart + 1
    BY <1>15 DEF BeforeRun
  <2>3. scanStart' \in 1 .. MaxRounds
    <3> HIDE StoreAssumption DEF Types
    <3> QED
      BY <2>1, <2>2
  <2>4. fetched' \in BOOLEAN /\ late' \in BOOLEAN /\ UNCHANGED <<listed, canceled, left,
                                                             snapAlive, snapMainNet>>
    BY <1>15 DEF BeforeRun
  <2> QED
    BY <2>3, <2>4
<1>16. CASE InsertPort
  BY <1>16 DEF InsertPort, GetOrCreatePeer
<1>17. CASE GetSlots
  BY <1>17 DEF GetSlots
<1>18. CASE WriteOutdated
  BY <1>18 DEF WriteOutdated
<1>19. CASE WriteOutdatedFails
  BY <1>19 DEF WriteOutdatedFails
<1>20. CASE Cancel
  BY <1>20 DEF Cancel
<1>21. CASE Restart
  <2>1. scanStart \in 1 .. MaxRounds /\ MaxRounds \in Nat
    OBVIOUS
  <2>2. scanStart < MaxRounds /\ scanStart' = scanStart + 1
    BY <1>21 DEF Restart
  <2>3. scanStart' \in 1 .. MaxRounds
    <3> HIDE StoreAssumption DEF Types
    <3> QED
      BY <2>1, <2>2
  <2>4. /\ fetched' \in BOOLEAN /\ canceled' \in BOOLEAN /\ UNCHANGED <<listed, late>>
        /\ left' = {} /\ snapAlive' = {} /\ snapMainNet' = {}
    BY <1>21 DEF Restart
  <2> QED
    BY <2>3, <2>4
<1>22. CASE UNCHANGED vars
  BY <1>22 DEF vars
<1> QED
  BY <1>1, <1>2, <1>3, <1>4, <1>5, <1>6, <1>7, <1>8, <1>9, <1>10, <1>11, <1>12, <1>13,
   <1>14, <1>15, <1>16, <1>17, <1>18, <1>19, <1>20, <1>21, <1>22
     DEF Next, WorkerStep

LEMMA TWorkersNext ==
    ASSUME Types, [Next]_vars
    PROVE  TWorkers'
<1> USE StoreAssumption DEF Types, TRows, TRound, TWorkers, TChecks, TRest, Flag,
                            Found, NothingKnown, Labels, Verdicts, Findings
<1>1. ASSUME NEW w \in Workers, Take(w)
      PROVE  TWorkers'
  <2>1. PICK p \in left :
          /\ peer' = [peer EXCEPT ![w] = p]
          /\ oldMainNet' = [oldMainNet EXCEPT ![w] = p \in snapMainNet]
          /\ wpc' = [wpc EXCEPT ![w] = IF p \in snapAlive \cap snapMainNet
                                       THEN "nodes" ELSE "methods"]
    BY <1>1 DEF Take
  <2>2. UNCHANGED <<listed, fresh, verdict, lone>>
    BY <1>1 DEF Take
  <2>3. wpc' \in [Workers -> Labels]
    BY <2>1
  <2>4. oldMainNet' \in [Workers -> BOOLEAN]
    <3>1. oldMainNet \in [Workers -> BOOLEAN]
      OBVIOUS
    <3> HIDE StoreAssumption DEF Types
    <3>2. \/ oldMainNet' = [oldMainNet EXCEPT ![w] = TRUE]
          \/ oldMainNet' = [oldMainNet EXCEPT ![w] = FALSE]
      <4>1. CASE p \in snapMainNet
        BY <2>1, <4>1
      <4>2. CASE p \notin snapMainNet
        <5>1. (p \in snapMainNet) = FALSE
          BY <4>2
        <5> HIDE <4>2
        <5>2. oldMainNet' = [oldMainNet EXCEPT ![w] = p \in snapMainNet]
          BY <2>1
        <5> QED
          BY <5>1, <5>2, Zenon
      <4> QED
        BY <4>1, <4>2
    <3> QED
      BY <3>1, <3>2
  <2>6. peer' \in [Workers -> listed \cup {NoPeer}]
    <3>1. p \in listed
      BY <2>1
    <3> QED
      BY <2>1, <3>1
  <2>5. \A v \in Workers : wpc'[v] # "idle" => peer'[v] \in listed
    BY <2>1
  <2> QED
    BY <2>2, <2>3, <2>4, <2>5, <2>6
<1>2. ASSUME NEW w \in Workers, SkipNewNodes(w)
      PROVE  TWorkers'
  BY <1>2 DEF SkipNewNodes
<1>3. ASSUME NEW w \in Workers, FindNewNodes(w)
      PROVE  TWorkers'
  <2>1. PICK ps \in SUBSET (Peers \ listed) : fresh' = [fresh EXCEPT ![w] = ps]
    BY <1>3 DEF FindNewNodes
  <2>2. fresh' \in [Workers -> SUBSET Peers]
    BY <2>1
  <2>3. /\ wpc' = [wpc EXCEPT ![w] = "insert"] /\ wpc[w] = "nodes"
        /\ UNCHANGED <<listed, peer, oldMainNet, verdict, lone>>
    BY <1>3 DEF FindNewNodes
  <2>4. wpc' \in [Workers -> Labels]
    BY <2>3
  <2>5. \A v \in Workers : wpc'[v] # "idle" => peer'[v] \in listed
    BY <2>3
  <2> QED
    BY <2>2, <2>3, <2>4, <2>5
<1>4. ASSUME NEW w \in Workers, InsertNode(w)
      PROVE  TWorkers'
  <2>1. PICK p \in fresh[w] :
          /\ listed' = listed \cup {p}
          /\ fresh' = [fresh EXCEPT ![w] = @ \ {p}]
          /\ wpc' = [wpc EXCEPT ![w] = IF fresh[w] = {p} THEN "methods" ELSE "insert"]
    BY <1>4 DEF InsertNode, GetOrCreatePeer
  <2>2. wpc[w] = "insert" /\ UNCHANGED <<peer, oldMainNet, verdict, lone>>
    BY <1>4 DEF InsertNode
  <2>3. fresh' \in [Workers -> SUBSET Peers]
    BY <2>1
  <2>4. wpc' \in [Workers -> Labels]
    BY <2>1
  <2>5. peer' \in [Workers -> listed' \cup {NoPeer}]
    BY <2>1, <2>2
  <2>6. \A v \in Workers : wpc'[v] # "idle" => peer'[v] \in listed'
    BY <2>1, <2>2
  <2> QED
    BY <2>2, <2>3, <2>4, <2>5, <2>6
<1>5. ASSUME NEW w \in Workers, InsertFails(w)
      PROVE  TWorkers'
  BY <1>5 DEF InsertFails
<1>6. ASSUME NEW w \in Workers, ReadMethods(w)
      PROVE  TWorkers'
  BY <1>6 DEF ReadMethods, Scans, Scanning
<1>7. ASSUME NEW w \in Workers, GiveUpScan(w)
      PROVE  TWorkers'
  BY <1>7 DEF GiveUpScan, Idle
<1>8. ASSUME NEW w \in Workers, Probe(w)
      PROVE  TWorkers'
  <2>1. PICK v \in Verdicts :
          /\ verdict' = [verdict EXCEPT ![w] = v]
          /\ wpc' = [wpc EXCEPT ![w] = IF v = "main net" THEN "check" ELSE "update"]
    BY <1>8 DEF Probe
  <2>2. wpc[w] = "probe" /\ UNCHANGED <<listed, peer, oldMainNet, fresh, lone>>
    BY <1>8 DEF Probe
  <2>3. verdict' \in [Workers -> Verdicts]
    BY <2>1
  <2>4. wpc' \in [Workers -> Labels]
    BY <2>1
  <2>5. \A u \in Workers : wpc'[u] # "idle" => peer'[u] \in listed
    BY <2>1, <2>2
  <2> QED
    BY <2>2, <2>3, <2>4, <2>5
<1>9. ASSUME NEW w \in Workers, CheckMethod(w)
      PROVE  TWorkers'
  BY <1>9 DEF CheckMethod, Results
<1>10. ASSUME NEW w \in Workers, WriteFails(w)
      PROVE  TWorkers'
  BY <1>10 DEF WriteFails, Idle
<1>11. ASSUME NEW w \in Workers, UpdatePeerInfo(w)
      PROVE  TWorkers'
  <2>1. wpc[w] = "update" /\ UNCHANGED listed
    BY <1>11 DEF UpdatePeerInfo, UpdatePeerByID
  <2>2. CASE Idle(w)
    BY <2>1, <2>2 DEF Idle
  <2>3. CASE /\ wpc' = [wpc EXCEPT ![w] = "delete"]
             /\ UNCHANGED <<peer, oldMainNet, fresh, verdict, lone>>
    BY <2>1, <2>3
  <2> QED
    BY <1>11, <2>2, <2>3 DEF UpdatePeerInfo, ScanIsWhole
<1>12. ASSUME NEW w \in Workers, UpdateFails(w)
      PROVE  TWorkers'
  BY <1>12 DEF UpdateFails, AddRecord, Idle
<1>13. ASSUME NEW w \in Workers, DeleteMethods(w)
      PROVE  TWorkers'
  BY <1>13 DEF DeleteMethods, ScanIsWhole, Idle, NewMainNet
<1>14. CASE GetPeers
  BY <1>14 DEF GetPeers
<1>15. CASE BeforeRun
  BY <1>15 DEF BeforeRun
<1>16. CASE InsertPort
  BY <1>16 DEF InsertPort, GetOrCreatePeer
<1>17. CASE GetSlots
  BY <1>17 DEF GetSlots
<1>18. CASE WriteOutdated
  BY <1>18 DEF WriteOutdated
<1>19. CASE WriteOutdatedFails
  BY <1>19 DEF WriteOutdatedFails
<1>20. CASE Cancel
  BY <1>20 DEF Cancel
<1>21. CASE Restart
  BY <1>21 DEF Restart
<1>22. CASE UNCHANGED vars
  BY <1>22 DEF vars
<1> QED
  BY <1>1, <1>2, <1>3, <1>4, <1>5, <1>6, <1>7, <1>8, <1>9, <1>10, <1>11, <1>12, <1>13,
   <1>14, <1>15, <1>16, <1>17, <1>18, <1>19, <1>20, <1>21, <1>22
     DEF Next, WorkerStep

LEMMA TChecksNext ==
    ASSUME Types, [Next]_vars
    PROVE  TChecks'
<1> USE StoreAssumption DEF Types, TRows, TRound, TWorkers, TChecks, TRest, Flag,
                            Found, NothingKnown, Labels, Verdicts, Findings
<1>1. ASSUME NEW w \in Workers, Take(w)
      PROVE  TChecks'
  BY <1>1 DEF Take
<1>2. ASSUME NEW w \in Workers, SkipNewNodes(w)
      PROVE  TChecks'
  BY <1>2 DEF SkipNewNodes
<1>3. ASSUME NEW w \in Workers, FindNewNodes(w)
      PROVE  TChecks'
  BY <1>3 DEF FindNewNodes
<1>4. ASSUME NEW w \in Workers, InsertNode(w)
      PROVE  TChecks'
  BY <1>4 DEF InsertNode, GetOrCreatePeer
<1>5. ASSUME NEW w \in Workers, InsertFails(w)
      PROVE  TChecks'
  BY <1>5 DEF InsertFails
<1>6. ASSUME NEW w \in Workers, ReadMethods(w)
      PROVE  TChecks'
  BY <1>6 DEF ReadMethods, Scans, Scanning
<1>7. ASSUME NEW w \in Workers, GiveUpScan(w)
      PROVE  TChecks'
  BY <1>7 DEF GiveUpScan, Idle
<1>8. ASSUME NEW w \in Workers, Probe(w)
      PROVE  TChecks'
  <2>1. PICK v \in Verdicts :
          /\ todo' = [todo EXCEPT ![w] = IF v = "main net" THEN Methods ELSE {}]
          /\ wpc' = [wpc EXCEPT ![w] = IF v = "main net" THEN "check" ELSE "update"]
    BY <1>8 DEF Probe
  <2>2. wpc[w] = "probe" /\ UNCHANGED valid /\ valid[w] = {} /\ Methods # {}
    BY <1>8 DEF Probe
  <2>3. todo' \in [Workers -> SUBSET Methods]
    BY <2>1
  <2>4. ASSUME NEW u \in Workers
        PROVE  /\ todo'[u] \cap valid[u] = {}
               /\ wpc'[u] = "check" <=> todo'[u] # {}
               /\ wpc'[u] \in {"idle", "nodes", "insert", "methods", "probe"} => valid[u] = {}
    <3>1. CASE u = w
      BY <2>1, <2>2, <3>1
    <3>2. CASE u # w
      BY <2>1, <3>2
    <3> QED
      BY <3>1, <3>2
  <2> QED
    BY <2>2, <2>3, <2>4
<1>9. ASSUME NEW w \in Workers, CheckMethod(w)
      PROVE  TChecks'
  <2>1. PICK m \in todo[w], ok \in BOOLEAN :
          /\ valid' = [valid EXCEPT ![w] = Flag(@, m, ok)]
          /\ todo' = [todo EXCEPT ![w] = @ \ {m}]
          /\ wpc' = [wpc EXCEPT ![w] = IF todo[w] = {m} THEN "update" ELSE "check"]
    BY <1>9 DEF CheckMethod
  <2>2. m \in Methods
    BY <2>1
  <2>3. todo' \in [Workers -> SUBSET Methods]
    BY <2>1
  <2>4. valid' \in [Workers -> SUBSET Methods]
    BY <2>1, <2>2
  <2>6. todo[w] # {} /\ (wpc[w] = "check" <=> todo[w] # {}) /\ todo[w] \cap valid[w] = {}
    BY <1>9 DEF CheckMethod
  <2>5. ASSUME NEW v \in Workers
        PROVE  /\ todo'[v] \cap valid'[v] = {}
               /\ wpc'[v] = "check" <=> todo'[v] # {}
               /\ wpc'[v] \in {"idle", "nodes", "insert", "methods", "probe"} => valid'[v] = {}
    <3>1. CASE v = w
      <4>1. todo'[w] = todo[w] \ {m} /\ valid'[w] = Flag(valid[w], m, ok)
        BY <2>1
      <4>2. wpc'[w] = IF todo[w] = {m} THEN "update" ELSE "check"
        BY <2>1
      <4> HIDE DEF Types
      <4> QED
        BY <4>1, <4>2, <2>1, <2>6, <3>1
    <3>2. CASE v # w
      BY <2>1, <3>2
    <3> QED
      BY <3>1, <3>2
  <2> QED
    BY <2>3, <2>4, <2>5
<1>10. ASSUME NEW w \in Workers, WriteFails(w)
      PROVE  TChecks'
  BY <1>10 DEF WriteFails, Idle
<1>11. ASSUME NEW w \in Workers, UpdatePeerInfo(w)
      PROVE  TChecks'
  <2>1. wpc[w] = "update"
    BY <1>11 DEF UpdatePeerInfo
  <2>2. CASE Idle(w)
    BY <2>1, <2>2 DEF Idle
  <2>3. CASE wpc' = [wpc EXCEPT ![w] = "delete"] /\ UNCHANGED <<todo, valid>>
    BY <2>1, <2>3
  <2> QED
    BY <1>11, <2>2, <2>3 DEF UpdatePeerInfo, ScanIsWhole
<1>12. ASSUME NEW w \in Workers, UpdateFails(w)
      PROVE  TChecks'
  BY <1>12 DEF UpdateFails, AddRecord, Idle
<1>13. ASSUME NEW w \in Workers, DeleteMethods(w)
      PROVE  TChecks'
  BY <1>13 DEF DeleteMethods, ScanIsWhole, Idle, NewMainNet
<1>14. CASE GetPeers
  BY <1>14 DEF GetPeers
<1>15. CASE BeforeRun
  BY <1>15 DEF BeforeRun
<1>16. CASE InsertPort
  BY <1>16 DEF InsertPort, GetOrCreatePeer
<1>17. CASE GetSlots
  BY <1>17 DEF GetSlots
<1>18. CASE WriteOutdated
  BY <1>18 DEF WriteOutdated
<1>19. CASE WriteOutdatedFails
  BY <1>19 DEF WriteOutdatedFails
<1>20. CASE Cancel
  BY <1>20 DEF Cancel
<1>21. CASE Restart
  BY <1>21 DEF Restart
<1>22. CASE UNCHANGED vars
  BY <1>22 DEF vars
<1> QED
  BY <1>1, <1>2, <1>3, <1>4, <1>5, <1>6, <1>7, <1>8, <1>9, <1>10, <1>11, <1>12, <1>13,
   <1>14, <1>15, <1>16, <1>17, <1>18, <1>19, <1>20, <1>21, <1>22
     DEF Next, WorkerStep

LEMMA TRestNext ==
    ASSUME Types, [Next]_vars
    PROVE  TRest'
<1> USE StoreAssumption DEF Types, TRows, TRound, TWorkers, TChecks, TRest, Flag,
                            Found, NothingKnown, Labels, Verdicts, Findings
<1>1. ASSUME NEW w \in Workers, Take(w)
      PROVE  TRest'
  BY <1>1 DEF Take
<1>2. ASSUME NEW w \in Workers, SkipNewNodes(w)
      PROVE  TRest'
  BY <1>2 DEF SkipNewNodes
<1>3. ASSUME NEW w \in Workers, FindNewNodes(w)
      PROVE  TRest'
  BY <1>3 DEF FindNewNodes
<1>4. ASSUME NEW w \in Workers, InsertNode(w)
      PROVE  TRest'
  BY <1>4 DEF InsertNode, GetOrCreatePeer
<1>5. ASSUME NEW w \in Workers, InsertFails(w)
      PROVE  TRest'
  BY <1>5 DEF InsertFails
<1>6. ASSUME NEW w \in Workers, ReadMethods(w)
      PROVE  TRest'
  <2>1. peer[w] \in listed
    BY <1>6 DEF ReadMethods
  <2>2. untested' \subseteq listed
    BY <1>6, <2>1 DEF ReadMethods
  <2>3. last' \in [Peers -> Findings]
    <3>1. NothingKnown \in Findings
      OBVIOUS
    <3> HIDE DEF NothingKnown, Findings
    <3> QED
      BY <1>6, <2>1, <3>1 DEF ReadMethods
  <2> QED
    BY <1>6, <2>2, <2>3 DEF ReadMethods
<1>7. ASSUME NEW w \in Workers, GiveUpScan(w)
      PROVE  TRest'
  BY <1>7 DEF GiveUpScan, Idle
<1>8. ASSUME NEW w \in Workers, Probe(w)
      PROVE  TRest'
  BY <1>8 DEF Probe
<1>9. ASSUME NEW w \in Workers, CheckMethod(w)
      PROVE  TRest'
  BY <1>9 DEF CheckMethod, Results
<1>10. ASSUME NEW w \in Workers, WriteFails(w)
      PROVE  TRest'
  BY <1>10 DEF WriteFails, Idle
<1>11. ASSUME NEW w \in Workers, UpdatePeerInfo(w)
      PROVE  TRest'
  <2>1. peer[w] \in listed /\ valid[w] \subseteq Methods
    BY <1>11 DEF UpdatePeerInfo
  <2>2. recorded' \subseteq listed /\ replaced' \in BOOLEAN
    BY <1>11, <2>1 DEF UpdatePeerInfo, AddRecord
  <2>3. UNCHANGED <<listed, pending, measured>>
    BY <1>11 DEF UpdatePeerInfo, UpdatePeerByID
  <2>4. untested' \subseteq listed
    BY <1>11, <2>1 DEF UpdatePeerInfo, ScanIsWhole
  <2>5. last' \in [Peers -> Findings]
    <3>1. NothingKnown \in Findings /\ Found(TRUE, TRUE, valid[w]) \in Findings
      BY <2>1
    <3>2. \/ UNCHANGED last
          \/ last' = [last EXCEPT ![peer[w]] = Found(TRUE, TRUE, valid[w])]
          \/ last' = [last EXCEPT ![peer[w]] = NothingKnown]
      <4> HIDE StoreAssumption DEF Types, Found, NothingKnown
      <4> QED
        BY <1>11 DEF UpdatePeerInfo, ScanIsWhole
    <3>3. last \in [Peers -> Findings]
      OBVIOUS
    <3> HIDE DEF NothingKnown, Findings, Found, Types
    <3> QED
      BY <2>1, <3>1, <3>2, <3>3
  <2> QED
    BY <2>2, <2>3, <2>4, <2>5
<1>12. ASSUME NEW w \in Workers, UpdateFails(w)
      PROVE  TRest'
  BY <1>12 DEF UpdateFails, AddRecord, Idle
<1>13. ASSUME NEW w \in Workers, DeleteMethods(w)
      PROVE  TRest'
  BY <1>13 DEF DeleteMethods, ScanIsWhole, Idle, NewMainNet
<1>14. CASE GetPeers
  BY <1>14 DEF GetPeers
<1>15. CASE BeforeRun
  BY <1>15 DEF BeforeRun
<1>16. CASE InsertPort
  BY <1>16 DEF InsertPort, GetOrCreatePeer
<1>17. CASE GetSlots
  <2>1. PICK slot \in [alive \cap mainNet -> Slots \cup {0}], highest \in Slots :
          LET answered == {p \in alive \cap mainNet : slot[p] # 0}
          IN  /\ pending' = {p \in answered :
                               (p \in outdated) # IsOutdated(slot[p], highest)}
              /\ measured' = [p \in Peers |->
                    IF p \notin answered THEN measured[p]
                    ELSE IF \/ highest < OutdatedSlotShift
                            \/ slot[p] + OutdatedSlotShift < highest
                         THEN "lags" ELSE "keeps up"]
    <3> HIDE StoreAssumption DEF Types
    <3> QED
      BY <1>17, Zenon DEF GetSlots
  <2>2. pending' \subseteq listed
    BY <2>1
  <2>3. measured' \in [Peers -> {"never", "keeps up", "lags"}]
    BY <2>1
  <2> QED
    BY <1>17, <2>2, <2>3 DEF GetSlots
<1>18. CASE WriteOutdated
  BY <1>18 DEF WriteOutdated
<1>19. CASE WriteOutdatedFails
  BY <1>19 DEF WriteOutdatedFails
<1>20. CASE Cancel
  BY <1>20 DEF Cancel
<1>21. CASE Restart
  BY <1>21 DEF Restart
<1>22. CASE UNCHANGED vars
  BY <1>22 DEF vars
<1> QED
  BY <1>1, <1>2, <1>3, <1>4, <1>5, <1>6, <1>7, <1>8, <1>9, <1>10, <1>11, <1>12, <1>13,
   <1>14, <1>15, <1>16, <1>17, <1>18, <1>19, <1>20, <1>21, <1>22
     DEF Next, WorkerStep

--------------------------------------------------------------------------------
(* The inductive invariant. *)

\* Before the flags of the peer are written.
Early(w) == wpc[w] \in {"nodes", "insert", "methods", "probe", "check", "update"}

\* A peer of the round is in one place, unless a worker was late.
Rounds ==
    \/ late
    \/ /\ ~replaced /\ left \cap recorded = {}
       /\ ~fetched => recorded = {} /\ left = {} /\ \A w \in Workers : ~Busy(w)
       /\ \A w \in Workers : Busy(w) => peer[w] \notin left
       /\ \A w \in Workers : Early(w) => peer[w] \notin recorded
       /\ \A v, w \in Workers : Busy(v) /\ Busy(w) /\ peer[v] = peer[w] => v = w

\* The flag is as measured exactly when no write of it is pending.
Flags ==
    \A p \in Peers : measured[p] # "never" =>
        (((p \in outdated) <=> (measured[p] = "lags")) <=> p \notin pending)

\* Scans that overlap know it, and so does their peer.
Apart ==
    \A v, w \in Workers :
        Scanning(w) /\ lone[w] /\ Scanning(v) /\ v # w => peer[v] # peer[w]
Overlapped ==
    \A w \in Workers : Scanning(w) /\ ~lone[w] => peer[w] \in untested

\* A lone scan: of the methods that it has checked, the peer has the valid ones.
ChecksFit(w) ==
    /\ wpc[w] = "check" => verdict[w] = "main net"
    /\ lone[w] /\ wpc[w] \in {"check", "update"} /\ verdict[w] = "main net" =>
          /\ support[peer[w]] \cap (Methods \ todo[w]) = valid[w]
          /\ GetVersion \in todo[w] \cup valid[w]
Checking == \A w \in Workers : ChecksFit(w)

\* A lone scan about to delete the methods has taken the flags away.
MarkedDead(w) ==
    lone[w] /\ wpc[w] = "delete" =>
        /\ verdict[w] # "main net" /\ peer[w] \notin alive /\ peer[w] \notin rpc
        /\ peer[w] \in mainNet <=> NewMainNet(w)
Deleting == \A w \in Workers : MarkedDead(w)
\* What VisibleHasMethods needs of the peers that a reader does not see, either.
AliveHas ==
    \A p \in alive \ untested : GetVersion \in support[p]
KnownListed ==
    \A p \in Peers : last[p].known => p \in listed
\* Scans that overlap leave no finding to compare the rows with.
Forgotten(w) == Scanning(w) /\ ~lone[w] => ~last[peer[w]].known
LoneKnown == \A w \in Workers : Forgotten(w)

\* A scan that has only probed the peer has not written to it yet.
FoundInRows(p) ==
    last[p].known /\ (\A w \in Scans(p) : wpc[w] = "probe") =>
        /\ (p \in alive) = last[p].alive
        /\ (p \in rpc) = (last[p].alive /\ last[p].methods = Methods)
        /\ (p \in mainNet) = last[p].mainNet
        /\ support[p] = last[p].methods
AsFound == \A p \in Peers : FoundInRows(p)

--------------------------------------------------------------------------------
(* Rounds, flags and overlapping scans. *)

LEMMA RoundsNext ==
    ASSUME Types, Rounds, [Next]_vars
    PROVE  Rounds'
<1> USE DEF Rounds, Busy, Early
<1>0. /\ wpc \in [Workers -> Labels] /\ peer \in [Workers -> listed \cup {NoPeer}]
      /\ lone \in [Workers -> BOOLEAN] /\ listed \subseteq Peers
  BY DEF Types, TWorkers, TRows
<1>1. ASSUME NEW w \in Workers, Take(w)
      PROVE  Rounds'
  BY <1>0, <1>1 DEF Take
<1>2. ASSUME NEW w \in Workers, SkipNewNodes(w)
      PROVE  Rounds'
  BY <1>0, <1>2 DEF SkipNewNodes
<1>3. ASSUME NEW w \in Workers, FindNewNodes(w)
      PROVE  Rounds'
  BY <1>0, <1>3 DEF FindNewNodes
<1>4. ASSUME NEW w \in Workers, InsertNode(w)
      PROVE  Rounds'
  BY <1>0, <1>4 DEF InsertNode, GetOrCreatePeer
<1>5. ASSUME NEW w \in Workers, InsertFails(w)
      PROVE  Rounds'
  BY <1>0, <1>5 DEF InsertFails
<1>6. ASSUME NEW w \in Workers, ReadMethods(w)
      PROVE  Rounds'
  BY <1>0, <1>6 DEF ReadMethods
<1>7. ASSUME NEW w \in Workers, GiveUpScan(w)
      PROVE  Rounds'
  BY <1>0, <1>7 DEF GiveUpScan, Idle
<1>8. ASSUME NEW w \in Workers, Probe(w)
      PROVE  Rounds'
  BY <1>0, <1>8 DEF Probe
<1>9. ASSUME NEW w \in Workers, CheckMethod(w)
      PROVE  Rounds'
  BY <1>0, <1>9 DEF CheckMethod
<1>10. ASSUME NEW w \in Workers, WriteFails(w)
      PROVE  Rounds'
  BY <1>0, <1>10 DEF WriteFails, Idle
<1>11. ASSUME NEW w \in Workers, UpdatePeerInfo(w)
      PROVE  Rounds'
  BY <1>0, <1>11 DEF UpdatePeerInfo, Idle, ScanIsWhole, AddRecord, UpdatePeerByID
<1>12. ASSUME NEW w \in Workers, UpdateFails(w)
      PROVE  Rounds'
  BY <1>0, <1>12 DEF UpdateFails, Idle, AddRecord
<1>13. ASSUME NEW w \in Workers, DeleteMethods(w)
      PROVE  Rounds'
  BY <1>0, <1>13 DEF DeleteMethods, Idle, ScanIsWhole
<1>14. CASE GetPeers
  BY <1>0, <1>14 DEF GetPeers
<1>15. CASE BeforeRun
  BY <1>0, <1>15 DEF BeforeRun
<1>16. CASE InsertPort
  BY <1>0, <1>16 DEF InsertPort, GetOrCreatePeer
<1>17. CASE GetSlots
  BY <1>0, <1>17 DEF GetSlots
<1>18. CASE WriteOutdated
  BY <1>0, <1>18 DEF WriteOutdated
<1>19. CASE WriteOutdatedFails
  BY <1>0, <1>19 DEF WriteOutdatedFails
<1>20. CASE Cancel
  BY <1>0, <1>20 DEF Cancel
<1>21. CASE Restart
  BY <1>0, <1>21 DEF Restart
<1>22. CASE UNCHANGED vars
  BY <1>0, <1>22 DEF vars
<1> QED
  BY <1>1, <1>2, <1>3, <1>4, <1>5, <1>6, <1>7, <1>8, <1>9, <1>10, <1>11, <1>12, <1>13,
   <1>14, <1>15, <1>16, <1>17, <1>18, <1>19, <1>20, <1>21, <1>22
     DEF Next, WorkerStep

LEMMA FlagsNext ==
    ASSUME Types, Flags, [Next]_vars
    PROVE  Flags'
<1> USE DEF Flags
<1>0. /\ measured \in [Peers -> {"never", "keeps up", "lags"}]
      /\ pending \subseteq listed /\ listed \subseteq Peers
  BY DEF Types, TRows, TRest
<1>1. ASSUME NEW w \in Workers, Take(w)
      PROVE  Flags'
  BY <1>0, <1>1 DEF Take
<1>2. ASSUME NEW w \in Workers, SkipNewNodes(w)
      PROVE  Flags'
  BY <1>0, <1>2 DEF SkipNewNodes
<1>3. ASSUME NEW w \in Workers, FindNewNodes(w)
      PROVE  Flags'
  BY <1>0, <1>3 DEF FindNewNodes
<1>4. ASSUME NEW w \in Workers, InsertNode(w)
      PROVE  Flags'
  BY <1>0, <1>4 DEF InsertNode, GetOrCreatePeer
<1>5. ASSUME NEW w \in Workers, InsertFails(w)
      PROVE  Flags'
  BY <1>0, <1>5 DEF InsertFails
<1>6. ASSUME NEW w \in Workers, ReadMethods(w)
      PROVE  Flags'
  BY <1>0, <1>6 DEF ReadMethods
<1>7. ASSUME NEW w \in Workers, GiveUpScan(w)
      PROVE  Flags'
  BY <1>0, <1>7 DEF GiveUpScan, Idle
<1>8. ASSUME NEW w \in Workers, Probe(w)
      PROVE  Flags'
  BY <1>0, <1>8 DEF Probe
<1>9. ASSUME NEW w \in Workers, CheckMethod(w)
      PROVE  Flags'
  BY <1>0, <1>9 DEF CheckMethod
<1>10. ASSUME NEW w \in Workers, WriteFails(w)
      PROVE  Flags'
  BY <1>0, <1>10 DEF WriteFails, Idle
<1>11. ASSUME NEW w \in Workers, UpdatePeerInfo(w)
      PROVE  Flags'
  BY <1>0, <1>11 DEF UpdatePeerInfo, Idle, ScanIsWhole, AddRecord, UpdatePeerByID
<1>12. ASSUME NEW w \in Workers, UpdateFails(w)
      PROVE  Flags'
  BY <1>0, <1>12 DEF UpdateFails, Idle, AddRecord
<1>13. ASSUME NEW w \in Workers, DeleteMethods(w)
      PROVE  Flags'
  BY <1>0, <1>13 DEF DeleteMethods, Idle, ScanIsWhole
<1>14. CASE GetPeers
  BY <1>0, <1>14 DEF GetPeers
<1>15. CASE BeforeRun
  BY <1>0, <1>15 DEF BeforeRun
<1>16. CASE InsertPort
  BY <1>0, <1>16 DEF InsertPort, GetOrCreatePeer
<1>17. CASE GetSlots
  <2>0. /\ SlotSpace \in Nat /\ Slots \subseteq 1 .. SlotSpace - 1
        /\ OutdatedSlotShift \in 0 .. SlotSpace - 1
    BY StoreAssumption
  <2>1. /\ pending = {} /\ UNCHANGED outdated
        /\ \E slot \in [alive \cap mainNet -> Slots \cup {0}], highest \in Slots :
              LET answered == {p \in alive \cap mainNet : slot[p] # 0}
              IN  /\ \A p \in answered : slot[p] <= highest
                  /\ pending' = {p \in answered :
                                   (p \in outdated) # IsOutdated(slot[p], highest)}
                  /\ measured' = [p \in Peers |->
                        IF p \notin answered THEN measured[p]
                        ELSE IF \/ highest < OutdatedSlotShift
                                \/ slot[p] + OutdatedSlotShift < highest
                             THEN "lags" ELSE "keeps up"]
    <3> HIDE DEF Flags
    <3> QED
      BY <1>17, Zenon DEF GetSlots
  <2>2. PICK slot \in [alive \cap mainNet -> Slots \cup {0}], highest \in Slots :
          /\ \A p \in alive \cap mainNet : slot[p] # 0 => slot[p] <= highest
          /\ pending' = {p \in {q \in alive \cap mainNet : slot[q] # 0} :
                           (p \in outdated) # IsOutdated(slot[p], highest)}
          /\ measured' = [p \in Peers |->
                IF p \notin {q \in alive \cap mainNet : slot[q] # 0} THEN measured[p]
                ELSE IF \/ highest < OutdatedSlotShift
                        \/ slot[p] + OutdatedSlotShift < highest
                     THEN "lags" ELSE "keeps up"]
    BY <2>1
  <2>3. TAKE p \in Peers
  <2>4. CASE p \in alive \cap mainNet /\ slot[p] # 0
    <3>1. slot[p] \in 1 .. SlotSpace - 1 /\ highest \in 1 .. SlotSpace - 1
      BY <2>0, <2>2, <2>4
    <3>2. slot[p] <= highest
      BY <2>2, <2>4
    <3>3. IsOutdated(slot[p], highest) <=> \/ highest < OutdatedSlotShift
                                           \/ slot[p] + OutdatedSlotShift < highest
      BY <2>0, <3>1, <3>2 DEF IsOutdated, Minus
    <3>4. p \in pending' <=> ((p \in outdated) # IsOutdated(slot[p], highest))
      BY <2>2, <2>4
    <3>5. measured'[p] = IF \/ highest < OutdatedSlotShift
                            \/ slot[p] + OutdatedSlotShift < highest
                         THEN "lags" ELSE "keeps up"
      BY <2>2, <2>4
    <3>6. CASE highest < OutdatedSlotShift \/ slot[p] + OutdatedSlotShift < highest
      <4>1. measured'[p] = "lags" /\ (p \in pending' <=> p \notin outdated)
        BY <3>3, <3>4, <3>5, <3>6 DEF IsOutdated
      <4> QED
        BY <2>1, <4>1
    <3>7. CASE ~(highest < OutdatedSlotShift \/ slot[p] + OutdatedSlotShift < highest)
      <4>1. measured'[p] = "keeps up" /\ (p \in pending' <=> p \in outdated)
        <5>1. ~IsOutdated(slot[p], highest)
          BY <3>3, <3>7
        <5>2. (p \in outdated) # IsOutdated(slot[p], highest) <=> p \in outdated
          BY <5>1 DEF IsOutdated
        <5> QED
          BY <3>4, <3>5, <3>7, <5>2
      <4> QED
        BY <2>1, <4>1
    <3> QED
      BY <3>6, <3>7
  <2>5. CASE ~(p \in alive \cap mainNet /\ slot[p] # 0)
    <3>1. p \notin pending' /\ measured'[p] = measured[p] /\ p \notin pending
      BY <2>1, <2>2, <2>5
    <3> QED
      BY <2>1, <3>1
  <2> QED
    BY <2>4, <2>5
<1>18. CASE WriteOutdated
  BY <1>0, <1>18 DEF WriteOutdated, Flag
<1>19. CASE WriteOutdatedFails
  BY <1>0, <1>19 DEF WriteOutdatedFails
<1>20. CASE Cancel
  BY <1>0, <1>20 DEF Cancel
<1>21. CASE Restart
  BY <1>0, <1>21 DEF Restart
<1>22. CASE UNCHANGED vars
  BY <1>0, <1>22 DEF vars
<1> QED
  BY <1>1, <1>2, <1>3, <1>4, <1>5, <1>6, <1>7, <1>8, <1>9, <1>10, <1>11, <1>12, <1>13,
   <1>14, <1>15, <1>16, <1>17, <1>18, <1>19, <1>20, <1>21, <1>22
     DEF Next, WorkerStep

LEMMA ApartNext ==
    ASSUME Types, Apart, [Next]_vars
    PROVE  Apart'
<1> USE DEF Apart, Scanning, Labels
<1>0. /\ wpc \in [Workers -> Labels] /\ peer \in [Workers -> listed \cup {NoPeer}]
      /\ lone \in [Workers -> BOOLEAN] /\ listed \subseteq Peers
  BY DEF Types, TWorkers, TRows
<1>1. ASSUME NEW w \in Workers, Take(w)
      PROVE  Apart'
  BY <1>0, <1>1 DEF Take
<1>2. ASSUME NEW w \in Workers, SkipNewNodes(w)
      PROVE  Apart'
  BY <1>0, <1>2 DEF SkipNewNodes
<1>3. ASSUME NEW w \in Workers, FindNewNodes(w)
      PROVE  Apart'
  BY <1>0, <1>3 DEF FindNewNodes
<1>4. ASSUME NEW w \in Workers, InsertNode(w)
      PROVE  Apart'
  BY <1>0, <1>4 DEF InsertNode, GetOrCreatePeer
<1>5. ASSUME NEW w \in Workers, InsertFails(w)
      PROVE  Apart'
  BY <1>0, <1>5 DEF InsertFails
<1>6. ASSUME NEW w \in Workers, ReadMethods(w)
      PROVE  Apart'
  <2>1. /\ wpc' = [wpc EXCEPT ![w] = "probe"] /\ UNCHANGED peer
        /\ lone' = [v \in Workers |-> IF v = w THEN Scans(peer[w]) = {}
                                      ELSE lone[v] /\ v \notin Scans(peer[w])]
    BY <1>6 DEF ReadMethods
  <2>2. \A u, v \in Workers : u # w => (Scanning(u)' <=> Scanning(u))
    BY <1>0, <2>1
  <2> SUFFICES ASSUME NEW u \in Workers, NEW v \in Workers,
                      Scanning(v)', lone'[v], Scanning(u)', u # v
               PROVE  peer[u] # peer[v]
    BY <2>1
  <2>3. CASE v = w
    <3>1. Scans(peer[w]) = {} /\ Scanning(u)
      BY <2>1, <2>2, <2>3
    <3> QED
      BY <2>3, <3>1 DEF Scans
  <2>4. CASE v # w /\ u = w
    <3>1. v \notin Scans(peer[w]) /\ Scanning(v)
      BY <2>1, <2>2, <2>4
    <3> QED
      BY <2>4, <3>1 DEF Scans
  <2>5. CASE v # w /\ u # w
    <3>1. lone[v] /\ Scanning(v) /\ Scanning(u)
      BY <2>1, <2>2, <2>5
    <3> QED
      BY <3>1
  <2> QED
    BY <2>3, <2>4, <2>5
<1>7. ASSUME NEW w \in Workers, GiveUpScan(w)
      PROVE  Apart'
  BY <1>0, <1>7 DEF GiveUpScan, Idle
<1>8. ASSUME NEW w \in Workers, Probe(w)
      PROVE  Apart'
  BY <1>0, <1>8 DEF Probe
<1>9. ASSUME NEW w \in Workers, CheckMethod(w)
      PROVE  Apart'
  BY <1>0, <1>9 DEF CheckMethod
<1>10. ASSUME NEW w \in Workers, WriteFails(w)
      PROVE  Apart'
  BY <1>0, <1>10 DEF WriteFails, Idle
<1>11. ASSUME NEW w \in Workers, UpdatePeerInfo(w)
      PROVE  Apart'
  <2>1. wpc[w] = "update"
    BY <1>11 DEF UpdatePeerInfo
  <2>2. CASE Idle(w)
    BY <1>0, <2>1, <2>2 DEF Idle
  <2>3. CASE wpc' = [wpc EXCEPT ![w] = "delete"] /\ UNCHANGED <<peer, lone>>
    BY <1>0, <2>1, <2>3
  <2> QED
    BY <1>11, <2>2, <2>3 DEF UpdatePeerInfo, ScanIsWhole
<1>12. ASSUME NEW w \in Workers, UpdateFails(w)
      PROVE  Apart'
  BY <1>0, <1>12 DEF UpdateFails, Idle, AddRecord
<1>13. ASSUME NEW w \in Workers, DeleteMethods(w)
      PROVE  Apart'
  BY <1>0, <1>13 DEF DeleteMethods, Idle, ScanIsWhole
<1>14. CASE GetPeers
  BY <1>0, <1>14 DEF GetPeers
<1>15. CASE BeforeRun
  BY <1>0, <1>15 DEF BeforeRun
<1>16. CASE InsertPort
  BY <1>0, <1>16 DEF InsertPort, GetOrCreatePeer
<1>17. CASE GetSlots
  BY <1>0, <1>17 DEF GetSlots
<1>18. CASE WriteOutdated
  BY <1>0, <1>18 DEF WriteOutdated
<1>19. CASE WriteOutdatedFails
  BY <1>0, <1>19 DEF WriteOutdatedFails
<1>20. CASE Cancel
  BY <1>0, <1>20 DEF Cancel
<1>21. CASE Restart
  BY <1>0, <1>21 DEF Restart
<1>22. CASE UNCHANGED vars
  BY <1>0, <1>22 DEF vars
<1> QED
  BY <1>1, <1>2, <1>3, <1>4, <1>5, <1>6, <1>7, <1>8, <1>9, <1>10, <1>11, <1>12, <1>13,
   <1>14, <1>15, <1>16, <1>17, <1>18, <1>19, <1>20, <1>21, <1>22
     DEF Next, WorkerStep

LEMMA OverlappedNext ==
    ASSUME Types, Apart, Overlapped, [Next]_vars
    PROVE  Overlapped'
<1> USE DEF Apart, Overlapped, Scanning, Labels
<1>0. /\ wpc \in [Workers -> Labels] /\ peer \in [Workers -> listed \cup {NoPeer}]
      /\ lone \in [Workers -> BOOLEAN] /\ listed \subseteq Peers
  BY DEF Types, TWorkers, TRows
<1>1. ASSUME NEW w \in Workers, Take(w)
      PROVE  Overlapped'
  BY <1>0, <1>1 DEF Take
<1>2. ASSUME NEW w \in Workers, SkipNewNodes(w)
      PROVE  Overlapped'
  BY <1>0, <1>2 DEF SkipNewNodes
<1>3. ASSUME NEW w \in Workers, FindNewNodes(w)
      PROVE  Overlapped'
  BY <1>0, <1>3 DEF FindNewNodes
<1>4. ASSUME NEW w \in Workers, InsertNode(w)
      PROVE  Overlapped'
  BY <1>0, <1>4 DEF InsertNode, GetOrCreatePeer
<1>5. ASSUME NEW w \in Workers, InsertFails(w)
      PROVE  Overlapped'
  BY <1>0, <1>5 DEF InsertFails
<1>6. ASSUME NEW w \in Workers, ReadMethods(w)
      PROVE  Overlapped'
  BY <1>0, <1>6 DEF ReadMethods, Scans, Flag
<1>7. ASSUME NEW w \in Workers, GiveUpScan(w)
      PROVE  Overlapped'
  BY <1>0, <1>7 DEF GiveUpScan, Idle
<1>8. ASSUME NEW w \in Workers, Probe(w)
      PROVE  Overlapped'
  BY <1>0, <1>8 DEF Probe
<1>9. ASSUME NEW w \in Workers, CheckMethod(w)
      PROVE  Overlapped'
  BY <1>0, <1>9 DEF CheckMethod
<1>10. ASSUME NEW w \in Workers, WriteFails(w)
      PROVE  Overlapped'
  BY <1>0, <1>10 DEF WriteFails, Idle
<1>11. ASSUME NEW w \in Workers, UpdatePeerInfo(w)
      PROVE  Overlapped'
  <2>1. wpc[w] = "update"
    BY <1>11 DEF UpdatePeerInfo
  <2>2. CASE /\ Idle(w)
             /\ untested' = IF lone[w] THEN untested \ {peer[w]} ELSE untested
    BY <1>0, <2>1, <2>2 DEF Idle
  <2>3. CASE wpc' = [wpc EXCEPT ![w] = "delete"] /\ UNCHANGED <<peer, lone, untested>>
    BY <1>0, <2>1, <2>3
  <2> QED
    BY <1>11, <2>2, <2>3 DEF UpdatePeerInfo, ScanIsWhole
<1>12. ASSUME NEW w \in Workers, UpdateFails(w)
      PROVE  Overlapped'
  BY <1>0, <1>12 DEF UpdateFails, Idle, AddRecord
<1>13. ASSUME NEW w \in Workers, DeleteMethods(w)
      PROVE  Overlapped'
  BY <1>0, <1>13 DEF DeleteMethods, Idle, ScanIsWhole
<1>14. CASE GetPeers
  BY <1>0, <1>14 DEF GetPeers
<1>15. CASE BeforeRun
  BY <1>0, <1>15 DEF BeforeRun
<1>16. CASE InsertPort
  BY <1>0, <1>16 DEF InsertPort, GetOrCreatePeer
<1>17. CASE GetSlots
  BY <1>0, <1>17 DEF GetSlots
<1>18. CASE WriteOutdated
  BY <1>0, <1>18 DEF WriteOutdated
<1>19. CASE WriteOutdatedFails
  BY <1>0, <1>19 DEF WriteOutdatedFails
<1>20. CASE Cancel
  BY <1>0, <1>20 DEF Cancel
<1>21. CASE Restart
  BY <1>0, <1>21 DEF Restart
<1>22. CASE UNCHANGED vars
  BY <1>0, <1>22 DEF vars
<1> QED
  BY <1>1, <1>2, <1>3, <1>4, <1>5, <1>6, <1>7, <1>8, <1>9, <1>10, <1>11, <1>12, <1>13,
   <1>14, <1>15, <1>16, <1>17, <1>18, <1>19, <1>20, <1>21, <1>22
     DEF Next, WorkerStep

--------------------------------------------------------------------------------
\* What a step leaves alone.
OtherStep ==
    \/ GetPeers \/ BeforeRun \/ InsertPort \/ GetSlots \/ WriteOutdated
    \/ WriteOutdatedFails \/ Cancel \/ UNCHANGED vars

LEMMA OthersStay ==
    ASSUME Types, NEW w \in Workers, WorkerStep(w), NEW u \in Workers, u # w
    PROVE  /\ wpc'[u] = wpc[u] /\ peer'[u] = peer[u] /\ oldMainNet'[u] = oldMainNet[u]
           /\ todo'[u] = todo[u] /\ valid'[u] = valid[u] /\ verdict'[u] = verdict[u]
           /\ lone'[u] => lone[u]
           /\ peer[u] # peer[w] => lone'[u] = lone[u]
<1>0. /\ wpc \in [Workers -> Labels] /\ peer \in [Workers -> listed \cup {NoPeer}]
      /\ oldMainNet \in [Workers -> BOOLEAN] /\ lone \in [Workers -> BOOLEAN]
      /\ todo \in [Workers -> SUBSET Methods] /\ valid \in [Workers -> SUBSET Methods]
      /\ verdict \in [Workers -> Verdicts]
  BY DEF Types, TWorkers, TChecks
<1>1. CASE Take(w)
  BY <1>0, <1>1 DEF Take
<1>2. CASE SkipNewNodes(w)
  BY <1>0, <1>2 DEF SkipNewNodes
<1>3. CASE FindNewNodes(w)
  BY <1>0, <1>3 DEF FindNewNodes
<1>4. CASE InsertNode(w)
  BY <1>0, <1>4 DEF InsertNode, GetOrCreatePeer
<1>5. CASE InsertFails(w)
  BY <1>0, <1>5 DEF InsertFails
<1>6. CASE ReadMethods(w)
  BY <1>0, <1>6 DEF ReadMethods, Scans
<1>7. CASE GiveUpScan(w)
  BY <1>0, <1>7 DEF GiveUpScan, Idle
<1>8. CASE Probe(w)
  BY <1>0, <1>8 DEF Probe
<1>9. CASE CheckMethod(w)
  BY <1>0, <1>9 DEF CheckMethod
<1>10. CASE WriteFails(w)
  BY <1>0, <1>10 DEF WriteFails, Idle
<1>11. CASE UpdatePeerInfo(w)
  <2>1. CASE Idle(w)
    BY <1>0, <2>1 DEF Idle
  <2>2. CASE /\ wpc' = [wpc EXCEPT ![w] = "delete"]
             /\ UNCHANGED <<peer, oldMainNet, todo, valid, verdict, lone>>
    BY <1>0, <2>2
  <2> QED
    BY <1>11, <2>1, <2>2 DEF UpdatePeerInfo, ScanIsWhole
<1>12. CASE UpdateFails(w)
  BY <1>0, <1>12 DEF UpdateFails, Idle, AddRecord
<1>13. CASE DeleteMethods(w)
  BY <1>0, <1>13 DEF DeleteMethods, Idle, ScanIsWhole
<1> QED
  BY <1>1, <1>2, <1>3, <1>4, <1>5, <1>6, <1>7, <1>8, <1>9, <1>10, <1>11, <1>12,
                              <1>13 DEF WorkerStep

LEMMA RowsOfOthers ==
    ASSUME Types, NEW w \in Workers, WorkerStep(w),
           NEW p \in Peers, Scanning(w) => peer[w] # p
    PROVE  /\ support'[p] = support[p] /\ (p \in alive' <=> p \in alive)
           /\ p \in rpc' <=> p \in rpc
           /\ p \in listed => (p \in mainNet' <=> p \in mainNet)
<1>0. support \in [Peers -> SUBSET Methods]
  BY DEF Types, TRows
<1>1. CASE Take(w)
  BY <1>0, <1>1 DEF Take
<1>2. CASE SkipNewNodes(w)
  BY <1>0, <1>2 DEF SkipNewNodes
<1>3. CASE FindNewNodes(w)
  BY <1>0, <1>3 DEF FindNewNodes
<1>4. CASE InsertNode(w)
  <2>1. UNCHANGED <<support, alive, rpc>>
    BY <1>4 DEF InsertNode, GetOrCreatePeer
  <2>2. PICK q \in fresh[w] : GetOrCreatePeer(q, TRUE)
    BY <1>4 DEF InsertNode
  <2>3. mainNet' = IF q \in listed THEN mainNet ELSE mainNet \cup {q}
    BY <2>2 DEF GetOrCreatePeer, Flag
  <2> QED
    BY <2>1, <2>3
<1>5. CASE InsertFails(w)
  BY <1>0, <1>5 DEF InsertFails
<1>6. CASE ReadMethods(w)
  BY <1>0, <1>6 DEF ReadMethods
<1>7. CASE GiveUpScan(w)
  BY <1>0, <1>7 DEF GiveUpScan
<1>8. CASE Probe(w)
  BY <1>0, <1>8 DEF Probe
<1>9. CASE CheckMethod(w)
  BY <1>0, <1>9 DEF CheckMethod, Scanning
<1>10. CASE WriteFails(w)
  BY <1>0, <1>10 DEF WriteFails
<1>11. CASE UpdatePeerInfo(w)
  BY <1>0, <1>11 DEF UpdatePeerInfo, Scanning, UpdatePeerByID, Flag
<1>12. CASE UpdateFails(w)
  BY <1>0, <1>12 DEF UpdateFails
<1>13. CASE DeleteMethods(w)
  BY <1>0, <1>13 DEF DeleteMethods, Scanning
<1> QED
  BY <1>1, <1>2, <1>3, <1>4, <1>5, <1>6, <1>7, <1>8, <1>9, <1>10, <1>11, <1>12,
                              <1>13 DEF WorkerStep

LEMMA FindingsOfOthers ==
    ASSUME Types, NEW w \in Workers, WorkerStep(w), NEW p \in Peers, peer[w] # p
    PROVE  last'[p] = last[p] /\ (p \in untested' <=> p \in untested)
<1>0. last \in [Peers -> Findings]
  BY DEF Types, TRest
<1>1. CASE Take(w)
  BY <1>0, <1>1 DEF Take
<1>2. CASE SkipNewNodes(w)
  BY <1>0, <1>2 DEF SkipNewNodes
<1>3. CASE FindNewNodes(w)
  BY <1>0, <1>3 DEF FindNewNodes
<1>4. CASE InsertNode(w)
  BY <1>0, <1>4 DEF InsertNode, GetOrCreatePeer
<1>5. CASE InsertFails(w)
  BY <1>0, <1>5 DEF InsertFails
<1>6. CASE ReadMethods(w)
  BY <1>0, <1>6 DEF ReadMethods, Flag
<1>7. CASE GiveUpScan(w)
  BY <1>0, <1>7 DEF GiveUpScan
<1>8. CASE Probe(w)
  BY <1>0, <1>8 DEF Probe
<1>9. CASE CheckMethod(w)
  BY <1>0, <1>9 DEF CheckMethod
<1>10. CASE WriteFails(w)
  BY <1>0, <1>10 DEF WriteFails
<1>11. CASE UpdatePeerInfo(w)
  BY <1>0, <1>11 DEF UpdatePeerInfo, ScanIsWhole
<1>12. CASE UpdateFails(w)
  BY <1>0, <1>12 DEF UpdateFails
<1>13. CASE DeleteMethods(w)
  BY <1>0, <1>13 DEF DeleteMethods, ScanIsWhole
<1> QED
  BY <1>1, <1>2, <1>3, <1>4, <1>5, <1>6, <1>7, <1>8, <1>9, <1>10, <1>11, <1>12,
                              <1>13 DEF WorkerStep

LEMMA OtherStepStays ==
    ASSUME Types, OtherStep
    PROVE  /\ UNCHANGED <<workerVars, untested, last, support, alive, rpc>>
           /\ \A p \in listed : p \in mainNet' <=> p \in mainNet
<1>1. UNCHANGED <<workerVars, untested, last, support, alive, rpc>>
  BY DEF OtherStep, GetPeers, BeforeRun, InsertPort, GetOrCreatePeer, GetSlots,
         WriteOutdated, WriteOutdatedFails, Cancel, vars
<1>2. \A p \in listed : p \in mainNet' <=> p \in mainNet
  <2>1. CASE InsertPort
    <3>1. PICK q \in Peers : GetOrCreatePeer(q, FALSE)
      BY <2>1 DEF InsertPort
    <3>2. mainNet' = IF q \in listed THEN mainNet ELSE mainNet \ {q}
      BY <3>1 DEF GetOrCreatePeer, Flag
    <3> QED
      BY <3>2
  <2>2. CASE ~InsertPort
    BY <2>2 DEF OtherStep, GetPeers, BeforeRun, GetSlots, WriteOutdated,
                WriteOutdatedFails, Cancel, vars
  <2> QED
    BY <2>1, <2>2
<1> QED
  BY <1>1, <1>2

LEMMA StepCases ==
    ASSUME [Next]_vars
    PROVE  (\E w \in Workers : WorkerStep(w)) \/ OtherStep \/ Restart
  BY DEF Next, OtherStep

\* Where a worker gets.
LEMMA WhereNext ==
    ASSUME Types, NEW w \in Workers, WorkerStep(w)
    PROVE  /\ wpc'[w] \in {"check", "update"} => Probe(w) \/ CheckMethod(w)
           /\ wpc'[w] = "delete" => UpdatePeerInfo(w) /\ verdict[w] # "main net"
           /\ wpc'[w] = "probe" => ReadMethods(w)
           /\ wpc[w] # "idle" => peer'[w] = peer[w] \/ wpc'[w] = "idle"
           /\ Scanning(w)' => wpc[w] # "idle" /\ peer[w] \in listed
<1>0. /\ wpc \in [Workers -> Labels] /\ peer \in [Workers -> listed \cup {NoPeer}]
      /\ \A v \in Workers : wpc[v] # "idle" => peer[v] \in listed
  BY DEF Types, TWorkers
<1>1. CASE Take(w)
  BY <1>0, <1>1 DEF Take, Scanning
<1>2. CASE SkipNewNodes(w)
  BY <1>0, <1>2 DEF SkipNewNodes, Scanning
<1>3. CASE FindNewNodes(w)
  BY <1>0, <1>3 DEF FindNewNodes, Scanning
<1>4. CASE InsertNode(w)
  BY <1>0, <1>4 DEF InsertNode, GetOrCreatePeer, Scanning
<1>5. CASE InsertFails(w)
  BY <1>0, <1>5 DEF InsertFails, Scanning
<1>6. CASE ReadMethods(w)
  BY <1>0, <1>6 DEF ReadMethods, Scanning
<1>7. CASE GiveUpScan(w)
  BY <1>0, <1>7 DEF GiveUpScan, Idle, Scanning
<1>8. CASE Probe(w)
  BY <1>0, <1>8 DEF Probe, Scanning
<1>9. CASE CheckMethod(w)
  BY <1>0, <1>9 DEF CheckMethod, Scanning
<1>10. CASE WriteFails(w)
  BY <1>0, <1>10 DEF WriteFails, Idle, Scanning
<1>11. CASE UpdatePeerInfo(w)
  BY <1>0, <1>11 DEF UpdatePeerInfo, Idle, ScanIsWhole, AddRecord, UpdatePeerByID,
                     Scanning
<1>12. CASE UpdateFails(w)
  BY <1>0, <1>12 DEF UpdateFails, Idle, AddRecord, Scanning
<1>13. CASE DeleteMethods(w)
  BY <1>0, <1>13 DEF DeleteMethods, Idle, ScanIsWhole, Scanning
<1> QED
  BY <1>1, <1>2, <1>3, <1>4, <1>5, <1>6, <1>7, <1>8, <1>9, <1>10, <1>11, <1>12,
                              <1>13 DEF WorkerStep

--------------------------------------------------------------------------------
(* What lone scans have written. *)

LEMMA CheckingNext ==
    ASSUME Types, Apart, Checking, [Next]_vars
    PROVE  Checking'
<1>1. ASSUME NEW w \in Workers, WorkerStep(w), NEW u \in Workers, u # w
      PROVE  ChecksFit(u)'
  <2>1. /\ wpc'[u] = wpc[u] /\ peer'[u] = peer[u] /\ (lone'[u] => lone[u])
        /\ todo'[u] = todo[u] /\ valid'[u] = valid[u] /\ verdict'[u] = verdict[u]
    BY <1>1, OthersStay
  <2>2. CASE lone[u] /\ wpc[u] \in {"check", "update"}
    <3>1. peer[u] \in listed \cap Peers /\ (Scanning(w) => peer[w] # peer[u])
      BY <1>1, <2>2 DEF Types, TWorkers, TRows, Apart, Scanning
    <3>2. support'[peer[u]] = support[peer[u]]
      BY <1>1, <3>1, RowsOfOthers
    <3>3. ChecksFit(u)
      BY DEF Checking
    <3> QED
      BY <2>1, <3>2, <3>3 DEF ChecksFit
  <2>3. CASE ~(lone[u] /\ wpc[u] \in {"check", "update"})
    BY <2>1, <2>3 DEF Checking, ChecksFit
  <2> QED
    BY <2>2, <2>3
<1>2. ASSUME NEW w \in Workers, WorkerStep(w)
      PROVE  ChecksFit(w)'
  <2>0. /\ wpc \in [Workers -> Labels] /\ verdict \in [Workers -> Verdicts]
        /\ wpc[w] # "idle" => peer[w] \in listed
        /\ todo \in [Workers -> SUBSET Methods] /\ valid \in [Workers -> SUBSET Methods]
        /\ support \in [Peers -> SUBSET Methods] /\ listed \subseteq Peers
        /\ wpc[w] = "probe" => valid[w] = {}
        /\ GetVersion \in Methods
    BY StoreAssumption DEF Types, TWorkers, TChecks, TRows
  <2>1. CASE Probe(w)
    <3>1. PICK v \in Verdicts :
            /\ verdict' = [verdict EXCEPT ![w] = v]
            /\ todo' = [todo EXCEPT ![w] = IF v = "main net" THEN Methods ELSE {}]
            /\ wpc' = [wpc EXCEPT ![w] = IF v = "main net" THEN "check" ELSE "update"]
      BY <2>1 DEF Probe, Verdicts
    <3>2. /\ verdict'[w] = v /\ todo'[w] = IF v = "main net" THEN Methods ELSE {}
          /\ wpc'[w] = IF v = "main net" THEN "check" ELSE "update"
      BY <2>0, <3>1
    <3>3. UNCHANGED <<valid, support, peer>> /\ valid[w] = {}
      BY <2>0, <2>1 DEF Probe
    <3> QED
      BY <2>0, <3>2, <3>3 DEF ChecksFit
  <2>2. CASE CheckMethod(w)
    <3>1. PICK m \in todo[w], ok \in BOOLEAN :
            /\ ok \in Results(m)
            /\ support' = [support EXCEPT ![peer[w]] = Flag(@, m, ok)]
            /\ valid' = [valid EXCEPT ![w] = Flag(@, m, ok)]
            /\ todo' = [todo EXCEPT ![w] = @ \ {m}]
            /\ wpc' = [wpc EXCEPT ![w] = IF todo[w] = {m} THEN "update" ELSE "check"]
      BY <2>2 DEF CheckMethod
    <3>2. UNCHANGED <<peer, verdict, lone>> /\ wpc[w] = "check"
      BY <2>2 DEF CheckMethod
    <3>3. /\ support'[peer[w]] = Flag(support[peer[w]], m, ok)
          /\ valid'[w] = Flag(valid[w], m, ok) /\ todo'[w] = todo[w] \ {m}
      BY <2>0, <3>1, <3>2
    <3>4. m = GetVersion => ok
      BY <3>1 DEF Results
    <3>5. m \in Methods /\ verdict[w] = "main net"
      BY <2>0, <3>1, <3>2 DEF Checking, ChecksFit
    <3>6. ASSUME lone[w]
          PROVE  /\ support'[peer[w]] \cap (Methods \ todo'[w]) = valid'[w]
                 /\ GetVersion \in todo'[w] \cup valid'[w]
      <4>1. /\ support[peer[w]] \cap (Methods \ todo[w]) = valid[w]
            /\ GetVersion \in todo[w] \cup valid[w]
        BY <3>2, <3>5, <3>6 DEF Checking, ChecksFit
      <4>2. m \in todo[w] /\ todo[w] \subseteq Methods
        BY <2>0, <3>1
      <4>3. CASE ok
        BY <2>0, <3>3, <4>1, <4>2, <4>3 DEF Flag
      <4>4. CASE ~ok
        BY <2>0, <3>3, <3>4, <4>1, <4>2, <4>4 DEF Flag
      <4> QED
        BY <4>3, <4>4
    <3> QED
      BY <3>2, <3>5, <3>6 DEF ChecksFit
  <2>3. CASE ~Probe(w) /\ ~CheckMethod(w)
    <3>1. wpc'[w] \notin {"check", "update"}
      BY <1>2, <2>3, WhereNext
    <3> QED
      BY <3>1 DEF ChecksFit
  <2> QED
    BY <2>1, <2>2, <2>3
<1>3. ASSUME OtherStep, NEW u \in Workers
      PROVE  ChecksFit(u)'
  <2>1. /\ UNCHANGED <<wpc, peer, lone, todo, valid, verdict>>
        /\ UNCHANGED support
    BY <1>3, OtherStepStays
  <2>2. wpc[u] # "idle" => peer[u] \in listed
    BY DEF Types, TWorkers
  <2> QED
    BY <2>1, <2>2 DEF Checking, ChecksFit
<1>4. CASE Restart
  BY <1>4 DEF Restart, Checking, ChecksFit
<1> QED
  BY <1>1, <1>2, <1>3, <1>4, StepCases DEF Checking

LEMMA DeletingNext ==
    ASSUME Types, Apart, Deleting, [Next]_vars
    PROVE  Deleting'
<1>1. ASSUME NEW w \in Workers, WorkerStep(w), NEW u \in Workers, u # w
      PROVE  MarkedDead(u)'
  <2>1. /\ wpc'[u] = wpc[u] /\ peer'[u] = peer[u] /\ (lone'[u] => lone[u])
        /\ oldMainNet'[u] = oldMainNet[u] /\ verdict'[u] = verdict[u]
    BY <1>1, OthersStay
  <2>2. CASE lone[u] /\ wpc[u] = "delete"
    <3>1. peer[u] \in listed \cap Peers /\ (Scanning(w) => peer[w] # peer[u])
      BY <1>1, <2>2 DEF Types, TWorkers, TRows, Apart, Scanning
    <3>2. /\ (peer[u] \in alive' <=> peer[u] \in alive)
          /\ (peer[u] \in rpc' <=> peer[u] \in rpc)
          /\ (peer[u] \in mainNet' <=> peer[u] \in mainNet)
      BY <1>1, <3>1, RowsOfOthers
    <3> QED
      BY <2>1, <3>2 DEF Deleting, MarkedDead, NewMainNet
  <2>3. CASE ~(lone[u] /\ wpc[u] = "delete")
    BY <2>1, <2>3 DEF MarkedDead
  <2> QED
    BY <2>2, <2>3
<1>2. ASSUME NEW w \in Workers, WorkerStep(w)
      PROVE  MarkedDead(w)'
  <2>1. CASE wpc'[w] = "delete"
    <3>1. UpdatePeerInfo(w) /\ verdict[w] # "main net"
      BY <1>2, <2>1, WhereNext
    <3>2. UpdatePeerByID(w) /\ UNCHANGED <<peer, oldMainNet, verdict>>
      BY <3>1 DEF UpdatePeerInfo
    <3> QED
      BY <3>1, <3>2 DEF MarkedDead, UpdatePeerByID, Flag, NewMainNet
  <2> QED
    BY <2>1 DEF MarkedDead
<1>3. ASSUME OtherStep, NEW u \in Workers
      PROVE  MarkedDead(u)'
  <2>1. /\ UNCHANGED <<wpc, peer, lone, oldMainNet, verdict>>
        /\ UNCHANGED <<alive, rpc>> /\ \A p \in listed : p \in mainNet' <=> p \in mainNet
    BY <1>3, OtherStepStays
  <2>2. wpc[u] # "idle" => peer[u] \in listed
    BY DEF Types, TWorkers
  <2> QED
    BY <2>1, <2>2 DEF Deleting, MarkedDead, NewMainNet
<1>4. CASE Restart
  BY <1>4 DEF Restart, Deleting, MarkedDead
<1> QED
  BY <1>1, <1>2, <1>3, <1>4, StepCases DEF Deleting

\* Nothing but the end of a whole lone scan lets a finding be known.
LEMMA FindingsKept ==
    ASSUME Types, NEW w \in Workers, WorkerStep(w), NEW p \in Peers,
           ~(Scanning(w) /\ lone[w])
    PROVE  /\ p \in untested => p \in untested'
           /\ last'[p] = last[p] \/ last'[p] = NothingKnown
<1>0. last \in [Peers -> Findings]
  BY DEF Types, TRest
<1> USE DEF Scanning
<1>1. CASE Take(w)
  BY <1>0, <1>1 DEF Take
<1>2. CASE SkipNewNodes(w)
  BY <1>0, <1>2 DEF SkipNewNodes
<1>3. CASE FindNewNodes(w)
  BY <1>0, <1>3 DEF FindNewNodes
<1>4. CASE InsertNode(w)
  BY <1>0, <1>4 DEF InsertNode, GetOrCreatePeer
<1>5. CASE InsertFails(w)
  BY <1>0, <1>5 DEF InsertFails
<1>6. CASE ReadMethods(w)
  <2>1. /\ untested \subseteq untested'
        /\ last' = [last EXCEPT ![peer[w]] = IF Scans(peer[w]) = {} THEN @ ELSE NothingKnown]
    BY <1>6 DEF ReadMethods, Flag
  <2>2. last'[p] = last[p] \/ last'[p] = NothingKnown
    <3> HIDE DEF NothingKnown
    <3> QED
      BY <1>0, <2>1
  <2> QED
    BY <2>1, <2>2
<1>7. CASE GiveUpScan(w)
  BY <1>0, <1>7 DEF GiveUpScan
<1>8. CASE Probe(w)
  BY <1>0, <1>8 DEF Probe
<1>9. CASE CheckMethod(w)
  BY <1>0, <1>9 DEF CheckMethod
<1>10. CASE WriteFails(w)
  BY <1>0, <1>10 DEF WriteFails
<1>11. CASE UpdatePeerInfo(w)
  <2>1. CASE ScanIsWhole(w, Found(TRUE, TRUE, valid[w]))
    <3> HIDE DEF NothingKnown, Found
    <3> QED
      BY <1>0, <1>11, <2>1 DEF ScanIsWhole, UpdatePeerInfo, Scanning
  <2>2. CASE UNCHANGED <<untested, last>>
    BY <2>2
  <2> QED
    BY <1>11, <2>1, <2>2 DEF UpdatePeerInfo
<1>12. CASE UpdateFails(w)
  BY <1>0, <1>12 DEF UpdateFails
<1>13. CASE DeleteMethods(w)
  BY <1>0, <1>13 DEF DeleteMethods, ScanIsWhole
<1> QED
  BY <1>1, <1>2, <1>3, <1>4, <1>5, <1>6, <1>7, <1>8, <1>9, <1>10, <1>11, <1>12,
                              <1>13 DEF WorkerStep

LEMMA ScanGoesOn ==
    ASSUME Types, NEW w \in Workers, WorkerStep(w), ~ReadMethods(w), Scanning(w)'
    PROVE  Scanning(w) /\ lone'[w] = lone[w] /\ peer'[w] = peer[w]
<1>0. wpc \in [Workers -> Labels]
  BY DEF Types, TWorkers
<1>1. CASE Take(w)
  BY <1>0, <1>1 DEF Take, Scanning
<1>2. CASE SkipNewNodes(w)
  BY <1>0, <1>2 DEF SkipNewNodes, Scanning
<1>3. CASE FindNewNodes(w)
  BY <1>0, <1>3 DEF FindNewNodes, Scanning
<1>4. CASE InsertNode(w)
  BY <1>0, <1>4 DEF InsertNode, GetOrCreatePeer, Scanning
<1>5. CASE InsertFails(w)
  BY <1>0, <1>5 DEF InsertFails, Scanning
<1>6. CASE ReadMethods(w)
  BY <1>0, <1>6 DEF ReadMethods, Scanning
<1>7. CASE GiveUpScan(w)
  BY <1>0, <1>7 DEF GiveUpScan, Idle, Scanning
<1>8. CASE Probe(w)
  BY <1>0, <1>8 DEF Probe, Scanning
<1>9. CASE CheckMethod(w)
  BY <1>0, <1>9 DEF CheckMethod, Scanning
<1>10. CASE WriteFails(w)
  BY <1>0, <1>10 DEF WriteFails, Idle, Scanning
<1>11. CASE UpdatePeerInfo(w)
  BY <1>0, <1>11 DEF UpdatePeerInfo, Idle, ScanIsWhole, AddRecord, UpdatePeerByID,
                     Scanning
<1>12. CASE UpdateFails(w)
  BY <1>0, <1>12 DEF UpdateFails, Idle, AddRecord, Scanning
<1>13. CASE DeleteMethods(w)
  BY <1>0, <1>13 DEF DeleteMethods, Idle, ScanIsWhole, Scanning
<1> QED
  BY <1>1, <1>2, <1>3, <1>4, <1>5, <1>6, <1>7, <1>8, <1>9, <1>10, <1>11, <1>12,
                              <1>13 DEF WorkerStep

--------------------------------------------------------------------------------
(* What readers rely on. *)

LEMMA AliveHasNext ==
    ASSUME Types, Apart, Overlapped, Checking, Deleting, AliveHas, [Next]_vars
    PROVE  AliveHas'
<1>0. alive \subseteq Peers /\ alive' \subseteq Peers
  BY TRowsNext DEF Types, TRows
<1>1. ASSUME NEW w \in Workers, WorkerStep(w), NEW p \in alive' \ untested'
      PROVE  GetVersion \in support'[p]
  <2>0. /\ support \in [Peers -> SUBSET Methods] /\ p \in Peers
        /\ wpc[w] # "check" => todo[w] = {}
    BY <1>0, <1>1 DEF Types, TRows, TChecks
  <2>1. CASE Scanning(w) => peer[w] # p
    <3>1. support'[p] = support[p] /\ p \in alive
      BY <1>1, <2>0, <2>1, RowsOfOthers
    <3>2. p \notin untested
      BY <1>1, <2>0, <2>1, FindingsOfOthers, FindingsKept
    <3> QED
      BY <3>1, <3>2 DEF AliveHas
  <2>2. CASE Scanning(w) /\ peer[w] = p
    <3>1. CASE UNCHANGED <<alive, support, untested>>
      BY <1>1, <3>1 DEF AliveHas
    <3>2. CASE CheckMethod(w)
      <4>1. PICK m \in todo[w], ok \in BOOLEAN :
              ok \in Results(m) /\ support' = [support EXCEPT ![peer[w]] = Flag(@, m, ok)]
        BY <3>2 DEF CheckMethod
      <4>2. UNCHANGED <<alive, untested>>
        BY <3>2 DEF CheckMethod
      <4>3. GetVersion \in support[p]
        BY <1>1, <4>2 DEF AliveHas
      <4>4. support'[p] = Flag(support[p], m, ok) /\ (m = GetVersion => ok)
        BY <2>0, <2>2, <4>1 DEF Results
      <4> QED
        BY <4>3, <4>4 DEF Flag
    <3>3. CASE UpdatePeerInfo(w)
      <4>1. verdict[w] = "main net"
        BY <1>1, <2>2, <3>3 DEF UpdatePeerInfo, UpdatePeerByID, Flag
      <4>2. lone[w]
        BY <1>1, <2>2, <3>3, <4>1 DEF UpdatePeerInfo, ScanIsWhole, Overlapped
      <4>3. wpc[w] = "update" /\ UNCHANGED support
        BY <3>3 DEF UpdatePeerInfo, UpdatePeerByID
      <4>4. ChecksFit(w)
        BY DEF Checking
      <4>5. support[p] \cap (Methods \ todo[w]) = valid[w] /\ GetVersion \in todo[w] \cup valid[w]
        BY <2>2, <4>1, <4>2, <4>3, <4>4 DEF ChecksFit
      <4> QED
        BY <2>0, <4>3, <4>5
    <3>4. CASE DeleteMethods(w)
      <4>1. wpc[w] = "delete" /\ UNCHANGED alive /\ MarkedDead(w)
        BY <3>4 DEF DeleteMethods, Deleting
      <4>2. ~lone[w]
        BY <1>1, <2>2, <4>1 DEF MarkedDead
      <4> QED
        BY <1>1, <2>2, <3>4, <4>2 DEF DeleteMethods, ScanIsWhole, Overlapped
    <3> QED
      BY <1>1, <2>2, <3>1, <3>2, <3>3, <3>4
         DEF WorkerStep, Scanning, Take, SkipNewNodes, FindNewNodes, InsertNode, InsertFails,
             ReadMethods, GiveUpScan, Probe, WriteFails, UpdateFails
  <2> QED
    BY <2>1, <2>2
<1>2. CASE OtherStep
  BY <1>2, OtherStepStays DEF AliveHas
<1>3. CASE Restart
  BY <1>3 DEF Restart, AliveHas
<1> QED
  BY <1>1, <1>2, <1>3, StepCases DEF AliveHas

LEMMA KnownListedNext ==
    ASSUME Types, KnownListed, [Next]_vars
    PROVE  KnownListed'
<1>0. last \in [Peers -> Findings] /\ listed \subseteq listed'
  <2>1. ASSUME NEW w \in Workers, WorkerStep(w)
        PROVE  listed \subseteq listed'
    BY <2>1 DEF WorkerStep, Take, SkipNewNodes, FindNewNodes, InsertNode, InsertFails,
                ReadMethods, GiveUpScan, Probe, CheckMethod, WriteFails, UpdatePeerInfo,
                UpdateFails, DeleteMethods, GetOrCreatePeer, UpdatePeerByID
  <2>2. ASSUME OtherStep \/ Restart
        PROVE  listed \subseteq listed'
    BY <2>2 DEF OtherStep, GetPeers, BeforeRun, InsertPort, GetOrCreatePeer, GetSlots,
                WriteOutdated, WriteOutdatedFails, Cancel, vars, Restart
  <2> QED
    BY <2>1, <2>2, StepCases DEF Types, TRest
<1>1. ASSUME NEW w \in Workers, WorkerStep(w), NEW p \in Peers, last'[p].known
      PROVE  p \in listed'
  <2>1. CASE wpc[w] # "idle" /\ peer[w] = p
    BY <1>0, <2>1 DEF Types, TWorkers
  <2>2. CASE peer[w] # p
    BY <1>0, <1>1, <2>2, FindingsOfOthers DEF KnownListed
  <2>3. CASE wpc[w] = "idle"
    <3>1. ~NothingKnown.known
      BY DEF NothingKnown
    <3>2. last'[p] = last[p]
      BY <1>1, <2>3, <3>1, FindingsKept DEF Scanning
    <3> QED
      BY <1>0, <1>1, <3>2 DEF KnownListed
  <2> QED
    BY <2>1, <2>2, <2>3
<1>2. CASE OtherStep
  BY <1>0, <1>2, OtherStepStays DEF KnownListed
<1>3. CASE Restart
  BY <1>0, <1>3 DEF Restart, KnownListed, NothingKnown
<1> QED
  BY <1>1, <1>2, <1>3, StepCases DEF KnownListed

LEMMA LoneKnownNext ==
    ASSUME Types, Apart, LoneKnown, [Next]_vars
    PROVE  LoneKnown'
<1>0. ~NothingKnown.known
  BY DEF NothingKnown
<1>1. ASSUME NEW w \in Workers, WorkerStep(w), NEW u \in Workers, u # w
      PROVE  Forgotten(u)'
  <2>1. wpc'[u] = wpc[u] /\ peer'[u] = peer[u]
    BY <1>1, OthersStay
  <2> SUFFICES ASSUME Scanning(u), ~lone'[u]
               PROVE  ~last'[peer[u]].known
    BY <2>1 DEF Forgotten, Scanning
  <2>2. peer[u] \in Peers
    BY DEF Types, TWorkers, TRows, Scanning
  <2>3. lone[u] \in BOOLEAN /\ lone'[u] \in BOOLEAN /\ Forgotten(u)
    BY TWorkersNext DEF Types, TWorkers, LoneKnown
  <2>4. CASE peer[w] # peer[u]
    <3>1. ~lone[u]
      BY <1>1, <2>4, OthersStay
    <3>2. last'[peer[u]] = last[peer[u]]
      BY <1>1, <2>2, <2>4, FindingsOfOthers
    <3> QED
      BY <2>3, <3>1, <3>2 DEF Forgotten
  <2>5. CASE peer[w] = peer[u] /\ Scanning(w)
    <3>1. ~lone[u] /\ ~lone[w]
      BY <1>1, <2>5 DEF Apart
    <3>2. last'[peer[u]] = last[peer[u]] \/ last'[peer[u]] = NothingKnown
      BY <1>1, <2>2, <3>1, FindingsKept
    <3> QED
      BY <1>0, <2>3, <3>1, <3>2 DEF Forgotten
  <2>6. CASE peer[w] = peer[u] /\ ~Scanning(w)
    <3>1. last'[peer[u]] = last[peer[u]] \/ last'[peer[u]] = NothingKnown
      BY <1>1, <2>2, <2>6, FindingsKept
    <3>2. CASE ~lone[u]
      BY <1>0, <2>3, <3>1, <3>2 DEF Forgotten
    <3>3. CASE lone[u]
      <4>1. ReadMethods(w)
        BY <1>1, <2>6, <3>3
           DEF WorkerStep, Take, SkipNewNodes, FindNewNodes, InsertNode, InsertFails,
               GiveUpScan, Probe, CheckMethod, WriteFails, UpdatePeerInfo, UpdateFails,
               DeleteMethods, Idle, Scanning, Types, TWorkers
      <4>2. u \in Scans(peer[w])
        BY <2>6 DEF Scans
      <4>3. last \in [Peers -> Findings] /\ last' = [last EXCEPT ![peer[w]] =
                                               IF Scans(peer[w]) = {} THEN @ ELSE NothingKnown]
        BY <4>1 DEF ReadMethods, Types, TRest
      <4>4. last'[peer[u]] = NothingKnown
        <5> HIDE DEF NothingKnown
        <5> QED
          BY <2>2, <2>6, <4>2, <4>3
      <4> QED
        BY <1>0, <4>4
    <3> QED
      BY <3>2, <3>3
  <2> QED
    BY <2>4, <2>5, <2>6
<1>2. ASSUME NEW w \in Workers, WorkerStep(w)
      PROVE  Forgotten(w)'
  <2>1. CASE ReadMethods(w)
    <3>1. /\ wpc[w] = "methods" /\ UNCHANGED peer
          /\ lone' = [v \in Workers |-> IF v = w THEN Scans(peer[w]) = {}
                                        ELSE lone[v] /\ v \notin Scans(peer[w])]
          /\ last' = [last EXCEPT ![peer[w]] =
                        IF Scans(peer[w]) = {} THEN @ ELSE NothingKnown]
      BY <2>1 DEF ReadMethods
    <3>2. peer[w] \in Peers /\ last \in [Peers -> Findings]
      BY <3>1 DEF Types, TWorkers, TRows, TRest
    <3>3. CASE Scans(peer[w]) # {}
      <4>1. last'[peer[w]] = NothingKnown
        <5> HIDE DEF NothingKnown
        <5> QED
          BY <3>1, <3>2, <3>3
      <4> QED
        BY <1>0, <3>1, <4>1 DEF Forgotten
    <3>4. CASE Scans(peer[w]) = {}
      BY <3>1, <3>4 DEF Forgotten
    <3> QED
      BY <3>3, <3>4
  <2>2. CASE ~ReadMethods(w)
    <3> SUFFICES ASSUME Scanning(w)', ~lone'[w]
                 PROVE  ~last'[peer'[w]].known
      BY DEF Forgotten
    <3>1. Scanning(w) /\ ~lone[w] /\ peer'[w] = peer[w]
      BY <1>2, <2>2, ScanGoesOn
    <3>2. peer[w] \in Peers /\ ~last[peer[w]].known
      BY <3>1 DEF Types, TWorkers, TRows, Scanning, LoneKnown, Forgotten
    <3>3. last'[peer[w]] = last[peer[w]] \/ last'[peer[w]] = NothingKnown
      BY <1>2, <3>1, <3>2, FindingsKept
    <3> QED
      BY <1>0, <3>1, <3>2, <3>3
  <2> QED
    BY <2>1, <2>2
<1>3. ASSUME OtherStep, NEW u \in Workers
      PROVE  Forgotten(u)'
  BY <1>3, OtherStepStays DEF LoneKnown, Forgotten, Scanning
<1>4. CASE Restart
  BY <1>4 DEF Restart, LoneKnown, Forgotten, Scanning
<1> QED
  BY <1>1, <1>2, <1>3, <1>4, StepCases DEF LoneKnown

LEMMA AsFoundNext ==
    ASSUME Types, Apart, Checking, Deleting, KnownListed, LoneKnown, AsFound, [Next]_vars
    PROVE  AsFound'
<1>0. ~NothingKnown.known /\ listed \subseteq Peers /\ last \in [Peers -> Findings]
  BY DEF NothingKnown, Types, TRows, TRest
<1>1. ASSUME NEW w \in Workers, WorkerStep(w), NEW p \in Peers
      PROVE  FoundInRows(p)'
  <2>0. FoundInRows(p)
    BY DEF AsFound
  <2>1. CASE Scanning(w) => peer[w] # p
    <3>1. last'[p] = last[p] \/ last'[p] = NothingKnown
      BY <1>1, <2>1, FindingsOfOthers, FindingsKept
    <3> SUFFICES ASSUME last'[p].known, \A v \in Scans(p)' : wpc'[v] = "probe"
                 PROVE  FoundInRows(p)'
      BY DEF FoundInRows
    <3>2. last'[p] = last[p] /\ p \in listed
      BY <1>0, <3>1 DEF KnownListed
    <3>3. ASSUME NEW v \in Scans(p)
          PROVE  wpc[v] = "probe"
      <4>1. v \in Workers /\ v # w /\ Scanning(v) /\ peer[v] = p
        BY <2>1, <3>3 DEF Scans
      <4>2. wpc'[v] = wpc[v] /\ peer'[v] = peer[v]
        BY <1>1, <4>1, OthersStay
      <4>3. v \in Scans(p)'
        BY <4>1, <4>2 DEF Scans, Scanning
      <4> QED
        BY <4>2, <4>3
    <3>4. /\ support'[p] = support[p] /\ (p \in alive' <=> p \in alive)
          /\ (p \in rpc' <=> p \in rpc) /\ (p \in mainNet' <=> p \in mainNet)
      BY <1>1, <2>1, <3>2, RowsOfOthers
    <3>5. /\ (p \in alive) = last[p].alive /\ (p \in mainNet) = last[p].mainNet
          /\ (p \in rpc) = (last[p].alive /\ last[p].methods = Methods)
          /\ support[p] = last[p].methods
      BY <2>0, <3>2, <3>3 DEF FoundInRows
    <3> QED
      BY <3>2, <3>4, <3>5 DEF FoundInRows
  <2>2. CASE Scanning(w) /\ peer[w] = p /\ ~lone[w]
    <3>1. ~last[p].known
      BY <2>2 DEF LoneKnown, Forgotten
    <3>2. last'[p] = last[p] \/ last'[p] = NothingKnown
      BY <1>1, <2>2, FindingsKept
    <3> QED
      BY <1>0, <3>1, <3>2 DEF FoundInRows
  <2>3. CASE Scanning(w) /\ peer[w] = p /\ lone[w]
    <3>1. CASE GiveUpScan(w)
      <4>1. wpc[w] = "probe" /\ UNCHANGED <<rowVars, last>>
        BY <2>3, <3>1 DEF GiveUpScan, Scanning
      <4>2. \A v \in Scans(p) : wpc[v] = "probe"
        BY <2>3, <4>1 DEF Apart, Scans
      <4> QED
        BY <2>0, <4>1, <4>2 DEF FoundInRows
    <3>2. CASE Probe(w) \/ CheckMethod(w)
      <4>1. wpc'[w] \in {"check", "update"} /\ peer'[w] = p
        BY <2>3, <3>2 DEF Probe, CheckMethod, Types, TWorkers
      <4>2. w \in Scans(p)'
        BY <4>1 DEF Scans, Scanning
      <4> QED
        BY <4>1, <4>2 DEF FoundInRows
    <3>3. CASE WriteFails(w) \/ UpdateFails(w)
      <4>1. last' = [last EXCEPT ![peer[w]] = NothingKnown]
        BY <3>3 DEF WriteFails, UpdateFails
      <4>2. last'[p] = NothingKnown
        <5> HIDE DEF NothingKnown
        <5> QED
          BY <1>0, <2>3, <4>1
      <4> QED
        BY <1>0, <4>2 DEF FoundInRows
    <3>4. CASE UpdatePeerInfo(w) /\ verdict[w] # "main net"
      <4>1. wpc'[w] = "delete" /\ peer'[w] = p
        BY <2>3, <3>4 DEF UpdatePeerInfo, Types, TWorkers
      <4>2. w \in Scans(p)'
        BY <4>1 DEF Scans, Scanning
      <4> QED
        BY <4>1, <4>2 DEF FoundInRows
    <3>5. CASE UpdatePeerInfo(w) /\ verdict[w] = "main net"
      <4>1. /\ wpc[w] = "update" /\ UpdatePeerByID(w)
            /\ last' = [last EXCEPT ![peer[w]] = Found(TRUE, TRUE, valid[w])]
        BY <2>3, <3>5 DEF UpdatePeerInfo, ScanIsWhole
      <4>2. last'[p] = Found(TRUE, TRUE, valid[w])
        <5> HIDE DEF Found
        <5> QED
          BY <1>0, <2>3, <4>1
      <4>3. todo[w] = {} /\ support \in [Peers -> SUBSET Methods]
        BY <4>1 DEF Types, TChecks, TRows
      <4>4. ChecksFit(w)
        BY DEF Checking
      <4>5. support[p] = valid[w]
        BY <2>3, <3>5, <4>1, <4>3, <4>4 DEF ChecksFit
      <4>6. support'[p] = valid[w] /\ p \in alive' /\ p \in mainNet'
        BY <2>3, <3>5, <4>1, <4>5 DEF UpdatePeerByID, Flag, NewMainNet
      <4>7. p \in rpc' <=> valid[w] = Methods
        BY <2>3, <3>5, <4>1 DEF UpdatePeerByID, Flag
      <4>8. /\ last'[p].alive = TRUE /\ last'[p].mainNet = TRUE
            /\ last'[p].methods = valid[w]
        BY <4>2 DEF Found
      <4>9. /\ (p \in alive') = last'[p].alive /\ (p \in mainNet') = last'[p].mainNet
            /\ support'[p] = last'[p].methods
        BY <4>6, <4>8
      <4>10. (p \in rpc') = (last'[p].alive /\ last'[p].methods = Methods)
        BY <4>7, <4>8
      <4> QED
        BY <4>9, <4>10 DEF FoundInRows
    <3>6. CASE DeleteMethods(w)
      <4>1. /\ wpc[w] = "delete" /\ UNCHANGED <<alive, rpc, mainNet>>
            /\ support' = [support EXCEPT ![peer[w]] = {}]
            /\ last' = [last EXCEPT ![peer[w]] = Found(FALSE, NewMainNet(w), {})]
        BY <2>3, <3>6 DEF DeleteMethods, ScanIsWhole
      <4>2. last'[p] = Found(FALSE, NewMainNet(w), {})
        <5> HIDE DEF Found
        <5> QED
          BY <1>0, <2>3, <4>1
      <4>3. MarkedDead(w)
        BY DEF Deleting
      <4>4. p \notin alive /\ p \notin rpc /\ (p \in mainNet <=> NewMainNet(w))
        BY <2>3, <4>1, <4>3 DEF MarkedDead
      <4>5. support'[p] = {}
        BY <2>3, <4>1 DEF Types, TRows
      <4>6. NewMainNet(w) \in BOOLEAN
        BY DEF NewMainNet, Types, TWorkers
      <4>7. /\ last'[p].alive = FALSE /\ last'[p].mainNet = NewMainNet(w)
            /\ last'[p].methods = {}
        BY <4>2 DEF Found
      <4>8. /\ (p \in alive') = last'[p].alive
            /\ (p \in rpc') = (last'[p].alive /\ last'[p].methods = Methods)
            /\ support'[p] = last'[p].methods
        <5>1. p \notin alive' /\ p \notin rpc' /\ ~last'[p].alive
          BY <4>1, <4>4, <4>7
        <5>2. (p \in alive') = last'[p].alive
          <6>1. (p \in alive') = FALSE
            BY <5>1
          <6> HIDE <5>1
          <6> QED
            BY <4>7, <6>1, Zenon
        <5>3. (p \in rpc') = (last'[p].alive /\ last'[p].methods = Methods)
          BY <5>1
        <5> QED
          BY <4>5, <4>7, <5>2, <5>3
      <4>9. (p \in mainNet') = last'[p].mainNet
        <5>1. p \in mainNet' <=> NewMainNet(w)
          BY <4>1, <4>4
        <5>2. CASE NewMainNet(w)
          BY <4>6, <4>7, <5>1, <5>2
        <5>3. CASE ~NewMainNet(w)
          BY <4>6, <4>7, <5>1, <5>3
        <5> QED
          BY <5>2, <5>3
      <4> QED
        BY <4>8, <4>9 DEF FoundInRows
    <3> QED
      BY <1>1, <2>3, <3>1, <3>2, <3>3, <3>4, <3>5, <3>6
         DEF WorkerStep, Scanning, Take, SkipNewNodes, FindNewNodes, InsertNode, InsertFails,
             ReadMethods
  <2> QED
    BY <2>1, <2>2, <2>3
<1>2. ASSUME OtherStep, NEW p \in Peers
      PROVE  FoundInRows(p)'
  <2>1. /\ UNCHANGED <<wpc, peer, last, support, alive, rpc>>
        /\ \A q \in listed : q \in mainNet' <=> q \in mainNet
    BY <1>2, OtherStepStays
  <2>2. last[p].known => p \in listed
    BY DEF KnownListed
  <2>3. Scans(p)' = Scans(p)
    BY <2>1 DEF Scans, Scanning
  <2> SUFFICES ASSUME last[p].known, \A v \in Scans(p) : wpc[v] = "probe"
               PROVE  FoundInRows(p)'
    BY <2>1, <2>3 DEF FoundInRows
  <2>4. /\ (p \in alive) = last[p].alive /\ (p \in mainNet) = last[p].mainNet
        /\ (p \in rpc) = (last[p].alive /\ last[p].methods = Methods)
        /\ support[p] = last[p].methods
    BY DEF AsFound, FoundInRows
  <2>5. p \in mainNet' <=> p \in mainNet
    BY <2>1, <2>2
  <2> QED
    BY <2>1, <2>4, <2>5 DEF FoundInRows
<1>3. ASSUME Restart, NEW p \in Peers
      PROVE  FoundInRows(p)'
  <2>1. /\ UNCHANGED rowVars
        /\ last'[p] = IF Scans(p) = {} THEN last[p] ELSE NothingKnown
    <3> HIDE DEF NothingKnown
    <3> QED
      BY <1>3 DEF Restart
  <2>2. CASE Scans(p) = {}
    BY <2>1, <2>2 DEF AsFound, FoundInRows
  <2>3. CASE Scans(p) # {}
    BY <1>0, <2>1, <2>3 DEF FoundInRows
  <2> QED
    BY <2>2, <2>3
<1> QED
  BY <1>1, <1>2, <1>3, StepCases DEF AsFound

--------------------------------------------------------------------------------
(* The theorems. *)

Overlaps == Apart /\ Overlapped
Scanned == Checking /\ Deleting /\ KnownListed /\ LoneKnown
Inductive == Types /\ Rounds /\ Flags /\ Overlaps /\ Scanned /\ AliveHas /\ AsFound

LEMMA InitIsInductive ==
    Init => Inductive
<1> SUFFICES ASSUME Init
             PROVE  Inductive
  OBVIOUS
<1> USE DEF Init
<1>1. Types
  <2>1. 1 \in 1 .. MaxRounds
    BY StoreAssumption
  <2>2. NothingKnown \in Findings
    BY DEF NothingKnown, Findings
  <2>3. last \in [Peers -> Findings]
    <3> HIDE DEF NothingKnown, Findings
    <3> QED
      BY <2>2
  <2> QED
    BY <2>1, <2>3, StoreAssumption
       DEF Types, TRows, TRound, TWorkers, TChecks, TRest, Labels, Verdicts
<1>2. Rounds /\ Flags
  BY DEF Rounds, Flags, Busy, Early
<1>3. Overlaps
  BY DEF Overlaps, Apart, Overlapped, Scanning
<1>4. Scanned
  BY DEF Scanned, Checking, ChecksFit, Deleting, MarkedDead, KnownListed, LoneKnown,
         Forgotten, Scanning, NothingKnown
<1>5. AliveHas /\ AsFound
  BY DEF AliveHas, AsFound, FoundInRows, NothingKnown
<1> QED
  BY <1>1, <1>2, <1>3, <1>4, <1>5 DEF Inductive

\* The strengthening of all the invariants below holds for every set of peers,
\* methods, workers and slots, and every number of rounds.
THEOREM StoreInductive ==
    Spec => []Inductive
<1>1. Inductive /\ [Next]_vars => Inductive'
  <2> SUFFICES ASSUME Inductive, [Next]_vars
               PROVE  Inductive'
    OBVIOUS
  <2>1. Types' /\ Rounds' /\ Flags'
    BY TRowsNext, TRoundNext, TWorkersNext, TChecksNext, TRestNext, RoundsNext,
       FlagsNext
       DEF Inductive, Types
  <2>2. Overlaps' /\ Scanned'
    BY ApartNext, OverlappedNext, CheckingNext, DeletingNext, KnownListedNext,
       LoneKnownNext
       DEF Inductive, Overlaps, Scanned
  <2>3. AliveHas' /\ AsFound'
    BY AliveHasNext, AsFoundNext DEF Inductive, Overlaps, Scanned
  <2> QED
    BY <2>1, <2>2, <2>3 DEF Inductive
<1> QED
  BY <1>1, InitIsInductive, PTL DEF Spec

\* The rows of the scanner's database, the state of its workers and of the checks
\* keep their types; flags belong to peers that have a row (peers.go:62-81).
THEOREM StoreTypeCorrect ==
    Spec => []TypeOK
<1>1. Inductive => TypeOK
  BY DEF Inductive, Types, TRows, TRound, TWorkers, TChecks, TRest, TypeOK, Labels,
         Verdicts,
         Findings
<1> QED
  BY <1>1, StoreInductive, PTL

\* Whatever fails, is canceled or crashes between two statements, an endpoint that
\* readers get has methods, once a whole scan of it ran alone
\* (scan_methods.go:76-111, peers.go:133-151).
THEOREM EndpointsHaveMethods ==
    Spec => []VisibleHasMethods
<1>1. Inductive => VisibleHasMethods
  BY DEF Inductive, AliveHas, VisibleHasMethods, Visible
<1> QED
  BY <1>1, StoreInductive, PTL

\* A whole scan that ran alone leaves the rows of its peer as it found the node,
\* and nothing but another scan of the peer changes them (scan_methods.go:46-113).
THEOREM RowsHoldTheScan ==
    Spec => []RowsAreAsFound
<1>1. Inductive => RowsAreAsFound
  BY DEF Inductive, AsFound, FoundInRows, RowsAreAsFound
<1> QED
  BY <1>1, StoreInductive, PTL

\* No two scans have records with the same key unless a worker was late
\* (scan_methods.go:14-20, solana.go:149).
THEOREM RecordsHaveKeys ==
    Spec => []RecordsAreKept
<1>1. Inductive => RecordsAreKept
  BY DEF Inductive, Rounds, RecordsAreKept
<1> QED
  BY <1>1, StoreInductive, PTL

\* The flag of a peer is what its latest measurement says, the wrapped subtraction
\* included, for every size of the slots and of the shift (solana.go:205-227).
THEOREM FlagIsMeasured ==
    Spec => []OutdatedAsMeasured
<1>1. Inductive => OutdatedAsMeasured
  BY DEF Inductive, Flags, OutdatedAsMeasured
<1> QED
  BY <1>1, StoreInductive, PTL
================================================================================
