-------------------------- MODULE ScanSchedulerProofs --------------------------
(***************************************************************************)
(* Proofs about ScanScheduler for every set of peers and any number of     *)
(* workers and rounds: no task is lost, one scan at most is sent after the *)
(* signal, and nothing is under way any more once Wait has returned.       *)
(***************************************************************************)
EXTENDS ScanScheduler, FiniteSetTheorems, TLAPS

USE DEF queueVars, workerVars, processVars

WorkerStates == {"off", "select", "new nodes", "scan", "stopped"}

\* TypeOK, but for the counter, which is at least zero because of what it counts.
Types ==
    /\ known \subseteq Peers
    /\ started \in [Queues -> 0 .. ThreadsNum + 1]
    /\ counter \in Int
    /\ sched \in [Queues -> SchedulerStates]
    /\ round \in [Queues -> 1 .. MaxRounds]
    /\ left \in [Queues -> SUBSET Peers]
    /\ offered \in [Queues -> Tasks \cup {NoTask}]
    /\ worker \in [Queues -> [Workers -> WorkerStates]]
    /\ task \in [Queues -> [Workers -> Tasks \cup {NoTask}]]
    /\ outdated \in {"check", "sleep", "stopped"}
    /\ stopped \in BOOLEAN
    /\ waiter \in {"off", "started", "blocked", "released", "returned"}
    /\ main \in {"running", "select", "clean", "ended", "fatal"}
    /\ snapshot \in [Queues -> SUBSET Peers]
    /\ done \in [Queues -> SUBSET Tasks]
    /\ sentLate \in Nat

\* What is sent, and what is being carried out, is a task.
TasksAtHand ==
    \A q \in Queues : /\ sched[q] = "send" => offered[q] \in Tasks
                      /\ \A w \in Workers : Busy(q, w) => task[q][w] \in Tasks

\* The goroutines the WaitGroup counts; 0 is a queue's scheduler.
Goroutines == Queues \X (0 .. ThreadsNum)
IsLive(q, i) == IF i = 0 THEN sched[q] \notin {"off", "stopped"}
                         ELSE worker[q][i] \notin {"off", "stopped"}
Live == {g \in Goroutines : IsLive(g[1], g[2])}

\* They are started in their order, and counted until they end.
Counted ==
    /\ counter = Cardinality(Live)
    /\ \A q \in Queues : /\ started[q] = 0 => sched[q] = "off"
                         /\ \A w \in Workers : started[q] <= w => worker[q][w] = "off"

\* Where a peer of the round is: still to be sent, about to be, or received.
Accounted(q, p) ==
    \/ p \in left[q]
    \/ sched[q] = "send" /\ offered[q] = <<p, round[q]>>
    \/ <<p, round[q]>> \in done[q]
    \/ \E w \in Workers : Busy(q, w) /\ task[q][w] = <<p, round[q]>>
Underway ==
    \A q \in Queues :
        /\ sched[q] = "wait" => left[q] = {}
        /\ sched[q] \in {"range", "send", "wait"} => \A p \in snapshot[q] : Accounted(q, p)

\* Once stopped, the scan scheduler is not blocked again after it has sent.
LateScans ==
    /\ sentLate \in {0, 1}
    /\ ~stopped => sentLate = 0
    /\ sched["scan"] = "send" => sentLate = 0

\* There is nothing to wait for before the signal: what Wait has left quiet cannot
\* read peers again.
Quiet == (waiter # "off" => stopped) /\ CleanStopIsQuiet

IInv == Types /\ TasksAtHand /\ Counted /\ Underway /\ LateScans /\ Quiet

--------------------------------------------------------------------------------
(* What a step does to the functions of functions. *)

LEMMA WorkerChanges ==
    ASSUME Types, NEW q \in Queues, NEW w \in Workers, NEW label \in WorkerStates,
           WorkerTo(q, w, label)
    PROVE  /\ worker' \in [Queues -> [Workers -> WorkerStates]]
           /\ worker'[q][w] = label
           /\ \A r \in Queues, v \in Workers : r # q \/ v # w => worker'[r][v] = worker[r][v]
BY DEF Types, WorkerTo

LEMMA TaskChanges ==
    ASSUME Types, NEW q \in Queues, NEW w \in Workers, NEW t \in Tasks \cup {NoTask},
           task' = [task EXCEPT ![q][w] = t]
    PROVE  /\ task' \in [Queues -> [Workers -> Tasks \cup {NoTask}]]
           /\ task'[q][w] = t
           /\ \A r \in Queues, v \in Workers : r # q \/ v # w => task'[r][v] = task[r][v]
<1> DEFINE T == Tasks \cup {NoTask}
<1> HIDE DEF T
<1>1. task \in [Queues -> [Workers -> T]] /\ t \in T
  BY DEF Types, T
<1>2. /\ task' \in [Queues -> [Workers -> T]]
      /\ task'[q][w] = t
      /\ \A r \in Queues, v \in Workers : r # q \/ v # w => task'[r][v] = task[r][v]
  BY <1>1
<1> QED BY <1>2 DEF T

LEMMA SchedChanges ==
    ASSUME Types, NEW q \in Queues, NEW from, NEW to \in SchedulerStates, SchedAt(q, from, to)
    PROVE  /\ sched[q] = from /\ sched'[q] = to
           /\ sched' \in [Queues -> SchedulerStates]
           /\ \A r \in Queues : r # q => sched'[r] = sched[r]
BY DEF Types, SchedAt

\* The task a scheduler offers.
LEMMA OfferedIsTask ==
    ASSUME Types, NEW q \in Queues, NEW p \in Peers
    PROVE  <<p, round[q]>> \in Tasks
BY DEF Types, Tasks

LEMMA SpawnedWorker ==
    ASSUME Types, NEW q \in Queues, Spawn(q), started[q] # 0
    PROVE  /\ started[q] \in Workers
           /\ worker' \in [Queues -> [Workers -> WorkerStates]]
           /\ worker'[q][started[q]] = "select"
           /\ \A r \in Queues, v \in Workers :
                 r # q \/ v # started[q] => worker'[r][v] = worker[r][v]
           /\ UNCHANGED <<sched, offered, task>>
<1>1. started[q] \in Workers
  BY ThreadsNumAssumption DEF Spawn, Types, Workers
<1>2. WorkerTo(q, started[q], "select")
  BY DEF Spawn
<1>3. "select" \in WorkerStates
  BY DEF WorkerStates
<1>4. UNCHANGED <<sched, offered, task>>
  BY DEF Spawn
<1> QED BY <1>1, <1>2, <1>3, <1>4, WorkerChanges

LEMMA ReceiveChanges ==
    ASSUME Types, NEW q \in Queues, NEW w \in Workers, Receive(q, w), offered[q] \in Tasks
    PROVE  /\ worker[q][w] = "select" /\ sched[q] = "send" /\ sched'[q] = "range"
           /\ \A r \in Queues : r # q => sched'[r] = sched[r] /\ offered'[r] = offered[r]
           /\ \A r \in Queues, v \in Workers : r # q \/ v # w =>
                worker'[r][v] = worker[r][v] /\ task'[r][v] = task[r][v]
           /\ \A r \in Queues : done[r] \subseteq done'[r]
           /\ \/ worker'[q][w] = "select" /\ offered[q] \in done'[q]
              \/ worker'[q][w] \in {"new nodes", "scan"} /\ task'[q][w] = offered[q]
<1>1. /\ worker[q][w] = "select" /\ sched[q] = "send" /\ sched'[q] = "range"
      /\ \A r \in Queues : r # q => sched'[r] = sched[r]
  BY SchedChanges DEF Receive, SchedulerStates
<1>2. \A r \in Queues : r # q => offered'[r] = offered[r]
  BY DEF Receive, Types
<1>3. CASE q = "scan" /\ offered[q][1] \in Unsupported
  <2>1. done' = [done EXCEPT ![q] = @ \cup {offered[q]}] /\ UNCHANGED <<worker, task>>
    BY <1>3 DEF Receive
  <2>2. offered[q] \in done'[q] /\ \A r \in Queues : done[r] \subseteq done'[r]
    BY <2>1 DEF Types
  <2> QED BY <1>1, <1>2, <2>1, <2>2
<1>4. CASE ~(q = "scan" /\ offered[q][1] \in Unsupported)
  <2> DEFINE label == IF q = "scan" THEN "new nodes" ELSE "scan"
  <2>1. WorkerTo(q, w, label) /\ task' = [task EXCEPT ![q][w] = offered[q]] /\ done' = done
    BY <1>4 DEF Receive
  <2>2. label \in WorkerStates /\ label \in {"new nodes", "scan"}
    BY DEF WorkerStates
  <2> HIDE DEF label
  <2>3. worker'[q][w] = label /\ \A r \in Queues, v \in Workers :
             r # q \/ v # w => worker'[r][v] = worker[r][v]
    BY <2>1, <2>2, WorkerChanges
  <2>4. task'[q][w] = offered[q] /\ \A r \in Queues, v \in Workers :
             r # q \/ v # w => task'[r][v] = task[r][v]
    BY <2>1, TaskChanges
  <2> QED BY <1>1, <1>2, <2>1, <2>2, <2>3, <2>4
<1> QED BY <1>3, <1>4

LEMMA ScanChanges ==
    ASSUME Types, NEW q \in Queues, NEW w \in Workers, Scan(q, w)
    PROVE  /\ worker[q][w] = "scan" /\ worker'[q][w] = "select"
           /\ \A r \in Queues, v \in Workers : r # q \/ v # w =>
                worker'[r][v] = worker[r][v] /\ task'[r][v] = task[r][v]
           /\ UNCHANGED <<sched, offered>>
           /\ done' = [done EXCEPT ![q] = @ \cup {task[q][w]}]
<1>1. WorkerTo(q, w, "select") /\ "select" \in WorkerStates
  BY DEF Scan, WorkerStates
<1>2. task' = [task EXCEPT ![q][w] = NoTask]
  BY DEF Scan
<1>3. worker'[q][w] = "select" /\ \A r \in Queues, v \in Workers :
           r # q \/ v # w => worker'[r][v] = worker[r][v]
  BY <1>1, WorkerChanges
<1>4. \A r \in Queues, v \in Workers : r # q \/ v # w => task'[r][v] = task[r][v]
  BY <1>2, TaskChanges
<1> QED BY <1>3, <1>4 DEF Scan

LEMMA StopWorkerChanges ==
    ASSUME Types, NEW q \in Queues, NEW w \in Workers, StopWorker(q, w)
    PROVE  /\ worker[q][w] = "select" /\ worker'[q][w] = "stopped"
           /\ \A r \in Queues, v \in Workers : r # q \/ v # w => worker'[r][v] = worker[r][v]
           /\ UNCHANGED <<sched, offered, task>>
<1>1. WorkerTo(q, w, "stopped") /\ "stopped" \in WorkerStates
  BY DEF StopWorker, WorkerStates
<1> QED BY <1>1, WorkerChanges DEF StopWorker

LEMMA NewNodesChanges ==
    ASSUME Types, NEW w \in Workers, GetNewNodes(w)
    PROVE  /\ worker["scan"][w] = "new nodes" /\ worker'["scan"][w] = "scan"
           /\ \A r \in Queues, v \in Workers :
                 r # "scan" \/ v # w => worker'[r][v] = worker[r][v]
           /\ UNCHANGED <<sched, offered, task>>
<1>1. WorkerTo("scan", w, "scan") /\ "scan" \in WorkerStates /\ "scan" \in Queues
  BY DEF GetNewNodes, WorkerStates, Queues
<1> QED BY <1>1, WorkerChanges DEF GetNewNodes

\* Steps that do not touch the schedulers, the workers and their tasks.
MainStep == Stop \/ ServiceStopped \/ Timeout \/ Exit

OtherStep ==
    \/ \E q \in Queues : SpawnPanics(q) \/ FetchFails(q)
    \/ UpdateAdaptersFails \/ Outdated \/ WaiterStep \/ MainStep \/ UNCHANGED vars

LEMMA OtherChanges ==
    ASSUME OtherStep
    PROVE  UNCHANGED <<sched, round, left, offered, worker, task, started, counter, snapshot, done,
                       sentLate>>
<1>1. CASE \E q \in Queues : SpawnPanics(q) \/ FetchFails(q)
  BY <1>1 DEF SpawnPanics, FetchFails
<1>2. CASE UpdateAdaptersFails \/ Outdated
  BY <1>2 DEF UpdateAdaptersFails, Outdated, StartOutdated, CheckOutdated, OutdatedFails,
              StopOutdated
<1>3. CASE WaiterStep
  BY <1>3 DEF WaiterStep, Wait, WaitReturns, WaitPanics, WaiterTo
<1>4. CASE MainStep
  BY <1>4 DEF MainStep, Stop, ServiceStopped, Timeout, Exit, MainTo
<1>5. CASE UNCHANGED vars
  BY <1>5 DEF vars
<1> QED BY <1>1, <1>2, <1>3, <1>4, <1>5 DEF OtherStep

--------------------------------------------------------------------------------
LEMMA NextTypes ==
    ASSUME Types, TasksAtHand, [Next]_vars
    PROVE  Types'
<1>1. ASSUME NEW q \in Queues, Spawn(q)
      PROVE  Types'
  <2>1. started' \in [Queues -> 0 .. ThreadsNum + 1]
    <3>1. started[q] + 1 \in 0 .. ThreadsNum + 1
      BY <1>1, ThreadsNumAssumption DEF Spawn, Types
    <3> QED BY <1>1, <3>1 DEF Spawn, Types
  <2>2. sched' \in [Queues -> SchedulerStates]
    BY <1>1, SchedChanges DEF Spawn, Types, SchedulerStates
  <2>3. counter' \in Int
    BY <1>1 DEF Spawn, WaitGroupAdd, Types
  <2>4. worker' \in [Queues -> [Workers -> WorkerStates]]
    <3>1. CASE started[q] = 0
      BY <1>1, <3>1 DEF Spawn, Types
    <3>2. CASE started[q] # 0
      <4>1. started[q] \in Workers
        BY <1>1, <3>2, ThreadsNumAssumption DEF Spawn, Types, Workers
      <4> QED BY <1>1, <3>2, <4>1, WorkerChanges DEF Spawn, WorkerStates
    <3> QED BY <3>1, <3>2
  <2> QED BY <1>1, <2>1, <2>2, <2>3, <2>4 DEF Spawn, Types
<1>2. ASSUME NEW q \in Queues, Fetch(q)
      PROVE  Types'
  <2>1. PICK ps \in Read(q) : /\ left' = [left EXCEPT ![q] = ps]
                              /\ snapshot' = [snapshot EXCEPT ![q] = ps]
    BY <1>2 DEF Fetch
  <2>2. ps \subseteq Peers
    BY DEF Read, Fetched, Types
  <2>3. left' \in [Queues -> SUBSET Peers] /\ snapshot' \in [Queues -> SUBSET Peers]
    BY <2>1, <2>2 DEF Types
  <2>4. sched' \in [Queues -> SchedulerStates]
    BY <1>2, SchedChanges DEF Fetch, SchedulerStates
  <2> QED BY <1>2, <2>3, <2>4 DEF Fetch, Types
<1>3. ASSUME NEW q \in Queues, SpawnPanics(q) \/ FetchFails(q)
      PROVE  Types'
  BY <1>3 DEF SpawnPanics, FetchFails, Fatal, Types
<1>4. ASSUME NEW q \in Queues, Offer(q)
      PROVE  Types'
  <2>1. PICK p \in left[q] : /\ left' = [left EXCEPT ![q] = @ \ {p}]
                             /\ offered' = [offered EXCEPT ![q] = <<p, round[q]>>]
    BY <1>4 DEF Offer
  <2>2. p \in Peers
    BY DEF Types
  <2>3. left' \in [Queues -> SUBSET Peers]
    BY <2>1 DEF Types
  <2>4. offered' \in [Queues -> Tasks \cup {NoTask}]
    BY <2>1, <2>2, OfferedIsTask DEF Types
  <2>5. sched' \in [Queues -> SchedulerStates]
    BY <1>4, SchedChanges DEF Offer, SchedulerStates
  <2> QED BY <1>4, <2>3, <2>4, <2>5 DEF Offer, Types
<1>5. ASSUME NEW q \in Queues, RoundOver(q)
      PROVE  Types'
  <2>1. sched' \in [Queues -> SchedulerStates]
    BY <1>5, SchedChanges DEF RoundOver, SchedulerStates
  <2> QED BY <1>5, <2>1 DEF RoundOver, Types
<1>6. ASSUME NEW q \in Queues, StopScheduler(q)
      PROVE  Types'
  <2>1. sched' \in [Queues -> SchedulerStates]
    BY <1>6 DEF StopScheduler, SchedulerStates, Types
  <2>2. counter' \in Int /\ waiter' \in {waiter, "released"}
    BY <1>6 DEF StopScheduler, WaitGroupDone, Types
  <2> QED BY <1>6, <2>1, <2>2 DEF StopScheduler, Types
<1>7. ASSUME NEW q \in Queues, NextRound(q)
      PROVE  Types'
  <2>1. sched' \in [Queues -> SchedulerStates]
    BY <1>7 DEF NextRound, SchedAt, SchedulerStates, Types
  <2>2. round[q] + 1 \in 1 .. MaxRounds
    <3>1. /\ round["scan"] + round["nmap"] < MaxRounds /\ q \in {"scan", "nmap"}
          /\ round["scan"] \in 1 .. MaxRounds /\ round["nmap"] \in 1 .. MaxRounds
      BY <1>7 DEF NextRound, Types, Queues
    <3> QED BY <3>1, MaxRoundsAssumption
  <2>3. round' \in [Queues -> 1 .. MaxRounds]
    BY <1>7, <2>2 DEF NextRound, Types
  <2> QED BY <1>7, <2>1, <2>3 DEF NextRound, Types
<1>8. CASE UpdateAdapters \/ UpdateAdaptersFails
  <2>1. sched' \in [Queues -> SchedulerStates]
    BY <1>8 DEF UpdateAdapters, UpdateAdaptersFails, SchedAt, SchedulerStates, Types, Queues
  <2> QED BY <1>8, <2>1 DEF UpdateAdapters, UpdateAdaptersFails, Fatal, Types
<1>9. ASSUME NEW q \in Queues, NEW w \in Workers, Receive(q, w)
      PROVE  Types'
  <2>1. offered[q] \in Tasks
    BY <1>9 DEF Receive, SchedAt, TasksAtHand
  <2>2. sched' \in [Queues -> SchedulerStates]
    BY <1>9, SchedChanges DEF Receive, SchedulerStates
  <2>3. offered' \in [Queues -> Tasks \cup {NoTask}]
    BY <1>9 DEF Receive, Types
  <2>4. sentLate' \in Nat
    <3>1. sentLate' \in {sentLate, sentLate + 1}
      BY <1>9 DEF Receive
    <3> QED BY <3>1 DEF Types
  <2>5. /\ worker' \in [Queues -> [Workers -> WorkerStates]]
        /\ task' \in [Queues -> [Workers -> Tasks \cup {NoTask}]]
        /\ done' \in [Queues -> SUBSET Tasks]
    <3>1. CASE q = "scan" /\ offered[q][1] \in Unsupported
      <4>1. done' = [done EXCEPT ![q] = @ \cup {offered[q]}] /\ UNCHANGED <<worker, task>>
        BY <1>9, <3>1 DEF Receive
      <4> QED BY <2>1, <4>1 DEF Types
    <3>2. CASE ~(q = "scan" /\ offered[q][1] \in Unsupported)
      <4>1. /\ WorkerTo(q, w, IF q = "scan" THEN "new nodes" ELSE "scan")
            /\ task' = [task EXCEPT ![q][w] = offered[q]] /\ done' = done
        BY <1>9, <3>2 DEF Receive
      <4> QED BY <2>1, <4>1, WorkerChanges, TaskChanges DEF Types, WorkerStates
    <3> QED BY <3>1, <3>2
  <2> QED BY <1>9, <2>2, <2>3, <2>4, <2>5 DEF Receive, Types
<1>10. ASSUME NEW q \in Queues, NEW w \in Workers, Scan(q, w)
      PROVE  Types'
  <2>1. task[q][w] \in Tasks
    BY <1>10 DEF Scan, TasksAtHand, Busy
  <2>2. worker' \in [Queues -> [Workers -> WorkerStates]]
    BY <1>10, WorkerChanges DEF Scan, WorkerStates
  <2>3. task' \in [Queues -> [Workers -> Tasks \cup {NoTask}]]
    BY <1>10, TaskChanges DEF Scan
  <2>4. done' \in [Queues -> SUBSET Tasks]
    BY <1>10, <2>1 DEF Scan, Types
  <2>5. known' \subseteq Peers
    BY <1>10 DEF Scan, Types
  <2> QED BY <1>10, <2>2, <2>3, <2>4, <2>5 DEF Scan, Types
<1>11. ASSUME NEW q \in Queues, NEW w \in Workers, StopWorker(q, w)
      PROVE  Types'
  <2>1. worker' \in [Queues -> [Workers -> WorkerStates]]
    BY <1>11, WorkerChanges DEF StopWorker, WorkerStates
  <2>2. counter' \in Int /\ waiter' \in {waiter, "released"}
    BY <1>11 DEF StopWorker, WaitGroupDone, Types
  <2> QED BY <1>11, <2>1, <2>2 DEF StopWorker, Types
<1>12. ASSUME NEW w \in Workers, GetNewNodes(w)
      PROVE  Types'
  <2>1. worker' \in [Queues -> [Workers -> WorkerStates]]
    BY <1>12, WorkerChanges DEF GetNewNodes, WorkerStates, Queues
  <2>2. known' \subseteq Peers
    BY <1>12 DEF GetNewNodes, Types
  <2> QED BY <1>12, <2>1, <2>2 DEF GetNewNodes, Types
<1>13. CASE Outdated
  BY <1>13 DEF Outdated, StartOutdated, CheckOutdated, OutdatedFails, StopOutdated, Fatal, Types
<1>14. CASE WaiterStep
  <2>1. waiter' \in {waiter, "blocked", "returned"} /\ main' \in {main, "fatal"}
    BY <1>14 DEF WaiterStep, Wait, WaitReturns, WaitPanics, WaiterTo, Fatal
  <2> QED BY <1>14, <2>1 DEF WaiterStep, Wait, WaitReturns, WaitPanics, WaiterTo, Types
<1>15. CASE MainStep
  BY <1>15 DEF MainStep, Stop, ServiceStopped, Timeout, Exit, MainTo, Types
<1>16. CASE UNCHANGED vars
  BY <1>16 DEF vars, Types
<1> QED
  BY <1>1, <1>2, <1>3, <1>4, <1>5, <1>6, <1>7, <1>8, <1>9, <1>10, <1>11, <1>12, <1>13, <1>14,
     <1>15, <1>16
     DEF Next, SchedulerStep, WorkerStep, MainStep

LEMMA NextTasksAtHand ==
    ASSUME Types, TasksAtHand, [Next]_vars
    PROVE  TasksAtHand'
<1>1. ASSUME NEW q \in Queues, Spawn(q)
      PROVE  TasksAtHand'
  <2>1. CASE started[q] = 0
    <3>1. \A r \in Queues : sched'[r] = "send" => sched[r] = "send"
      BY <1>1, <2>1, SchedChanges DEF Spawn, SchedulerStates
    <3> QED BY <1>1, <2>1, <3>1 DEF Spawn, TasksAtHand, Busy
  <2>2. CASE started[q] # 0
    <3>1. /\ UNCHANGED <<sched, offered, task>>
          /\ \A r \in Queues, v \in Workers :
                worker'[r][v] = worker[r][v] \/ worker'[r][v] = "select"
      BY <1>1, <2>2, SpawnedWorker
    <3> QED BY <3>1 DEF TasksAtHand, Busy
  <2> QED BY <2>1, <2>2
<1>2. ASSUME NEW q \in Queues, Fetch(q) \/ RoundOver(q) \/ NextRound(q) \/ StopScheduler(q)
      PROVE  TasksAtHand'
  <2>1. \A r \in Queues : sched'[r] = "send" => sched[r] = "send"
    BY <1>2 DEF Fetch, RoundOver, NextRound, StopScheduler, SchedAt, Types
  <2>2. worker' = worker /\ task' = task /\ offered' = offered
    BY <1>2 DEF Fetch, RoundOver, NextRound, StopScheduler
  <2> QED BY <2>1, <2>2 DEF TasksAtHand, Busy
<1>3. ASSUME NEW q \in Queues, Offer(q)
      PROVE  TasksAtHand'
  <2>1. PICK p \in left[q] : offered' = [offered EXCEPT ![q] = <<p, round[q]>>]
    BY <1>3 DEF Offer
  <2>2. offered'[q] \in Tasks /\ \A r \in Queues : r # q => offered'[r] = offered[r]
    BY <2>1, OfferedIsTask DEF Types
  <2>3. \A r \in Queues : r # q => sched'[r] = sched[r]
    BY <1>3, SchedChanges DEF Offer, SchedulerStates
  <2>4. worker' = worker /\ task' = task
    BY <1>3 DEF Offer
  <2> QED BY <2>2, <2>3, <2>4 DEF TasksAtHand, Busy
<1>4. CASE UpdateAdapters
  BY <1>4 DEF UpdateAdapters, SchedAt, Types, Queues, TasksAtHand, Busy
<1>5. ASSUME NEW q \in Queues, NEW w \in Workers, Receive(q, w)
      PROVE  TasksAtHand'
  <2>1. offered[q] \in Tasks
    BY <1>5 DEF Receive, SchedAt, TasksAtHand
  <2>2. /\ worker[q][w] = "select" /\ sched[q] = "send" /\ sched'[q] = "range"
        /\ \A r \in Queues : r # q => sched'[r] = sched[r] /\ offered'[r] = offered[r]
        /\ \A r \in Queues, v \in Workers : r # q \/ v # w =>
             worker'[r][v] = worker[r][v] /\ task'[r][v] = task[r][v]
        /\ \A r \in Queues : done[r] \subseteq done'[r]
        /\ \/ worker'[q][w] = "select" /\ offered[q] \in done'[q]
           \/ worker'[q][w] \in {"new nodes", "scan"} /\ task'[q][w] = offered[q]
    BY <1>5, <2>1, ReceiveChanges
  <2>3. \A r \in Queues : sched'[r] = "send" => sched[r] = "send" /\ offered'[r] = offered[r]
    BY <2>2
  <2>4. \A r \in Queues, v \in Workers : worker'[r][v] \in {"new nodes", "scan"} =>
           \/ task'[r][v] = offered[q]
           \/ worker'[r][v] = worker[r][v] /\ task'[r][v] = task[r][v]
    BY <2>2
  <2> QED BY <2>1, <2>3, <2>4 DEF TasksAtHand, Busy
<1>6. ASSUME NEW q \in Queues, NEW w \in Workers, Scan(q, w)
      PROVE  TasksAtHand'
  <2>1. UNCHANGED <<sched, offered>> /\ \A r \in Queues, v \in Workers :
           worker'[r][v] \in {"new nodes", "scan"} =>
                worker'[r][v] = worker[r][v] /\ task'[r][v] = task[r][v]
    <3>1. /\ worker'[q][w] = "select"
          /\ \A r \in Queues, v \in Workers : r # q \/ v # w =>
                worker'[r][v] = worker[r][v] /\ task'[r][v] = task[r][v]
          /\ UNCHANGED <<sched, offered>>
      BY <1>6, ScanChanges
    <3> QED BY <3>1
  <2> QED BY <2>1 DEF TasksAtHand, Busy
<1>7. ASSUME NEW q \in Queues, NEW w \in Workers, StopWorker(q, w)
      PROVE  TasksAtHand'
  <2>1. UNCHANGED <<sched, offered, task>> /\ \A r \in Queues, v \in Workers :
           worker'[r][v] \in {"new nodes", "scan"} => worker'[r][v] = worker[r][v]
    <3>1. /\ worker'[q][w] = "stopped"
          /\ \A r \in Queues, v \in Workers : r # q \/ v # w => worker'[r][v] = worker[r][v]
          /\ UNCHANGED <<sched, offered, task>>
      BY <1>7, StopWorkerChanges
    <3> QED BY <3>1
  <2> QED BY <2>1 DEF TasksAtHand, Busy
<1>8. ASSUME NEW w \in Workers, GetNewNodes(w)
      PROVE  TasksAtHand'
  <2>1. "scan" \in Queues
    BY DEF Queues
  <2> QED BY <1>8, <2>1, NewNodesChanges DEF TasksAtHand, Busy
<1>9. CASE OtherStep
  BY <1>9, OtherChanges DEF TasksAtHand, Busy
<1> QED
  BY <1>1, <1>2, <1>3, <1>4, <1>5, <1>6, <1>7, <1>8, <1>9
     DEF Next, SchedulerStep, WorkerStep, OtherStep, MainStep

--------------------------------------------------------------------------------
(* The WaitGroup. *)

LEMMA LiveFinite == IsFiniteSet(Live) /\ Cardinality(Live) \in Nat
<1>1. IsFiniteSet(0 .. ThreadsNum)
  BY ThreadsNumAssumption, FS_Interval
<1>2. IsFiniteSet(Queues)
  <2>1. IsFiniteSet({"scan"})
    BY FS_Singleton
  <2>2. Queues = {"scan"} \cup {"nmap"}
    BY DEF Queues
  <2> QED BY <2>1, <2>2, FS_AddElement
<1>3. IsFiniteSet(Goroutines)
  BY <1>1, <1>2, FS_Product DEF Goroutines
<1> QED BY <1>3, FS_Subset, FS_CardinalityType DEF Live

\* The counter follows the one goroutine that a step starts or ends.
LEMMA NextCounted ==
    ASSUME Types, TasksAtHand, Counted, [Next]_vars
    PROVE  Counted'
<1> DEFINE Order == \A q \in Queues :
              /\ started[q] = 0 => sched[q] = "off"
              /\ \A w \in Workers : started[q] <= w => worker[q][w] = "off"
<1>o. Order
  BY DEF Counted
<1>a. ASSUME \A q \in Queues, i \in 0 .. ThreadsNum : IsLive(q, i)' = IsLive(q, i),
             counter' = counter, Order'
      PROVE  Counted'
  <2>1. Live' = Live
    BY <1>a DEF Live, Goroutines
  <2> QED BY <1>a, <2>1 DEF Counted
<1>b. ASSUME NEW q \in Queues, NEW i \in 0 .. ThreadsNum, ~IsLive(q, i), IsLive(q, i)',
             \A r \in Queues, k \in 0 .. ThreadsNum : r # q \/ k # i => IsLive(r, k)' = IsLive(r, k),
             counter' = counter + 1, Order'
      PROVE  Counted'
  <2>1. Live' = Live \cup {<<q, i>>} /\ <<q, i>> \notin Live
    BY <1>b DEF Live, Goroutines
  <2>2. Cardinality(Live') = Cardinality(Live) + 1
    BY <2>1, LiveFinite, FS_AddElement
  <2> QED BY <1>b, <2>2 DEF Counted
<1>c. ASSUME NEW q \in Queues, NEW i \in 0 .. ThreadsNum, IsLive(q, i), ~IsLive(q, i)',
             \A r \in Queues, k \in 0 .. ThreadsNum : r # q \/ k # i => IsLive(r, k)' = IsLive(r, k),
             counter' = counter - 1, Order'
      PROVE  Counted'
  <2>1. Live' = Live \ {<<q, i>>} /\ <<q, i>> \in Live
    BY <1>c DEF Live, Goroutines
  <2>2. Cardinality(Live') = Cardinality(Live) - 1
    BY <2>1, LiveFinite, FS_RemoveElement
  <2> QED BY <1>c, <2>2 DEF Counted
<1>w. Workers = (0 .. ThreadsNum) \ {0} /\ 0 \in 0 .. ThreadsNum
  BY ThreadsNumAssumption DEF Workers
<1>1. ASSUME NEW q \in Queues, Spawn(q)
      PROVE  Counted'
  <2>1. started[q] \in 0 .. ThreadsNum
    BY <1>1, ThreadsNumAssumption DEF Spawn, Types
  <2>2. started'[q] = started[q] + 1 /\ \A r \in Queues : r # q => started'[r] = started[r]
    BY <1>1 DEF Spawn, Types
  <2>3. CASE started[q] = 0
    <3>1. /\ sched[q] = "off" /\ sched'[q] = "fetch" /\ worker' = worker
          /\ \A r \in Queues : r # q => sched'[r] = sched[r]
      BY <1>1, <2>3, SchedChanges DEF Spawn, SchedulerStates
    <3>2. Order'
      BY <1>o, <2>2, <2>3, <3>1 DEF Workers
    <3>3. ~IsLive(q, 0) /\ IsLive(q, 0)'
      BY <3>1 DEF IsLive
    <3>4. \A r \in Queues, k \in 0 .. ThreadsNum : r # q \/ k # 0 => IsLive(r, k)' = IsLive(r, k)
      BY <3>1 DEF IsLive
    <3>5. counter' = counter + 1
      BY <1>1 DEF Spawn, WaitGroupAdd
    <3> QED BY <1>b, <1>w, <3>2, <3>3, <3>4, <3>5
  <2>4. CASE started[q] # 0
    <3>1. /\ started[q] \in Workers
          /\ worker'[q][started[q]] = "select" /\ sched' = sched
          /\ \A r \in Queues, v \in Workers :
                r # q \/ v # started[q] => worker'[r][v] = worker[r][v]
      BY <1>1, <2>4, SpawnedWorker
    <3>2. worker[q][started[q]] = "off"
      BY <1>o, <2>1, <3>1
    <3>3. Order'
      BY <1>o, <2>1, <2>2, <2>4, <3>1 DEF Workers
    <3>4. ~IsLive(q, started[q]) /\ worker'[q][started[q]] \notin {"off", "stopped"}
      BY <2>4, <3>1, <3>2 DEF IsLive
    <3>5. PICK i \in Workers : i = started[q]
      BY <3>1
    <3>6. ~IsLive(q, i) /\ IsLive(q, i)'
      BY <3>4, <3>5, <2>4 DEF IsLive
    <3>7. \A r \in Queues, k \in 0 .. ThreadsNum : r # q \/ k # i => IsLive(r, k)' = IsLive(r, k)
      BY <3>1, <3>5, <1>w DEF IsLive
    <3>8. counter' = counter + 1
      BY <1>1 DEF Spawn, WaitGroupAdd
    <3> QED BY <1>b, <1>w, <3>3, <3>6, <3>7, <3>8
  <2> QED BY <2>3, <2>4
<1>2. ASSUME NEW q \in Queues, StopScheduler(q)
      PROVE  Counted'
  <2>1. /\ sched[q] \in {"range", "send", "wait"} /\ sched'[q] = "stopped" /\ worker' = worker
        /\ started' = started /\ \A r \in Queues : r # q => sched'[r] = sched[r]
    BY <1>2 DEF StopScheduler, SeesDone, Types
  <2>2. Order'
    BY <1>o, <2>1
  <2>3. IsLive(q, 0) /\ ~IsLive(q, 0)'
    BY <2>1 DEF IsLive
  <2>4. \A r \in Queues, k \in 0 .. ThreadsNum : r # q \/ k # 0 => IsLive(r, k)' = IsLive(r, k)
    BY <2>1 DEF IsLive
  <2>5. counter' = counter - 1
    BY <1>2 DEF StopScheduler, WaitGroupDone
  <2> QED BY <1>c, <1>w, <2>2, <2>3, <2>4, <2>5
<1>3. ASSUME NEW q \in Queues, NEW w \in Workers, StopWorker(q, w)
      PROVE  Counted'
  <2>1. /\ worker[q][w] = "select" /\ worker'[q][w] = "stopped" /\ sched' = sched
        /\ started' = started
        /\ \A r \in Queues, v \in Workers : r # q \/ v # w => worker'[r][v] = worker[r][v]
    BY <1>3, StopWorkerChanges DEF StopWorker
  <2>2. Order'
    BY <1>o, <2>1
  <2>3. IsLive(q, w) /\ ~IsLive(q, w)'
    BY <2>1, <1>w DEF IsLive
  <2>4. \A r \in Queues, k \in 0 .. ThreadsNum : r # q \/ k # w => IsLive(r, k)' = IsLive(r, k)
    BY <2>1, <1>w DEF IsLive
  <2>5. counter' = counter - 1
    BY <1>3 DEF StopWorker, WaitGroupDone
  <2> QED BY <1>c, <1>w, <2>2, <2>3, <2>4, <2>5
<1>4. ASSUME started' = started, counter' = counter,
             \A q \in Queues : \/ sched'[q] = sched[q]
                               \/ {sched[q], sched'[q]} \cap {"off", "stopped"} = {},
             \A q \in Queues, w \in Workers :
                    \/ worker'[q][w] = worker[q][w]
                    \/ {worker[q][w], worker'[q][w]} \cap {"off", "stopped"} = {}
      PROVE  Counted'
  <2>1. Order'
    BY <1>o, <1>4
  <2>2. \A q \in Queues, i \in 0 .. ThreadsNum : IsLive(q, i)' = IsLive(q, i)
    BY <1>4, <1>w DEF IsLive
  <2> QED BY <1>a, <1>4, <2>1, <2>2
<1>5. ASSUME NEW q \in Queues, Fetch(q) \/ Offer(q) \/ RoundOver(q) \/ NextRound(q)
      PROVE  Counted'
  <2>1. \A r \in Queues : \/ sched'[r] = sched[r]
                          \/ {sched[r], sched'[r]} \cap {"off", "stopped"} = {}
    BY <1>5 DEF Fetch, Offer, RoundOver, NextRound, SchedAt, Types
  <2>2. started' = started /\ counter' = counter /\ worker' = worker
    BY <1>5 DEF Fetch, Offer, RoundOver, NextRound
  <2> QED BY <1>4, <2>1, <2>2
<1>6. CASE UpdateAdapters
  <2>1. \A r \in Queues : \/ sched'[r] = sched[r]
                          \/ {sched[r], sched'[r]} \cap {"off", "stopped"} = {}
    BY <1>6 DEF UpdateAdapters, SchedAt, Types, Queues
  <2>2. started' = started /\ counter' = counter /\ worker' = worker
    BY <1>6 DEF UpdateAdapters
  <2> QED BY <1>4, <2>1, <2>2
<1>7. ASSUME NEW q \in Queues, NEW w \in Workers, Receive(q, w)
      PROVE  Counted'
  <2>0. offered[q] \in Tasks
    BY <1>7 DEF Receive, SchedAt, TasksAtHand
  <2>1. /\ worker[q][w] = "select" /\ sched[q] = "send" /\ sched'[q] = "range"
        /\ \A r \in Queues : r # q => sched'[r] = sched[r] /\ offered'[r] = offered[r]
        /\ \A r \in Queues, v \in Workers : r # q \/ v # w =>
             worker'[r][v] = worker[r][v] /\ task'[r][v] = task[r][v]
        /\ \A r \in Queues : done[r] \subseteq done'[r]
        /\ \/ worker'[q][w] = "select" /\ offered[q] \in done'[q]
           \/ worker'[q][w] \in {"new nodes", "scan"} /\ task'[q][w] = offered[q]
    BY <1>7, <2>0, ReceiveChanges
  <2>2. \A r \in Queues : \/ sched'[r] = sched[r]
                          \/ {sched[r], sched'[r]} \cap {"off", "stopped"} = {}
    BY <2>1
  <2>4. \A r \in Queues, v \in Workers :
              \/ worker'[r][v] = worker[r][v]
              \/ {worker[r][v], worker'[r][v]} \cap {"off", "stopped"} = {}
    BY <2>1
  <2>3. started' = started /\ counter' = counter
    BY <1>7 DEF Receive
  <2> QED BY <1>4, <2>2, <2>3, <2>4
<1>8. ASSUME NEW q \in Queues, NEW w \in Workers, Scan(q, w)
      PROVE  Counted'
  <2>1. \A r \in Queues, v \in Workers :
              \/ worker'[r][v] = worker[r][v]
              \/ {worker[r][v], worker'[r][v]} \cap {"off", "stopped"} = {}
    BY <1>8, ScanChanges
  <2>2. started' = started /\ counter' = counter /\ sched' = sched
    BY <1>8 DEF Scan
  <2> QED BY <1>4, <2>1, <2>2
<1>9. ASSUME NEW w \in Workers, GetNewNodes(w)
      PROVE  Counted'
  <2>1. \A r \in Queues, v \in Workers :
              \/ worker'[r][v] = worker[r][v]
              \/ {worker[r][v], worker'[r][v]} \cap {"off", "stopped"} = {}
    BY <1>9, NewNodesChanges
  <2>2. started' = started /\ counter' = counter /\ sched' = sched
    BY <1>9 DEF GetNewNodes
  <2> QED BY <1>4, <2>1, <2>2
<1>10. CASE OtherStep
  BY <1>4, <1>10, OtherChanges
<1> QED
  BY <1>1, <1>2, <1>3, <1>5, <1>6, <1>7, <1>8, <1>9, <1>10
     DEF Next, SchedulerStep, WorkerStep, OtherStep, MainStep

--------------------------------------------------------------------------------
(* The tasks of a round. *)

\* A step of one queue leaves the account of the other alone; of its own, what it
\* takes from one place it puts into the next.
LEMMA NextUnderway ==
    ASSUME Types, TasksAtHand, Counted, Underway, [Next]_vars
    PROVE  Underway'
<1>t. \A r \in Queues : snapshot[r] \subseteq Peers
  BY DEF Types
<1>u. \A r \in Queues : sched[r] = "wait" => left[r] = {}
  BY DEF Underway
<1>a. ASSUME NEW q \in Queues,
             sched'[q] = "wait" => left'[q] = {},
             \A r \in Queues : r # q =>
                sched'[r] = sched[r] /\ left'[r] = left[r] /\ offered'[r] = offered[r],
             snapshot' = snapshot, round' = round,
             \A r \in Queues : done[r] \subseteq done'[r],
             \A r \in Queues, v \in Workers : r # q /\ worker[r][v] \in {"new nodes", "scan"} =>
                worker'[r][v] \in {"new nodes", "scan"} /\ task'[r][v] = task[r][v],
             sched'[q] \in {"range", "send", "wait"} =>
                /\ sched[q] \in {"range", "send", "wait"}
                /\ \A p \in Peers : Accounted(q, p) => Accounted(q, p)'
      PROVE  Underway'
  <2>1. ASSUME NEW r \in Queues, r # q, NEW p, Accounted(r, p)
        PROVE  Accounted(r, p)'
    BY <1>a, <2>1 DEF Accounted, Busy
  <2>2. ASSUME NEW r \in Queues, sched'[r] = "wait"
        PROVE  left'[r] = {}
    BY <1>a, <1>u, <2>2
  <2>3. ASSUME NEW r \in Queues, sched'[r] \in {"range", "send", "wait"}, NEW p \in snapshot'[r]
        PROVE  Accounted(r, p)'
    <3>1. sched[r] \in {"range", "send", "wait"} /\ p \in snapshot[r] /\ p \in Peers
      BY <1>a, <1>t, <2>3
    <3>2. Accounted(r, p)
      BY <3>1 DEF Underway
    <3> QED BY <1>a, <2>1, <2>3, <3>1, <3>2
  <2> QED BY <2>2, <2>3 DEF Underway
<1>b. ASSUME \A r \in Queues : sched'[r] = sched[r] \/ sched'[r] \notin {"range", "send", "wait"},
             UNCHANGED <<left, offered, done, snapshot, round>>,
             \A r \in Queues, v \in Workers : worker[r][v] \in {"new nodes", "scan"} =>
                worker'[r][v] \in {"new nodes", "scan"} /\ task'[r][v] = task[r][v]
      PROVE  Underway'
  <2>1. ASSUME NEW r \in Queues, NEW p, sched'[r] = sched[r], Accounted(r, p)
        PROVE  Accounted(r, p)'
    BY <1>b, <2>1 DEF Accounted, Busy
  <2> QED BY <1>b, <1>u, <2>1 DEF Underway
<1>1. ASSUME NEW q \in Queues, Spawn(q)
      PROVE  Underway'
  <2>1. CASE started[q] = 0
    <3>1. /\ UNCHANGED <<left, offered, done, worker, task, snapshot, round>>
          /\ \A r \in Queues : sched'[r] = "fetch" \/ sched'[r] = sched[r]
      BY <1>1, <2>1, SchedChanges DEF Spawn, SchedulerStates
    <3> QED BY <1>b, <3>1
  <2>2. CASE started[q] # 0
    <3>1. UNCHANGED <<left, offered, done, task, snapshot, round, sched>>
      BY <1>1, <2>2 DEF Spawn
    <3>2. /\ started[q] \in Workers
          /\ worker' \in [Queues -> [Workers -> WorkerStates]]
          /\ worker'[q][started[q]] = "select"
          /\ \A r \in Queues, v \in Workers :
                r # q \/ v # started[q] => worker'[r][v] = worker[r][v]
          /\ UNCHANGED <<sched, offered, task>>
      BY <1>1, <2>2, SpawnedWorker
    <3>3. worker[q][started[q]] = "off"
      BY <3>2, ThreadsNumAssumption DEF Counted, Workers
    <3>4. \A r \in Queues, v \in Workers : worker[r][v] \in {"new nodes", "scan"} =>
                worker'[r][v] = worker[r][v] /\ task'[r][v] = task[r][v]
      BY <3>1, <3>2, <3>3
    <3> QED BY <1>b, <3>1, <3>4
  <2> QED BY <2>1, <2>2
<1>2. ASSUME NEW q \in Queues, Fetch(q)
      PROVE  Underway'
  <2>1. PICK ps \in Read(q) : /\ left' = [left EXCEPT ![q] = ps]
                              /\ snapshot' = [snapshot EXCEPT ![q] = ps]
    BY <1>2 DEF Fetch
  <2>2. left'[q] = snapshot'[q]
    BY <2>1 DEF Types
  <2>3. \A r \in Queues : r # q => left'[r] = left[r] /\ snapshot'[r] = snapshot[r]
    BY <2>1 DEF Types
  <2>4. sched'[q] = "range" /\ \A r \in Queues : r # q => sched'[r] = sched[r]
    BY <1>2, SchedChanges DEF Fetch, SchedulerStates
  <2>5. UNCHANGED <<offered, done, worker, task, round>>
    BY <1>2 DEF Fetch
  <2>6. ASSUME NEW r \in Queues, r # q, NEW p, Accounted(r, p)
        PROVE  Accounted(r, p)'
    BY <2>3, <2>4, <2>5, <2>6 DEF Accounted, Busy
  <2>7. \A p \in snapshot'[q] : Accounted(q, p)'
    BY <2>2 DEF Accounted
  <2> QED BY <1>u, <2>3, <2>4, <2>6, <2>7 DEF Underway
<1>3. ASSUME NEW q \in Queues, Offer(q)
      PROVE  Underway'
  <2>1. PICK p \in left[q] : /\ left' = [left EXCEPT ![q] = @ \ {p}]
                             /\ offered' = [offered EXCEPT ![q] = <<p, round[q]>>]
    BY <1>3 DEF Offer
  <2>2. /\ left'[q] = left[q] \ {p} /\ offered'[q] = <<p, round[q]>>
        /\ \A r \in Queues : r # q => left'[r] = left[r] /\ offered'[r] = offered[r]
    BY <2>1 DEF Types
  <2>3. /\ sched[q] = "range" /\ sched'[q] = "send"
        /\ \A r \in Queues : r # q => sched'[r] = sched[r]
    BY <1>3, SchedChanges DEF Offer, SchedulerStates
  <2>4. UNCHANGED <<done, worker, task, round, snapshot>>
    BY <1>3 DEF Offer
  <2>5. ASSUME NEW x \in Peers, Accounted(q, x)
        PROVE  Accounted(q, x)'
    BY <2>2, <2>3, <2>4, <2>5 DEF Accounted, Busy
  <2> QED BY <1>a, <2>2, <2>3, <2>4, <2>5
<1>4. ASSUME NEW q \in Queues, RoundOver(q)
      PROVE  Underway'
  <2>1. /\ left[q] = {} /\ sched[q] = "range" /\ sched'[q] = "wait"
        /\ \A r \in Queues : r # q => sched'[r] = sched[r]
    BY <1>4, SchedChanges DEF RoundOver, SchedulerStates
  <2>2. UNCHANGED <<left, offered, done, worker, task, round, snapshot>>
    BY <1>4 DEF RoundOver
  <2>3. ASSUME NEW x \in Peers, Accounted(q, x)
        PROVE  Accounted(q, x)'
    BY <2>1, <2>2, <2>3 DEF Accounted, Busy
  <2> QED BY <1>a, <2>1, <2>2, <2>3
<1>5. ASSUME NEW q \in Queues, StopScheduler(q)
      PROVE  Underway'
  <2>1. \A r \in Queues : sched'[r] = "stopped" \/ sched'[r] = sched[r]
    BY <1>5 DEF StopScheduler, Types
  <2>2. UNCHANGED <<left, offered, done, worker, task, round, snapshot>>
    BY <1>5 DEF StopScheduler
  <2> QED BY <1>b, <2>1, <2>2
<1>6. ASSUME NEW q \in Queues, NextRound(q)
      PROVE  Underway'
  <2>1. /\ sched'[q] \in {"before run", "fetch"}
        /\ \A r \in Queues : r # q => sched'[r] = sched[r] /\ round'[r] = round[r]
    BY <1>6 DEF NextRound, SchedAt, Types
  <2>2. UNCHANGED <<left, offered, done, worker, task, snapshot>>
    BY <1>6 DEF NextRound
  <2>3. ASSUME NEW r \in Queues, r # q, NEW p, Accounted(r, p)
        PROVE  Accounted(r, p)'
    BY <2>1, <2>2, <2>3 DEF Accounted, Busy
  <2> QED BY <1>u, <2>1, <2>2, <2>3 DEF Underway
<1>7. CASE UpdateAdapters
  <2>1. \A r \in Queues : sched'[r] = "fetch" \/ sched'[r] = sched[r]
    BY <1>7 DEF UpdateAdapters, SchedAt, Types, Queues
  <2>2. UNCHANGED <<left, offered, done, worker, task, round, snapshot>>
    BY <1>7 DEF UpdateAdapters
  <2> QED BY <1>b, <2>1, <2>2
<1>8. ASSUME NEW q \in Queues, NEW w \in Workers, Receive(q, w)
      PROVE  Underway'
  <2>0. offered[q] \in Tasks
    BY <1>8 DEF Receive, SchedAt, TasksAtHand
  <2>1. /\ worker[q][w] = "select" /\ sched[q] = "send" /\ sched'[q] = "range"
        /\ \A r \in Queues : r # q => sched'[r] = sched[r] /\ offered'[r] = offered[r]
        /\ \A r \in Queues, v \in Workers : r # q \/ v # w =>
             worker'[r][v] = worker[r][v] /\ task'[r][v] = task[r][v]
        /\ \A r \in Queues : done[r] \subseteq done'[r]
        /\ \/ worker'[q][w] = "select" /\ offered[q] \in done'[q]
           \/ worker'[q][w] \in {"new nodes", "scan"} /\ task'[q][w] = offered[q]
    BY <1>8, <2>0, ReceiveChanges
  <2>2. UNCHANGED <<left, snapshot, round>>
    BY <1>8 DEF Receive
  <2>3. ASSUME NEW x \in Peers, Accounted(q, x)
        PROVE  Accounted(q, x)'
    <3>1. CASE offered[q] = <<x, round[q]>>
      BY <2>1, <2>2, <3>1 DEF Accounted, Busy
    <3>2. CASE \E v \in Workers : Busy(q, v) /\ task[q][v] = <<x, round[q]>>
      <4>1. PICK v \in Workers : Busy(q, v) /\ task[q][v] = <<x, round[q]>>
        BY <3>2
      <4>2. v # w
        BY <2>1, <4>1 DEF Busy
      <4>3. worker'[q][v] = worker[q][v] /\ task'[q][v] = task[q][v]
        BY <2>1, <4>2
      <4> QED BY <2>2, <4>1, <4>3 DEF Accounted, Busy
    <3>3. CASE x \in left[q] \/ <<x, round[q]>> \in done[q]
      BY <2>1, <2>2, <3>3 DEF Accounted
    <3> QED BY <2>3, <3>1, <3>2, <3>3 DEF Accounted
  <2>4. \A r \in Queues, v \in Workers : r # q /\ worker[r][v] \in {"new nodes", "scan"} =>
             worker'[r][v] \in {"new nodes", "scan"} /\ task'[r][v] = task[r][v]
    BY <2>1
  <2>5. \A r \in Queues : r # q =>
             sched'[r] = sched[r] /\ left'[r] = left[r] /\ offered'[r] = offered[r]
    BY <2>1, <2>2
  <2>6. \A r \in Queues : done[r] \subseteq done'[r]
    BY <2>1
  <2> QED BY <1>a, <2>1, <2>2, <2>3, <2>4, <2>5, <2>6
<1>9. ASSUME NEW q \in Queues, NEW w \in Workers, Scan(q, w)
      PROVE  Underway'
  <2>1. /\ worker[q][w] = "scan" /\ worker'[q][w] = "select"
        /\ \A r \in Queues, v \in Workers : r # q \/ v # w =>
             worker'[r][v] = worker[r][v] /\ task'[r][v] = task[r][v]
        /\ UNCHANGED <<sched, offered>>
        /\ done' = [done EXCEPT ![q] = @ \cup {task[q][w]}]
    BY <1>9, ScanChanges
  <2>2. task[q][w] \in done'[q] /\ \A r \in Queues : done[r] \subseteq done'[r]
    BY <2>1 DEF Types
  <2>3. UNCHANGED <<left, snapshot, round>>
    BY <1>9 DEF Scan
  <2>4. ASSUME NEW x \in Peers, Accounted(q, x)
        PROVE  Accounted(q, x)'
    <3>1. CASE \E v \in Workers : Busy(q, v) /\ task[q][v] = <<x, round[q]>>
      <4>1. PICK v \in Workers : Busy(q, v) /\ task[q][v] = <<x, round[q]>>
        BY <3>1
      <4>2. CASE v = w
        BY <2>2, <2>3, <4>1, <4>2 DEF Accounted
      <4>3. CASE v # w
        <5>1. worker'[q][v] = worker[q][v] /\ task'[q][v] = task[q][v]
          BY <2>1, <4>3
        <5> QED BY <2>3, <4>1, <5>1 DEF Accounted, Busy
      <4> QED BY <4>2, <4>3
    <3>2. CASE ~\E v \in Workers : Busy(q, v) /\ task[q][v] = <<x, round[q]>>
      BY <2>1, <2>2, <2>3, <2>4, <3>2 DEF Accounted
    <3> QED BY <3>1, <3>2
  <2>5. \A r \in Queues, v \in Workers : r # q /\ worker[r][v] \in {"new nodes", "scan"} =>
             worker'[r][v] \in {"new nodes", "scan"} /\ task'[r][v] = task[r][v]
    BY <2>1
  <2>6. UNCHANGED <<sched, offered>>
    BY <2>1
  <2> QED BY <1>a, <1>u, <2>2, <2>3, <2>4, <2>5, <2>6
<1>10. ASSUME NEW q \in Queues, NEW w \in Workers, StopWorker(q, w)
      PROVE  Underway'
  <2>1. /\ worker[q][w] = "select" /\ worker'[q][w] = "stopped"
        /\ \A r \in Queues, v \in Workers : r # q \/ v # w => worker'[r][v] = worker[r][v]
        /\ UNCHANGED <<sched, offered, task>>
    BY <1>10, StopWorkerChanges
  <2>2. \A r \in Queues, v \in Workers : worker[r][v] \in {"new nodes", "scan"} =>
             worker'[r][v] = worker[r][v] /\ task'[r][v] = task[r][v]
    BY <2>1
  <2>3. UNCHANGED <<left, offered, done, snapshot, round, sched>>
    BY <1>10 DEF StopWorker
  <2> QED BY <1>b, <2>2, <2>3
<1>11. ASSUME NEW w \in Workers, GetNewNodes(w)
      PROVE  Underway'
  <2>1. /\ worker["scan"][w] = "new nodes" /\ worker'["scan"][w] = "scan"
        /\ \A r \in Queues, v \in Workers :
              r # "scan" \/ v # w => worker'[r][v] = worker[r][v]
        /\ UNCHANGED <<sched, offered, task>>
    BY <1>11, NewNodesChanges
  <2>2. \A r \in Queues, v \in Workers : worker[r][v] \in {"new nodes", "scan"} =>
             worker'[r][v] \in {"new nodes", "scan"} /\ task'[r][v] = task[r][v]
    BY <2>1
  <2>3. UNCHANGED <<left, offered, done, snapshot, round, sched>>
    BY <1>11 DEF GetNewNodes
  <2> QED BY <1>b, <2>2, <2>3
<1>12. CASE OtherStep
  <2>1. UNCHANGED <<sched, round, left, offered, worker, task, snapshot, done>>
    BY <1>12, OtherChanges
  <2> QED BY <1>b, <2>1
<1> QED
  BY <1>1, <1>2, <1>3, <1>4, <1>5, <1>6, <1>7, <1>8, <1>9, <1>10, <1>11, <1>12
     DEF Next, SchedulerStep, WorkerStep, OtherStep, MainStep

--------------------------------------------------------------------------------
(* The signal and the goroutine that waits for the WaitGroup. *)

LEMMA NextWaiter ==
    ASSUME [Next]_vars
    PROVE  /\ stopped => stopped'
           /\ (waiter' # "off" => waiter # "off" \/ stopped')
           /\ (waiter' = "returned" /\ waiter # "returned" =>
                counter = 0 /\ sched' = sched /\ worker' = worker)
<1>1. ASSUME NEW q \in Queues,
             \/ Spawn(q) \/ SpawnPanics(q) \/ Fetch(q) \/ FetchFails(q) \/ Offer(q)
             \/ RoundOver(q) \/ NextRound(q)
      PROVE  UNCHANGED <<stopped, waiter>>
  BY <1>1 DEF Spawn, SpawnPanics, Fetch, FetchFails, Offer, RoundOver, NextRound
<1>2. ASSUME NEW q \in Queues, NEW w \in Workers, Receive(q, w) \/ Scan(q, w) \/ GetNewNodes(w)
      PROVE  UNCHANGED <<stopped, waiter>>
  BY <1>2 DEF Receive, Scan, GetNewNodes
<1>3. ASSUME UpdateAdapters \/ UpdateAdaptersFails \/ Outdated
      PROVE  UNCHANGED <<stopped, waiter>>
  BY <1>3 DEF UpdateAdapters, UpdateAdaptersFails, Outdated, StartOutdated, CheckOutdated,
              OutdatedFails, StopOutdated
<1>4. ASSUME NEW q \in Queues, NEW w \in Workers, StopWorker(q, w)
      PROVE  /\ stopped' = stopped
             /\ waiter' = waiter \/ (waiter = "blocked" /\ waiter' = "released")
  BY <1>4 DEF StopWorker, WaitGroupDone
<1>5. CASE WaiterStep
  BY <1>5 DEF WaiterStep, Wait, WaitReturns, WaitPanics, WaiterTo
<1>6. CASE Stop \/ ServiceStopped \/ Timeout \/ Exit
  BY <1>6 DEF Stop, ServiceStopped, Timeout, Exit, MainTo
<1>7. ASSUME NEW q \in Queues, StopScheduler(q)
      PROVE  /\ stopped' = stopped
             /\ waiter' = waiter \/ (waiter = "blocked" /\ waiter' = "released")
  BY <1>7 DEF StopScheduler, WaitGroupDone
<1>8. CASE UNCHANGED vars
  BY <1>8 DEF vars
<1> QED
  BY <1>1, <1>2, <1>3, <1>4, <1>5, <1>6, <1>7, <1>8 DEF Next, SchedulerStep, WorkerStep

--------------------------------------------------------------------------------
(* Scans after the signal. *)

LEMMA NextLateScans ==
    ASSUME Types, LateScans, [Next]_vars
    PROVE  LateScans'
<1> USE DEF LateScans
<1>q. "scan" \in Queues
  BY DEF Queues
<1>1. ASSUME NEW q \in Queues, NEW w \in Workers, Receive(q, w)
      PROVE  LateScans'
  <2>1. /\ sched[q] = "send" /\ sched'[q] = "range"
        /\ \A r \in Queues : r # q => sched'[r] = sched[r]
    BY <1>1, SchedChanges DEF Receive, SchedulerStates
  <2>2. /\ sentLate' = IF stopped /\ q = "scan" THEN sentLate + 1 ELSE sentLate
        /\ stopped' = stopped
    BY <1>1 DEF Receive
  <2>3. CASE q = "scan"
    BY <2>1, <2>2, <2>3
  <2>4. CASE q # "scan"
    BY <1>q, <2>1, <2>2, <2>4
  <2> QED BY <2>3, <2>4
<1>2. ASSUME NEW q \in Queues, Offer(q)
      PROVE  LateScans'
  <2>1. /\ sched'[q] = "send" /\ \A r \in Queues : r # q => sched'[r] = sched[r]
        /\ UNCHANGED <<sentLate, stopped>> /\ (q = "scan" => ~stopped)
    BY <1>2, SchedChanges DEF Offer, SchedulerStates
  <2> QED BY <1>q, <2>1
<1>3. ASSUME NEW q \in Queues,
             Spawn(q) \/ Fetch(q) \/ RoundOver(q) \/ StopScheduler(q) \/ NextRound(q)
      PROVE  LateScans'
  <2>1. \A r \in Queues : sched'[r] = "send" => sched[r] = "send"
    BY <1>3 DEF Spawn, Fetch, RoundOver, StopScheduler, NextRound, SchedAt, Types
  <2>2. UNCHANGED <<sentLate, stopped>>
    BY <1>3 DEF Spawn, Fetch, RoundOver, StopScheduler, NextRound
  <2> QED BY <1>q, <2>1, <2>2
<1>4. CASE UpdateAdapters
  <2>1. sched'["scan"] = "fetch" /\ UNCHANGED <<sentLate, stopped>>
    BY <1>4, <1>q DEF UpdateAdapters, SchedAt, Types
  <2> QED BY <2>1
<1>5. ASSUME NEW q \in Queues, NEW w \in Workers,
             Scan(q, w) \/ StopWorker(q, w) \/ GetNewNodes(w)
      PROVE  LateScans'
  BY <1>5 DEF Scan, StopWorker, GetNewNodes
<1>6. CASE OtherStep
  <2>1. sched' = sched /\ sentLate' = sentLate
    BY <1>6, OtherChanges
  <2>2. stopped => stopped'
    BY <1>6, NextWaiter DEF OtherStep, Next, SchedulerStep, MainStep
  <2> QED BY <2>1, <2>2
<1> QED
  BY <1>q, <1>1, <1>2, <1>3, <1>4, <1>5, <1>6
     DEF Next, SchedulerStep, WorkerStep, OtherStep, MainStep

--------------------------------------------------------------------------------
(* The end. *)

\* Wait returns when nobody is left.  The goroutines that Run and RunNmap start yet
\* get no further: reading the peers needs the context.
LEMMA NextQuiet ==
    ASSUME Types, Counted, Quiet, [Next]_vars
    PROVE  Quiet'
<1> DEFINE Still == \A q \in Queues : /\ sched[q] \in {"off", "fetch", "stopped"}
                                     /\ \A w \in Workers : ~Busy(q, w)
<1>s. waiter' # "off" => stopped'
  BY NextWaiter DEF Quiet
<1>1. CASE waiter' # "returned"
  BY <1>1, <1>s DEF Quiet, CleanStopIsQuiet
<1>2. CASE waiter' = "returned" /\ waiter # "returned"
  <2>1. counter = 0 /\ sched' = sched /\ worker' = worker
    BY <1>2, NextWaiter
  <2>2. Live = {}
    BY <2>1, LiveFinite, FS_EmptySet DEF Counted
  <2>3. \A q \in Queues, i \in 0 .. ThreadsNum : ~IsLive(q, i)
    <3> SUFFICES ASSUME NEW q \in Queues, NEW i \in 0 .. ThreadsNum PROVE ~IsLive(q, i)
      OBVIOUS
    <3>1. <<q, i>> \in Goroutines /\ <<q, i>> \notin Live
      BY <2>2 DEF Goroutines
    <3> QED BY <3>1 DEF Live
  <2>4. \A q \in Queues : sched[q] \in {"off", "stopped"}
    BY <2>3, ThreadsNumAssumption DEF IsLive
  <2>5. \A q \in Queues, w \in Workers : worker[q][w] \in {"off", "stopped"}
    BY <2>3, ThreadsNumAssumption DEF IsLive, Workers
  <2> QED BY <1>s, <2>1, <2>4, <2>5 DEF Quiet, CleanStopIsQuiet, Busy
<1>3. CASE waiter = "returned" /\ waiter' = "returned"
  <2>0. stopped /\ Still
    BY <1>3 DEF Quiet, CleanStopIsQuiet
  <2> SUFFICES Still'
    BY <1>s DEF Quiet, CleanStopIsQuiet
  <2>1. ASSUME NEW q \in Queues, Spawn(q)
        PROVE  Still'
    <3>1. CASE started[q] = 0
      <4>1. worker' = worker /\ \A r \in Queues : sched'[r] \in {sched[r], "fetch"}
        BY <2>1, <3>1, SchedChanges DEF Spawn, SchedulerStates
      <4> QED BY <2>0, <4>1 DEF Busy
    <3>2. CASE started[q] # 0
      <4>1. sched' = sched /\ \A r \in Queues, v \in Workers :
                worker'[r][v] = worker[r][v] \/ worker'[r][v] = "select"
        BY <2>1, <3>2, SpawnedWorker
      <4> QED BY <2>0, <4>1 DEF Busy
    <3> QED BY <3>1, <3>2
  <2>2. ASSUME NEW q \in Queues, NEW w \in Workers, StopWorker(q, w)
        PROVE  Still'
    <3>1. sched' = sched /\ \A r \in Queues, v \in Workers :
              worker'[r][v] = worker[r][v] \/ worker'[r][v] = "stopped"
      BY <2>2, StopWorkerChanges
    <3> QED BY <2>0, <3>1 DEF Busy
  <2>3. ASSUME NEW q \in Queues,
               Fetch(q) \/ Offer(q) \/ RoundOver(q) \/ NextRound(q) \/ StopScheduler(q)
        PROVE  FALSE
    BY <2>0, <2>3 DEF Fetch, Offer, RoundOver, NextRound, StopScheduler, SeesDone, SchedAt
  <2>4. ASSUME NEW q \in Queues, NEW w \in Workers,
               Receive(q, w) \/ Scan(q, w) \/ GetNewNodes(w)
        PROVE  FALSE
    <3>1. "scan" \in Queues
      BY DEF Queues
    <3> QED BY <2>0, <2>4, <3>1 DEF Receive, Scan, GetNewNodes, SchedAt, Busy
  <2>5. ~UpdateAdapters
    BY <2>0 DEF UpdateAdapters
  <2>6. CASE OtherStep
    <3>1. sched' = sched /\ worker' = worker
      BY <2>6, OtherChanges
    <3> QED BY <2>0, <3>1 DEF Busy
  <2> QED
    BY <2>1, <2>2, <2>3, <2>4, <2>5, <2>6
       DEF Next, SchedulerStep, WorkerStep, OtherStep, MainStep
<1> QED BY <1>1, <1>2, <1>3

LEMMA InitIInv == Init => IInv
<1> SUFFICES ASSUME Init PROVE IInv
  OBVIOUS
<1>1. Types
  <2>1. 0 \in 0 .. ThreadsNum + 1 /\ 1 \in 1 .. MaxRounds
    BY ThreadsNumAssumption, MaxRoundsAssumption
  <2>2. /\ started \in [Queues -> 0 .. ThreadsNum + 1] /\ round \in [Queues -> 1 .. MaxRounds]
        /\ sched \in [Queues -> SchedulerStates]
    BY <2>1 DEF Init, SchedulerStates
  <2>3. /\ worker \in [Queues -> [Workers -> WorkerStates]]
        /\ task \in [Queues -> [Workers -> Tasks \cup {NoTask}]]
    BY DEF Init, WorkerStates
  <2>4. known \subseteq Peers
    BY PeersAssumption DEF Init
  <2>5. /\ left \in [Queues -> SUBSET Peers] /\ snapshot \in [Queues -> SUBSET Peers]
        /\ offered \in [Queues -> Tasks \cup {NoTask}]
        /\ done \in [Queues -> SUBSET Tasks]
    BY DEF Init
  <2>6. counter \in Int /\ sentLate \in Nat
    BY DEF Init
  <2>7. /\ outdated \in {"check", "sleep", "stopped"} /\ stopped \in BOOLEAN
        /\ waiter \in {"off", "started", "blocked", "released", "returned"}
        /\ main \in {"running", "select", "clean", "ended", "fatal"}
    BY DEF Init
  <2> QED BY <2>2, <2>3, <2>4, <2>5, <2>6, <2>7 DEF Types
<1>2. TasksAtHand
  BY DEF Init, TasksAtHand, Busy
<1>3. Counted
  <2>1. \A q \in Queues, i \in 0 .. ThreadsNum : ~IsLive(q, i)
    BY ThreadsNumAssumption DEF Init, IsLive, Workers
  <2>2. Live = {}
    BY <2>1 DEF Live, Goroutines
  <2> QED BY <2>2, FS_EmptySet DEF Init, Counted
<1>4. Underway
  BY DEF Init, Underway
<1>5. LateScans
  BY DEF Init, LateScans, Queues
<1>6. Quiet
  BY DEF Init, Quiet, CleanStopIsQuiet
<1> QED BY <1>1, <1>2, <1>3, <1>4, <1>5, <1>6 DEF IInv

LEMMA NextIInv == IInv /\ [Next]_vars => IInv'
BY NextTypes, NextTasksAtHand, NextCounted, NextUnderway, NextLateScans, NextQuiet DEF IInv

LEMMA Invariance == Spec => []IInv
BY InitIInv, NextIInv, PTL DEF Spec

\* The variables keep their types; in particular the WaitGroup's counter never
\* falls below zero, which would be a panic.
THEOREM SchedulerTypeCorrect == Spec => []TypeOK
<1>1. IInv => TypeOK
  BY LiveFinite DEF IInv, Types, Counted, TypeOK, WorkerStates
<1> QED BY <1>1, Invariance, PTL

\* The WaitGroup counts the goroutines that have been started and have not ended
\* (util/cmd.go, scanner.go:106-113).
THEOREM WaitGroupCounts == Spec => [](counter = Cardinality(Live))
<1>1. IInv => counter = Cardinality(Live)
  BY DEF IInv, Counted
<1> QED BY <1>1, Invariance, PTL

\* At the end of a round every peer has been carried out or a worker has it
\* (scheduler.go:46-54, 76-87, scanner.go:118-172).
THEOREM NoTaskIsLost == Spec => []NoTaskLost
<1>1. IInv => NoTaskLost
  BY DEF IInv, Underway, Accounted, NoTaskLost
<1> QED BY <1>1, Invariance, PTL

\* One scan at most is sent after the signal (scheduler.go:77-85).
THEOREM OneLateScan == Spec => []AtMostOneLateScan
<1>1. IInv => AtMostOneLateScan
  BY DEF IInv, LateScans, AtMostOneLateScan
<1> QED BY <1>1, Invariance, PTL

\* From the return of Wait until the process ends, "Service stopped" logged or not,
\* no task is being carried out and no scheduler has any to give, although schedulers
\* and workers may still be starting (util/cmd.go:25-36, cmd/scanner/scanner.go:52-65).
THEOREM StoppedIsStopped == Spec => []CleanStopIsQuiet
<1>1. IInv => CleanStopIsQuiet
  BY DEF IInv, Quiet
<1> QED BY <1>1, Invariance, PTL
================================================================================
