----------------------------- MODULE ScanScheduler -----------------------------
(***************************************************************************)
(* The goroutines of the scanner process (internal/scanner/scanner.go and  *)
(* scheduler.go) and how they stop.  Two schedulers read the peers from    *)
(* the database, round after round, and hand them one by one to their      *)
(* workers over unbuffered channels: `scan' for the rpc methods, `nmap'    *)
(* for open ports.  Both kinds of worker may add peers to the database.    *)
(* SIGTERM cancels the context all of them share; the main goroutine then  *)
(* waits, for a minute at most, for a goroutine that waits for their       *)
(* WaitGroup, and returns, which ends the process.                         *)
(*                                                                         *)
(* Database calls take that context, too: once it is canceled they fail,   *)
(* or lose the rest of their rows, and a failed GetPeers or BeforeRun ends *)
(* the process (log.Fatalf).  So does a panic of the WaitGroup, which must *)
(* not be added to between the Done that wakes a Wait and its return.      *)
(***************************************************************************)
EXTENDS Integers, FiniteSets

CONSTANTS
    Peers,        \* the peers the database may come to hold
    KnownPeers,   \* those it holds when the process starts
    Host,         \* the ip of each peer
    Unsupported,  \* the peers of a blockchain there is no adapter for
    ThreadsNum,   \* cfg.Scanner.ThreadsNum
    MaxRounds     \* bound: the rounds of the two schedulers together

ASSUME PeersAssumption ==
    /\ KnownPeers \subseteq Peers /\ Unsupported \subseteq Peers
    /\ IsFiniteSet(Peers)
ASSUME ThreadsNumAssumption == ThreadsNum \in Nat
ASSUME MaxRoundsAssumption == MaxRounds \in Nat \ {0}

VARIABLES
    known,     \* the rows of the table peers
    started,   \* how many goroutines Run and RunNmap have started
    counter,   \* the WaitGroup's counter
    sched,     \* where each scheduler is
    round,     \* the rounds of each scheduler
    left,      \* the peers of the round it has not come to
    offered,   \* the task it is about to send
    worker,    \* where each worker is
    task,      \* the task it has received
    outdated,  \* where the CheckOutdatedNodes goroutine is
    stopped,   \* has the context been canceled?
    waiter,    \* where the goroutine is that waits for the WaitGroup
    main,      \* where the main goroutine is, or how the process ended
    snapshot,  \* history: the peers of the round
    done,      \* history: the tasks that have been carried out
    sentLate   \* history: the scans sent after the context was canceled

queueVars   == <<sched, round, left, offered, snapshot>>
workerVars  == <<worker, task, done>>
processVars == <<outdated, stopped, waiter, main>>
vars == <<known, started, counter, queueVars, workerVars, processVars, sentLate>>

Queues  == {"scan", "nmap"}
Workers == 1 .. ThreadsNum
Tasks   == Peers \X (1 .. MaxRounds)
NoTask  == <<"no task", 0>>

Init ==
    /\ known = KnownPeers
    /\ started  = [q \in Queues |-> 0]
    /\ counter  = 0
    /\ sched    = [q \in Queues |-> "off"]
    /\ round    = [q \in Queues |-> 1]
    /\ left     = [q \in Queues |-> {}]
    /\ offered  = [q \in Queues |-> NoTask]
    /\ worker   = [q \in Queues |-> [w \in Workers |-> "off"]]
    /\ task     = [q \in Queues |-> [w \in Workers |-> NoTask]]
    /\ outdated = "check" /\ stopped = FALSE
    /\ waiter = "off" /\ main = "running"
    /\ snapshot = [q \in Queues |-> {}]
    /\ done     = [q \in Queues |-> {}]
    /\ sentLate = 0

\* Until main returns: the others go on while it logs how the wait ended.
Alive == main \notin {"ended", "fatal"}

SchedAt(q, from, to)  == sched[q] = from /\ sched' = [sched EXCEPT ![q] = to]
WorkerTo(q, w, label) == worker' = [worker EXCEPT ![q][w] = label]

\* log.Fatalf, or a panic.
Fatal == main' = "fatal"

--------------------------------------------------------------------------------
(***************************************************************************)
(* Starting.  Run and RunNmap are goroutines of their own, so the signal   *)
(* may come while they are starting the others: the scheduler first, then  *)
(* the workers, each counted in the WaitGroup (runWithWaitGroup).          *)
(***************************************************************************)
SpawnUncounted(q) ==   \* slip: the new goroutine is not counted
    /\ Alive /\ started[q] <= ThreadsNum
    /\ started' = [started EXCEPT ![q] = @ + 1]
    /\ IF started[q] = 0
       THEN SchedAt(q, "off", "fetch") /\ UNCHANGED worker
       ELSE WorkerTo(q, started[q], "select") /\ UNCHANGED sched
    /\ UNCHANGED <<known, counter, round, left, offered, snapshot, task, done,
                   processVars, sentLate>>

\* The WaitGroup, which has one waiter: Done wakes it when nobody is left.
WaitGroupAdd == counter' = counter + 1
WaitGroupDone ==
    /\ counter' = counter - 1
    /\ waiter' = IF counter = 1 /\ waiter = "blocked" THEN "released" ELSE waiter

Spawn(q) ==
    /\ Alive /\ started[q] <= ThreadsNum
    /\ started' = [started EXCEPT ![q] = @ + 1]
    /\ WaitGroupAdd
    /\ IF started[q] = 0
       THEN SchedAt(q, "off", "fetch") /\ UNCHANGED worker
       ELSE WorkerTo(q, started[q], "select") /\ UNCHANGED sched
    /\ UNCHANGED <<known, round, left, offered, snapshot, task, done,
                   processVars, sentLate>>

\* An Add that meets a Done which is about to wake the waiter.
SpawnPanics(q) ==
    /\ Alive /\ started[q] <= ThreadsNum /\ waiter = "released" /\ Fatal
    /\ UNCHANGED <<known, started, counter, queueVars, workerVars, outdated,
                   stopped, waiter, sentLate>>

--------------------------------------------------------------------------------
(* The schedulers: scheduleScans and scheduleNmap. *)

\* GetPeers: every peer for the scans, one peer of each ip for nmap.
Fetched(q) ==
    IF q = "scan" THEN {known}
    ELSE {ps \in SUBSET known :
            /\ \A x, y \in ps : Host[x] = Host[y] => x = y
            /\ {Host[x] : x \in ps} = {Host[x] : x \in known}}

\* The rows end early, without an error, when reading them fails (rows.Err is not
\* asked), as it does when the context is canceled in the middle.
Read(q) == UNION {SUBSET ps : ps \in Fetched(q)}

Fetch(q) ==
    /\ Alive /\ ~stopped
    /\ SchedAt(q, "fetch", "range")
    /\ \E ps \in Read(q) : /\ left' = [left EXCEPT ![q] = ps]
                          /\ snapshot' = [snapshot EXCEPT ![q] = ps]
    /\ UNCHANGED <<known, started, counter, round, offered, workerVars,
                   processVars, sentLate>>

FetchFails(q) ==
    /\ Alive /\ sched[q] = "fetch" /\ Fatal
    /\ UNCHANGED <<known, started, counter, queueVars, workerVars, outdated,
                   stopped, waiter, sentLate>>

\* The next peer of the range is taken to be sent.  The scan scheduler looks at
\* the context first and at nothing but the channel after that; the nmap
\* scheduler's select waits for both.
OfferUnchecked(q) ==   \* slip: the scan scheduler does not look at the context
    /\ Alive /\ SchedAt(q, "range", "send")
    /\ \E p \in left[q] : /\ left' = [left EXCEPT ![q] = @ \ {p}]
                          /\ offered' = [offered EXCEPT ![q] = <<p, round[q]>>]
    /\ UNCHANGED <<known, started, counter, round, snapshot, workerVars,
                   processVars, sentLate>>

Offer(q) ==
    /\ Alive /\ SchedAt(q, "range", "send")
    /\ q = "scan" => ~stopped
    /\ \E p \in left[q] : /\ left' = [left EXCEPT ![q] = @ \ {p}]
                          /\ offered' = [offered EXCEPT ![q] = <<p, round[q]>>]
    /\ UNCHANGED <<known, started, counter, round, snapshot, workerVars,
                   processVars, sentLate>>

RoundOver(q) ==
    /\ Alive /\ left[q] = {} /\ SchedAt(q, "range", "wait")
    /\ UNCHANGED <<known, started, counter, round, left, offered, snapshot,
                   workerVars, processVars, sentLate>>

\* Where a scheduler sees that the context is done: between two scans, while
\* nmap's channel blocks, and between two rounds.
SeesDoneBetween(q) ==   \* slip: nmap's scheduler is only told between two sends
    \/ sched[q] = "range" /\ left[q] # {}
    \/ sched[q] = "wait"

SeesDone(q) ==
    \/ q = "scan" /\ sched[q] = "range" /\ left[q] # {}
    \/ q = "nmap" /\ sched[q] = "send"
    \/ sched[q] = "wait"

StopScheduler(q) ==
    /\ Alive /\ stopped /\ SeesDone(q)
    /\ sched' = [sched EXCEPT ![q] = "stopped"]
    /\ WaitGroupDone
    /\ UNCHANGED <<known, started, round, left, offered, snapshot, workerVars,
                   outdated, stopped, main, sentLate>>

\* The interval is over: an hour for the scans, three for nmap.
NextRound(q) ==
    /\ Alive /\ round["scan"] + round["nmap"] < MaxRounds
    /\ SchedAt(q, "wait", IF q = "scan" THEN "before run" ELSE "fetch")
    /\ round' = [round EXCEPT ![q] = @ + 1]
    /\ UNCHANGED <<known, started, counter, left, offered, snapshot, workerVars,
                   processVars, sentLate>>

\* updateAdapters asks a public rpc endpoint, with the same context.
UpdateAdapters ==
    /\ Alive /\ ~stopped /\ SchedAt("scan", "before run", "fetch")
    /\ UNCHANGED <<known, started, counter, round, left, offered, snapshot,
                   workerVars, processVars, sentLate>>

UpdateAdaptersFails ==
    /\ Alive /\ sched["scan"] = "before run" /\ Fatal
    /\ UNCHANGED <<known, started, counter, queueVars, workerVars, outdated,
                   stopped, waiter, sentLate>>

--------------------------------------------------------------------------------
(* The workers: runScanner and runNmap. *)

\* The channel has no buffer: a task goes from the scheduler to a worker when
\* both are there.  A task of an unknown chain is dropped by getAdapter.
Receive(q, w) ==
    /\ Alive /\ worker[q][w] = "select" /\ SchedAt(q, "send", "range")
    /\ offered' = [offered EXCEPT ![q] = NoTask]
    /\ sentLate' = IF stopped /\ q = "scan" THEN sentLate + 1 ELSE sentLate
    /\ IF q = "scan" /\ offered[q][1] \in Unsupported
       THEN done' = [done EXCEPT ![q] = @ \cup {offered[q]}] /\ UNCHANGED <<worker, task>>
       ELSE /\ WorkerTo(q, w, IF q = "scan" THEN "new nodes" ELSE "scan")
            /\ task' = [task EXCEPT ![q][w] = offered[q]]
            /\ UNCHANGED done
    /\ UNCHANGED <<known, started, counter, round, left, snapshot, processVars>>

\* GetNewNodes inserts peers, unless the context is done or an error comes in
\* between; the scan goes on in any case.
GetNewNodes(w) ==
    /\ Alive /\ worker["scan"][w] = "new nodes" /\ WorkerTo("scan", w, "scan")
    /\ \E ps \in SUBSET Peers : /\ stopped => ps = {}
                                /\ known' = known \cup ps
    /\ UNCHANGED <<started, counter, queueVars, task, done, processVars, sentLate>>

\* Scan or ScanAndInsertPorts returns.  Its errors are logged and the worker
\* goes back to its select; only nmap adds peers, of the same ip.
ScanCounted(q, w) ==   \* slip: Done is called for each task
    /\ Alive /\ worker[q][w] = "scan" /\ WorkerTo(q, w, "select")
    /\ done' = [done EXCEPT ![q] = @ \cup {task[q][w]}]
    /\ task' = [task EXCEPT ![q][w] = NoTask]
    /\ WaitGroupDone
    /\ UNCHANGED <<known, started, queueVars, outdated, stopped, main, sentLate>>

Scan(q, w) ==
    /\ Alive /\ worker[q][w] = "scan" /\ WorkerTo(q, w, "select")
    /\ done' = [done EXCEPT ![q] = @ \cup {task[q][w]}]
    /\ task' = [task EXCEPT ![q][w] = NoTask]
    /\ \E ps \in SUBSET {p \in Peers : Host[p] = Host[task[q][w][1]]} :
            /\ stopped \/ q = "scan" => ps = {}
            /\ known' = known \cup ps
    /\ UNCHANGED <<started, counter, queueVars, processVars, sentLate>>

\* Only the select looks at the context: a task that was received is finished.
StopAnywhere(q, w) ==   \* slip: the worker gives its task up
    /\ Alive /\ stopped /\ worker[q][w] \in {"select", "scan"}
    /\ WorkerTo(q, w, "stopped")
    /\ task' = [task EXCEPT ![q][w] = NoTask]
    /\ WaitGroupDone
    /\ UNCHANGED <<known, started, queueVars, done, outdated, stopped, main, sentLate>>

StopNmapWorker(q, w) ==   \* slip: runScanner has no case for the context
    /\ Alive /\ stopped /\ q = "nmap" /\ worker[q][w] = "select"
    /\ WorkerTo(q, w, "stopped")
    /\ WaitGroupDone
    /\ UNCHANGED <<known, started, queueVars, task, done, outdated, stopped, main, sentLate>>

StopUncounted(q, w) ==   \* slip: runWithWaitGroup's Done is missed
    /\ Alive /\ stopped /\ worker[q][w] = "select"
    /\ WorkerTo(q, w, "stopped")
    /\ UNCHANGED <<known, started, counter, queueVars, task, done, processVars, sentLate>>

StopWorker(q, w) ==
    /\ Alive /\ stopped /\ worker[q][w] = "select"
    /\ WorkerTo(q, w, "stopped")
    /\ WaitGroupDone
    /\ UNCHANGED <<known, started, queueVars, task, done, outdated, stopped, main, sentLate>>

--------------------------------------------------------------------------------
(***************************************************************************)
(* CheckOutdatedNodes, which the WaitGroup does not count.  What it writes *)
(* is not modelled here, but its GetPeers can end the process, too; past   *)
(* that, a check that meets a canceled context ends without an error.      *)
(***************************************************************************)
StartOutdated ==
    /\ Alive /\ outdated = "sleep" /\ outdated' = "check"
    /\ UNCHANGED <<known, started, counter, queueVars, workerVars, stopped, waiter, main,
                   sentLate>>

CheckOutdated ==
    /\ Alive /\ outdated = "check" /\ outdated' = "sleep"
    /\ UNCHANGED <<known, started, counter, queueVars, workerVars, stopped, waiter, main,
                   sentLate>>

OutdatedFails ==
    /\ Alive /\ outdated = "check" /\ Fatal
    /\ UNCHANGED <<known, started, counter, queueVars, workerVars, outdated,
                   stopped, waiter, sentLate>>

StopOutdated ==
    /\ Alive /\ outdated = "sleep" /\ stopped /\ outdated' = "stopped"
    /\ UNCHANGED <<known, started, counter, queueVars, workerVars, stopped, waiter, main,
                   sentLate>>

--------------------------------------------------------------------------------
(***************************************************************************)
(* The main goroutine, in GracefulStop, and the one it starts there, which *)
(* waits for the WaitGroup and closes closeChan.                           *)
(***************************************************************************)
MainTo(from, to) ==
    /\ main = from /\ main' = to
    /\ UNCHANGED <<known, started, counter, queueVars, workerVars, outdated, stopped, sentLate>>

\* stopFunc, go func.
Stop ==
    /\ main = "running" /\ main' = "select"
    /\ stopped' = TRUE /\ waiter' = "started"
    /\ UNCHANGED <<known, started, counter, queueVars, workerVars, outdated, sentLate>>

WaiterTo(from, to) ==
    /\ Alive /\ waiter = from /\ waiter' = to
    /\ UNCHANGED <<known, started, counter, queueVars, workerVars, outdated, stopped, main,
                   sentLate>>

Wait == WaiterTo("started", IF counter = 0 THEN "returned" ELSE "blocked")

\* close(closeChan), unless the counter is not zero any more: "WaitGroup is reused
\* before previous Wait has returned".
WaitReturns == counter = 0 /\ WaiterTo("released", "returned")
WaitPanics ==
    /\ Alive /\ waiter = "released" /\ counter # 0 /\ Fatal
    /\ UNCHANGED <<known, started, counter, queueVars, workerVars, outdated, stopped, waiter,
                   sentLate>>

\* "Service stopped", and main returns; or "Service stopped after timeout"
\* (waitTimeout), which it returns from at once.
ServiceStopped == waiter = "returned" /\ MainTo("select", "clean") /\ UNCHANGED waiter
Timeout == MainTo("select", "ended") /\ UNCHANGED waiter
Exit == MainTo("clean", "ended") /\ UNCHANGED waiter

--------------------------------------------------------------------------------
SchedulerStep(q) ==
    \/ Spawn(q) \/ SpawnPanics(q) \/ Fetch(q) \/ FetchFails(q) \/ Offer(q) \/ RoundOver(q)
    \/ StopScheduler(q) \/ NextRound(q)
    \/ q = "scan" /\ (UpdateAdapters \/ UpdateAdaptersFails)

WorkerStep(q, w) ==
    \/ Receive(q, w) \/ Scan(q, w) \/ StopWorker(q, w)
    \/ q = "scan" /\ GetNewNodes(w)

Outdated == StartOutdated \/ CheckOutdated \/ OutdatedFails \/ StopOutdated

WaiterStep == Wait \/ WaitReturns \/ WaitPanics

Next ==
    \/ \E q \in Queues : SchedulerStep(q) \/ \E w \in Workers : WorkerStep(q, w)
    \/ Outdated
    \/ WaiterStep \/ Stop \/ ServiceStopped \/ Timeout \/ Exit

Spec == Init /\ [][Next]_vars

(***************************************************************************)
(* Fairness: a goroutine that can go on does.  A scan returns: the rpc     *)
(* clients and nmap have timeouts and the database a busy timeout.         *)
(* GetNewNodes may not, as the connection to the whois server has no       *)
(* deadline (asn.go).  Nothing is assumed of the signal nor of the         *)
(* one-minute timer of the wait.                                           *)
(***************************************************************************)
Fairness ==
    /\ \A q \in Queues :
         /\ WF_vars(SchedulerStep(q))
         /\ \A w \in Workers : WF_vars(Receive(q, w) \/ Scan(q, w) \/ StopWorker(q, w))
    /\ WF_vars(Outdated)
    /\ WF_vars(WaiterStep) /\ WF_vars(ServiceStopped) /\ WF_vars(Exit)

LiveSpec == Spec /\ Fairness

--------------------------------------------------------------------------------
SchedulerStates == {"off", "fetch", "range", "send", "wait", "before run", "stopped"}

TypeOK ==
    /\ known \subseteq Peers
    /\ started \in [Queues -> 0 .. ThreadsNum + 1]
    /\ counter \in Nat
    /\ sched \in [Queues -> SchedulerStates]
    /\ round \in [Queues -> 1 .. MaxRounds]
    /\ left \in [Queues -> SUBSET Peers]
    /\ offered \in [Queues -> Tasks \cup {NoTask}]
    /\ worker \in [Queues -> [Workers -> {"off", "select", "new nodes", "scan", "stopped"}]]
    /\ task \in [Queues -> [Workers -> Tasks \cup {NoTask}]]
    /\ outdated \in {"check", "sleep", "stopped"}
    /\ stopped \in BOOLEAN
    /\ waiter \in {"off", "started", "blocked", "released", "returned"}
    /\ main \in {"running", "select", "clean", "ended", "fatal"}
    /\ snapshot \in [Queues -> SUBSET Peers]
    /\ done \in [Queues -> SUBSET Tasks]
    /\ sentLate \in Nat

Busy(q, w) == worker[q][w] \in {"new nodes", "scan"}

\* At the end of a round every peer it found has been carried out or is being
\* carried out by a worker, also when the context is canceled in the middle:
\* no task is lost on its way (scheduler.go:46-54, 76-87, scanner.go:118-172).
NoTaskLost ==
    \A q \in Queues : sched[q] = "wait" =>
        \A p \in snapshot[q] :
            \/ <<p, round[q]>> \in done[q]
            \/ \E w \in Workers : Busy(q, w) /\ task[q][w] = <<p, round[q]>>

\* Once the context is canceled the scan scheduler sends one more task at most,
\* the one it was already blocked on (scheduler.go:77-85).
AtMostOneLateScan == sentLate <= 1

\* From the moment Wait has returned, past "Service stopped" and until the process
\* ends, the counted goroutines are quiet, although Run and RunNmap may be starting
\* them yet: no worker is in the middle of a task and no scheduler has peers to
\* send; one that comes late only finds that it cannot read them any more
\* (util/cmd.go:25-36, cmd/scanner/scanner.go:52-65, scanner.go:67-85).
CleanStopIsQuiet ==
    waiter = "returned" =>
        \A q \in Queues : /\ sched[q] \in {"off", "fetch", "stopped"}
                          /\ \A w \in Workers : ~Busy(q, w)

Over == main \in {"ended", "fatal"}

\* The nmap goroutines all stop by themselves after a signal: none of them waits
\* for a partner that has gone (scheduler.go:46-54).
NmapStopped ==
    /\ sched["nmap"] = "stopped"
    /\ \A w \in Workers : worker["nmap"][w] = "stopped"
NmapStops == stopped ~> (Over \/ NmapStopped)

\* The scan workers do, too, if the whois server answers or hangs up: the
\* scheduler cannot keep them busy for ever (scanner.go:118-172, scheduler.go:76-87).
ScanWorkersStop ==
    (\A w \in Workers : WF_vars(GetNewNodes(w))) =>
        (stopped ~> (Over \/ \A w \in Workers : worker["scan"][w] = "stopped"))

\* The process ends after a signal without the timer, if the whois server answers or
\* hangs up, unless the scan scheduler is left with a peer to send and no worker: that
\* alone keeps the WaitGroup waiting (util/cmd.go:25-36, scheduler.go:85).
Stalled == sched["scan"] = "send" /\ \A w \in Workers : worker["scan"][w] = "stopped"
StopEndsUnlessStalled ==
    (\A w \in Workers : WF_vars(GetNewNodes(w))) => (stopped ~> (Over \/ Stalled))

--------------------------------------------------------------------------------
(* What the repository says and the code does not do. *)

\* scheduler.go:78-80: when the context is done, "stopping scanner scheduler".
\* The scheduler is never left sending to workers that have stopped.
SchedulerIsToldToStop ==
    ~(/\ stopped /\ sched["scan"] = "send"
      /\ started["scan"] > ThreadsNum
      /\ \A w \in Workers : worker["scan"][w] = "stopped")
================================================================================
