----------------------------- MODULE ProxyTransport ----------------------------
(***************************************************************************)
(* The proxy's round tripper (internal/proxy/middlewares/transport.go):    *)
(* goroutines that serve requests send each one to an upstream target, try *)
(* the next target after a failure, fall back on the failover targets when *)
(* no listed target will do, and keep the statistics by which targets are  *)
(* chosen.  The list of targets, its rotation and the goroutine that       *)
(* refreshes it come from TargetList, the statistics from ProxyTarget.     *)
(*                                                                         *)
(* The upstream nodes, the client and the clock are the environment.       *)
(***************************************************************************)
EXTENDS TargetList, ProxyTarget

CONSTANTS
    Failovers,      \* the urls of the configured failover targets
    FailoverList,   \* pt.failoverTargets: their order
    ReqLimitHourly, \* the configured hourly limit of each, 0 for none
    ScannedMethods, \* the keys of scannedMethodList, which never changes
    MethodSets,     \* the sets of methods a request may ask for
    Answers,        \* bound: what an attempt may come to
    Impatient,      \* bound: the goroutines whose clients may go away
    MaxAttempts,    \* maxAttempts, 5 in the code
    MaxRequests,    \* bound: how many requests arrive
    MaxNow          \* bound: the last second of the clock

ASSUME FailoversAssumption ==
    /\ Failovers \cap Urls = {}
    /\ FailoverList \in Seq(Failovers)
    /\ ReqLimitHourly \in [Failovers -> Nat]
ASSUME ThreadsAssumption == IsFiniteSet(Threads)
ASSUME MethodsAssumption ==
    /\ IsFiniteSet(ScannedMethods)
    /\ MethodSets \subseteq SUBSET Methods
ASSUME BoundsAssumption ==
    /\ MaxAttempts \in Nat \ {0}
    /\ MaxRequests \in Nat
    /\ MaxNow \in Nat

\* A failover target is created once, with the transport.
FailoverTargets == Failovers \X {0}
AllTargets == Targets \cup FailoverTargets
NoTarget == <<"no target", -1>>

\* newProxyTarget: a listed target has no limit.
reqLimit(t) ==
    IF t \in FailoverTargets THEN WindowLimit(ReqLimitHourly[Url(t)]) ELSE 0

(***************************************************************************)
(* What one attempt may come to.  The answer of a node is good or the      *)
(* user's fault, in which case it goes to the client, or it is bad and the *)
(* next target is tried.  A bad answer may carry error codes.              *)
(***************************************************************************)
Available == {"ok", "userError"}
BadAnswer == {"badStatus", "unreadable", "badBody", "rpcError"}
Outcomes  == Available \cup BadAnswer \cup {"transportError"}

ASSUME EnvironmentAssumption == Answers \subseteq Outcomes /\ Impatient \subseteq Threads

NoCodes == <<"none", 0>>

VARIABLES
    now,       \* the clock, in seconds
    stats,     \* the statistics of each target
    frotation, \* pt.fi
    fholder,   \* who holds failoverTargetsMutex
    ftried,    \* the loop variable of that getNextFailoverTarget
    arrived,   \* how many requests have arrived
    pc,        \* where each goroutine is in RoundTrip
    methods,   \* reqMethods
    attempt,   \* RoundTrip's i
    target,    \* RoundTrip's target
    outcome,   \* what resp and err say of the latest attempt
    err,       \* RoundTrip's err
    canceled,  \* has the client gone away (req.Context())?
    newStats,  \* what UpdateStats is about to store
    ctx,       \* the fields of CustomContext the logger and metrics read
    reply,     \* what the client is answered
    sends,     \* history: the attempts made for the request
    late,      \* history: those made after the client had gone
    sentAt,    \* history: the window in which the latest attempt was sent
    sentNow,   \* history: what each target was sent in the present window
    failedAt   \* history: the second of each target's latest failure

reqVars  == <<arrived, pc, methods, attempt, target, outcome, err, canceled,
              newStats, ctx, reply>>
failVars == <<frotation, fholder, ftried>>
histVars == <<sends, late, sentAt, sentNow, failedAt>>
vars == <<tlVars, now, stats, failVars, reqVars, histVars>>

\* The fields of CustomContext a request's logger and metrics read.  Error codes
\* are named by the attempt that got them, or are the proxy's own.
ErrorCodes == {NoCodes} \cup ({"node"} \X Nat) \cup ({"proxy"} \X {2000, 2001})

Context == [rpcErrors : ErrorCodes,
            attempts  : Nat,
            endpoint  : AllTargets \cup {NoTarget},
            userError : BOOLEAN,
            hasError  : BOOLEAN]

FreshContext == [rpcErrors |-> NoCodes, attempts |-> 0, endpoint |-> NoTarget,
                 userError |-> FALSE, hasError |-> FALSE]

Init ==
    /\ TLInit
    /\ now = LimitWindowSeconds
    /\ stats = [t \in AllTargets |-> NewStats]
    /\ frotation = 0 /\ fholder = Nobody /\ ftried = 0
    /\ arrived = 0
    /\ pc       = [r \in Threads |-> "idle"]
    /\ methods  = [r \in Threads |-> {}]
    /\ attempt  = [r \in Threads |-> 0]
    /\ target   = [r \in Threads |-> NoTarget]
    /\ outcome  = [r \in Threads |-> "none"]
    /\ err      = [r \in Threads |-> "nil"]
    /\ canceled = [r \in Threads |-> FALSE]
    /\ newStats = [r \in Threads |-> NewStats]
    /\ ctx      = [r \in Threads |-> FreshContext]
    /\ reply    = [r \in Threads |-> "none"]
    /\ sends    = [r \in Threads |-> 0]
    /\ late     = [r \in Threads |-> 0]
    /\ sentAt   = [r \in Threads |-> 0]
    /\ sentNow  = [t \in AllTargets |-> 0]
    /\ failedAt = [t \in AllTargets |-> 0]

--------------------------------------------------------------------------------
(* The environment. *)

\* Counts per window start again when a window does.
Tick ==
    /\ now < MaxNow
    /\ now' = now + 1
    /\ sentNow' = IF Window(now') = Window(now) THEN sentNow
                                                ELSE [t \in AllTargets |-> 0]
    /\ UNCHANGED <<tlVars, stats, failVars, reqVars, sends, late, sentAt, failedAt>>

\* A request reaches RoundTrip on a goroutine that has none.
Receive(r) ==
    /\ pc[r] \in {"idle", "replied"} /\ arrived < MaxRequests
    /\ arrived' = arrived + 1
    /\ \E ms \in MethodSets : methods' = [methods EXCEPT ![r] = ms]
    /\ pc'       = [pc EXCEPT ![r] = "attempt"]
    /\ attempt'  = [attempt EXCEPT ![r] = 0]
    /\ target'   = [target EXCEPT ![r] = NoTarget]
    /\ outcome'  = [outcome EXCEPT ![r] = "none"]
    /\ err'      = [err EXCEPT ![r] = "nil"]
    /\ canceled' = [canceled EXCEPT ![r] = FALSE]
    /\ ctx'      = [ctx EXCEPT ![r] = FreshContext]
    /\ reply'    = [reply EXCEPT ![r] = "none"]
    /\ sends'    = [sends EXCEPT ![r] = 0]
    /\ late'     = [late EXCEPT ![r] = 0]
    /\ UNCHANGED <<tlVars, now, stats, failVars, newStats, sentAt, sentNow, failedAt>>

Waiting(r) == pc[r] \notin {"idle", "replied"}

\* The client closes the connection; the server cancels the request's context.
Cancel(r) ==
    /\ Waiting(r) /\ ~canceled[r] /\ r \in Impatient
    /\ canceled' = [canceled EXCEPT ![r] = TRUE]
    /\ UNCHANGED <<tlVars, now, stats, failVars, arrived, pc, methods, attempt,
                   target, outcome, err, newStats, ctx, reply, histVars>>

Goto(r, label) == pc' = [pc EXCEPT ![r] = label]

--------------------------------------------------------------------------------
(* The head of RoundTrip's loop. *)

AttemptsUsedUp(r) ==
    /\ pc[r] = "attempt" /\ attempt[r] >= MaxAttempts
    /\ Goto(r, "finish")
    /\ UNCHANGED <<tlVars, now, stats, failVars, arrived, methods, attempt,
                   target, outcome, err, canceled, newStats, ctx, reply, histVars>>

ContextDone(r) ==
    /\ pc[r] = "attempt" /\ attempt[r] < MaxAttempts /\ canceled[r]
    /\ err' = [err EXCEPT ![r] = "canceled"]
    /\ Goto(r, "finish")
    /\ UNCHANGED <<tlVars, now, stats, failVars, arrived, methods, attempt,
                   target, outcome, canceled, newStats, ctx, reply, histVars>>

\* getNextTarget begins.
SeekCanceled(r) ==   \* slip: the context is not looked at between attempts
    /\ pc[r] = "attempt" /\ attempt[r] < MaxAttempts
    /\ LockTargets(r)
    /\ Goto(r, "primary")
    /\ UNCHANGED <<now, stats, failVars, arrived, methods, attempt, target,
                   outcome, err, canceled, newStats, ctx, reply, histVars>>

SeekTarget(r) ==
    /\ pc[r] = "attempt" /\ attempt[r] < MaxAttempts /\ ~canceled[r]
    /\ LockTargets(r)
    /\ Goto(r, "primary")
    /\ UNCHANGED <<now, stats, failVars, arrived, methods, attempt, target,
                   outcome, err, canceled, newStats, ctx, reply, histVars>>

--------------------------------------------------------------------------------
(***************************************************************************)
(* NextAvailableTarget: first the listed targets, then the failover ones.  *)
(***************************************************************************)

\* What a goroutine may read of the statistics of a target: UpdateStats holds
\* the target's lock, isAvailable does not take it.
Updating(t) == {r \in Threads : pc[r] = "update" /\ target[r] = t}
Views(t) ==
    IF Updating(t) = {} THEN {stats[t]}
    ELSE UNION {TornReads(stats[t], newStats[r]) : r \in Updating(t)}

MayPass(t)   == \E s \in Views(t) : IsAvailable(reqLimit(t), s, now)
MayRefuse(t) == \E s \in Views(t) : ~IsAvailable(reqLimit(t), s, now)

\* A method the scanner does not know is sent to targets that support all
\* methods but one; any other request to a target that supports its methods.
HasUnscannedMethod(r) == ~(methods[r] \subseteq ScannedMethods)
Suits(r, t) ==
    IF HasUnscannedMethod(r)
    THEN Cardinality(supported[t]) >= Cardinality(ScannedMethods) - 1
    ELSE methods[r] \subseteq supported[t]

\* The request goes out to the target that was chosen.
SendTo(r, t) ==
    /\ target'  = [target EXCEPT ![r] = t]
    /\ err'     = [err EXCEPT ![r] = "nil"]
    /\ Goto(r, "sent")
    /\ sends'   = [sends EXCEPT ![r] = @ + 1]
    /\ late'    = [late EXCEPT ![r] = IF canceled[r] THEN @ + 1 ELSE @]
    /\ sentAt'  = [sentAt EXCEPT ![r] = Window(now)]
    /\ sentNow' = [sentNow EXCEPT ![t] = @ + 1]

RefuseTarget(r) ==
    /\ pc[r] = "primary" /\ Refuse(r)
    /\ MayRefuse(Candidate) \/ ~Suits(r, Candidate)
    /\ UNCHANGED <<now, stats, failVars, reqVars, histVars>>

\* A slip: the methods are looked at for unscanned ones only.
ChooseUnsuited(r) ==
    /\ pc[r] = "primary" /\ Choose(r)
    /\ MayPass(Candidate) /\ HasUnscannedMethod(r) => Suits(r, Candidate)
    /\ SendTo(r, Candidate)
    /\ UNCHANGED <<now, stats, failVars, arrived, methods, attempt, outcome,
                   canceled, newStats, ctx, reply, failedAt>>

ChooseTarget(r) ==
    /\ pc[r] = "primary" /\ Choose(r)
    /\ MayPass(Candidate) /\ Suits(r, Candidate)
    /\ SendTo(r, Candidate)
    /\ UNCHANGED <<now, stats, failVars, arrived, methods, attempt, outcome,
                   canceled, newStats, ctx, reply, failedAt>>

NoListedTarget(r) ==
    /\ pc[r] = "primary" /\ GiveUp(r)
    /\ Goto(r, "failover")
    /\ UNCHANGED <<now, stats, failVars, arrived, methods, attempt, target,
                   outcome, err, canceled, newStats, ctx, reply, histVars>>

SeekFailover(r) ==
    /\ pc[r] = "failover" /\ fholder = Nobody
    /\ fholder' = r /\ ftried' = 0
    /\ Goto(r, "probe failover")
    /\ UNCHANGED <<tlVars, now, stats, frotation, arrived, methods, attempt,
                   target, outcome, err, canceled, newStats, ctx, reply, histVars>>

FailoverPosition == (frotation % Len(FailoverList)) + 1
FailoverCandidate == <<FailoverList[FailoverPosition], 0>>
ProbingFailover(r) ==
    pc[r] = "probe failover" /\ fholder = r /\ ftried < Len(FailoverList)

RefuseFailover(r) ==
    /\ ProbingFailover(r)
    /\ MayRefuse(FailoverCandidate)
    /\ frotation' = FailoverPosition
    /\ ftried' = ftried + 1
    /\ UNCHANGED <<tlVars, now, stats, fholder, reqVars, histVars>>

ChooseFailover(r) ==
    /\ ProbingFailover(r)
    /\ MayPass(FailoverCandidate)
    /\ frotation' = FailoverPosition
    /\ fholder' = Nobody
    /\ SendTo(r, FailoverCandidate)
    /\ UNCHANGED <<tlVars, now, stats, ftried, arrived, methods, attempt,
                   outcome, canceled, newStats, ctx, reply, failedAt>>

UnavailableContext(r) ==
    [ctx[r] EXCEPT !.hasError = TRUE, !.rpcErrors = <<"proxy", 2000>>]

\* No target at all: RoundTrip returns at once, with code 2000.
NoAvailableTargets(r) ==
    /\ pc[r] = "probe failover" /\ fholder = r /\ ftried >= Len(FailoverList)
    /\ fholder' = Nobody
    /\ ctx' = [ctx EXCEPT ![r] = UnavailableContext(r)]
    /\ err' = [err EXCEPT ![r] = "noTargets"]
    /\ reply' = [reply EXCEPT ![r] = "503"]
    /\ Goto(r, "replied")
    /\ UNCHANGED <<tlVars, now, stats, frotation, ftried, arrived, methods,
                   attempt, target, outcome, canceled, newStats, histVars>>

--------------------------------------------------------------------------------
(***************************************************************************)
(* The attempt is answered.  decodeNodeResponse clears the error codes     *)
(* once it has read a body and sets those it finds; the attempts that do   *)
(* not get so far leave the codes as they are.  A canceled context makes   *)
(* the http transport return its error.                                    *)
(***************************************************************************)
\* A slip: the codes are only cleared when new ones are set.
CodesKept(r, o) ==
    IF o \in {"rpcError", "userError"} THEN <<"node", sends[r]>> ELSE ctx[r].rpcErrors

CodesAfter(r, o) ==
    CASE o \in {"rpcError", "userError"} -> <<"node", sends[r]>>
      [] o \in {"ok", "badBody"}         -> NoCodes
      [] OTHER                           -> ctx[r].rpcErrors

AnsweredContext(r, o) ==
    [ctx[r] EXCEPT !.rpcErrors = CodesAfter(r, o),
                   !.userError = @ \/ o = "userError"]

Answer(r, o) ==
    /\ pc[r] = "sent"
    /\ outcome' = [outcome EXCEPT ![r] = o]
    /\ \E e \in IF o # "transportError" THEN {"nil"}
                ELSE {"transport"} \cup {x \in {"canceled"} : canceled[r]} :
            err' = [err EXCEPT ![r] = e]
    /\ ctx' = [ctx EXCEPT ![r] = AnsweredContext(r, o)]
    /\ Goto(r, "stats")
    /\ UNCHANGED <<tlVars, now, stats, failVars, arrived, methods, attempt,
                   target, canceled, newStats, reply, histVars>>

\* UpdateStats takes the target's lock and works out the new statistics ...
NotLocked(t) == t \notin AllTargets   \* slip: UpdateStats takes no lock
Locked(t) == Updating(t) # {}

BeginUpdateStats(r) ==
    /\ pc[r] = "stats" /\ ~Locked(target[r])
    /\ newStats' = [newStats EXCEPT ![r] =
                      UpdateStats(stats[target[r]], outcome[r] \in Available, now)]
    /\ Goto(r, "update")
    /\ UNCHANGED <<tlVars, now, stats, failVars, arrived, methods, attempt,
                   target, outcome, err, canceled, ctx, reply, histVars>>

\* mustContinue is false: the answer goes to the client.
StopOnAnyResponse(r) == outcome[r] # "transportError"   \* slip: a bad one, too
LoopEnds(r) == outcome[r] \in Available

\* The second in which a failed UpdateStats read the clock.
BegunAt(r) ==
    newStats[r].jailExpireTime - TargetJailTime * newStats[r].errCounter

\* ... and releases the lock when they are stored.  Then the loop goes on, or
\* ends with the answer.
EndUpdateStats(r) ==
    /\ pc[r] = "update"
    /\ stats' = [stats EXCEPT ![target[r]] = newStats[r]]
    /\ newStats' = [newStats EXCEPT ![r] = NewStats]
    /\ IF LoopEnds(r)
       THEN Goto(r, "finish") /\ UNCHANGED attempt
       ELSE Goto(r, "attempt") /\ attempt' = [attempt EXCEPT ![r] = @ + 1]
    /\ failedAt' = [failedAt EXCEPT ![target[r]] =
                      IF outcome[r] \in Available THEN @ ELSE BegunAt(r)]
    /\ UNCHANGED <<tlVars, now, failVars, arrived, methods, target, outcome,
                   err, canceled, ctx, reply, sends, late, sentAt, sentNow>>

--------------------------------------------------------------------------------
(***************************************************************************)
(* RoundTrip returns.  A response stays in resp from the attempt that got  *)
(* it, so the test for used-up attempts (no resp and no err) only succeeds *)
(* when no attempt was made.  The reverse proxy passes a response on, and  *)
(* its error handler turns an error into a status.                         *)
(***************************************************************************)
NoResponse(r) == outcome[r] \in {"none", "transportError"}

\* A slip: the test is made on the counter instead of the response.
FinalErrByCount(r) ==
    IF attempt[r] + 1 >= MaxAttempts THEN "attemptsExceeded" ELSE err[r]

FinalErr(r) ==
    IF NoResponse(r) /\ err[r] = "nil" THEN "attemptsExceeded" ELSE err[r]

Status(e) ==
    CASE e = "nil"      -> "response"
      [] e = "canceled" -> "499"
      [] OTHER          -> "500"

\* SetProxyAttempts(i + 1); the loop has already raised i when it runs out.
AttemptsFromZero(r) == attempt[r]   \* slip: the loop counts from zero
ReportedAttempts(r) == attempt[r] + 1

FinalContext(r) ==
    [ctx[r] EXCEPT !.hasError  = (FinalErr(r) # "nil"),
                   !.endpoint  = target[r],
                   !.attempts  = IF target[r] = NoTarget THEN @ ELSE ReportedAttempts(r),
                   !.rpcErrors = IF FinalErr(r) = "attemptsExceeded"
                                 THEN <<"proxy", 2001>> ELSE @]

Finish(r) ==
    /\ pc[r] = "finish"
    /\ err' = [err EXCEPT ![r] = FinalErr(r)]
    /\ ctx' = [ctx EXCEPT ![r] = FinalContext(r)]
    /\ reply' = [reply EXCEPT ![r] = Status(FinalErr(r))]
    /\ Goto(r, "replied")
    /\ UNCHANGED <<tlVars, now, stats, failVars, arrived, methods, attempt,
                   target, outcome, canceled, newStats, histVars>>

--------------------------------------------------------------------------------
UpdateList ==
    /\ UpdateProxyEndpoints
    /\ UNCHANGED <<now, stats, failVars, reqVars, histVars>>

\* The steps the proxy itself takes for a request, as opposed to the client's
\* and the node's.
Step(r) ==
    \/ AttemptsUsedUp(r) \/ ContextDone(r) \/ SeekTarget(r)
    \/ RefuseTarget(r) \/ ChooseTarget(r) \/ NoListedTarget(r)
    \/ SeekFailover(r) \/ RefuseFailover(r) \/ ChooseFailover(r)
    \/ NoAvailableTargets(r)
    \/ BeginUpdateStats(r) \/ EndUpdateStats(r) \/ Finish(r)

Next ==
    \/ Tick
    \/ UpdateList
    \/ \E r \in Threads :
         \/ Receive(r) \/ Cancel(r) \/ Step(r)
         \/ \E o \in Answers : Answer(r, o)

Spec == Init /\ [][Next]_vars

(***************************************************************************)
(* Fairness.  Each goroutine is scheduled again and again.  It is strong   *)
(* fairness because of the mutexes: Go's hand themselves to a goroutine    *)
(* that has waited too long (starvation mode of sync.Mutex); every other   *)
(* step, once possible, stays so.  Nothing is assumed of the node, whose   *)
(* answer may never come: the transport sets no deadline for it.           *)
(***************************************************************************)
Fairness == \A r \in Threads : SF_vars(Step(r))

LiveSpec == Spec /\ Fairness

--------------------------------------------------------------------------------
TypeOK ==
    /\ TLTypeOK
    /\ now \in Nat
    /\ stats \in [AllTargets -> Stats]
    /\ frotation \in Nat /\ ftried \in Nat /\ fholder \in Threads \cup {Nobody}
    /\ arrived \in 0 .. MaxRequests
    /\ pc \in [Threads -> {"idle", "attempt", "primary", "failover",
                           "probe failover", "sent", "stats", "update",
                           "finish", "replied"}]
    /\ methods \in [Threads -> SUBSET Methods]
    /\ attempt \in [Threads -> Nat]
    /\ target \in [Threads -> AllTargets \cup {NoTarget}]
    /\ outcome \in [Threads -> Outcomes \cup {"none"}]
    /\ err \in [Threads -> {"nil", "canceled", "transport", "noTargets",
                            "attemptsExceeded"}]
    /\ canceled \in [Threads -> BOOLEAN]
    /\ newStats \in [Threads -> Stats]
    /\ ctx \in [Threads -> Context]
    /\ reply \in [Threads -> {"none", "response", "499", "500", "503"}]
    /\ sends \in [Threads -> Nat] /\ late \in [Threads -> Nat]
    /\ sentAt \in [Threads -> Nat]
    /\ sentNow \in [AllTargets -> Nat] /\ failedAt \in [AllTargets -> Int]

\* A failover target with a limit is never sent more in one window than the
\* limit allows, plus the requests the other goroutines may have in flight
\* when the last permitted one is chosen.  The check (isAvailable) and the
\* count (UpdateStats) are separate steps, the first without the lock
\* (transport.go:325-364), so the limit itself is not a bound.
SendsBounded ==
    \A t \in FailoverTargets :
        reqLimit(t) > 0 => sentNow[t] <= reqLimit(t) - 1 + Cardinality(Threads)

\* A bad answer reaches the client only after every attempt has been made:
\* nothing ends the loop early but a good answer, a canceled request and the
\* lack of targets (transport.go:109-165).
BadAnswerOnlyWhenExhausted ==
    \A r \in Threads :
        (reply[r] = "response" /\ outcome[r] \in BadAnswer) => sends[r] = MaxAttempts

\* A request the metrics count as failed (middlewares/metrics.go:19) got no
\* good answer from any node.
FailureMeansNoGoodAnswer ==
    \A r \in Threads :
        (pc[r] = "replied" /\ ctx[r].hasError /\ ~ctx[r].userError)
            => outcome[r] \notin Available

\* What the header and the metrics say of the attempts made, for each way a request
\* may end: the number after a good answer, one more when every attempt failed or the
\* client left after the first (transport.go:174), and 0 when there was no target left,
\* however many had been tried (transport.go:117-120).
AttemptsByReply ==
    \A r \in Threads : pc[r] = "replied" =>
        ctx[r].attempts =
            IF reply[r] = "503" \/ sends[r] = 0 THEN 0
            ELSE IF outcome[r] \in Available THEN sends[r] ELSE sends[r] + 1

\* Whatever earlier attempts left in the context, a request that ends with a
\* good answer is logged with the codes of that answer (errors.go:59-60).
CodesOfGoodAnswer ==
    \A r \in Threads : pc[r] = "replied" =>
        /\ outcome[r] = "ok" => ctx[r].rpcErrors = NoCodes
        /\ outcome[r] = "userError" => ctx[r].rpcErrors = <<"node", sends[r]>>

\* Once the client is gone at most one more attempt goes out: the one whose
\* target was being chosen (transport.go:110-115).
AtMostOneLateSend == \A r \in Threads : late[r] <= 1

\* The round tripper implements RequestService: what a client sees of it is a
\* sequence of tries that a good answer ends, and nothing but used-up attempts,
\* the client's leaving and the lack of targets ends without one
\* (transport.go:107-185).
ServiceState(r) ==
    CASE pc[r] = "idle"    -> "none"
      [] pc[r] = "sent"    -> "trying"
      [] pc[r] = "replied" -> "closed"
      [] OTHER             -> "open"

AnswerOf(r) ==
    CASE outcome[r] = "none"      -> "none"
      [] outcome[r] \in Available -> "good"
      [] outcome[r] \in BadAnswer -> "bad"
      [] OTHER                    -> "failed"

Patience(r) == IF ~canceled[r] THEN "waiting"
               ELSE IF late[r] = 0 THEN "gone" ELSE "ignored"

Service == INSTANCE RequestService WITH
    Clients  <- Threads,
    MaxTries <- MaxAttempts,
    state    <- [r \in Threads |-> ServiceState(r)],
    tries    <- sends,
    answer   <- [r \in Threads |-> AnswerOf(r)],
    patience <- [r \in Threads |-> Patience(r)]

ServesClients == Service!ServiceSpec

\* A listed target that is asked supports what the request needs by the
\* snapshot it was created from, also when the list changes meanwhile
\* (transport.go:205-220).
SentWhereSuitable ==
    \A r \in Threads :
        (pc[r] = "sent" /\ target[r] \in Targets) => Suits(r, target[r])

\* A request leaves the listed targets for the failover ones only when none of
\* them would do, although the list may have changed and other goroutines have
\* moved the rotation before it took the mutex (transport.go:187-231, 257-269).
FailoverOnlyAsLastResort ==
    [][\A r \in Threads :
        (pc[r] = "primary" /\ pc'[r] = "failover" /\ ~WithJail)
            => \A t \in Listed : ~Suits(r, t)]_vars

\* With the jail on, no target is chosen in the second of its latest failure,
\* however the updates of other goroutines interleave (transport.go:339-355).
JailHolds ==
    [][\A r \in Threads :
        (pc[r] # "sent" /\ pc'[r] = "sent" /\ WithJail) => failedAt[target'[r]] < now]_vars

\* The proxy itself never keeps a request for ever: again and again each
\* goroutine is without a request or waits for a node (no lock is lost or
\* waited for in a circle).
OnlyNodesDelay ==
    \A r \in Threads : []<>(pc[r] \in {"idle", "replied", "sent"})

--------------------------------------------------------------------------------
(* What the repository says and the code does not do. *)

\* The metric node_attempts is documented as "attempts to fetch data from node"
\* (internal/pkg/metrics/metrics.go:80), and the header X-NODE-REQ-ATTEMPTS
\* carries the same number: it should be the attempts made.
AttemptsReported ==
    \A r \in Threads :
        (pc[r] = "replied" /\ ctx[r].endpoint # NoTarget) => ctx[r].attempts = sends[r]

\* .env.proxy.example:7 configures "reqLimitHourly":1: a configured limit
\* bounds what a failover target is sent.
ConfiguredLimitKept ==
    \A t \in FailoverTargets :
        ReqLimitHourly[Url(t)] > 0
            => sentNow[t] <= ReqLimitHourly[Url(t)] + Cardinality(Threads)
================================================================================
