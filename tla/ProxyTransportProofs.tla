------------------------- MODULE ProxyTransportProofs --------------------------
(***************************************************************************)
(* Proofs about ProxyTransport for any targets, limits, numbers of         *)
(* goroutines, windows and bounds: type correctness, the mutual exclusion  *)
(* UpdateStats relies on, and the bound on what a failover target is sent  *)
(* in one window.                                                          *)
(***************************************************************************)
EXTENDS ProxyTransport, TargetListProofs

--------------------------------------------------------------------------------
(* Arithmetic of windows. *)

\* What the quotient and the remainder are.
LEMMA DivMod ==
    ASSUME NEW a \in Nat, NEW n \in Nat \ {0}
    PROVE  a \div n \in Nat /\ a = n * (a \div n) + (a % n)
OBVIOUS

\* A window starts no later than the second it contains.
LEMMA WindowType ==
    ASSUME NEW t \in Nat
    PROVE  Window(t) \in Nat
<1> DEFINE u == t % LimitWindowSeconds
           p == t \div LimitWindowSeconds
<1>1. u \in Nat /\ p \in Nat /\ t = LimitWindowSeconds * p + u
  BY WindowAssumption, DivMod, ModRange
<1> HIDE DEF u, p
<1>2. LimitWindowSeconds * p \in Nat
  BY <1>1, WindowAssumption
<1> QED BY <1>1, <1>2 DEF Window, u

\* Windows follow the clock.
LEMMA WindowMonotone ==
    ASSUME NEW t \in Nat
    PROVE  Window(t) <= Window(t + 1)
<1> DEFINE n == LimitWindowSeconds
           p == t \div n
           q == (t + 1) \div n
           u == t % n
           v == (t + 1) % n
<1>0. n \in Nat \ {0} /\ t + 1 \in Nat
  BY WindowAssumption
<1>1. p \in Nat /\ u \in 0 .. (n - 1) /\ t = n * p + u
  BY <1>0, DivMod, ModRange
<1>2. q \in Nat /\ v \in 0 .. (n - 1) /\ t + 1 = n * q + v
  BY <1>0, DivMod, ModRange
<1> HIDE DEF n, p, q, u, v
<1>3. q >= p
  <2>1. SUFFICES ASSUME q + 1 <= p PROVE FALSE
    BY <1>1, <1>2
  <2>2. n * (q + 1) <= n * p
    BY <1>0, <1>1, <1>2, <2>1
  <2>3. n * (q + 1) = n * q + n
    BY <1>0, <1>2
  <2> QED BY <1>0, <1>1, <1>2, <2>2, <2>3
<1>4. n * q >= n * p
  BY <1>0, <1>1, <1>2, <1>3
<1>5. t - u = n * p /\ (t + 1) - v = n * q
  BY <1>0, <1>1, <1>2
<1> QED BY <1>0, <1>1, <1>2, <1>4, <1>5 DEF Window, n, u, v

\* UpdateStats counts one request in the window it finds itself in.
LEMMA UpdateStatsFacts ==
    ASSUME NEW s \in Stats, NEW ok \in BOOLEAN, NEW t \in Nat,
           s.reqWindow <= Window(t)
    PROVE  LET n == UpdateStats(s, ok, t) IN
           /\ n \in Stats
           /\ n.reqWindow = Window(t)
           /\ n.reqCounter = IF s.reqWindow = Window(t)
                             THEN s.reqCounter + 1 ELSE 1
<1> DEFINE c == [Truncated(s, t) EXCEPT !.reqCounter = @ + 1]
           n == UpdateStats(s, ok, t)
<1>1. Window(t) \in Nat
  BY WindowType
<1>2. /\ c \in Stats /\ c.reqWindow = Window(t)
      /\ c.reqCounter = IF s.reqWindow = Window(t) THEN s.reqCounter + 1 ELSE 1
  <2> DEFINE d == Truncated(s, t)
  <2>1. /\ d \in Stats /\ d.reqWindow = Window(t)
        /\ d.reqCounter = IF s.reqWindow = Window(t) THEN s.reqCounter ELSE 0
    <3>0. d = IF Window(t) > s.reqWindow
              THEN [s EXCEPT !.reqWindow = Window(t), !.reqCounter = 0] ELSE s
      BY DEF Truncated
    <3> HIDE DEF d
    <3>1. CASE Window(t) > s.reqWindow
      <4>1. d = [s EXCEPT !.reqWindow = Window(t), !.reqCounter = 0]
        BY <3>0, <3>1
      <4>2. d \in Stats /\ d.reqWindow = Window(t) /\ d.reqCounter = 0
        BY <1>1, <4>1 DEF Stats
      <4>3. s.reqWindow # Window(t)
        BY <1>1, <3>1 DEF Stats
      <4> QED BY <4>2, <4>3
    <3>2. CASE Window(t) = s.reqWindow
      BY <1>1, <3>0, <3>2 DEF Stats
    <3> QED BY <1>1, <3>1, <3>2 DEF Stats
  <2>2. c = [d EXCEPT !.reqCounter = d.reqCounter + 1]
    OBVIOUS
  <2> HIDE DEF c, d
  <2>3. c \in Stats /\ c.reqWindow = d.reqWindow /\ c.reqCounter = d.reqCounter + 1
    BY <2>1, <2>2 DEF Stats
  <2> QED BY <2>1, <2>3 DEF Stats
<1>3. TargetJailTime * (s.errCounter + 1) \in Nat
  BY JailAssumption DEF Stats
<1>4. n = IF ~ok
          THEN [c EXCEPT !.successCounter = 0, !.errCounter = @ + 1,
                         !.jailExpireTime = t + TargetJailTime * (s.errCounter + 1)]
          ELSE IF s.successCounter < ConsecutiveSuccessResponses
          THEN [c EXCEPT !.successCounter = @ + 1]
          ELSE [c EXCEPT !.successCounter = 0, !.errCounter = 0]
  BY DEF UpdateStats
<1> HIDE DEF c, n
<1>5. n \in Stats /\ n.reqWindow = c.reqWindow /\ n.reqCounter = c.reqCounter
  <2>1. CASE ~ok
    <3>1. PICK e \in Nat, j \in Nat :
            n = [c EXCEPT !.successCounter = 0, !.errCounter = e, !.jailExpireTime = j]
      <4>1. c.errCounter + 1 \in Nat
        BY <1>2 DEF Stats
      <4>2. t + TargetJailTime * (s.errCounter + 1) \in Nat
        BY <1>3
      <4> QED BY <1>4, <2>1, <4>1, <4>2
    <3> QED BY <1>2, <3>1 DEF Stats
  <2>2. CASE ok /\ s.successCounter < ConsecutiveSuccessResponses
    BY <1>2, <1>4, <2>2 DEF Stats
  <2>3. CASE ok /\ ~(s.successCounter < ConsecutiveSuccessResponses)
    BY <1>2, <1>4, <2>3 DEF Stats
  <2> QED BY <2>1, <2>2, <2>3
<1> QED BY <1>2, <1>5 DEF n

--------------------------------------------------------------------------------
(* Type correctness. *)

\* A goroutine that has sent its request knows where to.
InFlightPc == {"sent", "stats", "update"}
HasTarget == \A r \in Threads : pc[r] \in InFlightPc => target[r] \in AllTargets

\* No request has been counted, or is being counted, in a window that has yet
\* to start.
NoFutureWindow ==
    /\ \A t \in AllTargets : stats[t].reqWindow <= Window(now)
    /\ \A r \in Threads : newStats[r].reqWindow <= Window(now)

TInv == TypeOK /\ TLInv /\ HasTarget /\ NoFutureWindow

\* Fresh records have the types of their variables.
LEMMA FreshTypes ==
    /\ NewStats \in Stats
    /\ FreshContext \in Context
BY DEF NewStats, Stats, FreshContext, Context, ErrorCodes

\* The initial state is well typed.
LEMMA InitTInv == Init => TInv
<1> SUFFICES ASSUME Init PROVE TInv
  OBVIOUS
<1>1. TLInv
  BY TLInitInv DEF Init
<1>2. TypeOK
  BY <1>1, FreshTypes, WindowAssumption, BoundsAssumption
     DEF TypeOK, Init, TLInv
<1>3. HasTarget
  BY DEF Init, HasTarget, InFlightPc
<1>4. NoFutureWindow
  BY WindowType, WindowAssumption DEF Init, NoFutureWindow, NewStats
<1> QED BY <1>1, <1>2, <1>3, <1>4 DEF TInv

\* A step that keeps the list's invariant and the types of what it assigns
\* keeps TypeOK; the clock and the statistics stay as they are.
LEMMA KeepWindows ==
    ASSUME NoFutureWindow, UNCHANGED <<now, stats, newStats>>
    PROVE  NoFutureWindow'
BY DEF NoFutureWindow, Window

\* The steps of the environment.
LEMMA TickTInv == TInv /\ Tick => TInv'
<1> SUFFICES ASSUME TInv, Tick PROVE TInv'
  OBVIOUS
<1>0. /\ now \in Nat /\ now' = now + 1 /\ stats' = stats /\ newStats' = newStats
      /\ sentNow \in [AllTargets -> Nat] /\ stats \in [AllTargets -> Stats]
      /\ newStats \in [Threads -> Stats]
  BY DEF TInv, TypeOK, Tick, reqVars
<1>1. TLInv'
  BY StutterInv DEF TInv, Tick
<1>2. TypeOK'
  <2>1. sentNow' = sentNow \/ sentNow' = [t \in AllTargets |-> 0]
    BY DEF Tick
  <2>2. sentNow' \in [AllTargets -> Nat] /\ now' \in Nat
    BY <1>0, <2>1
  <2> QED BY <1>1, <2>2 DEF TInv, Tick, TypeOK, TLInv, failVars, reqVars
<1>3. HasTarget'
  BY DEF TInv, Tick, HasTarget, reqVars
<1>4. NoFutureWindow'
  <2>1. Window(now) \in Nat /\ Window(now + 1) \in Nat /\ Window(now) <= Window(now + 1)
    BY <1>0, WindowType, WindowMonotone
  <2>2. /\ \A t \in AllTargets : stats[t].reqWindow \in Nat
        /\ \A r \in Threads : newStats[r].reqWindow \in Nat
    BY <1>0 DEF Stats
  <2>3. Window(now)' = Window(now + 1)
    BY <1>0 DEF Window
  <2> QED BY <1>0, <2>1, <2>2, <2>3 DEF TInv, NoFutureWindow
<1> QED BY <1>1, <1>2, <1>3, <1>4 DEF TInv

\* A request arrives, a client goes away.
LEMMA ClientTInv ==
    ASSUME TInv, NEW r \in Threads, Receive(r) \/ Cancel(r)
    PROVE  TInv'
<1> USE DEF TInv
<1>1. TLInv'
  BY StutterInv DEF Receive, Cancel
<1>2. NoFutureWindow'
  BY KeepWindows DEF Receive, Cancel
<1>3. CASE Receive(r)
  <2>1. methods' \in [Threads -> SUBSET Methods]
    <3>1. PICK ms \in MethodSets : methods' = [methods EXCEPT ![r] = ms]
      BY <1>3 DEF Receive
    <3>2. ms \in SUBSET Methods /\ methods \in [Threads -> SUBSET Methods]
      BY MethodsAssumption DEF TypeOK
    <3> QED BY <3>1, <3>2
  <2>3. ctx' \in [Threads -> Context]
    BY <1>3, FreshTypes DEF Receive, TypeOK
  <2>4. arrived' \in 0 .. MaxRequests
    <3>1. arrived \in 0 .. MaxRequests /\ arrived < MaxRequests /\ arrived' = arrived + 1
      BY <1>3 DEF Receive, TypeOK
    <3> QED BY <3>1, BoundsAssumption
  <2>5. TypeOK'
    BY <1>1, <1>3, <2>1, <2>3, <2>4 DEF Receive, TypeOK, TLInv, failVars
  <2>6. HasTarget'
    BY <1>3 DEF Receive, HasTarget, InFlightPc, TypeOK
  <2> QED BY <1>1, <1>2, <2>5, <2>6
<1>4. CASE Cancel(r)
  <2>1. TypeOK'
    BY <1>1, <1>4 DEF Cancel, TypeOK, TLInv, failVars, histVars
  <2>2. HasTarget'
    BY <1>4 DEF Cancel, HasTarget
  <2> QED BY <1>1, <1>2, <2>1, <2>2
<1> QED BY <1>3, <1>4

Pcs == {"idle", "attempt", "primary", "failover", "probe failover", "sent",
        "stats", "update", "finish", "replied"}

\* A goroutine that moves to a place outside a flight keeps HasTarget.
LEMMA LandHasTarget ==
    ASSUME TypeOK, HasTarget, NEW r \in Threads, NEW l \in Pcs \ InFlightPc,
           pc' = [pc EXCEPT ![r] = l], UNCHANGED target
    PROVE  HasTarget'
BY DEF TypeOK, HasTarget

\* The head of the loop, and the start of the search for a target.
LEMMA LoopTInv ==
    ASSUME TInv, NEW r \in Threads,
           AttemptsUsedUp(r) \/ ContextDone(r) \/ SeekTarget(r)
    PROVE  TInv'
<1>1. TLInv'
  BY StutterInv, SelectInv DEF TInv, AttemptsUsedUp, ContextDone, SeekTarget
<1>2. NoFutureWindow'
  BY KeepWindows DEF TInv, AttemptsUsedUp, ContextDone, SeekTarget
<1>3. HasTarget'
  BY LandHasTarget DEF TInv, AttemptsUsedUp, ContextDone, SeekTarget, Goto,
                       Pcs, InFlightPc
<1>4. CASE AttemptsUsedUp(r)
  BY <1>1, <1>2, <1>3, <1>4
     DEF TInv, TypeOK, TLInv, AttemptsUsedUp, Goto, failVars, histVars
<1>5. CASE ContextDone(r)
  BY <1>1, <1>2, <1>3, <1>5
     DEF TInv, TypeOK, TLInv, ContextDone, Goto, failVars, histVars
<1>6. CASE SeekTarget(r)
  BY <1>1, <1>2, <1>3, <1>6
     DEF TInv, TypeOK, TLInv, SeekTarget, Goto, failVars, histVars
<1> QED BY <1>4, <1>5, <1>6

\* Sending to a target that exists.
LEMMA SendTypes ==
    ASSUME TInv, NEW r \in Threads, NEW t \in AllTargets, SendTo(r, t)
    PROVE  /\ target' \in [Threads -> AllTargets \cup {NoTarget}]
           /\ err' \in [Threads -> {"nil", "canceled", "transport", "noTargets",
                                    "attemptsExceeded"}]
           /\ pc' \in [Threads -> Pcs]
           /\ sends' \in [Threads -> Nat] /\ late' \in [Threads -> Nat]
           /\ sentAt' \in [Threads -> Nat] /\ sentNow' \in [AllTargets -> Nat]
           /\ HasTarget'
<1>0. /\ target \in [Threads -> AllTargets \cup {NoTarget}]
      /\ pc \in [Threads -> Pcs] /\ now \in Nat
      /\ sends \in [Threads -> Nat] /\ late \in [Threads -> Nat]
      /\ sentAt \in [Threads -> Nat] /\ sentNow \in [AllTargets -> Nat]
  BY DEF TInv, TypeOK, Pcs
<1>1. Window(now) \in Nat
  BY <1>0, WindowType
<1>2. /\ target' \in [Threads -> AllTargets \cup {NoTarget}]
      /\ pc' \in [Threads -> Pcs]
  BY <1>0 DEF SendTo, Goto, Pcs
<1>3. /\ sends' \in [Threads -> Nat] /\ late' \in [Threads -> Nat]
      /\ sentAt' \in [Threads -> Nat] /\ sentNow' \in [AllTargets -> Nat]
  BY <1>0, <1>1 DEF SendTo
<1>4. err' \in [Threads -> {"nil", "canceled", "transport", "noTargets",
                            "attemptsExceeded"}]
  BY DEF SendTo, TInv, TypeOK
<1>5. HasTarget'
  BY <1>0 DEF TInv, HasTarget, SendTo, Goto
<1> QED BY <1>2, <1>3, <1>4, <1>5

\* The failover target that is looked at exists.
LEMMA FailoverCandidateExists ==
    ASSUME TInv, NEW r \in Threads, ProbingFailover(r)
    PROVE  /\ FailoverPosition \in Nat
           /\ FailoverCandidate \in FailoverTargets
<1>1. /\ FailoverList \in Seq(Failovers) /\ frotation \in Nat /\ ftried \in Nat
      /\ ftried < Len(FailoverList)
  BY FailoversAssumption DEF TInv, TypeOK, ProbingFailover
<1>2. Len(FailoverList) \in Nat \ {0}
  BY <1>1
<1>3. frotation % Len(FailoverList) \in 0 .. (Len(FailoverList) - 1)
  BY <1>1, <1>2, ModRange
<1>4. FailoverPosition \in 1 .. Len(FailoverList)
  BY <1>2, <1>3 DEF FailoverPosition
<1>5. FailoverList[FailoverPosition] \in Failovers
  BY <1>1, <1>4
<1> QED BY <1>2, <1>4, <1>5 DEF FailoverCandidate, FailoverTargets

\* NextAvailableTarget: the listed targets.
LEMMA SelectTInv ==
    ASSUME TInv, NEW r \in Threads,
           RefuseTarget(r) \/ ChooseTarget(r) \/ NoListedTarget(r)
    PROVE  TInv'
<1>1. TLInv'
  BY SelectInv DEF TInv, RefuseTarget, ChooseTarget, NoListedTarget
<1>2. NoFutureWindow'
  BY KeepWindows DEF TInv, reqVars, RefuseTarget, ChooseTarget, NoListedTarget
<1>3. CASE RefuseTarget(r)
  <2>1. HasTarget'
    BY <1>3 DEF TInv, HasTarget, RefuseTarget, reqVars
  <2> QED BY <1>1, <1>2, <1>3, <2>1
          DEF TInv, TypeOK, TLInv, RefuseTarget, failVars, reqVars, histVars
<1>4. CASE ChooseTarget(r)
  <2>1. Probing(r) /\ SendTo(r, Candidate)
    BY <1>4 DEF ChooseTarget, Choose
  <2>2. Candidate \in AllTargets
    BY <2>1, CandidateListed DEF TInv, AllTargets
  <2> QED BY <1>1, <1>2, <1>4, <2>1, <2>2, SendTypes
          DEF TInv, TypeOK, TLInv, ChooseTarget, failVars, Pcs
<1>5. CASE NoListedTarget(r)
  <2>1. HasTarget'
    BY <1>5, LandHasTarget DEF TInv, NoListedTarget, Goto, Pcs, InFlightPc
  <2> QED BY <1>1, <1>2, <1>5, <2>1
          DEF TInv, TypeOK, TLInv, NoListedTarget, Goto, failVars, histVars
<1> QED BY <1>3, <1>4, <1>5

\* Assigning one field of a context.
LEMMA ContextFields ==
    ASSUME NEW c \in Context
    PROVE  /\ \A e \in ErrorCodes : [c EXCEPT !.rpcErrors = e] \in Context
           /\ \A n \in Nat : [c EXCEPT !.attempts = n] \in Context
           /\ \A t \in AllTargets \cup {NoTarget} : [c EXCEPT !.endpoint = t] \in Context
           /\ \A b \in BOOLEAN : [c EXCEPT !.userError = b] \in Context
           /\ \A b \in BOOLEAN : [c EXCEPT !.hasError = b] \in Context
BY DEF Context

\* NextAvailableTarget: the failover targets.
LEMMA FailoverTInv ==
    ASSUME TInv, NEW r \in Threads,
           \/ SeekFailover(r) \/ RefuseFailover(r)
           \/ ChooseFailover(r) \/ NoAvailableTargets(r)
    PROVE  TInv'
<1>1. TLInv'
  BY StutterInv DEF TInv, SeekFailover, RefuseFailover, ChooseFailover, NoAvailableTargets
<1>2. NoFutureWindow'
  BY KeepWindows DEF TInv, reqVars, SeekFailover, RefuseFailover, ChooseFailover, NoAvailableTargets
<1>3. CASE SeekFailover(r)
  <2>1. HasTarget'
    BY <1>3, LandHasTarget DEF TInv, SeekFailover, Goto, Pcs, InFlightPc
  <2> QED BY <1>1, <1>2, <1>3, <2>1
          DEF TInv, TypeOK, TLInv, SeekFailover, Goto, histVars
<1>4. CASE RefuseFailover(r)
  <2>1. FailoverPosition \in Nat
    BY <1>4, FailoverCandidateExists DEF RefuseFailover
  <2>2. ftried + 1 \in Nat
    <3>1. ftried \in Nat
      BY DEF TInv, TypeOK
    <3> QED BY <3>1
  <2>3. HasTarget'
    BY <1>4 DEF TInv, HasTarget, RefuseFailover, reqVars
  <2> QED BY <1>1, <1>2, <1>4, <2>1, <2>2, <2>3
          DEF TInv, TypeOK, TLInv, RefuseFailover, reqVars, histVars
<1>5. CASE ChooseFailover(r)
  <2>1. ProbingFailover(r) /\ SendTo(r, FailoverCandidate)
    BY <1>5 DEF ChooseFailover
  <2>2. FailoverPosition \in Nat /\ FailoverCandidate \in AllTargets
    BY <2>1, FailoverCandidateExists DEF AllTargets
  <2> QED BY <1>1, <1>2, <1>5, <2>1, <2>2, SendTypes
          DEF TInv, TypeOK, TLInv, ChooseFailover, Pcs
<1>6. CASE NoAvailableTargets(r)
  <2>1. ctx' \in [Threads -> Context]
    <3>1. ctx \in [Threads -> Context]
      BY DEF TInv, TypeOK
    <3>2. UnavailableContext(r) \in Context
      <4> DEFINE c1 == [ctx[r] EXCEPT !.hasError = TRUE]
      <4>1. c1 \in Context
        BY <3>1, ContextFields
      <4>2. <<"proxy", 2000>> \in ErrorCodes
        BY DEF ErrorCodes
      <4>3. UnavailableContext(r) = [c1 EXCEPT !.rpcErrors = <<"proxy", 2000>>]
        BY DEF UnavailableContext
      <4> HIDE DEF c1
      <4> QED BY <4>1, <4>2, <4>3, ContextFields
    <3> QED BY <1>6, <3>1, <3>2 DEF NoAvailableTargets
  <2>2. HasTarget'
    BY <1>6, LandHasTarget DEF TInv, NoAvailableTargets, Goto, Pcs, InFlightPc
  <2> QED BY <1>1, <1>2, <1>6, <2>1, <2>2
          DEF TInv, TypeOK, TLInv, NoAvailableTargets, Goto, histVars
<1> QED BY <1>3, <1>4, <1>5, <1>6

\* An attempt is answered.
LEMMA AnswerTInv ==
    ASSUME TInv, NEW r \in Threads, NEW o \in Answers, Answer(r, o)
    PROVE  TInv'
<1>1. TLInv'
  BY StutterInv DEF TInv, Answer
<1>2. NoFutureWindow'
  BY KeepWindows DEF TInv, Answer
<1>3. HasTarget'
  BY DEF TInv, TypeOK, HasTarget, Answer, Goto, InFlightPc
<1>4. ctx' \in [Threads -> Context]
  <2>1. /\ ctx \in [Threads -> Context] /\ sends[r] \in Nat
        /\ ctx' = [ctx EXCEPT ![r] = AnsweredContext(r, o)]
    BY DEF TInv, TypeOK, Answer
  <2>2. CodesAfter(r, o) \in ErrorCodes
    <3>1. ctx[r].rpcErrors \in ErrorCodes
      BY <2>1 DEF Context
    <3>2. <<"node", sends[r]>> \in ErrorCodes /\ NoCodes \in ErrorCodes
      BY <2>1 DEF ErrorCodes
    <3> QED BY <3>1, <3>2 DEF CodesAfter
  <2> DEFINE c1 == [ctx[r] EXCEPT !.rpcErrors = CodesAfter(r, o)]
             b  == ctx[r].userError \/ o = "userError"
  <2>3. c1 \in Context /\ c1.userError = ctx[r].userError
    BY <2>1, <2>2, ContextFields DEF Context
  <2>4. b \in BOOLEAN
    OBVIOUS
  <2>5. AnsweredContext(r, o) = [c1 EXCEPT !.userError = b]
    BY <2>3 DEF AnsweredContext
  <2> HIDE DEF c1, b
  <2>6. AnsweredContext(r, o) \in Context
    BY <2>3, <2>4, <2>5, ContextFields
  <2> QED BY <2>1, <2>6
<1>5. err' \in [Threads -> {"nil", "canceled", "transport", "noTargets",
                            "attemptsExceeded"}]
  BY DEF TInv, TypeOK, Answer
<1>6. outcome' \in [Threads -> Outcomes \cup {"none"}]
  BY EnvironmentAssumption DEF TInv, TypeOK, Answer
<1> QED BY <1>1, <1>2, <1>3, <1>4, <1>5, <1>6
        DEF TInv, TypeOK, TLInv, Answer, Goto, failVars, histVars

\* What UpdateStats works out for the target of an answered attempt.
LEMMA BeginFacts ==
    ASSUME TInv, NEW r \in Threads, BeginUpdateStats(r)
    PROVE  /\ target[r] \in AllTargets
           /\ newStats' = [newStats EXCEPT ![r] = newStats'[r]]
           /\ newStats'[r] \in Stats
           /\ newStats'[r].reqWindow = Window(now)
           /\ newStats'[r].reqCounter =
                IF stats[target[r]].reqWindow = Window(now)
                THEN stats[target[r]].reqCounter + 1 ELSE 1
<1> DEFINE s == stats[target[r]]
           n == UpdateStats(s, outcome[r] \in Available, now)
<1>1. target[r] \in AllTargets
  BY DEF TInv, HasTarget, BeginUpdateStats, InFlightPc
<1>2. s \in Stats /\ now \in Nat /\ s.reqWindow <= Window(now)
  BY <1>1 DEF TInv, TypeOK, NoFutureWindow
<1>3. newStats' = [newStats EXCEPT ![r] = n] /\ newStats \in [Threads -> Stats]
  BY DEF BeginUpdateStats, TInv, TypeOK
<1>4. (outcome[r] \in Available) \in BOOLEAN
  OBVIOUS
<1> HIDE DEF s, n
<1>5. /\ n \in Stats /\ n.reqWindow = Window(now)
      /\ n.reqCounter = IF s.reqWindow = Window(now) THEN s.reqCounter + 1 ELSE 1
  BY <1>2, <1>4, UpdateStatsFacts DEF n
<1>6. newStats'[r] = n
  BY <1>3
<1> QED BY <1>1, <1>3, <1>5, <1>6 DEF s

\* UpdateStats works out the new statistics.
LEMMA BeginTInv ==
    ASSUME TInv, NEW r \in Threads, BeginUpdateStats(r)
    PROVE  TInv'
<1>1. TLInv'
  BY StutterInv DEF TInv, BeginUpdateStats
<1>2. NoFutureWindow'
  <2>1. /\ newStats \in [Threads -> Stats]
        /\ newStats' = [newStats EXCEPT ![r] = newStats'[r]]
        /\ newStats'[r].reqWindow = Window(now)
        /\ now' = now /\ stats' = stats
    BY BeginFacts DEF TInv, TypeOK, BeginUpdateStats
  <2>2. Window(now) \in Nat /\ Window(now)' = Window(now)
    BY <2>1, WindowType DEF TInv, TypeOK, Window
  <2>3. \A q \in Threads : newStats'[q].reqWindow <= Window(now)
    BY <2>1, <2>2 DEF TInv, NoFutureWindow
  <2> QED BY <2>1, <2>2, <2>3 DEF TInv, NoFutureWindow
<1>3. HasTarget'
  BY DEF TInv, TypeOK, HasTarget, BeginUpdateStats, Goto, InFlightPc
<1>4. newStats' \in [Threads -> Stats]
  <2>1. newStats \in [Threads -> Stats]
    BY DEF TInv, TypeOK
  <2>2. /\ newStats' = [newStats EXCEPT ![r] = newStats'[r]]
        /\ newStats'[r] \in Stats
    BY BeginFacts
  <2> QED BY <2>1, <2>2
<1> QED BY <1>1, <1>2, <1>3, <1>4
        DEF TInv, TypeOK, TLInv, BeginUpdateStats, Goto, failVars, histVars

\* RoundTrip returns.
LEMMA FinishTInv ==
    ASSUME TInv, NEW r \in Threads, Finish(r)
    PROVE  TInv'
<1>1. TLInv'
  BY StutterInv DEF TInv, Finish
<1>2. NoFutureWindow'
  BY KeepWindows DEF TInv, Finish
<1>3. HasTarget'
  BY LandHasTarget DEF TInv, Finish, Goto, Pcs, InFlightPc
<1>4. FinalErr(r) \in {"nil", "canceled", "transport", "noTargets", "attemptsExceeded"}
  BY DEF TInv, TypeOK, FinalErr
<1>5. ctx' \in [Threads -> Context]
  <2>1. /\ ctx \in [Threads -> Context] /\ attempt[r] \in Nat
        /\ target[r] \in AllTargets \cup {NoTarget}
        /\ ctx' = [ctx EXCEPT ![r] = FinalContext(r)]
    BY DEF TInv, TypeOK, Finish
  <2> DEFINE c0 == ctx[r]
             c1 == [c0 EXCEPT !.hasError = (FinalErr(r) # "nil")]
             c2 == [c1 EXCEPT !.endpoint = target[r]]
             m  == IF target[r] = NoTarget THEN c0.attempts ELSE attempt[r] + 1
             e  == IF FinalErr(r) = "attemptsExceeded"
                   THEN <<"proxy", 2001>> ELSE c0.rpcErrors
             c3 == [c2 EXCEPT !.attempts = m]
  <2>2. c0 \in Context /\ c0.attempts \in Nat /\ c0.rpcErrors \in ErrorCodes
    BY <2>1 DEF Context
  <2>3. m \in Nat /\ e \in ErrorCodes
    BY <2>1, <2>2 DEF ErrorCodes
  <2> HIDE DEF c0, m, e
  <2>4. c1 \in Context /\ c1.attempts = c0.attempts /\ c1.rpcErrors = c0.rpcErrors
    BY <2>2, ContextFields DEF Context
  <2> HIDE DEF c1
  <2>5. c2 \in Context /\ c2.attempts = c0.attempts /\ c2.rpcErrors = c0.rpcErrors
    BY <2>1, <2>4, ContextFields DEF Context
  <2> HIDE DEF c2
  <2>6. c3 \in Context /\ c3.rpcErrors = c0.rpcErrors
    BY <2>3, <2>5, ContextFields DEF Context
  <2>7. FinalContext(r) = [c3 EXCEPT !.rpcErrors = e]
    BY <2>4, <2>5, <2>6 DEF FinalContext, ReportedAttempts, c0, c1, c2, m, e
  <2> HIDE DEF c3
  <2>8. FinalContext(r) \in Context
    BY <2>3, <2>6, <2>7, ContextFields
  <2> QED BY <2>1, <2>8
<1>6. reply' \in [Threads -> {"none", "response", "499", "500", "503"}]
  BY DEF TInv, TypeOK, Finish, Status
<1> QED BY <1>1, <1>2, <1>3, <1>4, <1>5, <1>6
        DEF TInv, TypeOK, TLInv, Finish, Goto, failVars, histVars

\* UpdateStats stores what it worked out.
LEMMA EndTInv ==
    ASSUME TInv, NEW r \in Threads, EndUpdateStats(r)
    PROVE  TInv'
<1>0. /\ target[r] \in AllTargets
      /\ newStats \in [Threads -> Stats] /\ stats \in [AllTargets -> Stats]
      /\ attempt \in [Threads -> Nat]
      /\ stats' = [stats EXCEPT ![target[r]] = newStats[r]]
      /\ newStats' = [newStats EXCEPT ![r] = NewStats]
  BY DEF TInv, TypeOK, HasTarget, InFlightPc, EndUpdateStats
<1>1. TLInv'
  BY StutterInv DEF TInv, EndUpdateStats
<1>2. NoFutureWindow'
  <2>1. now' = now /\ Window(now) \in Nat /\ Window(now)' = Window(now)
    BY WindowType DEF TInv, TypeOK, EndUpdateStats, Window
  <2>2. NewStats.reqWindow = 0
    BY DEF NewStats
  <2> QED BY <1>0, <2>1, <2>2 DEF TInv, NoFutureWindow
<1>3. HasTarget'
  BY LandHasTarget DEF TInv, EndUpdateStats, Goto, Pcs, InFlightPc
<1>4. stats' \in [AllTargets -> Stats] /\ newStats' \in [Threads -> Stats]
  BY <1>0, FreshTypes
<1>5. attempt' \in [Threads -> Nat]
  <2>1. attempt' = attempt \/ attempt' = [attempt EXCEPT ![r] = @ + 1]
    BY DEF EndUpdateStats
  <2> QED BY <1>0, <2>1
<1>6. failedAt' \in [AllTargets -> Int]
  <2>1. TargetJailTime * newStats[r].errCounter \in Nat
    BY <1>0, JailAssumption DEF Stats
  <2>2. BegunAt(r) \in Int
    BY <1>0, <2>1 DEF BegunAt, Stats
  <2>3. /\ failedAt \in [AllTargets -> Int]
        /\ failedAt' = failedAt \/ failedAt' = [failedAt EXCEPT ![target[r]] = BegunAt(r)]
    BY <1>0 DEF TInv, TypeOK, EndUpdateStats
  <2> QED BY <1>0, <2>2, <2>3
<1>7. pc' \in [Threads -> Pcs]
  BY DEF TInv, TypeOK, EndUpdateStats, Goto, Pcs
<1> QED BY <1>1, <1>2, <1>3, <1>4, <1>5, <1>6, <1>7
        DEF TInv, TypeOK, TLInv, EndUpdateStats, Pcs, failVars

\* A step of the updating goroutine.
LEMMA UpdateListTInv == TInv /\ UpdateList => TInv'
<1> SUFFICES ASSUME TInv, UpdateList PROVE TInv'
  OBVIOUS
<1>1. TLInv'
  BY UpdateInv DEF TInv, UpdateList
<1>2. NoFutureWindow'
  BY KeepWindows DEF TInv, UpdateList, reqVars
<1>3. HasTarget'
  BY DEF TInv, HasTarget, UpdateList, reqVars
<1> QED BY <1>1, <1>2, <1>3
        DEF TInv, TypeOK, TLInv, UpdateList, failVars, reqVars, histVars

\* Every step keeps TInv.
LEMMA NextTInv == TInv /\ [Next]_vars => TInv'
<1> SUFFICES ASSUME TInv, [Next]_vars PROVE TInv'
  OBVIOUS
<1>1. CASE Tick
  BY <1>1, TickTInv
<1>2. CASE UpdateList
  BY <1>2, UpdateListTInv
<1>3. ASSUME NEW r \in Threads, Receive(r) \/ Cancel(r) PROVE TInv'
  BY <1>3, ClientTInv
<1>4. ASSUME NEW r \in Threads, Step(r) PROVE TInv'
  BY <1>4, LoopTInv, SelectTInv, FailoverTInv, BeginTInv, EndTInv, FinishTInv DEF Step
<1>5. ASSUME NEW r \in Threads, NEW o \in Answers, Answer(r, o) PROVE TInv'
  BY <1>5, AnswerTInv
<1>6. CASE UNCHANGED vars
  <2>1. TLInv'
    BY <1>6, StutterInv DEF TInv, vars
  <2>2. NoFutureWindow'
    BY <1>6, KeepWindows DEF TInv, vars, reqVars
  <2>3. HasTarget'
    BY <1>6 DEF TInv, HasTarget, vars, reqVars
  <2> QED BY <1>6, <2>1, <2>2, <2>3
          DEF TInv, TypeOK, TLInv, vars, failVars, reqVars, histVars
<1> QED BY <1>1, <1>2, <1>3, <1>4, <1>5, <1>6 DEF Next

\* Type correctness of the whole transport: in particular a goroutine that
\* waits for a node knows its target, and no window is counted before it starts.
THEOREM TypeCorrect == Spec => []TypeOK
<1>1. TInv => TypeOK
  BY DEF TInv
<1> QED BY <1>1, InitTInv, NextTInv, PTL DEF Spec

--------------------------------------------------------------------------------
(***************************************************************************)
(* The bound on what a failover target is sent.  SendsBounded is not       *)
(* inductive: that a target passes isAvailable says how many requests      *)
(* have been counted, not how many were sent.  The invariant relates the   *)
(* two.  A request sent in this window is counted or still in flight       *)
(* (Accounted); counting is not lost, because the two halves of            *)
(* UpdateStats exclude each other (Exclusive) and the second stores        *)
(* exactly one more request than there were (Pending).                     *)
(***************************************************************************)
InFlight(t) ==
    {r \in Threads : pc[r] \in InFlightPc /\ target[r] = t /\ sentAt[r] = Window(now)}

Counted(t) == IF stats[t].reqWindow = Window(now) THEN stats[t].reqCounter ELSE 0

Exclusive ==
    \A r, q \in Threads :
        (pc[r] = "update" /\ pc[q] = "update" /\ target[r] = target[q]) => r = q

Pending ==
    \A r \in Threads : pc[r] = "update" =>
        /\ stats[target[r]].reqWindow <= newStats[r].reqWindow
        /\ sentAt[r] <= newStats[r].reqWindow
        /\ newStats[r].reqCounter =
             IF stats[target[r]].reqWindow = newStats[r].reqWindow
             THEN stats[target[r]].reqCounter + 1 ELSE 1

SentInPast == \A r \in Threads : sentAt[r] <= Window(now)

Accounted ==
    \A t \in AllTargets : sentNow[t] <= Counted(t) + Cardinality(InFlight(t))

SInv == Exclusive /\ Pending /\ SentInPast /\ Accounted /\ SendsBounded

\* The numbers the bound is made of.
LEMMA InFlightCardinality ==
    ASSUME NEW t
    PROVE  /\ IsFiniteSet(InFlight(t))
           /\ Cardinality(InFlight(t)) \in Nat
           /\ Cardinality(Threads) \in Nat
           /\ Cardinality(InFlight(t)) <= Cardinality(Threads)
<1>1. InFlight(t) \in SUBSET Threads
  BY DEF InFlight
<1>2. IsFiniteSet(InFlight(t)) /\ Cardinality(InFlight(t)) <= Cardinality(Threads)
  BY <1>1, ThreadsAssumption, FS_Subset
<1> QED BY <1>2, ThreadsAssumption, FS_CardinalityType

\* The limit of a target per window is a number, 0 when it has none.
LEMMA ReqLimitType ==
    ASSUME NEW t \in AllTargets
    PROVE  reqLimit(t) \in Nat
<1> DEFINE w == SecondsInHour \div LimitWindowSeconds
<1>1. w \in Nat \ {0}
  <2>1. /\ w \in Nat
        /\ SecondsInHour = LimitWindowSeconds * w + (SecondsInHour % LimitWindowSeconds)
        /\ SecondsInHour % LimitWindowSeconds \in 0 .. (LimitWindowSeconds - 1)
    BY WindowAssumption, DivMod, ModRange
  <2>2. w = 0 => LimitWindowSeconds * w = 0
    BY WindowAssumption
  <2> HIDE DEF w
  <2>3. w # 0
    BY <2>1, <2>2, WindowAssumption
  <2> QED BY <2>1, <2>3
<1>2. CASE t \in FailoverTargets
  <2>1. Url(t) \in Failovers
    BY <1>2 DEF FailoverTargets, Url
  <2>2. ReqLimitHourly[Url(t)] \in Nat
    BY <2>1, FailoversAssumption
  <2> HIDE DEF w
  <2>3. ReqLimitHourly[Url(t)] \div w \in Nat
    BY <1>1, <2>2, DivMod
  <2> QED BY <1>2, <2>3 DEF reqLimit, WindowLimit, w
<1>3. CASE t \notin FailoverTargets
  BY <1>3 DEF reqLimit
<1> QED BY <1>2, <1>3

\* A torn read never shows a counter below the stored one, within a window.
LEMMA TornReadFields ==
    ASSUME NEW old \in Stats, NEW new \in Stats, NEW v \in TornReads(old, new)
    PROVE  /\ v.reqWindow \in {old.reqWindow, new.reqWindow}
           /\ old.reqWindow = new.reqWindow
                => v.reqCounter \in {old.reqCounter, new.reqCounter}
<1>1. PICK w \in {old.reqWindow, new.reqWindow},
           c \in {old.reqCounter, new.reqCounter}
                   \cup {x \in {0} : new.reqWindow # old.reqWindow},
           j \in {old.jailExpireTime, new.jailExpireTime} :
             v = Seen(old, w, c, j)
  BY DEF TornReads
<1>2. v.reqWindow = w /\ v.reqCounter = c
  BY <1>1 DEF Stats, Seen
<1> QED BY <1>1, <1>2

\* Whatever a goroutine reads, a target with a limit only passes when fewer
\* requests than the limit have been counted in this window.
LEMMA PassedBelowLimit ==
    ASSUME TInv, SInv, NEW t \in AllTargets, reqLimit(t) > 0, MayPass(t)
    PROVE  Counted(t) <= reqLimit(t) - 1
<1>1. reqLimit(t) \in Nat /\ Window(now) \in Nat
  BY ReqLimitType, WindowType DEF TInv, TypeOK
<1>2. stats[t] \in Stats /\ stats[t].reqCounter \in Nat
  BY DEF TInv, TypeOK, Stats
<1>3. CASE stats[t].reqWindow # Window(now)
  BY <1>1, <1>3 DEF Counted
<1>4. CASE stats[t].reqWindow = Window(now)
  <2>1. PICK v \in Views(t) : IsAvailable(reqLimit(t), v, now)
    BY DEF MayPass
  <2>2. /\ v.reqWindow = Window(now)
        /\ v.reqCounter \in Nat /\ v.reqCounter >= stats[t].reqCounter
    <3>1. CASE Updating(t) = {}
      <4>1. v = stats[t]
        BY <3>1 DEF Views
      <4> QED BY <1>2, <1>4, <4>1
    <3>2. CASE Updating(t) # {}
      <4>1. PICK r \in Updating(t) : v \in TornReads(stats[t], newStats[r])
        BY <3>2 DEF Views
      <4>2. /\ r \in Threads /\ pc[r] = "update" /\ target[r] = t
            /\ newStats[r] \in Stats
        BY <4>1 DEF Updating, TInv, TypeOK
      <4>3. /\ newStats[r].reqWindow \in Nat
            /\ newStats[r].reqWindow <= Window(now)
            /\ Window(now) <= newStats[r].reqWindow
        BY <1>4, <4>2 DEF Stats, TInv, NoFutureWindow, SInv, Pending
      <4>4. newStats[r].reqWindow = Window(now)
        BY <1>1, <4>3
      <4>5. newStats[r].reqCounter = stats[t].reqCounter + 1
        BY <1>4, <4>2, <4>4 DEF SInv, Pending
      <4>6. v.reqWindow = Window(now)
            /\ v.reqCounter \in {stats[t].reqCounter, stats[t].reqCounter + 1}
        BY <1>2, <1>4, <4>1, <4>2, <4>4, <4>5, TornReadFields
      <4> QED BY <1>2, <4>6
    <3> QED BY <3>1, <3>2
  <2>3. v.reqCounter < reqLimit(t)
    BY <1>1, <2>1, <2>2 DEF IsAvailable
  <2> QED BY <1>1, <1>2, <1>4, <2>2, <2>3 DEF Counted
<1> QED BY <1>3, <1>4

\* Steps that neither start nor end a flight, nor touch what is counted.
Quiet ==
    /\ UNCHANGED <<now, stats, newStats, sentAt, sentNow>>
    /\ \A q \in Threads :
         /\ (pc[q] \in InFlightPc) <=> (pc'[q] \in InFlightPc)
         /\ (pc[q] = "update") <=> (pc'[q] = "update")
         /\ pc[q] \in InFlightPc => target'[q] = target[q]

LEMMA QuietSInv ==
    ASSUME SInv, Quiet
    PROVE  SInv'
<1>1. Window(now)' = Window(now)
  BY DEF Quiet, Window
<1>2. \A t \in AllTargets : InFlight(t)' = InFlight(t) /\ Counted(t)' = Counted(t)
  BY <1>1 DEF Quiet, InFlight, Counted
<1>3. Exclusive'
  BY DEF SInv, Exclusive, Quiet, InFlightPc
<1>4. Pending'
  BY DEF SInv, Pending, Quiet, InFlightPc
<1>5. SentInPast'
  BY <1>1 DEF SInv, SentInPast, Quiet
<1>6. Accounted'
  BY <1>2 DEF SInv, Accounted, Quiet
<1>7. SendsBounded'
  BY DEF SInv, SendsBounded, Quiet
<1> QED BY <1>3, <1>4, <1>5, <1>6, <1>7 DEF SInv

\* A goroutine that moves between two places outside a flight, or from being
\* sent to being answered, is quiet.
LEMMA QuietMove ==
    ASSUME TypeOK, NEW r \in Threads, NEW l \in Pcs,
           pc[r] # "update" /\ l # "update",
           (pc[r] \in InFlightPc) <=> (l \in InFlightPc),
           pc' = [pc EXCEPT ![r] = l],
           \A q \in Threads : pc[q] \in InFlightPc => target'[q] = target[q],
           UNCHANGED <<now, stats, newStats, sentAt, sentNow>>
    PROVE  Quiet
BY DEF Quiet, TypeOK

\* The initial state.
LEMMA InitSInv == Init => SInv
<1> SUFFICES ASSUME Init PROVE SInv
  OBVIOUS
<1>1. TInv
  BY InitTInv
<1>2. Window(now) \in Nat
  BY <1>1, WindowType DEF TInv, TypeOK
<1>3. \A t \in AllTargets :
        /\ Counted(t) \in Nat /\ Cardinality(InFlight(t)) \in Nat
        /\ sentNow[t] = 0 /\ reqLimit(t) \in Nat
  BY <1>1, InFlightCardinality, ReqLimitType DEF Init, Counted, TInv, TypeOK, Stats
<1>4. Accounted
  BY <1>3 DEF Accounted
<1>5. SendsBounded
  BY <1>3, InFlightCardinality DEF SendsBounded, AllTargets
<1>6. Exclusive /\ Pending
  BY DEF Init, Exclusive, Pending
<1>7. SentInPast
  BY <1>2 DEF Init, SentInPast
<1> QED BY <1>4, <1>5, <1>6, <1>7 DEF SInv

\* The clock ticks: within a window nothing changes, and a new window starts
\* with nothing sent.
LEMMA TickSInv ==
    ASSUME TInv, SInv, Tick
    PROVE  SInv'
<1>0. /\ now \in Nat /\ now' = now + 1 /\ stats' = stats /\ newStats' = newStats
      /\ pc' = pc /\ target' = target /\ sentAt' = sentAt
      /\ sentAt \in [Threads -> Nat] /\ sentNow \in [AllTargets -> Nat]
  BY DEF TInv, TypeOK, Tick, reqVars
<1>1. /\ Window(now) \in Nat /\ Window(now + 1) \in Nat
      /\ Window(now) <= Window(now + 1) /\ Window(now)' = Window(now + 1)
  BY <1>0, WindowType, WindowMonotone DEF Window
<1>2. CASE Window(now + 1) = Window(now)
  <2>1. sentNow' = sentNow
    BY <1>0, <1>2 DEF Tick
  <2>2. \A t \in AllTargets : InFlight(t)' = InFlight(t) /\ Counted(t)' = Counted(t)
    BY <1>0, <1>1, <1>2 DEF InFlight, Counted
  <2> QED BY <1>0, <1>1, <1>2, <2>1, <2>2
          DEF SInv, Exclusive, Pending, SentInPast, Accounted, SendsBounded
<1>3. CASE Window(now + 1) # Window(now)
  <2>1. sentNow' = [t \in AllTargets |-> 0]
    BY <1>0, <1>3 DEF Tick
  <2>2. TInv'
    BY TickTInv
  <2>3. \A t \in AllTargets : Counted(t)' \in Nat /\ reqLimit(t) \in Nat
    BY <2>2, ReqLimitType DEF TInv, TypeOK, Counted, Stats
  <2>4. \A t \in AllTargets : Cardinality(InFlight(t))' \in Nat
    <3>1. SUFFICES ASSUME NEW t \in AllTargets PROVE Cardinality(InFlight(t)') \in Nat
      OBVIOUS
    <3>2. InFlight(t)' \in SUBSET Threads
      BY DEF InFlight
    <3> QED BY <3>2, ThreadsAssumption, FS_Subset, FS_CardinalityType
  <2>5. Accounted'
    BY <2>1, <2>3, <2>4 DEF Accounted
  <2>6. SendsBounded'
    BY <2>1, <2>3, InFlightCardinality DEF SendsBounded, AllTargets
  <2>7. SentInPast'
    BY <1>0, <1>1 DEF SInv, SentInPast
  <2> QED BY <1>0, <2>5, <2>6, <2>7 DEF SInv, Exclusive, Pending
<1> QED BY <1>2, <1>3

\* A request goes out: it is one more in flight, to a target that passed.
LEMMA SendSInv ==
    ASSUME TInv, SInv, NEW r \in Threads, NEW t \in AllTargets,
           pc[r] \notin InFlightPc, MayPass(t), SendTo(r, t),
           UNCHANGED <<now, stats, newStats>>
    PROVE  SInv'
<1>0. /\ pc \in [Threads -> Pcs] /\ target \in [Threads -> AllTargets \cup {NoTarget}]
      /\ sentAt \in [Threads -> Nat] /\ sentNow \in [AllTargets -> Nat]
      /\ Window(now) \in Nat
  BY WindowType DEF TInv, TypeOK, Pcs
<1>1. /\ pc' = [pc EXCEPT ![r] = "sent"] /\ target' = [target EXCEPT ![r] = t]
      /\ sentAt' = [sentAt EXCEPT ![r] = Window(now)]
      /\ sentNow' = [sentNow EXCEPT ![t] = sentNow[t] + 1]
      /\ Window(now)' = Window(now)
  BY DEF SendTo, Goto, Window
<1>2. Exclusive'
  BY <1>0, <1>1 DEF SInv, Exclusive
<1>3. Pending'
  BY <1>0, <1>1 DEF SInv, Pending
<1>4. SentInPast'
  BY <1>0, <1>1 DEF SInv, SentInPast
<1>5. \A s \in AllTargets : Counted(s)' = Counted(s) /\ Counted(s) \in Nat
  BY <1>0, <1>1 DEF Counted, TInv, TypeOK, Stats
<1>6. \A s \in AllTargets \ {t} : InFlight(s)' = InFlight(s)
  BY <1>0, <1>1 DEF InFlight
<1>7. InFlight(t)' = InFlight(t) \cup {r} /\ r \notin InFlight(t)
  BY <1>0, <1>1 DEF InFlight, InFlightPc
<1>8. Cardinality(InFlight(t)') = Cardinality(InFlight(t)) + 1
  BY <1>7, InFlightCardinality, FS_AddElement
<1>9. Cardinality(InFlight(t)') <= Cardinality(Threads)
  <2>1. InFlight(t)' \in SUBSET Threads
    BY <1>7 DEF InFlight
  <2> QED BY <2>1, ThreadsAssumption, FS_Subset
<1>10. sentNow'[t] <= Counted(t) + Cardinality(InFlight(t)')
  <2>1. sentNow[t] <= Counted(t) + Cardinality(InFlight(t))
    BY DEF SInv, Accounted
  <2> QED BY <1>0, <1>1, <1>5, <1>8, <2>1, InFlightCardinality
<1>11. Accounted'
  <2>1. SUFFICES ASSUME NEW s \in AllTargets
        PROVE sentNow'[s] <= Counted(s)' + Cardinality(InFlight(s)')
    BY DEF Accounted
  <2>2. CASE s = t
    BY <1>5, <1>10, <2>2
  <2>3. CASE s # t
    BY <1>0, <1>1, <1>5, <1>6, <2>3 DEF SInv, Accounted
  <2> QED BY <2>2, <2>3
<1>12. SendsBounded'
  <2>1. SUFFICES ASSUME NEW s \in FailoverTargets, reqLimit(s) > 0
        PROVE sentNow'[s] <= reqLimit(s) - 1 + Cardinality(Threads)
    BY DEF SendsBounded
  <2>2. CASE s = t
    <3>1. Counted(t) <= reqLimit(t) - 1
      BY <2>1, <2>2, PassedBelowLimit
    <3> QED BY <1>0, <1>1, <1>5, <1>7, <1>8, <1>9, <1>10, <2>2, <3>1,
               ReqLimitType, InFlightCardinality
  <2>3. CASE s # t
    BY <1>0, <1>1, <2>1, <2>3 DEF SInv, SendsBounded, AllTargets
  <2> QED BY <2>2, <2>3
<1> QED BY <1>2, <1>3, <1>4, <1>11, <1>12 DEF SInv

\* UpdateStats takes the lock, which no one holds, and adds one to what is stored.
LEMMA BeginSInv ==
    ASSUME TInv, SInv, NEW r \in Threads, BeginUpdateStats(r)
    PROVE  SInv'
<1>0. /\ pc \in [Threads -> Pcs] /\ newStats \in [Threads -> Stats]
      /\ stats \in [AllTargets -> Stats]
      /\ pc[r] = "stats" /\ pc' = [pc EXCEPT ![r] = "update"]
      /\ stats' = stats /\ target' = target /\ now' = now
      /\ sentAt' = sentAt /\ sentNow' = sentNow
      /\ Window(now)' = Window(now)
  BY DEF TInv, TypeOK, Pcs, BeginUpdateStats, Goto, histVars, Window
<1>1. /\ target[r] \in AllTargets
      /\ newStats' = [newStats EXCEPT ![r] = newStats'[r]]
      /\ newStats'[r].reqWindow = Window(now)
      /\ newStats'[r].reqCounter = IF stats[target[r]].reqWindow = Window(now)
                                   THEN stats[target[r]].reqCounter + 1 ELSE 1
  BY BeginFacts
<1>2. Exclusive'
  <2>1. \A q \in Threads : pc[q] = "update" => target[q] # target[r]
    BY DEF BeginUpdateStats, Locked, Updating
  <2> QED BY <1>0, <2>1 DEF SInv, Exclusive
<1>3. Pending'
  <2>1. stats[target[r]].reqWindow <= Window(now) /\ sentAt[r] <= Window(now)
    BY <1>1 DEF TInv, NoFutureWindow, SInv, SentInPast
  <2>2. \A q \in Threads \ {r} : newStats'[q] = newStats[q] /\ pc'[q] = pc[q]
    BY <1>0, <1>1
  <2> QED BY <1>0, <1>1, <2>1, <2>2 DEF SInv, Pending
<1>4. \A t \in AllTargets : InFlight(t)' = InFlight(t) /\ Counted(t)' = Counted(t)
  BY <1>0 DEF InFlight, Counted, InFlightPc
<1> QED BY <1>0, <1>2, <1>3, <1>4 DEF SInv, SentInPast, Accounted, SendsBounded

\* UpdateStats stores what it worked out: the request is no longer in flight,
\* but counted if its window is still the present one.
LEMMA EndSInv ==
    ASSUME TInv, SInv, NEW r \in Threads, EndUpdateStats(r)
    PROVE  SInv'
<1> DEFINE t == target[r]
<1>0. /\ pc \in [Threads -> Pcs] /\ newStats \in [Threads -> Stats]
      /\ stats \in [AllTargets -> Stats] /\ t \in AllTargets
      /\ sentAt \in [Threads -> Nat] /\ sentNow \in [AllTargets -> Nat]
      /\ Window(now) \in Nat
  BY WindowType DEF TInv, TypeOK, Pcs, HasTarget, InFlightPc, EndUpdateStats
<1>1. /\ pc[r] = "update"
      /\ pc' = [pc EXCEPT ![r] = pc'[r]] /\ pc'[r] \in Pcs \ InFlightPc
      /\ stats' = [stats EXCEPT ![t] = newStats[r]]
      /\ newStats' = [newStats EXCEPT ![r] = NewStats]
      /\ target' = target /\ sentAt' = sentAt /\ sentNow' = sentNow
      /\ now' = now /\ Window(now)' = Window(now)
  BY <1>0 DEF EndUpdateStats, Goto, Pcs, InFlightPc, Window
<1> HIDE DEF t
<1>2. \A q \in Threads \ {r} : pc'[q] = pc[q] /\ newStats'[q] = newStats[q]
  BY <1>0, <1>1
<1>3. pc'[r] # "update"
  BY <1>1 DEF InFlightPc
<1>4. Exclusive'
  BY <1>1, <1>2, <1>3 DEF SInv, Exclusive
<1>5. Pending'
  <2>1. SUFFICES ASSUME NEW q \in Threads, pc'[q] = "update"
        PROVE /\ stats'[target[q]].reqWindow <= newStats'[q].reqWindow
              /\ sentAt[q] <= newStats'[q].reqWindow
              /\ newStats'[q].reqCounter =
                   IF stats'[target[q]].reqWindow = newStats'[q].reqWindow
                   THEN stats'[target[q]].reqCounter + 1 ELSE 1
    BY <1>1 DEF Pending
  <2>2. q # r /\ pc[q] = "update" /\ newStats'[q] = newStats[q]
    BY <1>2, <1>3, <2>1
  <2>3. target[q] # t
    BY <1>1, <2>2 DEF SInv, Exclusive, t
  <2>4. target[q] \in AllTargets
    BY <2>2 DEF TInv, HasTarget, InFlightPc
  <2>5. stats'[target[q]] = stats[target[q]]
    BY <1>0, <1>1, <2>3, <2>4
  <2> QED BY <2>2, <2>5 DEF SInv, Pending
<1>6. SentInPast'
  BY <1>1 DEF SInv, SentInPast
<1>7. Accounted'
  <2>1. SUFFICES ASSUME NEW s \in AllTargets
        PROVE sentNow[s] <= Counted(s)' + Cardinality(InFlight(s)')
    BY <1>1 DEF Accounted
  <2>2. sentNow[s] <= Counted(s) + Cardinality(InFlight(s))
    BY DEF SInv, Accounted
  <2>3. CASE s # t
    <3>1. Counted(s)' = Counted(s)
      BY <1>0, <1>1, <2>3 DEF Counted
    <3>2. InFlight(s)' = InFlight(s)
      BY <1>0, <1>1, <1>2, <2>3 DEF InFlight, t
    <3> QED BY <2>2, <3>1, <3>2
  <2>4. CASE s = t
    <3>1. InFlight(t)' = InFlight(t) \ {r}
      BY <1>0, <1>1, <1>2 DEF InFlight, t
    <3>2. stats'[t] = newStats[r]
      BY <1>0, <1>1
    <3>3. /\ stats[t].reqWindow \in Nat /\ newStats[r].reqWindow \in Nat
          /\ stats[t].reqCounter \in Nat /\ newStats[r].reqCounter \in Nat
          /\ newStats[r].reqWindow <= Window(now)
          /\ stats[t].reqWindow <= newStats[r].reqWindow
          /\ sentAt[r] <= newStats[r].reqWindow
          /\ newStats[r].reqCounter = IF stats[t].reqWindow = newStats[r].reqWindow
                                      THEN stats[t].reqCounter + 1 ELSE 1
      BY <1>0, <1>1 DEF Stats, TInv, NoFutureWindow, SInv, Pending, t
    <3>4. Counted(t)' = IF newStats[r].reqWindow = Window(now)
                        THEN newStats[r].reqCounter ELSE 0
      <4>1. t' = t
        BY <1>1 DEF t
      <4>2. Counted(t)' = IF stats'[t].reqWindow = Window(now)'
                          THEN stats'[t].reqCounter ELSE 0
        BY <4>1 DEF Counted
      <4> QED BY <1>1, <3>2, <4>2
    <3>5. Counted(s)' = Counted(t)' /\ InFlight(s)' = InFlight(t)'
      BY <1>1, <2>4 DEF t, Counted, InFlight
    <3>6. CASE newStats[r].reqWindow = Window(now)
      <4>1. Counted(t)' = Counted(t) + 1
        BY <1>0, <3>3, <3>6, <3>4 DEF Counted
      <4>2. Cardinality(InFlight(t)') >= Cardinality(InFlight(t)) - 1
            /\ Cardinality(InFlight(t)') \in Nat
        <5>1. CASE r \in InFlight(t)
          <6>1. /\ IsFiniteSet(InFlight(t) \ {r})
                /\ Cardinality(InFlight(t) \ {r}) = Cardinality(InFlight(t)) - 1
            BY <5>1, InFlightCardinality, FS_RemoveElement
          <6>2. Cardinality(InFlight(t) \ {r}) \in Nat
            BY <6>1, FS_CardinalityType
          <6> QED BY <3>1, <6>1, <6>2, InFlightCardinality
        <5>2. CASE r \notin InFlight(t)
          <6>1. InFlight(t)' = InFlight(t)
            BY <3>1, <5>2
          <6> QED BY <6>1, InFlightCardinality
        <5> QED BY <5>1, <5>2
      <4>3. Counted(t) \in Nat /\ sentNow[t] \in Nat
        BY <1>0, <3>3 DEF Counted
      <4> QED BY <2>2, <2>4, <3>5, <4>1, <4>2, <4>3, InFlightCardinality
    <3>7. CASE newStats[r].reqWindow # Window(now)
      <4>1. Counted(t)' = 0 /\ Counted(t) = 0
        BY <1>0, <3>3, <3>7, <3>4 DEF Counted
      <4>2. r \notin InFlight(t)
        BY <1>0, <3>3, <3>7 DEF InFlight
      <4>3. InFlight(t)' = InFlight(t)
        BY <3>1, <4>2
      <4> QED BY <2>2, <2>4, <3>5, <4>1, <4>3
    <3> QED BY <3>6, <3>7
  <2> QED BY <2>3, <2>4
<1>8. SendsBounded'
  BY <1>1 DEF SInv, SendsBounded
<1> QED BY <1>4, <1>5, <1>6, <1>7, <1>8 DEF SInv

\* The steps of a request that are quiet.
LEMMA QuietSteps ==
    ASSUME TInv, NEW r \in Threads,
           \/ Receive(r) \/ Cancel(r) \/ AttemptsUsedUp(r) \/ ContextDone(r)
           \/ SeekTarget(r) \/ RefuseTarget(r) \/ NoListedTarget(r)
           \/ SeekFailover(r) \/ RefuseFailover(r) \/ NoAvailableTargets(r)
           \/ Finish(r) \/ \E o \in Answers : Answer(r, o)
    PROVE  Quiet
<1>0. TypeOK
  BY DEF TInv
<1>1. CASE Receive(r)
  <2>1. \A q \in Threads : pc[q] \in InFlightPc => target'[q] = target[q]
    BY <1>0, <1>1 DEF Receive, TypeOK, InFlightPc
  <2>2. pc[r] \in {"idle", "replied"} /\ pc' = [pc EXCEPT ![r] = "attempt"]
    BY <1>1 DEF Receive
  <2>3. UNCHANGED <<now, stats, newStats, sentAt, sentNow>>
    BY <1>1 DEF Receive
  <2>4. PICK l \in Pcs \ InFlightPc : pc' = [pc EXCEPT ![r] = l] /\ l = "attempt"
    BY <2>2 DEF Pcs, InFlightPc
  <2>5. pc[r] \notin InFlightPc /\ pc[r] # "update" /\ l # "update"
    BY <2>2, <2>4 DEF InFlightPc
  <2> QED BY <1>0, <2>1, <2>3, <2>4, <2>5, QuietMove
<1>2. CASE Cancel(r)
  BY <1>2 DEF Cancel, Quiet, histVars
<1>3. CASE \/ AttemptsUsedUp(r) \/ ContextDone(r) \/ SeekTarget(r)
           \/ NoListedTarget(r) \/ SeekFailover(r) \/ NoAvailableTargets(r)
           \/ Finish(r)
  <2>1. UNCHANGED <<target, now, stats, newStats, sentAt, sentNow>>
    BY <1>3 DEF AttemptsUsedUp, ContextDone, SeekTarget, NoListedTarget,
                SeekFailover, NoAvailableTargets, Finish, histVars
  <2>2. /\ pc[r] \notin InFlightPc
        /\ \E l \in Pcs \ InFlightPc : pc' = [pc EXCEPT ![r] = l]
    BY <1>3 DEF AttemptsUsedUp, ContextDone, SeekTarget, NoListedTarget,
                SeekFailover, NoAvailableTargets, ProbingFailover, Finish,
                Goto, Pcs, InFlightPc
  <2>3. PICK l \in Pcs \ InFlightPc : pc' = [pc EXCEPT ![r] = l]
    BY <2>2
  <2>4. pc[r] # "update" /\ l # "update"
    BY <2>2, <2>3 DEF InFlightPc
  <2> QED BY <1>0, <2>1, <2>2, <2>3, <2>4, QuietMove
<1>4. CASE RefuseTarget(r) \/ RefuseFailover(r)
  BY <1>4 DEF RefuseTarget, RefuseFailover, Quiet, reqVars, histVars
<1>5. CASE \E o \in Answers : Answer(r, o)
  <2>1. UNCHANGED <<target, now, stats, newStats, sentAt, sentNow>>
    BY <1>5 DEF Answer, histVars
  <2>2. pc[r] = "sent" /\ pc' = [pc EXCEPT ![r] = "stats"]
    BY <1>5 DEF Answer, Goto
  <2>3. PICK l \in Pcs : l = "stats" /\ l \in InFlightPc
    BY DEF Pcs, InFlightPc
  <2>4. pc' = [pc EXCEPT ![r] = l] /\ pc[r] # "update" /\ l # "update"
    BY <2>2, <2>3
  <2>5. pc[r] \in InFlightPc
    BY <2>2 DEF InFlightPc
  <2> QED BY <1>0, <2>1, <2>3, <2>4, <2>5, QuietMove
<1> QED BY <1>1, <1>2, <1>3, <1>4, <1>5

\* Choosing a target sends the request to one that passed.
LEMMA ChooseSInv ==
    ASSUME TInv, SInv, NEW r \in Threads, ChooseTarget(r) \/ ChooseFailover(r)
    PROVE  SInv'
<1>1. CASE ChooseTarget(r)
  <2>1. Candidate \in AllTargets
    BY <1>1, CandidateListed DEF ChooseTarget, Choose, TInv, AllTargets
  <2> QED BY <1>1, <2>1, SendSInv DEF ChooseTarget, InFlightPc
<1>2. CASE ChooseFailover(r)
  <2>1. FailoverCandidate \in AllTargets
    BY <1>2, FailoverCandidateExists DEF ChooseFailover, AllTargets
  <2> QED BY <1>2, <2>1, SendSInv DEF ChooseFailover, ProbingFailover, InFlightPc
<1> QED BY <1>1, <1>2

\* Every step keeps SInv.
LEMMA NextSInv == TInv /\ SInv /\ [Next]_vars => SInv'
<1> SUFFICES ASSUME TInv, SInv, [Next]_vars PROVE SInv'
  OBVIOUS
<1>1. CASE Tick
  BY <1>1, TickSInv
<1>2. CASE UpdateList \/ UNCHANGED vars
  <2>1. Quiet
    BY <1>2 DEF UpdateList, vars, Quiet, reqVars, histVars
  <2> QED BY <2>1, QuietSInv
<1>3. ASSUME NEW r \in Threads, Receive(r) \/ Cancel(r) PROVE SInv'
  BY <1>3, QuietSteps, QuietSInv
<1>4. ASSUME NEW r \in Threads, Step(r) PROVE SInv'
  BY <1>4, QuietSteps, QuietSInv, ChooseSInv, BeginSInv, EndSInv DEF Step
<1>5. ASSUME NEW r \in Threads, NEW o \in Answers, Answer(r, o) PROVE SInv'
  BY <1>5, QuietSteps, QuietSInv
<1> QED BY <1>1, <1>2, <1>3, <1>4, <1>5 DEF Next

\* However the goroutines interleave, a failover target with a limit is sent at
\* most one request per goroutine beyond what the limit leaves room for.
THEOREM FailoverSendsBounded == Spec => []SendsBounded
<1>1. SInv => SendsBounded
  BY DEF SInv
<1> QED BY <1>1, InitTInv, NextTInv, InitSInv, NextSInv, PTL DEF Spec
================================================================================
