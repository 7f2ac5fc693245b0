----------------------------- MODULE RequestProofs -----------------------------
(***************************************************************************)
(* What ProxyTransport promises of each request, for any number of         *)
(* goroutines, targets, attempts and updates of the list: which answer the *)
(* client gets and after how many attempts, what the metrics read, that a  *)
(* target is only asked for what it supports, that the failover targets    *)
(* come last, and that a target that failed is not asked again at once;    *)
(* then that it implements RequestService and TargetList, and that its     *)
(* locks never wait for each other in a circle.                            *)
(***************************************************************************)
EXTENDS ProxyTransportProofs

--------------------------------------------------------------------------------
(* One request: no step of a goroutine touches the request of another. *)

Choosing == {"primary", "failover", "probe failover"}

\* How many attempts have been made, and of the outcome only what the loop's
\* condition leaves: a good answer never comes back to the loop's head.
Attempts(r) ==
    /\ attempt[r] <= MaxAttempts
    /\ pc[r] \in Choosing \cup InFlightPc => attempt[r] < MaxAttempts
    /\ pc[r] \in Choosing \cup {"attempt"} =>
          sends[r] = attempt[r] /\ outcome[r] \notin Available
    /\ pc[r] \in InFlightPc => sends[r] = attempt[r] + 1
    /\ pc[r] = "finish" =>
          IF outcome[r] \in Available THEN sends[r] = attempt[r] + 1 /\ err[r] = "nil"
          ELSE sends[r] = attempt[r] /\ (attempt[r] = MaxAttempts \/ err[r] = "canceled")
    /\ pc[r] \in {"stats", "update"} /\ outcome[r] \in Available => err[r] = "nil"
    /\ target[r] = NoTarget <=> sends[r] = 0

\* The codes of a good answer are those that are logged.
Codes(r) ==
    pc[r] \in {"stats", "update", "finish", "replied"} =>
        /\ outcome[r] = "ok" => ctx[r].rpcErrors = NoCodes
        /\ outcome[r] = "userError" => ctx[r].rpcErrors = <<"node", sends[r]>>

\* Nothing is reported before the end, and then what the request came to.
Reported(r) ==
    /\ pc[r] # "replied" => reply[r] = "none" /\ ctx[r].attempts = 0
    /\ pc[r] = "replied" =>
          /\ reply[r] = "response" /\ outcome[r] \in BadAnswer => sends[r] = MaxAttempts
          /\ ctx[r].hasError => outcome[r] \notin Available
          /\ ctx[r].attempts =
                IF reply[r] = "503" \/ sends[r] = 0 THEN 0
                ELSE IF outcome[r] \in Available THEN sends[r] ELSE sends[r] + 1

\* The client's cancel is seen at the loop's head.
Late(r) ==
    /\ late[r] <= 1
    /\ ~canceled[r] \/ pc[r] \in Choosing => late[r] = 0

Request(r) == Attempts(r) /\ Codes(r) /\ Reported(r) /\ Late(r)

\* The variables of one request.
Same(r) ==
    /\ pc'[r] = pc[r] /\ attempt'[r] = attempt[r] /\ sends'[r] = sends[r]
    /\ outcome'[r] = outcome[r] /\ err'[r] = err[r] /\ canceled'[r] = canceled[r]
    /\ ctx'[r] = ctx[r] /\ reply'[r] = reply[r] /\ late'[r] = late[r]
    /\ target'[r] = target[r] /\ methods'[r] = methods[r]

Act(r) == Receive(r) \/ Cancel(r) \/ Step(r) \/ \E o \in Answers : Answer(r, o)

LEMMA OtherRequests ==
    ASSUME TypeOK, NEW q \in Threads, Act(q), NEW r \in Threads, r # q
    PROVE  Same(r)
<1>0. /\ pc \in [Threads -> Pcs] /\ attempt \in [Threads -> Nat] /\ sends \in [Threads -> Nat]
      /\ outcome \in [Threads -> Outcomes \cup {"none"}] /\ late \in [Threads -> Nat]
      /\ err \in [Threads -> {"nil", "canceled", "transport", "noTargets", "attemptsExceeded"}]
      /\ canceled \in [Threads -> BOOLEAN] /\ ctx \in [Threads -> Context]
      /\ reply \in [Threads -> {"none", "response", "499", "500", "503"}]
      /\ target \in [Threads -> AllTargets \cup {NoTarget}]
      /\ methods \in [Threads -> SUBSET Methods]
  BY DEF TypeOK, Pcs
<1> USE DEF Same, Goto, SendTo, Locked, histVars, reqVars
<1>1. CASE Receive(q)
  BY <1>0, <1>1 DEF Receive
<1>2. CASE Cancel(q)
  BY <1>0, <1>2 DEF Cancel
<1>3. CASE AttemptsUsedUp(q) \/ ContextDone(q) \/ SeekTarget(q)
  BY <1>0, <1>3 DEF AttemptsUsedUp, ContextDone, SeekTarget
<1>4. CASE RefuseTarget(q) \/ NoListedTarget(q) \/ SeekFailover(q) \/ RefuseFailover(q)
  BY <1>0, <1>4 DEF RefuseTarget, NoListedTarget, SeekFailover, RefuseFailover
<1>5. CASE ChooseTarget(q)
  BY <1>0, <1>5 DEF ChooseTarget
<1>6. CASE ChooseFailover(q)
  BY <1>0, <1>6 DEF ChooseFailover
<1>7. CASE NoAvailableTargets(q)
  BY <1>0, <1>7 DEF NoAvailableTargets
<1>8. CASE BeginUpdateStats(q) \/ EndUpdateStats(q)
  BY <1>0, <1>8 DEF BeginUpdateStats, EndUpdateStats
<1>9. CASE Finish(q)
  BY <1>0, <1>9 DEF Finish
<1>10. ASSUME NEW o \in Answers, Answer(q, o)
       PROVE  Same(r)
  BY <1>0, <1>10 DEF Answer
<1> QED
  BY <1>1, <1>2, <1>3, <1>4, <1>5, <1>6, <1>7, <1>8, <1>9, <1>10 DEF Act, Step

LEMMA SameRequest ==
    ASSUME NEW r \in Threads, Request(r), Same(r)
    PROVE  Request(r)'
  BY DEF Request, Attempts, Codes, Reported, Late, Same

\* The fields of a context that an assignment to another leaves alone.
LEMMA OtherFields ==
    ASSUME NEW c \in Context, NEW x
    PROVE  /\ [c EXCEPT !.hasError = x].endpoint = c.endpoint
           /\ [c EXCEPT !.hasError = x].rpcErrors = c.rpcErrors
           /\ [c EXCEPT !.hasError = x].attempts = c.attempts
           /\ [c EXCEPT !.hasError = x].hasError = x
           /\ [c EXCEPT !.rpcErrors = x].endpoint = c.endpoint
           /\ [c EXCEPT !.rpcErrors = x].userError = c.userError
           /\ [c EXCEPT !.rpcErrors = x].hasError = c.hasError
           /\ [c EXCEPT !.rpcErrors = x].attempts = c.attempts
           /\ [c EXCEPT !.rpcErrors = x].rpcErrors = x
           /\ [c EXCEPT !.userError = x].attempts = c.attempts
           /\ [c EXCEPT !.userError = x].rpcErrors = c.rpcErrors
           /\ [c EXCEPT !.endpoint = x].endpoint = x
           /\ [c EXCEPT !.endpoint = x].hasError = c.hasError
           /\ [c EXCEPT !.endpoint = x].rpcErrors = c.rpcErrors
           /\ [c EXCEPT !.endpoint = x].attempts = c.attempts
           /\ [c EXCEPT !.attempts = x].attempts = x
           /\ [c EXCEPT !.attempts = x].hasError = c.hasError
           /\ [c EXCEPT !.attempts = x].endpoint = c.endpoint
           /\ [c EXCEPT !.attempts = x].rpcErrors = c.rpcErrors
BY DEF Context

\* A target that was chosen is one.
LEMMA ChosenTarget ==
    ASSUME TInv, NEW r \in Threads, ChooseTarget(r) \/ ChooseFailover(r)
    PROVE  target'[r] # NoTarget
<1>1. target \in [Threads -> AllTargets \cup {NoTarget}]
  BY DEF TInv, TypeOK
<1>2. CASE ChooseTarget(r)
  <2>1. target'[r] = Candidate
    BY <1>1, <1>2 DEF ChooseTarget, SendTo
  <2>2. Candidate \in Targets
    BY <1>2, CandidateListed DEF ChooseTarget, Choose, TInv
  <2>3. \A t \in Targets : t[2] \in 1 .. MaxUpdates
    BY DEF Targets
  <2>4. NoTarget[2] = -1
    BY DEF NoTarget
  <2>5. -1 \notin 1 .. MaxUpdates
    BY MaxUpdatesAssumption
  <2>6. NoTarget \notin Targets
    BY <2>3, <2>4, <2>5, Zenon
  <2> QED
    BY <2>1, <2>2, <2>6
<1>3. CASE ChooseFailover(r)
  <2>1. target'[r] = FailoverCandidate
    BY <1>1, <1>3 DEF ChooseFailover, SendTo
  <2> QED
    BY <2>1 DEF FailoverCandidate, NoTarget
<1> QED
  BY <1>2, <1>3

LEMMA OwnRequest ==
    ASSUME TInv, NEW r \in Threads, Request(r), Act(r)
    PROVE  Request(r)'
<1>0. /\ pc \in [Threads -> Pcs] /\ attempt \in [Threads -> Nat] /\ sends \in [Threads -> Nat]
      /\ outcome \in [Threads -> Outcomes \cup {"none"}] /\ late \in [Threads -> Nat]
      /\ err \in [Threads -> {"nil", "canceled", "transport", "noTargets", "attemptsExceeded"}]
      /\ canceled \in [Threads -> BOOLEAN] /\ ctx \in [Threads -> Context]
      /\ reply \in [Threads -> {"none", "response", "499", "500", "503"}]
      /\ target \in [Threads -> AllTargets \cup {NoTarget}]
      /\ MaxAttempts \in Nat \ {0}
  BY BoundsAssumption DEF TInv, TypeOK, Pcs
<1>00. Attempts(r) /\ Codes(r) /\ Reported(r) /\ Late(r)
  BY DEF Request
<1>01. /\ attempt[r] \in Nat /\ sends[r] \in Nat /\ late[r] \in Nat
       /\ MaxAttempts \in Nat /\ MaxAttempts > 0
  BY <1>0
<1> USE DEF Goto, histVars, reqVars, Choosing, InFlightPc, Pcs
<1>1. CASE Receive(r)
  <2>1. /\ pc'[r] = "attempt" /\ attempt'[r] = 0 /\ sends'[r] = 0 /\ outcome'[r] = "none"
        /\ ctx'[r] = FreshContext /\ reply'[r] = "none" /\ late'[r] = 0
        /\ target'[r] = NoTarget
    BY <1>0, <1>1 DEF Receive
  <2>2. FreshContext.attempts = 0
    BY DEF FreshContext
  <2>3. Attempts(r)'
    BY <1>01, <2>1 DEF Attempts, Available
  <2>4. Codes(r)' /\ Reported(r)' /\ Late(r)'
    BY <1>01, <2>1, <2>2 DEF Codes, Reported, Late
  <2> QED
    BY <2>3, <2>4 DEF Request
<1>2. CASE Cancel(r)
  <2>1. /\ UNCHANGED <<pc, attempt, target, outcome, err, ctx, reply, sends, late>>
        /\ ~canceled[r]
    BY <1>2 DEF Cancel
  <2> QED
    BY <1>0, <1>00, <2>1 DEF Request, Attempts, Codes, Reported, Late
<1>3. CASE AttemptsUsedUp(r)
  <2>1. /\ pc[r] = "attempt" /\ pc'[r] = "finish" /\ attempt[r] >= MaxAttempts
        /\ UNCHANGED <<attempt, target, outcome, err, canceled, ctx, reply, sends, late>>
    BY <1>0, <1>3 DEF AttemptsUsedUp
  <2>2. /\ attempt[r] = MaxAttempts /\ outcome[r] \notin Available /\ sends[r] = attempt[r]
        /\ target[r] = NoTarget <=> sends[r] = 0
    BY <1>01, <1>00, <2>1 DEF Attempts
  <2>3. Attempts(r)'
    BY <1>0, <2>1, <2>2 DEF Attempts, Available
  <2>4. Codes(r)' /\ Reported(r)' /\ Late(r)'
    BY <1>0, <1>00, <2>1, <2>2 DEF Codes, Reported, Late, Available
  <2> QED
    BY <2>3, <2>4 DEF Request
<1>4. CASE ContextDone(r)
  <2>1. /\ pc[r] = "attempt" /\ pc'[r] = "finish" /\ err'[r] = "canceled"
        /\ UNCHANGED <<attempt, target, outcome, canceled, ctx, reply, sends, late>>
    BY <1>0, <1>4 DEF ContextDone
  <2> QED
    BY <1>0, <1>00, <2>1 DEF Request, Attempts, Codes, Reported, Late, Available
<1>5. CASE SeekTarget(r)
  <2>1. /\ pc[r] = "attempt" /\ pc'[r] = "primary" /\ attempt[r] < MaxAttempts
        /\ ~canceled[r]
        /\ UNCHANGED <<attempt, target, outcome, err, canceled, ctx, reply, sends, late>>
    BY <1>0, <1>5 DEF SeekTarget
  <2> QED
    BY <1>0, <1>00, <2>1 DEF Request, Attempts, Codes, Reported, Late
<1>6. CASE RefuseTarget(r) \/ NoListedTarget(r) \/ SeekFailover(r) \/ RefuseFailover(r)
  <2>1. /\ pc[r] \in Choosing /\ pc'[r] \in Choosing
        /\ UNCHANGED <<attempt, target, outcome, err, canceled, ctx, reply, sends, late>>
    BY <1>0, <1>6 DEF RefuseTarget, NoListedTarget, SeekFailover, RefuseFailover, ProbingFailover
  <2> QED
    BY <1>0, <1>00, <2>1 DEF Request, Attempts, Codes, Reported, Late
<1>7. CASE ChooseTarget(r) \/ ChooseFailover(r)
  <2>1. /\ pc[r] \in Choosing /\ pc'[r] = "sent" /\ sends'[r] = sends[r] + 1
        /\ late'[r] = IF canceled[r] THEN late[r] + 1 ELSE late[r]
        /\ UNCHANGED <<attempt, outcome, canceled, ctx, reply>>
    BY <1>0, <1>7 DEF ChooseTarget, ChooseFailover, SendTo, ProbingFailover
  <2>2. target'[r] # NoTarget
    BY <1>0, <1>7, ChosenTarget
  <2>3. attempt[r] < MaxAttempts /\ sends[r] = attempt[r]
    BY <1>00, <2>1 DEF Attempts
  <2>4. attempt'[r] = attempt[r] /\ sends'[r] = attempt[r] + 1
    BY <2>1, <2>3
  <2>5. sends'[r] # 0
    BY <1>01, <2>4
  <2>6. pc'[r] = "sent" /\ pc'[r] \in InFlightPc /\ pc'[r] \notin Choosing \cup {"attempt"}
    BY <2>1
  <2>7. Attempts(r)'
    <3>1. attempt'[r] < MaxAttempts /\ attempt'[r] <= MaxAttempts
      BY <1>01, <2>3, <2>4
    <3>2. sends'[r] = attempt'[r] + 1
      BY <2>4
    <3>3. target'[r] = NoTarget <=> sends'[r] = 0
      BY <2>2, <2>5
    <3> QED
      BY <2>6, <3>1, <3>2, <3>3, Zenon DEF Attempts
  <2>8. Codes(r)' /\ Reported(r)'
    BY <1>0, <1>00, <2>1 DEF Codes, Reported
  <2>9. Late(r)'
    <3>1. late[r] = 0
      BY <1>00, <2>1 DEF Late
    <3>2. CASE canceled[r]
      <4>1. late'[r] = late[r] + 1
        BY <2>1, <3>2
      <4>2. late'[r] <= 1
        BY <3>1, <4>1
      <4>3. canceled'[r] /\ pc'[r] = "sent"
        BY <2>1, <3>2
      <4>4. pc'[r] \notin Choosing
        BY <4>3
      <4> QED
        BY <4>2, <4>3, <4>4, Zenon DEF Late
    <3>3. CASE ~canceled[r]
      <4>1. late'[r] = 0
        BY <2>1, <3>1, <3>3
      <4> QED
        BY <4>1 DEF Late
    <3> QED
      BY <3>2, <3>3
  <2> QED
    BY <2>7, <2>8, <2>9 DEF Request
<1>8. CASE NoAvailableTargets(r)
  <2>1. /\ pc[r] \in Choosing /\ pc'[r] = "replied" /\ reply'[r] = "503"
        /\ ctx'[r] = UnavailableContext(r)
        /\ UNCHANGED <<attempt, target, outcome, canceled, sends, late>>
    BY <1>0, <1>8 DEF NoAvailableTargets
  <2>2. ctx'[r].attempts = 0
    <3>1. ctx[r] \in Context /\ ctx[r].attempts = 0
      BY <1>0, <1>00, <2>1 DEF Reported
    <3> DEFINE c1 == [ctx[r] EXCEPT !.hasError = TRUE]
    <3>2. c1 \in Context /\ c1.attempts = 0
      BY <3>1, ContextFields, OtherFields
    <3>3. UnavailableContext(r) = [c1 EXCEPT !.rpcErrors = <<"proxy", 2000>>]
      BY DEF UnavailableContext
    <3> HIDE DEF c1
    <3>4. ctx'[r] = UnavailableContext(r)
      BY <2>1
    <3> QED
      BY <3>2, <3>3, <3>4, OtherFields
  <2>3. outcome'[r] \notin Available
    BY <1>00, <2>1 DEF Attempts
  <2> QED
    BY <1>0, <1>00, <2>1, <2>2, <2>3 DEF Request, Attempts, Codes, Reported, Late, Available
<1>9. ASSUME NEW o \in Answers, Answer(r, o)
      PROVE  Request(r)'
  <2>1. /\ pc[r] = "sent" /\ pc'[r] = "stats" /\ outcome'[r] = o
        /\ ctx'[r] = AnsweredContext(r, o)
        /\ UNCHANGED <<attempt, target, canceled, reply, sends, late>>
    BY <1>0, <1>9 DEF Answer
  <2>2. o # "transportError" => err'[r] = "nil"
    BY <1>0, <1>9 DEF Answer
  <2>3. ctx'[r].rpcErrors = CodesAfter(r, o) /\ ctx'[r].attempts = ctx[r].attempts
    <3>1. ctx[r] \in Context
      BY <1>0
    <3> DEFINE c1 == [ctx[r] EXCEPT !.rpcErrors = CodesAfter(r, o)]
               b  == ctx[r].userError \/ o = "userError"
    <3>2. CodesAfter(r, o) \in ErrorCodes
      BY <1>01, <3>1 DEF CodesAfter, ErrorCodes, Context
    <3>3. /\ c1 \in Context /\ c1.userError = ctx[r].userError
          /\ c1.attempts = ctx[r].attempts /\ c1.rpcErrors = CodesAfter(r, o)
      BY <3>1, <3>2, ContextFields, OtherFields
    <3>4. AnsweredContext(r, o) = [c1 EXCEPT !.userError = b]
      BY <3>3 DEF AnsweredContext
    <3> HIDE DEF c1, b
    <3>5. ctx'[r] = AnsweredContext(r, o)
      BY <2>1
    <3> QED
      BY <3>3, <3>4, <3>5, OtherFields
  <2>4. /\ o = "ok" => CodesAfter(r, o) = NoCodes
        /\ o = "userError" => CodesAfter(r, o) = <<"node", sends[r]>>
    BY DEF CodesAfter
  <2> QED
    BY <1>0, <1>00, <2>1, <2>2, <2>3, <2>4
       DEF Request, Attempts, Codes, Reported, Late, Available
<1>10. CASE BeginUpdateStats(r)
  <2>1. /\ pc[r] = "stats" /\ pc'[r] = "update"
        /\ UNCHANGED <<attempt, target, outcome, err, canceled, ctx, reply, sends, late>>
    BY <1>0, <1>10 DEF BeginUpdateStats
  <2> QED
    BY <1>0, <1>00, <2>1 DEF Request, Attempts, Codes, Reported, Late
<1>11. CASE EndUpdateStats(r)
  <2>1. /\ pc[r] = "update"
        /\ UNCHANGED <<target, outcome, err, canceled, ctx, reply, sends, late>>
    BY <1>11 DEF EndUpdateStats
  <2>2. IF outcome[r] \in Available
        THEN pc'[r] = "finish" /\ attempt'[r] = attempt[r]
        ELSE pc'[r] = "attempt" /\ attempt'[r] = attempt[r] + 1
    BY <1>0, <1>11 DEF EndUpdateStats, LoopEnds
  <2>3. attempt[r] < MaxAttempts /\ sends[r] = attempt[r] + 1
    BY <1>00, <2>1 DEF Attempts
  <2>4. /\ outcome[r] \in Available => err[r] = "nil"
        /\ target'[r] = NoTarget <=> sends'[r] = 0
    BY <1>00, <2>1 DEF Attempts
  <2>5. Attempts(r)'
    <3>1. CASE outcome[r] \in Available
      <4>1. /\ pc'[r] = "finish" /\ attempt'[r] = attempt[r] /\ sends'[r] = attempt[r] + 1
            /\ err'[r] = "nil" /\ outcome'[r] \in Available /\ attempt'[r] <= MaxAttempts
        BY <1>01, <2>1, <2>2, <2>3, <2>4, <3>1 DEF Available
      <4> QED
        BY <1>01, <2>4, <4>1 DEF Attempts
    <3>2. CASE outcome[r] \notin Available
      <4>1. /\ pc'[r] = "attempt" /\ attempt'[r] = attempt[r] + 1
            /\ sends'[r] = attempt[r] + 1 /\ outcome'[r] \notin Available
            /\ attempt'[r] <= MaxAttempts
        BY <1>01, <2>1, <2>2, <2>3, <3>2 DEF Available
      <4> QED
        BY <1>01, <2>4, <4>1 DEF Attempts
    <3> QED
      BY <3>1, <3>2
  <2>6. Codes(r)'
    BY <1>0, <1>00, <2>1, <2>2 DEF Codes
  <2>7. Reported(r)' /\ Late(r)'
    BY <1>0, <1>00, <2>1, <2>2 DEF Reported, Late
  <2> QED
    BY <2>5, <2>6, <2>7 DEF Request
<1>12. CASE Finish(r)
  <2>1. /\ pc[r] = "finish" /\ pc'[r] = "replied" /\ ctx'[r] = FinalContext(r)
        /\ reply'[r] = Status(FinalErr(r))
        /\ UNCHANGED <<attempt, outcome, canceled, sends, late, target>>
    BY <1>0, <1>12 DEF Finish
  <2>2. /\ ctx'[r].hasError = (FinalErr(r) # "nil")
        /\ ctx'[r].attempts = IF target[r] = NoTarget THEN ctx[r].attempts ELSE attempt[r] + 1
        /\ FinalErr(r) # "attemptsExceeded" => ctx'[r].rpcErrors = ctx[r].rpcErrors
    <3>1. ctx[r] \in Context
      BY <1>0
    <3> DEFINE c0 == ctx[r]
               h  == (FinalErr(r) # "nil")
               c1 == [c0 EXCEPT !.hasError = h]
               c2 == [c1 EXCEPT !.endpoint = target[r]]
               m  == IF target[r] = NoTarget THEN c0.attempts ELSE attempt[r] + 1
               e  == IF FinalErr(r) = "attemptsExceeded"
                     THEN <<"proxy", 2001>> ELSE c0.rpcErrors
               c3 == [c2 EXCEPT !.attempts = m]
    <3>2. c0.attempts \in Nat /\ c0 \in Context /\ h \in BOOLEAN
      BY <3>1 DEF Context
    <3>3. m \in Nat /\ target[r] \in AllTargets \cup {NoTarget}
      <4>1. attempt[r] + 1 \in Nat
        BY <1>01
      <4>2. target[r] \in AllTargets \cup {NoTarget}
        BY <1>0
      <4> QED
        BY <3>2, <4>1, <4>2
    <3>4. /\ m = IF target[r] = NoTarget THEN c0.attempts ELSE attempt[r] + 1
          /\ FinalErr(r) # "attemptsExceeded" => e = c0.rpcErrors
      OBVIOUS
    <3> HIDE DEF h, c0, m, e
    <3>5. /\ c1 \in Context /\ c1.hasError = h
          /\ c1.attempts = c0.attempts /\ c1.rpcErrors = c0.rpcErrors
      BY <3>2, ContextFields, OtherFields
    <3> HIDE DEF c1
    <3>6. /\ c2 \in Context /\ c2.hasError = h /\ c2.endpoint = target[r]
          /\ c2.attempts = c0.attempts /\ c2.rpcErrors = c0.rpcErrors
      BY <3>3, <3>5, ContextFields, OtherFields
    <3> HIDE DEF c2
    <3>7. /\ c3 \in Context /\ c3.hasError = h /\ c3.endpoint = target[r]
          /\ c3.attempts = m /\ c3.rpcErrors = c0.rpcErrors
      BY <3>3, <3>6, ContextFields, OtherFields
    <3>8. FinalContext(r) = [c3 EXCEPT !.rpcErrors = e]
      BY <3>5, <3>6, <3>7 DEF FinalContext, ReportedAttempts, h, c0, c1, c2, m, e
    <3> HIDE DEF c3
    <3>9. /\ FinalContext(r).hasError = h /\ FinalContext(r).endpoint = target[r]
          /\ FinalContext(r).attempts = m /\ FinalContext(r).rpcErrors = e
      BY <3>7, <3>8, OtherFields
    <3>10. ctx'[r] = FinalContext(r)
      BY <2>1
    <3> QED
      BY <3>4, <3>9, <3>10 DEF h, c0
  <2>3. reply'[r] = "response" => FinalErr(r) = "nil"
    BY <2>1 DEF Status
  <2>4. FinalErr(r) = "nil" => err[r] = "nil"
    BY DEF FinalErr
  <2>5. outcome[r] \in Available => FinalErr(r) = "nil"
    BY <1>00, <2>1 DEF FinalErr, NoResponse, Available, Attempts
  <2>6. Attempts(r)' /\ Late(r)'
    BY <1>0, <1>00, <2>1 DEF Attempts, Late
  <2>7. Codes(r)'
    BY <1>00, <2>1, <2>2, <2>5 DEF Codes, Available
  <2>8. Reported(r)'
    <3>1. reply'[r] = "response" /\ outcome[r] \in BadAnswer => sends[r] = MaxAttempts
      BY <1>00, <2>1, <2>3, <2>4 DEF Attempts, Available, BadAnswer
    <3>2. ctx'[r].hasError => outcome[r] \notin Available
      BY <2>2, <2>5
    <3>3. ctx'[r].attempts =
             IF sends[r] = 0 THEN 0
             ELSE IF outcome[r] \in Available THEN sends[r] ELSE sends[r] + 1
      <4>1. ctx[r].attempts = 0
        BY <1>00, <2>1 DEF Reported
      <4>2. /\ target[r] = NoTarget <=> sends[r] = 0
            /\ outcome[r] \in Available => sends[r] = attempt[r] + 1
            /\ outcome[r] \notin Available => sends[r] = attempt[r]
        BY <1>00, <2>1 DEF Attempts
      <4> QED
        BY <1>01, <2>2, <4>1, <4>2
    <3>4. reply'[r] # "503"
      BY <2>1 DEF Status
    <3> QED
      BY <2>1, <3>1, <3>2, <3>3, <3>4 DEF Reported
  <2> QED
    BY <2>6, <2>7, <2>8 DEF Request
<1> QED
  BY <1>1, <1>2, <1>3, <1>4, <1>5, <1>6, <1>7, <1>8, <1>9, <1>10, <1>11, <1>12 DEF Act, Step

Requests == \A r \in Threads : Request(r)

\* Each step is one of a request's own, or leaves the request alone.
LEMMA ActOrSame ==
    ASSUME TypeOK, [Next]_vars, NEW r \in Threads
    PROVE  Act(r) \/ Same(r)
<1>1. ASSUME NEW q \in Threads, q # r, Act(q)
      PROVE  Same(r)
  BY <1>1, OtherRequests
<1>2. CASE Tick \/ UpdateList \/ UNCHANGED vars
  BY <1>2 DEF Tick, UpdateList, vars, reqVars, histVars, Same
<1> QED
  BY <1>1, <1>2 DEF Next, Act

LEMMA NextRequests ==
    TInv /\ Requests /\ [Next]_vars => Requests'
<1> SUFFICES ASSUME TInv, Requests, [Next]_vars, NEW r \in Threads
             PROVE  Request(r)'
  BY DEF Requests
<1>1. TypeOK /\ Request(r)
  BY DEF TInv, Requests
<1>2. CASE Act(r)
  BY <1>1, <1>2, OwnRequest
<1>3. CASE Same(r)
  BY <1>1, <1>3, SameRequest
<1> QED
  BY <1>1, <1>2, <1>3, ActOrSame

LEMMA InitRequests ==
    Init => Requests
<1> SUFFICES ASSUME Init, NEW r \in Threads
             PROVE  Request(r)
  BY DEF Requests
<1>1. /\ pc[r] = "idle" /\ attempt[r] = 0 /\ sends[r] = 0 /\ late[r] = 0
      /\ reply[r] = "none" /\ ctx[r] = FreshContext
  BY DEF Init
<1>2. FreshContext.attempts = 0 /\ target[r] = NoTarget
  BY DEF FreshContext, Init
<1> QED
  BY <1>1, <1>2, BoundsAssumption
     DEF Request, Attempts, Codes, Reported, Late, Choosing, InFlightPc

LEMMA RequestInvariant ==
    Spec => [](TInv /\ Requests)
  BY InitTInv, NextTInv, InitRequests, NextRequests, PTL DEF Spec

\* A bad answer reaches the client only after MaxAttempts attempts
\* (transport.go:109-165).
THEOREM BadAnswersAreRetried ==
    Spec => []BadAnswerOnlyWhenExhausted
<1>1. TInv /\ Requests => BadAnswerOnlyWhenExhausted
  BY DEF Requests, Request, Reported, BadAnswerOnlyWhenExhausted
<1> QED
  BY <1>1, RequestInvariant, PTL

\* No request that the metrics count as failed had a good answer
\* (middlewares/metrics.go:19).
THEOREM FailedWithoutAnswer ==
    Spec => []FailureMeansNoGoodAnswer
<1>1. TInv /\ Requests => FailureMeansNoGoodAnswer
  BY DEF Requests, Request, Reported, FailureMeansNoGoodAnswer
<1> QED
  BY <1>1, RequestInvariant, PTL

\* The number of attempts that is reported is right after a good answer, one too high
\* after none, and 0 when the targets ran out (transport.go:117-120, 174).
THEOREM AttemptsFollowTheReply ==
    Spec => []AttemptsByReply
<1>1. TInv /\ Requests => AttemptsByReply
  BY DEF Requests, Request, Reported, AttemptsByReply
<1> QED
  BY <1>1, RequestInvariant, PTL

\* A good answer is logged with its own codes, not those of an earlier attempt
\* (errors.go:59-60).
THEOREM CodesAreOfTheAnswer ==
    Spec => []CodesOfGoodAnswer
<1>1. TInv /\ Requests => CodesOfGoodAnswer
  BY DEF Requests, Request, Codes, CodesOfGoodAnswer
<1> QED
  BY <1>1, RequestInvariant, PTL

\* At most one attempt goes out after the client has gone (transport.go:110-115).
THEOREM OneLateSend ==
    Spec => []AtMostOneLateSend
<1>1. TInv /\ Requests => AtMostOneLateSend
  BY DEF Requests, Request, Late, AtMostOneLateSend
<1> QED
  BY <1>1, RequestInvariant, PTL

--------------------------------------------------------------------------------
(***************************************************************************)
(* What a client sees.  RoundTrip returns resp and err as its loop leaves  *)
(* them, so that what it returns depends on what earlier attempts left     *)
(* there: an error goes with the latest attempt, or with the client's      *)
(* leaving, and resp is empty only if that attempt got no response.        *)
(***************************************************************************)
LoopPc == {"attempt", "stats", "update", "finish"}

Errors(r) ==
    /\ err[r] = "canceled" => canceled[r]
    /\ pc[r] \in LoopPc => IF outcome[r] = "transportError"
                             THEN err[r] \in {"transport", "canceled"}
                             ELSE err[r] \in {"nil", "canceled"}
    /\ pc[r] \in LoopPc \cup Choosing /\ sends[r] > 0 => outcome[r] # "none"

LEMMA OwnErrors ==
    ASSUME TypeOK, NEW r \in Threads, Request(r), Errors(r), Act(r)
    PROVE  Errors(r)'
<1>0. /\ pc \in [Threads -> Pcs] /\ sends \in [Threads -> Nat] /\ sends[r] \in Nat
      /\ outcome \in [Threads -> Outcomes \cup {"none"}]
      /\ err \in [Threads -> {"nil", "canceled", "transport", "noTargets", "attemptsExceeded"}]
      /\ canceled \in [Threads -> BOOLEAN]
  BY DEF TypeOK, Pcs
<1> USE DEF Goto, histVars, reqVars, LoopPc, Choosing, Pcs
<1>1. CASE Receive(r)
  <2>1. /\ pc'[r] = "attempt" /\ sends'[r] = 0 /\ outcome'[r] = "none" /\ err'[r] = "nil"
    BY <1>0, <1>1 DEF Receive
  <2>2. outcome'[r] # "transportError" /\ err'[r] # "canceled" /\ ~(sends'[r] > 0)
    BY <2>1
  <2> QED
    BY <2>1, <2>2 DEF Errors
<1>2. CASE Cancel(r)
  <2>1. UNCHANGED <<pc, outcome, err, sends>> /\ canceled'[r]
    BY <1>0, <1>2 DEF Cancel
  <2> QED
    BY <2>1 DEF Errors
<1>3. CASE AttemptsUsedUp(r) \/ BeginUpdateStats(r) \/ EndUpdateStats(r)
  <2>1. /\ pc[r] \in LoopPc /\ UNCHANGED <<outcome, err, canceled, sends>>
    BY <1>3 DEF AttemptsUsedUp, BeginUpdateStats, EndUpdateStats
  <2> QED
    BY <2>1 DEF Errors
<1>4. CASE ContextDone(r)
  <2>1. /\ pc[r] = "attempt" /\ pc'[r] = "finish" /\ err'[r] = "canceled" /\ canceled[r]
        /\ UNCHANGED <<outcome, canceled, sends>>
    BY <1>0, <1>4 DEF ContextDone
  <2> QED
    BY <2>1 DEF Errors
<1>5. CASE \/ SeekTarget(r) \/ RefuseTarget(r) \/ NoListedTarget(r)
           \/ SeekFailover(r) \/ RefuseFailover(r)
  <2>1. /\ pc[r] \in Choosing \cup {"attempt"} /\ pc'[r] \in Choosing
        /\ UNCHANGED <<outcome, err, canceled, sends>>
    BY <1>0, <1>5 DEF SeekTarget, RefuseTarget, NoListedTarget, SeekFailover, RefuseFailover,
                      ProbingFailover
  <2> QED
    BY <2>1 DEF Errors
<1>6. CASE ChooseTarget(r) \/ ChooseFailover(r)
  <2>1. pc'[r] = "sent" /\ err'[r] = "nil"
    BY <1>0, <1>6 DEF ChooseTarget, ChooseFailover, SendTo
  <2> QED
    BY <2>1 DEF Errors
<1>7. CASE NoAvailableTargets(r)
  <2>1. pc'[r] = "replied" /\ err'[r] = "noTargets"
    BY <1>0, <1>7 DEF NoAvailableTargets
  <2> QED
    BY <2>1 DEF Errors
<1>8. ASSUME NEW o \in Answers, Answer(r, o)
      PROVE  Errors(r)'
  <2>1. /\ pc'[r] = "stats" /\ outcome'[r] = o /\ canceled' = canceled
        /\ o \in Outcomes
    BY <1>0, <1>8, EnvironmentAssumption DEF Answer
  <2>2. /\ o # "transportError" => err'[r] = "nil"
        /\ o = "transportError" =>
              err'[r] = "transport" \/ (err'[r] = "canceled" /\ canceled[r])
    BY <1>0, <1>8 DEF Answer
  <2>3. o # "none"
    BY <2>1 DEF Outcomes, Available, BadAnswer
  <2> QED
    BY <2>1, <2>2, <2>3 DEF Errors
<1>9. CASE Finish(r)
  <2>1. /\ pc[r] = "finish" /\ pc'[r] = "replied" /\ err'[r] = FinalErr(r)
        /\ canceled' = canceled
    BY <1>0, <1>9 DEF Finish
  <2>2. FinalErr(r) = "canceled" => err[r] = "canceled"
    BY DEF FinalErr
  <2> QED
    BY <2>1, <2>2 DEF Errors
<1> QED
  BY <1>1, <1>2, <1>3, <1>4, <1>5, <1>6, <1>7, <1>8, <1>9 DEF Act, Step

ServiceInv == TInv /\ Requests /\ \A r \in Threads : Errors(r)

LEMMA ServiceInvariant ==
    Spec => []ServiceInv
<1>1. Init => \A r \in Threads : Errors(r)
  <2> SUFFICES ASSUME Init, NEW r \in Threads
               PROVE  Errors(r)
    OBVIOUS
  <2>1. pc[r] = "idle" /\ err[r] = "nil"
    BY DEF Init
  <2> QED
    BY <2>1 DEF Errors, LoopPc, Choosing
<1>2. ServiceInv /\ [Next]_vars => (\A r \in Threads : Errors(r))'
  <2> SUFFICES ASSUME ServiceInv, [Next]_vars, NEW r \in Threads
               PROVE  Errors(r)'
    OBVIOUS
  <2>0. TypeOK /\ Request(r) /\ Errors(r)
    BY DEF ServiceInv, TInv, Requests
  <2>1. CASE Act(r)
    BY <2>0, <2>1, OwnErrors
  <2>2. CASE Same(r)
    BY <2>0, <2>2 DEF Same, Errors
  <2>3. Act(r) \/ Same(r)
    BY <2>0, ActOrSame
  <2> QED
    BY <2>1, <2>2, <2>3
<1> QED
  BY <1>1, <1>2, InitTInv, NextTInv, InitRequests, NextRequests, PTL DEF Spec, ServiceInv

\* A function of which one value changes.
LEMMA OneValue ==
    ASSUME NEW S, NEW s \in S, NEW f, NEW g, f = [x \in S |-> f[x]], g = [x \in S |-> g[x]],
           \A x \in S \ {s} : g[x] = f[x]
    PROVE  g = [f EXCEPT ![s] = g[s]]
OBVIOUS

States   == [r \in Threads |-> ServiceState(r)]
Results  == [r \in Threads |-> AnswerOf(r)]
Patients == [r \in Threads |-> Patience(r)]

Replies == {"none", "response", "499", "500", "503"}

LEMMA ViewTypes ==
    TypeOK => sends \in [Threads -> Nat] /\ reply \in [Threads -> Replies]
BY DEF TypeOK, Replies

\* A step of one goroutine changes what its own client sees, if anything.
LEMMA OneClient ==
    ASSUME ServiceInv, TypeOK', NEW r \in Threads, Act(r)
    PROVE  /\ States'   = [States EXCEPT ![r] = ServiceState(r)']
           /\ sends'    = [sends EXCEPT ![r] = sends'[r]]
           /\ Results'  = [Results EXCEPT ![r] = AnswerOf(r)']
           /\ Patients' = [Patients EXCEPT ![r] = Patience(r)']
           /\ reply'    = [reply EXCEPT ![r] = reply'[r]]
<1>1. TypeOK
  BY DEF ServiceInv, TInv
<1>2. ASSUME NEW q \in Threads \ {r}
      PROVE  /\ ServiceState(q)' = ServiceState(q) /\ sends'[q] = sends[q]
             /\ AnswerOf(q)' = AnswerOf(q) /\ Patience(q)' = Patience(q)
             /\ reply'[q] = reply[q]
  <2>1. Same(q)
    BY <1>1, OtherRequests
  <2> QED
    BY <2>1 DEF Same, ServiceState, AnswerOf, Patience
<1>3. /\ sends = [q \in Threads |-> sends[q]] /\ sends' = [q \in Threads |-> sends'[q]]
      /\ reply = [q \in Threads |-> reply[q]] /\ reply' = [q \in Threads |-> reply'[q]]
  <2>1. /\ sends \in [Threads -> Nat] /\ sends' \in [Threads -> Nat]
        /\ reply \in [Threads -> Replies] /\ reply' \in [Threads -> Replies]
    BY <1>1 DEF TypeOK, Replies
  <2> QED
    BY <2>1
<1>4. /\ States'   = [q \in Threads |-> ServiceState(q)']
      /\ Results'  = [q \in Threads |-> AnswerOf(q)']
      /\ Patients' = [q \in Threads |-> Patience(q)']
  BY DEF States, Results, Patients
<1>5. States' = [States EXCEPT ![r] = ServiceState(r)']
  BY <1>2, <1>4 DEF States
<1>6. Results' = [Results EXCEPT ![r] = AnswerOf(r)']
  BY <1>2, <1>4 DEF Results
<1>7. Patients' = [Patients EXCEPT ![r] = Patience(r)']
  BY <1>2, <1>4 DEF Patients
<1>8. /\ sends' = [sends EXCEPT ![r] = sends'[r]]
      /\ reply' = [reply EXCEPT ![r] = reply'[r]]
  BY <1>2, <1>3, OneValue
<1> QED
  BY <1>5, <1>6, <1>7, <1>8

\* What a client sees of its request, and of a step of it.
Stutter(r) ==
    /\ ServiceState(r)' = ServiceState(r) /\ sends'[r] = sends[r]
    /\ AnswerOf(r)' = AnswerOf(r) /\ Patience(r)' = Patience(r) /\ reply'[r] = reply[r]

Opened(r) ==
    /\ ServiceState(r) \in {"none", "closed"} /\ ServiceState(r)' = "open"
    /\ sends'[r] = 0 /\ AnswerOf(r)' = "none" /\ Patience(r)' = "waiting" /\ reply'[r] = "none"

Left(r) ==
    /\ ServiceState(r) \in {"open", "trying"} /\ Patience(r) = "waiting"
    /\ Patience(r)' = "gone"
    /\ ServiceState(r)' = ServiceState(r) /\ sends'[r] = sends[r]
    /\ AnswerOf(r)' = AnswerOf(r) /\ reply'[r] = reply[r]

Tried(r) ==
    /\ ServiceState(r) = "open" /\ sends[r] < MaxAttempts
    /\ AnswerOf(r) # "good" /\ Patience(r) # "ignored"
    /\ ServiceState(r)' = "trying" /\ sends'[r] = sends[r] + 1
    /\ Patience(r)' = IF Patience(r) = "gone" THEN "ignored" ELSE Patience(r)
    /\ AnswerOf(r)' = AnswerOf(r) /\ reply'[r] = reply[r]

Answered(r) ==
    /\ ServiceState(r) = "trying" /\ ServiceState(r)' = "open"
    /\ AnswerOf(r)' \in {"good", "bad", "failed"}
    /\ sends'[r] = sends[r] /\ Patience(r)' = Patience(r) /\ reply'[r] = reply[r]

\* Service!MayReply.
May(r, s) ==
    \/ s = "response" /\ AnswerOf(r) = "good"
    \/ s = "response" /\ AnswerOf(r) = "bad" /\ sends[r] = MaxAttempts
    \/ s = "500" /\ AnswerOf(r) = "failed" /\ sends[r] = MaxAttempts
    \/ s = "499" /\ AnswerOf(r) # "good" /\ Patience(r) # "waiting"
    \/ s = "503" /\ AnswerOf(r) # "good" /\ ~(sends[r] = MaxAttempts)

Closed(r) ==
    /\ ServiceState(r) = "open" /\ ServiceState(r)' = "closed"
    /\ \E s \in {"response", "499", "500", "503"} : May(r, s) /\ reply'[r] = s
    /\ sends'[r] = sends[r] /\ AnswerOf(r)' = AnswerOf(r) /\ Patience(r)' = Patience(r)

Move(r) == Stutter(r) \/ Opened(r) \/ Left(r) \/ Tried(r) \/ Answered(r) \/ Closed(r)

LEMMA MoveIsService ==
    ASSUME ServiceInv, TypeOK', NEW r \in Threads, Act(r), Move(r)
    PROVE  [Service!ServiceNext]_(Service!serviceVars)
<1> DEFINE st == States  an == Results  pa == Patients
<1>1. /\ st'    = [st EXCEPT ![r] = ServiceState(r)']
      /\ sends' = [sends EXCEPT ![r] = sends'[r]]
      /\ an'    = [an EXCEPT ![r] = AnswerOf(r)']
      /\ pa'    = [pa EXCEPT ![r] = Patience(r)']
      /\ reply' = [reply EXCEPT ![r] = reply'[r]]
  BY OneClient
<1>2. /\ st[r] = ServiceState(r) /\ an[r] = AnswerOf(r) /\ pa[r] = Patience(r)
  BY DEF States, Results, Patients
<1>3. st = [st EXCEPT ![r] = st[r]] /\ an = [an EXCEPT ![r] = an[r]]
      /\ pa = [pa EXCEPT ![r] = pa[r]]
  BY DEF States, Results, Patients
<1>30. sends = [sends EXCEPT ![r] = sends[r]] /\ reply = [reply EXCEPT ![r] = reply[r]]
  BY ViewTypes DEF ServiceInv, TInv
<1> HIDE DEF st, an, pa
<1>4. CASE Stutter(r)
  <2>1. st' = st /\ sends' = sends /\ an' = an /\ pa' = pa /\ reply' = reply
    BY <1>1, <1>2, <1>3, <1>30, <1>4 DEF Stutter
  <2> QED
    BY <2>1 DEF Service!serviceVars, st, an, pa, States, Results, Patients
<1>5. CASE Opened(r)
  <2>1. /\ st[r] \in {"none", "closed"} /\ st' = [st EXCEPT ![r] = "open"]
        /\ sends' = [sends EXCEPT ![r] = 0] /\ an' = [an EXCEPT ![r] = "none"]
        /\ pa' = [pa EXCEPT ![r] = "waiting"] /\ reply' = [reply EXCEPT ![r] = "none"]
    BY <1>1, <1>2, <1>5 DEF Opened
  <2> QED
    BY <2>1 DEF Service!ServiceNext, Service!ServiceStep, Service!Open,
                st, an, pa, States, Results, Patients
<1>6. CASE Left(r)
  <2>1. /\ st[r] \in {"open", "trying"} /\ pa[r] = "waiting"
        /\ pa' = [pa EXCEPT ![r] = "gone"]
        /\ st' = st /\ sends' = sends /\ an' = an /\ reply' = reply
    BY <1>1, <1>2, <1>3, <1>30, <1>6 DEF Left
  <2> QED
    BY <2>1 DEF Service!ServiceNext, Service!ServiceStep, Service!Leave,
                st, an, pa, States, Results, Patients
<1>7. CASE Tried(r)
  <2>1. /\ st[r] = "open" /\ sends[r] < MaxAttempts /\ an[r] # "good" /\ pa[r] # "ignored"
        /\ st' = [st EXCEPT ![r] = "trying"] /\ sends' = [sends EXCEPT ![r] = sends[r] + 1]
        /\ pa' = [pa EXCEPT ![r] = IF pa[r] = "gone" THEN "ignored" ELSE pa[r]]
        /\ an' = an /\ reply' = reply
    BY <1>1, <1>2, <1>3, <1>30, <1>7 DEF Tried
  <2> QED
    BY <2>1 DEF Service!ServiceNext, Service!ServiceStep, Service!Try,
                st, an, pa, States, Results, Patients
<1>8. CASE Answered(r)
  <2>1. PICK a \in {"good", "bad", "failed"} : AnswerOf(r)' = a
    BY <1>8 DEF Answered
  <2>2. /\ st[r] = "trying" /\ st' = [st EXCEPT ![r] = "open"]
        /\ an' = [an EXCEPT ![r] = a]
        /\ sends' = sends /\ pa' = pa /\ reply' = reply
    BY <1>1, <1>2, <1>3, <1>30, <1>8, <2>1 DEF Answered
  <2> QED
    BY <2>1, <2>2 DEF Service!ServiceNext, Service!ServiceStep, Service!NodeAnswers,
                      st, an, pa, States, Results, Patients
<1>9. CASE Closed(r)
  <2>1. PICK s \in {"response", "499", "500", "503"} : May(r, s) /\ reply'[r] = s
    BY <1>9 DEF Closed
  <2>2. /\ st[r] = "open" /\ st' = [st EXCEPT ![r] = "closed"]
        /\ reply' = [reply EXCEPT ![r] = s]
        /\ sends' = sends /\ an' = an /\ pa' = pa
    BY <1>1, <1>2, <1>3, <1>30, <1>9, <2>1 DEF Closed
  <2>3. \/ s = "response" /\ an[r] = "good"
        \/ s = "response" /\ an[r] = "bad" /\ sends[r] = MaxAttempts
        \/ s = "500" /\ an[r] = "failed" /\ sends[r] = MaxAttempts
        \/ s = "499" /\ an[r] # "good" /\ pa[r] # "waiting"
        \/ s = "503" /\ an[r] # "good" /\ ~(sends[r] = MaxAttempts)
    BY <1>2, <2>1 DEF May
  <2> QED
    BY <2>1, <2>2, <2>3
       DEF Service!ServiceNext, Service!ServiceStep, Service!Close, Service!MayReply,
           Service!Exhausted, st, an, pa, States, Results, Patients
<1> QED
  BY <1>4, <1>5, <1>6, <1>7, <1>8, <1>9 DEF Move

\* The head of the loop and the choice of a target.
LEMMA LoopMoves ==
    ASSUME ServiceInv, TypeOK', NEW r \in Threads,
           \/ AttemptsUsedUp(r) \/ ContextDone(r) \/ SeekTarget(r) \/ RefuseTarget(r)
           \/ NoListedTarget(r) \/ SeekFailover(r) \/ RefuseFailover(r)
           \/ BeginUpdateStats(r) \/ EndUpdateStats(r)
    PROVE  Stutter(r)
<1>1. pc \in [Threads -> Pcs]
  BY DEF ServiceInv, TInv, TypeOK, Pcs
<1>2. /\ pc[r] \notin {"idle", "sent", "replied"} /\ pc'[r] \notin {"idle", "sent", "replied"}
      /\ UNCHANGED <<sends, outcome, canceled, late, reply>>
  BY <1>1 DEF AttemptsUsedUp, ContextDone, SeekTarget, RefuseTarget, NoListedTarget,
     SeekFailover, RefuseFailover, ProbingFailover, BeginUpdateStats, EndUpdateStats,
     Goto, histVars, reqVars
<1> QED
  BY <1>2 DEF Stutter, ServiceState, AnswerOf, Patience

LEMMA ClientMoves ==
    ASSUME ServiceInv, NEW r \in Threads
    PROVE  (Receive(r) => Opened(r)) /\ (Cancel(r) => Left(r))
<1>0. /\ pc \in [Threads -> Pcs] /\ sends \in [Threads -> Nat] /\ late \in [Threads -> Nat]
      /\ outcome \in [Threads -> Outcomes \cup {"none"}]
      /\ reply \in [Threads -> {"none", "response", "499", "500", "503"}]
      /\ canceled \in [Threads -> BOOLEAN] /\ Late(r)
  BY DEF ServiceInv, TInv, TypeOK, Pcs, Requests, Request
<1>1. ASSUME Receive(r)
      PROVE  Opened(r)
  <2>1. /\ pc[r] \in {"idle", "replied"} /\ pc'[r] = "attempt" /\ sends'[r] = 0
        /\ outcome'[r] = "none" /\ ~canceled'[r] /\ reply'[r] = "none"
    BY <1>0, <1>1 DEF Receive
  <2>2. ServiceState(r) \in {"none", "closed"} /\ ServiceState(r)' = "open"
    BY <2>1 DEF ServiceState
  <2>3. AnswerOf(r)' = "none" /\ Patience(r)' = "waiting"
    BY <2>1 DEF AnswerOf, Patience, Available, BadAnswer
  <2> QED
    BY <2>1, <2>2, <2>3 DEF Opened
<1>2. ASSUME Cancel(r)
      PROVE  Left(r)
  <2>1. /\ pc[r] \in Pcs \ {"idle", "replied"} /\ ~canceled[r] /\ canceled'[r]
        /\ UNCHANGED <<pc, sends, outcome, late, reply>>
    BY <1>0, <1>2 DEF Cancel, Waiting, histVars
  <2>2. late[r] = 0
    BY <1>0, <2>1 DEF Late
  <2> QED
    BY <2>1, <2>2 DEF Left, ServiceState, AnswerOf, Patience, Pcs
<1> QED
  BY <1>1, <1>2

LEMMA TryMoves ==
    ASSUME ServiceInv, NEW r \in Threads, ChooseTarget(r) \/ ChooseFailover(r)
    PROVE  Tried(r)
<1>0. /\ pc \in [Threads -> Pcs] /\ sends \in [Threads -> Nat] /\ late \in [Threads -> Nat]
      /\ attempt[r] \in Nat /\ sends[r] \in Nat /\ MaxAttempts \in Nat /\ Late(r) /\ Attempts(r)
  BY BoundsAssumption DEF ServiceInv, TInv, TypeOK, Pcs, Requests, Request
<1>1. /\ pc[r] \in Choosing /\ pc'[r] = "sent" /\ sends'[r] = sends[r] + 1
      /\ late'[r] = IF canceled[r] THEN late[r] + 1 ELSE late[r]
      /\ UNCHANGED <<outcome, canceled, reply>>
  BY <1>0 DEF ChooseTarget, ChooseFailover, SendTo, ProbingFailover, Choosing, Goto, reqVars
<1>2. /\ late[r] = 0 /\ sends[r] < MaxAttempts /\ outcome[r] \notin Available
  BY <1>0, <1>1 DEF Late, Attempts
<1>3. ServiceState(r) = "open" /\ ServiceState(r)' = "trying"
  BY <1>1 DEF ServiceState, Choosing
<1>4. AnswerOf(r) # "good" /\ AnswerOf(r)' = AnswerOf(r)
  BY <1>1, <1>2 DEF AnswerOf
<1>5. Patience(r) # "ignored"
      /\ Patience(r)' = IF Patience(r) = "gone" THEN "ignored" ELSE Patience(r)
  BY <1>1, <1>2 DEF Patience
<1> QED
  BY <1>1, <1>2, <1>3, <1>4, <1>5 DEF Tried

LEMMA AnswerMoves ==
    ASSUME ServiceInv, NEW r \in Threads, NEW o \in Answers, Answer(r, o)
    PROVE  Answered(r)
<1>1. /\ pc[r] = "sent" /\ pc'[r] = "stats" /\ outcome'[r] = o /\ o \in Outcomes
      /\ UNCHANGED <<canceled, sends, late, reply>>
  BY EnvironmentAssumption DEF Answer, Goto, histVars, ServiceInv, TInv, TypeOK
<1>2. AnswerOf(r)' \in {"good", "bad", "failed"}
  BY <1>1 DEF AnswerOf, Outcomes, Available, BadAnswer
<1> QED
  BY <1>1, <1>2 DEF Answered, ServiceState, Patience

\* RoundTrip returns: the reply is one the service may give.
LEMMA CloseMoves ==
    ASSUME ServiceInv, NEW r \in Threads, NoAvailableTargets(r) \/ Finish(r)
    PROVE  Closed(r)
<1>0. /\ pc \in [Threads -> Pcs] /\ sends[r] \in Nat /\ attempt[r] \in Nat
      /\ outcome[r] \in Outcomes \cup {"none"}
      /\ err[r] \in {"nil", "canceled", "transport", "noTargets", "attemptsExceeded"}
      /\ reply \in [Threads -> {"none", "response", "499", "500", "503"}]
  BY DEF ServiceInv, TInv, TypeOK, Pcs
<1>00. /\ MaxAttempts \in Nat /\ MaxAttempts > 0
       /\ Late(r) /\ Attempts(r) /\ Errors(r)
  BY BoundsAssumption DEF ServiceInv, Requests, Request
<1>1. CASE NoAvailableTargets(r)
  <2>1. /\ pc[r] \in Choosing /\ pc'[r] = "replied" /\ reply'[r] = "503"
        /\ UNCHANGED <<outcome, canceled, sends, late>>
    BY <1>0, <1>00, <1>1 DEF NoAvailableTargets, Goto, histVars, Choosing
  <2>2. outcome[r] \notin Available /\ sends[r] < MaxAttempts
    BY <1>0, <1>00, <2>1 DEF Attempts
  <2>3. May(r, "503")
    BY <1>0, <1>00, <2>2 DEF May, AnswerOf
  <2> QED
    BY <2>1, <2>3 DEF Closed, ServiceState, AnswerOf, Patience, Choosing
<1>2. CASE Finish(r)
  <2>1. /\ pc[r] = "finish" /\ pc'[r] = "replied" /\ reply'[r] = Status(FinalErr(r))
        /\ UNCHANGED <<outcome, canceled, sends, late>>
    BY <1>0, <1>00, <1>2 DEF Finish, Goto, histVars
  <2>2. CASE outcome[r] \in Available
    <3>1. err[r] = "nil" /\ outcome[r] \notin {"none", "transportError"}
      BY <1>0, <1>00, <2>1, <2>2 DEF Attempts, Available
    <3>2. Status(FinalErr(r)) = "response"
      BY <3>1 DEF FinalErr, NoResponse, Status
    <3>3. AnswerOf(r) = "good"
      BY <2>2, <3>1 DEF AnswerOf, Available, BadAnswer
    <3>4. May(r, "response")
      BY <3>3 DEF May
    <3> QED
      BY <2>1, <3>2, <3>4 DEF Closed, ServiceState, AnswerOf, Patience
  <2>3. CASE outcome[r] \notin Available
    <3>1. /\ AnswerOf(r) # "good" /\ sends[r] = attempt[r]
          /\ attempt[r] = MaxAttempts \/ err[r] = "canceled"
      BY <1>0, <1>00, <2>1, <2>3 DEF Attempts, AnswerOf
    <3>2. CASE err[r] = "canceled"
      <4>1. canceled[r]
        BY <1>0, <1>00, <3>2 DEF Errors
      <4>2. Patience(r) # "waiting"
        BY <4>1 DEF Patience
      <4>3. Status(FinalErr(r)) = "499"
        BY <3>2 DEF FinalErr, Status
      <4>4. May(r, "499")
        BY <3>1, <4>2 DEF May
      <4> QED
        BY <2>1, <4>3, <4>4 DEF Closed, ServiceState, AnswerOf, Patience
    <3>3. CASE err[r] # "canceled"
      <4>1. sends[r] = MaxAttempts /\ outcome[r] # "none"
        BY <1>0, <1>00, <2>1, <3>1, <3>3 DEF Errors, LoopPc
      <4>2. CASE outcome[r] = "transportError"
        <5>1. err[r] = "transport"
          BY <1>0, <1>00, <2>1, <3>3, <4>2 DEF Errors, LoopPc
        <5>2. Status(FinalErr(r)) = "500"
          BY <5>1 DEF FinalErr, Status
        <5>3. May(r, "500")
          BY <4>1, <4>2 DEF May, AnswerOf, Available, BadAnswer
        <5> QED
          BY <2>1, <5>2, <5>3 DEF Closed, ServiceState, AnswerOf, Patience
      <4>3. CASE outcome[r] # "transportError"
        <5>1. err[r] = "nil" /\ outcome[r] \in BadAnswer
          BY <1>0, <1>00, <2>1, <2>3, <3>3, <4>1, <4>3 DEF Errors, LoopPc, Outcomes
        <5>2. Status(FinalErr(r)) = "response"
          BY <4>1, <4>3, <5>1 DEF FinalErr, NoResponse, Status
        <5>3. May(r, "response")
          BY <2>3, <4>1, <5>1 DEF May, AnswerOf, Available, BadAnswer
        <5> QED
          BY <2>1, <5>2, <5>3 DEF Closed, ServiceState, AnswerOf, Patience
      <4> QED
        BY <4>2, <4>3
    <3> QED
      BY <3>2, <3>3
  <2> QED
    BY <2>2, <2>3
<1> QED
  BY <1>1, <1>2

LEMMA ActMoves ==
    ASSUME ServiceInv, TypeOK', NEW r \in Threads, Act(r)
    PROVE  Move(r)
  BY LoopMoves, ClientMoves, TryMoves, AnswerMoves, CloseMoves DEF Act, Step, Move

LEMMA ServiceSteps ==
    ServiceInv /\ ServiceInv' /\ [Next]_vars => [Service!ServiceNext]_(Service!serviceVars)
<1> SUFFICES ASSUME ServiceInv, ServiceInv', [Next]_vars
             PROVE  [Service!ServiceNext]_(Service!serviceVars)
  OBVIOUS
<1>0. TypeOK /\ TypeOK'
  BY DEF ServiceInv, TInv
<1>1. ASSUME NEW r \in Threads, Act(r)
      PROVE  [Service!ServiceNext]_(Service!serviceVars)
  BY <1>0, <1>1, ActMoves, MoveIsService
<1>2. CASE \A r \in Threads : Same(r)
  <2>1. ASSUME NEW r \in Threads
        PROVE  /\ ServiceState(r)' = ServiceState(r) /\ AnswerOf(r)' = AnswerOf(r)
               /\ Patience(r)' = Patience(r) /\ sends'[r] = sends[r] /\ reply'[r] = reply[r]
    BY <1>2 DEF Same, ServiceState, AnswerOf, Patience
  <2>2. sends' = sends /\ reply' = reply
    <3>1. /\ sends \in [Threads -> Nat] /\ sends' \in [Threads -> Nat]
          /\ reply \in [Threads -> Replies] /\ reply' \in [Threads -> Replies]
      BY <1>0 DEF TypeOK, Replies
    <3> QED
      BY <2>1, <3>1
  <2>3. States' = States /\ Results' = Results /\ Patients' = Patients
    BY <2>1 DEF States, Results, Patients
  <2> QED
    BY <2>2, <2>3 DEF Service!serviceVars, States, Results, Patients
<1> QED
  BY <1>0, <1>1, <1>2, ActOrSame

LEMMA ServiceStarts ==
    Init => Service!ServiceInit
<1> SUFFICES ASSUME Init
             PROVE  Service!ServiceInit
  OBVIOUS
<1>1. \A r \in Threads : ServiceState(r) = "none" /\ AnswerOf(r) = "none" /\ Patience(r) = "waiting"
  BY DEF Init, ServiceState, AnswerOf, Patience, Available, BadAnswer
<1> QED
  BY <1>1 DEF Init, Service!ServiceInit

\* The round tripper, with its locks, lists and statistics, implements what
\* RequestService promises to its clients (transport.go:107-185).
THEOREM TransportServesClients ==
    Spec => ServesClients
<1>1. ServiceInv /\ ServiceInv' /\ [Next]_vars => [Service!ServiceNext]_(Service!serviceVars)
  BY ServiceSteps
<1> QED
  BY ServiceStarts, ServiceInvariant, <1>1, PTL DEF Spec, ServesClients, Service!ServiceSpec

--------------------------------------------------------------------------------
(***************************************************************************)
(* A target's methods are set once.  The updating goroutine sets those of  *)
(* the pair of a url and the number of the update, so that no target that  *)
(* is listed or in use may be that pair.                                   *)
(***************************************************************************)
Old(t) == t[2] <= updates /\ (upc = "remove" => t[2] < updates)
Settled(t) == Old(t) /\ (upc = "add" /\ t[2] = updates => t \in Listed)

ListIsOld == \A t \in Listed : Old(t)
InUse(r) == pc[r] = "sent" /\ target[r] \in Targets
UseIsSettled == \A r \in Threads : InUse(r) => Settled(target[r]) /\ Suits(r, target[r])

\* What an update does to the listed targets and to the methods of those in use.
LEMMA UpdateKeepsUse ==
    ASSUME TLInv, ListIsOld, UpdateProxyEndpoints
    PROVE  /\ ListIsOld'
           /\ \A t \in Targets : Settled(t) => Settled(t)' /\ supported'[t] = supported[t]
<1>0. /\ updates \in 0 .. MaxUpdates /\ MaxUpdates \in Nat
      /\ upc # "sleep" => updates >= 1
      /\ backing \in Seq(Targets) /\ length \in 0 .. Len(backing)
      /\ supported \in [Targets -> SUBSET Methods]
      /\ \A t \in Targets : t[2] \in 1 .. MaxUpdates
      /\ \A t \in Listed : t \in Targets
  <2>1. \A t \in Targets : t[2] \in 1 .. MaxUpdates
    BY DEF Targets
  <2>2. \A t \in Listed : t \in Targets
    BY DEF Listed, TLInv, TLTypeOK
  <2> QED
    BY <2>1, <2>2, MaxUpdatesAssumption DEF TLInv, TLTypeOK
<1>1. ASSUME NEW w \in Snapshots, StartUpdate(w)
      PROVE  /\ ListIsOld'
             /\ \A t \in Targets : Settled(t) => Settled(t)' /\ supported'[t] = supported[t]
  <2>1. /\ upc = "sleep" /\ upc' = "remove" /\ updates' = updates + 1
        /\ backing' = slice /\ UNCHANGED <<length, supported>>
    BY <1>1 DEF StartUpdate
  <2>2. Listed' = Listed
    BY <1>0, <2>1 DEF Listed, slice
  <2> QED
    BY <1>0, <2>1, <2>2 DEF ListIsOld, Old, Settled
<1>2. CASE RangeKeep \/ RangeEnd \/ SkipTarget \/ EndUpdate
  <2>1. UNCHANGED <<backing, length, supported, updates>>
    BY <1>2 DEF RangeKeep, RangeEnd, SkipTarget, EndUpdate, listVars
  <2>2. Listed' = Listed
    BY <2>1 DEF Listed
  <2>3. upc' = upc \/ (upc = "remove" /\ upc' = "add") \/ upc' = "sleep"
    BY <1>2 DEF RangeKeep, RangeEnd, SkipTarget, EndUpdate
  <2> QED
    BY <1>0, <2>1, <2>2, <2>3 DEF ListIsOld, Old, Settled
<1>3. CASE RangeRemove
  <2>1. PICK j \in 1 .. length : backing' = ShiftOut(j) /\ length' = length - 1
    BY <1>3 DEF RangeRemove, RemoveTarget
  <2>2. UNCHANGED <<supported, updates, upc>> /\ upc = "remove"
    BY <1>3 DEF RangeRemove
  <2>3. ASSUME NEW m \in 1 .. length'
        PROVE  backing'[m] \in Listed
    <3>1. m \in 1 .. length /\ m + 1 \in 1 .. length /\ m \in DOMAIN backing
      BY <1>0, <2>1
    <3>2. backing'[m] = IF j <= m /\ m < length THEN backing[m + 1] ELSE backing[m]
      BY <2>1, <3>1 DEF ShiftOut
    <3> QED
      BY <3>1, <3>2 DEF Listed
  <2>4. Listed' \subseteq Listed
    BY <2>3 DEF Listed
  <2> QED
    BY <1>0, <2>2, <2>4 DEF ListIsOld, Old, Settled
<1>4. CASE AddTarget
  <2> DEFINE n == <<wanted[k].url, updates>>
  <2>1. /\ upc = "add" /\ k <= Len(wanted) /\ ~Duplicate(wanted[k].url)
        /\ backing' = Append(slice, n) /\ length' = length + 1
        /\ supported' = [supported EXCEPT ![n] = wanted[k].methods]
        /\ UNCHANGED <<upc, updates>>
    BY <1>4 DEF AddTarget
  <2>2. n \notin Listed
    BY <2>1 DEF Duplicate, ListedUrls, Url
  <2>3. n[2] = updates
    OBVIOUS
  <2> HIDE DEF n
  <2>6. Listed' = Listed \cup {n}
    BY <1>4, AddLists DEF n
  <2>7. ASSUME NEW t \in Targets, Settled(t)
        PROVE  t # n
    BY <2>1, <2>2, <2>3, <2>7 DEF Settled
  <2>8. ListIsOld'
    BY <1>0, <2>1, <2>3, <2>6 DEF ListIsOld, Old
  <2> QED
    BY <1>0, <2>1, <2>6, <2>7, <2>8 DEF Settled, Old
<1> QED
  BY <1>1, <1>2, <1>3, <1>4 DEF UpdateProxyEndpoints, UpdateStep

LEMMA NextUse ==
    TInv /\ ListIsOld /\ UseIsSettled /\ [Next]_vars => ListIsOld' /\ UseIsSettled'
<1> SUFFICES ASSUME TInv, ListIsOld, UseIsSettled, [Next]_vars
             PROVE  ListIsOld' /\ UseIsSettled'
  OBVIOUS
<1>0. TypeOK /\ TLInv
  BY DEF TInv
<1>1. CASE UpdateList
  <2>1. UpdateProxyEndpoints /\ UNCHANGED <<pc, target, methods>>
    BY <1>1 DEF UpdateList, reqVars
  <2> QED
    BY <1>0, <2>1, UpdateKeepsUse DEF UseIsSettled, InUse, Suits, HasUnscannedMethod
<1>2. CASE Tick \/ UNCHANGED vars
  <2>1. UNCHANGED <<backing, length, supported, upc, updates, pc, target, methods>>
    BY <1>2 DEF Tick, vars, tlVars, listVars, updVars, reqVars
  <2> QED
    BY <2>1 DEF ListIsOld, UseIsSettled, InUse, Settled, Old, Listed, Suits,
                HasUnscannedMethod
<1>3. ASSUME NEW q \in Threads, Act(q)
      PROVE  ListIsOld' /\ UseIsSettled'
  <2>1. UNCHANGED <<backing, length, supported, upc, updates>>
    BY <1>3 DEF Act, Receive, Cancel, Step, Answer, AttemptsUsedUp, ContextDone, SeekTarget,
       RefuseTarget, ChooseTarget, NoListedTarget, SeekFailover, RefuseFailover,
       ChooseFailover, NoAvailableTargets, BeginUpdateStats, EndUpdateStats, Finish,
       LockTargets, Refuse, Choose, GiveUp, tlVars, listVars, updVars
  <2>2. /\ ListIsOld'
        /\ \A t \in Targets : Settled(t) => Settled(t)' /\ supported'[t] = supported[t]
    BY <2>1 DEF ListIsOld, Settled, Old, Listed
  <2>3. ASSUME NEW r \in Threads, r # q, InUse(r)'
        PROVE  Settled(target[r])' /\ Suits(r, target[r])'
    <3>1. Same(r)
      BY <1>0, <1>3, <2>3, OtherRequests
    <3>2. InUse(r) /\ target'[r] = target[r] /\ methods'[r] = methods[r]
      BY <2>3, <3>1 DEF InUse, Same
    <3>3. Settled(target[r]) /\ Suits(r, target[r]) /\ target[r] \in Targets
      BY <3>2 DEF UseIsSettled, InUse
    <3> QED
      BY <2>2, <3>2, <3>3 DEF Suits, HasUnscannedMethod, Settled, Old
  <2>4. ASSUME InUse(q)'
        PROVE  Settled(target[q])' /\ Suits(q, target[q])'
    <3>0. pc \in [Threads -> Pcs] /\ target \in [Threads -> AllTargets \cup {NoTarget}]
      BY <1>0 DEF TypeOK, Pcs
    <3>1. CASE ChooseTarget(q)
      <4>1. /\ target'[q] = Candidate /\ Suits(q, Candidate) /\ UNCHANGED methods
            /\ Probing(q)
        BY <3>0, <3>1 DEF ChooseTarget, SendTo, Choose
      <4>2. Candidate \in Listed
        BY <1>0, <4>1, CandidateListed DEF Candidate, Listed
      <4>3. Settled(Candidate) /\ Candidate \in Targets
        BY <2>4, <4>1, <4>2 DEF ListIsOld, Settled, InUse
      <4> QED
        BY <2>2, <4>1, <4>3 DEF Suits, HasUnscannedMethod, Settled, Old
    <3>2. CASE ChooseFailover(q)
      <4>1. target'[q] = <<FailoverList[FailoverPosition], 0>>
        BY <3>0, <3>2 DEF ChooseFailover, SendTo, FailoverCandidate
      <4>2. target'[q] \notin Targets
        BY <4>1 DEF Targets
      <4> QED
        BY <2>4, <4>2 DEF InUse
    <3>3. CASE ~ChooseTarget(q) /\ ~ChooseFailover(q)
      <4>1. pc'[q] # "sent" \/ (pc[q] = "sent" /\ UNCHANGED <<target, methods>>)
        BY <1>3, <3>0, <3>3 DEF Act, Receive, Cancel, Step, Answer, AttemptsUsedUp,
           ContextDone, SeekTarget, RefuseTarget, NoListedTarget, SeekFailover,
           RefuseFailover, NoAvailableTargets, BeginUpdateStats, EndUpdateStats, Finish,
           Goto, reqVars, ProbingFailover
      <4>2. InUse(q) /\ UNCHANGED <<target, methods>>
        BY <2>4, <4>1 DEF InUse
      <4> QED
        BY <2>2, <4>2 DEF UseIsSettled, InUse, Suits, HasUnscannedMethod, Settled, Old
    <3> QED
      BY <3>1, <3>2, <3>3
  <2> QED
    BY <2>2, <2>3, <2>4 DEF UseIsSettled
<1> QED
  BY <1>1, <1>2, <1>3 DEF Next, Act

\* A listed target is only asked for methods it supports, by the snapshot that it
\* was created from and although the list changes under the request
\* (transport.go:205-220).
THEOREM AskedWhatItSupports ==
    Spec => []SentWhereSuitable
<1>1. Init => ListIsOld /\ UseIsSettled
  BY DEF Init, TLInit, ListIsOld, Listed, UseIsSettled, InUse
<1>2. UseIsSettled => SentWhereSuitable
  BY DEF UseIsSettled, InUse, SentWhereSuitable
<1> QED
  BY <1>1, <1>2, InitTInv, NextTInv, NextUse, PTL DEF Spec

--------------------------------------------------------------------------------
(***************************************************************************)
(* The mutexes.  Each is held by the one goroutine that is in the loop it  *)
(* protects, and that loop never waits: a goroutine that does wait waits   *)
(* for one that can go on, so that no circle of waiting can arise.         *)
(***************************************************************************)
HeldInLoop(r) ==
    /\ holder = r <=> pc[r] = "primary"
    /\ fholder = r <=> pc[r] = "probe failover"

\* The guards of the proxy's own steps (Step) in terms of where a goroutine is.
CanGoOn(r) ==
    \/ pc[r] \in {"update", "finish"}
    \/ pc[r] = "attempt" /\ (attempt[r] >= MaxAttempts \/ canceled[r] \/ holder = Nobody)
    \/ pc[r] = "primary" /\ holder = r
    \/ pc[r] = "failover" /\ fholder = Nobody
    \/ pc[r] = "probe failover" /\ fholder = r
    \/ pc[r] = "stats" /\ ~Locked(target[r])

\* Who has what a goroutine waits for.
WaitsFor(r, q) ==
    \/ pc[r] = "attempt" /\ holder = q
    \/ pc[r] = "failover" /\ fholder = q
    \/ pc[r] = "stats" /\ q \in Updating(target[r])

NobodyWaitsInACircle ==
    \A r \in Threads : (Waiting(r) /\ pc[r] # "sent" /\ ~CanGoOn(r))
        => \E q \in Threads : WaitsFor(r, q) /\ CanGoOn(q)

LEMMA NextHeld ==
    ASSUME TInv, \A r \in Threads : HeldInLoop(r), [Next]_vars, NEW r \in Threads
    PROVE  HeldInLoop(r)'
<1>0. TypeOK /\ HeldInLoop(r) /\ r # Nobody /\ pc \in [Threads -> Pcs]
  BY NobodyAssumption DEF TInv, TypeOK, Pcs
<1>1. CASE Tick \/ UpdateList \/ UNCHANGED vars
  <2>1. UNCHANGED <<holder, fholder, pc>>
    BY <1>1 DEF Tick, UpdateList, vars, tlVars, selVars, failVars, reqVars, UpdateProxyEndpoints,
       UpdateStep, StartUpdate, RangeKeep, RangeRemove, RangeEnd, AddTarget, SkipTarget, EndUpdate
  <2> QED
    BY <1>0, <2>1 DEF HeldInLoop
<1>2. ASSUME NEW q \in Threads, q # r, Act(q)
      PROVE  HeldInLoop(r)'
  <2>1. Same(r)
    BY <1>0, <1>2, OtherRequests
  <2>2. \/ holder' = holder
        \/ holder = Nobody /\ holder' = q
        \/ holder = q /\ holder' = Nobody
    BY <1>2 DEF Act, Receive, Cancel, Step, Answer, AttemptsUsedUp, ContextDone, SeekTarget,
       RefuseTarget, ChooseTarget, NoListedTarget, SeekFailover, RefuseFailover, ChooseFailover,
       NoAvailableTargets, BeginUpdateStats, EndUpdateStats, Finish, LockTargets, Refuse, Choose,
       GiveUp, Probing, tlVars, selVars
  <2>3. \/ fholder' = fholder
        \/ fholder = Nobody /\ fholder' = q
        \/ fholder = q /\ fholder' = Nobody
    BY <1>2 DEF Act, Receive, Cancel, Step, Answer, AttemptsUsedUp, ContextDone, SeekTarget,
       RefuseTarget, ChooseTarget, NoListedTarget, SeekFailover, RefuseFailover, ChooseFailover,
       NoAvailableTargets, BeginUpdateStats, EndUpdateStats, Finish, ProbingFailover, failVars
  <2> QED
    <3>1. q # r /\ r # Nobody
      BY <1>0, <1>2
    <3>2. (holder' = r) <=> (holder = r)
      BY <2>2, <3>1
    <3>3. (fholder' = r) <=> (fholder = r)
      BY <2>3, <3>1
    <3>4. pc'[r] = pc[r]
      BY <2>1 DEF Same
    <3> QED
      BY <1>0, <3>2, <3>3, <3>4 DEF HeldInLoop
<1>3. CASE Receive(r) \/ AttemptsUsedUp(r) \/ ContextDone(r) \/ BeginUpdateStats(r)
           \/ EndUpdateStats(r) \/ Finish(r) \/ \E o \in Answers : Answer(r, o)
  <2>1. /\ UNCHANGED <<holder, fholder>>
        /\ pc[r] \notin {"primary", "probe failover"} /\ pc'[r] \notin {"primary", "probe failover"}
    BY <1>0, <1>3 DEF Receive, AttemptsUsedUp, ContextDone, BeginUpdateStats, EndUpdateStats,
       Finish, Answer, Goto, tlVars, selVars, failVars
  <2> QED
    BY <1>0, <2>1 DEF HeldInLoop
<1>4. CASE Cancel(r) \/ RefuseTarget(r) \/ RefuseFailover(r)
  <2>1. UNCHANGED <<holder, fholder, pc>>
    BY <1>4 DEF Cancel, RefuseTarget, Refuse, RefuseFailover, reqVars, tlVars, selVars, failVars
  <2> QED
    BY <1>0, <2>1 DEF HeldInLoop
<1>5. CASE SeekTarget(r)
  <2>1. holder' = r /\ fholder' = fholder /\ pc[r] = "attempt" /\ pc'[r] = "primary"
    BY <1>0, <1>5 DEF SeekTarget, LockTargets, Goto, failVars
  <2> QED
    BY <1>0, <2>1 DEF HeldInLoop
<1>6. CASE ChooseTarget(r) \/ NoListedTarget(r)
  <2>1. /\ holder' = Nobody /\ fholder' = fholder /\ pc[r] = "primary"
        /\ pc'[r] \in {"sent", "failover"}
    BY <1>0, <1>6 DEF ChooseTarget, NoListedTarget, Choose, GiveUp, SendTo, Goto, failVars
  <2> QED
    BY <1>0, <2>1 DEF HeldInLoop
<1>7. CASE SeekFailover(r)
  <2>1. holder' = holder /\ fholder' = r /\ pc[r] = "failover" /\ pc'[r] = "probe failover"
    BY <1>0, <1>7 DEF SeekFailover, Goto, tlVars, selVars
  <2> QED
    BY <1>0, <2>1 DEF HeldInLoop
<1>8. CASE ChooseFailover(r) \/ NoAvailableTargets(r)
  <2>1. /\ holder' = holder /\ fholder' = Nobody /\ pc[r] = "probe failover"
        /\ pc'[r] \in {"sent", "replied"}
    BY <1>0, <1>8 DEF ChooseFailover, NoAvailableTargets, ProbingFailover, SendTo, Goto,
                      tlVars, selVars
  <2> QED
    BY <1>0, <2>1 DEF HeldInLoop
<1> QED
  BY <1>1, <1>2, <1>3, <1>4, <1>5, <1>6, <1>7, <1>8 DEF Next, Act, Step

\* A request that waits for one of the mutexes, or for the lock of a target,
\* waits for a goroutine that is not waiting itself (transport.go:198-255,
\* 325-350): with the fairness of TLC's run that is why none waits for ever.
THEOREM NoCircleOfWaiting ==
    Spec => []NobodyWaitsInACircle
<1> DEFINE Inv == TInv /\ \A r \in Threads : HeldInLoop(r)
<1>1. Init => Inv
  <2>1. Init => \A r \in Threads : HeldInLoop(r)
    BY NobodyAssumption DEF Init, TLInit, HeldInLoop
  <2> QED
    BY <2>1, InitTInv
<1>2. Inv /\ [Next]_vars => Inv'
  BY NextTInv, NextHeld
<1>3. Inv => NobodyWaitsInACircle
  <2> SUFFICES ASSUME Inv, NEW r \in Threads, Waiting(r), pc[r] # "sent", ~CanGoOn(r)
               PROVE  \E q \in Threads : WaitsFor(r, q) /\ CanGoOn(q)
    BY DEF NobodyWaitsInACircle
  <2>0. /\ pc[r] \in Pcs /\ HeldInLoop(r)
        /\ holder \in Threads \cup {Nobody} /\ fholder \in Threads \cup {Nobody}
    BY DEF TInv, TypeOK, TLTypeOK, Pcs
  <2>1. pc[r] \in {"attempt", "failover", "stats"}
    BY <2>0 DEF Waiting, CanGoOn, HeldInLoop, Pcs
  <2>2. CASE pc[r] = "attempt"
    <3>1. holder \in Threads
      BY <2>0, <2>2 DEF CanGoOn
    <3>2. pc[holder] = "primary"
      BY <3>1 DEF HeldInLoop
    <3> QED
      BY <2>2, <3>1, <3>2 DEF WaitsFor, CanGoOn
  <2>3. CASE pc[r] = "failover"
    <3>1. fholder \in Threads
      BY <2>0, <2>3 DEF CanGoOn
    <3>2. pc[fholder] = "probe failover"
      BY <3>1 DEF HeldInLoop
    <3> QED
      BY <2>3, <3>1, <3>2 DEF WaitsFor, CanGoOn
  <2>4. CASE pc[r] = "stats"
    <3>1. PICK q \in Updating(target[r]) : TRUE
      BY <2>4 DEF CanGoOn, Locked
    <3>2. q \in Threads /\ pc[q] = "update"
      BY <3>1 DEF Updating
    <3> QED
      BY <2>4, <3>1, <3>2 DEF WaitsFor, CanGoOn
  <2> QED
    BY <2>1, <2>2, <2>3, <2>4
<1> QED
  BY <1>1, <1>2, <1>3, PTL DEF Spec

--------------------------------------------------------------------------------
(***************************************************************************)
(* A request gives up the listed targets only when none of them would do.  *)
(* Without the jail it refuses a listed target for its methods alone, and  *)
(* neither these nor the list change while it holds the mutex.             *)
(***************************************************************************)
Refused ==
    \A r \in Threads : holder = r =>
        /\ pc[r] = "primary"
        /\ ~WithJail => \A t \in probed : ~Suits(r, t)

\* What the round tripper does to the list are steps of TargetList.
LEMMA ListSteps ==
    [Next]_vars => [TLNext]_tlVars
<1> SUFFICES ASSUME [Next]_vars
             PROVE  [TLNext]_tlVars
  OBVIOUS
<1>1. CASE Tick \/ UpdateList \/ UNCHANGED vars
  BY <1>1 DEF Tick, UpdateList, vars, TLNext
<1>2. ASSUME NEW q \in Threads, Act(q)
      PROVE  [TLNext]_tlVars
  BY <1>2 DEF Act, Receive, Cancel, Step, Answer, AttemptsUsedUp, ContextDone, SeekTarget,
     RefuseTarget, ChooseTarget, NoListedTarget, SeekFailover, RefuseFailover,
     ChooseFailover, NoAvailableTargets, BeginUpdateStats, EndUpdateStats, Finish, TLNext
<1> QED
  BY <1>1, <1>2 DEF Next, Act

\* However its requests fail, are retried or canceled, the round tripper uses the
\* list as TargetList allows (transport.go:187-231, 272-299, 366-386).
THEOREM TransportUsesTargetList ==
    Spec => TLSpec
<1>1. Init => TLInit
  BY DEF Init
<1> QED
  BY <1>1, ListSteps, PTL DEF Spec, TLSpec

\* So what is proved of the list alone holds of the one the requests share.
THEOREM SharedListIsSound ==
    Spec => [](NoDuplicateUrls /\ WantedAreListed /\ UpdateHalvesStale /\ ProbesAll)
  BY TransportUsesTargetList, NoDuplicates, SnapshotIsListed, HalfOfTheStaleGo,
     EveryTargetProbed, PTL

\* A listed target has no limit, so that only the jail makes it unavailable.
LEMMA ListedAvailable ==
    ASSUME NEW t \in Targets, ~WithJail
    PROVE  ~MayRefuse(t)
<1>1. reqLimit(t) = 0
  BY FailoversAssumption DEF reqLimit, Targets, FailoverTargets
<1>2. \A s : IsAvailable(0, s, now)
  BY DEF IsAvailable
<1> QED
  BY <1>1, <1>2 DEF MayRefuse

LEMMA NextRefused ==
    ASSUME TInv, Refused, [Next]_vars
    PROVE  Refused'
<1> SUFFICES ASSUME NEW r \in Threads, holder' = r
             PROVE  /\ pc'[r] = "primary"
                    /\ ~WithJail => \A t \in probed' : ~Suits(r, t)'
  BY DEF Refused
<1>0. /\ TypeOK /\ TLInv /\ r # Nobody
      /\ pc \in [Threads -> Pcs]
  BY NobodyAssumption DEF TInv, TypeOK, Pcs
<1>1. CASE UpdateList
  <2>1. UpdateProxyEndpoints /\ UNCHANGED <<pc, methods>>
    BY <1>1 DEF UpdateList, reqVars
  <2>2. holder = r
    BY <2>1 DEF UpdateProxyEndpoints, UpdateStep, StartUpdate, RangeKeep, RangeRemove,
                RangeEnd, AddTarget, SkipTarget, EndUpdate, selVars
  <2>3. UNCHANGED <<supported, holder, probed>>
    BY <1>0, <2>1, <2>2, UpdateStable DEF selVars
  <2> QED
    BY <2>1, <2>2, <2>3 DEF Refused, Suits, HasUnscannedMethod
<1>2. CASE Tick \/ UNCHANGED vars
  <2>1. UNCHANGED <<supported, holder, probed, pc, methods>>
    BY <1>2 DEF Tick, vars, tlVars, listVars, selVars, reqVars
  <2> QED
    BY <2>1 DEF Refused, Suits, HasUnscannedMethod
<1>3. ASSUME NEW q \in Threads, q # r, Act(q)
      PROVE  /\ pc'[r] = "primary"
             /\ ~WithJail => \A t \in probed' : ~Suits(r, t)'
  <2>1. Same(r)
    BY <1>0, <1>3, OtherRequests
  <2>2. holder = r /\ UNCHANGED <<supported, holder, probed>>
    BY <1>0, <1>3 DEF Act, Receive, Cancel, Step, Answer, AttemptsUsedUp, ContextDone,
       SeekTarget, RefuseTarget, ChooseTarget, NoListedTarget, SeekFailover, RefuseFailover,
       ChooseFailover, NoAvailableTargets, BeginUpdateStats, EndUpdateStats, Finish,
       LockTargets, Refuse, Choose, GiveUp, Probing, tlVars, listVars, selVars, updVars
  <2> QED
    BY <2>1, <2>2 DEF Refused, Same, Suits, HasUnscannedMethod
<1>4. CASE SeekTarget(r)
  <2>1. probed' = {} /\ pc'[r] = "primary"
    BY <1>0, <1>4 DEF SeekTarget, LockTargets, Goto
  <2> QED
    BY <2>1
<1>5. CASE RefuseTarget(r)
  <2>1. /\ Probing(r) /\ holder = r /\ probed' = probed \cup {Candidate}
        /\ UNCHANGED <<supported, pc, methods>> /\ pc[r] = "primary"
        /\ MayRefuse(Candidate) \/ ~Suits(r, Candidate)
    BY <1>5 DEF RefuseTarget, Refuse, Probing, listVars, reqVars
  <2>2. Candidate \in Targets
    BY <1>0, <2>1, CandidateListed
  <2>3. ~WithJail => ~Suits(r, Candidate)
    BY <2>1, <2>2, ListedAvailable
  <2>4. \A t : Suits(r, t)' = Suits(r, t)
    BY <2>1 DEF Suits, HasUnscannedMethod
  <2> QED
    BY <2>1, <2>3, <2>4 DEF Refused
<1>6. CASE ChooseTarget(r) \/ NoListedTarget(r)
  <2>1. holder' = Nobody
    BY <1>6 DEF ChooseTarget, NoListedTarget, Choose, GiveUp
  <2> QED
    BY <1>0, <2>1
<1>7. CASE Cancel(r)
  <2>1. UNCHANGED <<supported, holder, probed, pc, methods>>
    BY <1>7 DEF Cancel, tlVars, listVars, selVars
  <2> QED
    BY <2>1 DEF Refused, Suits, HasUnscannedMethod
<1>8. ASSUME \/ Receive(r) \/ AttemptsUsedUp(r) \/ ContextDone(r) \/ SeekFailover(r)
             \/ RefuseFailover(r) \/ ChooseFailover(r) \/ NoAvailableTargets(r)
             \/ BeginUpdateStats(r) \/ EndUpdateStats(r) \/ Finish(r)
             \/ \E o \in Answers : Answer(r, o)
      PROVE  FALSE
  <2>1. holder' = holder /\ pc[r] # "primary"
    BY <1>8 DEF Receive, AttemptsUsedUp, ContextDone, SeekFailover, RefuseFailover,
       ChooseFailover, NoAvailableTargets, BeginUpdateStats, EndUpdateStats, Finish, Answer,
       ProbingFailover, tlVars, selVars
  <2> QED
    BY <2>1 DEF Refused
<1> QED
  BY <1>1, <1>2, <1>3, <1>4, <1>5, <1>6, <1>7, <1>8 DEF Next, Act, Step

\* The failover targets come last (transport.go:187-231, 257-269).
THEOREM FailoverComesLast ==
    Spec => FailoverOnlyAsLastResort
<1> DEFINE Inv == TInv /\ ProbeInv /\ Refused
<1>1. Init => Inv
  <2>1. Init => ProbeInv /\ Refused
    BY NobodyAssumption DEF Init, TLInit, ProbeInv, Refused
  <2> QED
    BY <2>1, InitTInv
<1>2. Inv /\ [Next]_vars => Inv'
  BY NextTInv, NextRefused, NextProbes, ListSteps DEF TInv
<1>3. ASSUME Inv, [Next]_vars, NEW r \in Threads,
             pc[r] = "primary", pc'[r] = "failover", ~WithJail, NEW t \in Listed
      PROVE  ~Suits(r, t)
  <2>0. /\ TypeOK /\ TLInv /\ ProbeInv /\ pc \in [Threads -> Pcs]
    BY <1>3 DEF TInv, TypeOK, Pcs
  <2>1. CASE Act(r)
    <3>1. NoListedTarget(r)
      BY <1>3, <2>0, <2>1 DEF Act, Receive, Cancel, Step, Answer, AttemptsUsedUp,
         ContextDone, SeekTarget, RefuseTarget, ChooseTarget, SeekFailover, RefuseFailover,
         ChooseFailover, NoAvailableTargets, BeginUpdateStats, EndUpdateStats, Finish,
         SendTo, Goto, ProbingFailover, reqVars
    <3>2. holder = r /\ tried >= length
      BY <3>1 DEF NoListedTarget, GiveUp
    <3>3. t \in probed
      BY <1>3, <2>0, <3>2, AllProbed
    <3> QED
      BY <1>3, <3>2, <3>3 DEF Refused
  <2>2. ASSUME NEW q \in Threads, q # r, Act(q)
        PROVE  FALSE
    BY <1>3, <2>0, <2>2, OtherRequests DEF Same
  <2>3. CASE Tick \/ UpdateList \/ UNCHANGED vars
    BY <1>3, <2>3 DEF Tick, UpdateList, vars, reqVars
  <2> QED
    BY <1>3, <2>1, <2>2, <2>3 DEF Next, Act
<1>4. Inv /\ [Next]_vars =>
         [\A r \in Threads :
            (pc[r] = "primary" /\ pc'[r] = "failover" /\ ~WithJail)
                => \A t \in Listed : ~Suits(r, t)]_vars
  BY <1>3
<1> QED
  BY <1>1, <1>2, <1>4, PTL DEF Spec, FailoverOnlyAsLastResort

--------------------------------------------------------------------------------
(***************************************************************************)
(* The jail.  A target's term ends after the second of its latest failure, *)
(* and so does the term that an UpdateStats in progress is about to store: *)
(* whichever of the two isAvailable reads, the failure is over.  That the  *)
(* latest one is stored last follows from the target's lock (Exclusive).   *)
(***************************************************************************)
Covers(t, jail) == failedAt[t] < jail \/ failedAt[t] < now

Jailed ==
    /\ now >= 1
    /\ \A t \in AllTargets : failedAt[t] <= now /\ Covers(t, stats[t].jailExpireTime)
    /\ \A r \in Threads : pc[r] = "update" =>
          /\ Covers(target[r], newStats[r].jailExpireTime)
          /\ outcome[r] \notin Available =>
                BegunAt(r) <= now /\ BegunAt(r) < newStats[r].jailExpireTime

\* The term that UpdateStats works out.
LEMMA UpdateStatsJail ==
    ASSUME NEW s \in Stats, NEW ok \in BOOLEAN, NEW t \in Nat
    PROVE  LET n == UpdateStats(s, ok, t) IN
           /\ ok => n.jailExpireTime = s.jailExpireTime
           /\ ~ok => /\ n.jailExpireTime - TargetJailTime * n.errCounter = t
                     /\ t < n.jailExpireTime
<1> DEFINE d == Truncated(s, t)
           c == [d EXCEPT !.reqCounter = d.reqCounter + 1]
           j == t + TargetJailTime * (s.errCounter + 1)
           n == UpdateStats(s, ok, t)
<1>1. Window(t) \in Nat
  BY WindowType
<1>2. /\ d \in Stats /\ d.errCounter = s.errCounter
      /\ d.jailExpireTime = s.jailExpireTime
  <2>1. CASE Window(t) > s.reqWindow
    <3>1. d = [s EXCEPT !.reqWindow = Window(t), !.reqCounter = 0]
      BY <2>1 DEF Truncated
    <3> HIDE DEF d
    <3> QED
      BY <1>1, <3>1 DEF Stats
  <2>2. CASE ~(Window(t) > s.reqWindow)
    BY <2>2 DEF Truncated
  <2> QED
    BY <2>1, <2>2
<1>3. n = IF ~ok
          THEN [c EXCEPT !.successCounter = 0, !.errCounter = @ + 1, !.jailExpireTime = j]
          ELSE IF s.successCounter < ConsecutiveSuccessResponses
          THEN [c EXCEPT !.successCounter = @ + 1]
          ELSE [c EXCEPT !.successCounter = 0, !.errCounter = 0]
  BY DEF UpdateStats
<1> HIDE DEF d, n
<1>4. /\ c \in Stats /\ c.errCounter = s.errCounter
      /\ c.jailExpireTime = s.jailExpireTime
  BY <1>2 DEF Stats
<1> HIDE DEF c
<1>5. ASSUME ok
      PROVE  n.jailExpireTime = s.jailExpireTime
  BY <1>3, <1>4, <1>5 DEF Stats
<1>6. ASSUME ~ok
      PROVE  n.jailExpireTime - TargetJailTime * n.errCounter = t /\ t < n.jailExpireTime
  <2>1. n = [c EXCEPT !.successCounter = 0, !.errCounter = @ + 1, !.jailExpireTime = j]
    BY <1>3, <1>6
  <2>2. s.errCounter \in Nat /\ TargetJailTime \in Nat \ {0}
    BY JailAssumption DEF Stats
  <2> DEFINE e == s.errCounter + 1
             p == TargetJailTime * e
  <2>3. p \in Nat /\ p > 0
    BY <2>2
  <2>4. j = t + p
    OBVIOUS
  <2> HIDE DEF j, p
  <2>5. n.jailExpireTime = j /\ n.errCounter = e
    BY <1>4, <2>1 DEF Stats
  <2>6. TargetJailTime * n.errCounter = p
    BY <2>5 DEF p
  <2> QED
    BY <2>3, <2>4, <2>5, <2>6
<1> QED
  BY <1>5, <1>6 DEF n

\* A step that leaves the statistics alone, except that the clock may go on.
LEMMA QuietJail ==
    ASSUME TInv, Jailed, UNCHANGED <<stats, newStats, failedAt>>,
           now' = now \/ now' = now + 1,
           \A r \in Threads : pc'[r] = "update" =>
              pc[r] = "update" /\ target'[r] = target[r] /\ outcome'[r] = outcome[r]
    PROVE  Jailed'
<1>0. /\ now \in Nat /\ failedAt \in [AllTargets -> Int]
      /\ stats \in [AllTargets -> Stats] /\ newStats \in [Threads -> Stats]
  BY DEF TInv, TypeOK
<1>1. ASSUME NEW t \in AllTargets, NEW j \in Nat, Covers(t, j)
      PROVE  Covers(t, j)'
  BY <1>0, <1>1 DEF Covers
<1>2. \A s \in Stats : s.jailExpireTime \in Nat /\ s.errCounter \in Nat
  BY DEF Stats
<1>3. now' >= 1
  BY <1>0 DEF Jailed
<1>4. ASSUME NEW t \in AllTargets
      PROVE  failedAt'[t] <= now' /\ Covers(t, stats[t].jailExpireTime)'
  <2>1. failedAt[t] \in Int /\ failedAt[t] <= now
    BY <1>0 DEF Jailed
  <2>2. stats[t].jailExpireTime \in Nat /\ Covers(t, stats[t].jailExpireTime)
    BY <1>0, <1>2 DEF Jailed
  <2>3. failedAt'[t] <= now'
    BY <1>0, <2>1
  <2> QED
    BY <1>0, <2>1, <2>2, <2>3 DEF Covers
<1>5. ASSUME NEW r \in Threads, pc'[r] = "update"
      PROVE  /\ Covers(target[r], newStats[r].jailExpireTime)'
             /\ outcome'[r] \notin Available =>
                   BegunAt(r)' <= now' /\ BegunAt(r)' < newStats'[r].jailExpireTime
  <2>1. pc[r] = "update" /\ target'[r] = target[r] /\ outcome'[r] = outcome[r]
    BY <1>5
  <2>2. target[r] \in AllTargets /\ newStats[r].jailExpireTime \in Nat
    BY <1>0, <1>2, <2>1 DEF TInv, HasTarget, InFlightPc
  <2>3. Covers(target[r], newStats[r].jailExpireTime)
    BY <2>1 DEF Jailed
  <2>4. failedAt[target[r]] \in Int
    BY <1>0, <2>2
  <2>5. Covers(target[r], newStats[r].jailExpireTime)'
    BY <1>0, <2>1, <2>2, <2>3, <2>4 DEF Covers
  <2>6. newStats[r].errCounter \in Nat /\ TargetJailTime \in Nat
    BY <1>0, <1>2, JailAssumption
  <2>7. BegunAt(r) \in Int /\ BegunAt(r)' = BegunAt(r)
    BY <2>2, <2>6 DEF BegunAt
  <2>8. ASSUME outcome'[r] \notin Available
        PROVE  BegunAt(r)' <= now' /\ BegunAt(r)' < newStats'[r].jailExpireTime
    <3>1. BegunAt(r) <= now /\ BegunAt(r) < newStats[r].jailExpireTime
      BY <2>1, <2>8 DEF Jailed
    <3> QED
      BY <1>0, <2>7, <3>1
  <2> QED
    BY <2>5, <2>8
<1> QED
  BY <1>3, <1>4, <1>5 DEF Jailed

\* UpdateStats begins: the term it works out covers the failure it counts.
LEMMA BeginJail ==
    ASSUME TInv, Jailed, NEW r \in Threads, BeginUpdateStats(r)
    PROVE  Jailed'
<1> DEFINE s == stats[target[r]]
           ok == outcome[r] \in Available
           n == UpdateStats(s, ok, now)
<1>0. /\ now \in Nat /\ pc \in [Threads -> Pcs] /\ newStats \in [Threads -> Stats]
      /\ failedAt \in [AllTargets -> Int] /\ stats \in [AllTargets -> Stats]
      /\ target[r] \in AllTargets
  BY DEF TInv, TypeOK, Pcs, HasTarget, InFlightPc, BeginUpdateStats
<1>1. /\ newStats' = [newStats EXCEPT ![r] = n] /\ pc' = [pc EXCEPT ![r] = "update"]
      /\ UNCHANGED <<now, stats, target, outcome, failedAt>>
  BY DEF BeginUpdateStats, Goto, histVars
<1>2. s \in Stats /\ s.jailExpireTime \in Nat /\ ok \in BOOLEAN
  BY <1>0 DEF Stats
<1>3. Covers(target[r], s.jailExpireTime) /\ failedAt[target[r]] <= now
  BY <1>0 DEF Jailed
<1> HIDE DEF s, ok
<1>4. /\ ok => n.jailExpireTime = s.jailExpireTime
      /\ ~ok => /\ n.jailExpireTime - TargetJailTime * n.errCounter = now
                /\ now < n.jailExpireTime
  BY <1>0, <1>2, UpdateStatsJail
<1>5. n \in Stats /\ n.jailExpireTime \in Nat
  <2>1. newStats'[r] \in Stats
    BY BeginFacts
  <2> QED
    BY <1>0, <1>1, <2>1 DEF Stats
<1> HIDE DEF n
<1>6. newStats'[r] = n /\ outcome'[r] = outcome[r] /\ target'[r] = target[r]
  BY <1>0, <1>1
<1>7. Covers(target[r], n.jailExpireTime)
  <2>1. CASE ok
    BY <1>3, <1>4, <2>1
  <2>2. CASE ~ok
    <3>1. failedAt[target[r]] \in Int
      BY <1>0
    <3> QED
      BY <1>0, <1>3, <1>4, <1>5, <2>2, <3>1 DEF Covers
  <2> QED
    BY <2>1, <2>2
<1>8. ~ok => BegunAt(r)' <= now' /\ BegunAt(r)' < newStats'[r].jailExpireTime
  <2>1. BegunAt(r)' = n.jailExpireTime - TargetJailTime * n.errCounter
    BY <1>6 DEF BegunAt
  <2>2. now' = now
    BY <1>1
  <2> QED
    BY <1>0, <1>4, <1>6, <2>1, <2>2
<1>9. ASSUME NEW q \in Threads, q # r, pc'[q] = "update"
      PROVE  /\ Covers(target[q], newStats[q].jailExpireTime)'
             /\ outcome'[q] \notin Available =>
                   BegunAt(q)' <= now' /\ BegunAt(q)' < newStats'[q].jailExpireTime
  <2>1. pc[q] = "update" /\ newStats'[q] = newStats[q]
    BY <1>0, <1>1, <1>9
  <2> QED
    BY <1>1, <2>1 DEF Jailed, Covers, BegunAt
<1>10. Covers(target[r], newStats[r].jailExpireTime)'
  BY <1>1, <1>6, <1>7 DEF Covers
<1>11. /\ now' >= 1
       /\ \A t \in AllTargets : failedAt'[t] <= now' /\ Covers(t, stats[t].jailExpireTime)'
  BY <1>1 DEF Jailed, Covers
<1> QED
  BY <1>1, <1>8, <1>9, <1>10, <1>11 DEF Jailed, ok

\* UpdateStats stores it, and no other goroutine is updating the same target.
LEMMA EndJail ==
    ASSUME TInv, SInv, Jailed, NEW r \in Threads, EndUpdateStats(r)
    PROVE  Jailed'
<1>0. /\ now \in Nat /\ pc \in [Threads -> Pcs] /\ newStats \in [Threads -> Stats]
      /\ failedAt \in [AllTargets -> Int] /\ stats \in [AllTargets -> Stats]
      /\ target[r] \in AllTargets /\ pc[r] = "update"
  BY DEF TInv, TypeOK, Pcs, HasTarget, InFlightPc, EndUpdateStats
<1>1. /\ stats' = [stats EXCEPT ![target[r]] = newStats[r]]
      /\ newStats' = [newStats EXCEPT ![r] = NewStats]
      /\ failedAt' = [failedAt EXCEPT ![target[r]] =
                        IF outcome[r] \in Available THEN @ ELSE BegunAt(r)]
      /\ UNCHANGED <<now, target, outcome>>
  BY DEF EndUpdateStats
<1>2. pc' \in [Threads -> Pcs] /\ pc'[r] # "update" /\ \A q \in Threads \ {r} : pc'[q] = pc[q]
  BY <1>0 DEF EndUpdateStats, Goto, Pcs
<1> DEFINE t0 == target[r]
           f  == IF outcome[r] \in Available THEN failedAt[t0] ELSE BegunAt(r)
<1>3. /\ stats'[t0] = newStats[r] /\ failedAt'[t0] = f
      /\ \A t \in AllTargets \ {t0} : stats'[t] = stats[t] /\ failedAt'[t] = failedAt[t]
  BY <1>0, <1>1
<1>4. f <= now /\ (f < newStats[r].jailExpireTime \/ f < now)
  BY <1>0 DEF Jailed, Covers
<1> HIDE DEF f
<1>5. ASSUME NEW t \in AllTargets
      PROVE  failedAt'[t] <= now' /\ Covers(t, stats[t].jailExpireTime)'
  <2>1. CASE t = t0
    BY <1>1, <1>3, <1>4, <2>1 DEF Covers
  <2>2. CASE t # t0
    BY <1>1, <1>3, <2>2 DEF Covers, Jailed
  <2> QED
    BY <2>1, <2>2
<1>6. ASSUME NEW q \in Threads, pc'[q] = "update"
      PROVE  /\ Covers(target[q], newStats[q].jailExpireTime)'
             /\ outcome'[q] \notin Available =>
                   BegunAt(q)' <= now' /\ BegunAt(q)' < newStats'[q].jailExpireTime
  <2>1. q # r /\ pc[q] = "update" /\ newStats'[q] = newStats[q]
    BY <1>0, <1>1, <1>2, <1>6
  <2>2. target[q] # t0 /\ target[q] \in AllTargets
    BY <1>0, <2>1 DEF SInv, Exclusive, TInv, HasTarget, InFlightPc
  <2>3. failedAt'[target[q]] = failedAt[target[q]]
    BY <1>3, <2>2
  <2> QED
    BY <1>1, <2>1, <2>3 DEF Jailed, Covers, BegunAt
<1>7. now' >= 1
  BY <1>1 DEF Jailed
<1> QED
  BY <1>5, <1>6, <1>7 DEF Jailed

LEMMA NextJail ==
    ASSUME TInv, SInv, Jailed, [Next]_vars
    PROVE  Jailed'
<1>0. pc \in [Threads -> Pcs]
  BY DEF TInv, TypeOK, Pcs
<1>1. CASE Tick \/ UpdateList \/ UNCHANGED vars
  BY <1>1, QuietJail DEF Tick, UpdateList, vars, reqVars, histVars
<1>2. ASSUME NEW r \in Threads, BeginUpdateStats(r) \/ EndUpdateStats(r)
      PROVE  Jailed'
  BY <1>2, BeginJail, EndJail
<1>3. ASSUME NEW r \in Threads, Act(r), ~BeginUpdateStats(r), ~EndUpdateStats(r)
      PROVE  Jailed'
  <2>1. /\ UNCHANGED <<stats, newStats, failedAt, now>>
        /\ pc'[r] # "update" \/ UNCHANGED <<pc, target, outcome>>
    BY <1>0, <1>3 DEF Act, Receive, Cancel, Step, Answer, AttemptsUsedUp, ContextDone,
       SeekTarget, RefuseTarget, ChooseTarget, NoListedTarget, SeekFailover, RefuseFailover,
       ChooseFailover, NoAvailableTargets, Finish, SendTo, Goto, histVars, reqVars
  <2>2. ASSUME NEW q \in Threads, q # r
        PROVE  pc'[q] = pc[q] /\ target'[q] = target[q] /\ outcome'[q] = outcome[q]
    BY <1>3, <2>2, OtherRequests DEF Same, TInv
  <2> QED
    BY <2>1, <2>2, QuietJail
<1> QED
  BY <1>1, <1>2, <1>3 DEF Next, Act

\* Whatever a goroutine reads of a target's statistics, it only passes when its
\* latest failure is over.
LEMMA PassedAfterFailure ==
    ASSUME TInv, Jailed, WithJail, NEW t \in AllTargets, MayPass(t)
    PROVE  failedAt[t] < now
<1>0. /\ now \in Nat /\ failedAt[t] \in Int /\ stats[t] \in Stats
      /\ newStats \in [Threads -> Stats]
  BY DEF TInv, TypeOK
<1>1. PICK v \in Views(t) : IsAvailable(reqLimit(t), v, now)
  BY DEF MayPass
<1>2. ~(v.jailExpireTime > now)
  BY <1>1 DEF IsAvailable
<1>3. Covers(t, stats[t].jailExpireTime)
  BY DEF Jailed
<1>4. CASE Updating(t) = {}
  <2>1. v = stats[t]
    BY <1>1, <1>4 DEF Views
  <2>2. v.jailExpireTime \in Nat
    BY <1>0, <2>1 DEF Stats
  <2> QED
    BY <1>0, <1>2, <1>3, <2>1, <2>2 DEF Covers
<1>5. CASE Updating(t) # {}
  <2>1. PICK r \in Updating(t) : v \in TornReads(stats[t], newStats[r])
    BY <1>1, <1>5 DEF Views
  <2>2. r \in Threads /\ pc[r] = "update" /\ target[r] = t
    BY <2>1 DEF Updating
  <2> DEFINE old == stats[t]
             new == newStats[r]
  <2>3. PICK w \in {old.reqWindow, new.reqWindow},
             c \in {old.reqCounter, new.reqCounter}
                     \cup {x \in {0} : new.reqWindow # old.reqWindow},
             j \in {old.jailExpireTime, new.jailExpireTime} :
               v = Seen(old, w, c, j)
    BY <2>1 DEF TornReads
  <2>4. v.jailExpireTime = j
    BY <1>0, <2>3 DEF Seen, Stats
  <2>5. Covers(t, newStats[r].jailExpireTime)
    BY <2>2 DEF Jailed
  <2>6. j \in Nat /\ Covers(t, j)
    BY <1>0, <1>3, <2>2, <2>3, <2>5 DEF Stats
  <2> QED
    BY <1>0, <1>2, <2>4, <2>6 DEF Covers
<1> QED
  BY <1>4, <1>5

\* With the jail on no target is chosen in the second of its latest failure
\* (transport.go:339-355).
THEOREM NoneFreedEarly ==
    Spec => JailHolds
<1> DEFINE Inv == TInv /\ SInv /\ Jailed
<1>1. Init => Inv
  <2>1. ASSUME Init
        PROVE  Jailed
    <3>1. /\ now = LimitWindowSeconds /\ LimitWindowSeconds \in Nat \ {0}
          /\ \A t \in AllTargets : failedAt[t] = 0
          /\ \A r \in Threads : pc[r] = "idle"
      BY <2>1, WindowAssumption DEF Init
    <3> QED
      BY <3>1 DEF Jailed, Covers
  <2> QED
    BY <2>1, InitTInv, InitSInv
<1>2. Inv /\ [Next]_vars => Inv'
  BY NextTInv, NextSInv, NextJail
<1>3. ASSUME Inv, [Next]_vars, NEW r \in Threads, pc[r] # "sent", pc'[r] = "sent", WithJail
      PROVE  failedAt[target'[r]] < now
  <2>0. TypeOK /\ TLInv /\ pc \in [Threads -> Pcs]
        /\ target \in [Threads -> AllTargets \cup {NoTarget}]
    BY <1>3 DEF TInv, TypeOK, Pcs
  <2>1. CASE ChooseTarget(r)
    <3>1. target'[r] = Candidate /\ MayPass(Candidate) /\ Probing(r)
      BY <2>0, <2>1 DEF ChooseTarget, SendTo, Choose
    <3>2. Candidate \in AllTargets
      BY <2>0, <3>1, CandidateListed DEF AllTargets
    <3> QED
      BY <1>3, <3>1, <3>2, PassedAfterFailure
  <2>2. CASE ChooseFailover(r)
    <3>1. target'[r] = FailoverCandidate /\ MayPass(FailoverCandidate) /\ ProbingFailover(r)
      BY <2>0, <2>2 DEF ChooseFailover, SendTo
    <3>2. FailoverCandidate \in AllTargets
      BY <1>3, <3>1, FailoverCandidateExists DEF AllTargets
    <3> QED
      BY <1>3, <3>1, <3>2, PassedAfterFailure
  <2>3. CASE Act(r) /\ ~ChooseTarget(r) /\ ~ChooseFailover(r)
    BY <1>3, <2>0, <2>3 DEF Act, Receive, Cancel, Step, Answer, AttemptsUsedUp, ContextDone,
       SeekTarget, RefuseTarget, NoListedTarget, SeekFailover, RefuseFailover,
       NoAvailableTargets, BeginUpdateStats, EndUpdateStats, Finish, Goto, reqVars
  <2>4. ASSUME NEW q \in Threads, q # r, Act(q)
        PROVE  FALSE
    BY <1>3, <2>0, <2>4, OtherRequests DEF Same
  <2>5. CASE Tick \/ UpdateList \/ UNCHANGED vars
    BY <1>3, <2>5 DEF Tick, UpdateList, vars, reqVars
  <2> QED
    BY <1>3, <2>1, <2>2, <2>3, <2>4, <2>5 DEF Next, Act
<1>4. Inv /\ [Next]_vars =>
         [\A r \in Threads :
            (pc[r] # "sent" /\ pc'[r] = "sent" /\ WithJail)
                => failedAt[target'[r]] < now]_vars
  BY <1>3
<1> QED
  BY <1>1, <1>2, <1>4, PTL DEF Spec, JailHolds
================================================================================
