------------------------------ MODULE ProxyTarget ------------------------------
(***************************************************************************)
(* The statistics one upstream target keeps (type proxyTarget of           *)
(* internal/proxy/middlewares/transport.go) and the two operations on      *)
(* them: UpdateStats, called once per answered attempt, and isAvailable,   *)
(* asked before a target is chosen.  They are operators on a record; the   *)
(* module ProxyTransport says which goroutine applies them and when.       *)
(***************************************************************************)
EXTENDS Integers

CONSTANTS
    WithJail,                   \* does a failing target go to jail?
    LimitWindowSeconds,         \* limitWindowSeconds, 10 in the code
    SecondsInHour,              \* secondsInHour, 3600 in the code
    TargetJailTime,             \* targetJailTime, one second in the code
    ConsecutiveSuccessResponses \* consecutiveSucessResponses, 10 in the code

ASSUME WithJailAssumption == WithJail \in BOOLEAN
ASSUME WindowAssumption ==
    /\ LimitWindowSeconds \in Nat \ {0}
    /\ SecondsInHour \in Nat
    /\ SecondsInHour >= LimitWindowSeconds
ASSUME JailAssumption ==
    /\ TargetJailTime \in Nat \ {0}
    /\ ConsecutiveSuccessResponses \in Nat

\* The counters are uint64 in the code; no reachable run of the process can
\* wrap them, so they are naturals here.
Stats == [errCounter     : Nat,
          successCounter : Nat,
          reqCounter     : Nat,
          jailExpireTime : Nat,
          reqWindow      : Nat]

\* A fresh proxyTarget: every field has its zero value.
NewStats == [errCounter     |-> 0,
             successCounter |-> 0,
             reqCounter     |-> 0,
             jailExpireTime |-> 0,
             reqWindow      |-> 0]

\* getCurrentTimeWindow: the clock truncated to the start of its window.
Window(now) == now - (now % LimitWindowSeconds)

\* How NewProxyTransport derives the limit per window from the configured
\* hourly one: an integer division, by an integer quotient.
WindowLimit(reqLimitHourly) ==
    reqLimitHourly \div (SecondsInHour \div LimitWindowSeconds)

\* The counter starts again in the first request of a new window.
Truncated(s, now) ==
    IF Window(now) > s.reqWindow
    THEN [s EXCEPT !.reqWindow = Window(now), !.reqCounter = 0]
    ELSE s

\* After a failure the jail term grows with every error since the counters
\* were last cleared; the success that follows ConsecutiveSuccessResponses
\* successes clears them.
UpdateStatsStepwise(s, success, now) ==   \* slip: one success fewer, not none
    LET counted == [Truncated(s, now) EXCEPT !.reqCounter = @ + 1]
    IN  IF success
        THEN [counted EXCEPT !.successCounter = @ + 1]
        ELSE [counted EXCEPT !.successCounter = @ - 1, !.errCounter = @ + 1,
                             !.jailExpireTime =
                                 now + TargetJailTime * (s.errCounter + 1)]

UpdateStats(s, success, now) ==
    LET counted == [Truncated(s, now) EXCEPT !.reqCounter = @ + 1]
    IN  IF ~success
        THEN [counted EXCEPT !.successCounter = 0,
                             !.errCounter     = @ + 1,
                             !.jailExpireTime =
                                 now + TargetJailTime * (s.errCounter + 1)]
        ELSE IF s.successCounter < ConsecutiveSuccessResponses
        THEN [counted EXCEPT !.successCounter = @ + 1]
        ELSE [counted EXCEPT !.successCounter = 0, !.errCounter = 0]

AvailableInJail(reqLimit, s, now) ==   \* slip: the jail is forgotten
    ~(reqLimit > 0 /\ Window(now) = s.reqWindow /\ s.reqCounter >= reqLimit)

IsAvailable(reqLimit, s, now) ==
    /\ ~(WithJail /\ s.jailExpireTime > now)
    /\ ~(/\ reqLimit > 0
         /\ Window(now) = s.reqWindow
         /\ s.reqCounter >= reqLimit)

\* isAvailable reads the fields without taking the target's lock.  While a
\* writer turns old into new, each field it reads has its old or its new
\* value, and a counter that is being truncated may also be seen as zero.
Seen(old, w, c, j) ==
    [old EXCEPT !.reqWindow = w, !.reqCounter = c, !.jailExpireTime = j]

TornReads(old, new) ==
    { Seen(old, w, c, j) :
        w \in {old.reqWindow, new.reqWindow},
        c \in {old.reqCounter, new.reqCounter}
                \cup {x \in {0} : new.reqWindow # old.reqWindow},
        j \in {old.jailExpireTime, new.jailExpireTime} }
================================================================================
