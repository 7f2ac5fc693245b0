------------------------------- MODULE Aggregation -------------------------------
(***************************************************************************)
(* The table stats after the collector has filled it: twice a day, at the  *)
(* start of the process and at its end the Aggregator counts the requests  *)
(* of the days that are over, per user and method and per method and       *)
(* request data, and deletes them (delayed_insertion.go, aggregated_*.go,  *)
(* stats.go).  Both tables of totals replace a row by a later one with the *)
(* same key (ReplacingMergeTree), so that counting a day again does no     *)
(* harm as long as its records are all still there.                        *)
(*                                                                         *)
(* A total is the set of records it counts; the requests here all have the *)
(* same method.  ALTER TABLE ... DELETE returns at once: it is a mutation  *)
(* (the DSN does not set mutations_sync), which ClickHouse carries out     *)
(* later, one part of the table after the other, whoever runs by then.     *)
(* The server's time zone is UTC, or ahead of it on some of the days: one  *)
(* behind UTC counts a day before it is over, and again when it is.        *)
(***************************************************************************)
EXTENDS Collector

CONSTANTS
    User,         \* the user of each record
    RequestData,  \* and what it asked for
    MaxTop,       \* rows of request data kept for a day (100)
    MaxDay        \* bound: midnights

ASSUME AggregationAssumption == MaxTop \in Nat \ {0} /\ MaxDay \in Nat

VARIABLES
    today,        \* the date in the server's time zone
    utcToday,     \* toDate(now(), 'Etc/UTC')
    timestamp,    \* the date of each record that was added
    mutating,     \* records in the parts of stats that are still to be rewritten
    deleted,      \* records that were deleted from stats
    userData,     \* aggregated_user_data: the records in each total
    analysis,     \* aggregated_analysis_data: likewise
    apc,          \* where the aggregator's goroutine is
    runs,         \* which aggregator it is: the first process has one, and the next
    counted,      \* history: the days whose counting has begun
    spoiled       \* history: the days that something has happened to that may cost records

clockVars == <<today, utcToday>>
tableVars == <<mutating, deleted, userData, analysis>>
aggVars == <<clockVars, timestamp, tableVars, apc, runs, counted, spoiled>>
allVars == <<vars, aggVars>>

Days == 0 .. MaxDay
Users == {User[r] : r \in Records}
Data == {RequestData[r] : r \in Records}

\* start() aggregates at once.
AggInit ==
    /\ Init
    /\ today = 0 /\ utcToday = 0
    /\ timestamp = [r \in Records |-> 0]
    /\ mutating = {} /\ deleted = {}
    /\ userData = [x \in Users \X Days |-> {}]
    /\ analysis = [x \in Data \X Days |-> {}]
    /\ apc = IF chStorage THEN "user data" ELSE "none"
    /\ runs = 1
    /\ counted = {} /\ spoiled = {}

Stats == InDatabase \ deleted
OfDay(rs, d) == {r \in rs : timestamp[r] = d}

\* A day is spoiled that ends between the counting and the deletion, before the
\* parts with its records are rewritten (Rewrite), or before it does in UTC.
Midnight ==
    /\ today < MaxDay /\ utcToday = today
    /\ today' = today + 1
    /\ utcToday' \in {utcToday, utcToday + 1}
    /\ spoiled' = IF \/ apc \in {"analysis", "delete"}
                     \/ OfDay(mutating, today) # {}
                     \/ utcToday' < today'
                  THEN spoiled \cup {today} ELSE spoiled
    /\ UNCHANGED <<vars, timestamp, tableVars, apc, runs, counted>>

MidnightInUTC ==
    /\ utcToday < today /\ utcToday' = today
    /\ UNCHANGED <<vars, today, timestamp, tableVars, apc, runs, counted, spoiled>>

--------------------------------------------------------------------------------
(* The collector, as in its module, and the dates of the records. *)

AddRecord(r) ==
    /\ Add(r)
    /\ timestamp' = [timestamp EXCEPT ![r] = today]
    /\ UNCHANGED <<clockVars, tableVars, apc, runs, counted, spoiled>>

Arriving == {r \in Records : copies'[r] > copies[r]}
NoteArrivals == spoiled' = spoiled \cup ({timestamp[r] : r \in Arriving} \cap counted)

Beside == NoteArrivals /\ UNCHANGED <<clockVars, timestamp, tableVars, apc, runs, counted>>

FlushStep == (FlushOnTimer \/ FlushOnDone) /\ Beside
InsertStep == (InsertSucceeds \/ InsertFails) /\ Beside
CancelStep == Cancel /\ Beside

CollectorStep == FlushStep \/ InsertStep \/ CancelStep

ProcessExits ==
    /\ Exit
    /\ apc' = "none"
    /\ NoteArrivals
    /\ UNCHANGED <<clockVars, timestamp, tableVars, runs, counted>>

\* The next process; the records that its collector adds are not modelled.
NextProcess ==
    /\ ~running /\ chStorage /\ runs = 1
    /\ runs' = 2 /\ apc' = "user data"
    /\ UNCHANGED <<vars, clockVars, timestamp, tableVars, counted, spoiled>>

--------------------------------------------------------------------------------
(* The aggregator. *)

Over == {r \in Stats : timestamp[r] < utcToday}   \* WHERE day < toDate(now(), 'Etc/UTC')

\* Days over of which ClickHouse has rewritten some parts and not the others.
Halved == {d \in Days : d < utcToday /\ OfDay(deleted, d) # {} /\ OfDay(Stats, d) # {}}

\* The timer, or ctx.Done() and once more before the goroutine returns.
Wake ==
    /\ apc = "select" /\ apc' = "user data"
    /\ UNCHANGED <<vars, clockVars, timestamp, tableVars, runs, counted, spoiled>>

\* Any statement may fail, stored or not: aggregate returns and starts with the
\* first one when it is called again.
Return == apc' \in IF canceled /\ running THEN {"select", "stopped"} ELSE {"select"}
GoOn(label) == apc' = label   \* slip: the error is only logged
Fail(label) == Return

\* INSERT ... SELECT of a total for each group there is; OPTIMIZE.
InsertAggregateUserData ==
    /\ apc = "user data"
    /\ \/ /\ userData' = [x \in Users \X Days |->
                LET rs == {r \in OfDay(Over, x[2]) : User[r] = x[1]}
                IN IF rs = {} THEN userData[x] ELSE rs]
          /\ counted' = counted \cup {d \in Days : d < utcToday}
          /\ spoiled' = spoiled \cup Halved
          /\ apc' = "analysis" \/ Fail("analysis")
       \/ UNCHANGED <<userData, counted, spoiled>> /\ Fail("analysis")
    /\ UNCHANGED <<vars, clockVars, timestamp, mutating, deleted, analysis, runs>>

\* The rows of a day with the most requests: LIMIT 100 BY rpc_method, day.
Count(d, x) == Cardinality({r \in OfDay(Over, d) : RequestData[r] = x})
Asked(d) == {x \in Data : Count(d, x) > 0}
Limit(d) == IF Cardinality(Asked(d)) < MaxTop THEN Cardinality(Asked(d)) ELSE MaxTop
IsBottom(xs, d) ==   \* slip: ORDER BY c, without desc
    /\ xs \subseteq Asked(d)
    /\ Cardinality(xs) = Limit(d)
    /\ \A x \in xs, y \in Asked(d) \ xs : Count(d, x) <= Count(d, y)

IsTop(xs, d) ==
    /\ xs \subseteq Asked(d)
    /\ Cardinality(xs) = Limit(d)
    /\ \A x \in xs, y \in Asked(d) \ xs : Count(d, x) >= Count(d, y)

InsertAggregateAnalysisStats ==
    /\ apc = "analysis"
    /\ \/ /\ \E top \in [Days -> SUBSET Data] :
               /\ \A d \in Days : IsTop(top[d], d)
               /\ analysis' = [x \in Data \X Days |->
                     IF x[1] \in top[x[2]]
                     THEN {r \in OfDay(Over, x[2]) : RequestData[r] = x[1]}
                     ELSE analysis[x]]
          /\ spoiled' = spoiled \cup Halved
          /\ apc' = "delete" \/ Fail("delete")
       \/ UNCHANGED <<analysis, spoiled>> /\ Fail("delete")
    /\ UNCHANGED <<vars, clockVars, timestamp, mutating, deleted, userData, runs, counted>>

\* The statement is accepted for the parts there are, or it is not.
DeleteOutdatedStats ==
    /\ apc = "delete"
    /\ mutating' = Stats \/ UNCHANGED mutating
    /\ Return
    /\ UNCHANGED <<vars, clockVars, timestamp, deleted, userData, analysis, runs, counted,
                   spoiled>>

\* ClickHouse rewrites a part, with the condition of the statement in its time zone:
\* DELETE WHERE toDate(now()) > toDate(timestamp).
Rewrite ==
    /\ \E part \in SUBSET mutating \ {{}} :
         /\ mutating' = mutating \ part
         /\ deleted' = deleted \cup {r \in part : today > timestamp[r]}
    /\ UNCHANGED <<vars, clockVars, timestamp, userData, analysis, apc, runs, counted, spoiled>>

AggregatorStep ==
    \/ Wake
    \/ InsertAggregateUserData \/ InsertAggregateAnalysisStats \/ DeleteOutdatedStats

AggNext ==
    \/ Midnight \/ MidnightInUTC
    \/ \E r \in Records : AddRecord(r)
    \/ CollectorStep \/ ProcessExits \/ NextProcess
    \/ AggregatorStep \/ Rewrite

AggSpec == AggInit /\ [][AggNext]_allVars

\* The collector's fairness.
AggFairness == WF_allVars(FlushStep) /\ WF_allVars(InsertStep)

AggLiveSpec == AggSpec /\ AggFairness

--------------------------------------------------------------------------------
\* The collector's types, too.
AggTypeOK ==
    /\ TypeOK
    /\ utcToday \in Days /\ today \in {utcToday, utcToday + 1} \cap Days
    /\ timestamp \in [Records -> Days]
    /\ deleted \subseteq InDatabase /\ mutating \subseteq Stats
    /\ userData \in [Users \X Days -> SUBSET InDatabase]
    /\ analysis \in [Data \X Days -> SUBSET InDatabase]
    /\ apc \in {"none", "user data", "analysis", "delete", "select", "stopped"}
    /\ runs \in 1 .. 2
    /\ counted \subseteq Days /\ spoiled \subseteq Days

\* A record that was deleted is in its user's total, although any statement may
\* fail, with or without effect, parts are rewritten late, and processes end and
\* start in between.  Four things cost records: a flush after their day was counted,
\* whose records are deleted uncounted or replace the total; a day that ends between
\* the counting and the deletion of a part; a day that is counted again when half of
\* it is deleted, whose total becomes that of the other half; and a day that ends in
\* the server's time zone before it does in UTC (delayed_insertion.go:110-125, stats.go:93-104).
CountedBeforeDeleted ==
    \A r \in deleted :
        timestamp[r] \in spoiled \/ r \in userData[<<User[r], timestamp[r]>>]

\* Of a day that was deleted, or some of it, the analysis keeps what was asked for
\* most, each with all its requests, under the same conditions, however often the
\* day was counted (aggregated_stats.go:8-19).
Kept(x, d) == analysis[<<x, d>>] # {}
TopRequestsKept ==
    \A r \in deleted :
        LET d == timestamp[r]
            Asking(x) == {s \in OfDay(InDatabase, d) : RequestData[s] = x}
        IN d \notin spoiled =>
             \/ analysis[<<RequestData[r], d>>] = Asking(RequestData[r])
             \/ /\ Cardinality({x \in Data : Kept(x, d)}) >= MaxTop
                /\ \A x \in Data : Kept(x, d) =>
                     Cardinality(Asking(x)) >= Cardinality(Asking(RequestData[r]))
================================================================================
