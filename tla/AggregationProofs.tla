--------------------------- MODULE AggregationProofs ---------------------------
(***************************************************************************)
(* Proofs about Aggregation, for every set of records, users and request   *)
(* data and every number of days: the types, and that a record is deleted  *)
(* from stats only after its user's total has counted it and, if it was    *)
(* asked for often enough, the analysis of its day.  Every step is one of  *)
(* the collector, or leaves it alone, so that its invariants hold and the  *)
(* two together implement Delivery.                                        *)
(***************************************************************************)
EXTENDS Aggregation, CollectorProofs, FiniteSetTheorems

USE DEF clockVars, tableVars

InDb(d) == OfDay(InDatabase, d)

\* The aggregator's own variables.
Types ==
    /\ utcToday \in Days /\ today \in Days
    /\ today = utcToday \/ today = utcToday + 1
    /\ timestamp \in [Records -> Days]
    /\ deleted \subseteq InDatabase /\ mutating \subseteq InDatabase \ deleted
    /\ userData \in [Users \X Days -> SUBSET InDatabase]
    /\ apc \in {"none", "user data", "analysis", "delete", "select", "stopped"}
    /\ runs \in 1 .. 2
    /\ counted \subseteq Days /\ spoiled \subseteq Days
AnalysisType == analysis \in [Data \X Days -> SUBSET InDatabase]

\* A day that was counted is in the totals as a whole.
TotalsWhole == \A d \in counted \ spoiled : \A r \in InDb(d) : r \in userData[<<User[r], d>>]

\* What is deleted, what a part to be rewritten would lose, and the days that are
\* over between the counting and the deletion, all of that was counted.
Handled(d) == d \in counted \cup spoiled
DeletedHandled == \A r \in deleted : Handled(timestamp[r])
MutatingHandled == \A r \in mutating : timestamp[r] < today => Handled(timestamp[r])
OverHandled == apc \in {"analysis", "delete"} => \A d \in Days : d < today => Handled(d)

\* Only a day that is spoiled is over for the deletion and not for the counting.
LagSpoils == utcToday < today => utcToday \in spoiled

DaysOK == TotalsWhole /\ DeletedHandled /\ MutatingHandled /\ OverHandled /\ LagSpoils

AggIInv == IInv /\ Types /\ AnalysisType /\ DaysOK

--------------------------------------------------------------------------------
\* Every step is one of the collector or leaves it alone.
LEMMA CollectorStepOrNone ==
    [AggNext]_allVars => [Next]_vars
BY DEF AggNext, allVars, vars, Next, AddRecord, CollectorStep, FlushStep,
       InsertStep, CancelStep, ProcessExits, NextProcess,
       Midnight, MidnightInUTC, AggregatorStep, Wake, InsertAggregateUserData,
       InsertAggregateAnalysisStats, DeleteOutdatedStats, Rewrite

\* What a step does to the database: records only arrive, and arrivals of counted
\* days are noted.
LEMMA CollectorGoesOn ==
    ASSUME IInv, [AggNext]_allVars
    PROVE  IInv' /\ InDatabase \subseteq InDatabase'
<1>1. [Next]_vars
  BY CollectorStepOrNone
<1>2. IInv'
  BY <1>1, NextTypeOK, NextAccounted DEF IInv
<1>3. CASE UNCHANGED copies
  BY <1>2, <1>3 DEF InDatabase
<1>4. CASE Stored
  BY <1>2, <1>4, FirstCopies
<1> QED
  BY <1>1, <1>2, <1>3, <1>4 DEF Next, Add, FlushOnTimer, FlushOnDone, InsertSucceeds,
     InsertFails, Cancel, Exit, vars

\* A step of the collector.
Arrivals ==
    /\ NoteArrivals
    /\ UNCHANGED <<clockVars, timestamp, tableVars, counted>>
    /\ apc' = apc \/ apc' = "none"

LEMMA ArrivalsKeep ==
    ASSUME AggIInv, Arrivals, InDatabase \subseteq InDatabase', UNCHANGED runs, IInv'
    PROVE  AggIInv'
<1> USE DEF Arrivals
<1>1. spoiled' = spoiled \cup ({timestamp[r] : r \in Arriving} \cap counted)
  BY DEF NoteArrivals
<1>2. Types'
  BY <1>1 DEF AggIInv, Types
<1>3. AnalysisType'
  BY DEF AggIInv, AnalysisType
<1>4. \A r \in InDatabase' \ InDatabase : r \in Records /\ r \in Arriving
  <2>1. copies \in [Records -> Nat]
    BY DEF AggIInv, IInv, TypeOK
  <2>2. copies' \in [Records -> Nat]
    BY DEF IInv, TypeOK
  <2> QED
    BY <2>1, <2>2 DEF InDatabase, Arriving
<1>5. \A d \in counted \ spoiled' : InDb(d)' = InDb(d)
  BY <1>1, <1>4 DEF InDb, OfDay
<1>6. TotalsWhole'
  BY <1>1, <1>5 DEF AggIInv, DaysOK, TotalsWhole
<1>7. DeletedHandled' /\ MutatingHandled' /\ OverHandled' /\ LagSpoils'
  BY <1>1 DEF AggIInv, DaysOK, DeletedHandled, MutatingHandled, OverHandled, LagSpoils, Handled
<1> QED
  BY <1>2, <1>3, <1>6, <1>7 DEF AggIInv, DaysOK

LEMMA AddKeeps ==
    ASSUME AggIInv, NEW x \in Records, AddRecord(x), IInv'
    PROVE  AggIInv'
<1>1. /\ timestamp' = [timestamp EXCEPT ![x] = today] /\ UNCHANGED copies
      /\ UNCHANGED <<clockVars, tableVars, apc, runs, counted, spoiled>>
      /\ x \notin added
  BY DEF AddRecord, Add
<1>2. InDatabase' = InDatabase /\ x \notin InDatabase /\ InDatabase \subseteq Records
  BY <1>1 DEF InDatabase, AggIInv, IInv, Accounted
<1>3. Types' /\ AnalysisType'
  BY <1>1, <1>2 DEF AggIInv, Types, AnalysisType
<1>4. \A r \in InDatabase : timestamp'[r] = timestamp[r]
  BY <1>1, <1>2 DEF AggIInv, Types
<1>5. \A d : InDb(d)' = InDb(d)
  BY <1>2, <1>4 DEF InDb, OfDay
<1>6. TotalsWhole' /\ OverHandled' /\ LagSpoils'
  BY <1>1, <1>5 DEF AggIInv, DaysOK, TotalsWhole, OverHandled, LagSpoils, Handled
<1>7. \A r \in deleted \cup mutating : timestamp'[r] = timestamp[r]
  BY <1>4 DEF AggIInv, Types
<1>8. DeletedHandled' /\ MutatingHandled'
  BY <1>1, <1>7 DEF AggIInv, DaysOK, DeletedHandled, MutatingHandled, Handled
<1> QED
  BY <1>3, <1>6, <1>8 DEF AggIInv, DaysOK

LEMMA ClockKeeps ==
    ASSUME AggIInv, Midnight \/ MidnightInUTC, IInv'
    PROVE  AggIInv'
<1>0. MaxDay \in Nat /\ UNCHANGED <<vars, timestamp, tableVars, apc, runs, counted>>
  BY AggregationAssumption DEF Midnight, MidnightInUTC
<1>1. InDatabase' = InDatabase /\ \A d : InDb(d)' = InDb(d)
  BY <1>0 DEF vars, InDatabase, InDb, OfDay
<1>2. AnalysisType'
  BY <1>0, <1>1 DEF AggIInv, AnalysisType
<1>3. today \in Nat /\ utcToday \in Nat /\ today \in Days /\ utcToday \in Days
  <2>1. today \in Days /\ utcToday \in Days
    BY DEF AggIInv, Types
  <2> QED
    BY <1>0, <2>1 DEF Days
<1>4. \A r \in deleted \cup mutating : timestamp[r] \in Days
  BY DEF AggIInv, Types, InDatabase
<1>5. CASE Midnight
  <2>1. /\ today < MaxDay /\ utcToday = today /\ today' = today + 1
        /\ utcToday' = utcToday \/ utcToday' = utcToday + 1
    BY <1>5 DEF Midnight
  <2>2. /\ spoiled \subseteq spoiled' /\ spoiled' \subseteq spoiled \cup {today}
        /\ apc \in {"analysis", "delete"} => today \in spoiled'
        /\ \A r \in mutating : timestamp[r] = today => today \in spoiled'
        /\ utcToday' < today' => today \in spoiled'
    BY <1>5 DEF Midnight, OfDay
  <2>3. today + 1 \in Days
    BY <1>0, <1>3, <2>1 DEF Days
  <2>4. Types'
    BY <1>0, <1>1, <1>3, <2>1, <2>2, <2>3 DEF AggIInv, Types
  <2>5. TotalsWhole' /\ DeletedHandled'
    BY <1>0, <1>1, <2>2 DEF AggIInv, DaysOK, TotalsWhole, DeletedHandled, Handled
  <2>6. \A d \in Days : d < today' => d < today \/ d = today
    BY <1>0, <1>3, <2>1 DEF Days
  <2>7. MutatingHandled'
    BY <1>0, <1>4, <2>2, <2>6 DEF AggIInv, DaysOK, MutatingHandled, Handled
  <2>8. OverHandled'
    BY <1>0, <2>2, <2>6 DEF AggIInv, DaysOK, OverHandled, Handled
  <2>9. LagSpoils'
    <3>1. utcToday' < today' => utcToday' = today
      BY <1>3, <2>1
    <3> QED
      BY <2>2, <3>1 DEF LagSpoils
  <2> QED
    BY <1>2, <2>4, <2>5, <2>7, <2>8, <2>9 DEF AggIInv, DaysOK
<1>6. CASE MidnightInUTC
  <2>1. utcToday < today /\ utcToday' = today /\ UNCHANGED <<today, spoiled>>
    BY <1>6 DEF MidnightInUTC
  <2>2. Types'
    BY <1>0, <1>1, <1>3, <2>1 DEF AggIInv, Types
  <2>3. TotalsWhole' /\ DeletedHandled' /\ MutatingHandled' /\ OverHandled'
    BY <1>0, <1>1, <2>1 DEF AggIInv, DaysOK, TotalsWhole, DeletedHandled, MutatingHandled,
       OverHandled, Handled
  <2>4. LagSpoils'
    BY <1>3, <2>1 DEF LagSpoils
  <2> QED
    BY <1>2, <2>2, <2>3, <2>4 DEF AggIInv, DaysOK
<1> QED
  BY <1>5, <1>6

--------------------------------------------------------------------------------
\* The aggregator's steps leave the collector and the clocks alone.
Counting == UNCHANGED <<vars, clockVars, timestamp, runs>>

LEMMA SameDatabase ==
    ASSUME Counting
    PROVE  InDatabase' = InDatabase /\ \A d : InDb(d)' = InDb(d)
  BY DEF Counting, vars, InDatabase, InDb, OfDay

\* A day that is not half deleted is counted as a whole, or has nothing to count.
LEMMA DaysAreWhole ==
    ASSUME AggIInv, NEW d \in Days \ Halved
    PROVE  (OfDay(Over, d) = InDb(d) /\ d < utcToday) \/ OfDay(Over, d) = {}
<1>1. OfDay(Over, d) = {r \in InDb(d) \ deleted : d < utcToday}
  BY DEF OfDay, Over, Stats, InDb
<1>2. OfDay(deleted, d) = InDb(d) \cap deleted /\ OfDay(Stats, d) = InDb(d) \ deleted
  BY DEF AggIInv, Types, OfDay, Stats, InDb
<1>3. CASE OfDay(deleted, d) = {} /\ d < utcToday
  BY <1>1, <1>2, <1>3
<1>4. CASE OfDay(Stats, d) = {} \/ ~(d < utcToday)
  BY <1>1, <1>2, <1>4
<1> QED
  BY <1>3, <1>4 DEF Halved

\* What an insert of totals keeps, if each day that is over is counted by then.
LEMMA CountingKeeps ==
    ASSUME AggIInv, Counting, UNCHANGED <<mutating, deleted>>, Types', AnalysisType', IInv',
           counted \subseteq counted', spoiled \subseteq spoiled', TotalsWhole',
           apc' \in {"analysis", "delete"} =>
               apc = "analysis" \/ \A d \in Days : d < utcToday => d \in counted'
    PROVE  AggIInv'
<1>1. DeletedHandled' /\ MutatingHandled' /\ LagSpoils'
  BY DEF AggIInv, DaysOK, DeletedHandled, MutatingHandled, LagSpoils, Handled, Counting
<1>2. \A d \in Days : d < today => d < utcToday \/ d \in spoiled
  <2>1. today \in Days /\ utcToday \in Days /\ (today = utcToday \/ today = utcToday + 1)
        /\ MaxDay \in Nat
    BY AggregationAssumption DEF AggIInv, Types
  <2>2. utcToday < today => utcToday \in spoiled
    BY DEF AggIInv, DaysOK, LagSpoils
  <2> QED
    BY <2>1, <2>2 DEF Days
<1>3. OverHandled'
  BY <1>2 DEF AggIInv, DaysOK, OverHandled, Handled, Counting
<1> QED
  BY <1>1, <1>3 DEF AggIInv, DaysOK

LEMMA UserDataKeeps ==
    ASSUME AggIInv, InsertAggregateUserData, IInv'
    PROVE  AggIInv'
<1>0. /\ Counting /\ UNCHANGED <<mutating, deleted, analysis>>
      /\ apc' \in {"analysis", "select", "stopped"}
  BY DEF InsertAggregateUserData, Counting, Fail, Return
<1>1. InDatabase' = InDatabase /\ \A d : InDb(d)' = InDb(d)
  BY <1>0, SameDatabase
<1>2. deleted \subseteq Records /\ InDatabase \subseteq Records /\ timestamp \in [Records -> Days]
  BY DEF AggIInv, Types, InDatabase
<1>3. CASE UNCHANGED <<userData, counted, spoiled>> /\ apc' # "analysis"
  <2>1. Types' /\ AnalysisType'
    BY <1>0, <1>1, <1>3 DEF AggIInv, Types, AnalysisType, Counting
  <2>2. TotalsWhole'
    BY <1>1, <1>3 DEF AggIInv, DaysOK, TotalsWhole
  <2> QED
    BY <1>0, <1>3, <2>1, <2>2, CountingKeeps
<1>4. CASE /\ userData' = [x \in Users \X Days |->
                LET rs == {r \in OfDay(Over, x[2]) : User[r] = x[1]}
                IN IF rs = {} THEN userData[x] ELSE rs]
           /\ counted' = counted \cup {d \in Days : d < utcToday}
           /\ spoiled' = spoiled \cup Halved
  <2>1. \A d : OfDay(Over, d) = {r \in InDb(d) \ deleted : d < utcToday}
    BY DEF OfDay, Over, Stats, InDb
  <2>2. \A d : InDb(d) \subseteq InDatabase
    BY DEF InDb, OfDay
  <2>3. userData' \in [Users \X Days -> SUBSET InDatabase]
    <3>1. userData \in [Users \X Days -> SUBSET InDatabase]
      BY DEF AggIInv, Types
    <3>2. \A d : OfDay(Over, d) \subseteq InDatabase
      BY <2>1, <2>2
    <3> HIDE DEF Users, Days
    <3> QED
      BY <1>4, <3>1, <3>2
  <2>4. Types' /\ AnalysisType'
    <3>1. Halved \subseteq Days
      BY DEF Halved
    <3> QED
      BY <1>0, <1>1, <1>4, <2>3, <3>1 DEF AggIInv, Types, AnalysisType, Counting
  <2>5. ASSUME NEW d \in Days \ spoiled', d \in counted', NEW r \in InDb(d)
        PROVE  r \in userData'[<<User[r], d>>]
    <3>1. r \in Records /\ timestamp[r] = d /\ r \in InDatabase /\ <<User[r], d>> \in Users \X Days
      BY <1>2, <2>5 DEF InDb, OfDay, Users
    <3>2. userData'[<<User[r], d>>] =
             LET rs == {s \in OfDay(Over, d) : User[s] = User[r]}
             IN IF rs = {} THEN userData[<<User[r], d>>] ELSE rs
      BY <1>4, <3>1
    <3>3. CASE OfDay(Over, d) = InDb(d)
      <4>1. r \in {s \in OfDay(Over, d) : User[s] = User[r]}
        BY <2>5, <3>3
      <4> QED
        BY <3>2, <4>1
    <3>4. CASE OfDay(Over, d) = {}
      <4>1. userData'[<<User[r], d>>] = userData[<<User[r], d>>]
        BY <3>2, <3>4
      <4>2. d \in counted
        <5>1. CASE d < utcToday
          <6>1. r \in deleted
            BY <2>1, <2>5, <3>4, <5>1
          <6> QED
            BY <1>4, <2>5, <3>1, <6>1 DEF AggIInv, DaysOK, DeletedHandled, Handled
        <5>2. CASE ~(d < utcToday)
          BY <1>4, <2>5, <5>2
        <5> QED
          BY <5>1, <5>2
      <4> QED
        BY <1>4, <2>5, <4>1, <4>2 DEF AggIInv, DaysOK, TotalsWhole
    <3> QED
      BY <1>4, <2>5, <3>3, <3>4, DaysAreWhole
  <2>6. TotalsWhole'
    <3>1. counted' \subseteq Days
      BY <1>4 DEF AggIInv, Types
    <3> QED
      BY <1>1, <2>5, <3>1 DEF TotalsWhole
  <2> QED
    BY <1>0, <1>4, <2>4, <2>6, CountingKeeps
<1> QED
  BY <1>0, <1>3, <1>4 DEF InsertAggregateUserData, Fail, Return

LEMMA AnalysisKeeps ==
    ASSUME AggIInv, InsertAggregateAnalysisStats, IInv'
    PROVE  AggIInv'
<1>0. /\ Counting /\ UNCHANGED <<mutating, deleted, userData, counted>> /\ apc = "analysis"
      /\ apc' \in {"delete", "select", "stopped"}
      /\ spoiled' = spoiled \/ spoiled' = spoiled \cup Halved
  BY DEF InsertAggregateAnalysisStats, Counting, Fail, Return
<1>1. InDatabase' = InDatabase /\ \A d : InDb(d)' = InDb(d)
  BY <1>0, SameDatabase
<1>2. Types'
  <2>1. Halved \subseteq Days
    BY DEF Halved
  <2> QED
    BY <1>0, <1>1, <2>1 DEF AggIInv, Types, Counting
<1>3. AnalysisType'
  <2>1. CASE UNCHANGED analysis
    BY <1>1, <2>1 DEF AggIInv, AnalysisType
  <2>2. ASSUME NEW top \in [Days -> SUBSET Data],
               analysis' = [x \in Data \X Days |->
                     IF x[1] \in top[x[2]]
                     THEN {r \in OfDay(Over, x[2]) : RequestData[r] = x[1]}
                     ELSE analysis[x]]
        PROVE  AnalysisType'
    <3>1. \A d : OfDay(Over, d) \subseteq InDatabase
      BY DEF OfDay, Over, Stats
    <3> QED
      BY <1>1, <2>2, <3>1 DEF AggIInv, AnalysisType
  <2> QED
    BY <2>1, <2>2 DEF InsertAggregateAnalysisStats
<1>4. TotalsWhole'
  BY <1>0, <1>1 DEF AggIInv, DaysOK, TotalsWhole
<1> QED
  BY <1>0, <1>2, <1>3, <1>4, CountingKeeps

\* What is to be rewritten is what is in stats when the days over are counted ...
LEMMA DeletionKeeps ==
    ASSUME AggIInv, DeleteOutdatedStats, IInv'
    PROVE  AggIInv'
<1>0. /\ Counting /\ UNCHANGED <<deleted, userData, analysis, counted, spoiled>> /\ apc = "delete"
      /\ apc' \in {"select", "stopped"}
      /\ mutating' = InDatabase \ deleted \/ mutating' = mutating
  BY DEF DeleteOutdatedStats, Counting, Return, Stats
<1>1. InDatabase' = InDatabase /\ \A d : InDb(d)' = InDb(d)
  BY <1>0, SameDatabase
<1>2. Types' /\ AnalysisType'
  BY <1>0, <1>1 DEF AggIInv, Types, AnalysisType, Counting
<1>3. TotalsWhole' /\ DeletedHandled' /\ LagSpoils' /\ OverHandled'
  BY <1>0, <1>1 DEF AggIInv, DaysOK, TotalsWhole, DeletedHandled, LagSpoils, OverHandled,
     Handled, Counting
<1>4. MutatingHandled'
  <2>1. \A d \in Days : d < today => Handled(d)
    BY <1>0 DEF AggIInv, DaysOK, OverHandled
  <2>2. \A r \in mutating' : timestamp[r] \in Days
    BY <1>0 DEF AggIInv, Types, InDatabase
  <2> QED
    BY <1>0, <2>1, <2>2 DEF MutatingHandled, Handled, Counting
<1> QED
  BY <1>2, <1>3, <1>4 DEF AggIInv, DaysOK

\* ... so that rewriting a part, whenever that is, deletes what was counted.
LEMMA RewriteKeeps ==
    ASSUME AggIInv, Rewrite, IInv'
    PROVE  AggIInv'
<1>1. PICK part \in SUBSET mutating :
         /\ mutating' = mutating \ part
         /\ deleted' = deleted \cup {r \in part : today > timestamp[r]}
  BY DEF Rewrite
<1>2. Counting /\ UNCHANGED <<userData, analysis, apc, counted, spoiled>>
  BY DEF Rewrite, Counting
<1>3. InDatabase' = InDatabase /\ \A d : InDb(d)' = InDb(d)
  BY <1>2, SameDatabase
<1>4. Types' /\ AnalysisType'
  BY <1>1, <1>2, <1>3 DEF AggIInv, Types, AnalysisType, Counting
<1>5. TotalsWhole' /\ MutatingHandled' /\ LagSpoils' /\ OverHandled'
  BY <1>1, <1>2, <1>3 DEF AggIInv, DaysOK, TotalsWhole, MutatingHandled, LagSpoils,
     OverHandled, Handled, Counting
<1>6. DeletedHandled'
  <2>1. ASSUME NEW r \in part, today > timestamp[r]
        PROVE  Handled(timestamp[r])
    <3>1. r \in mutating /\ timestamp[r] \in Days /\ today \in Days /\ MaxDay \in Nat
      BY AggregationAssumption DEF AggIInv, Types, InDatabase
    <3>2. timestamp[r] < today
      BY <2>1, <3>1 DEF Days
    <3> QED
      BY <3>1, <3>2 DEF AggIInv, DaysOK, MutatingHandled
  <2> QED
    BY <1>1, <1>2, <2>1 DEF AggIInv, DaysOK, DeletedHandled, Handled, Counting
<1> QED
  BY <1>4, <1>5, <1>6 DEF AggIInv, DaysOK

--------------------------------------------------------------------------------
LEMMA AggInitIInv ==
    AggInit => AggIInv
<1> SUFFICES ASSUME AggInit
             PROVE  AggIInv
  OBVIOUS
<1>1. IInv
  BY InitIInv DEF AggInit
<1>2. Types /\ AnalysisType
  <2>1. 0 \in Days /\ 1 \in 1 .. 2
    BY AggregationAssumption DEF Days
  <2> QED
    BY <2>1 DEF AggInit, Types, AnalysisType
<1>3. DaysOK
  <2>1. /\ counted = {} /\ deleted = {} /\ mutating = {} /\ today = 0 /\ utcToday = 0
        /\ apc \notin {"analysis", "delete"}
    BY DEF AggInit
  <2>2. TotalsWhole /\ DeletedHandled /\ MutatingHandled /\ OverHandled
    BY <2>1 DEF TotalsWhole, DeletedHandled, MutatingHandled, OverHandled
  <2>3. LagSpoils
    BY <2>1 DEF LagSpoils
  <2> QED
    BY <2>2, <2>3 DEF DaysOK
<1> QED
  BY <1>1, <1>2, <1>3 DEF AggIInv

LEMMA AggNextIInv ==
    AggIInv /\ [AggNext]_allVars => AggIInv'
<1> SUFFICES ASSUME AggIInv, [AggNext]_allVars
             PROVE  AggIInv'
  OBVIOUS
<1>0. IInv' /\ InDatabase \subseteq InDatabase'
  BY CollectorGoesOn DEF AggIInv
<1>1. CASE Midnight \/ MidnightInUTC
  BY <1>0, <1>1, ClockKeeps
<1>2. ASSUME NEW r \in Records, AddRecord(r)
      PROVE  AggIInv'
  BY <1>0, <1>2, AddKeeps
<1>3. CASE CollectorStep \/ ProcessExits
  <2>1. Arrivals /\ UNCHANGED runs
    BY <1>3 DEF CollectorStep, FlushStep, InsertStep, CancelStep, Beside,
     ProcessExits, Arrivals
  <2> QED
    BY <1>0, <2>1, ArrivalsKeep
<1>4. CASE NextProcess \/ Wake \/ UNCHANGED allVars
  <2>1. /\ UNCHANGED <<vars, clockVars, timestamp, tableVars, counted, spoiled>>
        /\ runs' = runs \/ runs' = 2
        /\ apc' = apc \/ apc' = "user data"
    BY <1>4 DEF NextProcess, Wake, allVars, aggVars, AggIInv, Types
  <2>2. InDatabase' = InDatabase /\ \A d : InDb(d)' = InDb(d)
    BY <2>1 DEF vars, InDatabase, InDb, OfDay
  <2>3. Types' /\ AnalysisType'
    <3>1. runs' \in 1 .. 2
      <4>1. runs \in 1 .. 2
        BY DEF AggIInv, Types
      <4>2. runs' = runs \/ runs' = 2
        BY <2>1
      <4> QED
        BY <4>1, <4>2
    <3> QED
      BY <2>1, <2>2, <3>1 DEF AggIInv, Types, AnalysisType
  <2>4. DaysOK'
    BY <2>1, <2>2 DEF AggIInv, DaysOK, TotalsWhole, DeletedHandled, MutatingHandled,
       OverHandled, LagSpoils, Handled
  <2> QED
    BY <1>0, <2>1, <2>3, <2>4 DEF AggIInv
<1>5. CASE InsertAggregateUserData
  BY <1>0, <1>5, UserDataKeeps
<1>6. CASE InsertAggregateAnalysisStats
  BY <1>0, <1>6, AnalysisKeeps
<1>7. CASE DeleteOutdatedStats
  BY <1>0, <1>7, DeletionKeeps
<1>8. CASE Rewrite
  BY <1>0, <1>8, RewriteKeeps
<1> QED
  BY <1>1, <1>2, <1>3, <1>4, <1>5, <1>6, <1>7, <1>8 DEF AggNext, AggregatorStep

LEMMA AggInvariant ==
    AggSpec => []AggIInv
  BY AggInitIInv, AggNextIInv, PTL DEF AggSpec

\* The tables hold what was in stats, a total counts records that are or were
\* there, and the two dates are at most a day apart (delayed_insertion.go:55-125).
THEOREM AggregationTypeCorrect ==
    AggSpec => []AggTypeOK
<1>1. AggIInv => AggTypeOK
  BY DEF AggIInv, IInv, Types, AnalysisType, AggTypeOK, Stats
<1> QED
  BY <1>1, AggInvariant, PTL

\* Every record is in one place before the database also while the aggregator
\* counts and deletes there (delayed_insertion.go:127-162).
THEOREM AggregationKeepsRecords ==
    AggSpec => []Accounted
<1>1. AggIInv => Accounted
  BY DEF AggIInv, IInv
<1> QED
  BY <1>1, AggInvariant, PTL

\* No record is deleted before its user's total has it, and no later count replaces
\* that total by a lesser one, unless a record of its day came after the counting, the
\* day ended before the deletion was carried out, or in one time zone only, or it was
\* counted while half deleted (delayed_insertion.go:110-125, stats.go:93-104).
THEOREM DeletedIsCounted ==
    AggSpec => []CountedBeforeDeleted
<1>1. AggIInv => CountedBeforeDeleted
  BY DEF AggIInv, Types, DaysOK, TotalsWhole, DeletedHandled, Handled, CountedBeforeDeleted,
     InDatabase, InDb, OfDay
<1> QED
  BY <1>1, AggInvariant, PTL

--------------------------------------------------------------------------------
(***************************************************************************)
(* What the analysis keeps.  A day may be counted several times before it  *)
(* is deleted, each time with other rows among equals at the limit, so that*)
(* more than MaxTop rows may be kept.  What is always true of a day that   *)
(* is not spoiled is that each row it has is a whole group and no smaller  *)
(* than a group without a row (Ranked); once counted it has MaxTop rows or *)
(* one for each group (Filled).                                            *)
(***************************************************************************)
Group(d, x) == {r \in InDb(d) : RequestData[r] = x}
KeptData(d) == {x \in Data : Kept(x, d)}

Ranked(d) ==
    \A x \in KeptData(d) :
        /\ analysis[<<x, d>>] = Group(d, x)
        /\ \A y \in Data \ KeptData(d) : Cardinality(Group(d, x)) >= Cardinality(Group(d, y))
Filled(d) ==
    \/ Cardinality(KeptData(d)) >= MaxTop
    \/ \A x \in Data : Group(d, x) # {} => x \in KeptData(d)

TopRows ==
    /\ \A d \in Days \ spoiled : Ranked(d) /\ (KeptData(d) # {} => d \in counted)
    /\ apc = "delete" => \A d \in Days \ spoiled : d < today => Filled(d)
    /\ \A r \in deleted : timestamp[r] \notin spoiled => Filled(timestamp[r])
    /\ \A r \in mutating : timestamp[r] < today /\ timestamp[r] \notin spoiled =>
            Filled(timestamp[r])

TopInv == IsFiniteSet(added) /\ TopRows

\* The groups of a day are finite, since finitely many records have been added.
LEMMA GroupsFinite ==
    ASSUME AggIInv, IsFiniteSet(added), NEW d
    PROVE  /\ \A x : IsFiniteSet(Group(d, x)) /\ Cardinality(Group(d, x)) \in Nat
           /\ IsFiniteSet({x \in Data : Group(d, x) # {}})
<1>1. InDatabase \subseteq added
  BY DEF AggIInv, IInv, Accounted
<1>2. IsFiniteSet(InDb(d))
  <2>1. InDb(d) \in SUBSET added
    BY <1>1 DEF InDb, OfDay
  <2> QED
    BY <2>1, FS_Subset
<1>3. ASSUME NEW x
      PROVE  IsFiniteSet(Group(d, x)) /\ Cardinality(Group(d, x)) \in Nat
  <2>1. Group(d, x) \subseteq InDb(d)
    BY DEF Group
  <2> QED
    BY <1>2, <2>1, FS_Subset, FS_CardinalityType
<1>4. IsFiniteSet({x \in Data : Group(d, x) # {}})
  <2> DEFINE f == [r \in InDb(d) |-> RequestData[r]]
             Gs == {x \in Data : Group(d, x) # {}}
  <2>1. f \in Surjection(InDb(d), Gs)
    <3>1. \A r \in InDb(d) : f[r] \in Gs
      <4>1. InDb(d) \subseteq Records
        BY DEF InDb, OfDay, InDatabase
      <4> QED
        BY <4>1 DEF Group, Data
    <3>2. \A x \in Gs : \E r \in InDb(d) : f[r] = x
      BY DEF Group
    <3> QED
      BY <3>1, <3>2 DEF Surjection
  <2> QED
    BY <1>2, <2>1, FS_Surjection
<1> QED
  BY <1>3, <1>4

\* Only the analysis and the records in the database tell what is kept of a day.
LEMMA SameDay ==
    ASSUME NEW d, InDb(d)' = InDb(d), UNCHANGED analysis
    PROVE  /\ KeptData(d)' = KeptData(d) /\ Ranked(d)' = Ranked(d) /\ Filled(d)' = Filled(d)
<1>1. KeptData(d)' = KeptData(d)
  BY DEF KeptData, Kept
<1>2. \A x : Group(d, x)' = Group(d, x)
  BY DEF Group
<1> QED
  BY <1>1, <1>2 DEF Ranked, Filled

\* Records that arrive spoil the days that were counted, and no others have rows.
LEMMA ArrivalsKeepTop ==
    ASSUME AggIInv, TopRows, Arrivals, InDatabase \subseteq InDatabase', IInv'
    PROVE  TopRows'
<1>1. /\ spoiled' = spoiled \cup ({timestamp[r] : r \in Arriving} \cap counted)
      /\ UNCHANGED <<today, timestamp, mutating, deleted, analysis, counted>>
      /\ apc' = "delete" => apc = "delete"
  BY DEF Arrivals, NoteArrivals
<1>2. \A r \in InDatabase' \ InDatabase : r \in Records /\ r \in Arriving
  <2>1. copies \in [Records -> Nat] /\ copies' \in [Records -> Nat]
    BY DEF AggIInv, IInv, TypeOK
  <2> QED
    BY <2>1 DEF InDatabase, Arriving
<1>3. \A d \in counted \ spoiled' : InDb(d)' = InDb(d)
  BY <1>1, <1>2 DEF InDb, OfDay
<1>4. \A d : KeptData(d)' = KeptData(d)
  BY <1>1 DEF KeptData, Kept
<1>5. ASSUME NEW d \in Days \ spoiled'
      PROVE  Ranked(d)' /\ (KeptData(d)' # {} => d \in counted')
  <2>1. Ranked(d) /\ (KeptData(d) # {} => d \in counted)
    BY <1>1 DEF TopRows
  <2>2. CASE d \in counted
    BY <1>1, <1>3, <2>1, <2>2, SameDay
  <2>3. CASE KeptData(d) = {}
    BY <1>4, <2>3 DEF Ranked
  <2> QED
    BY <1>1, <1>4, <2>1, <2>2, <2>3
<1>6. ASSUME NEW d, Handled(d), d \notin spoiled', Filled(d)
      PROVE  Filled(d)'
  BY <1>1, <1>3, <1>6, SameDay DEF Handled
<1>7. apc' = "delete" => \A d \in Days \ spoiled' : d < today => Filled(d)'
  BY <1>1, <1>6 DEF AggIInv, DaysOK, OverHandled, TopRows
<1>8. ASSUME NEW r \in deleted, timestamp[r] \notin spoiled', NEW d, d = timestamp[r]
      PROVE  Filled(d)'
  BY <1>1, <1>6, <1>8 DEF AggIInv, DaysOK, DeletedHandled, TopRows
<1>9. ASSUME NEW r \in mutating, timestamp[r] < today, timestamp[r] \notin spoiled',
             NEW d, d = timestamp[r]
      PROVE  Filled(d)'
  BY <1>1, <1>6, <1>9 DEF AggIInv, DaysOK, MutatingHandled, TopRows
<1> QED
  BY <1>1, <1>5, <1>7, <1>8, <1>9 DEF TopRows

\* A record that is added is not in the database yet.
LEMMA AddKeepsTop ==
    ASSUME AggIInv, TopRows, NEW x \in Records, AddRecord(x)
    PROVE  TopRows'
<1>1. /\ timestamp' = [timestamp EXCEPT ![x] = today] /\ UNCHANGED copies
      /\ UNCHANGED <<clockVars, tableVars, apc, counted, spoiled>>
      /\ x \notin added
  BY DEF AddRecord, Add
<1>2. InDatabase' = InDatabase /\ x \notin InDatabase
  BY <1>1 DEF InDatabase, AggIInv, IInv, Accounted
<1>3. \A r \in InDatabase : timestamp'[r] = timestamp[r]
  BY <1>1, <1>2 DEF AggIInv, Types, InDatabase
<1>4. \A d : InDb(d)' = InDb(d)
  BY <1>2, <1>3 DEF InDb, OfDay
<1>5. \A d : KeptData(d)' = KeptData(d) /\ Ranked(d)' = Ranked(d) /\ Filled(d)' = Filled(d)
  BY <1>1, <1>4, SameDay
<1>6. \A r \in deleted \cup mutating : timestamp'[r] = timestamp[r]
  BY <1>3 DEF AggIInv, Types
<1> QED
  BY <1>1, <1>5, <1>6 DEF TopRows

\* A day that ends before what was counted of it is rewritten is spoiled.
LEMMA ClockKeepsTop ==
    ASSUME AggIInv, TopRows, Midnight \/ MidnightInUTC
    PROVE  TopRows'
<1>0. MaxDay \in Nat /\ UNCHANGED <<vars, timestamp, tableVars, apc, counted>>
  BY AggregationAssumption DEF Midnight, MidnightInUTC
<1>1. \A d : InDb(d)' = InDb(d)
  BY <1>0 DEF vars, InDatabase, InDb, OfDay
<1>2. \A d : KeptData(d)' = KeptData(d) /\ Ranked(d)' = Ranked(d) /\ Filled(d)' = Filled(d)
  BY <1>0, <1>1, SameDay
<1>3. CASE MidnightInUTC
  BY <1>0, <1>2, <1>3 DEF MidnightInUTC, TopRows
<1>4. CASE Midnight
  <2>1. /\ today' = today + 1 /\ spoiled \subseteq spoiled'
        /\ apc = "delete" => today \in spoiled'
        /\ \A r \in mutating : timestamp[r] = today => today \in spoiled'
    BY <1>4 DEF Midnight, OfDay
  <2>2. \A d \in Days : d < today' => d < today \/ d = today
    <3>1. today \in Days
      BY DEF AggIInv, Types
    <3> QED
      BY <1>0, <2>1, <3>1 DEF Days
  <2>3. \A r \in mutating : timestamp[r] \in Days
    BY DEF AggIInv, Types, InDatabase
  <2>4. apc = "delete" => \A d \in Days \ spoiled' : d < today' => Filled(d)
    BY <2>1, <2>2 DEF TopRows
  <2>5. \A r \in mutating : timestamp[r] < today' /\ timestamp[r] \notin spoiled' =>
            Filled(timestamp[r])
    BY <2>1, <2>2, <2>3 DEF TopRows
  <2>6. \A d \in Days \ spoiled' : Ranked(d) /\ (KeptData(d) # {} => d \in counted)
    BY <2>1 DEF TopRows
  <2>7. \A r \in deleted : timestamp[r] \notin spoiled' => Filled(timestamp[r])
    BY <2>1 DEF TopRows
  <2> QED
    BY <1>0, <1>2, <2>4, <2>5, <2>6, <2>7 DEF TopRows
<1> QED
  BY <1>3, <1>4

\* The rows of a day after it was counted: the old ones and the top ones.
LEMMA CountedDay ==
    ASSUME AggIInv, TopRows, IsFiniteSet(added), NEW d \in Days \ (spoiled \cup Halved),
           NEW top \in SUBSET Data, IsTop(top, d), InDb(d)' = InDb(d),
           \A x \in Data : analysis'[<<x, d>>] =
                IF x \in top THEN {r \in OfDay(Over, d) : RequestData[r] = x}
                             ELSE analysis[<<x, d>>]
    PROVE  /\ Ranked(d)' /\ (d < utcToday => Filled(d)' \/ InDb(d) \cap deleted # {})
           /\ KeptData(d)' # {} => KeptData(d) # {} \/ d < utcToday
           /\ Filled(d) => Filled(d)'
<1>0. Ranked(d)
  BY DEF TopRows
<1>1. \A x : Group(d, x)' = Group(d, x)
  BY DEF Group
<1>2. top \subseteq Asked(d) /\ Cardinality(top) = Limit(d)
      /\ \A x \in top, y \in Asked(d) \ top : Count(d, x) >= Count(d, y)
  BY DEF IsTop
<1>3. CASE OfDay(Over, d) = {}
  <2>1. Asked(d) = {}
    <3>1. \A x : {r \in OfDay(Over, d) : RequestData[r] = x} = {}
      BY <1>3
    <3>2. \A x : Count(d, x) = 0
      BY <3>1, FS_EmptySet DEF Count
    <3> QED
      BY <3>2 DEF Asked
  <2>2. top = {} /\ \A x \in Data : analysis'[<<x, d>>] = analysis[<<x, d>>]
    BY <1>2, <2>1
  <2>3. KeptData(d)' = KeptData(d)
    BY <2>2 DEF KeptData, Kept
  <2>4. Ranked(d)' /\ (Filled(d) => Filled(d)')
    BY <1>0, <1>1, <2>2, <2>3 DEF Ranked, Filled, KeptData
  <2>5. ASSUME d < utcToday, InDb(d) \cap deleted = {}
        PROVE  Filled(d)'
    <3>1. InDb(d) = {}
      BY <1>3, <2>5 DEF OfDay, Over, Stats, InDb
    <3>2. \A x : Group(d, x) = {}
      BY <3>1 DEF Group
    <3> QED
      BY <1>1, <3>2 DEF Filled
  <2> QED
    BY <2>3, <2>4, <2>5
<1>4. CASE OfDay(Over, d) = InDb(d) /\ d < utcToday
  <2>1. /\ \A x : IsFiniteSet(Group(d, x)) /\ Cardinality(Group(d, x)) \in Nat
        /\ IsFiniteSet({x \in Data : Group(d, x) # {}})
    BY GroupsFinite
  <2>2. \A x : Count(d, x) = Cardinality(Group(d, x))
    BY <1>4 DEF Count, Group
  <2>3. \A x : Cardinality(Group(d, x)) > 0 <=> Group(d, x) # {}
    BY <2>1, FS_EmptySet
  <2>4. Asked(d) = {x \in Data : Group(d, x) # {}}
    BY <2>2, <2>3 DEF Asked
  <2>5. \A x \in Data : analysis'[<<x, d>>] = IF x \in top THEN Group(d, x) ELSE analysis[<<x, d>>]
    BY <1>4 DEF Group
  <2>6. KeptData(d)' = KeptData(d) \cup top
    BY <1>2, <2>4, <2>5 DEF KeptData, Kept
  <2>7. ASSUME NEW x \in KeptData(d)'
        PROVE  /\ analysis'[<<x, d>>] = Group(d, x)
               /\ \A y \in Data \ KeptData(d)' : Cardinality(Group(d, x)) >= Cardinality(Group(d, y))
    <3>1. CASE x \in top
      <4>1. analysis'[<<x, d>>] = Group(d, x)
        BY <2>5, <3>1
      <4>2. ASSUME NEW y \in Data \ KeptData(d)'
            PROVE  Cardinality(Group(d, x)) >= Cardinality(Group(d, y))
        <5>1. CASE y \in Asked(d)
          BY <1>2, <2>2, <2>6, <3>1, <4>2, <5>1
        <5>2. CASE y \notin Asked(d)
          BY <2>1, <2>3, <2>4, <5>2
        <5> QED
          BY <5>1, <5>2
      <4> QED
        BY <4>1, <4>2
    <3>2. CASE x \in KeptData(d) \ top
      BY <1>0, <2>5, <2>6, <3>2 DEF Ranked, KeptData
    <3> QED
      BY <2>6, <2>7, <3>1, <3>2
  <2>8. Ranked(d)'
    BY <1>1, <2>7 DEF Ranked
  <2>9. Filled(d)'
    <3>1. IsFiniteSet(Asked(d)) /\ Cardinality(Asked(d)) \in Nat /\ MaxTop \in Nat
      BY <2>1, <2>4, FS_CardinalityType, AggregationAssumption
    <3>2. CASE Cardinality(Asked(d)) < MaxTop
      <4>1. top = Asked(d)
        BY <1>2, <3>1, <3>2, FS_Subset DEF Limit
      <4> QED
        BY <1>1, <2>4, <2>6, <4>1 DEF Filled
    <3>3. CASE ~(Cardinality(Asked(d)) < MaxTop)
      <4>1. Cardinality(top) = MaxTop
        BY <1>2, <3>3 DEF Limit
      <4>2. KeptData(d)' \subseteq Asked(d)
        <5>1. \A x \in KeptData(d) : analysis[<<x, d>>] = Group(d, x) /\ analysis[<<x, d>>] # {}
          BY <1>0 DEF Ranked, KeptData, Kept
        <5> QED
          BY <1>2, <2>4, <2>6, <5>1 DEF KeptData
      <4>3. IsFiniteSet(KeptData(d)')
        BY <3>1, <4>2, FS_Subset
      <4>4. Cardinality(top) <= Cardinality(KeptData(d)')
        BY <2>6, <4>3, FS_Subset
      <4> QED
        BY <3>1, <4>1, <4>4 DEF Filled
    <3> QED
      BY <3>2, <3>3
  <2> QED
    BY <1>4, <2>8, <2>9
<1> QED
  BY <1>3, <1>4, DaysAreWhole

LEMMA AnalysisKeepsTop ==
    ASSUME AggIInv, TopRows, IsFiniteSet(added), InsertAggregateAnalysisStats
    PROVE  TopRows'
<1>0. /\ Counting /\ UNCHANGED <<mutating, deleted, counted>> /\ apc = "analysis"
  BY DEF InsertAggregateAnalysisStats, Counting
<1>1. \A d : InDb(d)' = InDb(d)
  BY <1>0, SameDatabase
<1>2. CASE UNCHANGED <<analysis, spoiled>> /\ apc' # "delete"
  BY <1>0, <1>1, <1>2, SameDay DEF TopRows, Counting
<1>3. ASSUME NEW top \in [Days -> SUBSET Data],
             \A d \in Days : IsTop(top[d], d),
             analysis' = [x \in Data \X Days |->
                     IF x[1] \in top[x[2]]
                     THEN {r \in OfDay(Over, x[2]) : RequestData[r] = x[1]}
                     ELSE analysis[x]],
             spoiled' = spoiled \cup Halved
      PROVE  TopRows'
  <2>1. ASSUME NEW d \in Days \ spoiled'
        PROVE  /\ Ranked(d)' /\ (d < utcToday => Filled(d)' \/ InDb(d) \cap deleted # {})
               /\ KeptData(d)' # {} => KeptData(d) # {} \/ d < utcToday
               /\ Filled(d) => Filled(d)'
    <3>1. \A x \in Data : analysis'[<<x, d>>] =
                IF x \in top[d] THEN {r \in OfDay(Over, d) : RequestData[r] = x}
                                ELSE analysis[<<x, d>>]
      BY <1>3
    <3>2. top[d] \in SUBSET Data /\ IsTop(top[d], d)
      BY <1>3
    <3>3. d \in Days \ (spoiled \cup Halved)
      BY <1>3
    <3> QED
      BY <1>1, <3>1, <3>2, <3>3, CountedDay
  <2>2. /\ today \in Days /\ utcToday \in Days /\ MaxDay \in Nat
        /\ today = utcToday \/ today = utcToday + 1
        /\ utcToday < today => utcToday \in spoiled
    BY AggregationAssumption DEF AggIInv, Types, DaysOK, LagSpoils
  <2>3. ASSUME NEW d \in Days \ spoiled'
        PROVE  /\ d \notin spoiled
               /\ d < utcToday <=> d < today
    BY <1>3, <2>2 DEF Days
  <2>4. ASSUME NEW d \in Days \ spoiled'
        PROVE  Ranked(d)' /\ (KeptData(d)' # {} => d \in counted)
    <3>1. d < utcToday => d \in counted
      BY <1>0, <2>3 DEF AggIInv, DaysOK, OverHandled, Handled
    <3>2. KeptData(d) # {} => d \in counted
      BY <2>3 DEF TopRows
    <3> QED
      BY <2>1, <3>1, <3>2
  <2>5. \A r \in deleted \cup mutating : timestamp[r] \in Days
    BY DEF AggIInv, Types, InDatabase
  <2>6. ASSUME NEW r \in deleted, NEW d, d = timestamp[r], d \notin spoiled'
        PROVE  Filled(d)'
    <3>1. Filled(d)
      BY <2>3, <2>5, <2>6 DEF TopRows
    <3> QED
      BY <2>1, <2>5, <2>6, <3>1
  <2>7. ASSUME NEW r \in mutating, NEW d, d = timestamp[r], d \notin spoiled', d < today
        PROVE  Filled(d)'
    <3>1. Filled(d)
      BY <2>3, <2>5, <2>7 DEF TopRows
    <3> QED
      BY <2>1, <2>5, <2>7, <3>1
  <2>8. ASSUME NEW d \in Days \ spoiled', d < today
        PROVE  Filled(d)'
    <3>1. CASE InDb(d) \cap deleted = {}
      BY <2>1, <2>3, <2>8, <3>1
    <3>2. CASE InDb(d) \cap deleted # {}
      BY <2>6, <2>8, <3>2 DEF InDb, OfDay
    <3> QED
      BY <3>1, <3>2
  <2> QED
    BY <1>0, <2>4, <2>6, <2>7, <2>8 DEF TopRows, Counting
<1> QED
  BY <1>2, <1>3 DEF InsertAggregateAnalysisStats, Fail, Return

\* What is to be rewritten are days that have just been counted ...
LEMMA DeletionKeepsTop ==
    ASSUME AggIInv, TopRows, DeleteOutdatedStats
    PROVE  TopRows'
<1>0. /\ Counting /\ UNCHANGED <<deleted, userData, analysis, counted, spoiled>> /\ apc = "delete"
      /\ apc' \in {"select", "stopped"}
      /\ mutating' = InDatabase \ deleted \/ mutating' = mutating
  BY DEF DeleteOutdatedStats, Counting, Return, Stats
<1>1. \A d : KeptData(d)' = KeptData(d) /\ Ranked(d)' = Ranked(d) /\ Filled(d)' = Filled(d)
  BY <1>0, SameDatabase, SameDay
<1>2. \A d \in Days \ spoiled : d < today => Filled(d)
  BY <1>0 DEF TopRows
<1>3. \A r \in mutating' : timestamp[r] \in Days
  BY <1>0 DEF AggIInv, Types, InDatabase
<1> QED
  BY <1>0, <1>1, <1>2, <1>3 DEF TopRows, Counting

\* ... and stay so until they are rewritten.
LEMMA RewriteKeepsTop ==
    ASSUME AggIInv, TopRows, Rewrite
    PROVE  TopRows'
<1>1. PICK part \in SUBSET mutating :
         /\ mutating' = mutating \ part
         /\ deleted' = deleted \cup {r \in part : today > timestamp[r]}
  BY DEF Rewrite
<1>2. Counting /\ UNCHANGED <<userData, analysis, apc, counted, spoiled>>
  BY DEF Rewrite, Counting
<1>3. \A d : KeptData(d)' = KeptData(d) /\ Ranked(d)' = Ranked(d) /\ Filled(d)' = Filled(d)
  BY <1>2, SameDatabase, SameDay
<1>4. ASSUME NEW r \in part, today > timestamp[r], timestamp[r] \notin spoiled
      PROVE  Filled(timestamp[r])
  <2>1. r \in mutating /\ timestamp[r] \in Days /\ today \in Days /\ MaxDay \in Nat
    BY AggregationAssumption DEF AggIInv, Types, InDatabase
  <2>2. timestamp[r] < today
    BY <1>4, <2>1 DEF Days
  <2> QED
    BY <1>4, <2>1, <2>2 DEF TopRows
<1>5. \A r \in deleted' : timestamp[r] \notin spoiled => Filled(timestamp[r])
  BY <1>1, <1>4 DEF TopRows
<1> QED
  BY <1>1, <1>2, <1>3, <1>5 DEF TopRows, Counting

\* Only Add adds a record, one at a time.
LEMMA AddedFinite ==
    ASSUME [AggNext]_allVars, IsFiniteSet(added)
    PROVE  IsFiniteSet(added')
<1>1. CASE UNCHANGED added
  BY <1>1
<1>2. ASSUME NEW r \in Records, AddRecord(r)
      PROVE  IsFiniteSet(added')
  <2>1. added' = added \cup {r}
    BY <1>2 DEF AddRecord, Add
  <2> QED
    BY <2>1, FS_AddElement
<1> QED
  BY <1>1, <1>2 DEF AggNext, allVars, vars, CollectorStep, FlushStep, InsertStep, CancelStep,
     ProcessExits, NextProcess, FlushOnTimer, FlushOnDone, InsertSucceeds, InsertFails, Cancel, Exit, GetCachedEntries,
     Midnight, MidnightInUTC, AggregatorStep, Wake, InsertAggregateUserData,
     InsertAggregateAnalysisStats, DeleteOutdatedStats, Rewrite

LEMMA AggNextTop ==
    ASSUME AggIInv, TopInv, [AggNext]_allVars
    PROVE  TopInv'
<1>1. IsFiniteSet(added)' /\ IsFiniteSet(added)
  BY AddedFinite DEF TopInv
<1>3. SUFFICES TopRows'
  BY <1>1 DEF TopInv
<1>4. TopRows
  BY DEF TopInv
<1>5. IInv' /\ InDatabase \subseteq InDatabase'
  BY CollectorGoesOn DEF AggIInv
<1>6. CASE Midnight \/ MidnightInUTC
  BY <1>4, <1>6, ClockKeepsTop
<1>7. ASSUME NEW r \in Records, AddRecord(r)
      PROVE  TopRows'
  BY <1>4, <1>7, AddKeepsTop
<1>8. CASE CollectorStep \/ ProcessExits
  <2>1. Arrivals
    BY <1>8 DEF CollectorStep, FlushStep, InsertStep, CancelStep, Beside,
     ProcessExits, Arrivals
  <2> QED
    BY <1>4, <1>5, <2>1, ArrivalsKeepTop
<1>9. CASE NextProcess \/ Wake \/ InsertAggregateUserData \/ UNCHANGED allVars
  <2>1. /\ UNCHANGED <<vars, timestamp, today, mutating, deleted, analysis>>
        /\ counted \subseteq counted' /\ spoiled \subseteq spoiled' /\ (apc' = "delete" => apc = "delete")
    BY <1>9 DEF NextProcess, Wake, InsertAggregateUserData, Fail, Return, allVars, aggVars
  <2>2. \A d : InDb(d)' = InDb(d)
    BY <2>1 DEF vars, InDatabase, InDb, OfDay
  <2>3. \A d : KeptData(d)' = KeptData(d) /\ Ranked(d)' = Ranked(d) /\ Filled(d)' = Filled(d)
    BY <2>1, <2>2, SameDay
  <2> QED
    BY <1>4, <2>1, <2>3 DEF TopRows
<1>10. CASE InsertAggregateAnalysisStats
  BY <1>1, <1>4, <1>10, AnalysisKeepsTop
<1>11. CASE DeleteOutdatedStats
  BY <1>4, <1>11, DeletionKeepsTop
<1>12. CASE Rewrite
  BY <1>4, <1>12, RewriteKeepsTop
<1> QED
  BY <1>6, <1>7, <1>8, <1>9, <1>10, <1>11, <1>12 DEF AggNext, AggregatorStep

LEMMA AggInitTop ==
    AggInit => TopInv
<1> SUFFICES ASSUME AggInit
             PROVE  TopInv
  OBVIOUS
<1>1. IsFiniteSet(added)
  BY FS_EmptySet DEF AggInit, Init
<1>2. \A d \in Days : KeptData(d) = {}
  BY DEF AggInit, KeptData, Kept
<1>3. deleted = {} /\ mutating = {} /\ apc # "delete"
  BY DEF AggInit
<1> QED
  BY <1>1, <1>2, <1>3 DEF TopInv, TopRows, Ranked

\* Of a day that was deleted, or some of it, the analysis has what was asked for most,
\* whatever statement failed, however often the day was counted and whenever its parts
\* were rewritten, with the same exceptions (aggregated_stats.go:8-19, delayed_insertion.go:110-125).
THEOREM MostAskedIsKept ==
    AggSpec => []TopRequestsKept
<1>1. AggInit => TopInv
  BY AggInitTop
<1>2. AggIInv /\ TopInv /\ [AggNext]_allVars => TopInv'
  BY AggNextTop
<1>3. AggIInv /\ TopInv => TopRequestsKept
  <2> SUFFICES ASSUME AggIInv, TopInv
               PROVE  TopRequestsKept
    OBVIOUS
  <2>1. ASSUME NEW r \in deleted, NEW d, d = timestamp[r], d \notin spoiled
        PROVE  /\ \A x : Group(d, x) = {s \in OfDay(InDatabase, d) : RequestData[s] = x}
               /\ \/ analysis[<<RequestData[r], d>>] = Group(d, RequestData[r])
                  \/ /\ Cardinality({x \in Data : Kept(x, d)}) >= MaxTop
                     /\ \A x \in Data : Kept(x, d) =>
                          Cardinality(Group(d, x)) >= Cardinality(Group(d, RequestData[r]))
    <3>1. d \in Days \ spoiled /\ r \in InDb(d) /\ RequestData[r] \in Data
      BY <2>1 DEF AggIInv, Types, InDatabase, InDb, OfDay, Data
    <3>2. \A x : Group(d, x) = {s \in OfDay(InDatabase, d) : RequestData[s] = x}
      BY DEF Group, InDb
    <3>3. Ranked(d) /\ Filled(d)
      BY <2>1, <3>1 DEF TopInv, TopRows
    <3>4. KeptData(d) = {x \in Data : Kept(x, d)}
      BY DEF KeptData
    <3>5. r \in Group(d, RequestData[r])
      BY <3>1 DEF Group
    <3>6. CASE RequestData[r] \in KeptData(d)
      BY <3>2, <3>3, <3>6 DEF Ranked
    <3>7. CASE RequestData[r] \notin KeptData(d)
      <4>1. Cardinality(KeptData(d)) >= MaxTop
        BY <3>1, <3>3, <3>5, <3>7 DEF Filled
      <4>2. \A x \in KeptData(d) :
               Cardinality(Group(d, x)) >= Cardinality(Group(d, RequestData[r]))
        BY <3>1, <3>3, <3>7 DEF Ranked
      <4> QED
        BY <3>2, <3>4, <4>1, <4>2
    <3> QED
      BY <3>6, <3>7
  <2>2. ASSUME NEW r \in deleted, timestamp[r] \notin spoiled
        PROVE  LET d == timestamp[r]
                   Asking(x) == {s \in OfDay(InDatabase, d) : RequestData[s] = x}
               IN  \/ analysis[<<RequestData[r], d>>] = Asking(RequestData[r])
                   \/ /\ Cardinality({x \in Data : Kept(x, d)}) >= MaxTop
                      /\ \A x \in Data : Kept(x, d) =>
                           Cardinality(Asking(x)) >= Cardinality(Asking(RequestData[r]))
    <3> DEFINE d == timestamp[r]
    <3>1. /\ \A x : Group(d, x) = {s \in OfDay(InDatabase, d) : RequestData[s] = x}
          /\ \/ analysis[<<RequestData[r], d>>] = Group(d, RequestData[r])
             \/ /\ Cardinality({x \in Data : Kept(x, d)}) >= MaxTop
                /\ \A x \in Data : Kept(x, d) =>
                     Cardinality(Group(d, x)) >= Cardinality(Group(d, RequestData[r]))
      BY <2>1, <2>2
    <3> QED
      BY <3>1
  <2> QED
    BY <2>2 DEF TopRequestsKept
<1> QED
  BY <1>1, <1>2, <1>3, AggInvariant, PTL DEF AggSpec

--------------------------------------------------------------------------------
\* The aggregator works beside the collector without touching it: the composition
\* implements the collector's specification ...
THEOREM AggregationImplementsCollector ==
    AggSpec => Spec
<1>1. AggInit => Init
  BY DEF AggInit
<1> QED
  BY <1>1, CollectorStepOrNone, PTL DEF AggSpec, Spec

\* ... and with it what the delayed insertion promises, although the aggregator
\* deletes from the table it fills, days begin and a second process aggregates
\* (delayed_insertion.go:55-162).
THEOREM AggregationImplementsDelivery ==
    AggSpec => Implements
BY AggregationImplementsCollector, CollectorImplementsDelivery, PTL
================================================================================
