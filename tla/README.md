# A TLA+ model of extrnode

extrnode keeps a list of public Solana rpc nodes and balances rpc requests over
them.  Four processes share a SQLite file (the nodes and what they support), a
ClickHouse database (records of requests and scans) and a Postgres database
(users):

| process | code | what it does |
|---|---|---|
| `proxy` | `internal/proxy` | sends each rpc request to a node that supports its methods, tries another one after a failure, falls back on failover targets |
| `scanner` | `internal/scanner` | asks every known node what it supports, discovers new nodes, scans ports, marks nodes that lag behind |
| `scanner_api` | `internal/scanner_api` | read-only HTTP views of the scanner's results |
| `user_api` | `internal/user_api` | users and their api tokens in Postgres, and a page with the api's documentation |

The program is written in Go; the only JavaScript is the Swagger UI that the
`user_api` embeds and serves.

This directory models the parts of it that carry state and run concurrently,
checks the models with TLC on small instances, and proves the most important
properties with TLAPS for every value of the constants.

## Inventory

**Target statistics** (`proxyTarget` in `proxy/middlewares/transport.go`).
State: counters of requests, errors and successes, a jail time, a time window.
Operations: `UpdateStats`, under the target's lock, and `isAvailable`, without
it.  Hard: the check and the count are separate steps of several goroutines;
integer division of the limit.  Correct if a limit bounds what is sent and a
jailed target rests.  → `ProxyTarget`

**Target list** (`ProxyTransport.targets`, `i`).  State: a slice, the rotation
index, a mutex.  Operations: `UpdateTargets` (every five minutes, from
`updateProxyEndpoints`), `AddTarget`, `RemoveTarget`, the loop of
`getNextTarget`.  Hard: the update ranges over a slice that it shifts in place,
and reads it outside the mutex that its writes take.  Correct if no target is
listed twice, the new ones are listed, the old ones disappear, and a rotation
looks at every target.  → `TargetList`

**Round tripper** (`RoundTrip`, `NextAvailableTarget`).  State: per request an
attempt counter, the target, response and error of the latest attempt, and the
`CustomContext` that the logger, the metrics and the response headers read.
Hard: what an attempt leaves behind is seen after later ones; the client may go
away, the list may change and other requests may move the rotation at any step.
Correct if a request is answered with the best answer it got, is sent where it
can be served, and is reported as it went.  → `ProxyTransport`, which implements
`RequestService`

**Scanner scheduling** (`scanner.go`, `scheduler.go`, `pkg/util/cmd.go`).
State: two unbuffered channels, schedulers and workers, the shared context, a
WaitGroup.  Hard: start and stop race with the tasks that are being handed
over.  Correct if no peer of a round is forgotten and the process stops.
→ `ScanScheduler`

**Solana adapter and SQLite storage** (`scanner/adapters/solana`,
`scanner/scaners/nmap`, `storage/sqlite`).  State: the rows of the peers with
their flags and methods; slot and start time of the present round.  Operations:
`BeforeRun`, `GetNewNodes`, `ScanMethods`, `CheckOutdatedNodes`, the insertion of
peers, `GetEndpoints`.  Hard: several writes per scan without a transaction,
other workers, the check for outdated nodes, inserts and readers between them;
statements that fail; a context that is canceled in the middle; a crash;
unsigned arithmetic on slots.  Correct if readers never get an endpoint without
methods, and the rows are what the latest scan found.  → `ScanStore`

**Delayed insertion** (`storage/clickhouse/delayed_insertion`).  State: a cache
of records and the batch that is being inserted.  Hard: inserts that fail after
they have stored, records added during a flush, the end of the process.
Correct if each record is stored at most once and lost only for a reason.
→ `Collector`, which implements `Delivery`

**Aggregation** (same directory, `storage/clickhouse/stats.go`,
`aggregated_*.go`).  State: the table of requests and two tables of totals.
Operations: an insert into each total and the deletion of the days that are
over, repeated.  Hard: no transaction, each statement reads the clock of its
own, records that arrive late, two time zones.  Correct if nothing is deleted
that has not been counted.  → `Aggregation`, composed with `Collector`

**User api** (`user_api`, `storage/postgres`).  State: the rows of users, a
cache, the pool of connections.  Operation: get-or-create of a user's token.
Hard: the select is made in a transaction and the insert beside it, over a
second connection of the same pool; first requests of one user race.  Correct if
every user keeps one token, no connection is lost and nobody waits for ever.
→ `UserApi`

**Documentation page** (`user_api/swaggerui`).  Scripts that build on each
other, in the order the page names them.  Correct if the page comes up.
→ `DocsPage`, as a part of `UserApi`

**Not modelled**: response analysis, request validator, scanner api, metrics,
logging, configuration, the CORS middleware; see below.

Interactions: the scanner's workers write the SQLite rows from which
`getEndpointsURLs` builds the snapshots of `TargetList`, so that `ScanStore`'s
`Visible` is what a snapshot may hold; `ProxyTransport` EXTENDS `TargetList` and
`ProxyTarget`; the logger middleware of the proxy and the scan workers call
`Collector.Add`; `Aggregation` reads and deletes what the collector has
inserted; `UserApi` serves the files of `DocsPage`; `GracefulStop` cancels the
context that the schedulers, workers, collector and database calls of a process
share.

## Modules

| module | models | proofs in |
|---|---|---|
| `ProxyTarget` | the statistics of one target | `ProxyTransportProofs`, `RequestProofs` |
| `TargetList` | the list of targets, its rotation and its updates | `TargetListProofs` |
| `RequestService` | abstract promise of the round tripper to each client | |
| `ProxyTransport` | the round tripper; EXTENDS the first two, implements the third | `ProxyTransportProofs`, `RequestProofs` |
| `ScanScheduler` | the goroutines of the scanner, start and stop | `ScanSchedulerProofs` |
| `ScanStore` | what the scanner writes, between any two statements | `ScanStoreProofs` |
| `Delivery` | abstract promise of the delayed insertion | |
| `Collector` | the delayed insertion; implements `Delivery` | `CollectorProofs` |
| `Aggregation` | the totals; EXTENDS `Collector` | `AggregationProofs` |
| `UserApi` | tokens of users; EXTENDS `DocsPage` | `UserApiProofs` |
| `DocsPage` | the page with the documentation | |

`MCTargetList`, `MCProxyTransport`, `MCScanScheduler`, `MCScanStore`,
`MCAggregation` and `MCUserApi` define the values of the constants for TLC.

`ProxyTarget` holds operators on one record of statistics.  `UpdateStats(s,
success, now)` is the function of the same name; `IsAvailable` reads a record,
and `TornReads` gives the records a reader without the lock may see while a
writer is at work: each field old or new, and a counter that is being truncated
also zero.

`TargetList` is a specification of its own.  A Go slice is a length and a
backing array, so `length` and `backing` are both variables and `RemoveTarget`
shifts `backing` in place, as `append(targets[:i], targets[i+1:]...)` does;
`RangeKeep`/`RangeRemove` walk over `backing`, which is what the `range` of
`UpdateTargets` does after the list has shrunk.  The read-only scans of the
updating goroutine are atomic with its write: no other goroutine writes the
slice, and the write waits for the mutex.  A target is named by its url and the
update that created it, because one that is removed and added again is a new
object.  Urls that differ in case only are one value (`strings.EqualFold`).
`probed` and `stale` are history variables.

`ProxyTransport` gives each goroutine that serves requests a program counter:

    idle → attempt → primary → sent → stats → update → attempt … → finish → replied
                        ↓        ↑
                     failover → probe failover → replied (503)

`attempt` is the head of the loop of `RoundTrip`, `primary` and `probe failover`
the two rotations, `sent` the http call, `stats`/`update` the two ends of
`UpdateStats`, `finish` the code after the loop.  `ctx` holds the fields of
`CustomContext`.  The seven outcomes of an attempt are those `RoundTrip` and
`decodeNodeResponse` tell apart: a good answer, a user's error, a bad status, a
body that cannot be read, one that cannot be decoded or is empty, an error of
the node with a code, and an error of the transport.

`RequestService` is that request seen from outside: it opens, is tried, is
answered, and closes with a reply, while its client may leave at any moment.
`MayReply` says which reply the latest answer allows: a good answer always
reaches the client; a bad one, or the transport's error, only when every try was
used; 499 only a client that left; 503 only before the tries are used up.
`ProxyTransport!ServesClients` maps to it the places of a goroutine
(`ServiceState`: only the http call is a try, everything else between the arrival
and the reply is open), the outcome of the latest attempt (`AnswerOf`) and the
client's context (`Patience`: whether it is canceled, and whether an attempt has
gone out since).

`ScanScheduler` has the two schedulers and their workers indexed by queue
(`"scan"`, `"nmap"`).  A task passes from scheduler to worker in one step
(`Receive`), because the channels have no buffer.  The difference that matters
is in `SeesDone`: `scheduleNmap` selects on the context and the channel at once,
`scheduleScans` looks at the context and then blocks in the send.  Database
calls fail once the context is canceled, and `log.Fatalf` ends the process;
`Read` lets a query lose any of its rows without an error, as nobody asks
`rows.Err`.  `GracefulStop` is two goroutines: `waiter` blocks in `Wait`, is released
by the `Done` that brings the counter to 0, and closes the channel; `main` selects on
that and the timer, logs, and returns.  `Spawn` may come between any two of these
steps, since `Run` and `RunNmap` are goroutines that nobody counts: it may start a
goroutine that is not waited for, make `Wait` panic (`WaitPanics`), or panic itself
when it meets the last `Done` (`SpawnPanics`).

`ScanStore` has one set of peers for each flag of a row and the set of methods
of each peer.  A worker goes through

    idle → nodes → (insert …) → methods → probe → check … → update → (delete) → idle

with one step for each statement or call to the node.  Every statement may fail
(`WriteFails`, `UpdateFails`, `WriteOutdatedFails`, `InsertFails`), `Cancel` comes at
any time and makes the calls to the node fail, too, and `Restart` is a crash or
a stop and a new process: it forgets everything but the rows.
`last` remembers what the latest whole scan of a peer found, where *whole* means
that no statement of it failed, the context was not canceled, and no other scan
of the same peer overlapped (`lone`).  Slots are numbers modulo `SlotSpace`.

`Collector` has the cache and the batch as sets of records; the mutex makes
`Add` and `getCachedEntries` atomic.  An insert succeeds, fails, or fails after
it has stored.  `Exit` may come at any time, since nobody waits for the
collector's goroutine.  `Delivery` is the abstract promise: a record goes from
new to pending to stored or lost, both final, and is lost only after a fault.

`Aggregation` dates the collector's records.  A total is the set of records it
counts, so that "counted" is membership; replacing a row of a
ReplacingMergeTree is assignment.  The date passes midnight at any moment, in
UTC and in the server's time zone separately.  `DeleteOutdatedStats` only hands
ClickHouse a mutation for the parts there are (`mutating`); `Rewrite` carries it out,
any part of them at any time, also when the process that asked for it has gone, so
that a later count may see half of a day.  `counted` and `spoiled` are histories:
the days whose counting has begun, and those to which one of the four things has
happened that may cost records (below).  `NextProcess` starts the aggregation of the
next process after an exit.

`UserApi` follows one request from `LoadUser`, which may refuse it, let it pass or
never return, over the cache and the transaction (`Serve`) to the answer.  `free` counts the connections of the pool: `Begin`
takes one, `Connect` a second one for the insert.  The insert commits by itself,
so that the row stays when the commit of the transaction fails.

`DocsPage` is the page `index.html` with its three scripts in their order;
`OnLoad` is `window.onload` of `swagger-initializer.js`, which needs what the other
two have defined and then asks for `swagger.json`.  Any fetch may fail.  No property
is stated of the page, as its parts are fixed and everything that can go wrong with
them is a fetch; it takes part in the type invariant of `UserApi`.

Definitions marked `slip` are faulty variants of the definition that follows
them.  No specification uses them; a property is only kept if the variant in
place of the original makes TLC report it.

## Runs

| run | instance | states | what it shows |
|---|---|---|---|
| `TargetList` | 4 urls, 1 request, 3 updates from 4 snapshots (full, two partial and reordered, empty) | 21 thousand | types, `NoDuplicateUrls`, `WantedAreListed`, `UpdateHalvesStale`, `ProbesAll`, `StableWhileHeld` |
| `TransportLimits` | 2 goroutines, 4 requests, 1 failover target limited to 2 a window, 3 windows of 2 s, jail on | 128 thousand | types, `SendsBounded`, `JailHolds` |
| `TransportReplies` | 2 goroutines, 2 requests, 3 attempts, all 7 outcomes, both clients may leave, 1 target limited to 3 a window, 2 windows | 369 thousand | `BadAnswerOnlyWhenExhausted`, `FailureMeansNoGoodAnswer`, `AttemptsByReply`, `CodesOfGoodAnswer`, `ServesClients` (refinement of `RequestService`) |
| `TransportUpdates` | 2 goroutines, 2 requests, 2 attempts that fail, 2 urls, 2 updates, requests for one, both or an unknown method, fair | 590 thousand | `SentWhereSuitable`, `FailoverOnlyAsLastResort`, `OnlyNodesDelay` |
| `ScanLoop` | 2 peers, one of them unknown at first and without an adapter, 1 worker for each queue, 3 rounds of the two schedulers together, fair | 387 thousand | types, `NoTaskLost`, `AtMostOneLateScan`, `CleanStopIsQuiet`, `NmapStops`, `ScanWorkersStop`, `StopEndsUnlessStalled` |
| `ScanStore` | 2 peers, one of them unknown at first, 2 workers, 2 methods, 2 rounds, slots modulo 16 | 470 thousand | types, `VisibleHasMethods`, `RowsAreAsFound`, `RecordsAreKept`, `OutdatedAsMeasured` |
| `UserApi` | 3 requests of 2 users, 3 connections, one page, fair | 190 thousand | types, `OneToken`, `ConnectionsReturned`, `RequestsAreAnswered` |
| `Aggregation` | 3 records of 2 users and 2 kinds of request, 1 kind kept, 1 midnight, 2 processes, fair | 356 thousand | types, `Accounted`, `CountedBeforeDeleted`, `TopRequestsKept`, `EventuallySettled`, `Implements` (refinement of `Delivery`) |
| `FindClear` | as `TargetList`, 2 updates | | violation of `ClearsAll` |
| `FindAttempts` | 1 goroutine, 2 attempts | | violation of `AttemptsReported` |
| `FindLimit` | hourly limit 1, two windows to the hour | | violation of `ConfiguredLimitKept` |
| `FindScanStop` | 1 peer, 1 worker | | violation of `SchedulerIsToldToStop` |

Why these bounds. The shift in `RemoveTarget` skips the element after a removed
one, so four urls are the smallest list on which two skips occur; three updates
give an update of a list that is itself the leftover of another. The limit is
overrun by goroutines that pass the check together, so two of them and a limit
of two show the bound and that it is reached; three windows of two seconds let a
request be chosen in one window and counted in the next. Three attempts give a
first, a middle and a last one, and a limit of three in two windows lets one
request use all of them while the other is turned away, or both go on. The real
constants (5 attempts, windows of 10 s, 360 windows to the hour, 10 successes)
are replaced by small ones in the .cfg; `WithJail`, FALSE in the program, is
TRUE where the jail is checked. One worker per queue is enough for a scheduler
to be left alone in its send, and for a task to be in a worker while the round
ends; `MaxRounds` bounds the rounds of both schedulers together, which lets either of
them have a second one while the other is in its first or has stopped. In `ScanStore` two workers and two rounds give two scans of the same peer
at once and one scan after the other, one peer of two is found in the first
round, and two methods distinguish a node that supports some of them from one
that supports all; the three slots lie below the shift, above it, and far enough
apart for a node to lag. In `UserApi` three requests over three connections let
one request have both of its connections while the others hold one each, and
leave none for the second connections of two; two of them are first requests of
one user. In `Aggregation` three records are two of one user and one of another,
two of one kind and one of another, so that a kind wins and a user has more than
one; one midnight puts records on both sides of it, and two records of a day are
enough for one of them to be deleted before the other. `SYMMETRY` on goroutines is
used in safety runs only; `ServesClients` is a safety property, too, and treats
all clients alike.

Deadlock is checked for `TargetList`.  In the other runs it is not: requests,
time and rounds are bounded and the scanner and the collector's process end, so
the modelled system stops.

The clock is in seconds and ticks at any time.  Counters of statistics are
naturals; they would need 2^64 requests to wrap.  Slots are not: `Minus` wraps.

### Fairness

`ProxyTransport!Fairness`: strong fairness for the steps the proxy takes on each
goroutine.  Strong because of the mutexes, as Go's change to first come, first
served for a goroutine that has waited a millisecond.  Nothing is assumed of the
nodes: a node that never answers is a behaviour of the model, and the transport
sets no deadline for it.

`ScanScheduler!Fairness`: weak fairness for each scheduler and worker, whose
calls have timeouts, for the goroutine that waits (`WaiterStep`), and for the main
goroutine once that one has closed the channel (`ServiceStopped`, `Exit`).
`GetNewNodes` is not assumed to return, as its whois connection has no deadline;
`ScanWorkersStop` and `StopEndsUnlessStalled` state explicitly that they depend on
it.  Nothing is assumed of the signal nor of the one-minute timer, so that
`StopEndsUnlessStalled` says what the goroutines achieve without it.

`Collector!Fairness` and `Aggregation!AggFairness`: the timer fires or the context's
end is seen (`FlushStep`), and an insert returns (`InsertStep`).  Nothing is assumed
of the aggregation, nor that ClickHouse ever carries out a mutation.

`UserApi!Fairness`: weak fairness for `Serve`, the steps of a request that the
identity provider has let pass: its statements and its wait for a connection have
timeouts (`storage.go:24-30`).  `LoadUser` is left out, because it calls the provider
with the context of the process and no deadline (`auth.go:70`, `119`); so
`RequestsAreAnswered` begins after it.  Nothing is assumed of a browser.

### What the code does not do as it says

* `updateProxyEndpoints` says that after a database error the algorithm "will go
  ahead and clear all targers" (`endpoints_preparation.go:74`).  It removes
  about every second one (`FindClear`).  `UpdateHalvesStale` is what holds: an
  update leaves at most half of the stale targets it found.
* The number of attempts in the metric `node_attempts`, in the header
  `X-NODE-REQ-ATTEMPTS` and in the stored statistics is one too high when all
  attempts failed (`FindAttempts`).  `AttemptsByReply` is what holds: the number is
  right after a good answer, one too high when every attempt failed or the client
  left after the first, and 0 when a request that had been tried found no target
  any more, because the 503 returns before the number is set (`transport.go:117`).
* The hourly limits of `.env.proxy.example` are below 360 and become 0, no limit
  (`FindLimit`).  `SendsBounded` is what holds for limits that do not.
* The scan scheduler may be left in a send that nobody receives when the process
  is told to stop (`FindScanStop`).  `StopEndsUnlessStalled` is what holds: nothing
  else keeps the process from stopping before the timer ends it.

Conditions under which a property holds are part of it where the code has no
more to offer: `CountedBeforeDeleted` and `TopRequestsKept` except four ways in which
the records of a day may be lost to the totals (a flush after the day was counted; a
day that ends between the count and the deletion of one of its parts; a count that is
made again when half of the day is deleted; a day that ends in the server's time zone
before it does in UTC), `RecordsAreKept` a worker that is late for a round,
`VisibleHasMethods` the first peer of the migration and overlapping scans,
`StopEndsUnlessStalled` a scheduler left with a peer to send and no worker, and
`RequestsAreAnswered` holds by the pool's timeout only.

## Proofs

All proofs are checked by TLAPS to the last leaf, for every value of the
constants that satisfies the modules' assumptions.  Every theorem has the same
skeleton: an inductive invariant, its three facts (the initial states have it,
every step keeps it, it implies the property), one lemma per action or group of
actions, and a last temporal step.

`TargetListProofs`.  The type invariant (`TLInv`) and `NoDuplicateUrls` are
inductive together; a removal keeps the list without duplicates because the new
list is a subsequence of the old one, an addition because `AddTarget` has just
looked at the whole list, and nobody else writes it.  `EveryTargetProbed` needs
more: `ProbesAll` says something about the last turn only, so the invariant
follows the rotation.  While the mutex is held, the targets looked at are those
at the `tried` positions before the rotation index, counted round the list
(`ProbeInv`); after `length` turns these are all positions.  The index may start
beyond the end of a list that shrank, and the first turn brings it back.
`SnapshotIsListed` follows the second loop of an update: the entries it has
passed are listed (`PassedAreListed`), and additions remove nothing.
`HalfOfTheStaleGo` follows the first loop.  `UpdateHalvesStale` speaks of its end
only, so the invariant counts on the way (`SkipsPaidFor`): the number of stale urls
that are listed plus the number of those the range has already passed over is at
most what the update found.  A removal takes one url from the first set and adds at
most one, the target that moved into the range's place, to the second; a step that
keeps its target passes over no stale url of the list.  In the end the range has
passed over everything, and both sets are what is left.

`ProxyTransportProofs`.  `TInv` is the type invariant with the facts that a
request in flight has a target and that nothing is counted in a window to come.
`SendsBounded` is not inductive.  The invariant `SInv` says where each send of
the present window is: `Accounted` bounds `sentNow[t]` by the requests counted
in the statistics of this window plus the goroutines that were sent in this
window and have not been counted yet; `Exclusive` says that at most one
goroutine is between the two ends of `UpdateStats` of a target, so no count is
overwritten, and `Pending` what it is about to store; `SentInPast` that no send
lies in a later window.  When a target is chosen, the counter it read was below
the limit, and the chooser itself was not in flight: hence the limit, minus one,
plus the number of goroutines.  A torn read within a window never shows less
than what is stored.

`RequestProofs`.  The properties of answers and reports are about one request,
and no step of a goroutine touches the request of another (`OtherRequests`), so
the invariant is one conjunction per request: `Attempts` relates the loop
counter, the attempts made and the place in the loop, and says that a good answer
never comes back to its head; `Codes`, `Reported` and `Late` say what the context,
the reply and the count of late sends are at each place.  `AttemptsFollowTheReply`
needs the exact number in `Reported` and that a request has a target exactly when it
was sent (`ChosenTarget`), as the number is set only for one that has.
`AskedWhatItSupports` needs that the updating goroutine never sets the methods of
a target in use: the pair it is about to create is neither listed nor in use
(`ListIsOld`, `UseIsSettled`).  `FailoverComesLast` adds to `ProbeInv` that what a
goroutine has looked at under the mutex does not suit it (`Refused`), because a
listed target is always available without the jail and the list does not change
meanwhile.  `NoneFreedEarly` relates the second of a target's latest failure to
every jail time that a reader may see of it, the stored one and the one that is
being stored (`Jailed`); it needs `Exclusive`, and that the jail time is not 0.

`TransportServesClients` is the refinement of `RequestService`.  Besides the
conjuncts above it needs `Errors`: which error the code after the loop finds in
`err`, which an attempt does not reset, given the outcome of the latest attempt
and the client's leaving.  One lemma maps each group of actions
(`LoopMoves`, `ClientMoves`, `TryMoves`, `AnswerMoves`, `CloseMoves`) to one
abstract step or a stutter; everything else changes nothing that the client could
see.  `TransportUsesTargetList` is the refinement the other way down: a step of
the round tripper is a step of `TargetList` or leaves the list alone, so the
theorems about the list hold of the proxy (`SharedListIsSound`).
`NoCircleOfWaiting` looks at the three kinds of locks.  Its invariant `HeldInLoop`
says that the list's mutex and that of the failover targets are held exactly in
the two rotations, where the holder waits for nothing; hence whoever cannot go on,
and does not wait for a node, waits for somebody who can.

`ScanSchedulerProofs`.  `Underway` says where each peer of the round's snapshot is
(still to be taken, offered, with a worker, or done), which
gives `NoTaskLost`; it needs `TasksAtHand`, that what scheduler and workers have at
hand are tasks.  `Counted` relates the WaitGroup to the goroutines that were started
and have not ended, which gives what `CleanStopIsQuiet` says at the
moment `Wait` returns, as the count is 0 there.  That it stays so until the process
ends, although goroutines may be added, is a part of the inductive invariant
(`Quiet`): the wait begins after the cancel, so that a scheduler which starts late
fails to read its peers, and a worker which starts late has nobody to receive from.
`LateScans` bounds the tasks sent after the signal by the place the
scheduler was in when it came.

`ScanStoreProofs`.  The invariant has a part for each kind of state.  `Rounds` says that
a peer of the round is in one place unless a worker was late, which gives
`RecordsAreKept`; `Flags` relates what was measured to the flag that is stored or
still to be written.  The heart is what concurrent scans know of each
other: `Overlaps` (two scans of a peer both know that they are not alone, and two
that do not are of different peers) and `Scanned` (what a lone scan has already
written is in the rows, because nobody else writes the methods and flags of a peer
that is known).  From these follow `AliveHas`, an alive peer that was scanned alone
has a method, and `AsFound`, the rows of a peer without a scan are what was found.

`CollectorProofs`.  `TypeOK /\ Accounted` is inductive; under it the fate of a
record is determined by the place it is in, before and after a step
(`FatePlaces`), so every step of the goroutine is one `Settle` of `Delivery`
(`RefineSettle`) and the collector implements it.

`AggregationProofs` adds to it `DaysOK`: a day that was counted and is not spoiled is
in the totals as a whole (`TotalsWhole`), and every day that a record was deleted of,
that the mutation still to be carried out would delete of, or that is over while an
aggregation is under way, was counted or is spoiled (`DeletedHandled`,
`MutatingHandled`, `OverHandled`).  The middle one is what makes a late, partial
deletion harmless.  A count keeps `TotalsWhole` because a day that is not half deleted
is there as a whole, or not at all, in which case its total is not replaced
(`DaysAreWhole`).  `MostAskedIsKept` needs the history of the analysis, which is
written in several runs, while parts of the table are being rewritten: of a day that
is not spoiled the rows that are there are whole groups, and at least as large as
those that are not (`Ranked`), also after half a run was repeated; and once the run
has passed the insert, for every record that is deleted, and for every one the
mutation would delete, the rows are as many as the limit or every group has one
(`Filled`).  A record of a day that is over can no longer change a group without
spoiling the day.  The composition keeps the promises of its part: it implements
`Collector` (`AggregationImplementsCollector`), its own steps leaving the collector
alone, and hence `Delivery`.

`UserApiProofs`.  `TypeOK`, `ConnectionsReturned`, `OneToken` and `TokenAtHand`
are inductive together: the token a request has at hand after its insert or select
is that of the row, since an insert never replaces one (`TokensArePermanent`).

Only model-checked: the liveness properties (`OnlyNodesDelay`, `NmapStops`,
`ScanWorkersStop`, `StopEndsUnlessStalled`, `EventuallySettled`,
`RequestsAreAnswered`), which are out of the prover's reach.  Every invariant and every
safety property of a passing run is proved.

## Not modelled

* `decodeNodeResponse`, `rpcErrorAnalysis` and the request validator: functions
  of one body without state, tables of error codes and of methods.  Nothing in the
  repository tests them, and nothing is claimed of them here: `ProxyTransport` lets
  any of their results come.
* The scanner api: handlers that read `GetEndpoints`, filter and format it, and a
  cached statistic that may be computed twice.
* The token check of the user api (an identity provider, and a cache whose entry
  without a lifetime never expires): any answer, or none, may come at any time in `UserApi`.
* Metrics registration, logging, configuration, migrations other than the first
  peer, the CORS middleware (a fork of a library's), the HTTP servers, nmap and
  whois, which are pure I/O, and the bundles of the Swagger UI, which are minified
  third-party code; the page loads two of them and not the others.
* What is only copied: addresses, versions, countries, response times.
* That a bad answer's body stays open while the next target is tried, and memory:
  no bound of a cache or of connections of the http client is modelled.
* A ClickHouse server whose time zone is behind UTC.  The parts of its table are not
  modelled as such: any set of records may be rewritten together.

## What is left

1. An abstract specification of the user api (a register of tokens, written once
   for each user) that `UserApi` implements, and one of a round of scans for
   `ScanScheduler`.
2. Several batches of different processes in `Aggregation`: the records that the
   second process adds.
3. The table of `rpcErrorAnalysis` as an operator, checked against a reference
   definition, to justify the outcomes of `ProxyTransport`.
