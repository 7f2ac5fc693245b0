------------------------------ MODULE TargetList -------------------------------
(***************************************************************************)
(* The list of upstream targets a ProxyTransport rotates over (fields      *)
(* targets and i, under endpointTargetsMutex) and the goroutine that       *)
(* refreshes it: updateProxyEndpoints of internal/proxy, which every five  *)
(* minutes hands a snapshot of the database to UpdateTargets.              *)
(*                                                                         *)
(* A Go slice is a length and a backing array.  UpdateTargets ranges over  *)
(* the slice it finds at its start while RemoveTarget shifts the elements  *)
(* of the same array, so both are state here: the slice is the first       *)
(* `length' elements of `backing', and the range visits all of `backing'.  *)
(***************************************************************************)
EXTENDS Integers, Sequences, FiniteSets

CONSTANTS
    Urls,        \* the upstream urls, up to letter case (strings.EqualFold)
    Methods,     \* the rpc methods a target may support
    Snapshots,   \* what getEndpointsURLs may return
    Threads,     \* the goroutines serving requests, which choose targets
    Nobody,      \* the mutex is free
    MaxUpdates   \* bound: how many times the list is refreshed

ASSUME NobodyAssumption == Nobody \notin Threads
ASSUME MaxUpdatesAssumption == MaxUpdates \in Nat
ASSUME SnapshotsAssumption ==
    \A w \in Snapshots : w \in Seq([url : Urls, methods : SUBSET Methods])

VARIABLES
    backing,   \* the backing array of pt.targets
    length,    \* len(pt.targets)
    supported, \* supportedMethods of each target created
    rotation,  \* pt.i
    holder,    \* who holds endpointTargetsMutex in getNextTarget
    tried,     \* the loop variable of that getNextTarget
    probed,    \* history: the targets it has looked at
    upc,       \* where the updating goroutine is
    wanted,    \* the snapshot it applies
    k,         \* the loop variable of its current loop
    updates,   \* how many updates have started
    stale      \* history: listed urls the snapshot lacked when it came

listVars == <<backing, length, supported>>
selVars  == <<rotation, holder, tried, probed>>
updVars  == <<upc, wanted, k, updates, stale>>
tlVars   == <<listVars, selVars, updVars>>

\* A target is named by its url and by the update that created it: one that
\* is removed and added again is another object, with statistics of its own.
Targets == Urls \X (1 .. MaxUpdates)

Url(t) == t[1]

slice == SubSeq(backing, 1, length)
Listed == {backing[j] : j \in 1 .. length}
ListedUrls == {Url(t) : t \in Listed}
WantedUrls == {wanted[j].url : j \in 1 .. Len(wanted)}

TLInit ==
    /\ backing = <<>> /\ length = 0
    /\ supported = [t \in Targets |-> {}]
    /\ rotation = 0 /\ holder = Nobody /\ tried = 0 /\ probed = {}
    /\ upc = "sleep" /\ wanted = <<>> /\ k = 1 /\ updates = 0 /\ stale = 0

--------------------------------------------------------------------------------
(***************************************************************************)
(* getNextTarget.  The loop runs under endpointTargetsMutex; the caller    *)
(* says whether the target it looks at will do.                            *)
(***************************************************************************)
LockTargets(th) ==
    /\ holder = Nobody
    /\ holder' = th /\ tried' = 0 /\ probed' = {}
    /\ UNCHANGED <<rotation, listVars, updVars>>

\* pt.i is reduced modulo the length before it is used and left one beyond.
Position == (rotation % length) + 1
Probing(th) == holder = th /\ tried < length
Candidate == backing[Position]

\* The loop's continue: look at the next target.
RefuseTwice(th) ==   \* slip: the rotation is advanced twice
    /\ Probing(th)
    /\ rotation' = Position + 1
    /\ tried' = tried + 1
    /\ probed' = probed \cup {Candidate}
    /\ UNCHANGED <<holder, listVars, updVars>>

Refuse(th) ==
    /\ Probing(th)
    /\ rotation' = Position
    /\ tried' = tried + 1
    /\ probed' = probed \cup {Candidate}
    /\ UNCHANGED <<holder, listVars, updVars>>

\* The loop's break: the target will do, the mutex is released.
Choose(th) ==
    /\ Probing(th)
    /\ rotation' = Position
    /\ holder' = Nobody
    /\ probed' = probed \cup {Candidate}
    /\ UNCHANGED <<tried, listVars, updVars>>

\* Every turn of the loop was a continue: no target.
GiveUpEarly(th) ==   \* slip: the last target is not looked at
    /\ holder = th /\ tried + 1 >= length
    /\ holder' = Nobody
    /\ UNCHANGED <<rotation, tried, probed, listVars, updVars>>

GiveUpLocked(th) ==   \* slip: a return without the unlock
    /\ holder = th /\ tried >= length
    /\ UNCHANGED tlVars

GiveUp(th) ==
    /\ holder = th /\ tried >= length
    /\ holder' = Nobody
    /\ UNCHANGED <<rotation, tried, probed, listVars, updVars>>

--------------------------------------------------------------------------------
(***************************************************************************)
(* The updating goroutine.  It is the only one that writes the slice, so   *)
(* the scans it makes without the mutex read a stable list; its writes     *)
(* take the mutex.                                                         *)
(***************************************************************************)

\* getEndpointsURLs has returned.  After an error the snapshot is empty.
StartUpdate(w) ==
    /\ upc = "sleep" /\ updates < MaxUpdates
    /\ wanted' = w
    /\ stale' = Cardinality({u \in ListedUrls :
                               \A j \in 1 .. Len(w) : w[j].url # u})
    /\ upc' = "remove" /\ k' = 1 /\ updates' = updates + 1
    /\ backing' = slice
    /\ UNCHANGED <<length, supported, selVars>>

\* The shift append(targets[:j-1], targets[j:]...) makes in place: what lies
\* beyond the new length keeps its old value.
ShiftOut(j) == [m \in DOMAIN backing |->
                  IF j <= m /\ m < length THEN backing[m + 1] ELSE backing[m]]

RangedUrl == Url(backing[k])

\* RemoveTarget deletes the first target with the url, under the mutex.
RemoveUnlocked(url) ==   \* slip: the mutex is not taken
    \E j \in 1 .. length :
        /\ Url(backing[j]) = url
        /\ \A m \in 1 .. (j - 1) : Url(backing[m]) # url
        /\ backing' = ShiftOut(j)
        /\ length' = length - 1

RemoveTarget(url) ==
    \E j \in 1 .. length :
        /\ Url(backing[j]) = url
        /\ \A m \in 1 .. (j - 1) : Url(backing[m]) # url
        /\ holder = Nobody
        /\ backing' = ShiftOut(j)
        /\ length' = length - 1

\* One turn of the range: the element is wanted and stays ...
RangeKeepAll ==   \* slip: compared with the listed urls instead of the wanted
    /\ upc = "remove" /\ k <= Len(backing)
    /\ RangedUrl \in ListedUrls
    /\ k' = k + 1
    /\ UNCHANGED <<upc, wanted, updates, stale, listVars, selVars>>

RangeKeep ==
    /\ upc = "remove" /\ k <= Len(backing)
    /\ RangedUrl \in WantedUrls \/ RangedUrl \notin ListedUrls
    /\ k' = k + 1
    /\ UNCHANGED <<upc, wanted, updates, stale, listVars, selVars>>

\* ... or it is not, and RemoveTarget finds it in the slice.
RangeRemove ==
    /\ upc = "remove" /\ k <= Len(backing)
    /\ RangedUrl \notin WantedUrls
    /\ RemoveTarget(RangedUrl)
    /\ k' = k + 1
    /\ UNCHANGED <<supported, upc, wanted, updates, stale, selVars>>

RangeEnd ==
    /\ upc = "remove" /\ k > Len(backing)
    /\ upc' = "add" /\ k' = 1
    /\ UNCHANGED <<wanted, updates, stale, listVars, selVars>>

\* AddTarget appends a new object unless a target with the url is listed; a
\* listed one keeps the methods it was created with.
NoDuplicate(u) == u \notin Urls   \* slip: AddTarget does not look for the url
Duplicate(u) == u \in ListedUrls

AddTarget ==
    /\ upc = "add" /\ k <= Len(wanted)
    /\ ~Duplicate(wanted[k].url)
    /\ holder = Nobody
    /\ LET t == <<wanted[k].url, updates>>
       IN  /\ backing' = Append(slice, t)
           /\ supported' = [supported EXCEPT ![t] = wanted[k].methods]
    /\ length' = length + 1
    /\ k' = k + 1
    /\ UNCHANGED <<upc, wanted, updates, stale, selVars>>

SkipCounted ==   \* slip: a duplicate is counted as if it had been appended
    /\ upc = "add" /\ k <= Len(wanted)
    /\ Duplicate(wanted[k].url)
    /\ k' = k + 1 /\ length' = length + 1
    /\ UNCHANGED <<backing, supported, upc, wanted, updates, stale, selVars>>

SkipTarget ==
    /\ upc = "add" /\ k <= Len(wanted)
    /\ Duplicate(wanted[k].url)
    /\ k' = k + 1
    /\ UNCHANGED <<upc, wanted, updates, stale, listVars, selVars>>

EndUpdateEarly ==   \* slip: the last entry of the snapshot is not reached
    /\ upc = "add" /\ k >= Len(wanted)
    /\ upc' = "sleep"
    /\ UNCHANGED <<wanted, k, updates, stale, listVars, selVars>>

EndUpdate ==
    /\ upc = "add" /\ k > Len(wanted)
    /\ upc' = "sleep"
    /\ UNCHANGED <<wanted, k, updates, stale, listVars, selVars>>

UpdateStep == RangeKeep \/ RangeRemove \/ RangeEnd \/ AddTarget \/ SkipTarget \/ EndUpdate
UpdateProxyEndpoints == UpdateStep \/ \E w \in Snapshots : StartUpdate(w)

TLNext ==
    \/ UpdateProxyEndpoints
    \/ \E th \in Threads : LockTargets(th) \/ Refuse(th) \/ Choose(th) \/ GiveUp(th)

TLSpec == TLInit /\ [][TLNext]_tlVars

--------------------------------------------------------------------------------
TLTypeOK ==
    /\ backing \in Seq(Targets)
    /\ length \in 0 .. Len(backing)
    /\ supported \in [Targets -> SUBSET Methods]
    /\ rotation \in Nat /\ tried \in Nat
    /\ holder \in Threads \cup {Nobody}
    /\ probed \subseteq Targets
    /\ upc \in {"sleep", "remove", "add"}
    /\ wanted \in Seq([url : Urls, methods : SUBSET Methods])
    /\ k \in Nat \ {0} /\ updates \in 0 .. MaxUpdates
    /\ stale \in Nat

\* No url is listed twice, at any point of an update: the unlocked duplicate
\* scan of AddTarget and the in-place shift of RemoveTarget keep the list a
\* set (transport.go:272-299).
NoDuplicateUrls ==
    \A a, b \in 1 .. length : Url(backing[a]) = Url(backing[b]) => a = b

\* When an update is over every endpoint of the snapshot is listed, whatever
\* the range over the shifting array skipped (transport.go:366-386).
WantedAreListed == (upc = "sleep") => WantedUrls \subseteq ListedUrls

\* An update may leave stale targets behind (see ClearsAll), but no more than
\* half of those it found: the list converges when the same snapshot is
\* applied again (transport.go:369-381).
StaleLeft == Cardinality(ListedUrls \ WantedUrls)
UpdateHalvesStale ==
    (upc \in {"add", "sleep"} /\ updates > 0) => 2 * StaleLeft <= stale

\* getNextTarget reports "no target" only after it looked at every target of
\* the list: the rotation starts anywhere, also beyond the end of a list that
\* shrank, and still visits each index once (transport.go:198-228).
ProbesAll == \A th \in Threads :
    (holder = th /\ tried >= length) => probed = Listed

\* The list never changes under a goroutine that rotates over it.
StableWhileHeld == [][holder # Nobody => UNCHANGED <<slice, supported>>]_tlVars

\* endpoints_preparation.go:74 of the proxy says that after a database error
\* "the algorithm will go ahead and clear all targers".
ClearsAll == (upc = "sleep" /\ updates > 0 /\ wanted = <<>>) => Listed = {}
================================================================================
