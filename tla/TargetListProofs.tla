--------------------------- MODULE TargetListProofs ----------------------------
(***************************************************************************)
(* Proofs about TargetList for every set of urls, every set of snapshots   *)
(* and any number of goroutines: the list is well formed, no url is listed *)
(* twice, nobody changes the list under a goroutine that rotates over it,  *)
(* a rotation visits all of it, and an update adds all it was given and    *)
(* removes at least half of what is stale.                                 *)
(***************************************************************************)
EXTENDS TargetList, FiniteSetTheorems, TLAPS

\* The rotation index, reduced modulo the length, is an index of the list.
LEMMA ModRange ==
    ASSUME NEW a \in Nat, NEW n \in Nat \ {0}
    PROVE  a % n \in 0 .. (n - 1)
OBVIOUS

\* TLTypeOK is inductive once it says that an update in progress is counted.
TLInv == TLTypeOK /\ (upc # "sleep" => updates >= 1)

\* The initial list is well formed.
LEMMA TLInitInv == TLInit => TLInv
BY MaxUpdatesAssumption DEF TLInit, TLInv, TLTypeOK, Targets

\* A goroutine that probes looks at a target of the list.
LEMMA CandidateListed ==
    ASSUME TLInv, NEW th \in Threads, Probing(th)
    PROVE  /\ Position \in 1 .. length
           /\ Candidate \in Targets
<1>1. length \in Nat \ {0} /\ length <= Len(backing) /\ rotation \in Nat
  BY DEF TLInv, TLTypeOK, Probing
<1>2. rotation % length \in 0 .. (length - 1)
  BY <1>1, ModRange
<1>3. Position \in 1 .. length
  BY <1>1, <1>2 DEF Position
<1>4. backing \in Seq(Targets) /\ Position \in 1 .. Len(backing)
  BY <1>1, <1>3 DEF TLInv, TLTypeOK
<1>5. Candidate \in Targets
  BY <1>4 DEF Candidate
<1> QED BY <1>3, <1>5

\* The four steps of getNextTarget keep the list well formed.
LEMMA SelectInv ==
    ASSUME TLInv, NEW th \in Threads,
           LockTargets(th) \/ Refuse(th) \/ Choose(th) \/ GiveUp(th)
    PROVE  TLInv'
<1>1. CASE LockTargets(th)
  BY <1>1 DEF TLInv, TLTypeOK, LockTargets, listVars, updVars
<1>2. CASE Refuse(th)
  <2>1. Probing(th) BY <1>2 DEF Refuse
  <2>2. Position \in Nat /\ Candidate \in Targets
    BY <2>1, CandidateListed DEF TLInv, TLTypeOK
  <2> QED BY <1>2, <2>2 DEF TLInv, TLTypeOK, Refuse, listVars, updVars
<1>3. CASE Choose(th)
  <2>1. Probing(th) BY <1>3 DEF Choose
  <2>2. Position \in Nat /\ Candidate \in Targets
    BY <2>1, CandidateListed DEF TLInv, TLTypeOK
  <2> QED BY <1>3, <2>2 DEF TLInv, TLTypeOK, Choose, listVars, updVars
<1>4. CASE GiveUp(th)
  BY <1>4 DEF TLInv, TLTypeOK, GiveUp, listVars, updVars
<1> QED BY <1>1, <1>2, <1>3, <1>4

\* The slice is a sequence of targets of the slice's length.
LEMMA SliceType ==
    ASSUME TLInv
    PROVE  /\ slice \in Seq(Targets)
           /\ Len(slice) = length
           /\ \A j \in 1 .. length : slice[j] = backing[j]
BY DEF TLInv, TLTypeOK, slice

\* Shifting an element out leaves a backing array of targets.
LEMMA ShiftType ==
    ASSUME TLInv, NEW j \in 1 .. length
    PROVE  /\ ShiftOut(j) \in Seq(Targets)
           /\ Len(ShiftOut(j)) = Len(backing)
<1> DEFINE S == ShiftOut(j)
<1>1. backing \in Seq(Targets) /\ DOMAIN backing = 1 .. Len(backing)
      /\ length \in Nat /\ length <= Len(backing) /\ Len(backing) \in Nat
  BY DEF TLInv, TLTypeOK
<1>2. \A m \in 1 .. Len(backing) : S[m] \in Targets
  BY <1>1 DEF ShiftOut
<1>3. DOMAIN S = 1 .. Len(backing)
  BY <1>1 DEF ShiftOut
<1>4. S = [m \in 1 .. Len(backing) |-> S[m]]
  BY <1>1, <1>3 DEF ShiftOut
<1>5. S \in Seq(Targets)
  BY <1>1, <1>2, <1>4, \A n \in Nat : [1 .. n -> Targets] \subseteq Seq(Targets)
<1> QED BY <1>1, <1>3, <1>5

\* The object AddTarget creates is a target, and the list stays one of targets.
LEMMA AddType ==
    ASSUME TLInv, AddTarget
    PROVE  /\ backing' \in Seq(Targets)
           /\ Len(backing') = length + 1
           /\ supported' \in [Targets -> SUBSET Methods]
<1> DEFINE t == <<wanted[k].url, updates>>
<1>1. wanted[k] \in [url : Urls, methods : SUBSET Methods]
  <2> DEFINE Entries == [url : Urls, methods : SUBSET Methods]
  <2>1. wanted \in Seq(Entries) /\ k \in 1 .. Len(wanted)
    BY DEF TLInv, TLTypeOK, AddTarget
  <2> HIDE DEF Entries
  <2>2. wanted[k] \in Entries
    BY <2>1
  <2> QED BY <2>2 DEF Entries
<1>2. updates \in 1 .. MaxUpdates
  BY MaxUpdatesAssumption DEF TLInv, TLTypeOK, AddTarget
<1>3. t \in Targets
  BY <1>1, <1>2 DEF Targets
<1>4. backing' = Append(slice, t)
      /\ supported' = [supported EXCEPT ![t] = wanted[k].methods]
  BY DEF AddTarget
<1>5. slice \in Seq(Targets) /\ Len(slice) = length /\ length \in Nat
  BY SliceType DEF TLInv, TLTypeOK
<1> HIDE DEF t
<1>6. backing' \in Seq(Targets) /\ Len(backing') = length + 1
  BY <1>3, <1>4, <1>5
<1>7. supported' \in [Targets -> SUBSET Methods]
  BY <1>1, <1>3, <1>4 DEF TLInv, TLTypeOK
<1> QED BY <1>6, <1>7

\* Finitely many urls are listed.
LEMMA ListedFinite ==
    ASSUME TLInv
    PROVE  IsFiniteSet(ListedUrls)
<1> DEFINE f == [j \in 1 .. length |-> Url(backing[j])]
<1>1. length \in Nat
  BY DEF TLInv, TLTypeOK
<1>2. f \in Surjection(1 .. length, ListedUrls)
  BY DEF Surjection, ListedUrls, Listed
<1> QED BY <1>1, <1>2, FS_NatSurjection DEF ExistsSurjection

\* The steps of an update keep the list well formed.
LEMMA UpdateInv ==
    ASSUME TLInv, UpdateProxyEndpoints
    PROVE  TLInv'
<1> USE DEF TLInv, TLTypeOK
<1>1. ASSUME NEW w \in Snapshots, StartUpdate(w) PROVE TLInv'
  <2>1. w \in Seq([url : Urls, methods : SUBSET Methods])
    BY SnapshotsAssumption
  <2>2. backing' \in Seq(Targets) /\ length' \in 0 .. Len(backing')
    BY <1>1, SliceType DEF StartUpdate
  <2>3. stale' \in Nat
    <3> DEFINE gone == {u \in ListedUrls : \A j \in 1 .. Len(w) : w[j].url # u}
    <3>1. IsFiniteSet(ListedUrls)
      BY ListedFinite
    <3>2. IsFiniteSet(gone)
      BY <3>1, FS_Subset
    <3>3. Cardinality(gone) \in Nat
      BY <3>2, FS_CardinalityType
    <3> QED BY <1>1, <3>3 DEF StartUpdate
  <2>4. updates' \in 0 .. MaxUpdates /\ updates' >= 1
    BY <1>1, MaxUpdatesAssumption DEF StartUpdate
  <2> QED BY <1>1, <2>1, <2>2, <2>3, <2>4 DEF StartUpdate, selVars
<1>2. CASE RangeKeep
  BY <1>2 DEF RangeKeep, listVars, selVars
<1>3. CASE RangeRemove
  <2>1. PICK j \in 1 .. length : backing' = ShiftOut(j) /\ length' = length - 1
    BY <1>3 DEF RangeRemove, RemoveTarget
  <2>2. backing' \in Seq(Targets) /\ length' \in 0 .. Len(backing')
    BY <2>1, ShiftType
  <2> QED BY <1>3, <2>2 DEF RangeRemove, selVars
<1>4. CASE RangeEnd
  BY <1>4 DEF RangeEnd, listVars, selVars
<1>5. CASE AddTarget
  <2>1. /\ backing' \in Seq(Targets) /\ length' \in 0 .. Len(backing')
        /\ supported' \in [Targets -> SUBSET Methods]
    BY <1>5, AddType DEF AddTarget
  <2> QED BY <1>5, <2>1 DEF AddTarget, selVars
<1>6. CASE SkipTarget
  BY <1>6 DEF SkipTarget, listVars, selVars
<1>7. CASE EndUpdate
  BY <1>7 DEF EndUpdate, listVars, selVars
<1> QED BY <1>1, <1>2, <1>3, <1>4, <1>5, <1>6, <1>7
        DEF UpdateProxyEndpoints, UpdateStep

\* A step that leaves the list's variables alone keeps TLInv.
LEMMA StutterInv == TLInv /\ UNCHANGED tlVars => TLInv'
BY DEF TLInv, TLTypeOK, tlVars, listVars, selVars, updVars

\* Type correctness of the list, its rotation and the updating goroutine.
THEOREM TLTypeCorrect == TLSpec => []TLTypeOK
<1>1. TLInit => TLInv
  BY TLInitInv
<1>2. TLInv /\ [TLNext]_tlVars => TLInv'
  BY SelectInv, UpdateInv, StutterInv DEF TLNext
<1>3. TLInv => TLTypeOK
  BY DEF TLInv
<1> QED BY <1>1, <1>2, <1>3, PTL DEF TLSpec

--------------------------------------------------------------------------------
(* No url is listed twice. *)

\* An update step keeps the urls distinct: the shift closes the gap it makes
\* in the order of the list, and AddTarget has scanned the list for the url.
LEMMA UpdateNoDuplicates ==
    ASSUME TLInv, NoDuplicateUrls, UpdateProxyEndpoints
    PROVE  NoDuplicateUrls'
<1> USE DEF NoDuplicateUrls
<1>0. length \in Nat /\ length <= Len(backing) /\ Len(backing) \in Nat
      /\ DOMAIN backing = 1 .. Len(backing)
  BY DEF TLInv, TLTypeOK
<1>1. ASSUME NEW w \in Snapshots, StartUpdate(w) PROVE NoDuplicateUrls'
  BY <1>0, <1>1, SliceType DEF StartUpdate
<1>2. CASE RangeRemove
  <2>1. PICK j \in 1 .. length : backing' = ShiftOut(j) /\ length' = length - 1
    BY <1>2 DEF RangeRemove, RemoveTarget
  <2>2. \A m \in 1 .. length' :
          backing'[m] = IF j <= m THEN backing[m + 1] ELSE backing[m]
    BY <1>0, <2>1 DEF ShiftOut
  <2> QED BY <1>0, <2>1, <2>2
<1>3. CASE AddTarget
  <2>1. slice \in Seq(Targets) /\ Len(slice) = length
        /\ \A j \in 1 .. length : slice[j] = backing[j]
    BY SliceType
  <2>2. PICK t : /\ backing' = Append(slice, t) /\ length' = length + 1
                 /\ Url(t) \notin ListedUrls
    BY <1>3 DEF AddTarget, Duplicate, Url
  <2>3. /\ \A j \in 1 .. length : backing'[j] = backing[j]
        /\ backing'[length + 1] = t
    BY <1>0, <2>1, <2>2
  <2>4. \A j \in 1 .. length : Url(backing[j]) # Url(t)
    BY <2>2 DEF ListedUrls, Listed
  <2> QED BY <1>0, <2>2, <2>3, <2>4
<1>4. CASE RangeKeep \/ RangeEnd \/ SkipTarget \/ EndUpdate
  BY <1>4 DEF RangeKeep, RangeEnd, SkipTarget, EndUpdate, listVars
<1> QED BY <1>1, <1>2, <1>3, <1>4 DEF UpdateProxyEndpoints, UpdateStep

\* So does every step of a list that is well formed and without duplicates.
LEMMA NextInv ==
    ASSUME TLInv, NoDuplicateUrls, [TLNext]_tlVars
    PROVE  TLInv' /\ NoDuplicateUrls'
<1>1. CASE UpdateProxyEndpoints
  BY <1>1, UpdateInv, UpdateNoDuplicates
<1>2. CASE \E th \in Threads : LockTargets(th) \/ Refuse(th) \/ Choose(th) \/ GiveUp(th)
  <2>1. TLInv' BY <1>2, SelectInv
  <2>2. UNCHANGED <<backing, length>>
    BY <1>2 DEF LockTargets, Refuse, Choose, GiveUp, listVars
  <2> QED BY <2>1, <2>2 DEF NoDuplicateUrls
<1>3. CASE UNCHANGED tlVars
  BY <1>3, StutterInv DEF NoDuplicateUrls, tlVars, listVars
<1> QED BY <1>1, <1>2, <1>3 DEF TLNext

\* The list is a set of urls in every reachable state.
THEOREM NoDuplicates == TLSpec => []NoDuplicateUrls
<1> DEFINE Inv == TLInv /\ NoDuplicateUrls
<1>1. TLInit => Inv
  BY TLInitInv DEF TLInit, NoDuplicateUrls
<1>2. Inv /\ [TLNext]_tlVars => Inv'
  BY NextInv
<1>3. Inv => NoDuplicateUrls
  OBVIOUS
<1> QED BY <1>1, <1>2, <1>3, PTL DEF TLSpec

--------------------------------------------------------------------------------
(* Nobody changes the list under a goroutine that rotates over it. *)

\* An update either waits for the mutex or leaves the elements as they are;
\* truncating the backing array to the slice changes none of them.
LEMMA UpdateStable ==
    ASSUME TLInv, UpdateProxyEndpoints, holder # Nobody
    PROVE  /\ UNCHANGED <<length, supported, selVars>>
           /\ slice' = slice
           /\ \A j \in 1 .. length : backing'[j] = backing[j]
<1>1. ASSUME NEW w \in Snapshots, StartUpdate(w)
      PROVE  /\ UNCHANGED <<length, supported, selVars>>
             /\ slice' = slice
             /\ \A j \in 1 .. length : backing'[j] = backing[j]
  <2>1. backing' = slice /\ UNCHANGED <<length, supported, selVars>>
    BY <1>1 DEF StartUpdate
  <2>2. /\ slice \in Seq(Targets) /\ Len(slice) = length /\ length \in Nat
        /\ \A j \in 1 .. length : slice[j] = backing[j]
    BY SliceType DEF TLInv, TLTypeOK
  <2>3. SubSeq(slice, 1, length) = slice
    BY <2>2
  <2>4. slice' = SubSeq(backing', 1, length')
    BY DEF slice
  <2> QED BY <2>1, <2>2, <2>3, <2>4
<1>2. CASE RangeKeep \/ RangeEnd \/ SkipTarget \/ EndUpdate
  BY <1>2 DEF RangeKeep, RangeEnd, SkipTarget, EndUpdate, listVars, slice
<1>3. ~RangeRemove /\ ~AddTarget
  BY DEF RangeRemove, RemoveTarget, AddTarget
<1> QED BY <1>1, <1>2, <1>3 DEF UpdateProxyEndpoints, UpdateStep

\* The list a goroutine rotates over stays the same until it releases the mutex.
THEOREM ListStableWhileHeld == TLSpec => StableWhileHeld
<1>1. TLInit => TLInv
  BY TLInitInv
<1>2. TLInv /\ [TLNext]_tlVars => TLInv'
  BY SelectInv, UpdateInv, StutterInv DEF TLNext
<1>3. TLInv /\ [TLNext]_tlVars => [holder # Nobody => UNCHANGED <<slice, supported>>]_tlVars
  <2> SUFFICES ASSUME TLInv, [TLNext]_tlVars, holder # Nobody
               PROVE  UNCHANGED <<slice, supported>>
    OBVIOUS
  <2>1. CASE UpdateProxyEndpoints
    BY <2>1, UpdateStable
  <2>2. CASE \E th \in Threads :
               LockTargets(th) \/ Refuse(th) \/ Choose(th) \/ GiveUp(th)
    BY <2>2 DEF LockTargets, Refuse, Choose, GiveUp, listVars, slice
  <2>3. CASE UNCHANGED tlVars
    BY <2>3 DEF tlVars, listVars, slice
  <2> QED BY <2>1, <2>2, <2>3 DEF TLNext
<1> QED BY <1>1, <1>2, <1>3, PTL DEF TLSpec, StableWhileHeld

--------------------------------------------------------------------------------
(***************************************************************************)
(* getNextTarget gives up only after it has looked at every target.  The   *)
(* invariant: from a start s, the index below the one it looked at first,  *)
(* it has gone round the list `tried' steps.                               *)
(***************************************************************************)

\* The indices from s + 1 on, t of them, going round at length.
Visited(s, t, j) == (s < j /\ j <= s + t) \/ j <= s + t - length

RotatedFrom(s) ==
    /\ IF tried = 0 THEN s = rotation % length
       ELSE rotation = IF s + tried <= length THEN s + tried ELSE s + tried - length
    /\ \A j \in 1 .. length : Visited(s, tried, j) => backing[j] \in probed

ProbeInv ==
    holder # Nobody =>
        /\ tried <= length
        /\ probed \subseteq Listed
        /\ length > 0 => \E s \in 0 .. (length - 1) : RotatedFrom(s)

\* One more target is looked at.
LEMMA RefuseProbes ==
    ASSUME TLInv, ProbeInv, NEW th \in Threads, Refuse(th)
    PROVE  ProbeInv'
<1>0. /\ holder = th /\ th # Nobody /\ tried < length /\ tried \in Nat
      /\ length \in Nat \ {0} /\ rotation \in Nat
      /\ rotation' = Position /\ tried' = tried + 1
      /\ probed' = probed \cup {backing[Position]}
      /\ holder' = holder /\ backing' = backing /\ length' = length
  BY NobodyAssumption DEF Refuse, Probing, listVars, TLInv, TLTypeOK, Candidate
<1>1. Position \in 1 .. length
  BY CandidateListed DEF Refuse
<1>2. tried' <= length' /\ probed' \subseteq Listed'
  BY <1>0, <1>1 DEF ProbeInv, Listed
<1>3. PICK s \in 0 .. (length - 1) : RotatedFrom(s)
  BY <1>0 DEF ProbeInv
<1>4. Position = IF s + tried + 1 <= length THEN s + tried + 1
                 ELSE s + tried + 1 - length
  <2>1. CASE tried = 0
    BY <1>0, <1>3, <2>1 DEF RotatedFrom, Position
  <2>2. CASE tried # 0
    <3>1. rotation = IF s + tried <= length THEN s + tried ELSE s + tried - length
      BY <1>3, <2>2 DEF RotatedFrom
    <3>2. rotation \in 1 .. length
      BY <1>0, <1>3, <2>2, <3>1
    <3>3. rotation % length = IF rotation = length THEN 0 ELSE rotation
      BY <1>0, <3>2
    <3> QED BY <1>0, <1>3, <2>2, <3>1, <3>2, <3>3 DEF Position
  <2> QED BY <2>1, <2>2
<1>5. \A j \in 1 .. length :
        (s < j /\ j <= s + tried + 1) \/ j <= s + tried + 1 - length
          => backing[j] \in probed'
  <2>1. SUFFICES ASSUME NEW j \in 1 .. length,
                        (s < j /\ j <= s + tried + 1) \/ j <= s + tried + 1 - length
                 PROVE  backing[j] \in probed \/ j = Position
    BY <1>0
  <2>2. CASE (s < j /\ j <= s + tried) \/ j <= s + tried - length
    BY <1>3, <2>2 DEF RotatedFrom, Visited
  <2>3. CASE j = s + tried + 1 \/ j = s + tried + 1 - length
    BY <1>0, <1>3, <1>4, <2>1, <2>3
  <2> QED BY <1>0, <1>3, <2>1, <2>2, <2>3
<1>6. RotatedFrom(s)'
  <2>1. \A j \in 1 .. length' : Visited(s, tried, j)' => backing'[j] \in probed'
    BY <1>0, <1>3, <1>5 DEF Visited
  <2> QED BY <1>0, <1>3, <1>4, <2>1 DEF RotatedFrom
<1> QED BY <1>0, <1>2, <1>3, <1>6 DEF ProbeInv

\* Every step keeps ProbeInv.
LEMMA NextProbes ==
    ASSUME TLInv, ProbeInv, [TLNext]_tlVars
    PROVE  ProbeInv'
<1>1. ASSUME NEW th \in Threads, LockTargets(th) PROVE ProbeInv'
  <2>1. tried' = 0 /\ probed' = {} /\ UNCHANGED <<rotation, backing, length>>
    BY <1>1 DEF LockTargets, listVars
  <2>2. length \in Nat /\ rotation \in Nat
    BY DEF TLInv, TLTypeOK
  <2>3. ASSUME length > 0
        PROVE  \E s \in 0 .. (length - 1) : RotatedFrom(s)'
    <3>1. rotation % length \in 0 .. (length - 1)
      BY <2>2, <2>3, ModRange
    <3>2. \A j \in 1 .. length : ~Visited(rotation % length, 0, j)
      BY <2>2, <2>3, <3>1 DEF Visited
    <3>3. RotatedFrom(rotation % length)'
      BY <2>1, <3>2 DEF RotatedFrom, Visited
    <3>4. PICK s \in 0 .. (length - 1) : s = rotation % length
      BY <3>1
    <3> QED BY <2>1, <3>3, <3>4 DEF RotatedFrom, Visited
  <2> QED BY <2>1, <2>2, <2>3 DEF ProbeInv
<1>2. ASSUME NEW th \in Threads, Refuse(th) PROVE ProbeInv'
  BY <1>2, RefuseProbes
<1>3. ASSUME NEW th \in Threads, Choose(th) \/ GiveUp(th) PROVE ProbeInv'
  BY <1>3 DEF Choose, GiveUp, ProbeInv
<1>4. CASE UpdateProxyEndpoints /\ holder # Nobody
  <2>1. /\ UNCHANGED <<length, selVars>>
        /\ \A j \in 1 .. length : backing'[j] = backing[j]
    BY <1>4, UpdateStable
  <2>2. UNCHANGED <<rotation, holder, tried, probed>>
    BY <2>1 DEF selVars
  <2>3. Listed' = Listed
    BY <2>1 DEF Listed
  <2>4. \A s \in 0 .. (length - 1) : RotatedFrom(s) => RotatedFrom(s)'
    BY <2>1, <2>2 DEF RotatedFrom, Visited
  <2> QED BY <2>1, <2>2, <2>3, <2>4 DEF ProbeInv
<1>5. CASE UpdateProxyEndpoints /\ holder = Nobody
  <2>1. holder' = holder
    BY <1>5 DEF UpdateProxyEndpoints, UpdateStep, StartUpdate, RangeKeep, RangeRemove,
                RangeEnd, AddTarget, SkipTarget, EndUpdate, selVars
  <2> QED BY <1>5, <2>1 DEF ProbeInv
<1>6. CASE UNCHANGED tlVars
  BY <1>6 DEF ProbeInv, RotatedFrom, Visited, Listed, tlVars, listVars, selVars
<1> QED BY <1>1, <1>2, <1>3, <1>4, <1>5, <1>6 DEF TLNext

\* When a goroutine has gone round the list it has looked at every target.
LEMMA AllProbed ==
    ASSUME TLInv, ProbeInv, NEW th \in Threads, holder = th, tried >= length
    PROVE  probed = Listed
<1>1. /\ tried \in Nat /\ length \in Nat /\ tried = length /\ probed \subseteq Listed
      /\ length > 0 => \E s \in 0 .. (length - 1) : RotatedFrom(s)
  BY NobodyAssumption DEF ProbeInv, TLInv, TLTypeOK
<1>2. \A j \in 1 .. length : backing[j] \in probed
  <2>1. SUFFICES ASSUME NEW j \in 1 .. length PROVE backing[j] \in probed
    OBVIOUS
  <2>2. PICK s \in 0 .. (length - 1) : RotatedFrom(s)
    BY <1>1
  <2>3. Visited(s, tried, j)
    BY <1>1, <2>2 DEF Visited
  <2> QED BY <2>2, <2>3 DEF RotatedFrom
<1> QED BY <1>1, <1>2 DEF Listed

\* Wherever the rotation starts, also beyond the end of a list that shrank,
\* "no target" is only said after every target has been looked at.
THEOREM EveryTargetProbed == TLSpec => []ProbesAll
<1> DEFINE Inv == TLInv /\ ProbeInv
<1>1. TLInit => Inv
  BY TLInitInv DEF TLInit, ProbeInv
<1>2. Inv /\ [TLNext]_tlVars => Inv'
  BY SelectInv, UpdateInv, StutterInv, NextProbes DEF TLNext
<1>3. Inv => ProbesAll
  BY AllProbed DEF ProbesAll
<1> QED BY <1>1, <1>2, <1>3, PTL DEF TLSpec

--------------------------------------------------------------------------------
(* What an update adds. *)

\* AddTarget lists the url of its entry and leaves the others listed.
LEMMA AddLists ==
    ASSUME TLInv, AddTarget
    PROVE  Listed' = Listed \cup {<<wanted[k].url, updates>>}
<1> DEFINE n == <<wanted[k].url, updates>>
<1>1. length \in Nat /\ length' = length + 1 /\ backing' = Append(slice, n)
  BY DEF TLInv, TLTypeOK, AddTarget
<1> HIDE DEF n
<1>2. /\ slice \in Seq(Targets) /\ Len(slice) = length
      /\ \A m \in 1 .. length : slice[m] = backing[m]
  BY SliceType
<1>3. backing'[length + 1] = n /\ length + 1 \in 1 .. length + 1
  BY <1>1, <1>2
<1>4. ASSUME NEW m \in 1 .. length
      PROVE  backing'[m] = backing[m] /\ m \in 1 .. length + 1
  <2>1. Append(slice, n)[m] = slice[m]
    BY <1>1, <1>2
  <2> QED
    BY <1>1, <1>2, <2>1
<1>5. \A m \in 1 .. length + 1 : m = length + 1 \/ m \in 1 .. length
  BY <1>1
<1>6. Listed' = {backing'[m] : m \in 1 .. length + 1}
  BY <1>1 DEF Listed
<1>7. Listed' = Listed \cup {n}
  BY <1>3, <1>4, <1>5, <1>6 DEF Listed
<1> QED
  BY <1>7 DEF n

\* The entries the second loop of an update has passed are listed, and all of
\* them once it is over.
Passed(j) == j \in 1 .. Len(wanted) /\ (upc = "add" => j < k)
PassedAreListed ==
    upc # "remove" => \A j \in Nat : Passed(j) => wanted[j].url \in ListedUrls

LEMMA NextPassed ==
    ASSUME TLInv, PassedAreListed, [TLNext]_tlVars
    PROVE  PassedAreListed'
<1>0. k \in Nat \ {0} /\ Len(wanted) \in Nat
  BY DEF TLInv, TLTypeOK
<1>1. CASE UNCHANGED <<backing, length, updVars>>
  BY <1>1 DEF PassedAreListed, Passed, ListedUrls, Listed, updVars
<1>2. CASE RangeKeep \/ RangeRemove \/ \E w \in Snapshots : StartUpdate(w)
  BY <1>2 DEF PassedAreListed, RangeKeep, RangeRemove, StartUpdate
<1>3. CASE RangeEnd
  <2>1. upc' = "add" /\ k' = 1
    BY <1>3 DEF RangeEnd
  <2>2. ASSUME NEW j \in Nat
        PROVE  ~(j \in 1 .. Len(wanted') /\ j < k')
    BY <2>1
  <2> QED
    BY <2>1, <2>2 DEF PassedAreListed, Passed
<1>4. CASE AddTarget \/ SkipTarget
  <2>1. upc = "add" /\ k' = k + 1 /\ UNCHANGED <<upc, wanted>> /\ k \in 1 .. Len(wanted)
    BY <1>0, <1>4 DEF AddTarget, SkipTarget
  <2>2. ListedUrls \subseteq ListedUrls' /\ wanted[k].url \in ListedUrls'
    <3>1. CASE AddTarget
      <4> DEFINE n == <<wanted[k].url, updates>>
      <4>1. Listed' = Listed \cup {n}
        BY <3>1, AddLists
      <4>2. ListedUrls' = {Url(t) : t \in Listed'} /\ ListedUrls = {Url(t) : t \in Listed}
        BY DEF ListedUrls
      <4>3. Url(n) = wanted[k].url
        BY DEF Url
      <4> HIDE DEF n
      <4> QED
        BY <4>1, <4>2, <4>3
    <3>2. CASE SkipTarget
      BY <3>2 DEF SkipTarget, Duplicate, ListedUrls, Listed, listVars
    <3> QED
      BY <1>4, <3>1, <3>2
  <2>3. ASSUME NEW j \in Nat, Passed(j)'
        PROVE  wanted'[j].url \in ListedUrls'
    <3>1. j = k \/ Passed(j)
      BY <1>0, <2>1, <2>3 DEF Passed
    <3> QED
      BY <2>1, <2>2, <3>1 DEF PassedAreListed
  <2> QED
    BY <2>3 DEF PassedAreListed
<1>5. CASE EndUpdate
  <2>1. upc = "add" /\ k > Len(wanted) /\ UNCHANGED <<wanted, backing, length>>
    BY <1>5 DEF EndUpdate, listVars
  <2>2. ListedUrls' = ListedUrls
    BY <2>1 DEF ListedUrls, Listed
  <2>3. ASSUME NEW j \in Nat, Passed(j)'
        PROVE  Passed(j)
    BY <1>0, <2>1, <2>3 DEF Passed
  <2> QED
    BY <2>1, <2>2, <2>3 DEF PassedAreListed
<1>6. CASE \E th \in Threads : LockTargets(th) \/ Refuse(th) \/ Choose(th) \/ GiveUp(th)
  BY <1>1, <1>6 DEF LockTargets, Refuse, Choose, GiveUp, listVars
<1>7. CASE UNCHANGED tlVars
  BY <1>1, <1>7 DEF tlVars, listVars
<1> QED
  BY <1>2, <1>3, <1>4, <1>5, <1>6, <1>7 DEF TLNext, UpdateProxyEndpoints, UpdateStep

\* When an update is over every endpoint of its snapshot is listed, whatever the
\* range over the shifting array has skipped (transport.go:366-386).
THEOREM SnapshotIsListed == TLSpec => []WantedAreListed
<1> DEFINE Inv == TLInv /\ PassedAreListed
<1>1. TLInit => Inv
  BY TLInitInv DEF TLInit, PassedAreListed, Passed
<1>2. Inv /\ [TLNext]_tlVars => Inv'
  BY SelectInv, UpdateInv, StutterInv, NextPassed DEF TLNext
<1>3. Inv => WantedAreListed
  <2> SUFFICES ASSUME Inv, upc = "sleep"
               PROVE  WantedUrls \subseteq ListedUrls
    BY DEF WantedAreListed
  <2>1. \A j \in 1 .. Len(wanted) : Passed(j) /\ j \in Nat
    BY DEF Passed
  <2> QED
    BY <2>1 DEF PassedAreListed, WantedUrls
<1> QED
  BY <1>1, <1>2, <1>3, PTL DEF TLSpec

--------------------------------------------------------------------------------
(***************************************************************************)
(* What an update removes.  Each removal shifts the next target into the   *)
(* place the range is at, so that it may skip one; and it skips no other.  *)
(* Hence the stale urls the range has passed are at most those it removed: *)
(* with the ones that are left they are no more than it found.             *)
(***************************************************************************)
StaleUrls == ListedUrls \ WantedUrls
PassedOver == {Url(backing[j]) : j \in {m \in 1 .. length : m < k}} \ WantedUrls

SkipsPaidFor ==
    /\ upc = "remove" => Cardinality(PassedOver) + Cardinality(StaleUrls) <= stale
    /\ UpdateHalvesStale

\* Both sets are finite, and what was passed over is still listed.
LEMMA StaleFinite ==
    ASSUME TLInv
    PROVE  /\ IsFiniteSet(StaleUrls) /\ IsFiniteSet(PassedOver)
           /\ PassedOver \subseteq StaleUrls
           /\ Cardinality(StaleUrls) \in Nat /\ Cardinality(PassedOver) \in Nat
<1>1. IsFiniteSet(StaleUrls)
  BY ListedFinite, FS_Subset DEF StaleUrls
<1>2. PassedOver \subseteq StaleUrls
  BY DEF PassedOver, StaleUrls, ListedUrls, Listed
<1> QED
  BY <1>1, <1>2, FS_Subset, FS_CardinalityType

\* A removal takes one stale url from the list and passes over one at most.
LEMMA RemovalSkipsOne ==
    ASSUME TLInv, NoDuplicateUrls, RangeRemove
    PROVE  \E u \in StaleUrls : \E x : /\ StaleUrls' = StaleUrls \ {u}
                                      /\ PassedOver' \subseteq PassedOver \cup {x}
<1> DEFINE u == RangedUrl
           x == Url(backing[k + 1])
<1>0. /\ length \in Nat /\ length <= Len(backing) /\ Len(backing) \in Nat
      /\ DOMAIN backing = 1 .. Len(backing) /\ k \in 1 .. Len(backing)
  BY DEF TLInv, TLTypeOK, RangeRemove
<1>1. PICK j \in 1 .. length : Url(backing[j]) = u /\ backing' = ShiftOut(j)
                              /\ length' = length - 1
  BY DEF RangeRemove, RemoveTarget
<1>2. wanted' = wanted /\ WantedUrls' = WantedUrls /\ k' = k + 1 /\ u \notin WantedUrls
  BY DEF RangeRemove, WantedUrls
<1>3. u = Url(backing[k])
  BY DEF RangedUrl
<1> HIDE DEF u
<1>4. \A m \in 1 .. length' : backing'[m] = IF j <= m THEN backing[m + 1] ELSE backing[m]
  BY <1>0, <1>1 DEF ShiftOut
<1>5. \A m, n \in 1 .. length : Url(backing[m]) = Url(backing[n]) => m = n
  BY DEF NoDuplicateUrls
<1>6. /\ ListedUrls = {Url(backing[m]) : m \in 1 .. length}
      /\ ListedUrls' = {Url(backing'[m]) : m \in 1 .. length'}
  BY DEF ListedUrls, Listed
<1>7. ListedUrls' = ListedUrls \ {u}
  <2>1. ASSUME NEW m \in 1 .. length'
        PROVE  Url(backing'[m]) \in ListedUrls \ {u}
    <3>1. CASE j <= m
      <4>1. m + 1 \in 1 .. length /\ m + 1 # j /\ backing'[m] = backing[m + 1]
        BY <1>0, <1>1, <1>4, <2>1, <3>1
      <4> QED
        BY <1>1, <1>5, <1>6, <4>1
    <3>2. CASE m < j
      <4>1. m \in 1 .. length /\ m # j /\ backing'[m] = backing[m]
        BY <1>0, <1>1, <1>4, <2>1, <3>2
      <4> QED
        BY <1>1, <1>5, <1>6, <4>1
    <3> QED
      BY <1>0, <2>1, <3>1, <3>2
  <2>2. ASSUME NEW m \in 1 .. length, Url(backing[m]) # u
        PROVE  Url(backing[m]) \in ListedUrls'
    <3>1. CASE m < j
      <4>1. m \in 1 .. length' /\ backing'[m] = backing[m]
        BY <1>0, <1>1, <1>4, <2>2, <3>1
      <4> QED
        BY <1>6, <4>1
    <3>2. CASE j < m
      <4>1. m - 1 \in 1 .. length' /\ backing'[m - 1] = backing[m]
        BY <1>0, <1>1, <1>4, <2>2, <3>2
      <4> QED
        BY <1>6, <4>1
    <3>3. m # j
      BY <1>1, <2>2
    <3> QED
      BY <1>0, <3>1, <3>2, <3>3
  <2> QED
    BY <1>6, <2>1, <2>2
<1>8. u \in StaleUrls /\ StaleUrls' = StaleUrls \ {u}
  BY <1>1, <1>2, <1>6, <1>7 DEF StaleUrls
<1>9. PassedOver' \subseteq PassedOver \cup {x}
  <2>1. /\ PassedOver = {Url(backing[m]) : m \in {i \in 1 .. length : i < k}} \ WantedUrls
        /\ PassedOver' = {Url(backing'[m]) : m \in {i \in 1 .. length' : i < k + 1}} \ WantedUrls
    BY <1>2 DEF PassedOver
  <2>2. ASSUME NEW m \in 1 .. length', m < k + 1
        PROVE  \/ Url(backing'[m]) = x
               \/ \E n \in 1 .. length : n < k /\ Url(backing'[m]) = Url(backing[n])
    <3>1. CASE k <= length
      <4>1. j = k
        BY <1>0, <1>1, <1>3, <1>5, <3>1
      <4>2. m = k \/ (m < k /\ m \in 1 .. length)
        BY <1>0, <1>1, <2>2
      <4> QED
        BY <1>0, <1>4, <2>2, <4>1, <4>2
    <3>2. CASE k > length
      <4>1. m \in 1 .. length /\ m + 1 \in 1 .. length /\ m < k /\ m + 1 < k
        BY <1>0, <1>1, <2>2, <3>2
      <4> QED
        BY <1>4, <2>2, <4>1
    <3> QED
      BY <1>0, <3>1, <3>2
  <2> QED
    BY <2>1, <2>2
<1> QED
  BY <1>8, <1>9

\* So the sum does not grow.
LEMMA RemoveSkips ==
    ASSUME TLInv, TLInv', NoDuplicateUrls, SkipsPaidFor, RangeRemove
    PROVE  SkipsPaidFor'
<1>1. upc = "remove" /\ upc' = "remove" /\ stale' = stale /\ stale \in Nat
  BY DEF RangeRemove, TLInv, TLTypeOK
<1>20. PICK u \in StaleUrls :
          \E x : StaleUrls' = StaleUrls \ {u} /\ PassedOver' \subseteq PassedOver \cup {x}
  BY RemovalSkipsOne
<1>2. PICK x : StaleUrls' = StaleUrls \ {u} /\ PassedOver' \subseteq PassedOver \cup {x}
  BY <1>20
<1>3. IsFiniteSet(StaleUrls) /\ Cardinality(StaleUrls) \in Nat
      /\ IsFiniteSet(PassedOver) /\ Cardinality(PassedOver) \in Nat
  BY StaleFinite
<1>4. Cardinality(StaleUrls') = Cardinality(StaleUrls) - 1
  BY <1>2, <1>3, FS_RemoveElement
<1>5. IsFiniteSet(PassedOver \cup {x})
      /\ Cardinality(PassedOver \cup {x}) \in {Cardinality(PassedOver), Cardinality(PassedOver) + 1}
  BY <1>3, FS_AddElement
<1>6. Cardinality(PassedOver') <= Cardinality(PassedOver \cup {x})
      /\ Cardinality(PassedOver') \in Nat
  BY <1>2, <1>5, FS_Subset, FS_CardinalityType
<1>7. Cardinality(PassedOver) + Cardinality(StaleUrls) <= stale
  BY <1>1 DEF SkipsPaidFor
<1>8. Cardinality(PassedOver') + Cardinality(StaleUrls') <= stale'
  BY <1>1, <1>3, <1>4, <1>5, <1>6, <1>7
<1> QED
  BY <1>1, <1>8 DEF SkipsPaidFor, UpdateHalvesStale

\* An added url is wanted, so the stale ones stay what they are.
LEMMA AddKeepsStale ==
    ASSUME TLInv, AddTarget
    PROVE  StaleUrls' = StaleUrls
<1> DEFINE n == <<wanted[k].url, updates>>
<1>1. k \in 1 .. Len(wanted) /\ wanted' = wanted
  BY DEF AddTarget, TLInv, TLTypeOK
<1>2. WantedUrls' = WantedUrls /\ wanted[k].url \in WantedUrls
  BY <1>1 DEF WantedUrls
<1>3. Listed' = Listed \cup {n}
  BY AddLists
<1>4. Url(n) = wanted[k].url
  BY DEF Url
<1>5. ListedUrls' = {Url(t) : t \in Listed'} /\ ListedUrls = {Url(t) : t \in Listed}
  BY DEF ListedUrls
<1> HIDE DEF n
<1>6. ListedUrls' = ListedUrls \cup {wanted[k].url}
  BY <1>3, <1>4, <1>5
<1> QED
  BY <1>2, <1>6 DEF StaleUrls

LEMMA NextSkips ==
    ASSUME TLInv, TLInv', NoDuplicateUrls, SkipsPaidFor, [TLNext]_tlVars
    PROVE  SkipsPaidFor'
<1>0. /\ k \in Nat \ {0} /\ length \in Nat /\ Len(backing) \in Nat /\ length <= Len(backing)
      /\ stale \in Nat /\ StaleLeft = Cardinality(StaleUrls)
  BY DEF TLInv, TLTypeOK, StaleLeft, StaleUrls
<1>1. CASE UNCHANGED <<backing, length, updVars>>
  BY <1>1 DEF SkipsPaidFor, UpdateHalvesStale, StaleLeft, PassedOver, StaleUrls,
              ListedUrls, Listed, WantedUrls, updVars
<1>2. ASSUME NEW w \in Snapshots, StartUpdate(w)
      PROVE  SkipsPaidFor'
  <2>1. /\ upc' = "remove" /\ k' = 1 /\ wanted' = w /\ length' = length /\ backing' = slice
        /\ stale' = Cardinality({u \in ListedUrls : \A j \in 1 .. Len(w) : w[j].url # u})
    BY <1>2 DEF StartUpdate, selVars
  <2>2. ListedUrls' = ListedUrls
    BY <2>1, SliceType DEF ListedUrls, Listed
  <2>3. StaleUrls' = {u \in ListedUrls : \A j \in 1 .. Len(w) : w[j].url # u}
    BY <2>1, <2>2 DEF StaleUrls, WantedUrls
  <2>4. PassedOver' = {}
    BY <1>0, <2>1 DEF PassedOver
  <2>5. Cardinality(PassedOver') = 0 /\ Cardinality(StaleUrls') = stale' /\ stale' \in Nat
    BY <2>1, <2>3, <2>4, FS_EmptySet DEF TLInv, TLTypeOK
  <2> QED
    BY <2>1, <2>5 DEF SkipsPaidFor, UpdateHalvesStale
<1>3. CASE RangeKeep
  <2>1. upc = "remove" /\ k' = k + 1 /\ UNCHANGED <<upc, wanted, stale, backing, length>>
        /\ (RangedUrl \in WantedUrls \/ RangedUrl \notin ListedUrls)
    BY <1>3 DEF RangeKeep, listVars
  <2>2. StaleUrls' = StaleUrls
    BY <2>1 DEF StaleUrls, ListedUrls, Listed, WantedUrls
  <2>3. ASSUME NEW m \in 1 .. length, m < k + 1, Url(backing[m]) \notin WantedUrls
        PROVE  m < k
    <3>1. SUFFICES m # k
      BY <1>0, <2>3
    <3>2. Url(backing[m]) \in ListedUrls
      BY DEF ListedUrls, Listed
    <3> QED
      BY <2>1, <2>3, <3>2 DEF RangedUrl
  <2>4. PassedOver' \subseteq PassedOver
    BY <2>1, <2>3 DEF PassedOver, WantedUrls
  <2>5. Cardinality(PassedOver') <= Cardinality(PassedOver)
    BY <2>4, StaleFinite, FS_Subset
  <2>6. Cardinality(PassedOver') \in Nat /\ Cardinality(PassedOver) \in Nat
        /\ Cardinality(StaleUrls) \in Nat
    BY <2>4, StaleFinite, FS_Subset, FS_CardinalityType
  <2> QED
    BY <1>0, <2>1, <2>2, <2>5, <2>6 DEF SkipsPaidFor, UpdateHalvesStale
<1>4. CASE RangeRemove
  BY <1>4, RemoveSkips
<1>5. CASE RangeEnd
  <2>1. upc = "remove" /\ k > Len(backing) /\ upc' = "add"
        /\ UNCHANGED <<wanted, stale, backing, length>>
    BY <1>5 DEF RangeEnd, listVars
  <2>2. {m \in 1 .. length : m < k} = 1 .. length
    BY <1>0, <2>1
  <2>3. PassedOver = StaleUrls
    BY <2>2 DEF PassedOver, StaleUrls, ListedUrls, Listed
  <2>4. 2 * Cardinality(StaleUrls) <= stale
    BY <1>0, <2>1, <2>3, StaleFinite DEF SkipsPaidFor
  <2>5. StaleLeft' = StaleLeft
    BY <2>1 DEF StaleLeft, ListedUrls, Listed, WantedUrls
  <2> QED
    BY <1>0, <2>1, <2>4, <2>5 DEF SkipsPaidFor, UpdateHalvesStale
<1>6. CASE AddTarget
  <2>1. upc = "add" /\ UNCHANGED <<upc, updates, stale>> /\ StaleUrls' = StaleUrls
    BY <1>6, AddKeepsStale DEF AddTarget
  <2> QED
    BY <2>1 DEF SkipsPaidFor, UpdateHalvesStale, StaleLeft, StaleUrls
<1>7. CASE SkipTarget \/ EndUpdate
  <2>1. upc = "add" /\ upc' # "remove" /\ UNCHANGED <<wanted, updates, stale, backing, length>>
    BY <1>7 DEF SkipTarget, EndUpdate, listVars
  <2> QED
    BY <2>1 DEF SkipsPaidFor, UpdateHalvesStale, StaleLeft, ListedUrls, Listed, WantedUrls
<1>8. CASE \E th \in Threads : LockTargets(th) \/ Refuse(th) \/ Choose(th) \/ GiveUp(th)
  BY <1>1, <1>8 DEF LockTargets, Refuse, Choose, GiveUp, listVars
<1>9. CASE UNCHANGED tlVars
  BY <1>1, <1>9 DEF tlVars, listVars
<1> QED
  BY <1>2, <1>3, <1>4, <1>5, <1>6, <1>7, <1>8, <1>9
     DEF TLNext, UpdateProxyEndpoints, UpdateStep

\* The range over the shifting array misses no more stale targets than it removes:
\* an update leaves at most half of those it found (transport.go:369-381).
THEOREM HalfOfTheStaleGo == TLSpec => []UpdateHalvesStale
<1> DEFINE Inv == TLInv /\ NoDuplicateUrls /\ SkipsPaidFor
<1>1. TLInit => Inv
  BY TLInitInv DEF TLInit, NoDuplicateUrls, SkipsPaidFor, UpdateHalvesStale
<1>2. Inv /\ [TLNext]_tlVars => Inv'
  BY NextInv, NextSkips
<1>3. Inv => UpdateHalvesStale
  BY DEF SkipsPaidFor
<1> QED
  BY <1>1, <1>2, <1>3, PTL DEF TLSpec
================================================================================
