----------------------------- MODULE UserApiProofs -----------------------------
(***************************************************************************)
(* Proofs about UserApi for every set of requests and users and every size *)
(* of the pool: a user has one token, whatever fails, and no connection is *)
(* lost or given back twice.                                               *)
(***************************************************************************)
EXTENDS UserApi, FiniteSetTheorems, TLAPS

\* The requests that hold the connection of their transaction, and those that
\* hold a second one.
InTx == {r \in Requests : pc[r] \in {"select", "insert", "inserting", "commit"}}
InInsert == {r \in Requests : pc[r] = "inserting"}

Labels == {"none", "load user", "begin", "select", "insert", "inserting", "commit",
           "set cache", "answered"}

\* A token that GetOrCreateUser has come to is the one in the user's row.
TokenAtHand ==
    \A r \in Requests : pc[r] \in {"commit", "set cache"} =>
                            u[r] # NoToken /\ u[r] = row[Sender[r]]

\* The inductive invariant: the bound on the free connections follows from who
\* holds one, the token of an answer from the one at hand.
IInv == TypeOK /\ ConnectionsReturned /\ OneToken /\ TokenAtHand

--------------------------------------------------------------------------------
LEMMA HoldersFinite ==
    /\ IsFiniteSet(InTx) /\ IsFiniteSet(InInsert)
    /\ Cardinality(InTx) \in Nat /\ Cardinality(InInsert) \in Nat
    /\ InInsert \subseteq InTx
<1>1. InTx \subseteq Requests /\ InInsert \subseteq Requests /\ InInsert \subseteq InTx
  BY DEF InTx, InInsert
<1>2. IsFiniteSet(InTx) /\ IsFiniteSet(InInsert)
  BY <1>1, PoolAssumption, FS_Subset
<1> QED BY <1>1, <1>2, FS_CardinalityType

LEMMA Counted == ConnectionsReturned <=> PoolSize - free = Cardinality(InTx) + Cardinality(InInsert)
BY DEF ConnectionsReturned, InTx, InInsert

\* A step that moves no request in or out of the two sets.
LEMMA SameHolders ==
    ASSUME ConnectionsReturned, InTx' = InTx, InInsert' = InInsert, free' = free
    PROVE  ConnectionsReturned'
<1>1. PoolSize - free = Cardinality(InTx) + Cardinality(InInsert)
  BY Counted
<1>2. PoolSize - free' = Cardinality(InTx') + Cardinality(InInsert')
  BY <1>1
<1> QED BY <1>2 DEF ConnectionsReturned, InTx, InInsert

\* A request that holds one connection, or two, leaves so many fewer free.
LEMMA FreeBound ==
    ASSUME free \in 0 .. PoolSize, ConnectionsReturned
    PROVE  /\ \A r \in InTx : free + 1 <= PoolSize
           /\ \A r \in InInsert : free + 2 <= PoolSize
<1>1. PoolSize - free = Cardinality(InTx) + Cardinality(InInsert)
  BY Counted
<1>2. \A r \in InTx : Cardinality(InTx) >= 1
  BY HoldersFinite, FS_EmptySet
<1>3. \A r \in InInsert : Cardinality(InInsert) >= 1
  BY HoldersFinite, FS_EmptySet
<1> QED BY <1>1, <1>2, <1>3, HoldersFinite, PoolAssumption

--------------------------------------------------------------------------------
(* Each step, by what it does to the two sets. *)

LEMMA StepHolders ==
    ASSUME TypeOK, ConnectionsReturned, [Next]_vars
    PROVE  ConnectionsReturned' /\ free' \in 0 .. PoolSize
<1> USE PoolAssumption
<1>0. free \in 0 .. PoolSize /\ pc \in [Requests -> Labels]
  BY DEF TypeOK, Labels
<1>h. PoolSize - free = Cardinality(InTx) + Cardinality(InInsert)
  BY Counted
<1>a. CASE InTx' = InTx /\ InInsert' = InInsert /\ free' = free
  BY <1>a, <1>0, SameHolders
<1>b. ASSUME NEW r \in Requests, r \notin InTx, InTx' = InTx \cup {r}, InInsert' = InInsert,
             free > 0, free' = free - 1
      PROVE  ConnectionsReturned' /\ free' \in 0 .. PoolSize
  <2>1. Cardinality(InTx') = Cardinality(InTx) + 1
    BY <1>b, HoldersFinite, FS_AddElement
  <2>2. PoolSize - free' = Cardinality(InTx') + Cardinality(InInsert')
    BY <1>0, <1>h, <1>b, <2>1, HoldersFinite
  <2> QED BY <1>0, <1>b, <2>2 DEF ConnectionsReturned, InTx, InInsert
<1>c. ASSUME NEW r \in Requests, r \in InTx, InTx' = InTx \ {r}, InInsert' = InInsert,
             free' = free + 1
      PROVE  ConnectionsReturned' /\ free' \in 0 .. PoolSize
  <2>1. Cardinality(InTx') = Cardinality(InTx) - 1
    BY <1>c, HoldersFinite, FS_RemoveElement
  <2>2. PoolSize - free' = Cardinality(InTx') + Cardinality(InInsert')
    BY <1>0, <1>h, <1>c, <2>1, HoldersFinite
  <2> QED BY <1>0, <1>c, <2>2, FreeBound DEF ConnectionsReturned, InTx, InInsert
<1>d. ASSUME NEW r \in Requests, r \notin InInsert, InInsert' = InInsert \cup {r},
             InTx' = InTx, free > 0, free' = free - 1
      PROVE  ConnectionsReturned' /\ free' \in 0 .. PoolSize
  <2>1. Cardinality(InInsert') = Cardinality(InInsert) + 1
    BY <1>d, HoldersFinite, FS_AddElement
  <2>2. PoolSize - free' = Cardinality(InTx') + Cardinality(InInsert')
    BY <1>0, <1>h, <1>d, <2>1, HoldersFinite
  <2> QED BY <1>0, <1>d, <2>2 DEF ConnectionsReturned, InTx, InInsert
<1>e. ASSUME NEW r \in Requests, r \in InInsert, InInsert' = InInsert \ {r},
             \/ InTx' = InTx /\ free' = free + 1
             \/ InTx' = InTx \ {r} /\ free' = free + 2
      PROVE  ConnectionsReturned' /\ free' \in 0 .. PoolSize
  <2>1. Cardinality(InInsert') = Cardinality(InInsert) - 1
    BY <1>e, HoldersFinite, FS_RemoveElement
  <2>2. r \in InTx
    BY <1>e, HoldersFinite
  <2>3. CASE InTx' = InTx /\ free' = free + 1
    <3>1. PoolSize - free' = Cardinality(InTx') + Cardinality(InInsert')
      BY <1>0, <1>h, <2>3, <2>1, HoldersFinite
    <3> QED BY <1>0, <2>2, <2>3, <3>1, FreeBound DEF ConnectionsReturned, InTx, InInsert
  <2>4. CASE InTx' = InTx \ {r} /\ free' = free + 2
    <3>1. Cardinality(InTx') = Cardinality(InTx) - 1
      BY <2>2, <2>4, HoldersFinite, FS_RemoveElement
    <3>2. PoolSize - free' = Cardinality(InTx') + Cardinality(InInsert')
      BY <1>0, <1>h, <2>4, <2>1, <3>1, HoldersFinite
    <3> QED BY <1>0, <1>e, <2>4, <3>2, FreeBound DEF ConnectionsReturned, InTx, InInsert
  <2> QED BY <1>e, <2>3, <2>4
<1> USE DEF InTx, InInsert, Labels, At, Goto, Refuse, RefuseAndRollback
<1>1. ASSUME NEW r \in Requests, Arrive(r) \/ RefuseUser(r) \/ CacheHit(r) \/ CacheMiss(r)
                                 \/ BeginFails(r) \/ SetCache(r)
      PROVE  InTx' = InTx /\ InInsert' = InInsert /\ free' = free
  BY <1>0, <1>1 DEF Arrive, RefuseUser, CacheHit, CacheMiss, BeginFails, SetCache
<1>2. ASSUME NEW r \in Requests, Select(r)
      PROVE  InTx' = InTx /\ InInsert' = InInsert /\ free' = free
  BY <1>0, <1>2 DEF Select
<1>3. ASSUME NEW r \in Requests, Begin(r)
      PROVE  r \notin InTx /\ InTx' = InTx \cup {r} /\ InInsert' = InInsert /\ free > 0
             /\ free' = free - 1
  BY <1>0, <1>3 DEF Begin
<1>4. ASSUME NEW r \in Requests,
             SelectFails(r) \/ ConnectTimesOut(r) \/ Commit(r) \/ CommitFails(r)
      PROVE  r \in InTx /\ InTx' = InTx \ {r} /\ InInsert' = InInsert /\ free' = free + 1
  BY <1>0, <1>4 DEF SelectFails, ConnectTimesOut, Commit, CommitFails
<1>5. ASSUME NEW r \in Requests, Connect(r)
      PROVE  r \notin InInsert /\ InInsert' = InInsert \cup {r} /\ InTx' = InTx /\ free > 0
             /\ free' = free - 1
  BY <1>0, <1>5 DEF Connect
<1>6. ASSUME NEW r \in Requests, Insert(r)
      PROVE  r \in InInsert /\ InInsert' = InInsert \ {r} /\ InTx' = InTx /\ free' = free + 1
  BY <1>0, <1>6 DEF Insert
<1>7. ASSUME NEW r \in Requests, InsertFails(r)
      PROVE  r \in InInsert /\ InInsert' = InInsert \ {r} /\ InTx' = InTx \ {r}
             /\ free' = free + 2
  BY <1>0, <1>7 DEF InsertFails
<1>8. CASE (\E x \in Users : Expire(x)) \/ Stop \/ ShutdownEnds \/ Docs \/ UNCHANGED vars
  <2>1. pc' = pc /\ free' = free
    BY <1>8 DEF Expire, Stop, ShutdownEnds, Docs, vars, apiVars
  <2> QED BY <2>1, <1>a
<1> QED
  <2> HIDE DEF InTx, InInsert, Labels, At, Goto, Refuse, RefuseAndRollback
  <2>1. ASSUME NEW r \in Requests, Arrive(r) \/ LoadUser(r) \/ Serve(r)
        PROVE  ConnectionsReturned' /\ free' \in 0 .. PoolSize
    BY <2>1, <1>1, <1>2, <1>3, <1>4, <1>5, <1>6, <1>7, <1>a, <1>b, <1>c, <1>d, <1>e
       DEF LoadUser, Serve
  <2> QED BY <2>1, <1>8 DEF Next

--------------------------------------------------------------------------------
(* Types and tokens. *)

LEMMA DocsStepType ==
    ASSUME DocsTypeOK, NEW serving \in BOOLEAN, OpenDocs \/ DocsStep(serving)
    PROVE  DocsTypeOK'
<1>0. Len(Scripts) = 3
  BY DEF Scripts
<1>1. CASE OpenDocs
  BY <1>1 DEF OpenDocs, DocsTypeOK
<1>2. CASE FetchScript(serving)
  <2>1. fetched \in 0 .. 2 /\ fetched' = fetched + 1
    BY <1>0, <1>2 DEF FetchScript, DocsTypeOK
  <2>2. fetched' \in 0 .. 3 /\ 1 .. fetched \subseteq 1 .. fetched' /\ fetched' \in 1 .. fetched'
    BY <2>1
  <2>3. defined' \subseteq defined \cup {Scripts[fetched']}
    BY <1>2 DEF FetchScript
  <2>4. defined' \subseteq {Scripts[i] : i \in 1 .. fetched'}
    BY <2>2, <2>3 DEF DocsTypeOK
  <2>5. page' = page
    BY <1>2 DEF FetchScript
  <2> QED BY <1>0, <2>2, <2>4, <2>5 DEF DocsTypeOK
<1>3. CASE OnLoad \/ FetchDocument(serving)
  BY <1>3 DEF OnLoad, FetchDocument, DocsTypeOK
<1> QED BY <1>1, <1>2, <1>3 DEF DocsStep

LEMMA NextTypeOK ==
    ASSUME TypeOK, ConnectionsReturned, [Next]_vars
    PROVE  TypeOK'
<1> USE SenderAssumption DEF TypeOK, Tokens, At, Goto, Refuse, RefuseAndRollback
<1>0. free' \in 0 .. PoolSize
  BY StepHolders
<1>1. ASSUME NEW r \in Requests, Arrive(r) \/ RefuseUser(r) \/ CacheHit(r) \/ CacheMiss(r)
      PROVE  TypeOK'
  BY <1>0, <1>1 DEF Arrive, RefuseUser, CacheHit, CacheMiss, docsVars, DocsTypeOK
<1>2. ASSUME NEW r \in Requests, Begin(r) \/ BeginFails(r) \/ Select(r) \/ SelectFails(r)
      PROVE  TypeOK'
  BY <1>0, <1>2 DEF Begin, BeginFails, Select, SelectFails, docsVars, DocsTypeOK
<1>3. ASSUME NEW r \in Requests, Connect(r) \/ ConnectTimesOut(r)
      PROVE  TypeOK'
  BY <1>0, <1>3 DEF Connect, ConnectTimesOut, docsVars, DocsTypeOK
<1>4. ASSUME NEW r \in Requests, Commit(r) \/ CommitFails(r) \/ SetCache(r)
      PROVE  TypeOK'
  BY <1>0, <1>4 DEF Commit, CommitFails, SetCache, docsVars, DocsTypeOK
<1>8. ASSUME NEW r \in Requests, Insert(r) \/ InsertFails(r)
      PROVE  TypeOK'
  <2>1. row' \in [Users -> Requests \cup {NoToken}]
    BY <1>8 DEF Insert, InsertFails
  <2>2. pc' \in [Requests -> {"none", "load user", "begin", "select", "insert",
                              "inserting", "commit", "set cache", "answered"}]
    BY <1>8 DEF Insert, InsertFails
  <2>3. u' \in [Requests -> Requests \cup {NoToken}]
    BY <1>8 DEF Insert, InsertFails
  <2> QED BY <1>0, <1>8, <2>1, <2>2, <2>3 DEF Insert, InsertFails, docsVars, DocsTypeOK
<1>5. ASSUME NEW x \in Users, Expire(x)
      PROVE  TypeOK'
  BY <1>0, <1>5 DEF Expire, docsVars, DocsTypeOK
<1>6. CASE Stop \/ ShutdownEnds \/ UNCHANGED vars
  BY <1>0, <1>6 DEF Stop, ShutdownEnds, vars, apiVars, docsVars, DocsTypeOK
<1>7. CASE Docs
  <2>1. DocsTypeOK'
    BY <1>7, DocsStepType DEF Docs
  <2> QED BY <1>0, <1>7, <2>1 DEF Docs, apiVars
<1> QED BY <1>1, <1>2, <1>3, <1>4, <1>5, <1>6, <1>7, <1>8 DEF Next, LoadUser, Serve

\* A row is inserted once and never changed.
LEMMA RowStays ==
    ASSUME TypeOK, [Next]_vars
    PROVE  \A x \in Users : row[x] # NoToken => row'[x] = row[x]
<1> USE DEF TypeOK, Refuse, RefuseAndRollback
<1>1. ASSUME NEW r \in Requests, Arrive(r) \/ LoadUser(r) \/ Serve(r)
      PROVE  \A x \in Users : row[x] # NoToken => row'[x] = row[x]
  BY <1>1, SenderAssumption
     DEF LoadUser, Serve, Arrive, RefuseUser, CacheHit, CacheMiss, Begin, BeginFails,
         Select, SelectFails,
         Connect, ConnectTimesOut, Insert, InsertFails, Commit, CommitFails, SetCache
<1>2. CASE (\E x \in Users : Expire(x)) \/ Stop \/ ShutdownEnds \/ Docs \/ UNCHANGED vars
  BY <1>2 DEF Expire, Stop, ShutdownEnds, Docs, vars, apiVars
<1> QED BY <1>1, <1>2 DEF Next

LEMMA NextTokens ==
    ASSUME TypeOK, OneToken, TokenAtHand, [Next]_vars
    PROVE  OneToken' /\ TokenAtHand'
<1> USE SenderAssumption, TokenAssumption
    DEF TypeOK, OneToken, TokenAtHand, Tokens, At, Goto, Refuse, RefuseAndRollback
<1>0. \A x \in Users : row[x] # NoToken => row'[x] = row[x]
  BY RowStays
<1>1. ASSUME NEW r \in Requests, Arrive(r) \/ RefuseUser(r) \/ CacheHit(r) \/ CacheMiss(r)
      PROVE  OneToken' /\ TokenAtHand'
  BY <1>0, <1>1 DEF Arrive, RefuseUser, CacheHit, CacheMiss
<1>2. ASSUME NEW r \in Requests, Begin(r) \/ BeginFails(r) \/ Select(r) \/ SelectFails(r)
      PROVE  OneToken' /\ TokenAtHand'
  <2>1. row' = row /\ answer' = answer /\ cache' = cache
    BY <1>2 DEF Begin, BeginFails, Select, SelectFails
  <2>2. CASE Select(r)
    <3>1. /\ u'[r] = row[Sender[r]] /\ (u'[r] = NoToken => pc'[r] = "insert")
          /\ \A v \in Requests : v # r => u'[v] = u[v] /\ pc'[v] = pc[v]
      BY <2>2 DEF Select
    <3>2. TokenAtHand'
      BY <2>1, <3>1
    <3> QED BY <2>1, <3>2
  <2>3. CASE Begin(r) \/ BeginFails(r) \/ SelectFails(r)
    <3>1. /\ u' = u
          /\ \A v \in Requests : pc'[v] \in {"commit", "set cache"} => pc'[v] = pc[v]
      BY <2>3 DEF Begin, BeginFails, SelectFails
    <3> QED BY <2>1, <3>1
  <2> QED BY <1>2, <2>2, <2>3
<1>3. ASSUME NEW r \in Requests, Connect(r) \/ ConnectTimesOut(r)
      PROVE  OneToken' /\ TokenAtHand'
  BY <1>0, <1>3 DEF Connect, ConnectTimesOut
<1>4. ASSUME NEW r \in Requests, Insert(r)
      PROVE  OneToken' /\ TokenAtHand'
  <2>1. /\ row[Sender[r]] = NoToken /\ row'[Sender[r]] = r /\ u'[r] = r
        /\ answer' = answer /\ cache' = cache
        /\ \A v \in Requests : v # r => u'[v] = u[v] /\ pc'[v] = pc[v]
    BY <1>4 DEF Insert
  <2>2. OneToken'
    BY <1>0, <2>1
  <2>3. ASSUME NEW v \in Requests, pc'[v] \in {"commit", "set cache"}
        PROVE  u'[v] # NoToken /\ u'[v] = row'[Sender[v]]
    <3>1. CASE v = r
      BY <2>1, <3>1
    <3>2. CASE v # r
      <4>1. u'[v] = u[v] /\ u[v] # NoToken /\ u[v] = row[Sender[v]]
        BY <2>1, <2>3, <3>2
      <4> QED BY <1>0, <4>1
    <3> QED BY <3>1, <3>2
  <2> QED BY <2>2, <2>3
<1>5. ASSUME NEW r \in Requests, InsertFails(r) \/ Commit(r) \/ CommitFails(r) \/ SetCache(r)
      PROVE  OneToken' /\ TokenAtHand'
  <2>1. CASE InsertFails(r)
    <3>1. /\ u' = u /\ answer' = answer /\ cache' = cache
          /\ \A v \in Requests : pc'[v] \in {"commit", "set cache"} => pc'[v] = pc[v]
      BY <2>1 DEF InsertFails
    <3>2. OneToken'
      BY <1>0, <3>1
    <3> QED BY <1>0, <3>1, <3>2
  <2>2. CASE Commit(r) \/ CommitFails(r)
    BY <1>0, <2>2 DEF Commit, CommitFails
  <2>3. CASE SetCache(r)
    <3>1. u[r] = row[Sender[r]] /\ row' = row /\ u' = u
      BY <2>3 DEF SetCache
    <3>2. OneToken'
      BY <2>3, <3>1 DEF SetCache
    <3>3. TokenAtHand'
      BY <2>3, <3>1 DEF SetCache
    <3> QED BY <3>2, <3>3
  <2> QED BY <1>5, <2>1, <2>2, <2>3
<1>6. CASE (\E x \in Users : Expire(x)) \/ Stop \/ ShutdownEnds \/ Docs \/ UNCHANGED vars
  BY <1>6 DEF Expire, Stop, ShutdownEnds, Docs, vars, apiVars
<1> QED BY <1>1, <1>2, <1>3, <1>4, <1>5, <1>6 DEF Next, LoadUser, Serve

--------------------------------------------------------------------------------
LEMMA InitIInv == Init => IInv
<1> SUFFICES ASSUME Init PROVE IInv
  OBVIOUS
<1>1. TypeOK
  BY PoolAssumption DEF Init, TypeOK, Tokens, DocsInit, DocsTypeOK, Scripts
<1>2. InTx = {} /\ InInsert = {}
  BY DEF Init, InTx, InInsert
<1>3. ConnectionsReturned
  BY <1>2, FS_EmptySet, PoolAssumption DEF Init, ConnectionsReturned, InTx, InInsert
<1>4. OneToken /\ TokenAtHand
  BY DEF Init, OneToken, TokenAtHand
<1> QED BY <1>1, <1>3, <1>4 DEF IInv

LEMMA NextIInv == IInv /\ [Next]_vars => IInv'
BY NextTypeOK, NextTokens, StepHolders DEF IInv

LEMMA Invariance == Spec => []IInv
BY InitIInv, NextIInv, PTL DEF Spec

\* The variables keep their types; in particular, there are never more
\* connections free than the pool has, and never fewer than none.
THEOREM UserApiTypeCorrect == Spec => []TypeOK
<1>1. IInv => TypeOK
  BY DEF IInv
<1> QED BY <1>1, Invariance, PTL

\* Every answer with a token, and the cache, have the token of the user's row
\* (users.go:31-63, user_service.go:28-41).
THEOREM EveryUserHasOneToken == Spec => []OneToken
<1>1. IInv => OneToken
  BY DEF IInv
<1> QED BY <1>1, Invariance, PTL

\* Every connection the pool misses is held by a request (users.go:31-35, 51).
THEOREM NoConnectionLost == Spec => []ConnectionsReturned
<1>1. IInv => ConnectionsReturned
  BY DEF IInv
<1> QED BY <1>1, Invariance, PTL

\* The token of a user, once there is one, is never replaced by another: a
\* second insert for one user fails (users.go:51-54).
THEOREM TokensArePermanent ==
    Spec => [][\A x \in Users : row[x] # NoToken => row'[x] = row[x]]_row
<1>1. TypeOK /\ [Next]_vars => [\A x \in Users : row[x] # NoToken => row'[x] = row[x]]_row
  BY RowStays
<1> QED BY <1>1, UserApiTypeCorrect, PTL DEF Spec
================================================================================
