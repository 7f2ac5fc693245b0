--------------------------------- MODULE UserApi --------------------------------
(***************************************************************************)
(* The user api (internal/user_api, internal/pkg/storage/postgres): each   *)
(* user has one api token, made when it is first asked for and kept in     *)
(* Postgres, and for an hour in a cache.                                   *)
(*                                                                         *)
(* GetOrCreateUser begins a transaction and selects the user in it.  The   *)
(* INSERT goes through the pool instead (p.db): it needs a second          *)
(* connection while the first is held, and is committed by itself.         *)
(*                                                                         *)
(* Abstracted: LoadUser asks the identity provider, or a cache, whether    *)
(* the request's token is good; any answer may come at any time, or none.  *)
(***************************************************************************)
EXTENDS Integers, FiniteSets, DocsPage

CONSTANTS
    Requests,   \* requests to /api_token
    Users,      \* provider ids
    Sender,     \* who sends each request
    PoolSize,   \* connections of the pool
    NoToken     \* no api token

\* The uuid a request would make is named by the request.
ASSUME PoolAssumption == PoolSize \in Nat /\ IsFiniteSet(Requests)
ASSUME SenderAssumption == Sender \in [Requests -> Users]
ASSUME TokenAssumption == NoToken \notin Requests

VARIABLES
    server,     \* is the process serving, shutting down or gone?
    pc,         \* where each request is
    u,          \* the token GetOrCreateUser has come to
    answer,     \* the token of its answer
    row,        \* the table users: the token of each user
    cache,      \* a.cache
    free        \* connections that nobody holds

apiVars == <<server, pc, u, answer, row, cache, free>>
vars == <<apiVars, docsVars>>

Init ==
    /\ server = "up"
    /\ pc = [r \in Requests |-> "none"]
    /\ u = [r \in Requests |-> NoToken]
    /\ answer = [r \in Requests |-> NoToken]
    /\ row = [x \in Users |-> NoToken]
    /\ cache = [x \in Users |-> NoToken]
    /\ free = PoolSize
    /\ DocsInit

Alive == server # "down"
At(r, label) == Alive /\ pc[r] = label
Goto(r, label) == pc' = [pc EXCEPT ![r] = label]

\* Echo answers with an error; the answer has no token.
Refuse(r) == Goto(r, "answered") /\ UNCHANGED <<server, u, answer, row, cache, docsVars>>

--------------------------------------------------------------------------------
(* The handler and its middleware. *)

Arrive(r) ==
    /\ server = "up" /\ pc[r] = "none" /\ Goto(r, "load user")
    /\ UNCHANGED <<server, u, answer, row, cache, free, docsVars>>

\* LoadUser lets the request pass and the user's address is verified; or not.  It
\* shares nothing with the other requests.
RefuseUser(r) == At(r, "load user") /\ Refuse(r) /\ UNCHANGED free

CacheHit(r) ==
    /\ At(r, "load user") /\ cache[Sender[r]] # NoToken
    /\ answer' = [answer EXCEPT ![r] = cache[Sender[r]]]
    /\ Goto(r, "answered")
    /\ UNCHANGED <<server, u, row, cache, free, docsVars>>

CacheMiss(r) ==
    /\ At(r, "load user") /\ cache[Sender[r]] = NoToken
    /\ Goto(r, "begin")
    /\ UNCHANGED <<server, u, answer, row, cache, free, docsVars>>

\* The token is in the cache for an hour.
Expire(x) ==
    /\ Alive /\ cache[x] # NoToken
    /\ cache' = [cache EXCEPT ![x] = NoToken]
    /\ UNCHANGED <<server, pc, u, answer, row, free, docsVars>>

--------------------------------------------------------------------------------
(* GetOrCreateUser. *)

\* A connection, and BEGIN.
Begin(r) ==
    /\ At(r, "begin") /\ free > 0
    /\ free' = free - 1
    /\ Goto(r, "select")
    /\ UNCHANGED <<server, u, answer, row, cache, docsVars>>

\* The wait for a connection is over (PoolTimeout), or BEGIN fails.
BeginFails(r) == At(r, "begin") /\ Refuse(r) /\ UNCHANGED free

Select(r) ==
    /\ At(r, "select")
    /\ u' = [u EXCEPT ![r] = row[Sender[r]]]
    /\ Goto(r, IF row[Sender[r]] = NoToken THEN "insert" ELSE "commit")
    /\ UNCHANGED <<server, answer, row, cache, free, docsVars>>

\* The deferred Rollback gives the connection of the transaction back.
RefuseAndKeep(r) == Refuse(r) /\ UNCHANGED free   \* slip: no Rollback after an error
RefuseAndRollback(r) == Refuse(r) /\ free' = free + 1

SelectFails(r) == At(r, "select") /\ RefuseAndRollback(r)

\* p.db.QueryOne: a second connection.
Connect(r) ==
    /\ At(r, "insert") /\ free > 0
    /\ free' = free - 1
    /\ Goto(r, "inserting")
    /\ UNCHANGED <<server, u, answer, row, cache, docsVars>>

\* Nobody gives one back until PoolTimeout.
ConnectFails(r) ==   \* slip: the wait for a connection has no end
    At(r, "insert") /\ free > 0 /\ RefuseAndRollback(r)

ConnectTimesOut(r) == At(r, "insert") /\ RefuseAndRollback(r)

\* INSERT in a transaction of its own; the index on the provider id is unique.
Upsert(r) ==   \* slip: ON CONFLICT DO UPDATE
    /\ At(r, "inserting")
    /\ row' = [row EXCEPT ![Sender[r]] = r]
    /\ u' = [u EXCEPT ![r] = r]
    /\ free' = free + 1
    /\ Goto(r, "commit")
    /\ UNCHANGED <<server, answer, cache, docsVars>>

Insert(r) ==
    /\ At(r, "inserting") /\ row[Sender[r]] = NoToken
    /\ row' = [row EXCEPT ![Sender[r]] = r]
    /\ u' = [u EXCEPT ![r] = r]
    /\ free' = free + 1
    /\ Goto(r, "commit")
    /\ UNCHANGED <<server, answer, cache, docsVars>>

\* The user is there already, or the connection fails, before or after the row is
\* stored.  Both connections are given back.
InsertFails(r) ==
    /\ At(r, "inserting")
    /\ row' \in {row, [row EXCEPT ![Sender[r]] = IF @ = NoToken THEN r ELSE @]}
    /\ free' = free + 2
    /\ Goto(r, "answered")
    /\ UNCHANGED <<server, u, answer, cache, docsVars>>

Commit(r) ==
    /\ At(r, "commit")
    /\ free' = free + 1
    /\ Goto(r, "set cache")
    /\ UNCHANGED <<server, u, answer, row, cache, docsVars>>

\* The row that was inserted stays.
ReleaseTwice(r) ==   \* slip: Commit and Rollback both give the connection back
    At(r, "commit") /\ Refuse(r) /\ free' = free + 2

CommitFails(r) == At(r, "commit") /\ RefuseAndRollback(r)

SetCache(r) ==
    /\ At(r, "set cache")
    /\ cache' = [cache EXCEPT ![Sender[r]] = u[r]]
    /\ answer' = [answer EXCEPT ![r] = u[r]]
    /\ Goto(r, "answered")
    /\ UNCHANGED <<server, u, row, free, docsVars>>

--------------------------------------------------------------------------------
(***************************************************************************)
(* The process.  Stop shuts the server down, which waits for the requests  *)
(* there are but for ten seconds at most, and the process ends.            *)
(***************************************************************************)
Stop ==
    /\ server = "up" /\ server' = "shutting down"
    /\ UNCHANGED <<pc, u, answer, row, cache, free, docsVars>>

\* No request is in flight any more, or the time is over.
ShutdownEnds ==
    /\ server = "shutting down" /\ server' = "down"
    /\ UNCHANGED <<pc, u, answer, row, cache, free, docsVars>>

--------------------------------------------------------------------------------
LoadUser(r) == RefuseUser(r) \/ CacheHit(r) \/ CacheMiss(r)

\* GetOrCreateUser and what the handler does after it.
Serve(r) ==
    \/ Begin(r) \/ BeginFails(r) \/ Select(r) \/ SelectFails(r)
    \/ Connect(r) \/ ConnectTimesOut(r) \/ Insert(r) \/ InsertFails(r)
    \/ Commit(r) \/ CommitFails(r) \/ SetCache(r)

Docs == (OpenDocs \/ DocsStep(server = "up")) /\ UNCHANGED apiVars

Next ==
    \/ \E r \in Requests : Arrive(r) \/ LoadUser(r) \/ Serve(r)
    \/ \E x \in Users : Expire(x)
    \/ Stop \/ ShutdownEnds
    \/ Docs

Spec == Init /\ [][Next]_vars

\* Fairness: past LoadUser a request goes on, as every statement has a timeout, and
\* so has the wait for a connection (storage.go:24-30).  LoadUser itself may wait for
\* ever: it calls the identity provider with the context of the process, without a
\* deadline (auth.go:70, 119).  Nothing is assumed of users, browsers and signals.
Fairness == \A r \in Requests : WF_vars(Serve(r))

LiveSpec == Spec /\ Fairness

--------------------------------------------------------------------------------
Tokens == Requests \cup {NoToken}

TypeOK ==
    /\ server \in {"up", "shutting down", "down"}
    /\ pc \in [Requests -> {"none", "load user", "begin", "select", "insert",
                            "inserting", "commit", "set cache", "answered"}]
    /\ u \in [Requests -> Tokens] /\ answer \in [Requests -> Tokens]
    /\ row \in [Users -> Tokens] /\ cache \in [Users -> Tokens]
    /\ free \in 0 .. PoolSize
    /\ DocsTypeOK

\* Every answer with a token has the one that is in the user's row, and so has the
\* cache: whichever of several first requests creates the row, whatever fails
\* after the row was stored, and however late a request comes to fill the cache
\* (users.go:31-63, user_service.go:28-41).
OneToken ==
    /\ \A r \in Requests : answer[r] # NoToken => answer[r] = row[Sender[r]]
    /\ \A x \in Users : cache[x] # NoToken => cache[x] = row[x]

\* Every connection the pool misses is held by a request that is still using it, so
\* that failed requests do not use the pool up (users.go:31-35, 51).
ConnectionsReturned ==
    PoolSize - free = Cardinality({r \in Requests :
                                      pc[r] \in {"select", "insert", "inserting", "commit"}})
                      + Cardinality({r \in Requests : pc[r] = "inserting"})

\* Every request that the identity provider has let pass is answered, also when requests
\* of new users hold all connections and each waits for a second one: PoolTimeout ends
\* that, nothing else would (users.go:31-55).
RequestsAreAnswered ==
    \A r \in Requests : pc[r] = "begin" ~> (pc[r] = "answered" \/ server = "down")
================================================================================
