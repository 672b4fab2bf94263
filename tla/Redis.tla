------------------------------- MODULE Redis -------------------------------
(***************************************************************************)
(* The two Redis clients of NoSqlDBCache (dbcache/db_cache.cpp) and what   *)
(* RedisSyncClient (dbcache/redis_client.cpp) does with a context, a reply *)
(* and a connection that breaks.  One thread uses the cache client, one    *)
(* the subscriber.  A key, a value or a message is the number of the call  *)
(* that carries it; one key, one hash with two fields, one channel.        *)
(* hiredis and the server are external: a context is NULL, usable or in    *)
(* error, and a command on a context in error has no reply.                *)
(***************************************************************************)
EXTENDS Naturals, Sequences, FiniteSets

CONSTANTS MaxOps,      \* calls the application makes on the cache client
          MaxBreaks    \* times the server stops or a connection is lost

VARIABLES
    server,     \* [up, stored, listed, hash, published]: what Redis holds
    breaks,     \* times so far
    context,    \* client -> m_redis_context: "NULL", "ok", "stale" (closed by the server), "err"
    op,         \* the call in progress on the cache client
    vec,        \* the caller's vector, reused from call to call
    sub,        \* the subscriber: m_is_subscribe, m_redis_reply, its connection
    received,   \* messages PacketSubScribe returned
    crashed     \* the process has ended

redisVars == <<server, breaks, context, op, vec, sub, received, crashed>>

\* Calls that reconnect and try a second time, and calls that ignore how they ended.
Retried == {"publish", "set", "get", "del", "keys", "exists"}
Plain   == {"hmset", "hmget", "hgetall", "sadd", "smembers", "zadd"}
Fields  == {"f", "g"}

NoOp == [kind |-> "none", n |-> 0, pc |-> "idle", second |-> FALSE, ok |-> FALSE,
         lost |-> FALSE, lostAgain |-> FALSE, refused |-> FALSE, error |-> FALSE, runs |-> 0]

InitRedis ==
    /\ server = [up |-> TRUE, stored |-> 0, listed |-> {}, hash |-> [f \in Fields |-> 0], published |-> <<>>]
    /\ breaks = 0
    /\ context = [cache |-> "NULL", sub |-> "NULL"]
    /\ op = NoOp
    /\ vec = <<>>
    /\ sub = [pc |-> "idle", is_subscribe |-> FALSE, reply |-> "NULL", inbox |-> <<>>, from |-> 0, live |-> FALSE]
    /\ received = <<>>
    /\ crashed = FALSE

(***************************************************************************)
(* The server.                                                             *)
(***************************************************************************)
Executed(kind, n) ==
    CASE kind = "publish" -> [server EXCEPT !.published = Append(@, n)]
      [] kind = "set"     -> [server EXCEPT !.stored = n]
      [] kind = "del"     -> [server EXCEPT !.stored = 0]
      [] kind = "zadd"    -> [server EXCEPT !.listed = @ \cup {n}]
      [] kind = "hmset"   -> [server EXCEPT !.hash = [f \in Fields |-> n]]
      [] OTHER            -> server

\* The messages a subscribed connection holds after the server has run a command.
Delivered(kind, n) ==
    IF kind = "publish" /\ sub.live THEN [sub EXCEPT !.inbox = Append(@, n)] ELSE sub

\* A connection breaks; what it has not delivered is gone.
ServerStops ==
    /\ breaks < MaxBreaks /\ server.up
    /\ server' = [server EXCEPT !.up = FALSE]
    /\ sub' = [sub EXCEPT !.inbox = <<>>, !.live = FALSE]
    /\ context' = [c \in DOMAIN context |-> IF context[c] = "ok" THEN "stale" ELSE context[c]]
    /\ breaks' = breaks + 1
    /\ UNCHANGED <<op, vec, received, crashed>>

ServerStarts ==
    /\ ~server.up
    /\ server' = [server EXCEPT !.up = TRUE]
    /\ UNCHANGED <<breaks, context, op, vec, sub, received, crashed>>

(***************************************************************************)
(* RedisCmd: what redisCommandArgv may return on a client's context, as    *)
(* the reply, whether the connection was lost and whether the server ran   *)
(* the command.                                                            *)
(***************************************************************************)
Outcome(reply, lost, run) == [reply |-> reply, lost |-> lost, run |-> run]

RedisCmd(c) ==
    CASE context[c] = "ok" ->
            {Outcome("ok", FALSE, TRUE), Outcome("ERROR", FALSE, FALSE)}
            \cup (IF breaks < MaxBreaks
                  THEN {Outcome("NULL", TRUE, FALSE), Outcome("NULL", TRUE, TRUE)} ELSE {})
      [] context[c] = "stale" -> {Outcome("NULL", TRUE, FALSE)}
      [] OTHER -> {Outcome("NULL", FALSE, FALSE)}

\* What a lost command leaves: the context in error, for every later command.
Count(c, r) == breaks' = IF r.lost /\ context[c] = "ok" THEN breaks + 1 ELSE breaks
Mark(c, r) == context' = IF r.lost THEN [context EXCEPT ![c] = "err"] ELSE context

\* RedisConnect connects only a client without a context; it refuses one that has it.
RedisConnect(c) == context[c] = "NULL" /\ server.up

(***************************************************************************)
(* NoSqlDBCache::Open: the subscriber is connected only after the cache.   *)
(***************************************************************************)
Open ==
    /\ op.pc = "idle"
    /\ context' = IF RedisConnect("cache") THEN [context EXCEPT !.cache = "ok"] ELSE context
    /\ op' = IF RedisConnect("cache") THEN [op EXCEPT !.pc = "open"] ELSE op
    /\ UNCHANGED <<server, breaks, vec, sub, received, crashed>>

OpenSubscriber ==
    /\ op.pc = "open"
    /\ context' = IF RedisConnect("sub") THEN [context EXCEPT !.sub = "ok"] ELSE context
    /\ op' = [op EXCEPT !.pc = "idle"]
    /\ UNCHANGED <<server, breaks, vec, sub, received, crashed>>

(***************************************************************************)
(* The calls on the cache client.                                          *)
(***************************************************************************)
\* The vector of fields a caller builds for HMGET, unless it uses its last one again.
Empty == <<[field |-> "g", value |-> <<>>], [field |-> "f", value |-> <<>>]>>

Begin(kind) ==
    /\ op.pc = "idle" /\ op.n < MaxOps
    /\ op' = [NoOp EXCEPT !.kind = kind, !.n = op.n + 1, !.pc = "try"]
    /\ vec' \in {vec} \cup (IF kind = "hmget" THEN {Empty} ELSE {})
    /\ UNCHANGED <<server, breaks, context, sub, received, crashed>>

\* The functions that take an error reply for a failure; SET and DEL do not look at it.
ErrorFails == {"publish", "get", "keys", "exists"}

\* Which replies a client function reports as a failure.
IsFailure(kind, reply) == reply = "NULL" \/ (reply = "ERROR" /\ kind \in ErrorFails)

\* The arrays of HMGET, HGETALL, KEYS and SMEMBERS, put into the caller's vector.
Array(kind) ==
    CASE kind = "hmget"   -> [i \in DOMAIN vec |-> [vec[i] EXCEPT !.value = @ \o <<server.hash[vec[i].field]>>]]
      [] kind = "hgetall" -> IF server.hash["f"] = 0 THEN <<>>
                             ELSE <<[field |-> "f", value |-> <<server.hash["f"]>>],
                                    [field |-> "g", value |-> <<server.hash["g"]>>]>>
      [] OTHER            -> vec

\* Mutant: HGETALL adds to what the vector held.
AnswerKeeps(kind, reply) ==
    IF reply = "ok" THEN (IF kind = "hgetall" THEN vec ELSE <<>>) \o Array(kind) ELSE vec

\* HGETALL clears the vector on any reply, then fills it from an array.
Answer(kind, reply) ==
    CASE reply = "ok" -> Array(kind)
      [] reply = "ERROR" /\ kind = "hgetall" -> <<>>
      [] OTHER -> vec

\* Mutant: SetRedisData does not try again.
AfterTryOnce(kind, r) ==
    IF ~IsFailure(kind, r.reply)
    THEN [op EXCEPT !.pc = IF kind = "set" THEN "list" ELSE "idle", !.ok = TRUE]
    ELSE [op EXCEPT !.pc = IF kind \in Retried \ {"set"} /\ ~op.second THEN "reconnect" ELSE "idle"]

\* Mutant: SET is not followed by the ZADD that lists its key.
AfterTryUnlisted(kind, r) ==
    IF ~IsFailure(kind, r.reply)
    THEN [op EXCEPT !.pc = "idle", !.ok = TRUE]
    ELSE [op EXCEPT !.pc = IF kind \in Retried /\ ~op.second THEN "reconnect" ELSE "idle"]

\* Where a call goes after one attempt.
AfterTry(kind, r) ==
    IF ~IsFailure(kind, r.reply)
    THEN [op EXCEPT !.pc = IF kind = "set" THEN "list" ELSE "idle", !.ok = TRUE]
    ELSE [op EXCEPT !.pc = IF kind \in Retried /\ ~op.second THEN "reconnect" ELSE "idle", !.ok = FALSE]

Try ==
    /\ op.pc = "try"
    /\ \E r \in RedisCmd("cache") :
        /\ op' = [AfterTry(op.kind, r) EXCEPT
                     !.lost = @ \/ r.lost,
                     !.lostAgain = op.second /\ r.lost,
                     !.error = @ \/ r.reply = "ERROR",
                     !.runs = @ + IF r.run THEN 1 ELSE 0]
        /\ server' = IF r.run THEN Executed(op.kind, op.n) ELSE server
        /\ sub' = IF r.run THEN Delivered(op.kind, op.n) ELSE sub
        /\ vec' = Answer(op.kind, r.reply)
        /\ Count("cache", r) /\ Mark("cache", r)
    /\ UNCHANGED <<received, crashed>>

\* RedisBigStringUpdataSet: the key set is put into RedisUpdataTableSet.
UpdataSet ==
    /\ op.pc = "list"
    /\ \E r \in RedisCmd("cache") :
        /\ server' = IF r.run THEN Executed("zadd", op.n) ELSE server
        /\ op' = [op EXCEPT !.pc = "idle",
                            !.lost = @ \/ r.lost,
                            !.error = @ \/ r.reply = "ERROR"]
        /\ Count("cache", r) /\ Mark("cache", r)
    /\ UNCHANGED <<vec, sub, received, crashed>>

\* Mutant: the old context is kept, so that RedisConnect refuses to connect.
ReConnectObjKeeps ==
    /\ op.pc = "reconnect"
    /\ context' = IF RedisConnect("cache") THEN [context EXCEPT !.cache = "ok"] ELSE context
    /\ op' = [op EXCEPT !.pc = "try", !.second = TRUE, !.refused = ~server.up]
    /\ UNCHANGED <<server, breaks, vec, sub, received, crashed>>

\* ReConnectObj: free, connect, and try again whatever came of it.  hiredis 0.11
\* reads the context it frees, later versions return at NULL: both are outcomes.
ReConnectObj ==
    /\ op.pc = "reconnect"
    /\ context' = [context EXCEPT !.cache = IF server.up THEN "ok" ELSE "NULL"]
    /\ op' = [op EXCEPT !.pc = "try", !.second = TRUE, !.refused = ~server.up]
    /\ crashed' \in (IF context.cache = "NULL" THEN BOOLEAN ELSE {FALSE})
    /\ UNCHANGED <<server, breaks, vec, sub, received>>

(***************************************************************************)
(* PacketSubScribe: SUBSCRIBE once, then one message per call.  RedisCmd   *)
(* takes the first thing the connection holds for its reply.               *)
(***************************************************************************)
\* Mutant: m_is_subscribe is never set; the next SUBSCRIBE takes a message for its reply.
SubscribeAgain ==
    /\ sub.pc = "idle" /\ context.sub # "NULL"
    /\ \E r \in RedisCmd("sub") :
            /\ sub' = IF sub.live /\ sub.inbox # <<>> /\ r.reply = "ok"
                      THEN [sub EXCEPT !.pc = "wait", !.inbox = Tail(@), !.reply = "freed"]
                      ELSE [sub EXCEPT !.pc = "wait", !.reply = IF r.reply = "NULL" THEN "NULL" ELSE "freed",
                                       !.live = @ \/ r.reply = "ok",
                                       !.from = IF sub.live THEN @ ELSE Len(server.published)]
            /\ Count("sub", r) /\ Mark("sub", r)
    /\ UNCHANGED <<server, op, vec, received, crashed>>

Subscribe ==
    /\ sub.pc = "idle" /\ context.sub # "NULL"
    /\ IF sub.is_subscribe
       THEN /\ sub' = [sub EXCEPT !.pc = "wait"]
            /\ UNCHANGED <<breaks, context>>
       ELSE \E r \in RedisCmd("sub") :
            /\ sub' = [sub EXCEPT !.pc = "wait", !.is_subscribe = TRUE,
                                  !.reply = IF r.reply = "NULL" THEN "NULL" ELSE "freed",
                                  !.live = @ \/ r.reply = "ok",
                                  !.from = Len(server.published)]
            /\ Count("sub", r) /\ Mark("sub", r)
    /\ UNCHANGED <<server, op, vec, received, crashed>>

\* redisGetReply has a message.
GetMessage ==
    /\ sub.pc = "wait" /\ context.sub = "ok" /\ sub.live /\ sub.inbox # <<>>
    /\ received' = Append(received, Head(sub.inbox))
    /\ sub' = [sub EXCEPT !.pc = "idle", !.inbox = Tail(@), !.reply = "NULL"]
    /\ UNCHANGED <<server, breaks, context, op, vec, crashed>>

\* redisGetReply fails: m_redis_reply still is what SUBSCRIBE left, already freed.
GetFails ==
    /\ sub.pc = "wait" /\ (context.sub \in {"err", "stale"} \/ ~sub.live)
    /\ context' = [context EXCEPT !.sub = "err"]
    /\ crashed' = (sub.reply = "freed")
    /\ sub' = [sub EXCEPT !.pc = "idle", !.reply = "NULL"]
    /\ UNCHANGED <<server, breaks, op, vec, received>>

NextRedis ==
    /\ ~crashed
    /\ \/ ServerStops \/ ServerStarts
       \/ Open \/ OpenSubscriber
       \/ \E kind \in Retried \cup Plain : Begin(kind)
       \/ Try \/ UpdataSet \/ ReConnectObj
       \/ Subscribe \/ GetMessage \/ GetFails

SpecRedis == InitRedis /\ [][NextRedis]_redisVars

(***************************************************************************)
(* Properties.                                                             *)
(***************************************************************************)
Ended == op.pc = "idle" /\ op.kind # "none"

\* The purpose of ReConnectObj (db_cache.cpp 41-49): a call that is retried fails only
\* when the second connection broke too, the server refused to connect, or it answered
\* with an error; one broken connection, broken before the call or during it, is hidden.
RetryHides ==
    (Ended /\ op.kind \in Retried /\ ~op.ok) => (op.lostAgain \/ op.refused \/ op.error)

\* A call that reports success was run by the server in its last attempt, and twice only
\* if its first attempt was lost after it ran or answered with an error (a second PUBLISH
\* is a second message); SET and DEL take an error for success (redis_client.cpp 590, 619).
SuccessIsExecuted ==
    (Ended /\ op.ok) =>
        /\ op.runs >= 1 \/ (op.error /\ ~IsFailure(op.kind, "ERROR"))
        /\ op.runs = 2 => op.second /\ op.lost

\* RedisBigStringSetHash lists the key it set in RedisUpdataTableSet (597-601): a value that
\* SetRedisData stored is listed unless the server or the connection failed during the call.
StoredIsListed ==
    (Ended /\ op.kind = "set" /\ op.ok /\ ~op.lost /\ ~op.error)
        => (server.stored = op.n /\ op.n \in server.listed)

\* What the subscriber received is what was published since it subscribed, without a gap and
\* in order, and so is what its connection still holds.
NoGap ==
    LET all == received \o sub.inbox IN
    sub.live => all = SubSeq(server.published, sub.from + 1, sub.from + Len(all))

\* A vector that HGETALL filled is the hash, field by field, whatever it held before
\* (RedisGetHashAll 174-205).
AllIsTheHash ==
    (Ended /\ op.kind = "hgetall" /\ op.ok /\ ~op.error) =>
        /\ Len(vec) = Cardinality({f \in Fields : server.hash[f] # 0})
        /\ \A f \in Fields : server.hash[f] # 0 =>
            \E i \in DOMAIN vec : vec[i] = [field |-> f, value |-> <<server.hash[f]>>]

\* What NoSqlDBCache owes the caller of one call, in these four parts.
CallsKept == RetryHides /\ SuccessIsExecuted /\ StoredIsListed /\ AllIsTheHash

\* What the cache's calls say is what the server did, and its subscriber misses nothing, through
\* restarts and lost connections (RedisCmd, ReConnectObj, PacketSubScribe).
RedisKept == CallsKept /\ NoGap

=============================================================================
