------------------------------- MODULE SqlPool -------------------------------
(***************************************************************************)
(* SqlConnPool and CSqlBase: statements go from the application through    *)
(* two bounded rings, m_sqlCacheReceive and m_sqlCacheIssue, to the list   *)
(* of a worker, which runs them on its database connection and leaves the  *)
(* results in ResultMap.                                                   *)
(*                                                                         *)
(* A copy thread moves statements from ring to ring.  A check thread tests *)
(* the connections, puts those that fail among the spare ones (m_bakList)  *)
(* and activates or retires workers by the number of statements of the     *)
(* last interval.  The rings are CLoopList, whose FIFO behaviour is        *)
(* LoopList's subject: here they are sequences with a capacity.            *)
(***************************************************************************)
EXTENDS Integers, Sequences, FiniteSets, SequencesExt

CONSTANTS
    Workers,     \* the handles: getmaxhandlebuf() of them
    PoolMax,     \* capacity of both rings
    ListMax,     \* capacity of a worker's list
    PerThread,   \* PERSECOND_THREAD_SQL_NUM * CHECKTHREAD_SPACE_TIME
    ReConnEvery, \* check passes between two tests of the connections
    MaxStmts,    \* bound: statements given
    HashOf,      \* their dwHashCode; 0: no result wanted
    MaxOutages   \* bound: times the database goes away

ASSUME SqlConstants ==
    /\ IsFiniteSet(Workers) /\ Workers # {}
    /\ PoolMax \in Nat \ {0} /\ ListMax \in Nat \ {0} /\ PerThread \in Nat \ {0}
    /\ ReConnEvery \in Nat /\ MaxStmts \in Nat /\ MaxOutages \in Nat
    /\ HashOf \in [1..MaxStmts -> Nat]

VARIABLES
    given,              \* statements given so far (accepted or not)
    refused,            \* statements that met a full ring
    receive, issue,     \* the rings
    m_nSqlCountPerSapce,\* statements given since the last check pass
    m_sqllist,          \* list of each worker
    wpc,                \* where each worker is
    done,               \* statements executed, or failed
    ResultMap,          \* results not fetched: their hash codes
    m_MyPool,           \* workers that know their pool
    m_Active, m_bCooncet,
    m_connList, m_bakList,
    cpc,                \* where the check thread is
    todo,               \* the connections it still has to test
    passes,             \* passes since the last test
    nOpen,              \* how many workers AddConnectionFromBak still tries to activate
    db,                 \* the database answers
    outages

stmts == <<given, refused, receive, issue, m_nSqlCountPerSapce>>
work == <<m_sqllist, wpc, done>>
conns == <<m_Active, m_bCooncet, m_connList, m_bakList>>
check == <<cpc, todo, passes, nOpen>>
env == <<db, outages>>
vars == <<stmts, work, ResultMap, m_MyPool, conns, check, env>>

Init ==
    /\ given = 0 /\ refused = {} /\ receive = <<>> /\ issue = <<>> /\ m_nSqlCountPerSapce = 0
    /\ m_sqllist = [w \in Workers |-> <<>>]
    /\ wpc = [w \in Workers |-> "none"]
    /\ done = {} /\ ResultMap = {}
    /\ m_MyPool = {}
    /\ m_Active = [w \in Workers |-> FALSE]
    /\ m_bCooncet = [w \in Workers |-> FALSE]
    /\ m_connList = <<>> /\ m_bakList = <<>>
    /\ cpc = "none" /\ todo = <<>> /\ passes = 0 /\ nOpen = 0
    /\ db = TRUE /\ outages = 0

Least(a, b) == IF a < b THEN a ELSE b

\* Mutant: the capacity is not looked at.
MoveCount_over(to, from, cap) == Len(from)

\* CLoopList::merge: what fits of the second list moves to the end of the first.
MoveCount(to, from, cap) == Least(Len(from), cap - Len(to))

-----------------------------------------------------------------------------
(* InitConnection.  A handle's constructor connects (ReDead tries until it can) and its thread  *)
(* is started before the handle is told its pool.                                               *)

NewHandle(w) ==
    /\ wpc[w] = "none" /\ db
    /\ \A v \in Workers : wpc[v] # "none" => v \in m_MyPool
    /\ wpc' = [wpc EXCEPT ![w] = "started"]
    /\ m_Active' = [m_Active EXCEPT ![w] = TRUE]
    /\ m_bCooncet' = [m_bCooncet EXCEPT ![w] = TRUE]
    /\ UNCHANGED <<stmts, m_sqllist, done, ResultMap, m_MyPool, m_connList, m_bakList, check, env>>

setMyPool(w) ==
    /\ wpc[w] # "none" /\ w \notin m_MyPool
    /\ m_MyPool' = m_MyPool \cup {w}
    /\ m_connList' = Append(m_connList, w)
    /\ cpc' = IF m_MyPool' = Workers THEN "sleep" ELSE cpc
    /\ UNCHANGED <<stmts, work, ResultMap, m_Active, m_bCooncet, m_bakList, todo, passes, nOpen, env>>

-----------------------------------------------------------------------------
(* The application.                                                         *)

\* execSqlAsy, execSelectSqlAsy: whether push_back took the statement is not looked at.
execSqlAsy ==
    /\ given < MaxStmts /\ cpc # "none"
    /\ given' = given + 1
    /\ IF Len(receive) < PoolMax
       THEN receive' = Append(receive, given + 1) /\ UNCHANGED refused
       ELSE refused' = refused \cup {given + 1} /\ UNCHANGED receive
    /\ m_nSqlCountPerSapce' = m_nSqlCountPerSapce + 1
    /\ UNCHANGED <<issue, work, ResultMap, m_MyPool, conns, check, env>>

\* GetSqlRestult, GetEffectCount with boDel: the result is taken out.
GetSqlRestult(h) ==
    /\ h \in ResultMap
    /\ ResultMap' = ResultMap \ {h}
    /\ UNCHANGED <<stmts, work, m_MyPool, conns, check, env>>

-----------------------------------------------------------------------------
(* The copy thread.                                                         *)

\* Mutant: the merge puts the statements in front.
SqlCacheCopyThread_front ==
    /\ cpc # "none"
    /\ receive # <<>> /\ Len(issue) < PoolMax
    /\ LET n == MoveCount(issue, receive, PoolMax) IN
         /\ issue' = SubSeq(receive, 1, n) \o issue
         /\ receive' = SubSeq(receive, n + 1, Len(receive))
    /\ UNCHANGED <<given, refused, m_nSqlCountPerSapce, work, ResultMap, m_MyPool, conns, check, env>>

\* Mutant: what does not fit in the second ring is dropped.
SqlCacheCopyThread_all ==
    /\ cpc # "none"
    /\ receive # <<>> /\ Len(issue) < PoolMax
    /\ issue' = SubSeq(issue \o receive, 1, Least(PoolMax, Len(issue \o receive)))
    /\ receive' = <<>>
    /\ UNCHANGED <<given, refused, m_nSqlCountPerSapce, work, ResultMap, m_MyPool, conns, check, env>>

SqlCacheCopyThread ==
    /\ cpc # "none"
    /\ receive # <<>> /\ Len(issue) < PoolMax
    /\ LET n == MoveCount(issue, receive, PoolMax) IN
         /\ issue' = issue \o SubSeq(receive, 1, n)
         /\ receive' = SubSeq(receive, n + 1, Len(receive))
    /\ UNCHANGED <<given, refused, m_nSqlCountPerSapce, work, ResultMap, m_MyPool, conns, check, env>>

-----------------------------------------------------------------------------
(* A worker: SqlProcessThread.                                              *)

\* The thread ends at once when it does not find its pool.
Begin(w) ==
    /\ wpc[w] = "started"
    /\ wpc' = [wpc EXCEPT ![w] = IF w \in m_MyPool THEN "top" ELSE "ended"]
    /\ UNCHANGED <<stmts, m_sqllist, done, ResultMap, m_MyPool, conns, check, env>>

\* An inactive worker waits for its event.
Wait(w) ==
    /\ wpc[w] = "top"
    /\ wpc' = [wpc EXCEPT ![w] = IF m_Active[w] THEN "take" ELSE "wait"]
    /\ UNCHANGED <<stmts, m_sqllist, done, ResultMap, m_MyPool, conns, check, env>>

\* It takes what fits of the second ring.
Take(w) ==
    /\ wpc[w] = "take"
    /\ LET n == MoveCount(m_sqllist[w], issue, ListMax) IN
         /\ m_sqllist' = [m_sqllist EXCEPT ![w] = @ \o SubSeq(issue, 1, n)]
         /\ issue' = SubSeq(issue, n + 1, Len(issue))
    /\ wpc' = [wpc EXCEPT ![w] = IF m_sqllist'[w] = <<>> THEN "top" ELSE "exec"]
    /\ UNCHANGED <<given, refused, receive, m_nSqlCountPerSapce, done, ResultMap, m_MyPool, conns,
                   check, env>>

\* Mutant: a statement that fails stays in the list, and the worker goes on to the next round.
Exec_keep(w, ok) ==
    /\ wpc[w] = "exec" /\ (ok => db)
    /\ LET s == Head(m_sqllist[w]) IN
       /\ m_sqllist' = [m_sqllist EXCEPT ![w] = IF ok THEN Tail(@) ELSE @]
       /\ done' = IF ok THEN done \cup {s} ELSE done
       /\ wpc' = [wpc EXCEPT ![w] = IF m_sqllist'[w] = <<>> \/ ~ok THEN "top" ELSE "exec"]
       /\ ResultMap' = IF ok /\ HashOf[s] > 0 THEN ResultMap \cup {HashOf[s]} ELSE ResultMap
    /\ UNCHANGED <<stmts, m_MyPool, conns, check, env>>

\* One statement under m_sqlLock, which the worker holds until its list is empty.  One that fails
\* is dropped; a result is added unless its hash code has one already (and is lost then).
Exec(w, ok) ==
    /\ wpc[w] = "exec" /\ (ok => db)
    /\ LET s == Head(m_sqllist[w]) IN
       /\ m_sqllist' = [m_sqllist EXCEPT ![w] = Tail(@)]
       /\ done' = done \cup {s}
       /\ wpc' = [wpc EXCEPT ![w] = IF Tail(m_sqllist[w]) = <<>> THEN "top" ELSE "exec"]
       /\ ResultMap' = IF ok /\ HashOf[s] > 0 THEN ResultMap \cup {HashOf[s]} ELSE ResultMap
    /\ UNCHANGED <<stmts, m_MyPool, conns, check, env>>

-----------------------------------------------------------------------------
(* The check thread.                                                        *)

\* A pass begins; the connections are tested when their time has come: the spare ones first.
SqlConnectCheckThread ==
    /\ cpc = "sleep"
    /\ IF passes >= ReConnEvery
       THEN cpc' = "test" /\ todo' = m_bakList \o m_connList /\ passes' = 0
       ELSE cpc' = "plan" /\ passes' = passes + 1 /\ UNCHANGED todo
    /\ UNCHANGED <<stmts, work, ResultMap, m_MyPool, conns, nOpen, env>>

\* m_connList.erase(it): the entry of w leaves the list.
Erase(s, w) ==
    LET it == CHOOSE i \in DOMAIN s : s[i] = w
    IN  SubSeq(s, 1, it - 1) \o SubSeq(s, it + 1, Len(s))

\* ReOpenDB of one that is not connected, ReConnect of one that is: either needs m_sqlLock, and
\* succeeds if the database answers.  An active worker that cannot be reconnected is retired.
TestOne ==
    /\ cpc = "test" /\ todo # <<>>
    /\ LET w == Head(todo)
           active == Contains(m_connList, w)
           ok == db /\ (m_bCooncet[w] \/ ~active) IN
       /\ wpc[w] # "exec"
       /\ todo' = Tail(todo)
       /\ m_bCooncet' = [m_bCooncet EXCEPT ![w] = ok]
       /\ m_Active' = [m_Active EXCEPT ![w] = @ /\ (ok \/ (~m_bCooncet[w] /\ ~active))]
       /\ IF active /\ ~ok
          THEN m_connList' = Erase(m_connList, w) /\ m_bakList' = Append(m_bakList, w)
          ELSE UNCHANGED <<m_connList, m_bakList>>
    /\ UNCHANGED <<stmts, work, ResultMap, m_MyPool, cpc, passes, nOpen, env>>

TestsDone ==
    /\ cpc = "test" /\ todo = <<>>
    /\ cpc' = "plan"
    /\ UNCHANGED <<stmts, work, ResultMap, m_MyPool, conns, todo, passes, nOpen, env>>

\* The number of workers the statements of the interval ask for.
nTreadCount == (m_nSqlCountPerSapce + PerThread - 1) \div PerThread
nHalfCount == Cardinality(Workers) \div 2

\* Mutant: retires down to what the statements ask for.
nCloseCount_all == Len(m_connList) - nTreadCount

\* DelConnectionFromActive leaves half of the handles.
nCloseCount == Least(Len(m_connList) - nTreadCount, Len(m_connList) - nHalfCount)

\* The number of statements is read here and reset at the end of the pass.
Plan ==
    /\ cpc = "plan"
    /\ CASE Len(m_connList) < nTreadCount /\ m_bakList # <<>> ->
              /\ nOpen' = nTreadCount - Len(m_connList)
              /\ UNCHANGED <<m_Active, m_connList, m_bakList>>
         [] Len(m_connList) > nTreadCount /\ Cardinality(Workers) >= 2
              /\ Len(m_connList) > nHalfCount ->
              LET gone == SubSeq(m_connList, 1, nCloseCount) IN
              /\ m_Active' = [w \in Workers |-> m_Active[w] /\ w \notin ToSet(gone)]
              /\ m_connList' = SubSeq(m_connList, nCloseCount + 1, Len(m_connList))
              /\ m_bakList' = m_bakList \o gone
              /\ nOpen' = 0
         [] OTHER -> nOpen' = 0 /\ UNCHANGED <<m_Active, m_connList, m_bakList>>
    /\ cpc' = "open"
    /\ UNCHANGED <<stmts, work, ResultMap, m_MyPool, m_bCooncet, todo, passes, env>>

\* Mutant: the event is set, the flag is not.
Activate_event(w) ==
    /\ m_connList' = Append(m_connList, w)
    /\ m_bakList' = Tail(m_bakList)
    /\ UNCHANGED <<m_Active, wpc>>

\* Mutant: the worker is not woken up.
Activate_silent(w) ==
    /\ m_connList' = Append(m_connList, w)
    /\ m_bakList' = Tail(m_bakList)
    /\ m_Active' = [m_Active EXCEPT ![w] = TRUE]
    /\ UNCHANGED wpc

\* The first spare worker becomes active: flag and event under the lock of the condition.
Activate(w) ==
    /\ m_connList' = Append(m_connList, w)
    /\ m_bakList' = Tail(m_bakList)
    /\ m_Active' = [m_Active EXCEPT ![w] = TRUE]
    /\ wpc' = [wpc EXCEPT ![w] = IF @ = "wait" THEN "top" ELSE @]

\* One turn of AddConnectionFromBak: it tries the first spare worker only.
AddConnectionFromBak ==
    /\ cpc = "open" /\ nOpen > 0 /\ m_bakList # <<>>
    /\ nOpen' = nOpen - 1
    /\ LET w == Head(m_bakList) IN
       IF m_bCooncet[w] THEN Activate(w) /\ UNCHANGED m_bCooncet
       ELSE /\ wpc[w] # "exec"
            /\ m_bCooncet' = [m_bCooncet EXCEPT ![w] = db]
            /\ IF db THEN Activate(w) ELSE UNCHANGED <<m_connList, m_bakList, m_Active, wpc>>
    /\ UNCHANGED <<stmts, m_sqllist, done, ResultMap, m_MyPool, cpc, todo, passes, env>>

\* The end of a pass: statements given since it read their number are not counted.
PassEnds ==
    /\ cpc = "open" /\ (nOpen = 0 \/ m_bakList = <<>>)
    /\ m_nSqlCountPerSapce' = 0
    /\ cpc' = "sleep"
    /\ nOpen' = 0
    /\ UNCHANGED <<given, refused, receive, issue, work, ResultMap, m_MyPool, conns, todo, passes, env>>

-----------------------------------------------------------------------------
(* The database.                                                            *)

Outage ==
    /\ db /\ outages < MaxOutages
    /\ db' = FALSE /\ outages' = outages + 1
    /\ UNCHANGED <<stmts, work, ResultMap, m_MyPool, conns, check>>

Repair ==
    /\ ~db
    /\ db' = TRUE
    /\ UNCHANGED <<stmts, work, ResultMap, m_MyPool, conns, check, outages>>

Worker(w) == Begin(w) \/ Wait(w) \/ Take(w) \/ \E ok \in BOOLEAN : Exec(w, ok)

Checker == SqlConnectCheckThread \/ TestOne \/ TestsDone \/ Plan \/ AddConnectionFromBak \/ PassEnds

InitConnection == \E w \in Workers : NewHandle(w) \/ setMyPool(w)

Next ==
    \/ InitConnection
    \/ execSqlAsy
    \/ \E i \in 1..MaxStmts : GetSqlRestult(HashOf[i])
    \/ SqlCacheCopyThread
    \/ \E w \in Workers : Worker(w)
    \/ Checker
    \/ Outage \/ Repair

Spec == Init /\ [][Next]_vars

\* The threads of the pool run, and an outage ends; the application owes nothing.
Fairness ==
    /\ WF_vars(InitConnection)
    /\ WF_vars(SqlCacheCopyThread)
    /\ \A w \in Workers : WF_vars(Worker(w))
    /\ SF_vars(Checker)
    /\ WF_vars(Repair)

FairSpec == Spec /\ Fairness

-----------------------------------------------------------------------------
(* Properties.                                                              *)

Statements == 1..MaxStmts

\* Every variable keeps its type.
TypeOK ==
    /\ given \in 0..MaxStmts /\ refused \subseteq Statements /\ done \subseteq Statements
    /\ receive \in Seq(Statements) /\ Len(receive) <= PoolMax
    /\ issue \in Seq(Statements) /\ Len(issue) <= PoolMax
    /\ m_nSqlCountPerSapce \in 0..given
    /\ m_sqllist \in [Workers -> Seq(Statements)] /\ \A w \in Workers : Len(m_sqllist[w]) <= ListMax
    /\ wpc \in [Workers -> {"none", "started", "ended", "top", "wait", "take", "exec"}]
    /\ ResultMap \subseteq Nat /\ m_MyPool \subseteq Workers
    /\ m_Active \in [Workers -> BOOLEAN] /\ m_bCooncet \in [Workers -> BOOLEAN]
    /\ m_connList \in Seq(Workers) /\ m_bakList \in Seq(Workers)
    /\ cpc \in {"none", "sleep", "test", "plan", "open"}
    /\ todo \in Seq(Workers) /\ passes \in 0..ReConnEvery /\ nOpen \in Nat
    /\ db \in BOOLEAN /\ outages \in 0..MaxOutages

Increasing(s) == \A i, j \in DOMAIN s : i < j => s[i] < s[j]

\* The statements up to n are spread over the places and the lists, each in one of them.
InOnePlace(n, places, lists) ==
    /\ 1..n = (UNION {places[i] : i \in 1..4}) \cup (UNION {ToSet(lists[w]) : w \in Workers})
    /\ \A i, j \in 1..4 : i # j => places[i] \cap places[j] = {}
    /\ \A w \in Workers : \A i \in 1..4 : ToSet(lists[w]) \cap places[i] = {}
    /\ \A v, w \in Workers : v # w => ToSet(lists[v]) \cap ToSet(lists[w]) = {}

\* No statement is lost or run twice, whatever the copy thread, the workers and the check thread
\* do: each one given is in one place, refused, in a ring, with one worker or done
\* (execSqlAsy, SqlCacheCopyThread, SqlProcessThread).
StatementOnce ==
    InOnePlace(given, <<refused, ToSet(receive), ToSet(issue), done>>, m_sqllist)

\* One worker runs the statements it gets in the order they were given, and none of them is
\* younger than one still in a ring (CLoopList::merge twice).
GivenOrder == \A w \in Workers : Increasing(m_sqllist[w] \o issue \o receive)

\* A worker that waits for its event is inactive: activating it (AddConnectionFromBak) never
\* misses the thread that goes to sleep at the same time.
NoLostWakeup == \A w \in Workers : wpc[w] = "wait" => ~m_Active[w]

\* The two lists of the pool and the flags the worker threads read tell the same story, after
\* retirements, failed reconnects and activations.
ActiveIsListed ==
    /\ IsInjective(m_connList \o m_bakList)
    /\ ToSet(m_connList \o m_bakList) = m_MyPool
    /\ \A w \in m_MyPool : m_Active[w] <=> Contains(m_connList, w)

\* A worker never goes to sleep with statements in its list: nobody else could run them.
InactiveHoldsNothing == \A w \in Workers : wpc[w] \in {"top", "wait"} => m_sqllist[w] = <<>>

\* Retiring workers leaves half of the handles active (SqlConnectCheckThread: nHalfCount).
HalfKept == [][cpc = "plan" => Len(m_connList') >= Least(Len(m_connList), nHalfCount)]_vars

Unserved == (1..given) \ (refused \cup done) # {}

\* The accepted statements are all run in the end, unless a worker ended at its start
\* (ActiveHasThread) or all workers stay retired after an outage: then nothing activates one
\* before another statement is given (SqlConnectCheckThread, SqlProcessThread).
Served ==
    Unserved ~> (~Unserved \/ (\E w \in Workers : wpc[w] = "ended") \/ [](m_connList = <<>>))

\* Claim of the log line connPool.cpp:331, which reports the size of m_connList as the number of
\* active threads: the members of the list have a thread.
ActiveHasThread == \A w \in Workers : Contains(m_connList, w) => wpc[w] # "ended"

\* Each statement is in one place, and each worker runs its own in the order they were given.
StatementsKept == StatementOnce /\ GivenOrder

\* The pool's lists, the flags and the sleeping workers agree: nobody sleeps who is active, or
\* with statements, while workers are retired and activated (AddConnectionFromBak).
WorkersKept == ActiveIsListed /\ InactiveHoldsNothing /\ NoLostWakeup
=============================================================================
