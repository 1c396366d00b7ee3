---------------------------- MODULE SQLDatabase ----------------------------
(***************************************************************************)
(* vpl::SQLDatabase (Tools/SQLDatabase.{h,cpp}) and the thread that runs   *)
(* its queries in non-blocking mode.  The client is the thread that calls  *)
(* the object's operations (the parsing thread, or the main thread while   *)
(* nothing is parsed).  In non-blocking mode the first query allocates an  *)
(* SQLThreadData and starts ProcessQueries on it; from then on a query is  *)
(* pushed to that object's SafeQueue, of which SafeQueue.tla shows that it *)
(* is the bounded FIFO used here, and the worker hands it to MySQL.        *)
(*                                                                         *)
(* Queries are numbered in the order they are issued.  The MySQL client    *)
(* library is external: a connection holds at most one unread result set,  *)
(* a command given to it before that set is stored is refused ("commands   *)
(* out of sync"), and storing finds a result set only when there is one.   *)
(***************************************************************************)
EXTENDS Integers, Sequences, FiniteSets

CONSTANTS
  Kinds,            \* the kinds of queries the client issues
  Modes,            \* the values of sqlNonBlockingMode the database is opened with
  QueueCapacity,    \* how many queries the SafeQueue holds
  MaxQueries,       \* bound: queries issued in a behaviour
  MaxThreads,       \* bound: SQLThreadData objects created in a behaviour
  ThreadsMayFail,   \* whether the system may refuse to start a thread
  QueriesMayFail    \* whether the server may reject a query

ASSUME SQLAssumption ==
  /\ Kinds \subseteq {"select", "update"}
  /\ Modes \subseteq BOOLEAN
  /\ QueueCapacity \in Nat \ {0}
  /\ MaxQueries \in Nat /\ MaxThreads \in Nat
  /\ ThreadsMayFail \in BOOLEAN /\ QueriesMayFail \in BOOLEAN

VARIABLES
  isOpen,           \* m_isOpen
  nonBlocking,      \* m_nonBlockingMode
  pThreadData,      \* m_pThreadData: NULL or which of the objects
  threadData,       \* the SQLThreadData objects of the behaviour
  worker,           \* the ProcessQueries thread of each object
  client,           \* where the caller is, and in which query
  issued,           \* the queries issued: their kind and who is to run them
  log,              \* the queries the server received, in that order
  rejected,         \* the queries MySQL refused
  unread,           \* the query whose result set waits on the connection
  stored,           \* what the last StoreQueryResult found
  crashed           \* a thread has used freed memory and brought the program down

vars == <<isOpen, nonBlocking, pThreadData, threadData, worker, client,
          issued, log, rejected, unread, stored, crashed>>
session == <<isOpen, nonBlocking, pThreadData>>
server == <<log, rejected, unread>>

Threads == 1 .. MaxThreads
Queries == 1 .. MaxQueries
NULL == 0
None == 0
Inline == 0

States == {"READY", "RUNNING", "STOP_REQUESTED", "STOPPED"}

TypeOK ==
  /\ isOpen \in BOOLEAN /\ nonBlocking \in BOOLEAN /\ crashed \in BOOLEAN
  /\ pThreadData \in Threads \cup {NULL}
  /\ threadData \in [Threads -> [allocated : {"no", "yes", "deleted"},
                                 state : States, queries : Seq(Queries)]]
  /\ \A t \in Threads : Len(threadData[t].queries) <= QueueCapacity
  /\ worker \in [Threads -> [at : {"none", "start", "while", "pop", "query", "running",
                                   "cut", "stop", "returned"},
                             cmd : Queries \cup {None}]]
  /\ client \in [at : {"idle", "state", "push", "inline", "running", "result", "wait",
                       "store", "delete", "disconnect"},
                 cmd : Queries \cup {None}]
  /\ issued \in Seq([kind : Kinds, by : Threads \cup {Inline}])
  /\ log \in Seq(Queries)
  /\ rejected \subseteq Queries
  /\ unread \in Queries \cup {None}
  /\ stored \in Queries \cup {None}

Init ==
  /\ isOpen = FALSE
  /\ nonBlocking = FALSE
  /\ pThreadData = NULL
  /\ threadData = [t \in Threads |-> [allocated |-> "no", state |-> "READY", queries |-> <<>>]]
  /\ worker = [t \in Threads |-> [at |-> "none", cmd |-> None]]
  /\ client = [at |-> "idle", cmd |-> None]
  /\ issued = <<>> /\ log = <<>> /\ rejected = {}
  /\ unread = None
  /\ stored = None
  /\ crashed = FALSE

ClientAt(a) == client.at = a /\ ~crashed
ClientGoes(a) == client' = [client EXCEPT !.at = a]
ClientReturns == client' = [at |-> "idle", cmd |-> None]

-----------------------------------------------------------------------------
(* mysql_query, called with query q by the thread whose counter goes from   *)
(* "query" (or "inline") to "running".                                      *)

Accepts == unread = None

Receive(q) ==
  /\ log' = Append(log, q)
  /\ UNCHANGED <<rejected, unread>>

Answer(q) ==
  /\ unread' = IF issued[q].kind = "select" THEN q ELSE unread
  /\ UNCHANGED <<log, rejected>>

Reject(q) ==
  /\ rejected' = rejected \cup {q}
  /\ UNCHANGED <<log, unread>>

-----------------------------------------------------------------------------
(* The client: Open, Query and Execute, StoreQueryResult, Close.            *)

\* mysql_real_connect may fail, and then nothing changes.
Open(mode) ==
  /\ ClientAt("idle")
  /\ ~isOpen
  /\ isOpen' = TRUE
  /\ nonBlocking' = mode
  /\ unread' = None
  /\ UNCHANGED <<pThreadData, threadData, worker, client, issued, log, rejected, stored, crashed>>

\* CreateQueryThread: it returns true whether or not the thread starts, so
\* that Query sets m_nonBlockingMode back to true in both cases.
CreateQueryThread(t) ==
  /\ threadData[t].allocated = "no"
  /\ pThreadData' = t
  /\ threadData' = [threadData EXCEPT ![t].allocated = "yes"]
  /\ \/ worker' = [worker EXCEPT ![t].at = "start"]
     \/ ThreadsMayFail /\ UNCHANGED worker

Query(kind) ==
  LET q == Len(issued) + 1 IN
  /\ ClientAt("idle")
  /\ isOpen
  /\ Len(issued) < MaxQueries
  /\ IF nonBlocking /\ pThreadData = NULL
     THEN \E t \in Threads : CreateQueryThread(t)
     ELSE UNCHANGED <<pThreadData, threadData, worker>>
  /\ client' = [at |-> IF nonBlocking THEN "state" ELSE "inline", cmd |-> q]
  /\ issued' = Append(issued, [kind |-> kind, by |-> pThreadData'])
  /\ UNCHANGED <<isOpen, nonBlocking, server, stored, crashed>>

\* Mistake: a worker that has not started yet is taken for one that stopped.
PushBackStateRunning ==
  /\ ClientAt("state")
  /\ ClientGoes(IF threadData[pThreadData].state = "RUNNING" THEN "push" ELSE "inline")
  /\ UNCHANGED <<session, threadData, worker, issued, server, stored, crashed>>

\* push_back: the state is looked at once, before the loop.
PushBackState ==
  /\ ClientAt("state")
  /\ ClientGoes(IF threadData[pThreadData].state \in {"READY", "RUNNING"}
                THEN "push" ELSE "inline")
  /\ UNCHANGED <<session, threadData, worker, issued, server, stored, crashed>>

AfterQuery(q) ==
  IF issued[q].kind = "select" THEN ClientGoes("result") ELSE ClientReturns

\* Mistakes: the result of Push is ignored, with a queue that has no room
\* and with one that takes the query nevertheless; one slot is left unused.
PushBackDropping ==
  /\ ClientAt("push")
  /\ IF Len(threadData[pThreadData].queries) < QueueCapacity
     THEN threadData' = [threadData EXCEPT ![pThreadData].queries = Append(@, client.cmd)]
     ELSE UNCHANGED threadData
  /\ AfterQuery(client.cmd)
  /\ UNCHANGED <<session, worker, issued, server, stored, crashed>>

PushBackOverfull ==
  /\ ClientAt("push")
  /\ threadData' = [threadData EXCEPT ![pThreadData].queries = Append(@, client.cmd)]
  /\ AfterQuery(client.cmd)
  /\ UNCHANGED <<session, worker, issued, server, stored, crashed>>

PushBackSpare ==
  /\ ClientAt("push")
  /\ Len(threadData[pThreadData].queries) < QueueCapacity - 1
  /\ threadData' = [threadData EXCEPT ![pThreadData].queries = Append(@, client.cmd)]
  /\ AfterQuery(client.cmd)
  /\ UNCHANGED <<session, worker, issued, server, stored, crashed>>

\* push_back: Push succeeds; while it does not the caller sleeps and tries again.
PushBack ==
  /\ ClientAt("push")
  /\ Len(threadData[pThreadData].queries) < QueueCapacity
  /\ threadData' = [threadData EXCEPT ![pThreadData].queries = Append(@, client.cmd)]
  /\ AfterQuery(client.cmd)
  /\ UNCHANGED <<session, worker, issued, server, stored, crashed>>

InlineQuery ==
  /\ ClientAt("inline")
  /\ IF Accepts THEN Receive(client.cmd) /\ ClientGoes("running")
                ELSE Reject(client.cmd) /\ ClientReturns
  /\ UNCHANGED <<session, threadData, worker, issued, stored, crashed>>

InlineDone ==
  /\ ClientAt("running")
  /\ \/ Answer(client.cmd) /\ AfterQuery(client.cmd)
     \/ QueriesMayFail /\ Reject(client.cmd) /\ ClientReturns
  /\ UNCHANGED <<session, threadData, worker, issued, stored, crashed>>

\* StoreQueryResult: the callers call it right after the query it is for.
StoreQueryResult ==
  /\ ClientAt("result")
  /\ ClientGoes(IF nonBlocking THEN "wait" ELSE "store")
  /\ UNCHANGED <<session, threadData, worker, issued, server, stored, crashed>>

\* Mistake: the result is asked for without waiting.
WaitForNothing ==
  /\ ClientAt("wait")
  /\ ClientGoes("store")
  /\ UNCHANGED <<session, threadData, worker, issued, server, stored, crashed>>

WaitForQueries ==
  /\ ClientAt("wait")
  /\ threadData[pThreadData].queries = <<>>
  /\ ClientGoes("store")
  /\ UNCHANGED <<session, threadData, worker, issued, server, stored, crashed>>

StoreResult ==
  /\ ClientAt("store")
  /\ stored' = unread
  /\ unread' = None
  /\ ClientReturns
  /\ UNCHANGED <<session, threadData, worker, issued, log, rejected, crashed>>

\* Close: request_stop, then at once delete, and the connection goes too.
Close ==
  /\ ClientAt("idle")
  /\ isOpen
  /\ IF nonBlocking /\ pThreadData # NULL
     THEN /\ threadData' = [threadData EXCEPT ![pThreadData].state = "STOP_REQUESTED"]
          /\ ClientGoes("delete")
     ELSE /\ ClientGoes("disconnect")
          /\ UNCHANGED threadData
  /\ UNCHANGED <<session, worker, issued, server, stored, crashed>>

CloseDelete ==
  /\ ClientAt("delete")
  /\ threadData' = [threadData EXCEPT ![pThreadData].allocated = "deleted"]
  /\ pThreadData' = NULL
  /\ ClientGoes("disconnect")
  /\ UNCHANGED <<isOpen, nonBlocking, worker, issued, server, stored, crashed>>

\* mysql_close cuts off the command another thread may be waiting for.
CloseConnection ==
  /\ ClientAt("disconnect")
  /\ isOpen' = FALSE
  /\ unread' = None
  /\ ClientReturns
  /\ worker' = [t \in Threads |-> IF worker[t].at = "running"
                                  THEN [worker[t] EXCEPT !.at = "cut"] ELSE worker[t]]
  /\ UNCHANGED <<nonBlocking, pThreadData, threadData, issued, log, rejected, stored, crashed>>

-----------------------------------------------------------------------------
(* ProcessQueries, on the SQLThreadData t.                                  *)

WorkerAt(t, a) == worker[t].at = a /\ ~crashed
Allocated(t) == threadData[t].allocated = "yes"
WorkerGoes(t, a) == worker' = [worker EXCEPT ![t].at = a]

WorkerStart(t) ==
  /\ WorkerAt(t, "start") /\ Allocated(t)
  /\ threadData' = [threadData EXCEPT ![t].state = "RUNNING"]
  /\ WorkerGoes(t, "while")
  /\ UNCHANGED <<session, client, issued, server, stored, crashed>>

WorkerWhile(t) ==
  /\ WorkerAt(t, "while") /\ Allocated(t)
  /\ WorkerGoes(t, IF threadData[t].state = "RUNNING" THEN "pop" ELSE "stop")
  /\ UNCHANGED <<session, threadData, client, issued, server, stored, crashed>>

\* Mistake: the thread ends when it finds the queue empty.
WorkerPopEnding(t) ==
  LET waiting == threadData[t].queries IN
  /\ WorkerAt(t, "pop") /\ Allocated(t)
  /\ IF waiting = <<>>
     THEN WorkerGoes(t, "stop") /\ UNCHANGED threadData
     ELSE /\ threadData' = [threadData EXCEPT ![t].queries = Tail(@)]
          /\ worker' = [worker EXCEPT ![t] = [at |-> "query", cmd |-> Head(waiting)]]
  /\ UNCHANGED <<session, client, issued, server, stored, crashed>>

WorkerPop(t) ==
  LET waiting == threadData[t].queries IN
  /\ WorkerAt(t, "pop") /\ Allocated(t)
  /\ IF waiting = <<>>
     THEN WorkerGoes(t, "while") /\ UNCHANGED threadData
     ELSE /\ threadData' = [threadData EXCEPT ![t].queries = Tail(@)]
          /\ worker' = [worker EXCEPT ![t] = [at |-> "query", cmd |-> Head(waiting)]]
  /\ UNCHANGED <<session, client, issued, server, stored, crashed>>

\* A query that fails ends the thread; its state stays RUNNING.
WorkerQuery(t) ==
  /\ WorkerAt(t, "query") /\ Allocated(t)
  /\ IF Accepts THEN Receive(worker[t].cmd) /\ WorkerGoes(t, "running")
                ELSE Reject(worker[t].cmd) /\ WorkerGoes(t, "returned")
  /\ UNCHANGED <<session, threadData, client, issued, stored, crashed>>

\* The call itself uses the connection, not the SQLThreadData.
WorkerDone(t) ==
  /\ WorkerAt(t, "running")
  /\ \/ Answer(worker[t].cmd) /\ WorkerGoes(t, "pop")
     \/ QueriesMayFail /\ Reject(worker[t].cmd) /\ WorkerGoes(t, "returned")
  /\ UNCHANGED <<session, threadData, client, issued, stored, crashed>>

WorkerCut(t) ==
  /\ WorkerAt(t, "cut")
  /\ Reject(worker[t].cmd) /\ WorkerGoes(t, "returned")
  /\ UNCHANGED <<session, threadData, client, issued, stored, crashed>>

WorkerStop(t) ==
  /\ WorkerAt(t, "stop") /\ Allocated(t)
  /\ threadData' = [threadData EXCEPT ![t].state = "STOPPED"]
  /\ WorkerGoes(t, "returned")
  /\ UNCHANGED <<session, client, issued, server, stored, crashed>>

\* Once Close has deleted the object, the next use of it by the worker reads
\* or writes freed memory: the thread ends (the memory still says that it was
\* asked to stop) or the program does.
UsesThreadData == {"start", "while", "pop", "query", "stop"}

WorkerUsesFreed(t) ==
  /\ ~crashed /\ worker[t].at \in UsesThreadData
  /\ threadData[t].allocated = "deleted"
  /\ \/ WorkerGoes(t, "returned") /\ UNCHANGED crashed
     \/ crashed' = TRUE /\ UNCHANGED worker
  /\ UNCHANGED <<session, threadData, client, issued, server, stored>>

-----------------------------------------------------------------------------
ClientContinues ==
  \/ PushBackState \/ PushBack
  \/ InlineQuery \/ InlineDone
  \/ StoreQueryResult \/ WaitForQueries \/ StoreResult
  \/ CloseDelete \/ CloseConnection

ClientCalls ==
  \/ \E mode \in Modes : Open(mode)
  \/ \E kind \in Kinds : Query(kind)
  \/ Close

Worker(t) ==
  \/ WorkerStart(t) \/ WorkerWhile(t) \/ WorkerPop(t)
  \/ WorkerQuery(t) \/ WorkerDone(t) \/ WorkerCut(t) \/ WorkerStop(t)
  \/ WorkerUsesFreed(t)

Next == ClientCalls \/ ClientContinues \/ \E t \in Threads : Worker(t)

\* A call that can go on goes on, a thread that can run runs, and MySQL
\* answers; nobody has to issue queries or close the database.
Fairness ==
  /\ WF_vars(ClientContinues)
  /\ \A t \in Threads : WF_vars(Worker(t))

Spec == Init /\ [][Next]_vars /\ Fairness

-----------------------------------------------------------------------------
(* Properties.                                                             *)

\* The queries that push_back has put in the queue of t: those issued for t
\* except the one the client is still trying to push.
Accepted(t) ==
  {q \in 1 .. Len(issued) : /\ issued[q].by = t
                            /\ ~(client.cmd = q /\ client.at \in {"state", "push", "inline"})}

\* Those the worker of t has got hold of: what the server received from it, and
\* the last one it has taken from the queue, received or not; and those it has not.
Received(t) == {i \in 1 .. Len(log) : issued[log[i]].by = t}
Taken(t) == {log[i] : i \in Received(t)} \cup ({worker[t].cmd} \ {None})
Queued(t) == {threadData[t].queries[i] : i \in 1 .. Len(threadData[t].queries)}

\* Queries are numbered as they are issued.
InOrder(t) ==
  /\ \A i, j \in Received(t) : i < j => log[i] < log[j]
  /\ \A q \in Taken(t) : q <= worker[t].cmd /\ \A w \in Queued(t) : q < w
  /\ \A i, j \in 1 .. Len(threadData[t].queries) :
       i < j => threadData[t].queries[i] < threadData[t].queries[j]

\* Until the database is closed no query is lost, run twice or run out of
\* order between Query and the server, though issuing and running it are
\* steps of two threads and the worker may have ended: what push_back has
\* accepted is what the worker took, followed by what is in the queue.
NothingLost ==
  \A t \in Threads : Allocated(t) => Accepted(t) = Taken(t) \cup Queued(t) /\ InOrder(t)

\* Query only runs a query itself when no worker is there to run it: it never
\* overtakes the queries that wait in the queue, nor uses the connection
\* together with the worker of the session.
NeverOvertakes ==
  client.at \in {"inline", "running"} => pThreadData = NULL

\* The server has received query q.
Reached(q) == \E i \in DOMAIN log : log[i] = q

\* When StoreQueryResult has waited, every query but the last one has been
\* taken from the queue and answered or refused; only the last one can still
\* be on its way.
OnlyLastPending ==
  client.at = "store" /\ nonBlocking =>
    \A q \in 1 .. Len(issued) - 1 :
      issued[q].by = pThreadData =>
        \/ q \in rejected
        \/ Reached(q) /\ worker[pThreadData].cmd # q

\* Nobody runs the queries of t: its thread did not start, or one of them failed.
Gone(t) ==
  \/ worker[t].at = "none"
  \/ worker[t].at = "returned" /\ \E q \in rejected : issued[q].by = t

\* Every call of the client returns, although push_back and wait_for_queries
\* poll without a limit: for ever they do so only if nobody is left to run
\* the queries.
CallsReturn ==
  client.at # "idle" ~>
    client.at = "idle" \/ crashed \/ (client.at \in {"push", "wait"} /\ Gone(pThreadData))

\* Every query gets to the server, unless the database is closed before it
\* does or the thread that was to run it is gone.
Abandoned(q) == LET t == issued[q].by IN t # Inline /\ (~Allocated(t) \/ Gone(t))

QueriesRun ==
  \A q \in Queries :
    q \in DOMAIN issued ~> \/ q \in DOMAIN issued /\ (Reached(q) \/ q \in rejected \/ Abandoned(q))
                          \/ crashed

\* wait_for_queries (SQLDatabase.cpp:76): "this function will block the
\* exceution until all pending queries are processed, such that we can get
\* the result of the last query".  A result set is never taken for that of
\* another query.
ResultOfLastQuery ==
  [][stored' # stored => stored' \in {None, client.cmd}]_vars

=============================================================================
