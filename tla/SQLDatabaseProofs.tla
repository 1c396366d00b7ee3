-------------------------- MODULE SQLDatabaseProofs --------------------------
(***************************************************************************)
(* Proofs about SQLDatabase, for a queue of any size, any number of queries *)
(* and sessions, and with threads and queries that fail.  That the client   *)
(* overtakes nobody rests on SessionInv: there is an SQLThreadData only in  *)
(* an open non-blocking session, and its state stays READY or RUNNING until *)
(* Close.  That only the last query is pending rests on PlaceInv, which     *)
(* follows every query from push_back to the server, and the last one       *)
(* through the queue.  That no query is lost, doubled or overtaken on that  *)
(* way rests on OrderInv: the query at hand has not been sent, and whatever *)
(* is issued for a worker has a larger number than all it was given before. *)
(***************************************************************************)
EXTENDS SQLDatabase, SequenceTheorems, TLAPS

\* TypeOK, with the variables that are Boolean apart.
BoolType == isOpen \in BOOLEAN /\ nonBlocking \in BOOLEAN /\ crashed \in BOOLEAN

ThreadData == [allocated : {"no", "yes", "deleted"}, state : States, queries : Seq(Queries)]
WorkerSteps == {"none", "start", "while", "pop", "query", "running", "cut", "stop", "returned"}
Workers == [at : WorkerSteps, cmd : Queries \cup {None}]
ClientSteps == {"idle", "state", "push", "inline", "running", "result", "wait", "store",
                "delete", "disconnect"}
Client == [at : ClientSteps, cmd : Queries \cup {None}]

ThreadType ==
  /\ threadData \in [Threads -> ThreadData]
  /\ \A t \in Threads : Len(threadData[t].queries) <= QueueCapacity

OtherType ==
  /\ pThreadData \in Threads \cup {NULL}
  /\ worker \in [Threads -> Workers]
  /\ client \in Client
  /\ issued \in Seq([kind : Kinds, by : Threads \cup {Inline}])
  /\ log \in Seq(Queries)
  /\ rejected \subseteq Queries
  /\ unread \in Queries \cup {None}
  /\ stored \in Queries \cup {None}

LEMMA TypeSplit == TypeOK <=> BoolType /\ ThreadType /\ OtherType
  BY Zenon DEF TypeOK, BoolType, ThreadType, OtherType, ThreadData, Workers, WorkerSteps, Client, ClientSteps

\* Whoever is in a call, or in a query, knows which.
InQuery == {"state", "push", "inline", "running", "result", "wait", "store"}

CallInv ==
  /\ client.at \in InQuery => client.cmd = Len(issued) /\ client.cmd \in Queries
  /\ \A t \in Threads : worker[t].at \in {"query", "running", "cut"} => worker[t].cmd \in Queries

\* There is an object only in an open non-blocking session, and until the
\* client wants to delete it nobody asks its worker to stop.
Untouched(t) ==
  /\ threadData[t].state = "READY"
  /\ worker[t] = [at |-> "none", cmd |-> None]
  /\ threadData[t].queries = <<>>
  /\ \A q \in 1 .. Len(issued) : issued[q].by # t

Serving(t) ==
  /\ threadData[t].state \in {"READY", "RUNNING"}
  /\ worker[t].at \in {"none", "start", "while", "pop", "query", "running", "returned"}
  /\ worker[t].at \in {"while", "pop", "query", "running"} => threadData[t].state = "RUNNING"

FreshInv == \A t \in Threads : threadData[t].allocated = "no" => Untouched(t)

SessionInv ==
  /\ pThreadData # NULL =>
       /\ isOpen /\ nonBlocking
       /\ threadData[pThreadData].allocated = "yes"
       /\ client.at # "delete" => Serving(pThreadData)
       /\ client.at \notin {"inline", "running", "disconnect"}
  /\ client.at \in {"state", "push"} => pThreadData # NULL
  /\ client.at \in {"result", "wait", "store"} /\ nonBlocking => pThreadData # NULL
  /\ client.at \in {"inline", "running"} => ~nonBlocking
  /\ FreshInv

\* Where the queries of the session are.
Waiting(q, t) == \E i \in 1 .. Len(threadData[t].queries) : threadData[t].queries[i] = q

Located(q, t) ==
  \/ client.at \in {"state", "push"} /\ q = client.cmd
  \/ Waiting(q, t)
  \/ q = worker[t].cmd
  \/ Reached(q) \/ q \in rejected

LastKept(t) ==
  client.at \in {"result", "wait", "store"} =>
    IF threadData[t].queries = <<>>
    THEN worker[t].cmd = Len(issued)
    ELSE /\ client.at # "store"
         /\ threadData[t].queries[Len(threadData[t].queries)] = Len(issued)

PlaceInv ==
  \A t \in Threads : pThreadData = t =>
    /\ \A q \in 1 .. Len(issued) : issued[q].by = t => Located(q, t)
    /\ worker[t].at \in {"none", "start"} => worker[t].cmd = None
    /\ worker[t].at \in {"while", "pop", "running"} => worker[t].cmd = None \/ Reached(worker[t].cmd)
    /\ LastKept(t)

-----------------------------------------------------------------------------
(* Types.                                                                  *)


\* A step of the client, and of the worker of t, in the call it is in.
LEMMA ClientFacts ==
  ASSUME OtherType
  PROVE  /\ \A a : ClientGoes(a) =>
              /\ client'.at = a /\ client'.cmd = client.cmd
              /\ a \in ClientSteps => client' \in Client
         /\ ClientReturns => client'.at = "idle" /\ client' \in Client
<1>1. ASSUME NEW a, ClientGoes(a)
      PROVE  /\ client'.at = a /\ client'.cmd = client.cmd
             /\ a \in ClientSteps => client' \in Client
  BY <1>1 DEF ClientGoes, OtherType, Client
<1>2. ClientReturns => client'.at = "idle" /\ client' \in Client
  BY DEF ClientReturns, Client, ClientSteps
<1>3. QED
  BY <1>1, <1>2

LEMMA WorkerFacts ==
  ASSUME OtherType, NEW t \in Threads
  PROVE  \A a : WorkerGoes(t, a) =>
           /\ worker'[t].at = a /\ worker'[t].cmd = worker[t].cmd
           /\ \A s \in Threads : s # t => worker'[s] = worker[s]
           /\ a \in WorkerSteps => worker' \in [Threads -> Workers]
<1>1. ASSUME NEW a, WorkerGoes(t, a)
      PROVE  /\ worker'[t].at = a /\ worker'[t].cmd = worker[t].cmd
             /\ \A s \in Threads : s # t => worker'[s] = worker[s]
             /\ a \in WorkerSteps => worker' \in [Threads -> Workers]
  BY <1>1 DEF WorkerGoes, OtherType, Workers
<1>2. QED
  BY <1>1

LEMMA BoolStep ==
  ASSUME BoolType, Modes \subseteq BOOLEAN, [Next]_vars
  PROVE  BoolType'
<1>1. CASE \E mode \in Modes : Open(mode)
  BY <1>1, Zenon DEF Open, BoolType, session
<1>2. CASE \E kind \in Kinds : Query(kind)
  BY <1>2, Zenon DEF Query, BoolType, session
<1>3. CASE Close
  BY <1>3, Zenon DEF Close, BoolType, session
<1>4. CASE PushBackState
  BY <1>4, Zenon DEF PushBackState, BoolType, session
<1>5. CASE PushBack
  BY <1>5, Zenon DEF PushBack, BoolType, session
<1>6. CASE InlineQuery
  BY <1>6, Zenon DEF InlineQuery, BoolType, session
<1>7. CASE InlineDone
  BY <1>7, Zenon DEF InlineDone, BoolType, session
<1>8. CASE StoreQueryResult
  BY <1>8, Zenon DEF StoreQueryResult, BoolType, session
<1>9. CASE WaitForQueries
  BY <1>9, Zenon DEF WaitForQueries, BoolType, session
<1>10. CASE StoreResult
  BY <1>10, Zenon DEF StoreResult, BoolType, session
<1>11. CASE CloseDelete
  BY <1>11, Zenon DEF CloseDelete, BoolType, session
<1>12. CASE CloseConnection
  BY <1>12, Zenon DEF CloseConnection, BoolType, session
<1>13. ASSUME NEW t \in Threads, Worker(t)
      PROVE  BoolType'
  <2>1. CASE WorkerStart(t)
    BY <2>1, Zenon DEF WorkerStart, BoolType, session
  <2>2. CASE WorkerWhile(t)
    BY <2>2, Zenon DEF WorkerWhile, BoolType, session
  <2>3. CASE WorkerPop(t)
    BY <2>3, Zenon DEF WorkerPop, BoolType, session
  <2>4. CASE WorkerQuery(t)
    BY <2>4, Zenon DEF WorkerQuery, BoolType, session
  <2>5. CASE WorkerDone(t)
    BY <2>5, Zenon DEF WorkerDone, BoolType, session
  <2>6. CASE WorkerCut(t)
    BY <2>6, Zenon DEF WorkerCut, BoolType, session
  <2>7. CASE WorkerStop(t)
    BY <2>7, Zenon DEF WorkerStop, BoolType, session
  <2>8. CASE WorkerUsesFreed(t)
    BY <2>8, Zenon DEF WorkerUsesFreed, BoolType, session
  <2>9. QED
    BY <1>13, <2>1, <2>2, <2>3, <2>4, <2>5, <2>6, <2>7, <2>8 DEF Worker
<1>14. CASE UNCHANGED vars
  BY <1>14, Zenon DEF vars, BoolType, session
<1>15. QED
  BY <1>1, <1>2, <1>3, <1>4, <1>5, <1>6, <1>7, <1>8, <1>9, <1>10, <1>11, <1>12, <1>13, <1>14
     DEF Next, ClientCalls, ClientContinues

LEMMA ThreadStep ==
  ASSUME ThreadType, OtherType, CallInv, SessionInv, [Next]_vars
  PROVE  ThreadType'
<1>1. CASE \E mode \in Modes : Open(mode)
  BY <1>1 DEF Open, ThreadType, OtherType, ThreadData, States
<1>2. CASE \E kind \in Kinds : Query(kind)
  BY <1>2 DEF Query, CreateQueryThread, ThreadType, OtherType, ThreadData, States
<1>3. CASE Close
  BY <1>3 DEF Close, ThreadType, OtherType, ThreadData, States
<1>4. CASE PushBackState
  BY <1>4 DEF PushBackState, ThreadType, OtherType, ThreadData, States
<1>5. CASE PushBack
  <2>1. pThreadData \in Threads /\ client.cmd \in Queries
    BY <1>5 DEF PushBack, ClientAt, CallInv, SessionInv, InQuery, OtherType
  <2>2. /\ Len(threadData[pThreadData].queries) < QueueCapacity
        /\ threadData' = [threadData EXCEPT ![pThreadData].queries = Append(@, client.cmd)]
    BY <1>5 DEF PushBack
  <2>3. /\ Append(threadData[pThreadData].queries, client.cmd) \in Seq(Queries)
        /\ Len(Append(threadData[pThreadData].queries, client.cmd)) <= QueueCapacity
    BY <2>1, <2>2, SQLAssumption DEF ThreadType, ThreadData
  <2>4. QED
    BY <2>1, <2>2, <2>3 DEF ThreadType, ThreadData
<1>6. CASE InlineQuery
  BY <1>6 DEF InlineQuery, ThreadType, OtherType, ThreadData, States
<1>7. CASE InlineDone
  BY <1>7 DEF InlineDone, ThreadType, OtherType, ThreadData, States
<1>8. CASE StoreQueryResult
  BY <1>8 DEF StoreQueryResult, ThreadType, OtherType, ThreadData, States
<1>9. CASE WaitForQueries
  BY <1>9 DEF WaitForQueries, ThreadType, OtherType, ThreadData, States
<1>10. CASE StoreResult
  BY <1>10 DEF StoreResult, ThreadType, OtherType, ThreadData, States
<1>11. CASE CloseDelete
  BY <1>11 DEF CloseDelete, ThreadType, OtherType, ThreadData, States
<1>12. CASE CloseConnection
  BY <1>12 DEF CloseConnection, ThreadType, OtherType, ThreadData, States
<1>13. ASSUME NEW t \in Threads, Worker(t)
      PROVE  ThreadType'
  <2>1. CASE WorkerStart(t)
    BY <2>1 DEF WorkerStart, ThreadType, OtherType, ThreadData, States
  <2>2. CASE WorkerWhile(t)
    BY <2>2 DEF WorkerWhile, ThreadType, OtherType, ThreadData, States
  <2>3. CASE WorkerPop(t)
    <3>1. CASE threadData[t].queries = <<>>
      BY <2>3, <3>1 DEF WorkerPop, ThreadType
    <3>2. CASE threadData[t].queries # <<>>
      <4>1. threadData' = [threadData EXCEPT ![t].queries = Tail(@)]
        BY <2>3, <3>2 DEF WorkerPop
      <4>2. /\ Tail(threadData[t].queries) \in Seq(Queries)
            /\ Len(Tail(threadData[t].queries)) <= QueueCapacity
        BY <3>2, SQLAssumption DEF ThreadType, ThreadData
      <4>3. QED
        BY <4>1, <4>2 DEF ThreadType, ThreadData
    <3>3. QED
      BY <3>1, <3>2
  <2>4. CASE WorkerQuery(t)
    BY <2>4 DEF WorkerQuery, ThreadType, OtherType, ThreadData, States
  <2>5. CASE WorkerDone(t)
    BY <2>5 DEF WorkerDone, ThreadType, OtherType, ThreadData, States
  <2>6. CASE WorkerCut(t)
    BY <2>6 DEF WorkerCut, ThreadType, OtherType, ThreadData, States
  <2>7. CASE WorkerStop(t)
    BY <2>7 DEF WorkerStop, ThreadType, OtherType, ThreadData, States
  <2>8. CASE WorkerUsesFreed(t)
    BY <2>8 DEF WorkerUsesFreed, ThreadType, OtherType, ThreadData, States
  <2>9. QED
    BY <1>13, <2>1, <2>2, <2>3, <2>4, <2>5, <2>6, <2>7, <2>8 DEF Worker
<1>14. CASE UNCHANGED vars
  BY <1>14 DEF vars, ThreadType, OtherType, ThreadData, States
<1>15. QED
  BY <1>1, <1>2, <1>3, <1>4, <1>5, <1>6, <1>7, <1>8, <1>9, <1>10, <1>11, <1>12, <1>13, <1>14
     DEF Next, ClientCalls, ClientContinues

LEMMA ClientStep ==
  ASSUME OtherType, [Next]_vars
  PROVE  client' \in Client
<1>. USE DEF OtherType, ClientSteps
<1>1. CASE \E mode \in Modes : Open(mode)
  BY <1>1, ClientFacts DEF Open
<1>2. CASE \E kind \in Kinds : Query(kind)
  <2>1. Len(issued) + 1 \in Queries
    BY <1>2, SQLAssumption DEF Query, Queries
  <2>2. \E a \in {"state", "inline"} : client' = [at |-> a, cmd |-> Len(issued) + 1]
    BY <1>2 DEF Query
  <2>3. QED
    BY <2>1, <2>2 DEF Client
<1>3. CASE Close
  BY <1>3, ClientFacts DEF Close
<1>4. CASE PushBackState
  BY <1>4, ClientFacts DEF PushBackState
<1>5. CASE PushBack
  BY <1>5, ClientFacts DEF PushBack, AfterQuery
<1>6. CASE InlineQuery
  BY <1>6, ClientFacts DEF InlineQuery
<1>7. CASE InlineDone
  BY <1>7, ClientFacts DEF InlineDone, AfterQuery
<1>8. CASE StoreQueryResult
  BY <1>8, ClientFacts DEF StoreQueryResult
<1>9. CASE WaitForQueries
  BY <1>9, ClientFacts DEF WaitForQueries
<1>10. CASE StoreResult
  BY <1>10, ClientFacts DEF StoreResult
<1>11. CASE CloseDelete
  BY <1>11, ClientFacts DEF CloseDelete
<1>12. CASE CloseConnection
  BY <1>12, ClientFacts DEF CloseConnection
<1>13. ASSUME NEW t \in Threads, Worker(t)
      PROVE  client' \in Client
  <2>1. CASE WorkerStart(t)
    BY <2>1, ClientFacts DEF WorkerStart
  <2>2. CASE WorkerWhile(t)
    BY <2>2, ClientFacts DEF WorkerWhile
  <2>3. CASE WorkerPop(t)
    BY <2>3, ClientFacts DEF WorkerPop
  <2>4. CASE WorkerQuery(t)
    BY <2>4, ClientFacts DEF WorkerQuery
  <2>5. CASE WorkerDone(t)
    BY <2>5, ClientFacts DEF WorkerDone
  <2>6. CASE WorkerCut(t)
    BY <2>6, ClientFacts DEF WorkerCut
  <2>7. CASE WorkerStop(t)
    BY <2>7, ClientFacts DEF WorkerStop
  <2>8. CASE WorkerUsesFreed(t)
    BY <2>8, ClientFacts DEF WorkerUsesFreed
  <2>9. QED
    BY <1>13, <2>1, <2>2, <2>3, <2>4, <2>5, <2>6, <2>7, <2>8 DEF Worker
<1>14. CASE UNCHANGED vars
  BY <1>14 DEF vars, session, server
<1>15. QED
  BY <1>1, <1>2, <1>3, <1>4, <1>5, <1>6, <1>7, <1>8, <1>9, <1>10, <1>11, <1>12, <1>13, <1>14
     DEF Next, ClientCalls, ClientContinues

LEMMA WorkerStep ==
  ASSUME ThreadType, OtherType, [Next]_vars
  PROVE  worker' \in [Threads -> Workers]
<1>. USE DEF OtherType, WorkerSteps
<1>1. CASE \E mode \in Modes : Open(mode)
  BY <1>1, WorkerFacts DEF Open
<1>2. CASE \E kind \in Kinds : Query(kind)
  <2>1. \/ UNCHANGED worker
        \/ \E t \in Threads : CreateQueryThread(t)
    BY <1>2 DEF Query
  <2>2. ASSUME NEW t \in Threads, CreateQueryThread(t)
        PROVE  worker' \in [Threads -> Workers]
    BY <2>2 DEF CreateQueryThread, Workers
  <2>3. QED
    BY <2>1, <2>2
<1>3. CASE Close
  BY <1>3, WorkerFacts DEF Close
<1>4. CASE PushBackState
  BY <1>4, WorkerFacts DEF PushBackState
<1>5. CASE PushBack
  BY <1>5, WorkerFacts DEF PushBack, AfterQuery
<1>6. CASE InlineQuery
  BY <1>6, WorkerFacts DEF InlineQuery
<1>7. CASE InlineDone
  BY <1>7, WorkerFacts DEF InlineDone, AfterQuery
<1>8. CASE StoreQueryResult
  BY <1>8, WorkerFacts DEF StoreQueryResult
<1>9. CASE WaitForQueries
  BY <1>9, WorkerFacts DEF WaitForQueries
<1>10. CASE StoreResult
  BY <1>10, WorkerFacts DEF StoreResult
<1>11. CASE CloseDelete
  BY <1>11, WorkerFacts DEF CloseDelete
<1>12. CASE CloseConnection
  BY <1>12 DEF CloseConnection, Workers
<1>13. ASSUME NEW t \in Threads, Worker(t)
      PROVE  worker' \in [Threads -> Workers]
  <2>1. CASE WorkerStart(t)
    BY <2>1, WorkerFacts DEF WorkerStart
  <2>2. CASE WorkerWhile(t)
    BY <2>2, WorkerFacts DEF WorkerWhile
  <2>3. CASE WorkerPop(t)
    <3>1. CASE threadData[t].queries = <<>>
      BY <2>3, <3>1, WorkerFacts DEF WorkerPop
    <3>2. CASE threadData[t].queries # <<>>
      <4>1. worker' = [worker EXCEPT ![t] = [at |-> "query", cmd |-> Head(threadData[t].queries)]]
        BY <2>3, <3>2 DEF WorkerPop
      <4>2. Head(threadData[t].queries) \in Queries
        BY <3>2 DEF ThreadType, ThreadData
      <4>3. QED
        BY <4>1, <4>2 DEF Workers
    <3>3. QED
      BY <3>1, <3>2
  <2>4. CASE WorkerQuery(t)
    BY <2>4, WorkerFacts DEF WorkerQuery
  <2>5. CASE WorkerDone(t)
    BY <2>5, WorkerFacts DEF WorkerDone
  <2>6. CASE WorkerCut(t)
    BY <2>6, WorkerFacts DEF WorkerCut
  <2>7. CASE WorkerStop(t)
    BY <2>7, WorkerFacts DEF WorkerStop
  <2>8. CASE WorkerUsesFreed(t)
    BY <2>8, WorkerFacts DEF WorkerUsesFreed
  <2>9. QED
    BY <1>13, <2>1, <2>2, <2>3, <2>4, <2>5, <2>6, <2>7, <2>8 DEF Worker
<1>14. CASE UNCHANGED vars
  BY <1>14 DEF vars, session, server
<1>15. QED
  BY <1>1, <1>2, <1>3, <1>4, <1>5, <1>6, <1>7, <1>8, <1>9, <1>10, <1>11, <1>12, <1>13, <1>14
     DEF Next, ClientCalls, ClientContinues

RestType ==
  /\ pThreadData \in Threads \cup {NULL}
  /\ issued \in Seq([kind : Kinds, by : Threads \cup {Inline}])
  /\ log \in Seq(Queries)
  /\ rejected \subseteq Queries
  /\ unread \in Queries \cup {None}
  /\ stored \in Queries \cup {None}

\* Query, with or without a new thread.
LEMMA CreateFacts ==
  ASSUME ThreadType, OtherType, NEW t \in Threads, CreateQueryThread(t)
  PROVE  /\ threadData[t].allocated = "no" /\ pThreadData' = t
         /\ threadData'[t].allocated = "yes" /\ threadData'[t].state = threadData[t].state
         /\ threadData'[t].queries = threadData[t].queries
         /\ worker'[t].at \in {worker[t].at, "start"} /\ worker'[t].cmd = worker[t].cmd
         /\ \A s \in Threads : s # t => threadData'[s] = threadData[s] /\ worker'[s] = worker[s]
  BY DEF CreateQueryThread, ThreadType, ThreadData, OtherType, Workers

LEMMA QueryFacts ==
  ASSUME ThreadType, OtherType, NEW kind \in Kinds, Query(kind)
  PROVE  /\ client.at = "idle" /\ isOpen
         /\ client'.cmd = Len(issued') /\ Len(issued') = Len(issued) + 1 /\ Len(issued') \in Queries
         /\ \A q \in 1 .. Len(issued) : issued'[q] = issued[q]
         /\ issued'[Len(issued')].by = pThreadData'
         /\ issued' \in Seq([kind : Kinds, by : Threads \cup {Inline}])
         /\ pThreadData' \in Threads \cup {NULL}
         /\ IF nonBlocking THEN client'.at = "state" ELSE client'.at = "inline"
         /\ IF nonBlocking /\ pThreadData = NULL
            THEN \E t \in Threads : CreateQueryThread(t)
            ELSE UNCHANGED <<pThreadData, threadData, worker>>
         /\ isOpen' = isOpen /\ nonBlocking' = nonBlocking
         /\ UNCHANGED <<server, stored>>
<1>1. /\ client.at = "idle" /\ isOpen
      /\ IF nonBlocking /\ pThreadData = NULL
         THEN \E t \in Threads : CreateQueryThread(t)
         ELSE UNCHANGED <<pThreadData, threadData, worker>>
      /\ isOpen' = isOpen /\ nonBlocking' = nonBlocking
      /\ UNCHANGED <<server, stored>>
  BY DEF Query, ClientAt
<1>2. pThreadData' \in Threads \cup {NULL}
  BY <1>1, CreateFacts DEF OtherType
<1>3. /\ Len(issued) < MaxQueries
      /\ issued' = Append(issued, [kind |-> kind, by |-> pThreadData'])
      /\ client' = [at |-> IF nonBlocking THEN "state" ELSE "inline", cmd |-> Len(issued) + 1]
  BY DEF Query
<1>4. [kind |-> kind, by |-> pThreadData'] \in [kind : Kinds, by : Threads \cup {Inline}]
  BY <1>2 DEF NULL, Inline
<1>5. /\ Len(issued') = Len(issued) + 1
      /\ \A q \in 1 .. Len(issued) : issued'[q] = issued[q]
      /\ issued'[Len(issued')].by = pThreadData'
      /\ issued' \in Seq([kind : Kinds, by : Threads \cup {Inline}])
  BY <1>3, <1>4 DEF OtherType
<1>6. Len(issued') \in Queries
  BY <1>3, <1>5, SQLAssumption DEF Queries, OtherType
<1>7. client'.cmd = Len(issued') /\ IF nonBlocking THEN client'.at = "state" ELSE client'.at = "inline"
  BY <1>3, <1>5
<1>8. QED
  BY <1>1, <1>2, <1>5, <1>6, <1>7

LEMMA RestStep ==
  ASSUME ThreadType, OtherType, CallInv, [Next]_vars
  PROVE  RestType'
<1>. USE DEF OtherType, RestType, CallInv, InQuery, session, server, ClientAt, WorkerAt
<1>1. CASE \E mode \in Modes : Open(mode)
  BY <1>1 DEF Open, None
<1>2. CASE \E kind \in Kinds : Query(kind)
  <2>1. /\ pThreadData' \in Threads \cup {NULL}
        /\ issued' \in Seq([kind : Kinds, by : Threads \cup {Inline}])
        /\ UNCHANGED <<server, stored>>
    <3>1. PICK kind \in Kinds : Query(kind)
      BY <1>2
    <3>2. ThreadType /\ OtherType
      OBVIOUS
    <3>3. QED
      BY <3>1, <3>2, QueryFacts
  <2>2. QED
    BY <2>1
<1>3. CASE Close
  BY <1>3 DEF Close
<1>4. CASE PushBackState
  BY <1>4 DEF PushBackState
<1>5. CASE PushBack
  BY <1>5 DEF PushBack
<1>6. CASE InlineQuery
  <2>1. /\ UNCHANGED <<pThreadData, issued, unread, stored>>
        /\ \/ log' = Append(log, client.cmd) /\ rejected' = rejected
           \/ log' = log /\ rejected' = rejected \cup {client.cmd}
    BY <1>6 DEF InlineQuery, Receive, Reject
  <2>2. client.cmd \in Queries
    BY <1>6 DEF InlineQuery
  <2>3. QED
    BY <2>1, <2>2
<1>7. CASE InlineDone
  BY <1>7 DEF InlineDone, Receive, Answer, Reject
<1>8. CASE StoreQueryResult
  BY <1>8 DEF StoreQueryResult
<1>9. CASE WaitForQueries
  BY <1>9 DEF WaitForQueries
<1>10. CASE StoreResult
  BY <1>10 DEF StoreResult, None
<1>11. CASE CloseDelete
  BY <1>11 DEF CloseDelete, NULL
<1>12. CASE CloseConnection
  BY <1>12 DEF CloseConnection, None
<1>13. ASSUME NEW t \in Threads, Worker(t)
      PROVE  RestType'
  <2>1. CASE WorkerStart(t)
    BY <2>1 DEF WorkerStart
  <2>2. CASE WorkerWhile(t)
    BY <2>2 DEF WorkerWhile
  <2>3. CASE WorkerPop(t)
    BY <2>3 DEF WorkerPop
  <2>4. CASE WorkerQuery(t)
    <3>1. /\ UNCHANGED <<pThreadData, issued, unread, stored>>
          /\ \/ log' = Append(log, worker[t].cmd) /\ rejected' = rejected
             \/ log' = log /\ rejected' = rejected \cup {worker[t].cmd}
      BY <2>4 DEF WorkerQuery, Receive, Reject
    <3>2. worker[t].cmd \in Queries
      BY <2>4 DEF WorkerQuery
    <3>3. log' \in Seq(Queries)
      <4>1. log \in Seq(Queries) /\ Append(log, worker[t].cmd) \in Seq(Queries)
        BY <3>2
      <4>2. QED
        BY <3>1, <4>1, Zenon
    <3>4. rejected' \subseteq Queries
      BY <3>1, <3>2
    <3>5. QED
      BY <3>1, <3>3, <3>4
  <2>5. CASE WorkerDone(t)
    BY <2>5 DEF WorkerDone, Receive, Answer, Reject
  <2>6. CASE WorkerCut(t)
    BY <2>6 DEF WorkerCut, Receive, Answer, Reject
  <2>7. CASE WorkerStop(t)
    BY <2>7 DEF WorkerStop
  <2>8. CASE WorkerUsesFreed(t)
    BY <2>8 DEF WorkerUsesFreed
  <2>9. QED
    BY <1>13, <2>1, <2>2, <2>3, <2>4, <2>5, <2>6, <2>7, <2>8 DEF Worker
<1>14. CASE UNCHANGED vars
  BY <1>14 DEF vars, session, server
<1>15. QED
  BY <1>1, <1>2, <1>3, <1>4, <1>5, <1>6, <1>7, <1>8, <1>9, <1>10, <1>11, <1>12, <1>13, <1>14
     DEF Next, ClientCalls, ClientContinues

LEMMA CallStep ==
  ASSUME ThreadType, OtherType, CallInv, [Next]_vars
  PROVE  CallInv'
<1>. USE DEF OtherType, CallInv, InQuery, ClientAt
<1>1. CASE \E mode \in Modes : Open(mode)
  BY <1>1, ClientFacts DEF Open
<1>2. CASE \E kind \in Kinds : Query(kind)
  BY <1>2, QueryFacts, CreateFacts DEF Query
<1>3. CASE Close
  BY <1>3, ClientFacts DEF Close
<1>4. CASE PushBackState
  BY <1>4, ClientFacts DEF PushBackState
<1>5. CASE PushBack
  BY <1>5, ClientFacts DEF PushBack, AfterQuery
<1>6. CASE InlineQuery
  BY <1>6, ClientFacts DEF InlineQuery
<1>7. CASE InlineDone
  BY <1>7, ClientFacts DEF InlineDone, AfterQuery
<1>8. CASE StoreQueryResult
  BY <1>8, ClientFacts DEF StoreQueryResult
<1>9. CASE WaitForQueries
  BY <1>9, ClientFacts DEF WaitForQueries
<1>10. CASE StoreResult
  BY <1>10, ClientFacts DEF StoreResult
<1>11. CASE CloseDelete
  BY <1>11, ClientFacts DEF CloseDelete
<1>12. CASE CloseConnection
  BY <1>12, ClientFacts DEF CloseConnection
<1>13. ASSUME NEW t \in Threads, Worker(t)
      PROVE  CallInv'
  <2>1. CASE WorkerStart(t)
    BY <2>1, WorkerFacts DEF WorkerStart
  <2>2. CASE WorkerWhile(t)
    BY <2>2, WorkerFacts DEF WorkerWhile
  <2>3. CASE WorkerPop(t)
    <3>1. UNCHANGED <<client, issued>>
      BY <2>3 DEF WorkerPop
    <3>2. CASE threadData[t].queries = <<>>
      BY <2>3, <3>1, <3>2, WorkerFacts DEF WorkerPop
    <3>3. CASE threadData[t].queries # <<>>
      <4>1. worker' = [worker EXCEPT ![t] = [at |-> "query", cmd |-> Head(threadData[t].queries)]]
        BY <2>3, <3>3 DEF WorkerPop
      <4>2. Head(threadData[t].queries) \in Queries
        BY <3>3 DEF ThreadType, ThreadData
      <4>3. QED
        BY <3>1, <4>1, <4>2
    <3>4. QED
      BY <3>2, <3>3
  <2>4. CASE WorkerQuery(t)
    <3>1. /\ UNCHANGED <<client, issued>>
          /\ WorkerGoes(t, "running") \/ WorkerGoes(t, "returned")
          /\ worker[t].at = "query"
      BY <2>4 DEF WorkerQuery, WorkerAt
    <3>2. QED
      BY <3>1, WorkerFacts
  <2>5. CASE WorkerDone(t)
    BY <2>5, WorkerFacts DEF WorkerDone
  <2>6. CASE WorkerCut(t)
    BY <2>6, WorkerFacts DEF WorkerCut
  <2>7. CASE WorkerStop(t)
    BY <2>7, WorkerFacts DEF WorkerStop
  <2>8. CASE WorkerUsesFreed(t)
    BY <2>8, WorkerFacts DEF WorkerUsesFreed
  <2>9. QED
    BY <1>13, <2>1, <2>2, <2>3, <2>4, <2>5, <2>6, <2>7, <2>8 DEF Worker
<1>14. CASE UNCHANGED vars
  BY <1>14 DEF vars, session, server
<1>15. QED
  BY <1>1, <1>2, <1>3, <1>4, <1>5, <1>6, <1>7, <1>8, <1>9, <1>10, <1>11, <1>12, <1>13, <1>14
     DEF Next, ClientCalls, ClientContinues

LEMMA TypeStep ==
  ASSUME TypeOK, CallInv, SessionInv, [Next]_vars
  PROVE  TypeOK' /\ CallInv'
<1>1. BoolType /\ ThreadType /\ OtherType
  BY TypeSplit
<1>2. BoolType' /\ ThreadType'
  BY <1>1, SQLAssumption, BoolStep, ThreadStep
<1>3. OtherType'
  BY <1>1, ClientStep, WorkerStep, RestStep DEF OtherType, RestType
<1>4. CallInv'
  BY <1>1, CallStep
<1>5. QED
  BY <1>2, <1>3, <1>4, TypeSplit, Zenon DEF TypeOK, BoolType, ThreadType, OtherType,
       ThreadData, Workers, WorkerSteps, Client, ClientSteps

-----------------------------------------------------------------------------
(* The session.                                                            *)

\* A step of the worker of t touches nobody else's data, and only what was allocated.
LEMMA WorkerFrame ==
  ASSUME ThreadType, OtherType, SessionInv, NEW t \in Threads, Worker(t)
  PROVE  /\ isOpen' = isOpen /\ nonBlocking' = nonBlocking /\ pThreadData' = pThreadData
         /\ client' = client /\ issued' = issued
         /\ \A s \in Threads : s # t => threadData'[s] = threadData[s] /\ worker'[s] = worker[s]
         /\ threadData'[t].allocated = threadData[t].allocated
         /\ threadData[t].allocated # "no"
<1>1. UNCHANGED <<session, client, issued>>
  BY DEF Worker, WorkerStart, WorkerWhile, WorkerPop, WorkerQuery, WorkerDone, WorkerCut, WorkerStop,
         WorkerUsesFreed
<1>2. worker[t].at # "none"
  BY DEF Worker, WorkerAt, UsesThreadData, WorkerStart, WorkerWhile, WorkerPop, WorkerQuery, WorkerDone,
         WorkerCut, WorkerStop, WorkerUsesFreed
<1>3. \A s \in Threads : s # t => worker'[s] = worker[s]
  BY DEF OtherType, Worker, WorkerGoes, WorkerStart, WorkerWhile, WorkerPop, WorkerQuery, WorkerDone,
         WorkerCut, WorkerStop, WorkerUsesFreed
<1>4. /\ \A s \in Threads : s # t => threadData'[s] = threadData[s]
      /\ threadData'[t].allocated = threadData[t].allocated
  <2>1. \/ threadData' = threadData
        \/ \E state : threadData' = [threadData EXCEPT ![t].state = state]
        \/ threadData' = [threadData EXCEPT ![t].queries = Tail(@)]
    BY DEF Worker, WorkerStart, WorkerWhile, WorkerPop, WorkerQuery, WorkerDone,
           WorkerCut, WorkerStop, WorkerUsesFreed
  <2>2. QED
    BY <2>1 DEF ThreadType, ThreadData
<1>5. threadData[t].allocated # "no"
  BY <1>2 DEF SessionInv, FreshInv, Untouched
<1>6. QED
  BY <1>1, <1>3, <1>4, <1>5 DEF session

\* The worker of an object nobody wants to delete goes on serving.
LEMMA ServingKept ==
  ASSUME ThreadType, OtherType, NEW t \in Threads, Worker(t), Serving(t), Allocated(t)
  PROVE  Serving(t)'
<1>. USE DEF Serving, OtherType, ThreadType, ThreadData, WorkerAt
<1>1. CASE WorkerStart(t)
  BY <1>1, WorkerFacts DEF WorkerStart
<1>2. CASE WorkerWhile(t)
  BY <1>2, WorkerFacts DEF WorkerWhile
<1>3. CASE WorkerPop(t)
  BY <1>3, WorkerFacts DEF WorkerPop
<1>4. CASE WorkerQuery(t)
  BY <1>4, WorkerFacts DEF WorkerQuery
<1>5. CASE WorkerDone(t)
  BY <1>5, WorkerFacts DEF WorkerDone
<1>6. CASE WorkerCut(t)
  BY <1>6, WorkerFacts DEF WorkerCut
<1>7. CASE WorkerStop(t)
  BY <1>7, WorkerFacts DEF WorkerStop
<1>8. CASE WorkerUsesFreed(t)
  BY <1>8, WorkerFacts DEF WorkerUsesFreed
<1>9. QED
  BY <1>1, <1>2, <1>3, <1>4, <1>5, <1>6, <1>7, <1>8 DEF Worker

LEMMA SessionStep ==
  ASSUME ThreadType, OtherType, SessionInv, [Next]_vars
  PROVE  SessionInv'
<1>. USE DEF OtherType, ThreadType, ThreadData, SessionInv, FreshInv, Serving, Untouched, session, NULL, ClientAt, WorkerAt
<1>0. \A t \in Threads : t # NULL
  BY DEF Threads, NULL
<1>1. CASE \E mode \in Modes : Open(mode)
  BY <1>1, ClientFacts DEF Open
<1>2. CASE \E kind \in Kinds : Query(kind)
  <2>1. PICK kind \in Kinds : Query(kind)
    BY <1>2
  <2>2. /\ client.at = "idle" /\ isOpen /\ isOpen' = isOpen /\ nonBlocking' = nonBlocking
        /\ IF nonBlocking THEN client'.at = "state" ELSE client'.at = "inline"
        /\ Len(issued') = Len(issued) + 1 /\ issued'[Len(issued')].by = pThreadData'
        /\ \A q \in 1 .. Len(issued) : issued'[q] = issued[q]
    BY <2>1, QueryFacts
  <2>3. CASE nonBlocking /\ pThreadData = NULL
    <3>1. PICK t \in Threads : CreateQueryThread(t)
      BY <2>1, <2>3, QueryFacts
    <3>2. /\ pThreadData' = t /\ threadData'[t].allocated = "yes" /\ Untouched(t)
          /\ threadData'[t].state = threadData[t].state /\ worker'[t].at \in {worker[t].at, "start"}
          /\ \A s \in Threads : s # t => threadData'[s] = threadData[s] /\ worker'[s] = worker[s]
      BY <3>1, CreateFacts
    <3>3. Serving(t)'
      BY <3>2
    <3>4. FreshInv'
      <4>1. SUFFICES ASSUME NEW s \in Threads, threadData'[s].allocated = "no" PROVE Untouched(s)'
        OBVIOUS
      <4>2. s # t /\ Untouched(s) /\ threadData'[s] = threadData[s] /\ worker'[s] = worker[s]
        BY <3>2, <4>1
      <4>3. ASSUME NEW q \in 1 .. Len(issued') PROVE issued'[q].by # s
        <5>1. Len(issued) \in Nat
          OBVIOUS
        <5>2. q = Len(issued') \/ q \in 1 .. Len(issued)
          BY <2>2, <4>3, <5>1
        <5>3. \A p \in 1 .. Len(issued) : issued[p].by # s
          BY <4>2
        <5>4. QED
          BY <2>2, <3>2, <4>2, <5>2, <5>3
      <4>4. QED
        BY <4>2, <4>3
    <3>5. QED
      BY <1>0, <2>2, <2>3, <3>2, <3>3, <3>4
  <2>4. CASE ~(nonBlocking /\ pThreadData = NULL)
    <3>1. UNCHANGED <<pThreadData, threadData, worker>>
      BY <2>1, <2>4, QueryFacts
    <3>2. FreshInv'
      <4>1. SUFFICES ASSUME NEW s \in Threads, threadData'[s].allocated = "no" PROVE Untouched(s)'
        OBVIOUS
      <4>2. Untouched(s) /\ threadData[s].allocated = "no" /\ s # pThreadData
        BY <1>0, <3>1, <4>1
      <4>3. ASSUME NEW q \in 1 .. Len(issued') PROVE issued'[q].by # s
        <5>1. Len(issued) \in Nat
          OBVIOUS
        <5>2. q = Len(issued') \/ q \in 1 .. Len(issued)
          BY <2>2, <4>3, <5>1
        <5>3. \A p \in 1 .. Len(issued) : issued[p].by # s
          BY <4>2
        <5>4. QED
          BY <2>2, <3>1, <4>2, <5>2, <5>3
      <4>4. QED
        BY <3>1, <4>2, <4>3
    <3>3. QED
      BY <2>2, <2>4, <3>1, <3>2
  <2>5. QED
    BY <2>3, <2>4
<1>3. CASE Close
  <2>1. client.at = "idle"
    BY <1>3 DEF Close
  <2>2. CASE nonBlocking /\ pThreadData # NULL
    <3>1. /\ pThreadData \in Threads /\ client'.at = "delete"
          /\ threadData' = [threadData EXCEPT ![pThreadData].state = "STOP_REQUESTED"]
          /\ UNCHANGED <<worker, issued, pThreadData>> /\ isOpen' = isOpen /\ nonBlocking' = nonBlocking
      BY <1>3, <2>2, ClientFacts DEF Close
    <3>2. QED
      BY <2>2, <3>1
  <2>3. CASE pThreadData = NULL
    <3>1. /\ client'.at = "disconnect"
          /\ UNCHANGED <<threadData, worker, issued, pThreadData>> /\ isOpen' = isOpen /\ nonBlocking' = nonBlocking
      BY <1>3, <2>3, ClientFacts DEF Close
    <3>2. QED
      BY <2>3, <3>1
  <2>4. QED
    BY <2>2, <2>3
<1>4. CASE PushBackState
  BY <1>4, ClientFacts DEF PushBackState
<1>5. CASE PushBack
  BY <1>5, ClientFacts DEF PushBack, AfterQuery
<1>6. CASE InlineQuery
  BY <1>6, ClientFacts DEF InlineQuery
<1>7. CASE InlineDone
  BY <1>7, ClientFacts DEF InlineDone, AfterQuery
<1>8. CASE StoreQueryResult
  BY <1>8, ClientFacts DEF StoreQueryResult
<1>9. CASE WaitForQueries
  BY <1>9, ClientFacts DEF WaitForQueries
<1>10. CASE StoreResult
  BY <1>10, ClientFacts DEF StoreResult
<1>11. CASE CloseDelete
  BY <1>11, ClientFacts DEF CloseDelete
<1>12. CASE CloseConnection
  BY <1>12, ClientFacts DEF CloseConnection
<1>13. ASSUME NEW t \in Threads, Worker(t)
      PROVE  SessionInv'
  <2>0. FreshInv'
    BY <1>13, WorkerFrame
  <2>1. CASE pThreadData = t /\ client.at # "delete"
    <3>1. Allocated(t) /\ Serving(t)
      BY <1>0, <2>1 DEF Allocated
    <3>2. Serving(t)'
      BY <1>13, <3>1, ServingKept
    <3>3. QED
      BY <1>0, <1>13, <2>0, <2>1, <3>2, WorkerFrame
  <2>2. CASE ~(pThreadData = t /\ client.at # "delete")
    BY <1>0, <1>13, <2>0, <2>2, WorkerFrame
  <2>3. QED
    BY <2>1, <2>2
<1>14. CASE UNCHANGED vars
  BY <1>14 DEF vars, session, server
<1>15. QED
  BY <1>1, <1>2, <1>3, <1>4, <1>5, <1>6, <1>7, <1>8, <1>9, <1>10, <1>11, <1>12, <1>13, <1>14
     DEF Next, ClientCalls, ClientContinues

-----------------------------------------------------------------------------
(* Where the queries are.                                                  *)

\* What has reached the server or was refused stays so.
LEMMA LogGrows ==
  ASSUME OtherType, [Next]_vars
  PROVE  /\ \A q : Reached(q) => Reached(q)'
         /\ rejected \subseteq rejected'
<1>1. \/ UNCHANGED <<log, rejected>>
      \/ \E q : log' = Append(log, q) /\ rejected' = rejected
      \/ \E q : log' = log /\ rejected' = rejected \cup {q}
  BY DEF Next, vars, server, session, Receive, Answer, Reject, ClientCalls, ClientContinues, Worker,
         Open, Query, Close, PushBackState, PushBack, InlineQuery, InlineDone, StoreQueryResult,
         WaitForQueries, StoreResult, CloseDelete, CloseConnection, WorkerStart, WorkerWhile,
         WorkerPop, WorkerQuery, WorkerDone, WorkerCut, WorkerStop, WorkerUsesFreed
<1>2. ASSUME NEW q, log' = Append(log, q)
      PROVE  \A p : Reached(p) => Reached(p)'
  BY <1>2 DEF Reached, OtherType
<1>3. QED
  BY <1>1, <1>2 DEF Reached

\* What only moves the client on leaves the queries where they are.
LEMMA ClientPlace ==
  ASSUME OtherType, PlaceInv, [Next]_vars,
         UNCHANGED <<pThreadData, worker, issued>>,
         \A t \in Threads : threadData'[t].queries = threadData[t].queries,
         client.at \in {"state", "push"} =>
           client'.at \in {"state", "push"} /\ client'.cmd = client.cmd,
         \A t \in Threads : pThreadData = t /\ LastKept(t) => LastKept(t)'
  PROVE  PlaceInv'
<1>1. \A t \in Threads : \A q : Located(q, t) => Located(q, t)'
  BY LogGrows DEF Located, Waiting
<1>2. QED
  BY <1>1, LogGrows DEF PlaceInv

LEMMA PushPlace ==
  ASSUME ThreadType, OtherType, CallInv, SessionInv, PlaceInv, PushBack
  PROVE  PlaceInv'
<1>1. /\ pThreadData \in Threads /\ client.cmd = Len(issued) /\ client.at = "push"
  BY DEF PushBack, ClientAt, CallInv, SessionInv, InQuery, OtherType
<1>t. PICK t \in Threads : pThreadData = t
  BY <1>1
<1>. DEFINE queue == threadData[t].queries
<1>2. /\ threadData' = [threadData EXCEPT ![t].queries = Append(queue, client.cmd)]
      /\ UNCHANGED <<pThreadData, worker, issued, log, rejected>>
  BY <1>t DEF PushBack, session, server
<1>3. /\ threadData'[t].queries = Append(queue, client.cmd)
      /\ queue \in Seq(Queries) /\ Len(queue) \in Nat
  BY <1>1, <1>2 DEF ThreadType, ThreadData
<1>4. /\ Len(threadData'[t].queries) = Len(queue) + 1
      /\ threadData'[t].queries[Len(queue) + 1] = client.cmd
      /\ \A k \in 1 .. Len(queue) : threadData'[t].queries[k] = queue[k]
  BY <1>3
<1>5. \A q : Located(q, t) => Located(q, t)'
  <2>1. \A q : q = client.cmd => Waiting(q, t)'
    BY <1>3, <1>4 DEF Waiting
  <2>2. \A q : Waiting(q, t) => Waiting(q, t)'
    BY <1>3, <1>4 DEF Waiting
  <2>3. QED
    BY <1>2, <2>1, <2>2 DEF Located, Reached
<1>6. client'.at \in {"result", "idle"}
  BY ClientFacts DEF PushBack, AfterQuery
<1>7. LastKept(t)'
  <2>1. threadData'[t].queries # <<>>
    BY <1>1, <1>3
  <2>2. threadData'[t].queries[Len(threadData'[t].queries)] = Len(issued)
    BY <1>1, <1>4
  <2>3. QED
    BY <1>2, <1>6, <2>1, <2>2 DEF LastKept
<1>8. QED
  BY <1>t, <1>2, <1>5, <1>7 DEF PlaceInv, Reached

LEMMA QueryPlace ==
  ASSUME ThreadType, OtherType, SessionInv, PlaceInv, [Next]_vars, NEW kind \in Kinds, Query(kind)
  PROVE  PlaceInv'
<1>. SUFFICES ASSUME NEW t \in Threads, pThreadData' = t
              PROVE  /\ \A q \in 1 .. Len(issued') : issued'[q].by = t => Located(q, t)'
                     /\ worker'[t].at \in {"none", "start"} => worker'[t].cmd = None
                     /\ (worker[t].at \in {"while", "pop", "running"} =>
                           worker[t].cmd = None \/ Reached(worker[t].cmd))'
                     /\ LastKept(t)'
  BY DEF PlaceInv
<1>0. t # NULL /\ Len(issued) \in Nat
  BY DEF Threads, NULL, OtherType
<1>1. /\ client.at = "idle" /\ client'.cmd = Len(issued') /\ Len(issued') = Len(issued) + 1
      /\ \A q \in 1 .. Len(issued) : issued'[q] = issued[q]
      /\ client'.at \in {"state", "inline"}
  BY QueryFacts
<1>2. client'.at = "state"
  <2>1. nonBlocking
    <3>1. CASE nonBlocking /\ pThreadData = NULL
      BY <3>1
    <3>2. CASE ~(nonBlocking /\ pThreadData = NULL)
      <4>1. pThreadData = t
        BY <3>2, QueryFacts
      <4>2. QED
        BY <1>0, <4>1 DEF SessionInv
    <3>3. QED
      BY <3>1, <3>2
  <2>2. QED
    BY <2>1, QueryFacts
<1>3. LastKept(t)'
  BY <1>2 DEF LastKept
<1>4. CASE nonBlocking /\ pThreadData = NULL
  <2>1. CreateQueryThread(t)
    <3>1. PICK s \in Threads : CreateQueryThread(s)
      BY <1>4, QueryFacts
    <3>2. QED
      BY <3>1, CreateFacts
  <2>2. Untouched(t) /\ worker'[t].at \in {worker[t].at, "start"} /\ worker'[t].cmd = worker[t].cmd
    BY <2>1, CreateFacts DEF SessionInv, FreshInv
  <2>3. ASSUME NEW q \in 1 .. Len(issued'), issued'[q].by = t
        PROVE  Located(q, t)'
    <3>1. q = Len(issued')
      BY <1>0, <1>1, <2>2, <2>3 DEF Untouched
    <3>2. QED
      BY <1>1, <1>2, <3>1 DEF Located
  <2>4. QED
    BY <1>3, <2>2, <2>3 DEF Untouched
<1>5. CASE ~(nonBlocking /\ pThreadData = NULL)
  <2>1. UNCHANGED <<pThreadData, threadData, worker>>
    BY <1>5, QueryFacts
  <2>2. ASSUME NEW q \in 1 .. Len(issued'), issued'[q].by = t
        PROVE  Located(q, t)'
    <3>1. CASE q = Len(issued')
      BY <1>1, <1>2, <3>1 DEF Located
    <3>2. CASE q # Len(issued')
      <4>1. Located(q, t)
        BY <1>0, <1>1, <2>1, <2>2, <3>2 DEF PlaceInv
      <4>2. QED
        BY <1>1, <2>1, <4>1, LogGrows DEF Located, Waiting
    <3>3. QED
      BY <3>1, <3>2
  <2>3. QED
    BY <1>3, <2>1, <2>2, LogGrows DEF PlaceInv
<1>6. QED
  BY <1>4, <1>5

LEMMA PopPlace ==
  ASSUME ThreadType, OtherType, PlaceInv, NEW t \in Threads, WorkerPop(t), pThreadData = t
  PROVE  PlaceInv'
<1>. DEFINE queue == threadData[t].queries
<1>0. /\ UNCHANGED <<pThreadData, client, issued, log, rejected>>
      /\ worker[t].at = "pop" /\ queue \in Seq(Queries) /\ Len(queue) \in Nat
  BY DEF WorkerPop, WorkerAt, session, server, ThreadType, ThreadData
<1>1. CASE queue = <<>>
  <2>1. threadData' = threadData /\ worker'[t].at = "while" /\ worker'[t].cmd = worker[t].cmd
    BY <1>1, WorkerFacts DEF WorkerPop
  <2>2. QED
    BY <1>0, <2>1 DEF PlaceInv, Located, Waiting, Reached, LastKept
<1>2. CASE queue # <<>>
  <2>1. /\ threadData' = [threadData EXCEPT ![t].queries = Tail(queue)]
        /\ worker' = [worker EXCEPT ![t] = [at |-> "query", cmd |-> Head(queue)]]
    BY <1>2 DEF WorkerPop
  <2>2. threadData'[t].queries = Tail(queue) /\ worker'[t] = [at |-> "query", cmd |-> Head(queue)]
    BY <2>1 DEF ThreadType, ThreadData, OtherType
  <2>3. /\ Head(queue) = queue[1] /\ Len(queue) >= 1 /\ Len(Tail(queue)) = Len(queue) - 1
        /\ \A k \in 2 .. Len(queue) : Tail(queue)[k - 1] = queue[k]
        /\ Tail(queue) \in Seq(Queries)
    BY <1>0, <1>2
  <2>4. ASSUME NEW q \in 1 .. Len(issued), Located(q, t)
        PROVE  Located(q, t)'
    <3>1. CASE Waiting(q, t)
      <4>1. PICK k \in 1 .. Len(queue) : queue[k] = q
        BY <3>1 DEF Waiting
      <4>2. CASE k = 1
        BY <2>2, <2>3, <4>1, <4>2 DEF Located
      <4>3. CASE k # 1
        <5>1. k - 1 \in 1 .. Len(Tail(queue)) /\ Tail(queue)[k - 1] = q
          BY <1>0, <2>3, <4>1, <4>3
        <5>2. QED
          BY <2>2, <5>1 DEF Located, Waiting
      <4>4. QED
        BY <4>2, <4>3
    <3>2. CASE q = worker[t].cmd
      <4>1. Reached(q)
        BY <1>0, <3>2 DEF PlaceInv, None
      <4>2. QED
        BY <1>0, <4>1 DEF Located, Reached
    <3>3. CASE ~Waiting(q, t) /\ q # worker[t].cmd
      BY <1>0, <2>4, <3>3 DEF Located, Reached
    <3>4. QED
      BY <3>1, <3>2, <3>3
  <2>5. LastKept(t)'
    <3>1. SUFFICES ASSUME client.at \in {"result", "wait", "store"} PROVE LastKept(t)'
      BY <1>0 DEF LastKept
    <3>2. client.at # "store" /\ queue[Len(queue)] = Len(issued)
      BY <1>2, <3>1 DEF PlaceInv, LastKept
    <3>3. CASE Len(queue) = 1
      <4>1. Tail(queue) = <<>>
        <5>1. Len(Tail(queue)) = 0
          BY <2>3, <3>3
        <5>2. QED
          BY <2>3, <5>1, EmptySeq, Zenon
      <4>. HIDE DEF queue
      <4>a. Head(queue) = Len(issued)
        BY <2>3, <3>2, <3>3
      <4>2. QED
        BY <1>0, <2>2, <4>1, <4>a DEF LastKept, queue
    <3>4. CASE Len(queue) # 1
      <4>. HIDE DEF queue
      <4>1. Len(queue) \in 2 .. Len(queue)
        BY <1>0, <2>3, <3>4
      <4>2. Tail(queue) # <<>>
        <5>1. Len(Tail(queue)) # 0
          BY <1>0, <2>3, <4>1
        <5>2. QED
          BY <2>3, <5>1, EmptySeq, Zenon
      <4>a. Tail(queue)[Len(Tail(queue))] = Len(issued)
        BY <1>0, <2>3, <3>2, <4>1
      <4>3. QED
        BY <1>0, <2>2, <3>2, <4>2, <4>a DEF LastKept, queue
    <3>5. QED
      BY <3>3, <3>4
  <2>6. QED
    BY <1>0, <2>2, <2>4, <2>5 DEF PlaceInv
<1>3. QED
  BY <1>1, <1>2

LEMMA WorkerPlace ==
  ASSUME ThreadType, OtherType, SessionInv, PlaceInv, [Next]_vars, NEW t \in Threads, Worker(t)
  PROVE  PlaceInv'
<1>1. CASE pThreadData # t
  BY <1>1, WorkerFrame, LogGrows DEF PlaceInv, Located, Waiting, LastKept
<1>2. CASE pThreadData = t /\ WorkerPop(t)
  BY <1>2, PopPlace
<1>3. CASE pThreadData = t /\ ~WorkerPop(t)
  <2>1. /\ threadData'[t].queries = threadData[t].queries
        /\ worker'[t].cmd = worker[t].cmd
        /\ worker'[t].at \notin {"none", "start"}
    <3>1. \/ threadData' = threadData
          \/ \E state : threadData' = [threadData EXCEPT ![t].state = state]
      BY <1>3 DEF Worker, WorkerStart, WorkerWhile, WorkerQuery, WorkerDone, WorkerCut, WorkerStop,
                  WorkerUsesFreed
    <3>2. threadData'[t].queries = threadData[t].queries
      BY <3>1 DEF ThreadType, ThreadData
    <3>3. \E a \in {"while", "pop", "stop", "running", "returned"} :
            \/ WorkerGoes(t, a)
            \/ UNCHANGED worker /\ WorkerUsesFreed(t)
      BY <1>3 DEF Worker, WorkerStart, WorkerWhile, WorkerQuery, WorkerDone, WorkerCut, WorkerStop,
                  WorkerUsesFreed
    <3>4. ~WorkerUsesFreed(t)
      BY <1>3 DEF WorkerUsesFreed, SessionInv, Threads, NULL
    <3>5. QED
      BY <3>2, <3>3, <3>4, WorkerFacts
  <2>2. (worker[t].at \in {"while", "pop", "running"} => worker[t].cmd = None \/ Reached(worker[t].cmd))'
    <3>1. CASE WorkerQuery(t)
      <4>1. CASE Accepts
        <5>1. log' = Append(log, worker[t].cmd)
          BY <3>1, <4>1 DEF WorkerQuery, Receive
        <5>2. \A q : q = worker[t].cmd => Reached(q)'
          BY <5>1 DEF Reached, OtherType
        <5>3. QED
          BY <2>1, <5>2
      <4>2. CASE ~Accepts
        BY <3>1, <4>2, WorkerFacts DEF WorkerQuery
      <4>3. QED
        BY <4>1, <4>2
    <3>2. CASE ~WorkerQuery(t)
      <4>1. worker'[t].at \in {"while", "pop", "running"} =>
              worker[t].at \in {"start", "while", "running"}
        <5>1. CASE WorkerStart(t) \/ WorkerWhile(t) \/ WorkerDone(t)
          BY <5>1 DEF WorkerAt, WorkerStart, WorkerWhile, WorkerDone
        <5>2. CASE WorkerCut(t) \/ WorkerStop(t)
          BY <5>2, WorkerFacts DEF WorkerCut, WorkerStop
        <5>3. CASE WorkerUsesFreed(t)
          BY <1>3, <5>3 DEF WorkerUsesFreed, SessionInv, Threads, NULL
        <5>4. QED
          BY <1>3, <3>2, <5>1, <5>2, <5>3 DEF Worker
      <4>2. QED
        BY <1>3, <2>1, <4>1, LogGrows DEF PlaceInv
    <3>3. QED
      BY <3>1, <3>2
  <2>3. QED
    BY <1>3, <2>1, <2>2, WorkerFrame, LogGrows DEF PlaceInv, Located, Waiting, LastKept
<1>4. QED
  BY <1>1, <1>2, <1>3

LEMMA PlaceStep ==
  ASSUME ThreadType, OtherType, CallInv, SessionInv, PlaceInv, [Next]_vars
  PROVE  PlaceInv'
<1>0. \A t \in Threads : t # NULL
  BY DEF Threads, NULL
<1>1. CASE pThreadData' = NULL
  BY <1>0, <1>1 DEF PlaceInv
<1>2. CASE \/ \E mode \in Modes : Open(mode)
           \/ InlineQuery \/ InlineDone \/ CloseDelete \/ CloseConnection
  <2>1. pThreadData' = NULL
    BY <1>2 DEF Open, InlineQuery, InlineDone, CloseDelete, CloseConnection, ClientAt, session, SessionInv
  <2>2. QED
    BY <1>1, <2>1
<1>3. CASE \E kind \in Kinds : Query(kind)
  BY <1>3, QueryPlace
<1>4. CASE PushBack
  BY <1>4, PushPlace
<1>5. CASE Close
  <2>1. UNCHANGED <<pThreadData, worker, issued>> /\ client.at = "idle"
    BY <1>5 DEF Close, ClientAt, session
  <2>2. \A t \in Threads : threadData'[t].queries = threadData[t].queries
    <3>1. \/ threadData' = threadData
          \/ /\ pThreadData \in Threads
             /\ threadData' = [threadData EXCEPT ![pThreadData].state = "STOP_REQUESTED"]
      BY <1>5 DEF Close, OtherType
    <3>2. QED
      BY <3>1, Zenon DEF ThreadType, ThreadData
  <2>3. client'.at \in {"delete", "disconnect"}
    BY <1>5, ClientFacts DEF Close
  <2>4. \A t \in Threads : LastKept(t)'
    BY <2>3 DEF LastKept
  <2>5. QED
    BY <2>1, <2>2, <2>4, ClientPlace
<1>6. CASE PushBackState
  <2>1. UNCHANGED <<pThreadData, worker, issued, threadData>> /\ client.at = "state"
    BY <1>6 DEF PushBackState, ClientAt, session
  <2>2. threadData[pThreadData].state \in {"READY", "RUNNING"}
    BY <2>1 DEF SessionInv, Serving
  <2>3. client'.at = "push" /\ client'.cmd = client.cmd
    BY <1>6, <2>2, ClientFacts DEF PushBackState
  <2>4. \A t \in Threads : LastKept(t)'
    BY <2>3 DEF LastKept
  <2>5. QED
    BY <2>1, <2>3, <2>4, ClientPlace
<1>7. CASE StoreQueryResult
  <2>1. UNCHANGED <<pThreadData, worker, issued, threadData>> /\ client.at = "result"
    BY <1>7 DEF StoreQueryResult, ClientAt, session
  <2>2. CASE pThreadData = NULL
    BY <1>1, <2>1, <2>2
  <2>3. CASE pThreadData # NULL
    <3>1. client'.at = "wait"
      BY <1>7, <2>3, ClientFacts DEF StoreQueryResult, SessionInv
    <3>2. \A t \in Threads : LastKept(t) => LastKept(t)'
      BY <2>1, <3>1 DEF LastKept
    <3>3. QED
      BY <2>1, <3>2, ClientPlace
  <2>4. QED
    BY <2>2, <2>3
<1>8. CASE WaitForQueries
  <2>1. /\ UNCHANGED <<pThreadData, worker, issued, threadData>> /\ client.at = "wait"
        /\ threadData[pThreadData].queries = <<>>
    BY <1>8 DEF WaitForQueries, ClientAt, session
  <2>2. \A t \in Threads : pThreadData = t /\ LastKept(t) => LastKept(t)'
    BY <2>1 DEF LastKept
  <2>3. QED
    BY <2>1, <2>2, ClientPlace
<1>9. CASE StoreResult
  <2>1. UNCHANGED <<pThreadData, worker, issued, threadData>> /\ client.at = "store"
    BY <1>9 DEF StoreResult, ClientAt, session
  <2>2. client'.at = "idle"
    BY <1>9, ClientFacts DEF StoreResult
  <2>3. \A t \in Threads : LastKept(t)'
    BY <2>2 DEF LastKept
  <2>4. QED
    BY <2>1, <2>3, ClientPlace
<1>10. CASE \E t \in Threads : Worker(t)
  BY <1>10, WorkerPlace
<1>11. CASE UNCHANGED vars
  <2>1. UNCHANGED <<pThreadData, worker, issued, threadData, client>>
    BY <1>11 DEF vars
  <2>2. \A t \in Threads : LastKept(t) => LastKept(t)'
    BY <2>1 DEF LastKept
  <2>3. QED
    BY <2>1, <2>2, ClientPlace
<1>12. QED
  BY <1>2, <1>3, <1>4, <1>5, <1>6, <1>7, <1>8, <1>9, <1>10, <1>11 DEF Next, ClientCalls, ClientContinues

-----------------------------------------------------------------------------
(* What the worker was given, and in which order.                           *)

\* What push_back accepted is kept, in order.  While a query waits in the
\* queue, or its worker is about to hand it over, it has not reached the server.
Kept(t) == Accepted(t) = Taken(t) \cup Queued(t) /\ InOrder(t)

NotYetSent(t) == worker[t].at = "query" => ~Reached(worker[t].cmd)

SentInv == \A i \in 1 .. Len(log) : log[i] \in 1 .. Len(issued)
OneSession == \A t \in Threads : Allocated(t) => pThreadData = t
ByInv == client.at \in {"state", "push"} => issued[client.cmd].by = pThreadData

OrderInv ==
  /\ SentInv /\ OneSession /\ ByInv
  /\ \A t \in Threads : Allocated(t) => Kept(t) /\ NotYetSent(t)

LEMMA KeptFrame ==
  ASSUME NEW t \in Threads, Kept(t), issued' = issued,
         Received(t)' = Received(t), \A i \in Received(t) : log'[i] = log[i],
         worker'[t].cmd = worker[t].cmd, threadData'[t].queries = threadData[t].queries,
         Accepted(t)' = Accepted(t)
  PROVE  Kept(t)'
<1>1. Taken(t)' = Taken(t)
  BY DEF Taken
<1>2. Queued(t)' = Queued(t)
  BY DEF Queued
<1>3. InOrder(t)'
  <2>1. InOrder(t)
    BY DEF Kept
  <2>2. \A i, j \in Received(t)' : i < j => log'[i] < log'[j]
    BY <2>1 DEF InOrder
  <2>3. (\A q \in Taken(t) : q <= worker[t].cmd /\ \A w \in Queued(t) : q < w)'
    BY <1>1, <1>2, <2>1 DEF InOrder
  <2>4. (\A i, j \in 1 .. Len(threadData[t].queries) :
           i < j => threadData[t].queries[i] < threadData[t].queries[j])'
    BY <2>1 DEF InOrder
  <2>5. QED
    BY <2>2, <2>3, <2>4 DEF InOrder
<1>4. QED
  BY <1>1, <1>2, <1>3 DEF Kept

\* Steps that change neither what was issued nor what was received.
LEMMA QuietKept ==
  ASSUME NEW t \in Threads, Kept(t), NotYetSent(t), issued' = issued, log' = log,
         worker'[t].cmd = worker[t].cmd, threadData'[t].queries = threadData[t].queries,
         worker'[t].at = "query" => worker[t].at = "query",
         client'.cmd = client.cmd,
         client'.at \in {"state", "push", "inline"} <=> client.at \in {"state", "push", "inline"}
  PROVE  Kept(t)' /\ NotYetSent(t)'
<1>1. Accepted(t)' = Accepted(t)
  BY DEF Accepted
<1>2. Received(t)' = Received(t)
  BY DEF Received
<1>3. QED
  BY <1>1, <1>2, KeptFrame DEF NotYetSent, Reached

LEMMA QuietOrder ==
  ASSUME OrderInv, issued' = issued, log' = log, pThreadData' = pThreadData,
         \A t \in Threads :
           /\ threadData'[t].allocated = threadData[t].allocated
           /\ threadData'[t].queries = threadData[t].queries
           /\ worker'[t] = worker[t],
         \/ client' = client
         \/ client.at = "state" /\ client'.at = "push" /\ client'.cmd = client.cmd
         \/ /\ client.at \notin {"state", "push", "inline"}
            /\ client'.at \notin {"state", "push", "inline"}
  PROVE  OrderInv'
<1>1. SentInv' /\ OneSession' /\ ByInv'
  BY DEF OrderInv, SentInv, OneSession, ByInv, Allocated
<1>2. ASSUME NEW t \in Threads, Allocated(t)' PROVE Kept(t)' /\ NotYetSent(t)'
  <2>1. Kept(t) /\ NotYetSent(t) /\ Received(t)' = Received(t)
    BY <1>2 DEF OrderInv, Allocated, Received
  <2>2. Accepted(t)' = Accepted(t)
    BY DEF Accepted
  <2>3. Kept(t)'
    BY <2>1, <2>2, KeptFrame
  <2>4. QED
    BY <2>1, <2>3 DEF NotYetSent, Reached
<1>3. QED
  BY <1>1, <1>2 DEF OrderInv

\* Nothing is to be kept while there is no SQLThreadData.
LEMMA NoSession ==
  ASSUME SentInv', OneSession', pThreadData' = NULL,
         client'.at \in {"state", "push"} => FALSE
  PROVE  OrderInv'
<1>1. \A t \in Threads : ~Allocated(t)'
  BY DEF OneSession, Threads, NULL
<1>2. QED
  BY <1>1 DEF OrderInv, ByInv

LEMMA QueryOrder ==
  ASSUME ThreadType, OtherType, SessionInv, OrderInv, NEW kind \in Kinds, Query(kind)
  PROVE  OrderInv'
<1>. DEFINE n == Len(issued')
<1>0. Len(issued) \in Nat /\ \A t \in Threads : t # NULL
  BY DEF OtherType, Threads, NULL
<1>1. /\ client.at = "idle" /\ client'.cmd = n /\ n = Len(issued) + 1
      /\ \A q \in 1 .. Len(issued) : issued'[q] = issued[q]
      /\ issued'[n].by = pThreadData' /\ log' = log
      /\ IF nonBlocking THEN client'.at = "state" ELSE client'.at = "inline"
      /\ IF nonBlocking /\ pThreadData = NULL
         THEN \E t \in Threads : CreateQueryThread(t)
         ELSE UNCHANGED <<pThreadData, threadData, worker>>
  BY QueryFacts DEF server
<1>2. SentInv'
  <2>1. 1 .. Len(issued) \subseteq 1 .. n
    BY <1>0, <1>1
  <2>2. QED
    BY <1>1, <2>1 DEF SentInv, OrderInv
<1>3. ByInv'
  BY <1>1 DEF ByInv
<1>4. \A t \in Threads : Received(t)' = Received(t)
  BY <1>1, <1>2 DEF Received, SentInv, OrderInv
<1>5. \A t \in Threads : nonBlocking => Accepted(t)' = Accepted(t)
  <2>. SUFFICES ASSUME NEW t \in Threads, nonBlocking PROVE Accepted(t)' = Accepted(t)
    OBVIOUS
  <2>1. Accepted(t) = {q \in 1 .. Len(issued) : issued[q].by = t}
    BY <1>1 DEF Accepted
  <2>2. Accepted(t)' = {q \in 1 .. n : issued'[q].by = t /\ q # n}
    BY <1>1 DEF Accepted
  <2>. HIDE DEF n
  <2>3. \A q : q \in 1 .. Len(issued) <=> q \in 1 .. n /\ q # n
    BY <1>0, <1>1
  <2>4. QED
    BY <1>1, <2>1, <2>2, <2>3
<1>6. CASE nonBlocking /\ pThreadData = NULL
  <2>1. PICK s \in Threads : CreateQueryThread(s)
    BY <1>1, <1>6
  <2>2. /\ pThreadData' = s /\ Untouched(s) /\ threadData'[s].queries = threadData[s].queries
        /\ worker'[s].at \in {worker[s].at, "start"} /\ worker'[s].cmd = worker[s].cmd
        /\ \A t \in Threads : t # s => threadData'[t] = threadData[t]
    BY <2>1, CreateFacts DEF SessionInv, FreshInv
  <2>3. OneSession'
    BY <1>0, <1>6, <2>2 DEF OneSession, OrderInv, Allocated
  <2>4. Received(s)' = {} /\ Accepted(s)' = {}
    BY <1>4, <1>5, <1>6, <2>2 DEF Untouched, Received, Accepted, OrderInv, SentInv
  <2>5. Kept(s)'
    <3>1. threadData'[s].queries = <<>> /\ worker'[s].cmd = None
      BY <2>2 DEF Untouched
    <3>2. Taken(s)' = {} /\ Queued(s)' = {}
      BY <2>4, <3>1 DEF Taken, Queued
    <3>3. QED
      BY <2>4, <3>1, <3>2 DEF Kept, InOrder
  <2>6. NotYetSent(s)'
    BY <2>2 DEF NotYetSent, Untouched
  <2>7. QED
    BY <1>2, <1>3, <2>2, <2>3, <2>5, <2>6 DEF OrderInv, OneSession
<1>7. CASE ~(nonBlocking /\ pThreadData = NULL)
  <2>1. UNCHANGED <<pThreadData, threadData, worker>>
    BY <1>1, <1>7
  <2>2. OneSession'
    BY <2>1 DEF OneSession, OrderInv, Allocated
  <2>3. ASSUME NEW t \in Threads, Allocated(t)' PROVE Kept(t)' /\ NotYetSent(t)'
    <3>1. Allocated(t) /\ pThreadData = t /\ nonBlocking
      BY <1>0, <2>1, <2>3 DEF Allocated, OrderInv, OneSession, SessionInv
    <3>2. Kept(t) /\ NotYetSent(t)
      BY <3>1 DEF OrderInv
    <3>3. Taken(t)' = Taken(t) /\ Queued(t)' = Queued(t) /\ Accepted(t)' = Accepted(t)
      BY <1>1, <1>4, <1>5, <2>1, <3>1 DEF Taken, Queued
    <3>4. InOrder(t)'
      <4>1. (\A i, j \in Received(t) : i < j => log[i] < log[j])'
        BY <1>1, <1>4, <3>2 DEF Kept, InOrder
      <4>2. QED
        BY <2>1, <3>2, <3>3, <4>1 DEF Kept, InOrder
    <3>5. QED
      BY <1>1, <2>1, <3>2, <3>3, <3>4 DEF Kept, NotYetSent, Reached
  <2>4. QED
    BY <1>2, <1>3, <2>2, <2>3 DEF OrderInv
<1>8. QED
  BY <1>6, <1>7

LEMMA PushOrder ==
  ASSUME ThreadType, OtherType, CallInv, SessionInv, OrderInv, PushBack
  PROVE  OrderInv'
<1>. DEFINE c == client.cmd
            queue == threadData[pThreadData].queries
<1>1. /\ UNCHANGED <<pThreadData, worker, issued, log>> /\ client.at = "push"
      /\ c = Len(issued) /\ c \in Queries /\ pThreadData \in Threads
      /\ issued[c].by = pThreadData
  BY DEF PushBack, ClientAt, CallInv, InQuery, SessionInv, OtherType, OrderInv, ByInv, session, server
<1>2. PICK t \in Threads : t = pThreadData
  BY <1>1
<1>3. /\ threadData' = [threadData EXCEPT ![t].queries = Append(queue, c)]
      /\ queue \in Seq(Queries)
  BY <1>2 DEF PushBack, ThreadType, ThreadData
<1>4. /\ threadData'[t].queries = Append(queue, c)
      /\ \A s \in Threads : threadData'[s].allocated = threadData[s].allocated
  BY <1>3 DEF ThreadType, ThreadData
<1>5. client'.at \in {"result", "idle"}
  BY ClientFacts DEF PushBack, AfterQuery
<1>6. SentInv' /\ OneSession' /\ ByInv'
  BY <1>1, <1>4, <1>5 DEF OrderInv, SentInv, OneSession, ByInv, Allocated
<1>7. ASSUME NEW s \in Threads, Allocated(s)' PROVE Kept(s)' /\ NotYetSent(s)'
  <2>1. s = t /\ Kept(t) /\ NotYetSent(t)
    BY <1>1, <1>2, <1>4, <1>7 DEF Allocated, OrderInv, OneSession
  <2>2. Received(t)' = Received(t) /\ Taken(t)' = Taken(t)
    BY <1>1 DEF Received, Taken
  <2>3. Queued(t)' = Queued(t) \cup {c}
    BY <1>2, <1>3, <1>4 DEF Queued
  <2>4. Accepted(t)' = Accepted(t) \cup {c} /\ c \notin Accepted(t)
    BY <1>1, <1>2, <1>5 DEF Accepted, Queries
  <2>5. \A q \in Accepted(t) : q < c
    <3>1. \A q \in Accepted(t) : q \in 1 .. c
      BY <1>1 DEF Accepted
    <3>2. QED
      BY <1>1, <2>4, <3>1 DEF Queries
  <2>6. (Accepted(t) = Taken(t) \cup Queued(t))'
    BY <2>1, <2>2, <2>3, <2>4 DEF Kept
  <2>7. InOrder(t)'
    <3>1. (\A i, j \in Received(t) : i < j => log[i] < log[j])'
      BY <1>1, <2>1, <2>2 DEF Kept, InOrder
    <3>2. (\A q \in Taken(t) : q <= worker[t].cmd /\ \A w \in Queued(t) : q < w)'
      BY <1>1, <2>1, <2>2, <2>3, <2>5 DEF Kept, InOrder
    <3>3. (\A i, j \in 1 .. Len(threadData[t].queries) :
             i < j => threadData[t].queries[i] < threadData[t].queries[j])'
      <4>1. \A i \in 1 .. Len(queue) : queue[i] < c
        BY <1>2, <2>1, <2>5 DEF Kept, Queued
      <4>2. \A i, j \in 1 .. Len(queue) : i < j => queue[i] < queue[j]
        BY <1>2, <2>1 DEF Kept, InOrder
      <4>3. /\ Len(threadData'[t].queries) = Len(queue) + 1 /\ Len(queue) \in Nat
            /\ threadData'[t].queries[Len(queue) + 1] = c
            /\ \A i \in 1 .. Len(queue) : threadData'[t].queries[i] = queue[i]
        BY <1>1, <1>3, <1>4
      <4>. HIDE DEF c, queue
      <4>4. \A i \in 1 .. Len(threadData'[t].queries) : i \in 1 .. Len(queue) \/ i = Len(queue) + 1
        BY <4>3
      <4>5. QED
        BY <4>1, <4>2, <4>3, <4>4
    <3>4. QED
      BY <3>1, <3>2, <3>3 DEF InOrder
  <2>8. QED
    BY <1>1, <2>1, <2>6, <2>7 DEF Kept, NotYetSent, Reached
<1>8. QED
  BY <1>6, <1>7 DEF OrderInv

LEMMA PopOrder ==
  ASSUME ThreadType, OtherType, PlaceInv, OrderInv, NEW t \in Threads, WorkerPop(t)
  PROVE  OrderInv'
<1>. DEFINE queue == threadData[t].queries
<1>1. /\ UNCHANGED <<pThreadData, client, issued, log>>
      /\ worker[t].at = "pop" /\ queue \in Seq(Queries) /\ Allocated(t)
      /\ pThreadData = t /\ Kept(t)
  BY DEF WorkerPop, WorkerAt, session, server, ThreadType, ThreadData, OrderInv, OneSession
<1>2. \A s \in Threads : threadData'[s].allocated = threadData[s].allocated
  BY DEF WorkerPop, ThreadType, ThreadData
<1>3. SentInv' /\ OneSession' /\ ByInv'
  BY <1>1, <1>2 DEF OrderInv, SentInv, OneSession, ByInv, Allocated
<1>4. Received(t)' = Received(t) /\ Accepted(t)' = Accepted(t)
  BY <1>1 DEF Received, Accepted
<1>5. Kept(t)' /\ NotYetSent(t)'
  <2>1. CASE queue = <<>>
    <3>1. threadData' = threadData /\ worker'[t].at = "while" /\ worker'[t].cmd = worker[t].cmd
      BY <2>1, WorkerFacts DEF WorkerPop
    <3>2. QED
      BY <1>1, <1>4, <3>1, KeptFrame DEF NotYetSent
  <2>2. CASE queue # <<>>
    <3>1. PICK h : h = Head(queue)
      OBVIOUS
    <3>2. /\ threadData' = [threadData EXCEPT ![t].queries = Tail(queue)]
          /\ worker' = [worker EXCEPT ![t] = [at |-> "query", cmd |-> h]]
      BY <2>2, <3>1 DEF WorkerPop
    <3>3. threadData'[t].queries = Tail(queue) /\ worker'[t] = [at |-> "query", cmd |-> h]
      BY <3>2 DEF ThreadType, ThreadData, OtherType
    <3>4. /\ h = queue[1] /\ Len(queue) \in Nat \ {0} /\ h \in Queries
          /\ Len(Tail(queue)) = Len(queue) - 1
          /\ \A k \in 1 .. Len(Tail(queue)) : Tail(queue)[k] = queue[k + 1]
      BY <1>1, <2>2, <3>1
    <3>5. h \in Queued(t) /\ h \in Accepted(t) /\ issued[h].by = t
      BY <1>1, <3>4 DEF Queued, Kept, Accepted
    <3>6. Queued(t) = Queued(t)' \cup {h} /\ \A w \in Queued(t)' : h < w
      <4>1. Queued(t)' = {Tail(queue)[k] : k \in 1 .. Len(Tail(queue))}
        BY <3>3 DEF Queued
      <4>2. Queued(t) = {queue[k] : k \in 1 .. Len(queue)}
        BY DEF Queued
      <4>3. \A i, j \in 1 .. Len(queue) : i < j => queue[i] < queue[j]
        BY <1>1 DEF Kept, InOrder
      <4>. HIDE DEF queue
      <4>4. \A k \in 1 .. Len(Tail(queue)) : k + 1 \in 1 .. Len(queue) /\ 1 < k + 1
        BY <3>4
      <4>5. \A k \in 1 .. Len(queue) : k = 1 \/ (k - 1 \in 1 .. Len(Tail(queue)) /\ (k - 1) + 1 = k)
        BY <3>4
      <4>6. 1 \in 1 .. Len(queue)
        BY <3>4
      <4>7. \A w \in Queued(t)' : h < w /\ w \in Queued(t)
        BY <3>4, <4>1, <4>2, <4>3, <4>4, <4>6
      <4>8. ASSUME NEW w \in Queued(t), w # h PROVE w \in Queued(t)'
        <5>1. PICK k \in 1 .. Len(queue) : w = queue[k]
          BY <4>2
        <5>2. k - 1 \in 1 .. Len(Tail(queue)) /\ Tail(queue)[k - 1] = queue[k]
          BY <3>4, <4>5, <4>8, <5>1
        <5>3. QED
          BY <4>1, <5>1, <5>2
      <4>9. QED
        BY <3>5, <4>7, <4>8
    <3>7. \A q \in Taken(t) : q < h
      BY <1>1, <3>5 DEF Kept, InOrder
    <3>8. Taken(t) = {log[i] : i \in Received(t)}
      <4>1. worker[t].cmd = None \/ Reached(worker[t].cmd)
        BY <1>1 DEF PlaceInv
      <4>2. CASE worker[t].cmd = None
        BY <4>2 DEF Taken
      <4>3. CASE worker[t].cmd # None
        <5>1. worker[t].cmd \in Taken(t) /\ issued[worker[t].cmd].by = t
          BY <1>1, <4>3 DEF Taken, Kept, Accepted
        <5>2. PICK i \in 1 .. Len(log) : log[i] = worker[t].cmd
          BY <4>1, <4>3 DEF Reached, OtherType
        <5>3. i \in Received(t)
          BY <5>1, <5>2 DEF Received
        <5>4. QED
          BY <5>2, <5>3 DEF Taken
      <4>4. QED
        BY <4>2, <4>3
    <3>9. Taken(t)' = Taken(t) \cup {h}
      <4>1. worker'[t].cmd = h /\ h # None
        BY <3>3, <3>4 DEF None, Queries
      <4>2. Taken(t)' = {log[i] : i \in Received(t)} \cup ({h} \ {None})
        BY <1>1, <1>4, <4>1 DEF Taken
      <4>3. QED
        BY <3>8, <4>1, <4>2
    <3>10. InOrder(t)'
      <4>1. (\A i, j \in Received(t) : i < j => log[i] < log[j])'
        BY <1>1, <1>4 DEF Kept, InOrder
      <4>2. ASSUME NEW q \in Taken(t)' PROVE q <= h /\ \A w \in Queued(t)' : q < w
        <5>1. CASE q = h
          BY <3>4, <3>6, <5>1 DEF Queries
        <5>2. CASE q # h
          <6>1. q \in Taken(t)
            BY <3>9, <4>2, <5>2
          <6>2. q < h /\ \A w \in Queued(t) : q < w
            BY <1>1, <3>7, <6>1 DEF Kept, InOrder
          <6>3. q \in Int /\ h \in Int
            BY <1>1, <3>4, <6>1 DEF Kept, Accepted, Queries
          <6>4. QED
            BY <3>6, <6>2, <6>3
        <5>3. QED
          BY <5>1, <5>2
      <4>3. (\A i, j \in 1 .. Len(threadData[t].queries) :
               i < j => threadData[t].queries[i] < threadData[t].queries[j])'
        <5>1. \A i, j \in 1 .. Len(queue) : i < j => queue[i] < queue[j]
          BY <1>1 DEF Kept, InOrder
        <5>. HIDE DEF queue
        <5>2. \A i, j \in 1 .. Len(Tail(queue)) : i < j => Tail(queue)[i] < Tail(queue)[j]
          BY <3>4, <5>1
        <5>3. QED
          BY <3>3, <5>2
      <4>4. QED
        BY <3>3, <4>1, <4>2, <4>3 DEF InOrder
    <3>11. (Accepted(t) = Taken(t) \cup Queued(t))'
      BY <1>1, <1>4, <3>6, <3>9 DEF Kept
    <3>12. NotYetSent(t)'
      <4>1. ASSUME Reached(h) PROVE FALSE
        <5>1. PICK i \in 1 .. Len(log) : log[i] = h
          BY <4>1 DEF Reached, OtherType
        <5>2. h \in Taken(t)
          BY <3>5, <5>1 DEF Taken, Received
        <5>3. QED
          BY <3>4, <3>7, <5>2 DEF Queries
      <4>2. QED
        BY <1>1, <3>3, <4>1 DEF NotYetSent, Reached
    <3>13. QED
      BY <3>10, <3>11, <3>12 DEF Kept
  <2>3. QED
    BY <2>1, <2>2
<1>6. QED
  BY <1>1, <1>2, <1>3, <1>5 DEF OrderInv, OneSession

LEMMA SendOrder ==
  ASSUME ThreadType, OtherType, CallInv, OrderInv, NEW t \in Threads, WorkerQuery(t)
  PROVE  OrderInv'
<1>. DEFINE c == worker[t].cmd
<1>1. /\ UNCHANGED <<pThreadData, client, issued, threadData>>
      /\ worker[t].at = "query" /\ Allocated(t) /\ pThreadData = t
      /\ Kept(t) /\ NotYetSent(t) /\ c \in Queries
      /\ \/ log' = log
         \/ log' = Append(log, c)
  BY DEF WorkerQuery, WorkerAt, Receive, Reject, session, OrderInv, OneSession, CallInv
<1>2. worker'[t].cmd = c /\ worker'[t].at \in {"running", "returned"}
  BY WorkerFacts DEF WorkerQuery
<1>3. c \in Taken(t) /\ c \in 1 .. Len(issued) /\ issued[c].by = t
  BY <1>1 DEF Taken, Kept, Accepted, None, Queries
<1>4. OneSession' /\ ByInv'
  BY <1>1 DEF OrderInv, OneSession, ByInv, Allocated
<1>5. CASE log' = log
  <2>1. SentInv'
    BY <1>1, <1>5 DEF OrderInv, SentInv
  <2>2. Received(t)' = Received(t) /\ Accepted(t)' = Accepted(t)
    BY <1>1, <1>5 DEF Received, Accepted
  <2>3. Kept(t)' /\ NotYetSent(t)'
    BY <1>1, <1>2, <1>5, <2>2, KeptFrame DEF NotYetSent
  <2>4. QED
    BY <1>1, <1>4, <2>1, <2>3 DEF OrderInv, OneSession
<1>6. CASE log' = Append(log, c)
  <2>1. /\ Len(log') = Len(log) + 1 /\ log'[Len(log) + 1] = c /\ Len(log) \in Nat
        /\ \A i \in 1 .. Len(log) : log'[i] = log[i]
    BY <1>6 DEF OtherType
  <2>2. \A i : i \in 1 .. Len(log') <=> i \in 1 .. Len(log) \/ i = Len(log) + 1
    BY <2>1
  <2>3. SentInv'
    BY <1>1, <1>3, <2>1, <2>2 DEF OrderInv, SentInv
  <2>4. Received(t)' = Received(t) \cup {Len(log) + 1} /\ \A i \in Received(t) : log'[i] = log[i]
    BY <1>1, <1>3, <2>1, <2>2 DEF Received
  <2>5. Taken(t)' = Taken(t)
    BY <1>2, <1>3, <2>1, <2>4 DEF Taken
  <2>6. Queued(t)' = Queued(t) /\ Accepted(t)' = Accepted(t)
    BY <1>1 DEF Queued, Accepted
  <2>7. InOrder(t)'
    <3>1. \A i \in Received(t) : log[i] < c
      <4>. SUFFICES ASSUME NEW i \in Received(t) PROVE log[i] < c
        OBVIOUS
      <4>1. log[i] \in Taken(t) /\ i \in 1 .. Len(log)
        BY DEF Taken, Received
      <4>2. log[i] <= c /\ log[i] \in Nat
        BY <1>1, <4>1 DEF Kept, InOrder, Accepted
      <4>3. log[i] # c
        BY <1>1, <4>1 DEF NotYetSent, Reached, OtherType
      <4>4. QED
        BY <1>1, <4>2, <4>3 DEF Queries
    <3>2. ASSUME NEW i \in Received(t)', NEW j \in Received(t)', i < j
          PROVE  log'[i] < log'[j]
      <4>0. \A k \in Received(t) : k \in 1 .. Len(log)
        BY DEF Received
      <4>1. CASE j = Len(log) + 1
        <5>1. i \in Received(t)
          BY <2>1, <2>4, <3>2, <4>1
        <5>2. QED
          BY <2>1, <2>4, <3>1, <4>1, <5>1
      <4>2. CASE j # Len(log) + 1
        <5>1. j \in Received(t) /\ j <= Len(log) /\ j \in Nat
          BY <2>1, <2>4, <4>0, <4>2
        <5>2. i \in Received(t)
          BY <2>1, <2>4, <3>2, <5>1
        <5>3. QED
          BY <1>1, <2>4, <3>2, <5>1, <5>2 DEF Kept, InOrder
      <4>3. QED
        BY <4>1, <4>2
    <3>3. QED
      BY <1>1, <1>2, <2>5, <2>6, <3>2 DEF Kept, InOrder
  <2>8. Kept(t)' /\ NotYetSent(t)'
    BY <1>1, <1>2, <2>5, <2>6, <2>7 DEF Kept, NotYetSent
  <2>9. QED
    BY <1>1, <1>4, <2>3, <2>8 DEF OrderInv, OneSession
<1>7. QED
  BY <1>1, <1>5, <1>6

LEMMA WorkerOrder ==
  ASSUME ThreadType, OtherType, CallInv, SessionInv, PlaceInv, OrderInv, NEW t \in Threads, Worker(t)
  PROVE  OrderInv'
<1>1. CASE WorkerPop(t)
  BY <1>1, PopOrder
<1>2. CASE WorkerQuery(t)
  BY <1>2, SendOrder
<1>3. CASE ~WorkerPop(t) /\ ~WorkerQuery(t)
  <2>1. UNCHANGED <<pThreadData, client, issued, log>>
    BY <1>3 DEF Worker, WorkerStart, WorkerWhile, WorkerDone, WorkerCut, WorkerStop, WorkerUsesFreed,
                Answer, Reject, session, server
  <2>2. \A s \in Threads : /\ threadData'[s].queries = threadData[s].queries
                           /\ threadData'[s].allocated = threadData[s].allocated
    <3>1. \/ threadData' = threadData
          \/ \E state : threadData' = [threadData EXCEPT ![t].state = state]
      BY <1>3 DEF Worker, WorkerStart, WorkerWhile, WorkerDone, WorkerCut, WorkerStop, WorkerUsesFreed
    <3>2. QED
      BY <3>1 DEF ThreadType, ThreadData
  <2>3. \A s \in Threads : /\ worker'[s].cmd = worker[s].cmd
                           /\ worker'[s].at = "query" => worker[s].at = "query"
    <3>1. \E a \in {"while", "pop", "stop", "returned"} : WorkerGoes(t, a) \/ UNCHANGED worker
      BY <1>3 DEF Worker, WorkerStart, WorkerWhile, WorkerDone, WorkerCut, WorkerStop, WorkerUsesFreed
    <3>2. QED
      BY <3>1, WorkerFacts
  <2>4. SentInv' /\ OneSession' /\ ByInv'
    BY <2>1, <2>2 DEF OrderInv, SentInv, OneSession, ByInv, Allocated
  <2>5. ASSUME NEW s \in Threads, Allocated(s)' PROVE Kept(s)' /\ NotYetSent(s)'
    <3>1. Kept(s) /\ NotYetSent(s)
      BY <2>2, <2>5 DEF OrderInv, Allocated
    <3>2. QED
      BY <2>1, <2>2, <2>3, <3>1, QuietKept
  <2>6. QED
    BY <2>4, <2>5 DEF OrderInv
<1>4. QED
  BY <1>1, <1>2, <1>3

LEMMA OrderStep ==
  ASSUME ThreadType, OtherType, CallInv, SessionInv, PlaceInv, OrderInv, [Next]_vars
  PROVE  OrderInv'
<1>. USE DEF session, server
<1>1. CASE \E mode \in Modes : Open(mode)
  BY <1>1, QuietOrder DEF Open
<1>2. CASE \E kind \in Kinds : Query(kind)
  BY <1>2, QueryOrder
<1>3. CASE Close
  <2>1. /\ UNCHANGED <<pThreadData, issued, log, worker>> /\ client.at = "idle"
        /\ client'.at \in {"delete", "disconnect"}
    BY <1>3, ClientFacts DEF Close, ClientAt
  <2>2. \A t \in Threads : /\ threadData'[t].allocated = threadData[t].allocated
                           /\ threadData'[t].queries = threadData[t].queries
    <3>1. \/ threadData' = threadData
          \/ threadData' = [threadData EXCEPT ![pThreadData].state = "STOP_REQUESTED"]
      BY <1>3 DEF Close
    <3>2. QED
      BY <3>1 DEF ThreadType, ThreadData
  <2>3. QED
    BY <2>1, <2>2, QuietOrder
<1>4. CASE PushBackState
  <2>1. UNCHANGED <<pThreadData, issued, log, worker, threadData>> /\ client.at = "state"
    BY <1>4 DEF PushBackState, ClientAt
  <2>2. threadData[pThreadData].state \in {"READY", "RUNNING"}
    BY <2>1 DEF SessionInv, Serving
  <2>3. client'.at = "push" /\ client'.cmd = client.cmd
    BY <1>4, <2>2, ClientFacts DEF PushBackState
  <2>4. QED
    BY <2>1, <2>3, QuietOrder
<1>5. CASE PushBack
  BY <1>5, PushOrder
<1>6. CASE InlineQuery
  <2>1. /\ client.at = "inline" /\ pThreadData' = NULL /\ pThreadData = NULL
        /\ UNCHANGED <<issued, threadData>> /\ client'.at \in {"running", "idle"}
        /\ client.cmd \in 1 .. Len(issued)
        /\ \/ log' = log
           \/ log' = Append(log, client.cmd)
    <3>1. /\ client.at = "inline" /\ UNCHANGED <<pThreadData, issued, threadData>>
          /\ \/ log' = log
             \/ log' = Append(log, client.cmd)
      BY <1>6 DEF InlineQuery, ClientAt, Receive, Reject
    <3>2. pThreadData = NULL
      BY <3>1 DEF SessionInv
    <3>3. client.cmd \in 1 .. Len(issued)
      BY <3>1 DEF CallInv, InQuery, Queries
    <3>4. client'.at \in {"running", "idle"}
      BY <1>6, ClientFacts DEF InlineQuery
    <3>5. QED
      BY <3>1, <3>2, <3>3, <3>4
  <2>2. SentInv'
    BY <2>1 DEF OrderInv, SentInv, OtherType
  <2>3. OneSession'
    BY <2>1 DEF OrderInv, OneSession, Allocated
  <2>4. QED
    BY <2>1, <2>2, <2>3, NoSession
<1>7. CASE InlineDone
  <2>1. /\ client.at = "running" /\ UNCHANGED <<pThreadData, issued, log, worker, threadData>>
    BY <1>7 DEF InlineDone, ClientAt, Answer, Reject
  <2>2. client'.at \in {"result", "idle"}
    BY <1>7, ClientFacts DEF InlineDone, AfterQuery
  <2>3. QED
    BY <2>1, <2>2, QuietOrder
<1>8. CASE StoreQueryResult
  BY <1>8, ClientFacts, QuietOrder DEF StoreQueryResult, ClientAt
<1>9. CASE WaitForQueries
  BY <1>9, ClientFacts, QuietOrder DEF WaitForQueries, ClientAt
<1>10. CASE StoreResult
  BY <1>10, ClientFacts, QuietOrder DEF StoreResult, ClientAt
<1>11. CASE CloseDelete
  <2>1. /\ UNCHANGED <<issued, log>> /\ pThreadData' = NULL /\ client'.at = "disconnect"
        /\ threadData' = [threadData EXCEPT ![pThreadData].allocated = "deleted"]
    BY <1>11, ClientFacts DEF CloseDelete
  <2>2. SentInv'
    BY <2>1 DEF OrderInv, SentInv
  <2>3. \A t \in Threads : ~Allocated(t)'
    BY <2>1 DEF Allocated, OrderInv, OneSession, ThreadType, ThreadData
  <2>4. OneSession'
    BY <2>3 DEF OneSession
  <2>5. QED
    BY <2>1, <2>2, <2>4, NoSession
<1>12. CASE CloseConnection
  <2>1. /\ UNCHANGED <<issued, log, threadData, pThreadData>> /\ client.at = "disconnect"
        /\ client'.at = "idle"
    BY <1>12, ClientFacts DEF CloseConnection, ClientAt
  <2>2. pThreadData = NULL
    BY <2>1 DEF SessionInv
  <2>3. SentInv' /\ OneSession'
    BY <2>1 DEF OrderInv, SentInv, OneSession, Allocated
  <2>4. QED
    BY <2>1, <2>2, <2>3, NoSession
<1>13. CASE \E t \in Threads : Worker(t)
  BY <1>13, WorkerOrder
<1>14. CASE UNCHANGED vars
  BY <1>14, QuietOrder DEF vars
<1>15. QED
  BY <1>1, <1>2, <1>3, <1>4, <1>5, <1>6, <1>7, <1>8, <1>9, <1>10, <1>11, <1>12, <1>13, <1>14
     DEF Next, ClientCalls, ClientContinues

-----------------------------------------------------------------------------
Inv == TypeOK /\ CallInv /\ SessionInv /\ PlaceInv /\ OrderInv

LEMMA InitInv == Init => Inv
<1>. SUFFICES ASSUME Init PROVE Inv
  OBVIOUS
<1>1. BoolType
  BY Zenon DEF Init, BoolType
<1>2. ThreadType
  BY SQLAssumption DEF Init, ThreadType, ThreadData, States
<1>3. OtherType
  BY DEF Init, OtherType, Workers, WorkerSteps, Client, ClientSteps
<1>4. CallInv
  BY DEF Init, CallInv, InQuery
<1>5. SessionInv
  BY DEF Init, SessionInv, FreshInv, Untouched
<1>6. PlaceInv
  BY DEF Init, PlaceInv, Threads, NULL
<1>7. OrderInv
  BY DEF Init, OrderInv, SentInv, OneSession, ByInv, Allocated
<1>8. QED
  BY <1>1, <1>2, <1>3, <1>4, <1>5, <1>6, <1>7, TypeSplit DEF Inv

LEMMA StepInv == Inv /\ [Next]_vars => Inv'
<1>. SUFFICES ASSUME Inv, [Next]_vars PROVE Inv'
  OBVIOUS
<1>1. ThreadType /\ OtherType /\ TypeOK /\ CallInv /\ SessionInv /\ PlaceInv /\ OrderInv
  BY TypeSplit DEF Inv
<1>2. QED
  BY <1>1, TypeStep, SessionStep, PlaceStep, OrderStep DEF Inv

LEMMA InvAlways == Spec => []Inv
<1>1. QED
  BY InitInv, StepInv, PTL DEF Spec

\* The queue never holds more than its capacity, however push_back, the worker,
\* Close and a new session interleave, and the variables keep their types.
THEOREM TypeCorrect == Spec => []TypeOK
<1>1. Inv => TypeOK
  BY DEF Inv
<1>2. QED
  BY <1>1, InvAlways, PTL

\* The client runs a query itself only when there is no worker it could overtake.
THEOREM NeverOvertakesAlways == Spec => []NeverOvertakes
<1>1. Inv => NeverOvertakes
  BY DEF Inv, SessionInv, NeverOvertakes
<1>2. QED
  BY <1>1, InvAlways, PTL

\* Once StoreQueryResult has waited, every query of the session before the last
\* one has been answered or refused.
THEOREM OnlyLastPendingAlways == Spec => []OnlyLastPending
<1>1. Inv => OnlyLastPending
  <2>. SUFFICES ASSUME Inv, client.at = "store", nonBlocking,
                       NEW q \in 1 .. Len(issued) - 1, issued[q].by = pThreadData
                PROVE  \/ q \in rejected
                       \/ Reached(q) /\ worker[pThreadData].cmd # q
    BY DEF OnlyLastPending
  <2>0. OtherType
    BY TypeSplit DEF Inv
  <2>1. PICK t \in Threads : pThreadData = t
    BY <2>0 DEF Inv, SessionInv, OtherType
  <2>2. LastKept(t) /\ q \in 1 .. Len(issued) /\ q # Len(issued)
    BY <2>0, <2>1 DEF Inv, PlaceInv, OtherType
  <2>3. threadData[t].queries = <<>> /\ worker[t].cmd = Len(issued)
    BY <2>2 DEF LastKept
  <2>4. Located(q, t)
    BY <2>1, <2>2 DEF Inv, PlaceInv
  <2>5. ~Waiting(q, t)
    BY <2>3 DEF Waiting
  <2>6. QED
    BY <2>1, <2>2, <2>3, <2>4, <2>5 DEF Located
<1>2. QED
  BY <1>1, InvAlways, PTL

\* Until Close, the worker of the session has taken, or still finds in the queue,
\* every query that push_back accepted and no other, each once and in the order
\* they were issued in: whatever the queue size, the threads and queries that
\* fail, and the sessions before.
THEOREM NothingLostAlways == Spec => []NothingLost
<1>1. Inv => NothingLost
  BY DEF Inv, OrderInv, Kept, NothingLost
<1>2. QED
  BY <1>1, InvAlways, PTL
-----------------------------------------------------------------------------
(* The results.  In non-blocking mode one may be taken for that of another  *)
(* query.  In blocking mode there is neither an SQLThreadData nor a worker, *)
(* and a result set is on the connection only between a query and the       *)
(* StoreQueryResult that follows it.                                        *)

BlockingInv ==
  /\ ~nonBlocking /\ pThreadData = NULL
  /\ \A t \in Threads : worker[t].at = "none"
  /\ client.at \notin {"state", "push", "wait", "delete"}
  /\ unread # None => client.at \in {"result", "store"} /\ unread = client.cmd

LEMMA BlockingStep ==
  ASSUME Modes \subseteq {FALSE}, OtherType, BlockingInv, [Next]_vars
  PROVE  BlockingInv' /\ (stored' # stored => stored' \in {None, client.cmd})
<1>. USE DEF BlockingInv
<1>0. client \in Client /\ NULL = 0 /\ None = 0
  BY DEF OtherType, NULL, None
<1>1. CASE \E mode \in Modes : Open(mode)
  BY <1>1 DEF Open
<1>2. CASE \E kind \in Kinds : Query(kind)
  <2>1. /\ ClientAt("idle") /\ client'.at = "inline"
        /\ UNCHANGED <<nonBlocking, pThreadData, worker, unread, stored>>
    BY <1>2 DEF Query, session, server
  <2>2. QED
    BY <2>1 DEF ClientAt
<1>3. CASE Close
  BY <1>0, <1>3, ClientFacts DEF Close, ClientAt, session, server
<1>4. CASE ClientContinues
  <2>1. CASE PushBackState
    BY <2>1 DEF PushBackState, ClientAt
  <2>2. CASE PushBack
    BY <2>2 DEF PushBack, ClientAt
  <2>3. CASE InlineQuery
    BY <2>3, ClientFacts DEF InlineQuery, ClientAt, Receive, Reject, session
  <2>4. CASE InlineDone
    <3>1. unread = None /\ UNCHANGED <<nonBlocking, pThreadData, worker, stored>>
      BY <2>4 DEF InlineDone, ClientAt, session
    <3>2. CASE Answer(client.cmd) /\ AfterQuery(client.cmd)
      <4>1. CASE issued[client.cmd].kind = "select"
        BY <3>1, <3>2, <4>1, ClientFacts DEF Answer, AfterQuery
      <4>2. CASE issued[client.cmd].kind # "select"
        BY <3>1, <3>2, <4>2, ClientFacts DEF Answer, AfterQuery
      <4>3. QED
        BY <4>1, <4>2
    <3>3. CASE Reject(client.cmd) /\ ClientReturns
      BY <3>1, <3>3, ClientFacts DEF Reject
    <3>4. QED
      BY <2>4, <3>2, <3>3 DEF InlineDone
  <2>5. CASE StoreQueryResult
    BY <2>5, ClientFacts DEF StoreQueryResult, ClientAt, session, server
  <2>6. CASE WaitForQueries
    BY <2>6 DEF WaitForQueries, ClientAt
  <2>7. CASE StoreResult
    BY <2>7, ClientFacts DEF StoreResult, ClientAt, session
  <2>8. CASE CloseDelete
    BY <2>8 DEF CloseDelete, ClientAt
  <2>9. CASE CloseConnection
    <3>1. \A t \in Threads : worker'[t].at = "none"
      BY <2>9 DEF CloseConnection
    <3>2. QED
      BY <2>9, <3>1, ClientFacts DEF CloseConnection
  <2>10. QED
    BY <1>4, <2>1, <2>2, <2>3, <2>4, <2>5, <2>6, <2>7, <2>8, <2>9 DEF ClientContinues
<1>5. ASSUME NEW t \in Threads, Worker(t)
      PROVE  FALSE
  BY <1>5 DEF Worker, WorkerStart, WorkerWhile, WorkerPop, WorkerQuery, WorkerDone, WorkerCut,
              WorkerStop, WorkerUsesFreed, WorkerAt, UsesThreadData
<1>6. CASE UNCHANGED vars
  BY <1>6 DEF vars
<1>7. QED
  BY <1>1, <1>2, <1>3, <1>4, <1>5, <1>6 DEF Next, ClientCalls

\* In blocking mode StoreQueryResult finds the result of the query it was called
\* for, or none: only the query thread can make it find another one.
THEOREM BlockingResults == Modes \subseteq {FALSE} => (Spec => ResultOfLastQuery)
<1>1. Init => BlockingInv
  BY DEF Init, BlockingInv, None, NULL
<1>2. ASSUME Modes \subseteq {FALSE}
      PROVE  TypeOK /\ BlockingInv /\ [Next]_vars
               => BlockingInv' /\ [stored' # stored => stored' \in {None, client.cmd}]_vars
  BY <1>2, TypeSplit, BlockingStep
<1>3. ASSUME Modes \subseteq {FALSE}
      PROVE  Spec => ResultOfLastQuery
  BY <1>1, <1>2, <1>3, TypeCorrect, PTL DEF Spec, ResultOfLastQuery
<1>4. QED
  BY <1>3
=============================================================================
