------------------------ MODULE BlobTrackerDBManager ------------------------
(***************************************************************************)
(* vpl::BlobTrackerDBManager (ObjectTracking/BlobTrackerDBManager.{h,cpp}): *)
(* the tables a tracker writes, a session for each video, through           *)
(* SQLDatabase.                                                            *)
(*                                                                         *)
(* Of SQLDatabase this module keeps what a caller sees of it.  In blocking  *)
(* mode a statement takes effect or is refused.  In the other mode every    *)
(* statement is accepted and they take effect in order, until one fails:    *)
(* the query thread then returns, and no later one has an effect.  A result *)
(* that is asked for too early is missed, and the next statement fails      *)
(* because of it (ResultOfLastQuery of SQLDatabase).                       *)
(*                                                                         *)
(* The numbers of sessions are taken for a key of their table (the schema   *)
(* of the database is not in the repository).  Every row remembers the      *)
(* video that was being processed when it was written; other programs       *)
(* write for Others.                                                       *)
(***************************************************************************)
EXTENDS Integers, FiniteSetsExt

CONSTANTS
  Modes,        \* the modes of SQLDatabase, subset of {"blocking", "queued"}
  MaxSessions   \* bound: number of sessions in the database

VARIABLES
  session,      \* m_sessionID, None when there is none
  connection,   \* the mode, or "dead" when the query thread has returned
  db,           \* the rows of the tables
  maxId         \* max_id, local of createSession

database == <<session, connection, db, maxId>>

None == 0
Others == 0

ASSUME ModesAssumption == Modes \subseteq {"blocking", "queued"} /\ MaxSessions \in Nat

EmptyDB == [session |-> {}, ended |-> {}, target |-> {}, trace |-> {}, node |-> {}]

Numbers == {r.session : r \in db.session}
Largest == Max(Numbers \cup {0})

\* SQLDatabase::Execute of a statement that makes the database d, with its
\* answer; Fails is a statement the server refuses.
Succeeds(d) == connection \in Modes /\ db' = d /\ UNCHANGED connection
Fails(ok) ==
  /\ \/ connection = "blocking" /\ ~ok /\ UNCHANGED connection
     \/ connection = "queued" /\ ok /\ connection' = "dead"
  /\ UNCHANGED db
Ignored == connection = "dead" /\ UNCHANGED <<db, connection>>

\* Statements.
WithSession(n, v) == [db EXCEPT !.session = @ \cup {[session |-> n, of |-> v]}]
WithEnd == [db EXCEPT !.ended = @ \cup {session}]
WithTarget(g, v) == [db EXCEPT !.target = @ \cup {[session |-> session, target |-> g, of |-> v]}]
WithTrace(t, g, v) ==
  [db EXCEPT !.trace = @ \cup {[session |-> session, trace |-> t, target |-> g, of |-> v]}]
WithNode(i, t, v) ==
  [db EXCEPT !.node = @ \cup {[session |-> session, trace |-> t, node |-> i, of |-> v]}]

\* createSession, first half: the largest number.  The select may fail in
\* blocking mode, and its result may be missed in the other; with a dead
\* thread it never returns.
SelectMax == connection # "dead" /\ maxId' = Largest /\ session' = None /\ UNCHANGED <<connection, db>>
SelectMissed == connection = "queued" /\ connection' = "dead" /\ maxId' = 0 /\ session' = None /\ UNCHANGED db
SelectFails == connection = "blocking" /\ session' = None /\ UNCHANGED <<connection, db, maxId>>

\* Second half: the insert, which fails when another program was faster.
InsertSession(v) ==
  /\ maxId + 1 \notin Numbers
  /\ Succeeds(WithSession(maxId + 1, v))
  /\ session' = maxId + 1
  /\ UNCHANGED maxId
InsertSessionIgnored == Ignored /\ session' = maxId + 1 /\ UNCHANGED maxId
InsertSessionFails ==
  \E ok \in BOOLEAN : Fails(ok) /\ session' = (IF ok THEN maxId + 1 ELSE None) /\ UNCHANGED maxId

\* A session of another program.
OtherSession ==
  /\ Cardinality(Numbers) < MaxSessions
  /\ db' = WithSession(Largest + 1, Others)
  /\ UNCHANGED <<session, connection, maxId>>

-----------------------------------------------------------------------------
\* Every row has the row it refers to: a node its trace, a trace its target, a
\* target its session, and all were written for the same video.  No video
\* writes to the session of another one or of another program.
RowsLinked ==
  /\ \A x, y \in db.session : x.session = y.session => x = y
  /\ \A g \in db.target : [session |-> g.session, of |-> g.of] \in db.session
  /\ \A t \in db.trace : [session |-> t.session, target |-> t.target, of |-> t.of] \in db.target
  /\ \A n \in db.node : \E t \in db.trace :
       t.session = n.session /\ t.trace = n.trace /\ t.of = n.of
=============================================================================
