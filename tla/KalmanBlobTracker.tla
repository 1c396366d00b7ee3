-------------------------- MODULE KalmanBlobTracker --------------------------
(***************************************************************************)
(* vpl::KalmanBlobTracker (ObjectTracking/KalmanBlobTracker), with Trace,   *)
(* Target and BlobTracker: the life of traces and targets from frame to     *)
(* frame, and how they are saved to the database.                          *)
(*                                                                         *)
(* Blobs are not modelled: which traces go on in a frame, how many blobs    *)
(* are left and which trace is taken for which target are free choices,     *)
(* since every such outcome has costs that lead to it.  Two traces can go   *)
(* to one target in one frame when their costs are equal (row_min ==        *)
(* col_min).  Times are frame numbers.                                     *)
(*                                                                         *)
(* m_traces and m_targets are always in the order of their ids, since both  *)
(* are only appended to and filtered; they are sets here.                  *)
(***************************************************************************)
EXTENDS BlobTrackerDBManager, Sequences

CONSTANTS
  Transient,    \* TRANSIENT_TIME
  Novel,        \* MATCH_TIME
  MaxInactive,  \* m_params.maxInactiveTargetTime
  MaxTarget,    \* m_params.maxTargetTime
  LastFrame,    \* bound: the last frame number
  MaxBlobs,     \* bound: blobs in a frame
  MaxProcessed, \* bound: frames processed, of all videos
  MaxVideos,    \* bound: videos processed
  MaxFaults     \* bound: frames skipped or dark, ties, statements that fail

ASSUME TrackerAssumption ==
  /\ Transient \in Nat /\ Novel \in Nat /\ MaxInactive \in Nat /\ MaxTarget \in Nat
  /\ LastFrame \in Nat /\ MaxBlobs \in Nat /\ MaxProcessed \in Nat
  /\ MaxVideos \in Nat /\ MaxFaults \in Nat

VARIABLES
  at,           \* "new", "play", "ended", or the step of Run: "select", "insert", "save"
  video,        \* how many videos were begun
  frame,        \* FrameNumber and Timestamp, -1 before the first frame
  processed,    \* history: frames processed
  made,         \* the Trace of each id up to m_traceCount
  traces,       \* m_traces, as ids
  targets,      \* m_targets: a Target for each id that is left
  targetCount,  \* m_targetCount
  saving,       \* ids of the targets Run has still to save
  faults        \* history: how often something went wrong

memory == <<made, traces, targets, targetCount>>
clock == <<video, frame, processed>>
vars == <<database, at, clock, memory, saving, faults>>

Ids == 1 .. Len(made)
Traces ==
  [start : Nat, end : Nat, length : Nat, matched : BOOLEAN, inDB : BOOLEAN, saved : Nat]
Targets == [traces : SUBSET Ids, first : Ids, last : Ids, inDB : BOOLEAN]

TypeOK ==
  /\ session \in Nat /\ maxId \in Nat
  /\ connection \in Modes \cup {"dead"}
  /\ at \in {"new", "play", "select", "insert", "save", "ended"}
  /\ video \in Nat /\ frame \in Nat \cup {-1} /\ processed \in Nat /\ faults \in Nat
  /\ targetCount \in Nat
  /\ made \in Seq(Traces) /\ \A t \in Ids : made[t].saved <= made[t].length
  /\ traces \subseteq Ids
  /\ DOMAIN targets \subseteq 1 .. targetCount
  /\ targets \in [DOMAIN targets -> Targets]
  /\ saving \subseteq DOMAIN targets

Init ==
  /\ session = None /\ maxId = 0 /\ db = EmptyDB /\ connection \in Modes
  /\ at = "new" /\ video = 0 /\ frame = -1 /\ processed = 0
  /\ made = <<>> /\ traces = {}
  /\ targets = <<>> /\ targetCount = 0
  /\ saving = {} /\ faults = 0

\* KalmanBlobTracker::Clear, without the session.
Forget ==
  /\ made' = <<>> /\ traces' = {}
  /\ targets' = <<>> /\ targetCount' = 0

-----------------------------------------------------------------------------
\* The program is closed or dies, and is started again with the database as
\* it is.  (Initialize reopens the database and makes a new tracker as well.)
Start ==
  /\ video < MaxVideos
  /\ connection' \in Modes
  /\ session' = None /\ maxId' = 0
  /\ at' = "new" /\ frame' = -1
  /\ Forget
  /\ saving' = {}
  /\ UNCHANGED <<db, video, processed, faults>>

\* Mistake: the session of the last video is kept.
ClearKeeping ==
  /\ at \in {"new", "ended"} /\ video < MaxVideos
  /\ at' = "play"
  /\ video' = video + 1 /\ frame' = -1
  /\ Forget
  /\ UNCHANGED <<session, processed, connection, db, maxId, saving, faults>>

\* BlobTracker::Clear and KalmanBlobTracker::Clear, before a video.
Clear ==
  /\ at \in {"new", "ended"} /\ video < MaxVideos
  /\ at' = "play"
  /\ video' = video + 1 /\ frame' = -1
  /\ Forget
  /\ session' = None
  /\ UNCHANGED <<processed, connection, db, maxId, saving, faults>>

\* A statement, and whether it counts as a fault.
Execute(d, ok) ==
  \/ Succeeds(d) /\ ok /\ UNCHANGED faults
  \/ Ignored /\ ok /\ UNCHANGED faults
  \/ faults < MaxFaults /\ Fails(ok) /\ faults' = faults + 1

\* PostProcessSequence, after the last frame.
PostProcessSequence ==
  /\ at = "play"
  /\ at' = "ended"
  /\ IF session # None THEN \E ok \in BOOLEAN : Execute(WithEnd, ok)
                       ELSE UNCHANGED <<connection, db, faults>>
  /\ UNCHANGED <<session, maxId, clock, memory, saving>>

-----------------------------------------------------------------------------
(* Run.                                                                     *)

\* Trace::get_last_frame, which counts nodes, not frames.
FrameOfLast(t) == t.start + t.length - 1

\* Targets and unmatched traces that have been inactive, or targets that have
\* lived, for too long go.
Expired(g, f) ==
  \/ f - made[targets[g].last].end > MaxInactive
  \/ f - made[targets[g].first].start > MaxTarget
TargetsLeft(f) == [g \in {h \in DOMAIN targets : ~Expired(h, f)} |-> targets[g]]
TracesLeft(f) == {t \in traces : made[t].matched \/ f - made[t].end <= MaxInactive}

RunDark(f) ==
  /\ faults < MaxFaults
  /\ targets' = TargetsLeft(f)
  /\ traces' = TracesLeft(f)
  /\ at' = "play"
  /\ faults' = faults + 1
  /\ UNCHANGED <<database, made, targetCount, saving>>

\* match_connected_components_with_traces: the traces of extended gain a node,
\* every blob that is left begins a trace, the other traces are dropped.
NewTrace(f) ==
  [start |-> f, end |-> f, length |-> 1, matched |-> FALSE, inDB |-> FALSE, saved |-> 0]
Later(t, f) == [t EXCEPT !.end = f]
Longer(t) == [t EXCEPT !.length = @ + 1]
MatchBlobs(f, extended, blobs) ==
  [t \in 1 .. Len(made) + blobs |->
     IF t \notin Ids THEN NewTrace(f)
     ELSE IF t \in extended THEN Longer(Later(made[t], f))
     ELSE made[t]]

\* Mistake: targets are matched although they are being tracked.
TargetsToMatchAll(m, left, f) == DOMAIN left

\* get_traces_for_matching and get_targets_for_matching, with the traces m.
TracesToMatch(m, current) == {t \in current : ~m[t].matched /\ m[t].length > Transient}
TargetsToMatch(m, left, f) == {g \in DOMAIN left : FrameOfLast(m[left[g].last]) # f}

\* Target::add_trace, for the traces that go to a target in this frame.
AddTraces(target, new) ==
  IF new = {} THEN target
  ELSE [target EXCEPT !.traces = @ \cup new, !.last = Max(new)]

\* Mistake: traces that have just been given a target get one of their own.
NovelTracesAgain(m, toMatch, to) == {t \in toMatch : m[t].length > Transient + Novel}

\* add_target: the traces that become targets are numbered in their order.
NovelTraces(m, toMatch, to) ==
  {t \in toMatch : to[t] = None /\ m[t].length > Transient + Novel}
NewIds(novel) == targetCount + 1 .. targetCount + Cardinality(novel)
InOrder(novel) ==
  {which \in [NewIds(novel) -> novel] : \A g, h \in NewIds(novel) : g < h => which[g] < which[h]}
NewTarget(t) == [traces |-> {t}, first |-> t, last |-> t, inDB |-> FALSE]

\* match_traces_with_targets: `to' gives a trace its target, or None.
MatchTargets(m, left, toMatch, to) ==
  LET novel == NovelTraces(m, toMatch, to) IN
    /\ made' = [t \in DOMAIN m |->
                  [m[t] EXCEPT !.matched = @ \/ t \in novel \/ (t \in toMatch /\ to[t] # None)]]
    /\ \E which \in InOrder(novel) :
         targets' = [g \in DOMAIN left \cup NewIds(novel) |->
                      IF g \in DOMAIN left THEN AddTraces(left[g], {t \in toMatch : to[t] = g})
                                           ELSE NewTarget(which[g])]
    /\ targetCount' = targetCount + Cardinality(novel)

\* What counts as a fault of a frame: a frame number that does not follow the
\* last one, and two traces that go to one target.
Irregular(f, toMatch, to) ==
  \/ f # frame + 1
  \/ \E t, u \in toMatch : t # u /\ to[t] # None /\ to[t] = to[u]

RunOn(f, extended, blobs) ==
  LET m == MatchBlobs(f, extended, blobs)
      current == extended \cup (DOMAIN m \ Ids)
      left == TargetsLeft(f)
      toMatch == TracesToMatch(m, current)
  IN  \E to \in [toMatch -> TargetsToMatch(m, left, f) \cup {None}] :
        /\ Irregular(f, toMatch, to) => faults < MaxFaults
        /\ faults' = IF Irregular(f, toMatch, to) THEN faults + 1 ELSE faults
        /\ traces' = current
        /\ MatchTargets(m, left, toMatch, to)
        /\ at' = IF session = None THEN "select" ELSE "save"
        /\ saving' = DOMAIN targets'
        /\ UNCHANGED database

Run ==
  /\ at = "play" /\ processed < MaxProcessed
  /\ \E f \in 0 .. LastFrame :
       /\ frame = -1 => f = 0
       /\ frame' = f
       /\ \/ RunDark(f)
          \/ \E extended \in SUBSET TracesLeft(f) :
               \E blobs \in 0 .. MaxBlobs - Cardinality(extended) : RunOn(f, extended, blobs)
  /\ processed' = processed + 1
  /\ UNCHANGED video

-----------------------------------------------------------------------------
(* Run, its end: the session is created once, and the changes are saved.    *)

Select ==
  /\ at = "select"
  /\ \/ SelectMax /\ at' = "insert" /\ UNCHANGED <<faults, saving>>
     \/ /\ faults < MaxFaults /\ faults' = faults + 1
        /\ \/ SelectMissed /\ at' = "insert" /\ UNCHANGED saving
           \/ SelectFails /\ at' = "play" /\ saving' = {}
  /\ UNCHANGED <<clock, memory>>

Insert ==
  /\ at = "insert"
  /\ \/ (InsertSession(video) \/ InsertSessionIgnored) /\ UNCHANGED faults
     \/ /\ faults < MaxFaults \/ maxId + 1 \in Numbers
        /\ InsertSessionFails
        /\ faults' = faults + 1
  /\ IF session' # None THEN at' = "save" /\ UNCHANGED saving
                        ELSE at' = "play" /\ saving' = {}
  /\ UNCHANGED <<clock, memory>>

\* The target whose turn it is, and the one trace of it that is saved.
Turn == Min(saving)
LastTrace == targets[Turn].last
SavingTurn == at = "save" /\ saving # {}

\* Mistake: a target counts as saved although its row was refused.
SaveTargetRegardless ==
  /\ SavingTurn
  /\ ~targets[Turn].inDB
  /\ \E ok \in BOOLEAN : Execute(WithTarget(Turn, video), ok)
  /\ targets' = [targets EXCEPT ![Turn].inDB = TRUE]
  /\ UNCHANGED <<session, maxId, at, clock, made, traces, targetCount, saving>>

\* Target::SaveChangesToDatabase.
SaveTarget ==
  /\ SavingTurn
  /\ ~targets[Turn].inDB
  /\ \E ok \in BOOLEAN :
       /\ Execute(WithTarget(Turn, video), ok)
       /\ IF ok THEN targets' = [targets EXCEPT ![Turn].inDB = TRUE] /\ UNCHANGED saving
                ELSE saving' = saving \ {Turn} /\ UNCHANGED targets
  /\ UNCHANGED <<session, maxId, at, clock, made, traces, targetCount>>

\* Trace::SaveChangesToDatabase, the row of the trace and then its nodes.
SaveTrace ==
  /\ SavingTurn
  /\ targets[Turn].inDB /\ ~made[LastTrace].inDB
  /\ \E ok \in BOOLEAN :
       /\ Execute(WithTrace(LastTrace, Turn, video), ok)
       /\ IF ok THEN made' = [made EXCEPT ![LastTrace].inDB = TRUE] /\ UNCHANGED saving
                ELSE saving' = saving \ {Turn} /\ UNCHANGED made
  /\ UNCHANGED <<session, maxId, at, clock, traces, targets, targetCount>>

\* Mistake: a node too many.
SaveNodePast ==
  /\ SavingTurn
  /\ targets[Turn].inDB /\ made[LastTrace].inDB
  /\ made[LastTrace].saved <= made[LastTrace].length
  /\ \E ok \in BOOLEAN : Execute(WithNode(made[LastTrace].saved, LastTrace, video), ok)
  /\ made' = [made EXCEPT ![LastTrace].saved = @ + 1]
  /\ UNCHANGED <<session, maxId, at, clock, traces, targets, targetCount, saving>>

\* Whether a node could be saved is not looked at.
SaveNode ==
  /\ SavingTurn
  /\ targets[Turn].inDB /\ made[LastTrace].inDB
  /\ made[LastTrace].saved < made[LastTrace].length
  /\ \E ok \in BOOLEAN : Execute(WithNode(made[LastTrace].saved, LastTrace, video), ok)
  /\ made' = [made EXCEPT ![LastTrace].saved = @ + 1]
  /\ UNCHANGED <<session, maxId, at, clock, traces, targets, targetCount, saving>>

SaveNext ==
  /\ SavingTurn
  /\ targets[Turn].inDB /\ made[LastTrace].inDB
  /\ made[LastTrace].saved = made[LastTrace].length
  /\ saving' = saving \ {Turn}
  /\ UNCHANGED <<database, at, clock, memory, faults>>

Saved ==
  /\ at = "save" /\ saving = {}
  /\ at' = "play"
  /\ UNCHANGED <<database, clock, memory, saving, faults>>

\* Another program; its session only matters to the two halves of createSession,
\* and a step of it at any other time can be put off until then.
OtherProgram ==
  /\ at \in {"select", "insert"}
  /\ OtherSession
  /\ UNCHANGED <<at, clock, memory, saving, faults>>

Next ==
  \/ Start \/ Clear \/ PostProcessSequence
  \/ Run \/ Select \/ Insert
  \/ SaveTarget \/ SaveTrace \/ SaveNode \/ SaveNext \/ Saved
  \/ OtherProgram

Spec == Init /\ [][Next]_vars

-----------------------------------------------------------------------------
(* What the tracker promises.                                              *)

\* A trace belongs to one target at most, also when it is matched and long
\* enough for a target of its own in one frame, and counts as matched then.
OneTarget ==
  /\ \A g, h \in DOMAIN targets : g # h => targets[g].traces \cap targets[h].traces = {}
  /\ \A g \in DOMAIN targets : \A t \in targets[g].traces : made[t].matched

\* What the tracker takes for saved is in the database, for as long as there is
\* something that writes to it, and nothing else is: after refused statements as
\* well, targets and traces are tried again until their rows are there.
BelievedSaved ==
  connection # "dead" /\ session # None =>
    /\ \A g \in DOMAIN targets :
         /\ targets[g].inDB <=> [session |-> session, target |-> g, of |-> video] \in db.target
         /\ \A r \in db.trace : r.session = session /\ r.target = g => r.trace \in targets[g].traces
    /\ \A t \in Ids :
         /\ made[t].inDB <=> \E r \in db.trace : r.session = session /\ r.trace = t
         /\ \A r \in db.node :
              r.session = session /\ r.trace = t => r.node < made[t].saved

\* Only the last trace of a target is saved, so that nothing may be added to the
\* others.  When every frame follows the last one, none is dark, costs differ and
\* statements succeed, no node of a target is left out: the database has all of
\* it after every frame.
AllSaved ==
  faults = 0 /\ at = "play" =>
    \A g \in DOMAIN targets : \A t \in targets[g].traces :
      Cardinality({r \in db.node : r.session = session /\ r.trace = t}) = made[t].length
=============================================================================
