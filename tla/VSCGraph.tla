----------------------------- MODULE VSCGraph -----------------------------
(***************************************************************************)
(* The graph of vision system components (VideoParser/VSCGraph.{h,cpp}).   *)
(* Initialize creates the components the user selected and initializes     *)
(* them in an order given by their dependencies.  After that a parsing     *)
(* thread runs them frame by frame in that order, each under its drawing   *)
(* mutex, while the GUI thread asks any of them for its display under the  *)
(* same mutex (Tools/VisSysComponent.h).  Subordinate components, which a  *)
(* component runs right before itself, count as part of it.                *)
(***************************************************************************)
EXTENDS Integers, Sequences, FiniteSets

CONSTANTS
  Names,          \* generic names of the components
  Order,          \* the same names in the order of the map they are kept in
  Classes,        \* classes of components
  None,           \* the class that creates no component
  Choices,        \* the classes a user may select for a name
  Dependencies,   \* the names a class depends on
  OfflineClasses, \* classes that run offline only, the others run online only
  AssertsCompiled,\* whether the build has COMPILE_DBG_STATEMENTS
  MaxFrames,      \* bound: passes over the components
  MaxCrashes      \* bound: components that throw an exception in a run

ASSUME GraphAssumption ==
  /\ None \notin Classes
  /\ Order \in Seq(Names) /\ Order # <<>>
  /\ \A i, j \in 1 .. Len(Order) : Order[i] = Order[j] => i = j
  /\ Names = {Order[i] : i \in 1 .. Len(Order)}
  /\ Choices \in [Names -> SUBSET (Classes \cup {None})]
  /\ Dependencies \in [Classes -> Seq(Names)]
  /\ AssertsCompiled \in BOOLEAN
  /\ MaxFrames \in Nat /\ MaxCrashes \in Nat

VARIABLES
  selection,  \* the class of each component, or None
  mode,       \* m_runningMode
  added,      \* names whose component the user has selected so far
  queue,      \* compQueue: created components that are not initialized
  init,       \* NodeInfo::init: initialized components and the missing ones
  sorted,     \* m_sortedNodes
  parser,     \* the parsing thread: its step, pass and index in m_sortedNodes
  frame,      \* number of the current pass
  ran,        \* history: the pass in which a component ran last
  mutex,      \* the drawing mutex of each component, recursive
  gui         \* the GUI thread: its step and the component it displays

building == <<selection, mode, added, queue, init, sorted>>
vars == <<building, parser, frame, ran, mutex, gui>>

Created == {n \in Names : selection[n] # None}

\* The declared dependencies of a created component.
Deps(n) == {Dependencies[selection[n]][i] : i \in DOMAIN Dependencies[selection[n]]}
Parents(n) == Deps(n) \cap Created

RunsIn(n, m) == (selection[n] \in OfflineClasses) <=> (m = "offline")

Built == added = Len(Order) /\ queue = <<>>
Current == sorted[parser.i]

TypeOK ==
  /\ selection \in [Names -> Classes \cup {None}]
  /\ mode \in {"online", "offline"}
  /\ added \in 0 .. Len(Order)
  /\ queue \in Seq(Names) /\ sorted \in Seq(Names)
  /\ init \in SUBSET Names
  /\ parser \in [at : {"idle", "next", "run"}, pass : {"frame", "offline", "playback"},
                 i : Nat]
  /\ parser.i \in 1 .. Len(sorted) + 1
  /\ frame \in 0 .. MaxFrames
  /\ ran \in [Names -> 0 .. MaxFrames]
  /\ mutex \in [Names -> [owner : {"nobody", "parser", "gui"}, depth : 0 .. MaxCrashes + 1]]
  /\ gui \in [at : {"idle", "lock", "draw"}, of : Names]

-----------------------------------------------------------------------------
(* VSCGraph::Initialize                                                     *)

Init ==
  /\ selection = [n \in Names |-> None]
  /\ mode \in {"online", "offline"}
  /\ added = 0
  /\ queue = <<>>
  /\ init = {}
  /\ sorted = <<>>
  /\ parser = [at |-> "idle", pass |-> "frame", i |-> 1]
  /\ frame = 0
  /\ ran = [n \in Names |-> 0]
  /\ mutex = [n \in Names |-> [owner |-> "nobody", depth |-> 0]]
  /\ gui = [at |-> "idle", of |-> Order[1]]

\* The component of the next name is created, or the name counts as
\* initialized when the user wants none: some parents are optional.
AddComponent(class) ==
  /\ added < Len(Order)
  /\ LET n == Order[added + 1]
     IN  /\ class \in Choices[n]
         /\ selection' = [selection EXCEPT ![n] = class]
         /\ queue' = IF class = None THEN queue ELSE Append(queue, n)
         /\ init' = IF class = None THEN init \cup {n} ELSE init
  /\ added' = added + 1
  /\ UNCHANGED <<mode, sorted, parser, frame, ran, mutex, gui>>

\* Mistakes: one dependency is enough; a component that waits is taken anyway.
ReadyForOne(n) == Deps(n) = {} \/ Deps(n) \cap init # {}
ReadyAlways(n) == TRUE

Ready(n) == Deps(n) \subseteq init

\* The component at the head of the queue is initialized, or has to wait.
InitializeHead ==
  /\ added = Len(Order) /\ queue # <<>>
  /\ Ready(Head(queue))
  /\ queue' = Tail(queue)
  /\ sorted' = Append(sorted, Head(queue))
  /\ init' = init \cup {Head(queue)}
  /\ UNCHANGED <<selection, mode, added, parser, frame, ran, mutex, gui>>

\* Mistake: a component that waits is forgotten.
Forget ==
  /\ added = Len(Order) /\ queue # <<>>
  /\ ~Ready(Head(queue))
  /\ queue' = Tail(queue)
  /\ UNCHANGED <<selection, mode, added, init, sorted, parser, frame, ran, mutex, gui>>

PutBack ==
  /\ added = Len(Order) /\ queue # <<>>
  /\ ~Ready(Head(queue))
  /\ queue' = Append(Tail(queue), Head(queue))
  /\ UNCHANGED <<selection, mode, added, init, sorted, parser, frame, ran, mutex, gui>>

-----------------------------------------------------------------------------
(* ProcessNewFrame, ProcessDataOffline and ProcessFrameForPlayback          *)

Pass(pass) ==
  /\ Built /\ sorted # <<>>
  /\ parser.at = "idle"
  /\ frame < MaxFrames
  /\ pass = "offline" => mode = "offline"
  /\ frame' = frame + 1
  /\ parser' = [at |-> "next", pass |-> pass, i |-> 1]
  /\ UNCHANGED <<building, ran, mutex, gui>>

\* A playback runs the first component only.
Last == IF parser.pass = "playback" THEN 1 ELSE Len(sorted)

\* Mistake: the index is moved on once more.
SkipTwo ==
  /\ parser.at = "next" /\ parser.i <= Last
  /\ ~RunsIn(Current, mode)
  /\ parser' = [parser EXCEPT !.i = @ + 2]
  /\ UNCHANGED <<building, frame, ran, mutex, gui>>

\* RunWithMutex does nothing for a component that does not run in this mode.
Skip ==
  /\ parser.at = "next" /\ parser.i <= Last
  /\ ~RunsIn(Current, mode)
  /\ parser' = [parser EXCEPT !.i = @ + 1]
  /\ UNCHANGED <<building, frame, ran, mutex, gui>>

LockAndRun ==
  /\ parser.at = "next" /\ parser.i <= Last
  /\ RunsIn(Current, mode)
  /\ mutex[Current].owner \in {"nobody", "parser"}
  /\ mutex' = [mutex EXCEPT ![Current] = [owner |-> "parser", depth |-> @.depth + 1]]
  /\ parser' = [parser EXCEPT !.at = "run"]
  /\ UNCHANGED <<building, frame, ran, gui>>

Unlocked(m) ==
  IF m.depth = 1 THEN [owner |-> "nobody", depth |-> 0] ELSE [m EXCEPT !.depth = @ - 1]

\* Mistake: the mutex is kept.
RunKeepingMutex ==
  /\ parser.at = "run"
  /\ ran' = [ran EXCEPT ![Current] = frame]
  /\ parser' = [parser EXCEPT !.at = "next", !.i = @ + 1]
  /\ UNCHANGED <<building, frame, mutex, gui>>

RunAndUnlock ==
  /\ parser.at = "run"
  /\ ran' = [ran EXCEPT ![Current] = frame]
  /\ mutex' = [mutex EXCEPT ![Current] = Unlocked(@)]
  /\ parser' = [parser EXCEPT !.at = "next", !.i = @ + 1]
  /\ UNCHANGED <<building, frame, gui>>

\* Run throws: ProcessNewFrame catches it and gives up the frame.  Nobody
\* unlocks the mutex.  In the other passes, and where the ASSERT of the handlers
\* is compiled, the exception ends the program and with it the behaviour.
Crash ==
  /\ ~AssertsCompiled
  /\ parser.at = "run" /\ parser.pass = "frame"
  /\ mutex[Current].depth <= MaxCrashes
  /\ parser' = [parser EXCEPT !.at = "idle", !.i = 1]
  /\ UNCHANGED <<building, frame, ran, mutex, gui>>

EndPass ==
  /\ parser.at = "next" /\ parser.i > Last
  /\ parser' = [parser EXCEPT !.at = "idle", !.i = 1]
  /\ UNCHANGED <<building, frame, ran, mutex, gui>>

-----------------------------------------------------------------------------
(* GetDisplayInfoWithMutex and DrawWithMutex, in the GUI thread             *)

Display(n) ==
  /\ Built /\ gui.at = "idle"
  /\ n \in Created
  /\ gui' = [at |-> "lock", of |-> n]
  /\ UNCHANGED <<building, parser, frame, ran, mutex>>

\* Mistake: the GUI thread draws without the mutex.
DrawUnlocked ==
  /\ gui.at = "lock"
  /\ gui' = [gui EXCEPT !.at = "draw"]
  /\ mutex' = [mutex EXCEPT ![gui.of] = [owner |-> "gui", depth |-> 1]]
  /\ UNCHANGED <<building, parser, frame, ran>>

LockAndDraw ==
  /\ gui.at = "lock"
  /\ mutex[gui.of].owner = "nobody"
  /\ mutex' = [mutex EXCEPT ![gui.of] = [owner |-> "gui", depth |-> 1]]
  /\ gui' = [gui EXCEPT !.at = "draw"]
  /\ UNCHANGED <<building, parser, frame, ran>>

DrawAndUnlock ==
  /\ gui.at = "draw"
  /\ mutex' = [mutex EXCEPT ![gui.of] = Unlocked(@)]
  /\ gui' = [gui EXCEPT !.at = "idle"]
  /\ UNCHANGED <<building, parser, frame, ran>>

-----------------------------------------------------------------------------
Initializing ==
  \/ \E class \in Classes \cup {None} : AddComponent(class)
  \/ InitializeHead \/ PutBack
Running == Skip \/ LockAndRun \/ RunAndUnlock \/ Crash \/ EndPass
Displaying == LockAndDraw \/ DrawAndUnlock

Next ==
  \/ Initializing \/ Running \/ Displaying
  \/ \E pass \in {"frame", "offline", "playback"} : Pass(pass)
  \/ \E n \in Names : Display(n)

\* Initialize runs to its end, the threads run, and a thread that waits for a
\* mutex gets it (the waiters of a Windows mutex are queued).
Fairness ==
  /\ WF_vars(Initializing)
  /\ WF_vars(Skip \/ RunAndUnlock \/ Crash \/ EndPass) /\ SF_vars(LockAndRun)
  /\ SF_vars(LockAndDraw) /\ WF_vars(DrawAndUnlock)

Spec == Init /\ [][Next]_vars /\ Fairness

-----------------------------------------------------------------------------
(* What the graph promises.                                                 *)

\* Initialize is called on a component after it was called on all the parents
\* it has, whatever the order of the names.
DependenciesFirst ==
  \A i \in 1 .. Len(sorted) : \A p \in Parents(sorted[i]) : \E j \in 1 .. i - 1 : sorted[j] = p

\* Every created component is waiting or sorted, and only once.
EachOnce ==
  /\ Created = {queue[i] : i \in 1 .. Len(queue)} \cup {sorted[i] : i \in 1 .. Len(sorted)}
  /\ Len(queue) + Len(sorted) = Cardinality(Created)

\* Initialize terminates: the dependencies have no cycle.
Terminates == <>Built

\* When a component runs on a frame, every parent that runs in this mode has
\* finished that very frame: also after frames that were given up half-way.
ParentsCurrent ==
  parser.at = "run" /\ parser.pass # "playback" =>
    \A p \in Parents(Current) : RunsIn(p, mode) => ran[p] = frame

\* The GUI thread never asks a component for its display while it runs.
NotDrawnWhileRunning ==
  gui.at = "draw" /\ parser.at = "run" => gui.of # Current

\* The GUI thread gets its display, however often frames are processed: always
\* when no component throws, and otherwise of every component that is not left
\* locked.  (A component that has thrown is locked and without results when the
\* pass is given up.)
LeftLocked(n) == mutex[n].owner = "parser" /\ ~(parser.at = "run" /\ n = Current)
Thrown == parser.at = "idle" /\ \E n \in Names : mutex[n].owner = "parser" /\ ran[n] # frame
DisplayReturns ==
  /\ <>Thrown \/ (gui.at = "lock" ~> gui.at = "idle")
  /\ gui.at = "lock" ~> (gui.at = "idle" \/ LeftLocked(gui.of))
=============================================================================
