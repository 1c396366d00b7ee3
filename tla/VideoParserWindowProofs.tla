----------------------- MODULE VideoParserWindowProofs -----------------------
(***************************************************************************)
(* Proofs about VideoParserWindow, for any video and any number of parsing  *)
(* threads.  Two invariants carry them: the mutex belongs to whoever is     *)
(* past its lock, and the parsing flag is up while a thread is on its way,  *)
(* of which there is one.  The second one holds until Initialize clears the *)
(* flag of a parsing.                                                       *)
(***************************************************************************)
EXTENDS VideoParserWindow, FiniteSetTheorems, TLAPS

\* Steps of a thread that has the mutex, and of one that is on its way.
Holding == Using \cup {"enter", "finish", "release"}
Active == Using \cup {"lock", "enter", "finish"}

MutexInv ==
  /\ \A r \in Runs : parser[r] \in Holding => owner = r
  /\ gui.at = "release" => owner = GUI

\* Finalize does not look at the flag.
Finalizing == gui.in = "Finalize"

FlagKept ==
  /\ \A r \in Runs : parser[r] \in Active => inProgress
  /\ \A r, s \in Runs : parser[r] \in Active /\ parser[s] \in Active => r = s
  /\ gui.at = "work" => ~inProgress \/ Finalizing
  /\ overrun # 0 =>
       stop /\ \A r \in Runs : parser[r] \in Active => parser[r] \in {"pause", "check", "post", "finish"}
  /\ overrun <= 1

FlagInv == ~cleared => FlagKept

\* A step of a parsing thread.
LEMMA ParserGoesFacts ==
  ASSUME TypeOK, NEW r \in Runs, NEW from, NEW to, ParserGoes(r, from, to)
  PROVE  /\ parser[r] = from /\ parser'[r] = to
         /\ \A s \in Runs : s # r => parser'[s] = parser[s]
         /\ parser' = [parser EXCEPT ![r] = to]
  BY DEF ParserGoes, TypeOK

\* A step of the callback the GUI thread is in.
LEMMA GuiFacts ==
  ASSUME TypeOK
  PROVE  /\ \A step : GuiGoes(step) => gui'.at = step
         /\ Returns => gui'.at = "idle"
  BY DEF GuiGoes, Returns, TypeOK

GuiStates ==
  [at : {"idle", "while", "lock", "release", "work", "test", "read", "flag", "request", "gone"},
   in : {"none", "play", "load", "mode", "Initialize", "Finalize", "request"},
   number : Numbers]

\* What the frames and their numbers are.
LEMMA NumberFacts ==
  /\ 0 \in Numbers /\ 0 \in Frames /\ Invalid \in Frames /\ FrameCount \in Frames
  /\ 1 \in Numbers /\ -1 \in Numbers /\ FrameRate \in Numbers /\ -FrameRate \in Numbers
  /\ \A n \in Int : Cut(n) \in Numbers
  /\ Numbers \subseteq Int /\ Frames \subseteq Int
  BY WindowAssumption DEF Numbers, Frames, Invalid, Cut

LEMMA InitType == Init => TypeOK
<1>. SUFFICES ASSUME Init PROVE TypeOK
  OBVIOUS
<1>1. gui \in GuiStates
  BY NumberFacts DEF Init, GuiStates
<1>2. inProgress \in BOOLEAN /\ stop \in BOOLEAN /\ pause \in BOOLEAN /\ hasRequest \in BOOLEAN /\ cleared \in BOOLEAN
  BY DEF Init
<1>3. /\ owner \in Runs \cup {Nobody, GUI} /\ selector \in {"play", "online", "offline"}
      /\ runningMode \in {"online", "offline"} /\ frameStep \in FrameSteps
      /\ overrun \in 0 .. 2 /\ frame \in Frames /\ requested \in Numbers
  BY NumberFacts DEF Init
<1>4. QED
  BY <1>1, <1>2, <1>3 DEF Init, TypeOK, GuiStates

\* A video is always before its end, at it, or at most so far before its first frame
\* as a request goes.
LEMMA ReadFrameType ==
  ASSUME NEW n \in Int, n >= -MaxBeyond
  PROVE  ReadFrame(n) \subseteq Frames /\ ReadCurrentFrame(n) \subseteq Frames
  BY WindowAssumption DEF ReadFrame, ReadCurrentFrame, Frames

\* The end of the program by an exception.
LEMMA AdvanceFailsFacts ==
  ASSUME TypeOK, NEW r \in Runs, AdvanceFails(r)
  PROVE  /\ parser' \in [Runs -> {"none", "ended"}]
         /\ gui' = [gui EXCEPT !.at = "gone"] /\ gui'.at = "gone"
         /\ UNCHANGED <<flags, owner, modes, frame, requested, history>> /\ hasRequest' = FALSE
  BY DEF AdvanceFails, GuiGoes, TypeOK

LEMMA TypeStep == TypeOK /\ [Next]_vars => TypeOK'
<1>. SUFFICES ASSUME TypeOK, [Next]_vars PROVE TypeOK'
  OBVIOUS
<1>. USE DEF TypeOK, GuiStates, flags, modes, request, history
<1>0. 0 \in Numbers
  BY NumberFacts
<1>1. CASE PressPlay
  <2>1. CASE inProgress
    BY <1>1, <2>1 DEF PressPlay, Calls
  <2>2. CASE ~inProgress
    <3>1. PICK r \in Runs : parser' = [parser EXCEPT ![r] = "lock"]
      BY <1>1, <2>2 DEF PressPlay
    <3>2. /\ inProgress' = TRUE /\ stop' = FALSE /\ overrun' = 0
          /\ UNCHANGED <<gui, pause, owner, modes, frame, request, cleared>>
      BY <1>1, <2>2 DEF PressPlay
    <3>3. parser' \in [Runs -> {"none", "lock", "enter", "offline", "load", "first", "test",
                          "process", "pause", "check", "next", "other", "advance", "jump",
                          "jumping", "step", "post", "finish", "release", "done", "ended"}]
      BY <3>1
    <3>4. inProgress' \in BOOLEAN /\ stop' \in BOOLEAN
      BY <3>2, Zenon
    <3>5. overrun' \in 0 .. 2
      BY <3>2
    <3>6. /\ gui' = gui /\ pause' = pause /\ owner' = owner /\ frame' = frame /\ cleared' = cleared
          /\ selector' = selector /\ runningMode' = runningMode /\ frameStep' = frameStep
          /\ hasRequest' = hasRequest /\ requested' = requested
      BY <3>2
    <3>7. /\ gui' \in GuiStates /\ owner' \in Runs \cup {Nobody, GUI} /\ frame' \in Frames
          /\ selector' \in {"play", "online", "offline"} /\ runningMode' \in {"online", "offline"}
          /\ frameStep' \in FrameSteps /\ requested' \in Numbers
      BY <3>6
    <3>8. pause' \in BOOLEAN /\ hasRequest' \in BOOLEAN /\ cleared' \in BOOLEAN
      BY <3>6, Zenon
    <3>9. QED
      BY <3>3, <3>4, <3>5, <3>7, <3>8, Zenon
  <2>3. QED
    BY <2>1, <2>2
<1>2. CASE PressPause
  BY <1>2 DEF PressPause
<1>3. CASE LoadVideo
  BY <1>3 DEF LoadVideo, Calls
<1>4. ASSUME NEW mode \in {"play", "online", "offline"}, OnModeSelection(mode)
      PROVE  TypeOK'
  BY <1>4 DEF OnModeSelection, Calls
<1>5. CASE Initialize
  <2>1. cleared' \in BOOLEAN /\ inProgress' \in BOOLEAN /\ pause' \in BOOLEAN
    BY <1>5, Zenon DEF Initialize
  <2>2. gui' \in GuiStates
    BY <1>5 DEF Initialize, Calls
  <2>3. UNCHANGED <<stop, owner, parser, modes, frame, request, overrun>>
    BY <1>5 DEF Initialize
  <2>4. QED
    BY <2>1, <2>2, <2>3, Zenon
<1>6. CASE Finalize
  BY <1>6 DEF Finalize, Calls
<1>7. CASE RequestRelativeFrame
  <2>1. gui' \in GuiStates
    <3>1. CASE gui' = [at |-> "flag", in |-> "request", number |-> 0]
      BY <1>0, <3>1
    <3>2. ASSUME NEW by \in {1, FrameRate}, gui' = [at |-> "read", in |-> "request", number |-> by]
          PROVE  gui' \in GuiStates
      <4>1. by \in Numbers
        BY NumberFacts
      <4>2. QED
        BY <3>2, <4>1
    <3>3. ASSUME NEW by \in {1, FrameRate}, gui' = [at |-> "test", in |-> "request", number |-> -by]
          PROVE  gui' \in GuiStates
      <4>1. -by \in Numbers
        BY NumberFacts
      <4>2. QED
        BY <3>3, <4>1
    <3>4. QED
      BY <1>7, <3>1, <3>2, <3>3 DEF RequestRelativeFrame
  <2>2. QED
    BY <1>7, <2>1 DEF RequestRelativeFrame
<1>8. CASE WhileIsParsing
  BY <1>8 DEF WhileIsParsing, GuiGoes
<1>9. CASE StopParsingLocks
  BY <1>9 DEF StopParsingLocks, GuiGoes
<1>10. CASE StopParsingTimesOut
  BY <1>0, <1>10 DEF StopParsingTimesOut, StopParsingReturns, Returns, GuiGoes
<1>11. CASE StopParsingReleases
  BY <1>0, <1>11 DEF StopParsingReleases, StopParsingReturns, Returns, GuiGoes
<1>12. CASE Work
  <2>1. hasRequest' \in BOOLEAN
    BY <1>12, Zenon DEF Work
  <2>2. gui' \in GuiStates
    BY <1>0, <1>12 DEF Work, Returns, GuiGoes
  <2>3. /\ runningMode' \in {"online", "offline"} /\ selector' \in {"play", "online", "offline"}
        /\ frameStep' \in FrameSteps
    BY <1>12 DEF Work
  <2>4. UNCHANGED <<flags, owner, parser, frame, requested, history>>
    BY <1>12 DEF Work
  <2>5. QED
    BY <2>1, <2>2, <2>3, <2>4
<1>13. CASE TestFrameNumber \/ RequestFlag
  <2>1. gui' \in GuiStates
    BY <1>0, <1>13 DEF TestFrameNumber, RequestFlag, Returns, GuiGoes
  <2>2. hasRequest' \in BOOLEAN
    BY <1>13, Zenon DEF TestFrameNumber, RequestFlag, request
  <2>3. UNCHANGED <<flags, owner, parser, modes, frame, requested, history>>
    BY <1>13 DEF TestFrameNumber, RequestFlag
  <2>4. QED
    BY <2>1, <2>2, <2>3
<1>14. CASE ReadFrameNumber
  <2>1. PICK n \in FrameNumber : gui' = [gui EXCEPT !.at = "flag", !.number = Cut(n + gui.number)]
    BY <1>14 DEF ReadFrameNumber
  <2>2. n \in Int /\ gui.number \in Int
    <3>1. frame \in Int /\ gui.number \in Int
      BY NumberFacts
    <3>2. CASE frame = FrameCount
      BY <3>1, <3>2, WindowAssumption DEF FrameNumber
    <3>3. CASE frame # FrameCount
      BY <3>1, <3>3 DEF FrameNumber
    <3>4. QED
      BY <3>1, <3>2, <3>3
  <2>3. Cut(n + gui.number) \in Numbers
    BY <2>2, NumberFacts
  <2>4. QED
    BY <1>14, <2>1, <2>3 DEF ReadFrameNumber
<1>15. CASE RequestNumber
  BY <1>0, <1>15 DEF RequestNumber, Returns
<1>16. ASSUME NEW r \in Runs, AdvanceFails(r)
       PROVE  TypeOK'
  BY <1>16, AdvanceFailsFacts
<1>17. ASSUME NEW r \in Runs, Lock(r) \/ ParserContinues(r), ~AdvanceFails(r)
       PROVE  TypeOK'
  <2>1. parser' \in [Runs -> {"none", "lock", "enter", "offline", "load", "first", "test",
                          "process", "pause", "check", "next", "other", "advance", "jump",
                          "jumping", "step", "post", "finish", "release", "done", "ended"}]
    BY <1>17 DEF Lock, ParserContinues, ParserGoes, Enter, ProcessDataOffline, LoadFails, Load,
         ReadFirstFrame, IsLastFrame, ProcessFrame, EndPause, CheckStop, TestRequest, TestNumber,
         Advance, Jump, ReadRequested, Step, PostProcessVideo, Finish, Release
  <2>2. frame' \in Frames
    <3>1. CASE LoadFails(r) \/ Load(r) \/ ReadFirstFrame(r)
      BY <3>1, NumberFacts DEF LoadFails, Load, ReadFirstFrame
    <3>2. CASE Advance(r)
      <4>1. frame + 1 \in Int /\ frame + 1 >= -MaxBeyond
        BY WindowAssumption DEF Frames
      <4>2. QED
        BY <3>2, <4>1, ReadFrameType DEF Advance
    <3>3. CASE ReadRequested(r)
      <4>1. requested \in Int /\ requested >= -MaxBeyond
        BY WindowAssumption DEF Numbers
      <4>2. QED
        BY <3>3, <4>1, ReadFrameType DEF ReadRequested
    <3>4. CASE Step(r)
      <4>1. frame + frameStep \in Int /\ frame + frameStep >= -MaxBeyond
        BY WindowAssumption DEF Frames
      <4>2. QED
        BY <3>4, <4>1, ReadFrameType DEF Step
    <3>5. CASE frame' = frame
      BY <3>5
    <3>6. QED
      BY <1>17, <3>1, <3>2, <3>3, <3>4, <3>5
         DEF Lock, ParserContinues, Enter, ProcessDataOffline, IsLastFrame, ProcessFrame, EndPause,
             CheckStop, TestRequest, TestNumber, Jump, PostProcessVideo, Finish, Release
  <2>3. /\ inProgress' \in {inProgress, FALSE} /\ stop' = stop /\ pause' = pause
        /\ gui' = gui /\ UNCHANGED modes /\ cleared' = cleared
        /\ hasRequest' \in {hasRequest, FALSE} /\ requested' = requested
    BY <1>17, Zenon DEF Lock, ParserContinues, Enter, ProcessDataOffline, LoadFails, Load,
         ReadFirstFrame, IsLastFrame, ProcessFrame, EndPause, CheckStop, TestRequest, TestNumber,
         Advance, Jump, ReadRequested, Step, PostProcessVideo, Finish, Release
  <2>4. owner' \in {owner, r, Nobody} /\ overrun' \in 0 .. 2
    BY <1>17 DEF Lock, ParserContinues, Enter, ProcessDataOffline, LoadFails, Load,
         ReadFirstFrame, IsLastFrame, ProcessFrame, EndPause, CheckStop, TestRequest, TestNumber,
         Advance, Jump, ReadRequested, Step, PostProcessVideo, Finish, Release
  <2>5. inProgress' \in BOOLEAN /\ stop' \in BOOLEAN /\ pause' \in BOOLEAN /\ hasRequest' \in BOOLEAN
    BY <2>3, Zenon
  <2>6. /\ owner' \in Runs \cup {Nobody, GUI} /\ gui' = gui /\ UNCHANGED modes
        /\ requested' = requested /\ cleared' = cleared
    BY <2>3, <2>4
  <2>7. QED
    BY <2>1, <2>2, <2>4, <2>5, <2>6, Zenon
<1>18. CASE UNCHANGED vars
  BY <1>18 DEF vars
<1>19. QED
  BY <1>1, <1>2, <1>3, <1>4, <1>5, <1>6, <1>7, <1>8, <1>9, <1>10, <1>11, <1>12, <1>13, <1>14, <1>15,
     <1>16, <1>17, <1>18
     DEF Next, Callback, GuiContinues

\* The variables keep their types: reads lead to a frame of the video, to its end or
\* to a number before the first frame, whatever is requested meanwhile; and the
\* numbers requested reach below zero, since they are read after they were tested.
THEOREM TypeCorrect == Spec => []TypeOK
<1>1. QED
  BY InitType, TypeStep, PTL DEF Spec

-----------------------------------------------------------------------------
(* The mutex.                                                              *)

LEMMA InitMutex == Init => MutexInv
  BY DEF Init, MutexInv, Holding, Using

\* Steps of a parsing thread: those between its lock and its release keep the mutex.
LEMMA ParserKeeps ==
  ASSUME TypeOK, NEW r \in Runs, ParserContinues(r), ~AdvanceFails(r)
  PROVE  /\ parser[r] \in Holding /\ gui' = gui
         /\ \A s \in Runs : s # r => parser'[s] = parser[s]
         /\ \/ owner' = owner
            \/ owner' = Nobody /\ parser'[r] = "done"
<1>1. gui' = gui /\ (owner' = owner \/ Release(r))
  BY DEF ParserContinues, Enter, ProcessDataOffline, LoadFails, Load,
         ReadFirstFrame, IsLastFrame, ProcessFrame, EndPause, CheckStop, TestRequest, TestNumber,
         Advance, Jump, ReadRequested, Step, PostProcessVideo, Finish, Release
<1>2. \E from, to : ParserGoes(r, from, to) /\ from \in Holding
  BY DEF Holding, Using, ParserContinues, Enter, ProcessDataOffline, LoadFails, Load,
         ReadFirstFrame, IsLastFrame, ProcessFrame, EndPause, CheckStop, TestRequest, TestNumber,
         Advance, Jump, ReadRequested, Step, PostProcessVideo, Finish, Release
<1>3. Release(r) => owner' = Nobody /\ parser'[r] = "done"
  BY ParserGoesFacts DEF Release
<1>4. QED
  BY <1>1, <1>2, <1>3, ParserGoesFacts

\* Callbacks that do not start a thread.
GuiStep ==
  \/ PressPause \/ LoadVideo \/ RequestRelativeFrame
  \/ \E mode \in {"play", "online", "offline"} : OnModeSelection(mode)
  \/ Initialize \/ Finalize \/ GuiContinues

LEMMA GuiKeeps ==
  ASSUME GuiStep
  PROVE  parser' = parser /\ overrun' = overrun
  BY DEF GuiStep, GuiContinues, PressPause, LoadVideo, RequestRelativeFrame, OnModeSelection,
         Initialize, Finalize, WhileIsParsing, StopParsingLocks, StopParsingTimesOut,
         StopParsingReleases, Work, TestFrameNumber, ReadFrameNumber, RequestFlag, RequestNumber,
         history

LEMMA GuiMutex ==
  ASSUME TypeOK, GuiStep
  PROVE  \/ owner' = owner /\ (gui'.at # "release" \/ gui' = gui)
         \/ owner = Nobody /\ owner' = GUI
         \/ gui.at = "release" /\ gui'.at # "release" /\ owner' = Nobody
<1>1. CASE StopParsingLocks
  BY <1>1 DEF StopParsingLocks
<1>2. CASE StopParsingReleases
  BY <1>2 DEF StopParsingReleases, StopParsingReturns, Returns, GuiGoes, TypeOK
<1>3. CASE StopParsingTimesOut
  BY <1>3 DEF StopParsingTimesOut, StopParsingReturns, Returns, GuiGoes, TypeOK
<1>4. CASE WhileIsParsing \/ Work \/ TestFrameNumber \/ ReadFrameNumber \/ RequestFlag \/ RequestNumber
  <2>1. owner' = owner
    BY <1>4 DEF WhileIsParsing, Work, TestFrameNumber, ReadFrameNumber, RequestFlag, RequestNumber
  <2>2. gui'.at # "release"
    <3>1. CASE WhileIsParsing
      BY <3>1, GuiFacts, Zenon DEF WhileIsParsing
    <3>2. CASE Work
      BY <3>2, GuiFacts, Zenon DEF Work
    <3>3. CASE RequestNumber
      BY <3>3, GuiFacts, Zenon DEF RequestNumber
    <3>4. CASE TestFrameNumber \/ RequestFlag
      BY <3>4, GuiFacts, Zenon DEF TestFrameNumber, RequestFlag
    <3>5. CASE ReadFrameNumber
      BY <3>5 DEF ReadFrameNumber, TypeOK
    <3>6. QED
      BY <1>4, <3>1, <3>2, <3>3, <3>4, <3>5
  <2>3. QED
    BY <2>1, <2>2
<1>5. CASE PressPause
  BY <1>5 DEF PressPause
<1>6. CASE LoadVideo \/ Initialize \/ Finalize
  <2>1. owner' = owner
    BY <1>6 DEF LoadVideo, Initialize, Finalize
  <2>2. gui'.at # "release"
    BY <1>6 DEF LoadVideo, Initialize, Finalize, Calls, TypeOK
  <2>3. QED
    BY <2>1, <2>2
<1>7. CASE RequestRelativeFrame
  BY <1>7 DEF RequestRelativeFrame
<1>8. ASSUME NEW mode \in {"play", "online", "offline"}, OnModeSelection(mode)
      PROVE  owner' = owner /\ gui'.at # "release"
  BY <1>8 DEF OnModeSelection, Calls, TypeOK
<1>9. QED
  BY <1>1, <1>2, <1>3, <1>4, <1>5, <1>6, <1>7, <1>8 DEF GuiStep, GuiContinues

\* PressPlay stops a parsing or starts a thread.
LEMMA PlayFacts ==
  ASSUME TypeOK, PressPlay
  PROVE  /\ gui.at = "idle" /\ gui'.at # "release" /\ gui'.at # "work" /\ owner' = owner
         /\ cleared' = cleared
         /\ \/ inProgress /\ inProgress' = inProgress /\ stop' /\ parser' = parser /\ overrun' = overrun
            \/ /\ ~inProgress /\ inProgress' /\ overrun' = 0
               /\ \E r \in Runs : parser' = [parser EXCEPT ![r] = "lock"]
<1>1. gui.at = "idle" /\ owner' = owner /\ cleared' = cleared
  BY DEF PressPlay, Idle
<1>2. CASE inProgress
  BY <1>1, <1>2 DEF PressPlay, Calls, TypeOK
<1>3. CASE ~inProgress
  BY <1>1, <1>3 DEF PressPlay
<1>4. QED
  BY <1>2, <1>3

LEMMA MutexStep == TypeOK /\ MutexInv /\ [Next]_vars => MutexInv'
<1>. SUFFICES ASSUME TypeOK, MutexInv, [Next]_vars PROVE MutexInv'
  OBVIOUS
<1>0. /\ \A r \in Runs : r # Nobody /\ r # GUI
      /\ GUI # Nobody
  BY WindowAssumption DEF Runs, Nobody, GUI
<1>1. CASE PressPlay
  <2>1. \A r \in Runs : parser'[r] \in Holding => parser[r] \in Holding
    BY <1>1, PlayFacts DEF Holding, Using, TypeOK
  <2>2. QED
    BY <1>1, <2>1, PlayFacts DEF MutexInv
<1>2. CASE GuiStep
  BY <1>0, <1>2, GuiKeeps, GuiMutex DEF MutexInv
<1>3. ASSUME NEW r \in Runs, Lock(r)
      PROVE  MutexInv'
  <2>1. owner = Nobody /\ owner' = r /\ gui' = gui /\ \A s \in Runs : s # r => parser'[s] = parser[s]
    BY <1>3, ParserGoesFacts DEF Lock
  <2>2. QED
    BY <1>0, <2>1 DEF MutexInv
<1>4. ASSUME NEW r \in Runs, ParserContinues(r)
      PROVE  MutexInv'
  <2>1. CASE AdvanceFails(r)
    BY <2>1, AdvanceFailsFacts DEF MutexInv, Holding, Using
  <2>2. CASE ~AdvanceFails(r)
    BY <1>0, <1>4, <2>2, ParserKeeps DEF MutexInv, Holding, Using
  <2>3. QED
    BY <2>1, <2>2
<1>5. CASE UNCHANGED vars
  BY <1>5 DEF vars, MutexInv
<1>6. QED
  BY <1>1, <1>2, <1>3, <1>4, <1>5 DEF Next, Callback, GuiStep

LEMMA MutexAlways == Spec => []MutexInv
<1>1. TypeOK /\ MutexInv /\ [Next]_vars => MutexInv'
  BY MutexStep
<1>2. QED
  BY InitMutex, <1>1, TypeCorrect, PTL DEF Spec

\* Parsing threads run one at a time, whatever the callbacks do, also when one has
\* cleared the flag under a running thread and another has started the next.
THEOREM OneParsingAlways == Spec => []OneParsing
<1>1. TypeOK /\ MutexInv => OneParsing
  <2>. SUFFICES ASSUME TypeOK, MutexInv PROVE OneParsing
    OBVIOUS
  <2>1. Parsing \subseteq {owner}
    BY DEF Parsing, MutexInv, Holding
  <2>2. IsFiniteSet({owner}) /\ Cardinality({owner}) = 1
    BY FS_Singleton
  <2>3. Cardinality(Parsing) <= Cardinality({owner})
    BY <2>1, <2>2, FS_Subset
  <2>4. QED
    BY <2>2, <2>3 DEF OneParsing
<1>2. QED
  BY <1>1, TypeCorrect, MutexAlways, PTL

-----------------------------------------------------------------------------
(* The flag.                                                               *)

LEMMA InitFlag == Init => FlagInv
  BY DEF Init, FlagInv, FlagKept, Active, Using

\* Callbacks but Initialize leave the parsing flag alone, take a stop back
\* never, and work on the video processor only when the flag is down or to
\* finalize it.
LEMMA GuiFlag ==
  ASSUME TypeOK, GuiStep, ~Initialize
  PROVE  /\ inProgress' = inProgress /\ cleared' = cleared
         /\ stop => stop'
         /\ gui'.at = "work" => ~inProgress \/ Finalizing'
<1>. USE DEF flags, history
<1>1. CASE StopParsingLocks \/ StopParsingReleases \/ StopParsingTimesOut
  <2>1. inProgress' = inProgress /\ stop' = stop /\ cleared' = cleared
    BY <1>1 DEF StopParsingLocks, StopParsingReleases, StopParsingTimesOut
  <2>2. gui'.at # "work"
    BY <1>1 DEF StopParsingLocks, StopParsingReleases, StopParsingTimesOut, StopParsingReturns,
                Returns, GuiGoes, TypeOK
  <2>3. QED
    BY <2>1, <2>2
<1>2. CASE WhileIsParsing
  <2>1. CASE inProgress
    BY <1>2, <2>1 DEF WhileIsParsing, GuiGoes, TypeOK
  <2>2. CASE ~inProgress
    BY <1>2, <2>2 DEF WhileIsParsing
  <2>3. QED
    BY <2>1, <2>2
<1>3. CASE Work \/ TestFrameNumber \/ ReadFrameNumber \/ RequestFlag \/ RequestNumber
  <2>1. inProgress' = inProgress /\ stop' = stop /\ cleared' = cleared
    BY <1>3 DEF Work, TestFrameNumber, ReadFrameNumber, RequestFlag, RequestNumber
  <2>2. gui'.at # "work"
    <3>1. CASE Work
      BY <3>1, GuiFacts, Zenon DEF Work
    <3>2. CASE RequestNumber
      BY <3>2, GuiFacts, Zenon DEF RequestNumber
    <3>3. CASE TestFrameNumber \/ RequestFlag
      BY <3>3, GuiFacts, Zenon DEF TestFrameNumber, RequestFlag
    <3>4. CASE ReadFrameNumber
      BY <3>4 DEF ReadFrameNumber, TypeOK
    <3>5. QED
      BY <1>3, <3>1, <3>2, <3>3, <3>4
  <2>3. QED
    BY <2>1, <2>2
<1>4. CASE PressPause
  BY <1>4 DEF PressPause, Idle
<1>5. CASE LoadVideo
  <2>1. gui'.at # "work"
    BY <1>5 DEF LoadVideo, Calls, TypeOK
  <2>2. QED
    BY <1>5, <2>1 DEF LoadVideo
<1>6. CASE Finalize
  <2>1. gui'.in = "Finalize"
    BY <1>6 DEF Finalize, Calls, TypeOK
  <2>2. QED
    BY <1>6, <2>1 DEF Finalize, Finalizing
<1>7. CASE RequestRelativeFrame
  BY <1>7 DEF RequestRelativeFrame
<1>8. ASSUME NEW mode \in {"play", "online", "offline"}, OnModeSelection(mode)
      PROVE  inProgress' = inProgress /\ stop' = stop /\ cleared' = cleared /\ gui'.at # "work"
  BY <1>8 DEF OnModeSelection, Calls, TypeOK
<1>9. QED
  BY <1>1, <1>2, <1>3, <1>4, <1>5, <1>6, <1>7, <1>8 DEF GuiStep, GuiContinues

\* Steps of a parsing thread, for the flag.
Late == {"pause", "check", "post", "finish"}

LEMMA ParserFlag ==
  ASSUME TypeOK, NEW r \in Runs, Lock(r) \/ ParserContinues(r), ~AdvanceFails(r)
  PROVE  /\ stop' = stop /\ gui' = gui /\ cleared' = cleared
         /\ \A s \in Runs : s # r => parser'[s] = parser[s]
         /\ parser'[r] \in Active => parser[r] \in Active /\ inProgress' = inProgress
         /\ inProgress' = inProgress \/ (~inProgress' /\ parser[r] \in Active)
         /\ \/ overrun' = overrun /\ (parser[r] \in Late =>
                  parser[r] = "check" \/ parser'[r] \in Late \cup {"release"})
            \/ overrun' = 0
            \/ parser[r] = "process" /\ parser'[r] = "pause" /\ stop
               /\ (overrun < 2 => overrun' = overrun + 1)
<1>. USE DEF Active, Using, Late, flags, history
<1>1. CASE Lock(r) \/ Enter(r) \/ ProcessDataOffline(r) \/ LoadFails(r) \/ Load(r) \/ ReadFirstFrame(r)
           \/ IsLastFrame(r)
  <2>1. stop' = stop /\ gui' = gui /\ inProgress' = inProgress /\ overrun' = overrun /\ cleared' = cleared
    BY <1>1 DEF Lock, Enter, ProcessDataOffline, LoadFails, Load, ReadFirstFrame, IsLastFrame
  <2>2. parser[r] \in {"lock", "enter", "offline", "load", "first", "test"}
    BY <1>1, ParserGoesFacts
       DEF Lock, Enter, ProcessDataOffline, LoadFails, Load, ReadFirstFrame, IsLastFrame
  <2>3. \A s \in Runs : s # r => parser'[s] = parser[s]
    BY <1>1, ParserGoesFacts
       DEF Lock, Enter, ProcessDataOffline, LoadFails, Load, ReadFirstFrame, IsLastFrame
  <2>4. QED
    BY <2>1, <2>2, <2>3
<1>2. CASE ProcessFrame(r)
  BY <1>2, ParserGoesFacts DEF ProcessFrame, TypeOK
<1>3. CASE EndPause(r) \/ CheckStop(r) \/ PostProcessVideo(r)
  <2>1. stop' = stop /\ gui' = gui /\ inProgress' = inProgress /\ overrun' = overrun /\ cleared' = cleared
    BY <1>3 DEF EndPause, CheckStop, PostProcessVideo
  <2>2. parser[r] \in Late /\ parser'[r] \in Late \cup {"next"} /\ (parser[r] = "check" \/ parser'[r] \in Late)
    BY <1>3, ParserGoesFacts DEF EndPause, CheckStop, PostProcessVideo
  <2>3. \A s \in Runs : s # r => parser'[s] = parser[s]
    BY <1>3, ParserGoesFacts DEF EndPause, CheckStop, PostProcessVideo
  <2>4. QED
    BY <2>1, <2>2, <2>3
<1>4. CASE TestRequest(r) \/ TestNumber(r) \/ Advance(r) \/ Jump(r) \/ ReadRequested(r) \/ Step(r)
  <2>1. stop' = stop /\ gui' = gui /\ inProgress' = inProgress /\ overrun' = overrun /\ cleared' = cleared
    BY <1>4 DEF TestRequest, TestNumber, Advance, Jump, ReadRequested, Step
  <2>2. parser[r] \in {"next", "other", "advance", "jump", "jumping", "step"}
    BY <1>4, ParserGoesFacts DEF TestRequest, TestNumber, Advance, Jump, ReadRequested, Step
  <2>3. \A s \in Runs : s # r => parser'[s] = parser[s]
    BY <1>4, ParserGoesFacts DEF TestRequest, TestNumber, Advance, Jump, ReadRequested, Step
  <2>4. QED
    BY <2>1, <2>2, <2>3
<1>5. CASE Finish(r)
  BY <1>5, ParserGoesFacts DEF Finish
<1>6. CASE Release(r)
  BY <1>6, ParserGoesFacts DEF Release
<1>7. QED
  BY <1>1, <1>2, <1>3, <1>4, <1>5, <1>6 DEF ParserContinues

\* Whoever tests the flags while a stop is wanted goes to the end.
LEMMA StopEnds ==
  ASSUME TypeOK, NEW r \in Runs, ParserContinues(r), stop, ~AdvanceFails(r)
  PROVE  parser[r] = "check" => parser'[r] = "post"
<1>1. SUFFICES ASSUME parser[r] = "check" PROVE parser'[r] = "post"
  OBVIOUS
<1>2. CheckStop(r)
  BY <1>1
     DEF ParserGoes, ParserContinues, Enter, ProcessDataOffline, LoadFails, Load,
         ReadFirstFrame, IsLastFrame, ProcessFrame, EndPause, TestRequest, TestNumber,
         Advance, Jump, ReadRequested, Step, PostProcessVideo, Finish, Release
<1>3. QED
  BY <1>2, ParserGoesFacts DEF CheckStop

LEMMA FlagStep == TypeOK /\ FlagInv /\ [Next]_vars => FlagInv'
<1>. SUFFICES ASSUME TypeOK, FlagInv, [Next]_vars, ~cleared' PROVE FlagKept'
  BY DEF FlagInv
<1>1. CASE PressPlay
  <2>1. FlagKept
    BY <1>1, PlayFacts DEF FlagInv
  <2>2. CASE inProgress
    BY <1>1, <2>1, <2>2, PlayFacts DEF FlagKept
  <2>3. CASE ~inProgress
    <3>1. PICK r \in Runs : parser' = [parser EXCEPT ![r] = "lock"]
      BY <1>1, <2>3, PlayFacts
    <3>2. \A s \in Runs : s # r => parser'[s] = parser[s]
      BY <3>1 DEF TypeOK
    <3>3. \A s \in Runs : parser'[s] \in Active => s = r
      BY <2>1, <2>3, <3>2 DEF FlagKept
    <3>4. QED
      BY <1>1, <2>3, <3>3, PlayFacts DEF FlagKept
  <2>4. QED
    BY <2>2, <2>3
<1>2. CASE Initialize
  <2>1. ~inProgress /\ ~cleared /\ ~inProgress' /\ stop' = stop /\ parser' = parser /\ overrun' = overrun
    BY <1>2, Zenon DEF Initialize
  <2>2. FlagKept
    BY <2>1 DEF FlagInv
  <2>3. QED
    BY <2>1, <2>2 DEF FlagKept
<1>3. CASE GuiStep /\ ~Initialize
  <2>1. FlagKept
    BY <1>3, GuiFlag DEF FlagInv
  <2>2. QED
    BY <1>3, <2>1, GuiFlag, GuiKeeps DEF FlagKept
<1>4. ASSUME NEW r \in Runs, AdvanceFails(r)
      PROVE  FlagKept'
  <2>1. FlagKept
    BY <1>4, AdvanceFailsFacts DEF FlagInv, history
  <2>2. \A s \in Runs : parser'[s] \notin Active
    BY <1>4, AdvanceFailsFacts DEF Active, Using
  <2>3. QED
    BY <1>4, <2>1, <2>2, AdvanceFailsFacts DEF FlagKept, flags, history
<1>5. ASSUME NEW r \in Runs, Lock(r) \/ ParserContinues(r), ~AdvanceFails(r)
      PROVE  FlagKept'
  <2>0. FlagKept
    BY <1>5, ParserFlag DEF FlagInv
  <2>1. /\ \A s \in Runs : parser'[s] \in Active => parser[s] \in Active
        /\ \A s \in Runs : s # r => parser'[s] = parser[s]
    BY <1>5, ParserFlag
  <2>2. \A s \in Runs : parser'[s] \in Active => inProgress'
    BY <1>5, <2>0, <2>1, ParserFlag DEF FlagKept
  <2>3. gui'.at = "work" => ~inProgress' \/ Finalizing'
    BY <1>5, <2>0, ParserFlag DEF FlagKept, Finalizing
  <2>4. stop' = stop
    BY <1>5, ParserFlag
  <2>5. /\ overrun' <= 1
        /\ overrun' # 0 => stop' /\ \A s \in Runs : parser'[s] \in Active => parser'[s] \in Late
    <3>1. CASE overrun' = 0
      BY <3>1
    <3>2. CASE parser[r] = "process" /\ parser'[r] = "pause" /\ stop /\ (overrun < 2 => overrun' = overrun + 1)
      <4>1. parser[r] \in Active /\ parser[r] \notin Late
        BY <3>2 DEF Active, Using, Late
      <4>2. overrun = 0 /\ \A s \in Runs : parser[s] \in Active => s = r
        BY <2>0, <4>1 DEF FlagKept, Late
      <4>3. QED
        BY <2>1, <2>4, <3>2, <4>2 DEF Late
    <3>3. CASE /\ overrun' = overrun
               /\ parser[r] \in Late => parser[r] = "check" \/ parser'[r] \in Late \cup {"release"}
      <4>1. overrun # 0 /\ parser[r] \in Active => parser[r] \in Late /\ stop
        BY <2>0 DEF FlagKept, Late
      <4>2. overrun # 0 /\ parser[r] = "check" => parser'[r] = "post"
        <5>1. parser[r] = "check" => ParserContinues(r)
          BY <1>5, ParserGoesFacts DEF Lock
        <5>2. parser[r] = "check" => parser[r] \in Active
          BY DEF Active, Using
        <5>3. QED
          BY <1>5, <4>1, <5>1, <5>2, StopEnds
      <4>3. "release" \notin Active /\ "post" \in Late
        BY DEF Active, Using, Late
      <4>4. QED
        BY <2>0, <2>1, <2>4, <3>3, <4>1, <4>2, <4>3 DEF FlagKept, Late
    <3>4. QED
      BY <1>5, <3>1, <3>2, <3>3, ParserFlag
  <2>6. QED
    BY <2>0, <2>1, <2>2, <2>3, <2>5 DEF FlagKept, Late
<1>6. CASE UNCHANGED vars
  <2>1. FlagKept
    BY <1>6 DEF vars, history, FlagInv
  <2>2. QED
    BY <1>6, <2>1 DEF vars, flags, history, FlagKept, Finalizing
<1>7. QED
  BY <1>1, <1>2, <1>3, <1>4, <1>5, <1>6 DEF Next, Callback, GuiStep

LEMMA FlagAlways == Spec => []FlagInv
<1>1. TypeOK /\ FlagInv /\ [Next]_vars => FlagInv'
  BY FlagStep
<1>2. QED
  BY InitFlag, <1>1, TypeCorrect, PTL DEF Spec

\* LoadVideo, OnModeSelection and Initialize never touch the components under a
\* parsing, for any number of parsings and any video, up to the Initialize that
\* clears the flag of one.  For LoadVideo this is what its comment says.
THEOREM NoRebuildAlways == Spec => []NoRebuildWhileParsing
<1>1. FlagInv => NoRebuildWhileParsing
  BY DEF FlagInv, FlagKept, Finalizing, NoRebuildWhileParsing, Parsing, Active
<1>2. QED
  BY <1>1, FlagAlways, PTL

\* At most one more frame is processed after a stop, until Initialize has cleared
\* the flag of a parsing.
THEOREM StopHonouredAlways == Spec => []StopHonoured
<1>1. FlagInv => StopHonoured
  BY DEF FlagInv, FlagKept, StopHonoured
<1>2. QED
  BY <1>1, FlagAlways, PTL

\* Only a stop ends a parsing before its last frame: no thread that finishes, and
\* no callback but Initialize, ends the parsing that was started meanwhile.
THEOREM EndedByStopAlways == Spec => EndedByStop
<1>1. TypeOK /\ FlagInv /\ [Next]_vars
        => [~cleared => \A r \in Runs : parser[r] = "check" /\ parser'[r] = "post" => stop]_vars
  <2>. SUFFICES ASSUME TypeOK, FlagInv, Next, ~cleared, NEW r \in Runs,
                       parser[r] = "check", parser'[r] = "post"
                PROVE  stop
    OBVIOUS
  <2>1. inProgress
    BY DEF FlagInv, FlagKept, Active, Using
  <2>2. CASE PressPlay
    BY <2>1, <2>2, PlayFacts
  <2>3. CASE GuiStep
    BY <2>3, GuiKeeps
  <2>4. ASSUME NEW s \in Runs, Lock(s) \/ ParserContinues(s)
        PROVE  stop
    <3>1. ~AdvanceFails(s)
      BY AdvanceFailsFacts
    <3>2. s = r
      BY <2>4, <3>1, ParserFlag
    <3>3. CheckStop(r)
      BY <2>4, <3>1, <3>2
         DEF ParserGoes, Lock, ParserContinues, Enter, ProcessDataOffline, LoadFails, Load,
             ReadFirstFrame, IsLastFrame, ProcessFrame, EndPause, TestRequest, TestNumber,
             Advance, Jump, ReadRequested, Step, PostProcessVideo, Finish, Release
    <3>4. QED
      BY <2>1, <3>3, ParserGoesFacts DEF CheckStop
  <2>5. QED
    BY <2>2, <2>3, <2>4 DEF Next, Callback, GuiStep
<1>2. QED
  BY <1>1, TypeCorrect, FlagAlways, PTL DEF Spec, EndedByStop
=============================================================================
