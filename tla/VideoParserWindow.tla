------------------------- MODULE VideoParserWindow -------------------------
(***************************************************************************)
(* Starting, pausing, stopping and steering the parsing of a video         *)
(* (VideoParserGUI/VideoParserWindow.{h,cpp} with the frame requests of    *)
(* VideoParser/VideoProcessor.h).  The GUI thread runs the callbacks of    *)
(* the widgets one at a time; each press of the play button while nothing  *)
(* is parsed starts a parsing thread.  The two share three flags, none of  *)
(* them protected, one mutex that the parsing thread holds while it is     *)
(* active, and the frame request of the VideoProcessor.                    *)
(***************************************************************************)
EXTENDS Integers, FiniteSets

CONSTANTS
  FrameCount,     \* frames in the video
  FrameRate,      \* frames per second, the distance of the one-second jumps
  FrameSteps,     \* steps from frame to frame that the user arguments may have
  MaxBeyond,      \* bound: numbers before the first frame, and past the last one
  MaxRuns         \* bound: parsing threads started in a behaviour

ASSUME WindowAssumption ==
  /\ FrameCount \in Nat /\ MaxRuns \in Nat
  /\ FrameRate \in Nat \ {0} /\ FrameSteps \subseteq Nat \ {0}
  /\ MaxBeyond \in Nat /\ MaxBeyond >= FrameRate

VARIABLES
  inProgress,   \* m_bParsingInProgress
  stop,         \* m_bStopParsing
  pause,        \* m_bPauseParsing
  owner,        \* who holds m_userSyncMutex
  gui,          \* the GUI thread: its step and the callback it is in
  parser,       \* the step of each parsing thread
  selector,     \* the mode shown by the mode selector
  runningMode,  \* m_videoProcessor.m_runningMode
  frameStep,    \* m_videoProcessor.m_params.frameStep
  frame,        \* m_video's frame: its number, or FrameCount at the end
  hasRequest,   \* m_hasFrameRequest
  requested,    \* m_requestedFrame
  overrun,      \* history: frames parsed since a stop was requested (cut off at 2)
  cleared       \* history: Initialize has cleared the flag of a parsing on its way

flags == <<inProgress, stop, pause>>
modes == <<selector, runningMode, frameStep>>
request == <<hasRequest, requested>>
history == <<overrun, cleared>>
vars == <<flags, owner, gui, parser, modes, frame, request, history>>

Runs == 1 .. MaxRuns
Nobody == 0
GUI == MaxRuns + 1
Invalid == -1             \* INVALID_FRAME
Frames == -MaxBeyond .. FrameCount
Numbers == -MaxBeyond .. FrameCount + MaxBeyond

\* Numbers that are farther beyond the video than MaxBeyond are cut off.
Cut(n) ==
  IF n < -MaxBeyond THEN -MaxBeyond
  ELSE IF n > FrameCount + MaxBeyond THEN FrameCount + MaxBeyond ELSE n

\* FrameNumber(): a video at its end can have the number past its last frame or the
\* one that it was asked for.
FrameNumber == IF frame = FrameCount THEN FrameCount .. FrameCount + MaxBeyond ELSE {frame}

\* Where a video is that reads what it has under number n: at its end past the last
\* frame; before the first one it may have no image either.
ReadCurrentFrame(n) ==
  IF n >= FrameCount THEN {FrameCount} ELSE IF n < 0 THEN {n, FrameCount} ELSE {n}

\* Mistake: no end.
ReadFramePast(n) == {n}

\* Where a video can be after ReadFrame(n): before the first frame if its file lets
\* the number be set, else such a number leads to the first frame.
ReadFrame(n) == ReadCurrentFrame(n) \cup {f \in {0} : n < 0}

TypeOK ==
  /\ inProgress \in BOOLEAN /\ stop \in BOOLEAN /\ pause \in BOOLEAN
  /\ owner \in Runs \cup {Nobody, GUI}
  /\ gui \in [at : {"idle", "while", "lock", "release", "work", "test", "read", "flag",
                    "request", "gone"},
              in : {"none", "play", "load", "mode", "Initialize", "Finalize", "request"},
              number : Numbers]
  /\ parser \in [Runs -> {"none", "lock", "enter", "offline", "load", "first", "test",
                          "process", "pause", "check", "next", "other", "advance", "jump",
                          "jumping", "step", "post", "finish", "release", "done", "ended"}]
  /\ selector \in {"play", "online", "offline"}
  /\ runningMode \in {"online", "offline"}
  /\ frameStep \in FrameSteps
  /\ frame \in Frames
  /\ hasRequest \in BOOLEAN
  /\ requested \in Numbers
  /\ overrun \in 0 .. 2
  /\ cleared \in BOOLEAN

\* The window after show(): Initialize and LoadVideo have run, the latter with a
\* video of its own; m_bStopParsing has no initial value.
Init ==
  /\ inProgress = FALSE /\ pause = FALSE
  /\ stop \in BOOLEAN
  /\ owner = Nobody
  /\ gui = [at |-> "idle", in |-> "none", number |-> 0]
  /\ parser = [r \in Runs |-> "none"]
  /\ selector = "online" /\ runningMode = "online" /\ frameStep \in FrameSteps
  /\ frame = Invalid
  /\ hasRequest = FALSE /\ requested = 0
  /\ overrun = 0 /\ cleared = FALSE

-----------------------------------------------------------------------------
(* The GUI thread: callbacks.                                               *)

Idle == gui.at = "idle"
Calls(callback, step) == gui' = [gui EXCEPT !.at = step, !.in = callback]
GuiGoes(step) == gui' = [gui EXCEPT !.at = step]
Returns == gui' = [at |-> "idle", in |-> "none", number |-> 0]

\* The play button: StopParsing(30) if a parsing is active, else StartParsing.
PressPlay ==
  /\ Idle
  /\ IF inProgress
     THEN /\ stop' = TRUE
          /\ Calls("play", "lock")
          /\ UNCHANGED <<inProgress, parser, overrun>>
     ELSE /\ inProgress' = TRUE
          /\ stop' = FALSE
          /\ \E r \in Runs :
               /\ parser[r] = "none"
               /\ \A earlier \in 1 .. r - 1 : parser[earlier] # "none"
               /\ parser' = [parser EXCEPT ![r] = "lock"]
          /\ overrun' = 0
          /\ UNCHANGED gui
  /\ UNCHANGED <<pause, owner, modes, frame, request, cleared>>

\* The pause button does nothing while a parsing is being stopped.
PressPause ==
  /\ Idle
  /\ ~(inProgress /\ stop)
  /\ pause' = ~pause
  /\ UNCHANGED <<inProgress, stop, owner, gui, parser, modes, frame, request, history>>

\* LoadVideo and OnModeSelection begin alike: while (IsParsing()) StopParsing(30).
LoadVideo ==
  /\ Idle
  /\ Calls("load", "while")
  /\ UNCHANGED <<flags, owner, parser, modes, frame, request, history>>

OnModeSelection(mode) ==
  /\ Idle
  /\ selector' = mode
  /\ Calls("mode", "while")
  /\ UNCHANGED <<flags, owner, parser, runningMode, frameStep, frame, request, history>>

WhileIsParsing ==
  /\ gui.at = "while"
  /\ IF inProgress
     THEN stop' = TRUE /\ GuiGoes("lock")
     ELSE GuiGoes("work") /\ UNCHANGED stop
  /\ UNCHANGED <<inProgress, pause, owner, parser, modes, frame, request, history>>

\* Mistake: the callers go on after one attempt.
StopParsingReturnsOnce == IF gui.in = "play" THEN Returns ELSE GuiGoes("work")

\* StopParsing waits for the mutex, for 30 seconds at most.
StopParsingReturns == IF gui.in = "play" THEN Returns ELSE GuiGoes("while")

StopParsingLocks ==
  /\ gui.at = "lock"
  /\ owner = Nobody
  /\ owner' = GUI
  /\ GuiGoes("release")
  /\ UNCHANGED <<flags, parser, modes, frame, request, history>>

StopParsingTimesOut ==
  /\ gui.at = "lock"
  /\ owner # Nobody
  /\ StopParsingReturns
  /\ UNCHANGED <<flags, owner, parser, modes, frame, request, history>>

StopParsingReleases ==
  /\ gui.at = "release"
  /\ owner' = Nobody
  /\ StopParsingReturns
  /\ UNCHANGED <<flags, parser, modes, frame, request, history>>

\* What the callback does to the video processor: a preview frame is loaded
\* (LoadPreviewFrame resets the components and the frame request), the graph
\* of components is built anew for the task or from the user arguments, or
\* everything is released.
Work ==
  /\ gui.at = "work"
  /\ IF gui.in = "Finalize" THEN GuiGoes("gone") ELSE Returns
  /\ hasRequest' = IF gui.in = "load" THEN FALSE ELSE hasRequest
  /\ IF gui.in = "Initialize"
     THEN \E mode \in {"online", "offline"} :
            runningMode' = mode /\ selector' = mode /\ frameStep' \in FrameSteps
     ELSE /\ runningMode' = IF gui.in = "mode" /\ selector # "play" THEN selector ELSE runningMode
          /\ UNCHANGED <<selector, frameStep>>
  /\ UNCHANGED <<flags, owner, parser, frame, requested, history>>

\* Initialize, when the preferences are applied or a watched argument changes;
\* Finalize, when the main window is closed.  Neither looks whether a parsing is
\* active.
Initialize ==
  /\ Idle
  /\ inProgress' = FALSE
  /\ pause' = FALSE
  /\ cleared' = (cleared \/ inProgress)
  /\ Calls("Initialize", "work")
  /\ UNCHANGED <<stop, owner, parser, modes, frame, request, overrun>>

Finalize ==
  /\ Idle
  /\ Calls("Finalize", "work")
  /\ UNCHANGED <<flags, owner, parser, modes, frame, request, history>>

\* RequestRelativeFrame: the first frame, one that is one frame or one second away,
\* unless there is a request.  Nothing is locked: a frame back, the frame number is
\* tested and then read once more; the flag of the request is set before its number.
\* (gui.number is the distance, then the number of the frame.)
RequestRelativeFrame ==
  /\ Idle
  /\ ~hasRequest
  /\ \/ gui' = [at |-> "flag", in |-> "request", number |-> 0]
     \/ \E by \in {1, FrameRate} : gui' = [at |-> "read", in |-> "request", number |-> by]
     \/ \E by \in {1, FrameRate} : gui' = [at |-> "test", in |-> "request", number |-> -by]
  /\ UNCHANGED <<flags, owner, parser, modes, frame, request, history>>

TestFrameNumber ==
  /\ gui.at = "test"
  /\ \E n \in FrameNumber : IF n >= -gui.number THEN GuiGoes("read") ELSE Returns
  /\ UNCHANGED <<flags, owner, parser, modes, frame, request, history>>

ReadFrameNumber ==
  /\ gui.at = "read"
  /\ \E n \in FrameNumber : gui' = [gui EXCEPT !.at = "flag", !.number = Cut(n + gui.number)]
  /\ UNCHANGED <<flags, owner, parser, modes, frame, request, history>>

RequestFlag ==
  /\ gui.at = "flag"
  /\ hasRequest' = TRUE
  /\ GuiGoes("request")
  /\ UNCHANGED <<flags, owner, parser, modes, frame, requested, history>>

RequestNumber ==
  /\ gui.at = "request"
  /\ requested' = gui.number
  /\ Returns
  /\ UNCHANGED <<flags, owner, parser, modes, frame, hasRequest, history>>

-----------------------------------------------------------------------------
(* The parsing thread r: ProcessVideo.                                      *)

ParserGoes(r, from, to) ==
  /\ parser[r] = from
  /\ parser' = [parser EXCEPT ![r] = to]

\* Mistake: a wait with a limit whose answer nobody looks at.
LockUntested(r) ==
  /\ owner' = r
  /\ ParserGoes(r, "lock", "enter")
  /\ UNCHANGED <<flags, gui, modes, frame, request, history>>

Lock(r) ==
  /\ owner = Nobody
  /\ owner' = r
  /\ ParserGoes(r, "lock", "enter")
  /\ UNCHANGED <<flags, gui, modes, frame, request, history>>

Enter(r) ==
  /\ ParserGoes(r, "enter",
       IF runningMode = "offline" /\ selector # "play" THEN "offline" ELSE "load")
  /\ UNCHANGED <<flags, owner, gui, modes, frame, request, history>>

ProcessDataOffline(r) ==
  /\ ParserGoes(r, "offline", "finish")
  /\ UNCHANGED <<flags, owner, gui, modes, frame, request, history>>

\* InitializeVideoProcessing: a video that loads is at its first frame, or, if it is
\* a sequence of images, at none yet.
LoadFails(r) ==
  /\ ParserGoes(r, "load", "finish")
  /\ frame' = Invalid
  /\ UNCHANGED <<flags, owner, gui, modes, request, history>>

Load(r) ==
  /\ ParserGoes(r, "load", "first")
  /\ hasRequest' = FALSE
  /\ frame' \in {Invalid, 0}
  /\ UNCHANGED <<flags, owner, gui, modes, requested, history>>

ReadFirstFrame(r) ==
  /\ ParserGoes(r, "first", "test")
  /\ frame' = 0
  /\ UNCHANGED <<flags, owner, gui, modes, request, history>>

IsLastFrame(r) ==
  /\ ParserGoes(r, "test", IF frame = FrameCount THEN "post" ELSE "process")
  /\ UNCHANGED <<flags, owner, gui, modes, frame, request, history>>

\* ProcessFrame or PlaybackFrame, and the display of the result.
ProcessFrame(r) ==
  /\ ParserGoes(r, "process", "pause")
  /\ overrun' = IF ~stop THEN 0 ELSE IF overrun < 2 THEN overrun + 1 ELSE overrun
  /\ UNCHANGED <<flags, owner, gui, modes, frame, request, cleared>>

\* Mistakes: a paused parsing does not look for requests, or not for a stop.
PausedBlind == pause /\ inProgress /\ ~stop
PausedForGood == pause /\ inProgress /\ ~hasRequest

\* The loop that pauses, and OnGUIEvent(EVENT_FINISHED_FRAME) after it.
Paused == pause /\ inProgress /\ ~stop /\ ~hasRequest

EndPause(r) ==
  /\ ~Paused
  /\ ParserGoes(r, "pause", "check")
  /\ UNCHANGED <<flags, owner, gui, modes, frame, request, history>>

\* Mistake: only the other flag is tested.
CheckStopHalf(r) ==
  /\ ParserGoes(r, "check", IF ~inProgress THEN "post" ELSE "next")
  /\ UNCHANGED <<flags, owner, gui, modes, frame, request, history>>

CheckStop(r) ==
  /\ ParserGoes(r, "check", IF stop \/ ~inProgress THEN "post" ELSE "next")
  /\ UNCHANGED <<flags, owner, gui, modes, frame, request, history>>

\* ReadNextFrame: the request's flag is tested, the flag cleared and the
\* request's number used in steps of their own.
TestRequest(r) ==
  /\ ParserGoes(r, "next", IF ~hasRequest /\ frameStep = 1 THEN "advance" ELSE "other")
  /\ UNCHANGED <<flags, owner, gui, modes, frame, request, history>>

TestNumber(r) ==
  /\ ParserGoes(r, "other", IF ~hasRequest THEN "step"
                            ELSE IF requested = frame + 1 THEN "advance" ELSE "jump")
  /\ UNCHANGED <<flags, owner, gui, modes, frame, request, history>>

Advance(r) ==
  /\ ParserGoes(r, "advance", "test")
  /\ hasRequest' = FALSE
  /\ frame' \in ReadCurrentFrame(frame + 1)
  /\ UNCHANGED <<flags, owner, gui, modes, requested, history>>

\* ReadNextFrame of a video asserts that its frame number is valid; nobody catches
\* the exception, and the program ends.
AdvanceFails(r) ==
  /\ parser[r] = "advance"
  /\ frame = Invalid
  /\ hasRequest' = FALSE
  /\ parser' = [s \in Runs |-> IF parser[s] = "none" THEN "none" ELSE "ended"]
  /\ GuiGoes("gone")
  /\ UNCHANGED <<flags, owner, modes, frame, requested, history>>

Jump(r) ==
  /\ ParserGoes(r, "jump", "jumping")
  /\ hasRequest' = FALSE
  /\ UNCHANGED <<flags, owner, gui, modes, frame, requested, history>>

ReadRequested(r) ==
  /\ ParserGoes(r, "jumping", "test")
  /\ frame' \in ReadFrame(requested)
  /\ UNCHANGED <<flags, owner, gui, modes, request, history>>

Step(r) ==
  /\ ParserGoes(r, "step", "test")
  /\ frame' \in ReadFrame(frame + frameStep)
  /\ UNCHANGED <<flags, owner, gui, modes, request, history>>

PostProcessVideo(r) ==
  /\ ParserGoes(r, "post", "finish")
  /\ UNCHANGED <<flags, owner, gui, modes, frame, request, history>>

Finish(r) ==
  /\ ParserGoes(r, "finish", "release")
  /\ inProgress' = FALSE
  /\ UNCHANGED <<stop, pause, owner, gui, modes, frame, request, history>>

\* Mistake: the flag is cleared once more on the way out.
ReleaseClearing(r) ==
  /\ ParserGoes(r, "release", "done")
  /\ owner' = Nobody
  /\ inProgress' = FALSE
  /\ UNCHANGED <<stop, pause, gui, modes, frame, request, history>>

\* ResetDashboard only touches widgets.
Release(r) ==
  /\ ParserGoes(r, "release", "done")
  /\ owner' = Nobody
  /\ UNCHANGED <<flags, gui, modes, frame, request, history>>

-----------------------------------------------------------------------------
Callback ==
  \/ PressPlay \/ PressPause \/ LoadVideo \/ RequestRelativeFrame
  \/ \E mode \in {"play", "online", "offline"} : OnModeSelection(mode)
  \/ Initialize \/ Finalize

GuiContinues ==
  \/ WhileIsParsing
  \/ StopParsingLocks \/ StopParsingTimesOut \/ StopParsingReleases
  \/ Work
  \/ TestFrameNumber \/ ReadFrameNumber \/ RequestFlag \/ RequestNumber

ParserContinues(r) ==
  \/ Enter(r) \/ ProcessDataOffline(r) \/ LoadFails(r) \/ Load(r)
  \/ ReadFirstFrame(r) \/ IsLastFrame(r) \/ ProcessFrame(r)
  \/ EndPause(r) \/ CheckStop(r)
  \/ TestRequest(r) \/ TestNumber(r) \/ Advance(r) \/ AdvanceFails(r)
  \/ Jump(r) \/ ReadRequested(r) \/ Step(r)
  \/ PostProcessVideo(r) \/ Finish(r) \/ Release(r)

Next ==
  \/ Callback \/ GuiContinues
  \/ \E r \in Runs : Lock(r) \/ ParserContinues(r)

\* Threads run, a frame is processed in finite time, and a thread that waits
\* for the mutex gets it although the GUI thread keeps locking and releasing
\* it (the waiters of a Windows mutex are queued).  The user need do nothing.
Fairness ==
  /\ WF_vars(GuiContinues)
  /\ \A r \in Runs : WF_vars(ParserContinues(r)) /\ SF_vars(Lock(r))

Spec == Init /\ [][Next]_vars /\ Fairness

-----------------------------------------------------------------------------
(* What the window promises.                                                *)

\* Steps in which a thread reads or changes the video processor.
Using == {"offline", "load", "first", "test", "process", "pause", "check", "next", "other",
          "advance", "jump", "jumping", "step", "post"}
Parsing == {r \in Runs : parser[r] \in Using}

\* LoadVideo resets the components and OnModeSelection deletes them only when
\* no thread is parsing, although StopParsing can time out, can return before
\* a new thread has locked the mutex, and the flag is not protected; and so does
\* Initialize, up to the one that clears the flag of a parsing.
NoRebuildWhileParsing == gui.at = "work" /\ gui.in # "Finalize" /\ ~cleared => Parsing = {}

\* Parsing threads run one at a time, even when the flag was cleared under a
\* running one and the play button has started another.
OneParsing == Cardinality(Parsing) <= 1

\* A stop is honoured after one more frame, by whichever thread is parsing:
\* also by one that was started and had not locked the mutex at the time, up to
\* the Initialize that clears the flag of a parsing.
StopHonoured == ~cleared => overrun <= 1

\* A parsing is ended before its last frame only by a stop: the thread that
\* finishes never ends the one that the play button starts meanwhile (Initialize,
\* which clears its flag, does).
EndedByStop ==
  [][~cleared => \A r \in Runs : parser[r] = "check" /\ parser'[r] = "post" => stop]_vars

\* No callback keeps the GUI thread for ever: LoadVideo, OnModeSelection and
\* StopParsing return, whatever the parsing thread does, paused or not.
GuiReturns == gui.at # "idle" ~> gui.at \in {"idle", "gone"}

\* A frame requested during a parsing is taken up, also while it is paused,
\* unless the parsing ends.
RequestTaken == (hasRequest /\ inProgress) ~> (~hasRequest \/ ~inProgress)

\* LoadVideo makes sure that there is no active parsing (its comment), also
\* after the window was initialized again.
LoadsAlone == gui.at = "work" /\ gui.in = "load" => Parsing = {}
=============================================================================
