# A formal model of VideoParser

VideoParser is a Windows program that takes a video apart: it subtracts the
background, segments the foreground, tracks blobs, parses shapes and stores
what it finds. A user opens a video in the FLTK window, chooses the components
to run, and plays, pauses, steps through or stops the parsing. The algorithms
are numeric and sequential. What is hard to test is around them: two threads
that share unprotected flags, a lock-free queue to a database thread, a graph
of components ordered at run time, a cache file that is changed in place, a
list of videos played as one, and tracked objects written to a database that
may refuse, restart or be shared. That is what this directory models in TLA+,
checks with TLC and, for seven of its parts, proves with TLAPS.

Paths below are relative to the repository.

## 1. Inventory

### Modelled

**SafeQueue** (`Tools/SafeQueue.h`). A ring buffer of SQL strings between one
producer and one consumer. State: two volatile indices and the slots.
Operations: `Push`, `Pop`. Hard: there is no lock; each side tests an index
the other moves. Correct when: it is a bounded FIFO, full and empty are told
apart, and no slot is copied while it is assigned.

**SQLDatabase** (`Tools/SQLDatabase.{h,cpp}`). One MySQL connection; in
non-blocking mode a query thread, created by the first query, drains a
SafeQueue. State: mode, open flag, the `SQLThreadData` with its own state
(READY, RUNNING, STOP_REQUESTED, STOPPED) and queue, and the result set that
waits on the connection. Operations: `Open`, `Query`, `StoreQueryResult`,
`Close`. Used by the VideoProcessor, the BlobTracker and the shape models.
Hard: the query thread may fail to start, ends at the first query that fails,
and works on an object `Close` deletes. Correct when: accepted queries reach
the server once and in order, calls return, a result belongs to its query.

**VideoParserWindow and VideoProcessor** (`VideoParserGUI/VideoParserWindow.*`,
`VideoParserGUI/VideoParserUI.cxx`, `VideoParser/VideoProcessor.*`). The GUI
thread runs callbacks one at a time; playing starts a parsing thread
(`ProcessVideo`). Shared: the flags `m_bParsingInProgress`, `m_bStopParsing`,
`m_bPauseParsing`, one mutex with a limit of 30 seconds, and the frame request
(`m_hasFrameRequest`, `m_requestedFrame`). Hard: none of the flags is
protected, a stop can time out, a new thread can start while the old one is
ending. Correct when: components are never rebuilt under a parsing, parsings
exclude each other, a stop and a request are honoured, the GUI never hangs. The
one callback that breaks into this is `Initialize`, which clears the flags
whether or not a thread is parsing.

**VSCGraph and VisSysComponentCreator** (`VideoParser/VSCGraph.*`,
`VideoParser/VisSysComponentCreator.*`, `Tools/VisSysComponent.h`). Creates the
selected components, initializes them in an order given by the dependencies
they declare, and runs them on every frame, each under its drawing mutex,
which the GUI thread takes to display a component. Hard: any selection must
get an order; a component that throws leaves its mutex locked. Correct when:
parents are initialized, and have run on the frame, before their dependants;
initialization ends; displays never see a component that is running.

**VideoDataBinder, VSCDataSerializer, SimpleDatabase**
(`VideoParser/VideoDataBinder.h`, `Tools/VSCDataSerializer.h`,
`Tools/SimpleDatabase.*`). The cache of parse data: one file with objects
addressed by class and id; per video a list of frame metadata, per frame a map
from labels to the data the components saved. State: the file and its index
tables, the position in the list, the map of the current frame. Hard: frames
are read in any order along a list walked forwards; a frame is saved twice;
new objects overwrite the index tables until the next flush. Correct when:
data are found under their own frame, lists stay ordered and separate, and
saving a frame takes nothing from earlier frames and other videos.

**Videos** (`VideoRepresentation/Video.h`, `MultiVideo.*` over `CvVideo.*` and
`ImgSeqVideo.*`). What the frame loop reads from. State: the list of files left
by the start and end times, an iterator, the object of the file being read with
its own frame number, the offset of that file, and a frame count that grows as
files are entered. Operations: `Load`, `ReadFirstFrame`, `ReadNextFrame`,
`ReadFrame`, `IsLastFrame`. Hard: the boundaries between files; files that are
empty, do not load or report a wrong number of frames; jumps back and forth.
Correct when: the position is that of the file that reads, no frame is skipped
or repeated, and a list of ordinary files behaves as one video.

**KalmanBlobTracker, BlobTracker, BlobTrackerDBManager** (`ObjectTracking/*`,
`ObjectTracking/KalmanBlobTracker/*`). Blobs are joined to traces from frame to
frame, traces to targets; a video gets a session in the database, to which
targets, traces and nodes are written as they come. State: the traces and
targets in memory with flags for what has been saved, the session number, the
rows. Operations: `Clear`, `Run`, `PostProcessSequence`, `createSession` (a
select and an insert), `createTarget`, `createTrace`, `createTraceNode`. Hard:
two programs can take one number between select and insert; statements are
refused, or only seem to be accepted in non-blocking mode; the program dies
between two rows; only the last trace of a target is ever saved. Correct when:
a trace has one target, rows refer to rows of the same video, and what the
tracker takes for saved is saved.

### Not modelled

| Component | What it is | Why not / what is planned |
|---|---|---|
| MinCutBlobTracker | matching by a minimum cut | the cut is a vendored solver over floating-point weights; the rules around it are planned |
| Background subtraction | pixel models, connected components | planned: the pixel state machine of `FSMBackgroundSubtractor`, `CCExtractor`; the others are numeric |
| Motion estimation, graph-cut subtraction | floating-point image processing | numeric |
| ImageProcessor, ResultsAnalyzer | stateless filters; statistics printed at the end | nothing a model could tell apart |
| BehaviorAnalyzer and the offline learners | learning from stored features | offline and sequential; planned: the model hierarchy in SimpleDatabase |
| Expectation maximization, BoostMap | numeric estimation, third-party code | numeric |
| Segmenters, RegionAnalyzer | regions of an image | only when labels are saved (in VideoDataBinder) |
| ShapeParser, ShapeMatcher, ObjectRecognizer, ShapeRepresentation | shape graphs, matching, contours | geometry; only ShapeParser's loads and saves appear |
| Graph matching | Hungarian algorithm, ordered matching | planned as pure algorithms |
| User arguments | reading and printing parameters | the selection is a free choice in the model |
| GUI widgets, utilities | drawing, formatting, files | the callbacks that matter are in VideoParserWindow |
| Vendored code | solvers, FLTK, OpenCV, VXL, BGL | third-party |

Parts of modelled components that are left out: of `Videos`, the slow search of
a capture that cannot seek, `SyntheticVideo`, `VXLVideo`, `IPVideo`, the choice
of a class by `GenericVideo` and the writers; of `BlobTrackerDBManager`, the
reads and the deletion of sessions, targets and traces, which nothing calls
while tracking; the Kalman filter, which is compiled out
(`SMOOTH_TRACES_ONLINE`).

The map in `PROJECT.json` covers a small share of the repository's lines. Most
of these are vendored solvers and libraries or numeric code (BoostMap alone has
more than 45 000 lines); the components above are those with state that
outlives a call, and they are mapped nearly in full.

`PROJECT.json` lists the same components with their files, the hazards of the
code at the line where each bites, and which property covers it.

### Two kinds of build

`ASSERT` throws (`Tools/BasicUtils.h:90`, `:161`), but only where
`COMPILE_DBG_STATEMENTS` is defined. The Visual Studio property sheet defines
it for every configuration (`VideoParserVC/ParentPropertySheet.props:44`). In
those builds a component that throws ends the program, because the handlers in
`VSCGraph.cpp:349` and `:355` are `ASSERT(false)`. In a build without it the
frame is given up and the program goes on. The constant `AssertsCompiled`
distinguishes the two. The graph is checked without assertions, which allows
every behaviour of the other build and more, and proved for both; the binder
is checked with assertions, as the program is shipped.

## 2. Modules

| Module | Models |
|---|---|
| `BoundedFIFO` | the abstract promise of a queue, answers of the calls included |
| `SafeQueue` | `Push` and `Pop`, one step per access to a shared index; the copy of an element has a beginning and an end |
| `SafeQueueProofs` | TLAPS proofs about it |
| `SQLDatabase` | client, query thread, MySQL connection |
| `SQLDatabaseProofs` | TLAPS proofs about it |
| `VideoParserWindow` | GUI callbacks, parsing threads, frame requests |
| `VideoParserWindowProofs` | TLAPS proofs about it |
| `VisSysComponents` | the program's table of components, classes and dependencies |
| `VSCGraph` | creating, ordering, running and displaying components, for any table |
| `VSCGraphProofs` | TLAPS proofs about it |
| `VideoDataBinder` | binder, serializer and database file together |
| `VideoDataBinderProofs` | TLAPS proofs about it |
| `Video` | the abstract promise of a video to the frame loop |
| `MultiVideo` | a list of files played as one video |
| `MultiVideoProofs` | TLAPS proofs about it, the refinement of `Video` among them |
| `MinMaxLemmas` | the least and largest number of a set, for least counterexamples |
| `BlobTrackerDBManager` | sessions and rows, through what a caller sees of SQLDatabase |
| `KalmanBlobTracker` | life and saving of traces and targets, with crashes and other programs |
| `KalmanBlobTrackerProofs` | TLAPS proofs about it |
| `MC*` | instances for TLC |

How the models relate to the code:

*SafeQueue.* `m_read`, `m_write`, `m_data` are the members. `producer` and
`consumer` hold program counter and locals of a call. A slot is `Torn` while
the `std::string` in it is being assigned; a copy during which the slot changes
is torn as well. Volatile accesses are taken in program order, as Visual C++
compiles them. A compiler that gives `volatile` only its ISO meaning is outside
the model.

*SQLDatabase.* Uses the queue as the FIFO that `SafeQueue` implements. Every
access of `push_back`, `wait_for_queries` and `ProcessQueries` to the state or
the queue is a step. `mysql_query` is two steps, received and answered. MySQL
is external: a connection holds one unread result set, and refuses commands
until it is stored. After `Close` has deleted the thread's object, the next
access by the thread is undefined: the thread ends or the program crashes.

*VideoParserWindow.* `gui` is the callback in progress with its step,
`parser[r]` the step of the r-th thread. Each test and assignment of a flag is
a step of its own, and so is each access of a frame request: the test that
there is none, the test of the frame number, its second reading, the flag, the
number; and of `ReadNextFrame`. A frame number may therefore be tested and then
be that of the first frame, and the frame before it be requested. The video
takes such a request as `CvVideo` does: it moves there if the capture lets it,
with or without an image, or to the first frame. A step forward from
`INVALID_FRAME` fails an assertion that nobody catches (`AdvanceFails`), and the
program ends. A video at its end can have the number past its last frame or the
one it was asked for. Numbers farther beyond the video than `MaxBeyond` are cut
off. `stop` has no initial value, as in the constructor. `Initialize` and
`Finalize` do not look whether a parsing is active; `cleared` remembers that
`Initialize` has cleared the flag of a parsing. `frameStep` is a user argument,
read again by `Initialize`. The thread always starts; the result of
`fl_create_thread` is ignored by the code.

*VSCGraph.* `AddComponent` fills the queue in map order, `InitializeHead` and
`PutBack` are the loop of `Initialize`. A pass is `Pass`, then for each index
`Skip` or `LockAndRun`/`RunAndUnlock`/`Crash`, then `EndPass`. The drawing
mutex is recursive (a Windows mutex), so that the parsing thread passes a
mutex an exception left locked and the GUI thread does not.
Subordinate components count as part of the component that runs them.

*VideoDataBinder.* `db` is what the program sees, `disk` what the index tables
in the file last described. A data item is the frame it was computed from. The
step `at` follows `VideoProcessor::ProcessFrame`: load, run, save,
EVENT_FINISHED_FRAME, save again. A save is two steps, the writing (`Save`) and
`FlushEverything`. Map, metadata, root and link are one step: all of them go
over the index tables, none of them is in the file for a later start before the
flush, and nothing runs between them, so that a death between two of them leaves
what a death after them leaves. `Kill` ends the program at any moment; when
something has been written since the last flush, the tables in the file may be
lost (`readable`). `ReadDataIndexMap` checks only the tail of the file. A start
on such a file is refused when the tail shows the damage (no step); when the old
tail is still there, what was written over the tables is read as tables
(`StartUnaware`), and the model goes no further. `Initialize` may come while
nothing is parsed or while the parsing thread is paused, which then finds its
flag cleared and ends. A thread at work loses the components it is using; the
rest of that behaviour is undefined and left out (`window_reinit` shows that it
can be reached). The early return of `ProcessFrame` for an empty image is left
out: a single video yields a non-empty image up to its end (`ImgSeqVideo`
substitutes a white one), and only a list with an empty file amid others, which
`MultiVideo` models, does not. A playback opens the binding, but neither loads
nor saves.

*MultiVideo.* A file is a record of its kind, the frames that can be read, the
number its header reports and its time stamp. `vidIt`, `inner`, `offset` and
`frameCount` are `m_vidIt`, `m_pVideo`, `m_frameOffset` and `m_frameCount`.
`from` and `to` are what `FilterVideos` leaves. The loop of `ReadFrame` over
the list is the operator `Search`; the recursion of `ReadNextFrame` is at most
one call deep. `Load` that refuses and an assertion that fails (`LoadVideo` at
the end of the list) are states of `at`. The times are in frames.
`Video` is the abstract specification; the refinement `V` is the property
`VideoContract`, for lists without times, empty files or wrong counts.

*BlobTrackerDBManager and KalmanBlobTracker.* The tables are sets of rows; each
row also remembers the video it was written for, which no code reads. The
connection is either in blocking mode, or queued, or dead: what SQLDatabase
shows its caller in the two modes and after its query thread has returned. The
halves of `createSession` are two steps, between which another program may
insert a session. `Run` is one step up to the saving (it touches nothing
shared), then every statement is a step, so that the program may die or a
statement be refused between any two. Blobs, costs and the choice among traces
are free; two traces reach one target only with equal costs, which counts as a
fault, as do skipped and dark frames and refused statements. Session numbers
are taken for a key of their table, whose schema is not in the repository. A
program without a database saves nothing and is not modelled.

## 3. Runs

| Run | Shows | Bounds |
|---|---|---|
| `safe_queue` | The ring buffer implements `BoundedFIFO`; no slot race; what a call has tested stays true until it publishes; only whole elements are delivered | 4 slots, 2 elements |
| `sql_database` | With threads that fail to start, queries that are rejected, `Close` and reopening at any time: no accepted query is lost, repeated or overtaken (`NothingLost`, `NeverOvertakes`), `StoreQueryResult` leaves only the last query pending, calls return unless the query thread is gone (`CallsReturn`), and queries reach the server unless the database is closed or the thread gone (`QueriesRun`) | queue of 1, 3 queries, 2 threads |
| `sql_result` (violated) | A result may be taken for that of another query | same, non-blocking |
| `window` | Every callback at any time, closing and reinitialization included: parsings exclude each other (`OneParsing`), every callback returns (`GuiReturns`), requests are taken up (`RequestTaken`); and until `Initialize` clears the flag of a parsing, nothing is rebuilt under one, a stop is honoured after at most one more frame and is the only thing that ends a parsing early | 1 frame, 2 threads, frame steps 1 and 2, numbers to 1 beyond the video |
| `window_reinit` (violated) | `LoadVideo` may reset components under a parsing | same, 2 frames |
| `graph` | For the program's table, every selection of six optional components, online and offline, with a component that throws and displays at any time: order, exactly-once initialization, termination, complete parents, displays apart from runs, displays return | 2 passes, 1 exception |
| `binder` | Any order of frames, edited labels, failing assertions, deaths and restarts: own data, ordered and separate lists, a search that divides the list at its frame, file flushed between frames; earlier frames and other videos keep what a start would find of them, a death between write and flush excepted | 2 videos of 3 frames, 4 items, 3 metadata, 3 starts |
| `binder_data_id` (violated) | The second save of a new frame fails its assertion | same |
| `binder_insert` (violated) | Metadata inserted before others lose the later ones | same |
| `binder_step_back` (violated) | After a step back by one frame its metadata are not found | same |
| `multi_video` | Every list of up to three files of five sorts, with and without times, in any mixture of first, next and requested frames: the position is that of the file that reads and the count covers it, `ReadNextFrame` skips and repeats nothing readable, ordinary lists implement `Video` | 3 files of at most 2 frames, reported one more or less; requests up to frame 6 |
| `tracker` | Any association of blobs, traces and targets: a trace has one target, rows refer to rows of their own video (`RowsLinked`), what is taken for saved is saved (`BelievedSaved`), and while nothing goes wrong nothing of a target is left out (`AllSaved`), with crashes and other programs | 5 frames of 2 videos, 2 blobs, 2 sessions, 1 fault |

Each property of a passing run is accompanied by a mutant (the definitions
marked "Mistake" in the modules): a plausible bug that breaks it.

**Why the bounds suffice.** Four slots let both indices wrap with the queue
empty, partly filled and full; the proof covers all sizes. A queue of one query
is full after one push while another query is in flight and a third is being
pushed; two threads allow an old query thread to be anywhere in its loop while
the client has closed, reopened and started another. In the window one frame
already has requests for itself, for the numbers before it and past the end,
steps and jumps between these, and a frame more than a stop allows (by a request
for the same frame); the safety properties are proved for every video. Two
parsing threads give one that ends while the next starts; every later thread
meets the same states. In the graph
the six optional components include one that runs offline only, one with
several dependencies and ones whose dependencies are missing; the proof covers
all tables. Three frames are the fewest for which metadata can be inserted
between others, and two videos the fewest that can be confused; three starts
allow a death, a restart and a reinitialization. Three files give an empty one
between two others, and two frames in a file a boundary that is not its
beginning; requests reach past the end of every list. In the tracker a trace
becomes a target with its third node, so that five frames let two targets
begin, expire and be stitched to a later trace; one fault at a time, of any
sort, is followed by two more frames or another video; the proofs cover any
number.

**Deadlock** is checked for the queue. It is off in the other runs, where the
program may stop: all frames have been processed, it has crashed or been closed,
an exception has left a mutex locked, an assertion has ended it, or a bound is
reached.

**Fairness.** Threads that can run do run (WF on the continuation of every call
and thread), and MySQL answers. Threads that wait for a mutex get it although
others keep taking it (SF on `Lock`, `LockAndRun` and `LockAndDraw`): waiters
of a Windows mutex are queued. No fairness is assumed of the user, of the
callbacks, or of a client that would have to issue queries. The timeout of
`StopParsing` needs no clock: it may expire whenever the mutex is held.
The safety-only models (`SafeQueue`, `VideoDataBinder`, `MultiVideo`,
`KalmanBlobTracker`) have no fairness: their operations are called, and end, as
the thread that calls them goes on.

## 4. Theorems

Proved by TLAPS for every value of the constants that meets the assumptions.

*SafeQueueProofs* assumes at least two slots (`SizeAssumption`) and that `Torn`
is no element (`TornAssumption`). The inductive invariant is
`QueueInv == TypeOK /\ CallsStable /\ PublishedWhole`. The types alone do not
keep the threads apart: that the producer assigns a slot which is not being
copied needs `CallsStable` (a successful test stays true, because each index
moves only away from the other's), and that a popped slot is whole needs
`PublishedWhole`. From it follow `TypeCorrect`, `RaceFree`, `WholeElements` and
`ImplementsFIFO`: the initial state maps to the FIFO's, `PushPublish` to a
push, `PopPublish` to a pop, the failing tests to the refusals, and every
other step to a stutter. The lemmas `ContentsAppended` and `ContentsTail` carry
the modular arithmetic.

*VSCGraphProofs* assumes `GraphAssumption`: the order lists every name once,
choices are classes, dependencies are sequences of names. It does not assume
that dependencies have no cycle, nor that assertions are compiled. `Inv` adds
to the types: only added names have components (`Building`), a component that
counts as initialized is sorted (`InitializedSorted`), parents precede
(`DependenciesFirst`), everything before the index of a pass has run
(`PassedHaveRun`), who runs or draws owns the mutex (`Owned`), and how deep a
mutex can be locked (`Depths`). `ParentsInitializedFirst`, `RunsAfterParents`
and `DisplayExcludesRun` follow. `EachOnceAlways` is inductive beside it, with
the finiteness of the created components: a name that is added is not among
those added before, since the order lists each once.

*SQLDatabaseProofs* assumes `SQLAssumption` (a queue of at least one query).
The inductive invariant has three parts besides the types. `CallInv`: whoever
is in a call knows the query it is for. `SessionInv`: an `SQLThreadData` exists
only in an open non-blocking session, its state is READY or RUNNING until
`Close` and it has never been used before; hence `push_back` never finds it
stopped, and `NeverOvertakes` follows although the state is read long before
the query is run. `PlaceInv`: each query of the session is in the client's
hands, in the queue, in the worker's, received or refused, and after
`push_back` the last one issued is the last one in the queue or, when that is
empty, the worker's. `OnlyLastPending` follows. `TypeCorrect` bounds the queue.
`OrderInv` carries `NothingLostAlways`: beside the property itself it says that
a query in the client's or a worker's hands has not been sent yet, that only
the object of the session is allocated, and that the query about to be pushed
was issued for it. The property is stated with sets and increasing numbers, which says the
same as an equation of subsequences and needs no induction over them.
`BlockingResults` has an invariant of its own, `BlockingInv`: without the query
thread a result set is on the connection only between a query and its
`StoreQueryResult`. It has the hypothesis `Modes \subseteq {FALSE}`, without
which the run `sql_result` refutes it.

*VideoParserWindowProofs* assumes `WindowAssumption`. `MutexInv` says that who
is past its lock owns the mutex, also across the timeouts of the GUI thread;
`OneParsing` follows under all callbacks. `FlagInv` says that the parsing flag
is up while a thread is on its way from its start to `Finish`, that there is
one such thread, that the GUI thread works on components only when the flag is
down, and that after a frame that overran a stop the thread is past
`ProcessFrame`. It holds until `Initialize` clears the flag of a thread on its
way (`cleared`), and so do `NoRebuildWhileParsing`, `StopHonoured` and
`EndedByStop`; `window_reinit` shows what happens then. `AdvanceFails` ends all
threads at once and is a case of its own in each proof. `TypeCorrect` says that
reads keep the video between `-MaxBeyond` and its end whatever is requested; the
requested numbers themselves do go below zero.

*KalmanBlobTrackerProofs* assumes `TrackerAssumption` and `ModesAssumption`.
`MemoryInv` is about memory alone: besides the types, no trace belongs to two
targets and those of targets count as matched (a trace that is stitched to a
target is not made a target in the same frame), the last trace of a target is
one of its own, and nothing is saved outside of the saving. `LinkInv` relates
memory to the rows: beside `RowsLinked` and `BelievedSaved` it needs that what
has no target has no rows, that the session number in memory is in the
database or the connection dead, and that rows of this session are of this
video. `TypeCorrect`, `OneTargetAlways`, `RowsLinkedAlways` and
`BelievedSavedAlways` follow. `Regular` is about the time until the first
fault: every trace in `m_traces` ends at the current frame, the traces of a
target before its last have ended, and all nodes of a target are written except
what this frame has added to its last trace. That is why saving only the last
trace of a target is enough, and where it depends on no frame being skipped.
`AllSavedAlways` follows by counting the rows of a trace, which number its nodes
from 0.

*MultiVideoProofs* assumes `ListAssumption`, `StartAssumption` (`Start` holds
the sums of the reported frame counts) and `TimeAssumption`. That sums grow is
`StartMono`, by a least counterexample instead of an induction. `IInv` adds to
the types that `m_frameOffset` and `m_frameCount` are two of these sums, the
second of a later file (`CountKept`), and that a plain list is never left at the
end of a video but the last (`NumberKept`); without that the next frame would
not always be the next number. `SearchFacts` says that the search of `ReadFrame`
ends at the file the frame is in, wherever it starts, and `ReadFrameFacts` that
it then shows that frame or, past the end, fails. `PositionKeptAlways`,
`NothingSkippedAlways` and `VideoContractAlways` follow: the last is the
refinement, one case per operation, from `InvAgree` (number, image and end of a
plain list agree).

*VideoDataBinderProofs* assumes `BinderAssumption`; it holds for the builds with
and without assertions. `Chain`, a recursive function, is handled in two steps.
New metadata get larger ids than the ones they link to, so that the function
exists, by a least counterexample (`CollectExists`); and what it returns is the
least set that holds its beginning and is closed under "next" (`ChainFacts`,
`ChainLeast`), so that facts about a list are shown by giving a closed set.
The inductive invariant is
`BinderInv == DataOK /\ ControlOK /\ DatabaseInv /\ FrameInv /\ StepInv /\ UnsavedInv`.
`DataOK` and `ControlOK` are the types. `DatabaseInv` says, for `db` and for
`disk`, that every metadata has an owner such that lists stay with their owner,
in the order of the frames and with maps of their own (`Listed`), and that the
binding is on the list of its video, or on metadata to which none lead
(`OnVideo`, `Unlinked`). `FrameInv` says that the map and the data the components
hold are those of one frame and that the binding has not passed it, `StepInv` at
which steps a video is bound. `SearchDividesAlways` follows from the order of the
list and from where the binding stops: all that the list has before the current
metadata is up to the frame, all that it has from there on is after it or the
frame's own.
`UnsavedInv` relates memory and file, as long as no assertion has failed. Between
`Save` and its flush, memory has all that the file has of earlier frames and other
videos (`Has`): the save changes one map, which belongs to the frame, and the link
of one existing metadata, and new metadata are linked to nothing. At all other
steps only new data items are in memory and not in the file. `EarlierAlwaysKept`
then follows at the flush, which is the step that changes the file. It leaves out
one step, a death between the first write of a frame over the index tables and
their flush (`DamagingDeath`), after which `readable` may be false and a start finds
nothing.
`BinderTypes`, `OwnDataAlways`, `OrderedAlways`, `ApartAlways`,
`SearchDividesAlways`, `EarlierAlwaysKept` and `FlushedAlways` follow.

All invariants and action properties that the passing runs check are proved.
Model-checked only:
- all liveness (termination of the graph, returning calls and callbacks,
  requests, displays): it depends on fairness, hence on ENABLED, which is out
  of this prover's reach.

Lists with times, empty files or wrong counts do not implement `Video`, so that
`VideoContract` is about the others; of all lists `PositionKept` and
`NothingSkipped` are proved.

The theorems hold for every value of the bounds in the CONSTANTS (queries,
threads, sessions, starts, stored objects), so that none of them depends on
where these cut a behaviour off.

## 5. Where the code disagrees with what it says

With a run that shows it (see "findings" in `PROJECT.json`):

1. `StoreQueryResult` can return the result of an earlier query: the last query
   is no longer in the queue, but not answered (`Tools/SQLDatabase.cpp:85`).
2. `Initialize` clears the flag of a running parsing, so that `LoadVideo` resets
   components in use (`VideoParserGUI/VideoParserWindow.cpp:97`).
3. The second save of a frame that was new stores another map and fails the
   assertion on the ids (`VideoParser/VideoDataBinder.h:219`).
4. Metadata created before existing ones cut these off (`VideoDataBinder.h:227`).
5. After a step back by one frame the previous metadata are those of the frame
   itself (`>` at `VideoDataBinder.h:141`), against the comments at `:131-134` and
   `:138-139`: they are not found, and the frame gets second ones. `SearchDivides`
   is what the search does keep.

Documented, without a run of their own. A document says otherwise; the models
have the behaviour, or end where it begins:

- `KalmanBlobTracker.h:58-64` states its properties B to D without restriction. A
  trace's last frame is taken from its number of nodes (`Trace.h:116`). After a
  skipped or dark frame a target that is being tracked is offered to other
  traces, and the nodes of the trace it loses are not saved any more. Skipped and
  dark frames are steps of the model; `AllSaved` is stated for the time before the
  first of them.
- `SimpleDatabase.h:197-199` says that a corrupted index is reported as a serious
  error. `ReadDataIndexMap` checks only the tail (`SimpleDatabase.cpp:29-47`); a
  short item written over the beginning of the tables leaves the old tail, and
  what it left is read as tables (`StartUnaware`).
- `CvVideo.cpp:146` asserts that the frame number is valid. The frame number is
  tested and read again (`VideoParserWindow.h:289-300`), the frame before the
  first requested, and a step forward from there fails the assertion
  (`AdvanceFails`).
- `Initialize` under a parsing thread deletes the components it is using; the
  comment quoted for 2 speaks of `LoadVideo`, which the run shows.

Met while modelling, where no document claims otherwise or the model ends where
the program does:

- The result set left behind by the first of these makes the next command fail;
  the query thread returns with its state RUNNING, and `push_back` waits for
  ever once the queue is full (`SQLDatabase.cpp:43`, `:63`). `CallsReturn`
  states the exception.
- `Close` drops queries that `Query` has accepted (`SQLDatabase.cpp:177`, `:236`).
- `StopParsing` can return true before the thread it stops has locked the mutex
  (`VideoParserWindow.h:203`, `:215`); its callers' loops make up for it.
- A request made between the test and the clearing of its flag is dropped; a
  thread may read the number of an earlier request (`VideoProcessor.h:179`,
  `:187`). A request made while nothing is parsed blocks later ones until a
  parsing or a preview clears it.
- Playback runs the first sorted component (`VSCGraph.cpp:252`, `:256`), which
  for some selections is not the image processor but the FeatureEmbedder.
- `ParentComponent` returns an unrelated component for a missing parent
  (`Tools/VisSysComponent.h:215`, `:225`); the cast around it hides this.
- `BoostMapEmbedder::Initialize` does not call the one of its base class.
- The binder follows metadata it created before the first of a list, which
  nothing links to; `SearchDivides` and `FoundAgain` are about the others.
- A second parsing without `Initialize` fails the assertion at
  `VideoDataBinder.h:95`.
- `Finalize` after the end of a video saves labels under the frame past the end
  (`VideoParserWindow.h:94`), fails the assertion at `VideoDataBinder.h:234`,
  or links the previous metadata past later ones.
- A program that dies between a component's save and the flush may leave a file
  without valid index tables (`Tools/SimpleDatabase.h:300`): that costs the data of
  all frames and videos in it, not only those of the frame. `Flushed` bounds the
  time in which this can happen, `EarlierKept` leaves it out.
- Videos are told apart by their file names without directories.
- A file that is empty or fails to load amid a `MultiVideo` yields an empty
  image with the number of the frame that follows it (`MultiVideo.h:214-224`).
  `NothingSkipped` allows it, `VideoContract` is about lists without it.
- A request past the end of a `MultiVideo` fails the assertion in `LoadVideo`
  (`MultiVideo.cpp:17`, `:361-371`); single videos go to their end.
- When no file is left by the times, the message about it is not reached: the
  test is about the unfiltered list (`MultiVideo.cpp:108`).
- `MultiVideo` adds the offset of the start time when a frame is requested
  (`MultiVideo.cpp:338`) and does not take it off in `FrameNumber`, so that a
  step forward by request moves by the offset as well.
- `SyntheticVideo::ReadFrame` always shows the first frame
  (`SyntheticVideo.cpp:238`).
- A trace that stays matched in `m_traces` may belong to no target that is left.
- A failing `createTraceNode` is ignored (its answer is always false), which
  leaves a gap that is never filled; when the row of a target fails while the
  target is stitched to a next trace, the earlier one is never saved.
- A dead query thread leaves `createSession` waiting; a missed result makes it
  take session 1 in memory, and the thread dies with the next statement.
- `merge_overlapped_components` changes nothing, since its boxes have no area
  (`KalmanBlobTracker.cpp:607`).

## 6. Plan

Done: SafeQueue with its refinement and proof; SQLDatabase with failures and
reopening, with proofs; VideoParserWindow with the frame requests and proofs;
VSCGraph with proofs; VideoDataBinder with serializer and file, with proofs;
videos, with `Video` implemented by `MultiVideo` and the proof of it; the
tracker with its sessions and proofs.

Left, in this order:

1. Pixel states of FSMBackgroundSubtractor; `CCExtractor` and the Hungarian
   algorithm against reference definitions.
2. MinCutBlobTracker: ancestors of blobs from frame to frame.
3. Abstract specifications of the window (a parsing that is off, on, or
   ending) and of the cache (a partial function from frames to data), each
   implemented by its detailed module.
