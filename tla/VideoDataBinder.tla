--------------------------- MODULE VideoDataBinder ---------------------------
(***************************************************************************)
(* The cache of parse data.  While VideoProcessor parses a video, the      *)
(* components save labelled data items with the VSCDataSerializer; for     *)
(* each frame with data the VideoDataBinder keeps a map from the labels to *)
(* the items, and a list of metadata that leads from the video to its      *)
(* frames.  All of it is stored in one SimpleDatabase file whose index     *)
(* tables follow the data, so that they are overwritten by the next item   *)
(* and written again when the frame is saved (VideoParser/VideoDataBinder.h,*)
(* Tools/VSCDataSerializer.h, Tools/SimpleDatabase.{h,cpp}).               *)
(***************************************************************************)
EXTENDS Integers, Sequences

CONSTANTS
  Videos,          \* names of video files
  LastFrame,       \* number of the last frame of each of them
  AssertsCompiled, \* whether the build has COMPILE_DBG_STATEMENTS
  MaxItems,        \* bound: data items in the file
  MaxMetas,        \* bound: frame metadata in the file
  MaxStarts        \* bound: starts and initializations of the program

ASSUME BinderAssumption ==
  /\ Videos # {}
  /\ LastFrame \in Nat /\ AssertsCompiled \in BOOLEAN
  /\ MaxItems \in Nat /\ MaxMetas \in Nat /\ MaxStarts \in Nat

VARIABLES
  db,          \* the database as the program sees it
  disk,        \* its contents when the index tables were last written
  modified,    \* *m_pIsModified: the tables in the file are out of date
  readable,    \* whether the tables in the file are those last written
  binding,     \* m_isOpen, m_videoFilename, m_prevFPMId, m_currFPMId and
               \* m_currFrameHasMetadata
  serializer,  \* m_persistDataMap, m_dataMapStorageId, m_isDataMapModified
  shapeParser, \* whether the user has selected a ShapeParser
  at,          \* the step of the VideoProcessor
  frame,       \* FrameNumber()
  regions,     \* the frame whose regions the RegionAnalyzer holds, or NoFrame
  failed,      \* the ASSERT that has ended the program, or the tables that mislead it
  starts       \* starts and initializations so far

file == <<db, disk, modified, readable>>
vars == <<file, binding, serializer, shapeParser, at, frame, regions, failed, starts>>

None == 0              \* INVALID_STORAGE_ID
AnyVideo == CHOOSE v \in Videos : TRUE
Labels == {"shapes", "regions"}
PastEnd == LastFrame + 1
NoFrame == [video |-> AnyVideo, frame |-> -1]
Owners == [video : Videos, frame : 0 .. PastEnd]
NoData == [l \in Labels |-> None]
Empty == [items |-> <<>>, maps |-> <<>>, metas |-> <<>>, roots |-> [v \in Videos |-> None]]

\* A parsed frame, which data belong to.
Here == [video |-> binding.video, frame |-> frame]

Ids(s) == 1 .. Len(s)
Meta(m) == db.metas[m]

DatabaseOK(d) ==
  /\ d.items \in Seq(Owners)
  /\ d.maps \in Seq([Labels -> Ids(d.items) \cup {None}])
  /\ d.metas \in Seq([frame : 0 .. PastEnd, data : Ids(d.maps), next : Ids(d.metas) \cup {None}])
  /\ d.roots \in [Videos -> Ids(d.metas) \cup {None}]

TypeOK ==
  /\ DatabaseOK(db) /\ DatabaseOK(disk)
  /\ modified \in BOOLEAN /\ readable \in BOOLEAN
  /\ binding \in [open : BOOLEAN, video : Videos, prev : Ids(db.metas) \cup {None},
                  curr : Ids(db.metas) \cup {None}, hasMeta : BOOLEAN]
  /\ serializer \in [map : [Labels -> Ids(db.items) \cup {None}],
                     id : Ids(db.maps) \cup {None}, new : BOOLEAN]
  /\ shapeParser \in BOOLEAN
  /\ at \in {"off", "idle", "frame", "run", "save", "saved", "shown", "finish", "finished",
             "next", "exit", "exited", "gone"}
  /\ frame \in -1 .. PastEnd
  /\ regions \in Owners \cup {NoFrame}
  /\ failed \in {"nothing", "tables", "open", "data id", "frame number"}
  /\ starts \in 0 .. MaxStarts

Unbound == [open |-> FALSE, video |-> AnyVideo, prev |-> None, curr |-> None, hasMeta |-> FALSE]
Unsaved == [map |-> NoData, id |-> None, new |-> FALSE]

\* There is no cache file yet.
Init ==
  /\ db = Empty /\ disk = Empty
  /\ modified = FALSE /\ readable = TRUE
  /\ binding = Unbound
  /\ serializer = Unsaved
  /\ shapeParser = FALSE
  /\ at = "off"
  /\ frame = -1
  /\ regions = NoFrame
  /\ failed = "nothing"
  /\ starts = 0

Running == failed = "nothing" /\ at # "off"

-----------------------------------------------------------------------------
(* VideoProcessor::Initialize, at the start and whenever the user changes   *)
(* the mode or the arguments.                                               *)

Start ==
  /\ at = "off" /\ readable /\ starts < MaxStarts
  /\ starts' = starts + 1
  /\ shapeParser' \in BOOLEAN
  /\ at' = "idle"
  /\ UNCHANGED <<file, binding, serializer, frame, regions, failed>>

\* Only the last bytes of a file are checked.  When its tables were overwritten,
\* either these show it, and there is no cache, or those of the old tables are
\* still there, and whatever is before them is taken for tables.
StartUnaware ==
  /\ at = "off" /\ ~readable /\ starts < MaxStarts
  /\ starts' = starts + 1
  /\ at' = "idle" /\ failed' = "tables"
  /\ UNCHANGED <<file, binding, serializer, shapeParser, frame, regions>>

\* The map of the last frame stays in memory; the components are new, as selected.
\* The window does not look whether a video is being parsed.  A thread that was
\* paused finds its flag cleared and nothing of the new components to save, and
\* ends.  (One that is at work loses the components it is using; what it does
\* then is undefined, and left out.)
Initialize ==
  /\ Running /\ at \in {"idle", "shown"} /\ starts < MaxStarts
  /\ starts' = starts + 1
  /\ shapeParser' \in BOOLEAN
  /\ disk' = db /\ modified' = FALSE
  /\ binding' = [binding EXCEPT !.open = FALSE]
  /\ serializer' = [serializer EXCEPT !.id = None, !.new = FALSE]
  /\ at' = "idle"
  /\ regions' = NoFrame
  /\ UNCHANGED <<db, readable, frame, failed>>

\* The program ends without Finalize.  What was written over the index tables
\* may have reached the file or not: the first of it is what overwrites them.
Kill ==
  /\ at # "off"
  /\ IF modified THEN readable' \in BOOLEAN ELSE UNCHANGED readable
  /\ db' = disk /\ modified' = FALSE
  /\ binding' = Unbound
  /\ serializer' = Unsaved
  /\ at' = "off"
  /\ frame' = -1
  /\ regions' = NoFrame
  /\ failed' = "nothing"
  /\ shapeParser' = FALSE
  /\ UNCHANGED <<disk, starts>>

Fails(assertion) ==
  /\ failed' = assertion
  /\ UNCHANGED <<file, binding, serializer, at, frame, regions, shapeParser, starts>>

-----------------------------------------------------------------------------
(* Moving along the metadata of a video.                                    *)

\* Mistake: the previous metadata of another video is kept.
OpenedKeepingPrevious(v) ==
  [binding EXCEPT !.open = TRUE, !.video = v, !.curr = db.roots[v], !.hasMeta = FALSE]

Opened(v) ==
  [open |-> TRUE, video |-> v, prev |-> None, curr |-> db.roots[v], hasMeta |-> FALSE]

\* The loop of MoveClosestToFrameData: from metadata before frame f along the
\* list to the first one that is not.
Advanced(b, f) ==
  LET walk[m \in Ids(db.metas)] ==
        LET next == Meta(m).next
        IN  IF next = None \/ Meta(next).frame >= f
            THEN [b EXCEPT !.prev = m, !.curr = next]
            ELSE walk[next]
  IN  IF b.curr # None /\ Meta(b.curr).frame < f THEN walk[b.curr] ELSE b

\* Mistake: the list is never walked from its beginning again.
MovedForward(f) == Advanced(binding, f)

MoveClosestToFrameData(f) ==
  IF binding.prev # None /\ Meta(binding.prev).frame > f
  THEN Advanced(Opened(binding.video), f)
  ELSE Advanced(binding, f)

-----------------------------------------------------------------------------
(* Parsing a video: InitializeVideoProcessing, then ProcessFrame and        *)
(* OnGUIEvent(EVENT_FINISHED_FRAME) for one frame after the other.          *)

\* The frame number is not valid yet, and no metadata is before it.  (A mere
\* playback opens the binding too, but neither loads nor saves.)
OpenBinding(v) ==
  /\ Running /\ at = "idle"
  /\ IF AssertsCompiled /\ binding.open
     THEN Fails("open")
     ELSE /\ binding' = Opened(v)
          /\ regions' = NoFrame
          /\ at' = "next"
          /\ frame' = -1
          /\ UNCHANGED <<file, serializer, failed, shapeParser, starts>>

\* The first frame, the next one, or the one the user has requested.
ReadNextFrame ==
  /\ Running /\ at = "next"
  /\ \E f \in 0 .. LastFrame : frame' = f
  /\ at' = "frame"
  /\ UNCHANGED <<file, binding, serializer, regions, failed, shapeParser, starts>>

\* The user stops the parsing at a frame, or the video is at its end.
EndParsing ==
  /\ Running /\ at = "next" /\ frame # -1
  /\ frame' \in {frame, PastEnd}
  /\ at' = "idle"
  /\ UNCHANGED <<file, binding, serializer, regions, failed, shapeParser, starts>>

\* Mistake: the map of the frame before is kept when a frame has none.
LoadKeepingMap ==
  /\ Running /\ at = "frame"
  /\ LET b == MoveClosestToFrameData(frame)
         found == b.curr # None /\ Meta(b.curr).frame = frame
     IN  /\ binding' = [b EXCEPT !.hasMeta = found]
         /\ serializer' =
              IF found
              THEN [map |-> db.maps[Meta(b.curr).data], id |-> Meta(b.curr).data, new |-> FALSE]
              ELSE [serializer EXCEPT !.id = None, !.new = FALSE]
  /\ at' = "run"
  /\ UNCHANGED <<file, frame, regions, failed, shapeParser, starts>>

LoadFrameData ==
  /\ Running /\ at = "frame"
  /\ LET b == MoveClosestToFrameData(frame)
         found == b.curr # None /\ Meta(b.curr).frame = frame
     IN  /\ binding' = [b EXCEPT !.hasMeta = found]
         /\ serializer' =
              IF found
              THEN [map |-> db.maps[Meta(b.curr).data], id |-> Meta(b.curr).data, new |-> FALSE]
              ELSE Unsaved
  /\ at' = "run"
  /\ UNCHANGED <<file, frame, regions, failed, shapeParser, starts>>

\* A component saves its data: under the id its label has, or a new one.
SaveComponentData(label, owner) ==
  /\ IF serializer.map[label] # None
     THEN /\ db' = [db EXCEPT !.items[serializer.map[label]] = owner]
          /\ serializer' = [serializer EXCEPT !.new = TRUE]
     ELSE /\ Len(db.items) < MaxItems
          /\ db' = [db EXCEPT !.items = Append(@, owner)]
          /\ serializer' = [serializer EXCEPT !.map[label] = Len(db.items) + 1, !.new = TRUE]
  /\ modified' = TRUE

\* The components run.  The RegionAnalyzer loads the labels of its regions, the
\* ShapeParser its shapes, or else makes and saves them.
Run ==
  /\ Running /\ at = "run"
  /\ regions' = Here
  /\ at' = "save"
  /\ IF shapeParser /\ serializer.map["shapes"] = None
     THEN SaveComponentData("shapes", Here)
     ELSE UNCHANGED <<db, modified, serializer>>
  /\ UNCHANGED <<disk, readable, binding, frame, failed, shapeParser, starts>>

\* EVENT_FINISHED_FRAME reaches the components, in the parsing thread after a
\* frame or in Finalize: the RegionAnalyzer saves labels the user has changed.
FinishedFrame ==
  /\ Running /\ at \in {"shown", "idle"}
  /\ at' = IF at = "shown" THEN "finish" ELSE "exit"
  /\ \/ UNCHANGED <<db, modified, serializer>>
     \/ regions # NoFrame /\ SaveComponentData("regions", regions)
  /\ UNCHANGED <<disk, readable, binding, frame, regions, failed, shapeParser, starts>>

-----------------------------------------------------------------------------
(* SaveFrameData, which follows ProcessNewFrame and EVENT_FINISHED_FRAME.   *)

\* Mistake: the number of maps instead of the number of the last.
MapIdPastEnd == IF serializer.id = None THEN Len(db.maps) + 2 ELSE serializer.id

\* SaveFrameParseData: the map is stored under its id, or a new one that the
\* serializer does not keep.
MapId == IF serializer.id = None THEN Len(db.maps) + 1 ELSE serializer.id
WithMap(d) ==
  [d EXCEPT !.maps = IF serializer.id = None THEN Append(@, serializer.map)
                     ELSE [@ EXCEPT ![serializer.id] = serializer.map]]

\* The metadata of the frame, new if there is none: then it is the last of its
\* list.
MetaId == IF binding.hasMeta THEN binding.curr ELSE Len(db.metas) + 1
WithMeta(d) ==
  IF binding.hasMeta THEN d
  ELSE [d EXCEPT !.metas = Append(@, [frame |-> frame, data |-> MapId, next |-> None])]

\* Mistake: the video leads to the metadata saved last.
WithNewRoot(d) == [d EXCEPT !.roots[binding.video] = MetaId]

WithRoot(d) == [d EXCEPT !.roots[binding.video] = IF @ = None THEN MetaId ELSE @]

WithLink(d) ==
  IF binding.prev = None THEN d ELSE [d EXCEPT !.metas[binding.prev].next = MetaId]

Saved == WithLink(WithRoot(WithMeta(WithMap(db))))

AfterSave ==
  CASE at \in {"save", "saved"} -> "shown"
    [] at \in {"finish", "finished"} -> "next"
    [] at \in {"exit", "exited"} -> "gone"

\* The assertion that does not hold in SaveFrameData.
Violated ==
  CASE ~binding.open -> "open"
    [] binding.hasMeta /\ Meta(binding.curr).data # MapId -> "data id"
    [] binding.hasMeta /\ Meta(binding.curr).frame # frame -> "frame number"
    [] OTHER -> "nothing"

\* The map, the metadata, the root and the link are written, from the map on over
\* the index tables: a death between these writes leaves what one after them does.
Save ==
  /\ Running /\ at \in {"save", "finish", "exit"}
  /\ serializer.new
  /\ AssertsCompiled => Violated = "nothing"
  /\ binding.hasMeta \/ Len(db.metas) < MaxMetas
  /\ db' = Saved /\ modified' = TRUE
  /\ binding' = [binding EXCEPT !.curr = MetaId, !.hasMeta = TRUE]
  /\ at' = CASE at = "save" -> "saved" [] at = "finish" -> "finished" [] at = "exit" -> "exited"
  /\ UNCHANGED <<disk, readable, serializer, frame, regions, failed, shapeParser, starts>>

\* Mistake: the index tables are left for later.
FlushData ==
  /\ Running /\ at \in {"saved", "finished", "exited"}
  /\ at' = AfterSave
  /\ UNCHANGED <<file, binding, serializer, frame, regions, failed, shapeParser, starts>>

FlushEverything ==
  /\ Running /\ at \in {"saved", "finished", "exited"}
  /\ disk' = db /\ modified' = FALSE
  /\ at' = AfterSave
  /\ UNCHANGED <<db, readable, binding, serializer, frame, regions, failed, shapeParser, starts>>

\* The map is stored before the assertions are tested.
SaveFails ==
  /\ Running /\ at \in {"save", "finish", "exit"}
  /\ serializer.new
  /\ AssertsCompiled /\ Violated # "nothing"
  /\ failed' = Violated
  /\ db' = IF binding.open THEN WithMap(db) ELSE db
  /\ modified' = (modified \/ binding.open)
  /\ UNCHANGED <<disk, readable, binding, serializer, at, frame, regions, shapeParser, starts>>

SaveNothing ==
  /\ Running /\ at \in {"save", "finish", "exit"}
  /\ ~serializer.new
  /\ at' = AfterSave
  /\ UNCHANGED <<file, binding, serializer, frame, regions, failed, shapeParser, starts>>

SaveFrameData == Save \/ FlushEverything \/ SaveFails \/ SaveNothing

Next ==
  \/ Start \/ StartUnaware \/ Initialize \/ Kill
  \/ \E v \in Videos : OpenBinding(v)
  \/ ReadNextFrame \/ LoadFrameData \/ Run \/ FinishedFrame \/ SaveFrameData
  \/ EndParsing

Spec == Init /\ [][Next]_vars

-----------------------------------------------------------------------------
(* What the cache promises.                                                 *)

\* The metadata from given ones on.
From(d) ==
  LET from[m \in Ids(d.metas) \cup {None}] == IF m = None THEN {} ELSE {m} \cup from[d.metas[m].next]
  IN  from

\* The metadata of a video: the list that begins at its root.
Chain(d, v) == From(d)[d.roots[v]]

Holds(d, map, owner) == \A l \in Labels : map[l] # None => d.items[map[l]] = owner

\* All data that can be found under a frame of a video were computed from it,
\* and so were the data the components have loaded for the current frame,
\* whatever frames were requested in whatever order.  (Labels that Finalize
\* saves after the last frame are found under the frame past the end.)
OwnData ==
  /\ \A v \in Videos : \A m \in Chain(db, v) :
       Meta(m).frame # PastEnd =>
         Holds(db, db.maps[Meta(m).data], [video |-> v, frame |-> Meta(m).frame])
  /\ at \in {"run", "save", "saved", "shown"} => Holds(db, serializer.map, Here)

\* The list of a video is in the order of its frames, so that a search that
\* stops at the first later frame misses none.
ChainsOrdered ==
  \A v \in Videos : \A m \in Chain(db, v) :
    Meta(m).next # None => Meta(m).frame <= Meta(Meta(m).next).frame

\* No two videos share metadata, and no two metadata share a map.
ChainsApart ==
  \A v, w \in Videos : \A m \in Chain(db, v), n \in Chain(db, w) :
    (v # w => m # n) /\ (m # n => Meta(m).data # Meta(n).data)

\* Metadata created before the first of a list are not linked to it; the binder
\* that is on them is beside the list.
OnList == {binding.prev, binding.curr} \subseteq Chain(db, binding.video) \cup {None}

\* Whatever frame was loaded before, the search for a frame stops where it divides
\* the list of its video: nothing that comes later has been passed, nothing that
\* comes earlier is left, and the metadata of the frame, if they are ahead, are the
\* current ones.
SearchDivides ==
  at = "run" /\ OnList =>
    \A m \in Chain(db, binding.video) :
      IF m \in From(db)[binding.curr]
      THEN Meta(m).frame > frame \/ (Meta(m).frame = frame /\ binding.hasMeta)
      ELSE Meta(m).frame <= frame

\* When the program is between two frames, or has been closed, all it has saved
\* is in the file with its tables: a death there costs nothing.
Flushed ==
  at \in {"next", "idle", "gone"} /\ failed = "nothing" => disk = db /\ ~modified

\* What a start finds of a video in the file.
Stored(v) == IF readable THEN Chain(disk, v) ELSE {}

Kept(m, v) ==
  /\ m \in Stored(v)'
  /\ disk'.metas[m].frame = disk.metas[m].frame
  /\ \A l \in Labels : LET id == disk.maps[disk.metas[m].data][l]
                        IN  id # None => /\ disk'.maps[disk'.metas[m].data][l] = id
                                         /\ disk'.items[id] = disk.items[id]

\* A death while the index tables are overwritten may cost the whole file.
DamagingDeath == modified /\ at' = "off"

\* Saving a frame while a video is parsed costs none of the data that a start finds
\* of earlier frames, and no step costs those of other videos, a death between two
\* saves included: only a death before the flush does (DamagingDeath).
EarlierKept ==
  [][DamagingDeath \/
     \A v \in Videos : \A m \in Stored(v) :
       v # binding.video \/ (disk.metas[m].frame < frame /\ at # "exited") => Kept(m, v)]_vars

\* MoveClosestToFrameData stops where the metadata of a frame "should be inserted
\* right before the current one if it is created": later frames keep theirs.
LaterKept ==
  [][\A m \in Chain(db, binding.video) : Meta(m).frame > frame => m \in Chain(db', binding.video)]_vars

\* Comment of MoveClosestToFrameData: the "medatada of the requested frame is
\* eithere the current one or it should be inserted right befor the current one if
\* it is created", that is, metadata on the list are found, also by a step back.
FoundAgain ==
  at = "run" /\ ~binding.hasMeta /\ OnList =>
    \A m \in Chain(db, binding.video) : Meta(m).frame # frame

\* Comment in SaveFrameData: "Either there is yet no metadata created or the ID of
\* the data stored in the existing metadata is the one returned by
\* SaveFrameParseData()".
DataIdAgrees == failed # "data id"
=============================================================================
