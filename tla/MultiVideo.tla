----------------------------- MODULE MultiVideo -----------------------------
(***************************************************************************)
(* vpl::MultiVideo (VideoRepresentation/MultiVideo.{h,cpp}), which plays a *)
(* list of videos as one, over the two kinds of video it is used with,     *)
(* CvVideo and ImgSeqVideo.  The caller is the loop of the VideoProcessor: *)
(* Load, the first frame, then the next or a requested one until           *)
(* IsLastFrame.                                                            *)
(*                                                                         *)
(* A file of the list is a record: its kind, how many frames can be read   *)
(* from it, how many its header reports (m_frameCount; OpenCV's number is  *)
(* an estimate for some formats) and its time stamp.  A CvVideo that does  *)
(* not open, or has no first frame, does not load and counts zero frames.  *)
(* Times are in frames.  The captures can seek, so that the slow search of *)
(* CvVideo::ReadFrame is not needed.                                       *)
(***************************************************************************)
EXTENDS Integers, Sequences, FiniteSetsExt

CONSTANTS
  Lists,      \* the lists of files a multi video may name
  Start,      \* Start[f][v]: the frames reported by the files of f before v
  Times,      \* the values of startTime and endTime, NoTime included
  MaxFrame    \* bound: the highest number that is requested

NoTime == -1

Files ==
  [kind : {"cv", "seq"}, frames : Nat, count : Nat, time : Nat]

\* Only a CvVideo can report a number that is not that of its frames.
ASSUME ListAssumption ==
  /\ Lists \subseteq Seq(Files)
  /\ \A f \in Lists : \A v \in 1 .. Len(f) :
       f[v].kind = "seq" \/ f[v].frames = 0 => f[v].count = f[v].frames

ASSUME StartAssumption ==
  \A f \in Lists : f # <<>> =>
    /\ Start[f][1] = 0
    /\ \A v \in 1 .. Len(f) : /\ Start[f][v] \in Nat
                              /\ Start[f][v + 1] = Start[f][v] + f[v].count

ASSUME TimeAssumption == Times \subseteq Nat \cup {NoTime} /\ MaxFrame \in Nat

VARIABLES
  files,        \* the files named by the list that is loaded
  startTime,    \* m_startTime of MultiVideo
  endTime,      \* m_endTime
  from, to,     \* m_vids: the files from .. to are left by FilterVideos
  vidIt,        \* m_vidIt, to + 1 is the end of the list
  inner,        \* m_pVideo: the file it was made for and its frame number
  offset,       \* m_frameOffset
  frameCount,   \* m_frameCount
  metadata,     \* ReadMetadata has filled in the frame counts of m_vids
  at            \* "unloaded", "loaded", "reading", "refused" or "failed"

vars == <<files, startTime, endTime, from, to, vidIt, inner, offset, frameCount, metadata, at>>
list == <<files, startTime, endTime, from, to>>

TypeOK ==
  /\ files \in Lists
  /\ startTime \in Nat \cup {NoTime} /\ endTime \in Nat \cup {NoTime}
  /\ from \in Nat /\ to \in Nat /\ vidIt \in Nat
  /\ inner \in [vid : Nat, number : Nat \cup {-1}]
  /\ offset \in Nat /\ frameCount \in Nat
  /\ metadata \in BOOLEAN
  /\ at \in {"unloaded", "loaded", "reading", "refused", "failed"}
  /\ at \in {"loaded", "reading"} => /\ 1 <= from /\ from <= to /\ to <= Len(files)
                                     /\ vidIt \in from .. to
                                     /\ inner.vid = vidIt

Init ==
  /\ files \in Lists
  /\ startTime \in Times /\ endTime \in Times
  /\ from = 1 /\ to = 0 /\ vidIt = 1
  /\ inner = [vid |-> 0, number |-> -1]
  /\ offset = 0 /\ frameCount = 0
  /\ metadata = FALSE
  /\ at = "unloaded"

-----------------------------------------------------------------------------
(* The videos of the list.  CvVideo::Load reads the first frame, and then   *)
(* ReadFirstFrame finds nothing to do; ImgSeqVideo::Load reads none, and    *)
(* its iterator gets a value with the first read.                           *)

Opened(v) ==
  [vid |-> v, number |-> IF files[v].kind = "cv" /\ files[v].frames > 0 THEN 0 ELSE -1]
First(v) == [vid |-> v, number |-> 0]
Following(i) == [i EXCEPT !.number = @ + 1]

\* The iterator of an ImgSeqVideo stops at the end.
Sought(v, n) ==
  [vid |-> v, number |-> IF files[v].kind = "cv" THEN n ELSE Min({n, files[v].frames})]

\* IsLastFrame of one video: there is no image.
Over(i) == i.number >= files[i.vid].frames

\* Video::TimeToFrame, with the time stamp of file v.
TimeToFrame(v, t) == Max({0, t - files[v].time})

FrameNumber == offset + inner.number

IsLastFrame ==
  /\ vidIt = to
  /\ \/ Over(inner)
     \/ endTime # NoTime /\ inner.number > TimeToFrame(inner.vid, endTime)

\* MultiVideo's frames are counted from startTime in ReadFrame, and from the
\* first video everywhere else.
Skipped == IF startTime = NoTime THEN 0 ELSE TimeToFrame(from, startTime)

\* FilterVideos: files that end before startTime or begin after endTime go.
KeptFrom ==
  IF startTime = NoTime THEN 1
  ELSE Max({1} \cup {v \in 2 .. Len(files) : \A w \in 2 .. v : files[w].time < startTime})
KeptTo(lo) ==
  IF endTime = NoTime THEN Len(files)
  ELSE Max({lo - 1} \cup {v \in lo .. Len(files) : \A w \in lo .. v : files[w].time <= endTime})

\* UpdateFrameCount, for the position given.
CountWith(o, v) == IF frameCount <= o THEN o + files[v].count ELSE frameCount
Total == Start[files][to + 1] - Start[files][from]

-----------------------------------------------------------------------------
\* Load.  When no file is left the message about it is not reached, because
\* the test is about the unfiltered list, and LoadVideo fails.  With no file
\* at all a start time makes FilterVideos step past the end of a list.
Loaded(lo, hi) ==
  IF lo > hi THEN IF files = <<>> /\ startTime = NoTime THEN "refused" ELSE "failed"
  ELSE IF files[lo].kind = "cv" /\ files[lo].frames = 0 THEN "refused" ELSE "loaded"

Load ==
  LET lo == KeptFrom
      hi == KeptTo(lo)
      result == Loaded(lo, hi)
  IN  /\ at # "failed"
      /\ at' = result
      /\ from' = lo /\ to' = hi
      /\ vidIt' = lo
      /\ offset' = 0
      /\ metadata' = FALSE
      /\ inner' = IF result = "loaded" THEN Opened(lo) ELSE inner
      /\ frameCount' = IF result = "loaded" THEN files[lo].count ELSE 0
      /\ UNCHANGED <<files, startTime, endTime>>

Playing == at \in {"loaded", "reading"}

\* Mistake: the offset of the video that is left is kept.
ReadFirstFrameKeeping ==
  /\ Playing
  /\ vidIt' = from
  /\ inner' = First(from)
  /\ UNCHANGED offset
  /\ frameCount' = CountWith(offset, from)
  /\ at' = "reading"
  /\ UNCHANGED <<list, metadata>>

ReadFirstFrame ==
  /\ Playing
  /\ vidIt' = from
  /\ inner' = IF startTime = NoTime THEN First(from) ELSE Sought(from, Skipped)
  /\ offset' = 0
  /\ frameCount' = CountWith(0, from)
  /\ at' = "reading"
  /\ UNCHANGED <<list, metadata>>

\* The first frame of the next video.
Advance(o) ==
  /\ vidIt' = vidIt + 1
  /\ inner' = First(vidIt + 1)
  /\ offset' = o
  /\ frameCount' = CountWith(o, vidIt + 1)

\* Mistakes: the end of a video is shown before the next one begins; after
\* the first frame of a video the next one is read as well.
ReadNextFrameOnce ==
  /\ at = "reading" /\ ~IsLastFrame
  /\ IF Over(inner)
     THEN Advance(offset + files[vidIt].count)
     ELSE inner' = Following(inner) /\ UNCHANGED <<vidIt, offset, frameCount>>
  /\ UNCHANGED <<list, metadata, at>>

ReadNextFrameTwice ==
  /\ at = "reading" /\ ~IsLastFrame
  /\ IF Over(inner) \/ (Over(Following(inner)) /\ vidIt # to)
     THEN /\ vidIt' = vidIt + 1
          /\ inner' = Following(First(vidIt + 1))
          /\ offset' = offset + files[vidIt].count
          /\ frameCount' = CountWith(offset', vidIt + 1)
     ELSE inner' = Following(inner) /\ UNCHANGED <<vidIt, offset, frameCount>>
  /\ UNCHANGED <<list, metadata, at>>

\* ReadNextFrame.  It calls itself when the video ends and is not the last;
\* the second call moves on to the next video, whether or not that has frames.
ReadNextFrame ==
  /\ at = "reading" /\ ~IsLastFrame
  /\ IF Over(inner) \/ (Over(Following(inner)) /\ vidIt # to)
     THEN Advance(offset + files[vidIt].count)
     ELSE inner' = Following(inner) /\ UNCHANGED <<vidIt, offset, frameCount>>
  /\ UNCHANGED <<list, metadata, at>>

\* ReadFrame's search for the video of frame i, from video v at offset o;
\* nothing is found for a frame past the end, and LoadVideo fails.
Search(i, v, o) ==
  LET Offset(w) == o + Start[files][w] - Start[files][v]
      ahead == {w \in v .. to : i < Offset(w + 1)}
      found == IF ahead = {} THEN to + 1 ELSE Min(ahead)
  IN  /\ vidIt' = found
      /\ offset' = Offset(found)
      /\ IF ahead = {}
         THEN at' = "failed" /\ UNCHANGED inner
         ELSE at' = "reading" /\ inner' = Sought(found, i - Offset(found))

\* Mistake: the search never restarts from the beginning.
ReadFrameOnwards(n) ==
  LET i == n + Skipped IN
  /\ at = "loaded" \/ (at = "reading" /\ ~IsLastFrame)
  /\ IF i >= offset /\ i < offset + files[vidIt].count
     THEN /\ inner' = Sought(vidIt, i - offset)
          /\ at' = "reading"
          /\ UNCHANGED <<vidIt, offset, frameCount, metadata>>
     ELSE /\ metadata' = TRUE
          /\ frameCount' = IF metadata THEN frameCount ELSE Total
          /\ Search(i, vidIt, offset)
  /\ UNCHANGED list

ReadFrame(n) ==
  LET i == n + Skipped IN
  /\ at = "loaded" \/ (at = "reading" /\ ~IsLastFrame)
  /\ IF i >= offset /\ i < offset + files[vidIt].count
     THEN /\ inner' = Sought(vidIt, i - offset)
          /\ at' = "reading"
          /\ UNCHANGED <<vidIt, offset, frameCount, metadata>>
     ELSE /\ metadata' = TRUE
          /\ frameCount' = IF metadata THEN frameCount ELSE Total
          /\ IF FrameNumber > i THEN Search(i, from, 0) ELSE Search(i, vidIt, offset)
  /\ UNCHANGED list

Next == Load \/ ReadFirstFrame \/ ReadNextFrame \/ \E n \in 0 .. MaxFrame : ReadFrame(n)

Spec == Init /\ [][Next]_vars

-----------------------------------------------------------------------------
(* Properties.                                                             *)

\* Whatever mixture of next, first and requested frames was read, across
\* videos that are empty, do not load or report a wrong number of frames: the
\* object that reads is the one of the file m_vidIt points to, and
\* m_frameOffset counts exactly the files before it, and the frame count, which
\* is corrected as files are entered or all at once, covers the frame shown.
PositionKept ==
  at = "reading" =>
    /\ inner.vid = vidIt
    /\ offset = Start[files][vidIt] - Start[files][from]
    /\ inner.number < files[vidIt].count => FrameNumber < frameCount

\* What ReadNextFrame may never do, for any list: skip or repeat a frame that
\* can be read.  It moves on by one in a video, and to another one only when
\* the video has no frame left and those in between have none.
NothingSkipped ==
  [][ReadNextFrame =>
       \/ inner'.vid = inner.vid /\ inner'.number = inner.number + 1
       \/ /\ inner'.vid > inner.vid /\ inner'.number = 0
          /\ inner.number + 1 >= files[inner.vid].frames
          /\ \A v \in inner.vid + 1 .. inner'.vid - 1 : files[v].frames = 0]_vars

\* No start or end time, right numbers of frames, and frames in every video.
Plain ==
  /\ startTime = NoTime /\ endTime = NoTime
  /\ \A v \in 1 .. Len(files) : files[v].frames > 0 /\ files[v].count = files[v].frames

V == INSTANCE Video WITH
       length <- Total,
       number <- FrameNumber,
       image <- IF Over(inner) THEN -1
                ELSE Start[files][inner.vid] - Start[files][from] + inner.number,
       last <- IsLastFrame

\* A plain list keeps the promises of a video: its videos are one sequence of
\* frames with no hole at the boundaries, every read is one of Video's, and no
\* frame of the list is out of reach.
VideoContract ==
  [][Plain =>
       /\ at' = "reading" => V!Next
       /\ \A n \in 0 .. MaxFrame : ReadFrame(n) /\ n < Total => at' = "reading"]_vars
=============================================================================
