------------------------------- MODULE Video -------------------------------
(***************************************************************************)
(* What vpl::Video (VideoRepresentation/Video.h) promises to the loop of   *)
(* the VideoProcessor, whatever kind of video is behind it: the frames     *)
(* have the numbers 0 .. length - 1, reading one makes it the current one, *)
(* "so that a following ReadNextFrame() operation returns the frame        *)
(* i + 1", and IsLastFrame is true one past the last frame.                *)
(***************************************************************************)
EXTENDS Integers

VARIABLES
  length,   \* the number of frames
  number,   \* FrameNumber
  image,    \* the frame that is shown, None when there is none
  last      \* IsLastFrame

None == -1

Reads(n) ==
  /\ number' = n
  /\ image' = IF n < length THEN n ELSE None
  /\ last' = (n >= length)
  /\ UNCHANGED length

ReadFirstFrame == Reads(0)
ReadNextFrame == ~last /\ Reads(number + 1)
ReadFrame == \E n \in 0 .. length - 1 : Reads(n)

Next == ReadFirstFrame \/ ReadNextFrame \/ ReadFrame
=============================================================================
