------------------------ MODULE MCVideoParserWindow ------------------------
(* Instances of VideoParserWindow for TLC: two runs, so that one thread can *)
(* be starting while another finishes, and both kinds of frame step.  With  *)
(* one frame there are requests for the frame itself, for the numbers       *)
(* before it and past the end, and steps and jumps between all of them.     *)
EXTENDS VideoParserWindow

MCFrameSteps == {1, 2}
=============================================================================
