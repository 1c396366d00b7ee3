------------------------- MODULE MCVideoDataBinder -------------------------
(* Instances of VideoDataBinder for TLC.                                    *)
EXTENDS VideoDataBinder

CONSTANTS film, clip

MCVideos == {film, clip}
=============================================================================
