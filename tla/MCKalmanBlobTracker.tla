------------------------ MODULE MCKalmanBlobTracker ------------------------
(* Instances of KalmanBlobTracker for TLC.  A trace is matched from its      *)
(* second node on and becomes a target with its third one.                 *)
EXTENDS KalmanBlobTracker

BothModes == {"blocking", "queued"}
=============================================================================
