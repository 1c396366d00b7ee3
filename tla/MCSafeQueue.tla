---------------------------- MODULE MCSafeQueue ----------------------------
(* An instance of SafeQueue for TLC: four slots, so that the indices wrap   *)
(* with the queue empty, partly filled and full, and two elements, so that  *)
(* delivering the wrong one shows.                                          *)
EXTENDS SafeQueue

CONSTANTS a, b

MCElem == {a, b}
=============================================================================
