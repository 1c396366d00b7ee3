---------------------------- MODULE MCMultiVideo ----------------------------
(* Instances of MultiVideo for TLC: every list of up to three videos.        *)
(* CvVideos read up to two frames and may report one more or one less,      *)
(* image sequences may be empty; the videos begin two frames apart.         *)
EXTENDS MultiVideo

MCKinds ==
  [kind : {"cv"}, frames : {0}, count : {0}] \cup [kind : {"cv"}, frames : {1, 2}, count : {1, 2}]
    \cup [kind : {"seq"}, frames : {0}, count : {0}] \cup [kind : {"seq"}, frames : {2}, count : {2}]

MCLists ==
  {[v \in 1 .. Len(f) |-> [kind |-> f[v].kind, frames |-> f[v].frames, count |-> f[v].count,
                           time |-> 2 * v - 1]] :
     f \in UNION {[1 .. n -> MCKinds] : n \in 0 .. 3}}

MCStart ==
  [f \in MCLists |->
     [v \in 1 .. Len(f) + 1 |-> MapThenSumSet(LAMBDA w : f[w].count, 1 .. v - 1)]]

MCTimes == {-1, 2, 4}
=============================================================================
