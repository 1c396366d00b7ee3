----------------------- MODULE KalmanBlobTrackerProofs -----------------------
(***************************************************************************)
(* Proofs about KalmanBlobTracker, for any number of blobs, frames, videos, *)
(* sessions and faults, and any of the times that are compared.             *)
(***************************************************************************)
EXTENDS KalmanBlobTracker, MinMaxLemmas, FiniteSetTheorems, SequenceTheorems, TLAPS

-----------------------------------------------------------------------------
\* A set of ids is finite.
LEMMA SizeOfIds ==
  ASSUME NEW n \in Nat, NEW S \in SUBSET (1 .. n)
  PROVE  IsFiniteSet(S) /\ Cardinality(S) \in Nat
<1>1. IsFiniteSet(1 .. n)
  BY FS_Interval
<1>2. IsFiniteSet(S)
  BY <1>1, FS_Subset
<1>3. QED
  BY <1>2, FS_CardinalityType

-----------------------------------------------------------------------------
(* Frames.                                                                 *)

\* What a frame leaves alone: the traces that were there are longer at most, and
\* remain matched; what is known to be saved remains so.
Grown ==
  /\ made' \in Seq(Traces) /\ Len(made) <= Len(made')
  /\ \A t \in Ids :
       /\ made'[t].inDB = made[t].inDB /\ made'[t].saved = made[t].saved
       /\ made'[t].length >= made[t].length
       /\ made[t].matched => made'[t].matched
  /\ \A t \in Ids' \ Ids : ~made'[t].inDB /\ made'[t].saved = 0
  /\ \A t \in Ids' : made'[t].saved <= made'[t].length

LEMMA LongerFacts ==
  ASSUME NEW r \in Traces, NEW f \in Nat
  PROVE  /\ Longer(Later(r, f)) \in Traces
         /\ Longer(Later(r, f)).inDB = r.inDB
         /\ Longer(Later(r, f)).saved = r.saved
         /\ Longer(Later(r, f)).matched = r.matched
         /\ Longer(Later(r, f)).length = r.length + 1
<1>1. Later(r, f) \in Traces
  BY DEF Traces, Later
<1>2. \A q \in Traces :
         /\ Longer(q) \in Traces /\ Longer(q).length = q.length + 1
         /\ Longer(q).inDB = q.inDB /\ Longer(q).saved = q.saved /\ Longer(q).matched = q.matched
  BY DEF Traces, Longer
<1>3. Later(r, f).inDB = r.inDB /\ Later(r, f).saved = r.saved /\ Later(r, f).matched = r.matched
       /\ Later(r, f).length = r.length
  BY DEF Traces, Later
<1>4. QED
  BY <1>1, <1>2, <1>3

\* What match_connected_components_with_traces leaves of the traces that were there.
BlobsMatched(m, blobs) ==
  /\ m \in Seq(Traces) /\ Len(m) = Len(made) + blobs /\ DOMAIN m = 1 .. Len(m)
  /\ \A t \in Ids :
       /\ m[t].inDB = made[t].inDB /\ m[t].saved = made[t].saved
       /\ m[t].length >= made[t].length
       /\ m[t].matched = made[t].matched
  /\ \A t \in DOMAIN m \ Ids : ~m[t].inDB /\ m[t].saved = 0 /\ ~m[t].matched
  /\ \A t \in DOMAIN m : m[t].saved <= m[t].length

LEMMA MatchBlobsFacts ==
  ASSUME TypeOK, NEW f \in Nat, NEW extended \in SUBSET Ids, NEW blobs \in Nat
  PROVE  BlobsMatched(MatchBlobs(f, extended, blobs), blobs)
<1>. DEFINE m == MatchBlobs(f, extended, blobs)
<1>0. Len(made) \in Nat /\ made \in [Ids -> Traces]
  BY LenProperties DEF TypeOK, Ids
<1>1. NewTrace(f) \in Traces
  BY DEF NewTrace, Traces
<1>2. \A t \in Ids : Longer(Later(made[t], f)) \in Traces
  BY <1>0, LongerFacts
<1>3. m \in [1 .. Len(made) + blobs -> Traces]
  <2>1. \A t \in 1 .. Len(made) + blobs : m[t] \in Traces
    BY <1>0, <1>1, <1>2 DEF MatchBlobs
  <2>2. m = [t \in 1 .. Len(made) + blobs |-> m[t]]
    BY DEF MatchBlobs
  <2>3. QED
    BY <2>1, <2>2
<1>4. m \in Seq(Traces) /\ Len(m) = Len(made) + blobs /\ DOMAIN m = 1 .. Len(m)
  <2>1. m \in Seq(Traces)
    BY <1>0, <1>3, SeqDef
  <2>2. DOMAIN m = 1 .. Len(m) /\ Len(m) \in Nat
    BY <2>1, LenProperties
  <2>3. QED
    BY <1>0, <1>3, <2>1, <2>2
<1>5. \A t \in Ids :
        m[t] = IF t \in extended THEN Longer(Later(made[t], f)) ELSE made[t]
  BY <1>0 DEF MatchBlobs, Ids
<1>6. \A t \in DOMAIN m \ Ids : m[t] = NewTrace(f)
  BY <1>0, <1>3 DEF MatchBlobs
<1>. HIDE DEF m
<1>7. \A t \in Ids : made[t].saved <= made[t].length
  BY DEF TypeOK
<1>8. \A t \in Ids :
         /\ m[t].inDB = made[t].inDB /\ m[t].saved = made[t].saved
         /\ m[t].length >= made[t].length
         /\ m[t].matched = made[t].matched
  <2>. TAKE t \in Ids
  <2>1. made[t] \in Traces
    BY <1>0
  <2>2. CASE t \in extended
    <3>1. m[t] = Longer(Later(made[t], f))
      BY <2>2, <1>5
    <3>2. /\ m[t].inDB = made[t].inDB /\ m[t].saved = made[t].saved
          /\ m[t].matched = made[t].matched /\ m[t].length = made[t].length + 1
      BY <2>1, <3>1, LongerFacts
    <3>3. made[t].length \in Int
      BY <2>1 DEF Traces
    <3>4. QED
      BY <3>2, <3>3
  <2>3. CASE t \notin extended
    BY <2>1, <2>3, <1>5 DEF Traces
  <2>4. QED
    BY <2>2, <2>3
<1>9. \A t \in DOMAIN m \ Ids : ~m[t].inDB /\ m[t].saved = 0 /\ ~m[t].matched /\ m[t].length = 1
  BY <1>6 DEF NewTrace
<1>10. \A t \in DOMAIN m : m[t].saved <= m[t].length
  <2>. TAKE t \in DOMAIN m
  <2>1. CASE t \in Ids
    <3>1. m[t] \in Traces /\ made[t] \in Traces
      BY <1>0, <1>3, <2>1
    <3>2. QED
      BY <3>1, <2>1, <1>7, <1>8 DEF Traces
  <2>2. CASE t \notin Ids
    BY <2>2, <1>9
  <2>3. QED
    BY <2>1, <2>2
<1>11. QED
  BY <1>4, <1>8, <1>9, <1>10 DEF BlobsMatched, m

\* The last trace of a target is one of its traces.
LastIn == \A g \in DOMAIN targets : targets[g].last \in targets[g].traces

\* What a frame does to the targets: those that are left keep their traces, and
\* what is known to be saved; new numbers are larger than the old ones.
TargetsGrown ==
  /\ targetCount' \in Nat /\ targetCount <= targetCount'
  /\ DOMAIN targets' \subseteq 1 .. targetCount'
  /\ targets' \in [DOMAIN targets' -> Targets']
  /\ LastIn' /\ OneTarget'
  /\ \A g \in DOMAIN targets' :
       \/ /\ g \in DOMAIN targets
          /\ targets[g].traces \subseteq targets'[g].traces
          /\ targets'[g].inDB = targets[g].inDB
       \/ g > targetCount /\ ~targets'[g].inDB

TargetsUpTo(n) == [traces : SUBSET (1 .. n), first : 1 .. n, last : 1 .. n, inDB : BOOLEAN]

LEMMA AddTracesFacts ==
  ASSUME NEW n \in Nat, NEW new \in SUBSET (1 .. n),
         NEW target \in TargetsUpTo(n),
         target.last \in target.traces
  PROVE  /\ AddTraces(target, new)
              \in TargetsUpTo(n)
         /\ AddTraces(target, new).traces = target.traces \cup new
         /\ AddTraces(target, new).last \in AddTraces(target, new).traces
         /\ AddTraces(target, new).inDB = target.inDB
<1>1. CASE new = {}
  BY <1>1 DEF AddTraces
<1>2. CASE new # {}
  <2>1. Max(new) \in new
    <3>1. new \in SUBSET Nat /\ \A t \in new : t <= n
      OBVIOUS
    <3>2. QED
      BY <1>2, <3>1, MaxIn
  <2>. DEFINE more == [target EXCEPT !.traces = @ \cup new]
  <2>2. /\ more \in TargetsUpTo(n)
        /\ more.traces = target.traces \cup new /\ more.inDB = target.inDB
    BY DEF TargetsUpTo
  <2>3. AddTraces(target, new) = [more EXCEPT !.last = Max(new)]
    BY <1>2, Zenon DEF AddTraces
  <2>. HIDE DEF more
  <2>4. QED
    BY <2>1, <2>2, <2>3 DEF TargetsUpTo
<1>3. QED
  BY <1>1, <1>2

LEMMA MatchTargetsFacts ==
  ASSUME TypeOK, LastIn, OneTarget, NEW f \in Nat,
         NEW m \in Seq(Traces), NEW current \in SUBSET (1 .. Len(m)),
         DOMAIN m = 1 .. Len(m), Len(m) >= Len(made),
         \A t \in Ids :
           /\ m[t].inDB = made[t].inDB /\ m[t].saved = made[t].saved
           /\ m[t].length >= made[t].length
           /\ m[t].matched = made[t].matched,
         \A t \in DOMAIN m \ Ids : ~m[t].inDB /\ m[t].saved = 0,
         \A t \in DOMAIN m : m[t].saved <= m[t].length,
         NEW left, left = TargetsLeft(f),
         NEW toMatch, toMatch = TracesToMatch(m, current),
         NEW to \in [toMatch -> TargetsToMatch(m, left, f) \cup {None}],
         MatchTargets(m, left, toMatch, to)
  PROVE  Grown /\ TargetsGrown /\ Len(made') = Len(m)
<1>. DEFINE novel == NovelTraces(m, toMatch, to)
            Kept(g) == {t \in toMatch : to[t] = g}
<1>0. /\ Len(made) \in Nat /\ Len(m) \in Nat /\ targetCount \in Nat
      /\ m \in [1 .. Len(m) -> Traces] /\ made \in [Ids -> Traces]
  BY LenProperties DEF TypeOK, Ids
<1>1. toMatch \subseteq 1 .. Len(m) /\ \A t \in toMatch : ~m[t].matched
  BY DEF TracesToMatch
<1>2. novel \subseteq toMatch /\ \A t \in novel : to[t] = None
  BY DEF NovelTraces
<1>3. Cardinality(novel) \in Nat
  BY <1>0, <1>1, <1>2, SizeOfIds
<1>4. DOMAIN left = {h \in DOMAIN targets : ~Expired(h, f)} /\ \A g \in DOMAIN left : left[g] = targets[g]
  BY DEF TargetsLeft
<1>5. made' = [t \in DOMAIN m |->
                 [m[t] EXCEPT !.matched = @ \/ t \in novel \/ (t \in toMatch /\ to[t] # None)]]
  BY DEF MatchTargets
<1>6. PICK which \in InOrder(novel) :
        targets' = [g \in DOMAIN left \cup NewIds(novel) |->
                      IF g \in DOMAIN left THEN AddTraces(left[g], Kept(g)) ELSE NewTarget(which[g])]
  BY DEF MatchTargets
<1>7. targetCount' = targetCount + Cardinality(novel)
  BY DEF MatchTargets
<1>8. NewIds(novel) = targetCount + 1 .. targetCount'
  BY <1>7 DEF NewIds
<1>9. /\ which \in [NewIds(novel) -> novel]
      /\ \A g, h \in NewIds(novel) : g < h => which[g] < which[h]
  BY DEF InOrder
<1>. HIDE DEF novel, Kept
<1>10. /\ made' \in [1 .. Len(m) -> Traces]
       /\ \A t \in 1 .. Len(m) :
            /\ made'[t].inDB = m[t].inDB /\ made'[t].saved = m[t].saved
            /\ made'[t].length = m[t].length
            /\ made'[t].matched <=> m[t].matched \/ t \in novel \/ (t \in toMatch /\ to[t] # None)
  BY <1>0, <1>5 DEF Traces
<1>11. made' \in Seq(Traces) /\ Len(made') = Len(m)
  <2>1. made' \in Seq(Traces)
    BY <1>0, <1>10, SeqDef
  <2>2. QED
    BY <1>0, <1>10, <2>1, LenProperties
<1>12. Grown
  <2>1. Ids \subseteq 1 .. Len(m) /\ Ids' = 1 .. Len(m)
    BY <1>0, <1>11 DEF Ids
  <2>2. QED
    BY <1>0, <1>10, <1>11, <2>1 DEF Grown
<1>13. \A g \in DOMAIN left : Kept(g) \in SUBSET (1 .. Len(m))
  BY <1>1 DEF Kept
<1>14. \A g \in DOMAIN left :
         left[g] \in TargetsUpTo(Len(m))
  BY <1>0, <1>4 DEF TypeOK, Targets, Ids, TargetsUpTo
<1>15. \A g \in DOMAIN left :
         /\ targets'[g] \in TargetsUpTo(Len(m))
         /\ targets'[g].traces = targets[g].traces \cup Kept(g)
         /\ targets'[g].last \in targets'[g].traces
         /\ targets'[g].inDB = targets[g].inDB
  <2>. TAKE g \in DOMAIN left
  <2>1. targets'[g] = AddTraces(left[g], Kept(g))
    BY <1>6
  <2>2. left[g].last \in left[g].traces
    BY <1>4 DEF LastIn
  <2>3. Kept(g) \in SUBSET (1 .. Len(m)) /\ left[g] \in TargetsUpTo(Len(m)) /\ Len(m) \in Nat
    BY <1>0, <1>13, <1>14
  <2>4. left[g] = targets[g]
    BY <1>4
  <2>5. /\ AddTraces(left[g], Kept(g)) \in TargetsUpTo(Len(m))
        /\ AddTraces(left[g], Kept(g)).traces = left[g].traces \cup Kept(g)
        /\ AddTraces(left[g], Kept(g)).last \in AddTraces(left[g], Kept(g)).traces
        /\ AddTraces(left[g], Kept(g)).inDB = left[g].inDB
    BY <2>2, <2>3, AddTracesFacts
  <2>6. QED
    BY <2>1, <2>4, <2>5
<1>16. \A g \in NewIds(novel) : g \notin DOMAIN left /\ g > targetCount
  BY <1>0, <1>4, <1>8 DEF TypeOK
<1>17. \A g \in NewIds(novel) : targets'[g] = NewTarget(which[g]) /\ which[g] \in novel
  BY <1>6, <1>9, <1>16
<1>18. \A g \in NewIds(novel) :
         /\ targets'[g] \in TargetsUpTo(Len(m))
         /\ targets'[g].traces = {which[g]}
         /\ targets'[g].last \in targets'[g].traces
         /\ ~targets'[g].inDB
  <2>. TAKE g \in NewIds(novel)
  <2>1. which[g] \in 1 .. Len(m)
    BY <1>1, <1>2, <1>17
  <2>2. targets'[g] = NewTarget(which[g])
    BY <1>17
  <2>3. \A t \in 1 .. Len(m) :
          /\ NewTarget(t) \in TargetsUpTo(Len(m))
          /\ NewTarget(t).traces = {t} /\ NewTarget(t).last \in NewTarget(t).traces
          /\ ~NewTarget(t).inDB
    BY DEF NewTarget, TargetsUpTo
  <2>4. QED
    BY <2>1, <2>2, <2>3, Zenon
<1>19. DOMAIN targets' = DOMAIN left \cup NewIds(novel)
  BY <1>6
<1>20. targets' \in [DOMAIN targets' -> Targets']
  <2>1. \A g \in DOMAIN targets' : targets'[g] \in Targets'
    BY <1>11, <1>15, <1>18, <1>19 DEF Targets, Ids, TargetsUpTo
  <2>2. targets' = [g \in DOMAIN targets' |-> targets'[g]]
    BY <1>6
  <2>3. QED
    BY <2>1, <2>2
<1>21. OneTarget'
  <2>1. \A g \in DOMAIN left : g # None /\ g \in DOMAIN targets
    BY <1>4 DEF TypeOK, None
  <2>2. \A g \in DOMAIN left : \A t \in targets[g].traces : t \in Ids /\ m[t].matched /\ t \notin toMatch
    BY <1>0, <1>1, <2>1 DEF OneTarget, TypeOK, Targets
  <2>3. \A g \in DOMAIN targets' : \A t \in targets'[g].traces : made'[t].matched
    <3>1. \A g \in DOMAIN left : \A t \in targets'[g].traces : made'[t].matched
      <4>. SUFFICES ASSUME NEW g \in DOMAIN left, NEW t \in targets'[g].traces
                    PROVE  made'[t].matched
        OBVIOUS
      <4>1. CASE t \in targets[g].traces
        <5>1. t \in 1 .. Len(m) /\ m[t].matched
          BY <1>0, <2>2, <4>1 DEF Ids
        <5>2. QED
          BY <5>1, <1>10
      <4>2. CASE t \in Kept(g)
        BY <1>1, <1>10, <2>1, <4>2 DEF Kept
      <4>3. QED
        BY <1>15, <4>1, <4>2
    <3>2. \A g \in NewIds(novel) : \A t \in targets'[g].traces : made'[t].matched
      BY <1>1, <1>2, <1>10, <1>17, <1>18
    <3>3. QED
      BY <1>19, <3>1, <3>2
  <2>4. ASSUME NEW g \in DOMAIN left, NEW h \in DOMAIN left, g # h
        PROVE  targets'[g].traces \cap targets'[h].traces = {}
    <3>1. targets[g].traces \cap targets[h].traces = {}
      BY <2>1, <2>4 DEF OneTarget
    <3>2. Kept(g) \cap Kept(h) = {} /\ Kept(g) \subseteq toMatch /\ Kept(h) \subseteq toMatch
      BY <2>4 DEF Kept
    <3>3. QED
      BY <1>15, <2>2, <3>1, <3>2
  <2>5. ASSUME NEW g \in DOMAIN left, NEW h \in NewIds(novel)
        PROVE  targets'[g].traces \cap targets'[h].traces = {}
    <3>1. which[h] \in toMatch /\ to[which[h]] = None
      BY <1>2, <1>17
    <3>2. which[h] \notin Kept(g) /\ which[h] \notin targets[g].traces
      BY <2>1, <2>2, <3>1 DEF Kept
    <3>3. QED
      BY <1>15, <1>18, <3>2
  <2>6. ASSUME NEW g \in NewIds(novel), NEW h \in NewIds(novel), g # h
        PROVE  targets'[g].traces \cap targets'[h].traces = {}
    <3>1. which[g] \in Int /\ which[h] \in Int /\ g \in Int /\ h \in Int
      <4>1. which[g] \in 1 .. Len(m) /\ which[h] \in 1 .. Len(m)
        BY <1>1, <1>2, <1>17
      <4>2. NewIds(novel) \subseteq Int
        BY <1>8
      <4>3. QED
        BY <4>1, <4>2
    <3>2. which[g] # which[h]
      BY <1>9, <2>6, <3>1
    <3>3. QED
      BY <1>18, <3>2
  <2>7. QED
    BY <1>19, <2>3, <2>4, <2>5, <2>6 DEF OneTarget
<1>22. LastIn'
  BY <1>15, <1>18, <1>19 DEF LastIn
<1>23. targetCount' \in Nat /\ targetCount <= targetCount' /\ DOMAIN targets' \subseteq 1 .. targetCount'
  BY <1>0, <1>3, <1>4, <1>7, <1>8, <1>19 DEF TypeOK
<1>24. \A g \in DOMAIN targets' :
         \/ /\ g \in DOMAIN targets
            /\ targets[g].traces \subseteq targets'[g].traces
            /\ targets'[g].inDB = targets[g].inDB
         \/ g > targetCount /\ ~targets'[g].inDB
  BY <1>4, <1>15, <1>16, <1>18, <1>19
<1>25. QED
  BY <1>11, <1>12, <1>20, <1>21, <1>22, <1>23, <1>24 DEF TargetsGrown

\* Nothing is left to save between two frames.
Idle == at \in {"new", "play", "ended"} => saving = {}

LEMMA RunOnFacts ==
  ASSUME TypeOK, LastIn, OneTarget, NEW f \in Nat,
         NEW extended \in SUBSET TracesLeft(f), NEW blobs \in Nat, RunOn(f, extended, blobs)
  PROVE  Grown /\ TargetsGrown /\ traces' \subseteq Ids' /\ faults' \in Nat
<1>. DEFINE m == MatchBlobs(f, extended, blobs)
            current == extended \cup (DOMAIN m \ Ids)
            left == TargetsLeft(f)
            toMatch == TracesToMatch(m, current)
<1>1. PICK to \in [toMatch -> TargetsToMatch(m, left, f) \cup {None}] :
        /\ faults' = IF Irregular(f, toMatch, to) THEN faults + 1 ELSE faults
        /\ traces' = current
        /\ MatchTargets(m, left, toMatch, to)
  BY DEF RunOn
<1>2. extended \in SUBSET Ids
  BY DEF TracesLeft, TypeOK
<1>3. Len(made) \in Nat
  BY LenProperties DEF TypeOK
<1>4. BlobsMatched(m, blobs)
  BY <1>2, MatchBlobsFacts
<1>. HIDE DEF m
<1>5. current \in SUBSET (1 .. Len(m)) /\ Len(m) >= Len(made)
  <2>1. Len(m) = Len(made) + blobs /\ DOMAIN m = 1 .. Len(m)
    BY <1>4 DEF BlobsMatched
  <2>2. Ids \subseteq 1 .. Len(m) /\ Len(m) >= Len(made)
    BY <1>3, <2>1 DEF Ids
  <2>3. QED
    BY <1>2, <2>1, <2>2
<1>. HIDE DEF current, left, toMatch
<1>6. left = TargetsLeft(f) /\ toMatch = TracesToMatch(m, current)
  BY DEF left, toMatch
<1>7. Grown /\ TargetsGrown /\ Len(made') = Len(m)
  BY <1>1, <1>4, <1>5, <1>6, MatchTargetsFacts DEF BlobsMatched
<1>8. faults' \in Nat
  BY <1>1 DEF TypeOK
<1>9. QED
  BY <1>1, <1>5, <1>7, <1>8 DEF Ids

LEMMA RunDarkFacts ==
  ASSUME TypeOK, LastIn, OneTarget, NEW f \in Nat, RunDark(f)
  PROVE  Grown /\ TargetsGrown /\ traces' \subseteq Ids' /\ faults' \in Nat
<1>1. /\ made' = made /\ targetCount' = targetCount /\ faults' = faults + 1
      /\ targets' = TargetsLeft(f) /\ traces' \subseteq traces
  BY DEF RunDark, TracesLeft
<1>2. /\ targets' \in [DOMAIN targets' -> Targets] /\ DOMAIN targets' \subseteq DOMAIN targets
      /\ \A g \in DOMAIN targets' : targets'[g] = targets[g]
  BY <1>1 DEF TargetsLeft, TypeOK
<1>3. Grown
  <2>1. Len(made) \in Nat /\ made \in [Ids -> Traces]
    BY LenProperties DEF TypeOK, Ids
  <2>2. \A t \in Ids : made[t].length \in Int
    BY <2>1 DEF Traces
  <2>3. QED
    BY <1>1, <2>1, <2>2 DEF Grown, TypeOK, Ids
<1>4. Targets' = Targets /\ Ids' = Ids
  BY <1>1 DEF Targets, Ids
<1>5. TargetsGrown
  BY <1>1, <1>2, <1>4 DEF TargetsGrown, TypeOK, LastIn, OneTarget
<1>6. QED
  BY <1>1, <1>3, <1>4, <1>5 DEF TypeOK

LEMMA RunFacts ==
  ASSUME TypeOK, Idle, LastIn, OneTarget, Run
  PROVE  /\ Grown /\ TargetsGrown /\ traces' \subseteq Ids'
         /\ faults' \in Nat /\ frame' \in Nat /\ processed' \in Nat
         /\ UNCHANGED <<database, video>>
         /\ \/ at' = "play" /\ saving' = {}
            \/ at' = "select" /\ session = None /\ saving' = DOMAIN targets'
            \/ at' = "save" /\ session # None /\ saving' = DOMAIN targets'
<1>1. PICK f \in 0 .. LastFrame :
        /\ frame' = f
        /\ \/ RunDark(f)
           \/ \E extended \in SUBSET TracesLeft(f) :
                \E blobs \in 0 .. MaxBlobs - Cardinality(extended) : RunOn(f, extended, blobs)
  BY DEF Run
<1>2. f \in Nat
  BY TrackerAssumption
<1>3. at = "play" /\ video' = video /\ processed' \in Nat
  BY DEF Run, TypeOK
<1>4. CASE RunDark(f)
  <2>1. at' = "play" /\ saving' = {} /\ UNCHANGED database
    BY <1>3, <1>4 DEF RunDark, Idle
  <2>2. QED
    BY <1>1, <1>2, <1>3, <1>4, <2>1, RunDarkFacts
<1>5. ASSUME NEW extended \in SUBSET TracesLeft(f),
             NEW blobs \in 0 .. MaxBlobs - Cardinality(extended), RunOn(f, extended, blobs)
      PROVE  /\ Grown /\ TargetsGrown /\ traces' \subseteq Ids' /\ faults' \in Nat
             /\ UNCHANGED database
             /\ at' = (IF session = None THEN "select" ELSE "save")
             /\ saving' = DOMAIN targets'
  <2>1. extended \subseteq 1 .. Len(made) /\ Len(made) \in Nat
    BY LenProperties DEF TracesLeft, TypeOK, Ids
  <2>2. Cardinality(extended) \in Nat
    BY <2>1, SizeOfIds
  <2>3. blobs \in Nat
    BY <2>2, TrackerAssumption
  <2>4. /\ UNCHANGED database
        /\ at' = (IF session = None THEN "select" ELSE "save")
        /\ saving' = DOMAIN targets'
    BY <1>5 DEF RunOn
  <2>5. QED
    BY <1>2, <1>5, <2>3, <2>4, RunOnFacts
<1>6. QED
  BY <1>1, <1>2, <1>3, <1>4, <1>5

-----------------------------------------------------------------------------
(* The database.                                                           *)

Tables ==
  [session : SUBSET [session : Nat, of : Nat], ended : SUBSET Nat,
   target  : SUBSET [session : Nat, target : Nat, of : Nat],
   trace   : SUBSET [session : Nat, trace : Nat, target : Nat, of : Nat],
   node    : SUBSET [session : Nat, trace : Nat, node : Nat, of : Nat]]

\* The numbers of sessions have a largest one.
DBType == db \in Tables /\ \E k \in Nat : \A n \in Numbers : n <= k

LEMMA LargestFacts ==
  ASSUME DBType
  PROVE  Largest \in Nat /\ \A n \in Numbers : n <= Largest
<1>1. PICK k \in Nat : \A n \in Numbers : n <= k
  BY DEF DBType
<1>2. Numbers \cup {0} \in SUBSET Nat /\ Numbers \cup {0} # {}
  BY DEF DBType, Tables, Numbers
<1>3. \A n \in Numbers \cup {0} : n <= k
  BY <1>1
<1>4. Max(Numbers \cup {0}) \in Numbers \cup {0} /\ \A n \in Numbers \cup {0} : n <= Max(Numbers \cup {0})
  BY <1>1, <1>2, <1>3, MaxIn
<1>5. QED
  BY <1>2, <1>4 DEF Largest

LEMMA StatementFacts ==
  ASSUME db \in Tables, session \in Nat, NEW n \in Nat, NEW g \in Nat, NEW v \in Nat
  PROVE  /\ WithSession(n, v) \in Tables /\ WithEnd \in Tables /\ WithTarget(n, v) \in Tables
         /\ WithTrace(n, g, v) \in Tables /\ WithNode(n, g, v) \in Tables
         /\ WithSession(n, v).session = db.session \cup {[session |-> n, of |-> v]}
         /\ WithTarget(n, v).target = db.target \cup {[session |-> session, target |-> n, of |-> v]}
         /\ WithTrace(n, g, v).trace =
              db.trace \cup {[session |-> session, trace |-> n, target |-> g, of |-> v]}
         /\ WithNode(n, g, v).node =
              db.node \cup {[session |-> session, trace |-> g, node |-> n, of |-> v]}
<1>1. WithSession(n, v) \in Tables /\ WithSession(n, v).session = db.session \cup {[session |-> n, of |-> v]}
  BY DEF WithSession, Tables
<1>2. WithEnd \in Tables
  BY DEF WithEnd, Tables
<1>3. /\ WithTarget(n, v) \in Tables
      /\ WithTarget(n, v).target = db.target \cup {[session |-> session, target |-> n, of |-> v]}
  BY DEF WithTarget, Tables
<1>4. /\ WithTrace(n, g, v) \in Tables
      /\ WithTrace(n, g, v).trace =
           db.trace \cup {[session |-> session, trace |-> n, target |-> g, of |-> v]}
  BY DEF WithTrace, Tables
<1>5. /\ WithNode(n, g, v) \in Tables
      /\ WithNode(n, g, v).node =
           db.node \cup {[session |-> session, trace |-> g, node |-> n, of |-> v]}
  BY DEF WithNode, Tables
<1>6. QED
  BY <1>1, <1>2, <1>3, <1>4, <1>5

\* Each statement changes one table.
LEMMA OtherTables ==
  ASSUME db \in Tables, session \in Nat, NEW n \in Nat, NEW g \in Nat, NEW v \in Nat
  PROVE  /\ WithSession(n, v).target = db.target /\ WithSession(n, v).trace = db.trace
         /\ WithSession(n, v).node = db.node
         /\ WithEnd.session = db.session /\ WithEnd.target = db.target
         /\ WithEnd.trace = db.trace /\ WithEnd.node = db.node
         /\ WithTarget(n, v).session = db.session /\ WithTarget(n, v).trace = db.trace
         /\ WithTarget(n, v).node = db.node
         /\ WithTrace(n, g, v).session = db.session /\ WithTrace(n, g, v).target = db.target
         /\ WithTrace(n, g, v).node = db.node
         /\ WithNode(n, g, v).session = db.session /\ WithNode(n, g, v).target = db.target
         /\ WithNode(n, g, v).trace = db.trace
<1>1. /\ WithSession(n, v).target = db.target /\ WithSession(n, v).trace = db.trace
      /\ WithSession(n, v).node = db.node
  BY DEF WithSession, Tables
<1>2. /\ WithEnd.session = db.session /\ WithEnd.target = db.target
      /\ WithEnd.trace = db.trace /\ WithEnd.node = db.node
  BY DEF WithEnd, Tables
<1>3. /\ WithTarget(n, v).session = db.session /\ WithTarget(n, v).trace = db.trace
      /\ WithTarget(n, v).node = db.node
  BY DEF WithTarget, Tables
<1>4. /\ WithTrace(n, g, v).session = db.session /\ WithTrace(n, g, v).target = db.target
      /\ WithTrace(n, g, v).node = db.node
  BY DEF WithTrace, Tables
<1>5. /\ WithNode(n, g, v).session = db.session /\ WithNode(n, g, v).target = db.target
      /\ WithNode(n, g, v).trace = db.trace
  BY DEF WithNode, Tables
<1>6. QED
  BY <1>1, <1>2, <1>3, <1>4, <1>5

\* A session that is written leaves a largest number.
LEMMA SessionsBounded ==
  ASSUME DBType, session \in Nat, NEW n \in Nat, NEW v \in Nat, db' = WithSession(n, v)
  PROVE  DBType' /\ Numbers' = Numbers \cup {n}
<1>1. db' \in Tables /\ db'.session = db.session \cup {[session |-> n, of |-> v]}
  BY StatementFacts DEF DBType
<1>2. Numbers' = Numbers \cup {n}
  <2>. DEFINE row == [session |-> n, of |-> v]
  <2>1. row.session = n
    OBVIOUS
  <2>2. db'.session = db.session \cup {row}
    BY <1>1
  <2>. HIDE DEF row
  <2>3. Numbers' = {r.session : r \in db'.session}
    BY DEF Numbers
  <2>4. \A i \in Numbers' : i \in Numbers \cup {n}
    BY <2>1, <2>2, <2>3 DEF Numbers
  <2>5. \A i \in Numbers \cup {n} : i \in Numbers'
    BY <2>1, <2>2, <2>3 DEF Numbers
  <2>6. QED
    BY <2>4, <2>5
<1>3. PICK k \in Nat : \A i \in Numbers : i <= k
  BY DEF DBType
<1>4. Numbers \subseteq Nat
  BY DEF DBType, Tables, Numbers
<1>5. k + n \in Nat /\ \A i \in Numbers' : i <= k + n
  BY <1>2, <1>3, <1>4
<1>6. QED
  BY <1>1, <1>2, <1>5 DEF DBType

\* A statement that writes another table leaves the sessions alone.
LEMMA SessionsKept ==
  ASSUME DBType, db' \in Tables, db'.session = db.session
  PROVE  DBType'
  BY DEF DBType, Numbers

\* The ways a statement can end.
LEMMA ExecuteFacts ==
  ASSUME NEW d, NEW ok \in BOOLEAN, Execute(d, ok), TypeOK
  PROVE  /\ faults' \in Nat
         /\ connection' \in Modes \cup {"dead"}
         /\ \/ db' = d /\ ok /\ connection' = connection /\ connection # "dead"
            \/ db' = db /\ ~ok /\ connection' = connection
            \/ db' = db /\ connection' = "dead"
  BY ModesAssumption DEF Execute, Succeeds, Fails, Ignored, TypeOK

-----------------------------------------------------------------------------
(* Type correctness, and one target for a trace.                           *)

MemoryInv == TypeOK /\ Idle /\ LastIn /\ OneTarget /\ DBType

LEMMA InitMemory == Init => MemoryInv
<1>. SUFFICES ASSUME Init PROVE MemoryInv
  OBVIOUS
<1>1. made = <<>> /\ <<>> \in Seq(Traces) /\ Len(made) = 0
  BY EmptySeq DEF Init
<1>2. targets \in [DOMAIN targets -> Targets] /\ DOMAIN targets = {}
  BY DEF Init
<1>3. db \in Tables /\ Numbers = {}
  BY DEF Init, EmptyDB, Tables, Numbers
<1>4. TypeOK
  BY <1>1, <1>2 DEF Init, TypeOK, Ids, None
<1>5. Idle /\ LastIn /\ OneTarget
  BY <1>2 DEF Init, Idle, LastIn, OneTarget
<1>6. DBType
  BY <1>3 DEF DBType
<1>7. QED
  BY <1>4, <1>5, <1>6 DEF MemoryInv

\* The memory of a tracker that has just been cleared.
LEMMA ForgetFacts ==
  ASSUME Forget
  PROVE  /\ made' \in Seq(Traces)' /\ Len(made') = 0 /\ traces' = {} /\ targetCount' = 0
         /\ DOMAIN targets' = {} /\ targets' \in [DOMAIN targets' -> Targets']
         /\ Ids' = {} /\ LastIn' /\ OneTarget'
<1>1. made' = <<>> /\ <<>> \in Seq(Traces) /\ Len(made') = 0 /\ Traces' = Traces
  BY EmptySeq DEF Forget, Traces
<1>2. Ids' = {}
  BY <1>1 DEF Ids
<1>3. targets' = <<>> /\ DOMAIN targets' = {}
  BY DEF Forget
<1>4. targets' \in [DOMAIN targets' -> Targets']
  BY <1>3
<1>5. QED
  BY <1>1, <1>2, <1>3, <1>4 DEF Forget, LastIn, OneTarget

\* What a step that leaves the memory alone keeps.
LEMMA MemoryKept ==
  ASSUME MemoryInv, UNCHANGED memory
  PROVE  /\ made' \in Seq(Traces) /\ \A t \in Ids' : made'[t].saved <= made'[t].length
         /\ traces' \subseteq Ids' /\ targetCount' \in Nat
         /\ DOMAIN targets' \subseteq 1 .. targetCount'
         /\ targets' \in [DOMAIN targets' -> Targets']
         /\ Ids' = Ids /\ Targets' = Targets
         /\ LastIn' /\ OneTarget'
<1>1. made' = made /\ traces' = traces /\ targets' = targets /\ targetCount' = targetCount
  BY DEF memory
<1>2. Ids' = Ids /\ Targets' = Targets
  BY <1>1 DEF Ids, Targets
<1>3. QED
  BY <1>1, <1>2 DEF MemoryInv, TypeOK, LastIn, OneTarget

LEMMA TurnFacts ==
  ASSUME MemoryInv, SavingTurn
  PROVE  /\ Turn \in saving /\ Turn \in DOMAIN targets /\ Turn \in 1 .. targetCount
         /\ LastTrace \in Ids /\ LastTrace \in targets[Turn].traces
         /\ made[LastTrace] \in Traces /\ targets[Turn] \in Targets
<1>1. saving \in SUBSET Nat /\ saving # {}
  BY DEF MemoryInv, TypeOK, SavingTurn
<1>2. Turn \in saving
  BY <1>1, MinIn DEF Turn
<1>3. Turn \in DOMAIN targets /\ Turn \in 1 .. targetCount /\ targets[Turn] \in Targets
  BY <1>2 DEF MemoryInv, TypeOK
<1>4. LastTrace \in Ids /\ LastTrace \in targets[Turn].traces
  BY <1>3 DEF LastTrace, MemoryInv, LastIn, Targets
<1>5. made \in [Ids -> Traces]
  BY LenProperties DEF MemoryInv, TypeOK, Ids
<1>6. QED
  BY <1>2, <1>3, <1>4, <1>5

\* A target that was saved.
LEMMA TargetMarked ==
  ASSUME MemoryInv, SavingTurn, targets' = [targets EXCEPT ![Turn].inDB = TRUE]
  PROVE  /\ DOMAIN targets' = DOMAIN targets
         /\ targets' \in [DOMAIN targets' -> Targets]
         /\ targets'[Turn].inDB
         /\ \A g \in DOMAIN targets :
              /\ targets'[g].traces = targets[g].traces /\ targets'[g].last = targets[g].last
              /\ g # Turn => targets'[g] = targets[g]
<1>1. targets \in [DOMAIN targets -> Targets] /\ Turn \in DOMAIN targets
  BY TurnFacts DEF MemoryInv, TypeOK
<1>2. QED
  BY <1>1 DEF Targets

\* A trace that was saved, and a node of it that was written.
LEMMA TraceMarked ==
  ASSUME MemoryInv, SavingTurn, made' = [made EXCEPT ![LastTrace].inDB = TRUE]
  PROVE  /\ made' \in Seq(Traces) /\ Len(made') = Len(made)
         /\ made'[LastTrace].inDB
         /\ \A t \in Ids :
              /\ made'[t].saved = made[t].saved /\ made'[t].length = made[t].length
              /\ made'[t].matched = made[t].matched
              /\ t # LastTrace => made'[t] = made[t]
<1>1. made \in Seq(Traces) /\ LastTrace \in 1 .. Len(made) /\ made \in [Ids -> Traces]
  BY TurnFacts, LenProperties DEF MemoryInv, TypeOK, Ids
<1>2. [made[LastTrace] EXCEPT !.inDB = TRUE] \in Traces
  BY TurnFacts DEF Traces
<1>3. made' \in Seq(Traces) /\ Len(made') = Len(made)
  BY <1>1, <1>2, ExceptSeq
<1>4. QED
  BY <1>1, <1>3 DEF Traces, Ids

LEMMA NodeMarked ==
  ASSUME MemoryInv, SavingTurn, made' = [made EXCEPT ![LastTrace].saved = @ + 1],
         made[LastTrace].saved < made[LastTrace].length
  PROVE  /\ made' \in Seq(Traces) /\ Len(made') = Len(made)
         /\ made'[LastTrace].saved = made[LastTrace].saved + 1
         /\ \A t \in Ids :
              /\ made'[t].inDB = made[t].inDB /\ made'[t].matched = made[t].matched
              /\ made'[t].saved <= made'[t].length
              /\ t # LastTrace => made'[t] = made[t]
<1>1. made \in Seq(Traces) /\ LastTrace \in 1 .. Len(made) /\ made \in [Ids -> Traces]
  BY TurnFacts, LenProperties DEF MemoryInv, TypeOK, Ids
<1>2. [made[LastTrace] EXCEPT !.saved = @ + 1] \in Traces
  BY TurnFacts DEF Traces
<1>3. made' \in Seq(Traces) /\ Len(made') = Len(made)
  BY <1>1, <1>2, ExceptSeq
<1>4. \A t \in Ids : made[t].saved <= made[t].length
  BY DEF MemoryInv, TypeOK
<1>5. /\ made'[LastTrace].saved = made[LastTrace].saved + 1
      /\ made'[LastTrace].inDB = made[LastTrace].inDB
      /\ made'[LastTrace].matched = made[LastTrace].matched
      /\ made'[LastTrace].length = made[LastTrace].length
  BY <1>1, <1>2, TurnFacts DEF Traces, Ids
<1>6. \A t \in Ids : t # LastTrace => made'[t] = made[t]
  BY <1>1
<1>7. made[LastTrace].saved \in Int /\ made[LastTrace].length \in Int
  BY TurnFacts DEF Traces
<1>8. QED
  BY <1>3, <1>4, <1>5, <1>6, <1>7

LEMMA MemoryStep == MemoryInv /\ [Next]_vars => MemoryInv'
<1>. SUFFICES ASSUME MemoryInv, [Next]_vars PROVE MemoryInv'
  OBVIOUS
<1>. USE DEF None
<1>0. TypeOK /\ Idle /\ LastIn /\ OneTarget /\ DBType /\ db \in Tables /\ session \in Nat /\ Traces' = Traces
  BY DEF MemoryInv, DBType, TypeOK, Traces
<1>1. CASE Start
  <2>1. /\ connection' \in Modes /\ session' = 0 /\ maxId' = 0 /\ at' = "new" /\ frame' = -1
        /\ saving' = {} /\ Forget /\ UNCHANGED <<db, video, processed, faults>>
    BY <1>1 DEF Start
  <2>2. TypeOK'
    BY <1>0, <2>1, ForgetFacts DEF TypeOK
  <2>3. DBType'
    BY <1>0, <2>1, SessionsKept
  <2>4. QED
    BY <2>1, <2>2, <2>3, ForgetFacts DEF MemoryInv, Idle
<1>2. CASE Clear
  <2>1. /\ session' = 0 /\ at' = "play" /\ frame' = -1 /\ video' = video + 1 /\ Forget
        /\ UNCHANGED <<processed, connection, db, maxId, saving, faults>>
        /\ saving' = {}
    BY <1>0, <1>2 DEF Clear, Idle
  <2>2. TypeOK'
    BY <1>0, <2>1, ForgetFacts DEF TypeOK
  <2>3. DBType'
    BY <1>0, <2>1, SessionsKept
  <2>4. QED
    BY <2>1, <2>2, <2>3, ForgetFacts DEF MemoryInv, Idle
<1>3. CASE PostProcessSequence
  <2>1. at = "play" /\ at' = "ended" /\ UNCHANGED <<session, maxId, clock, memory, saving>>
    BY <1>3 DEF PostProcessSequence
  <2>2. /\ faults' \in Nat /\ connection' \in Modes \cup {"dead"}
        /\ db' = db \/ db' = WithEnd
    <3>1. CASE session # None
      BY <1>0, <1>3, <3>1, ExecuteFacts DEF PostProcessSequence
    <3>2. CASE session = None
      BY <1>0, <1>3, <3>2 DEF PostProcessSequence, TypeOK
    <3>3. QED
      BY <3>1, <3>2
  <2>3. TypeOK'
    BY <1>0, <2>1, <2>2, MemoryKept DEF TypeOK, clock, memory
  <2>4. DBType'
    BY <1>0, <2>2, SessionsKept, StatementFacts, OtherTables
  <2>5. QED
    BY <1>0, <2>1, <2>3, <2>4, MemoryKept DEF MemoryInv, Idle
<1>4. CASE Run
  <2>1. /\ Grown /\ TargetsGrown /\ traces' \subseteq Ids'
        /\ faults' \in Nat /\ frame' \in Nat /\ processed' \in Nat
        /\ UNCHANGED <<database, video>>
        /\ \/ at' = "play" /\ saving' = {}
           \/ at' = "select" /\ saving' = DOMAIN targets'
           \/ at' = "save" /\ saving' = DOMAIN targets'
    BY <1>0, <1>4, RunFacts
  <2>2. TypeOK'
    BY <1>0, <2>1 DEF TypeOK, Grown, TargetsGrown, database
  <2>3. DBType'
    BY <1>0, <2>1, SessionsKept DEF database
  <2>4. QED
    BY <2>1, <2>2, <2>3 DEF MemoryInv, Idle, TargetsGrown
<1>5. CASE Select
  <2>1. /\ at = "select" /\ at' \in {"insert", "play"} /\ db' = db /\ session' = 0
        /\ UNCHANGED <<clock, memory>> /\ faults' \in Nat /\ saving' \in {saving, {}}
        /\ at' = "play" => saving' = {}
    BY <1>0, <1>5 DEF Select, SelectMax, SelectMissed, SelectFails, TypeOK
  <2>2. maxId' \in Nat /\ connection' \in Modes \cup {"dead"}
    BY <1>0, <1>5, LargestFacts DEF Select, SelectMax, SelectMissed, SelectFails, TypeOK
  <2>3. TypeOK'
    BY <1>0, <2>1, <2>2, MemoryKept DEF TypeOK, clock, memory
  <2>4. DBType'
    BY <1>0, <2>1, SessionsKept
  <2>5. QED
    BY <1>0, <2>1, <2>3, <2>4, MemoryKept DEF MemoryInv, Idle
<1>6. CASE Insert
  <2>1. /\ at = "insert" /\ UNCHANGED <<clock, memory>> /\ saving' \in {saving, {}}
        /\ at' \in {"save", "play"}
        /\ at' = "play" => saving' = {}
    BY <1>6 DEF Insert
  <2>2. /\ maxId' = maxId /\ maxId + 1 \in Nat /\ session' \in {0, maxId + 1} /\ faults' \in Nat
        /\ connection' \in Modes \cup {"dead"}
        /\ db' = db \/ db' = WithSession(maxId + 1, video)
    BY <1>0, <1>6, ModesAssumption
       DEF Insert, InsertSession, InsertSessionIgnored, InsertSessionFails, Succeeds, Ignored, Fails, TypeOK
  <2>3. TypeOK'
    BY <1>0, <2>1, <2>2, MemoryKept DEF TypeOK, clock, memory
  <2>4. DBType'
    <3>1. video \in Nat
      BY <1>0 DEF TypeOK
    <3>2. CASE db' = db
      BY <1>0, <3>2, SessionsKept
    <3>3. CASE db' = WithSession(maxId + 1, video)
      BY <1>0, <2>2, <3>1, <3>3, SessionsBounded
    <3>4. QED
      BY <2>2, <3>2, <3>3
  <2>5. QED
    BY <1>0, <2>1, <2>3, <2>4, MemoryKept DEF MemoryInv, Idle
<1>7. CASE SaveTarget
  <2>1. PICK ok \in BOOLEAN :
          /\ Execute(WithTarget(Turn, video), ok)
          /\ IF ok THEN targets' = [targets EXCEPT ![Turn].inDB = TRUE] /\ UNCHANGED saving
                   ELSE saving' = saving \ {Turn} /\ UNCHANGED targets
    BY <1>7 DEF SaveTarget
  <2>2. SavingTurn /\ UNCHANGED <<session, maxId, at, clock, made, traces, targetCount>>
    BY <1>7 DEF SaveTarget
  <2>3. Turn \in 1 .. targetCount /\ Turn \in DOMAIN targets
    BY <2>2, TurnFacts
  <2>4. /\ faults' \in Nat /\ connection' \in Modes \cup {"dead"}
        /\ db' = db \/ db' = WithTarget(Turn, video)
    BY <1>0, <2>1, ExecuteFacts
  <2>5. /\ DOMAIN targets' = DOMAIN targets /\ targets' \in [DOMAIN targets' -> Targets]
        /\ \A g \in DOMAIN targets :
             targets'[g].traces = targets[g].traces /\ targets'[g].last = targets[g].last
    BY <1>0, <2>1, <2>2, TargetMarked DEF TypeOK
  <2>6. Ids' = Ids /\ Targets' = Targets
    BY <2>2 DEF Ids, Targets
  <2>7. TypeOK'
    BY <1>0, <2>1, <2>2, <2>4, <2>5, <2>6 DEF TypeOK, clock
  <2>8. LastIn' /\ OneTarget'
    BY <1>0, <2>2, <2>5 DEF LastIn, OneTarget
  <2>9. DBType'
    <3>1. Turn \in Nat /\ video \in Nat
      BY <1>0, <2>3 DEF TypeOK
    <3>2. WithTarget(Turn, video) \in Tables /\ WithTarget(Turn, video).session = db.session
      BY <1>0, <3>1, StatementFacts, OtherTables
    <3>3. QED
      BY <1>0, <2>4, <3>2, SessionsKept
  <2>10. QED
    BY <2>2, <2>7, <2>8, <2>9 DEF MemoryInv, Idle, SavingTurn
<1>8. CASE SaveTrace
  <2>1. PICK ok \in BOOLEAN :
          /\ Execute(WithTrace(LastTrace, Turn, video), ok)
          /\ IF ok THEN made' = [made EXCEPT ![LastTrace].inDB = TRUE] /\ UNCHANGED saving
                   ELSE saving' = saving \ {Turn} /\ UNCHANGED made
    BY <1>8 DEF SaveTrace
  <2>2. SavingTurn /\ UNCHANGED <<session, maxId, at, clock, traces, targets, targetCount>>
    BY <1>8 DEF SaveTrace
  <2>3. /\ faults' \in Nat /\ connection' \in Modes \cup {"dead"}
        /\ db' = db \/ db' = WithTrace(LastTrace, Turn, video)
    BY <1>0, <2>1, ExecuteFacts
  <2>4. /\ made' \in Seq(Traces) /\ Len(made') = Len(made)
        /\ \A t \in Ids :
             /\ made'[t].saved = made[t].saved /\ made'[t].length = made[t].length
             /\ made'[t].matched = made[t].matched
    BY <1>0, <2>1, <2>2, TraceMarked DEF TypeOK
  <2>5. Ids' = Ids /\ Targets' = Targets
    BY <2>4 DEF Ids, Targets
  <2>6. TypeOK'
    BY <1>0, <2>1, <2>2, <2>3, <2>4, <2>5 DEF TypeOK, clock
  <2>7. LastIn' /\ OneTarget'
    BY <1>0, <2>2, <2>4 DEF LastIn, OneTarget, TypeOK, Targets
  <2>8. DBType'
    <3>1. Turn \in Nat /\ LastTrace \in Nat /\ video \in Nat
      BY <1>0, <2>2, TurnFacts DEF TypeOK, Ids
    <3>2. /\ WithTrace(LastTrace, Turn, video) \in Tables
          /\ WithTrace(LastTrace, Turn, video).session = db.session
      BY <1>0, <3>1, StatementFacts, OtherTables
    <3>3. QED
      BY <1>0, <2>3, <3>2, SessionsKept
  <2>9. QED
    BY <2>2, <2>6, <2>7, <2>8 DEF MemoryInv, Idle, SavingTurn
<1>9. CASE SaveNode
  <2>1. PICK ok \in BOOLEAN : Execute(WithNode(made[LastTrace].saved, LastTrace, video), ok)
    BY <1>9 DEF SaveNode
  <2>2. /\ SavingTurn /\ made[LastTrace].saved < made[LastTrace].length
        /\ made' = [made EXCEPT ![LastTrace].saved = @ + 1]
        /\ UNCHANGED <<session, maxId, at, clock, traces, targets, targetCount, saving>>
    BY <1>9 DEF SaveNode
  <2>3. /\ faults' \in Nat /\ connection' \in Modes \cup {"dead"}
        /\ db' = db \/ db' = WithNode(made[LastTrace].saved, LastTrace, video)
    BY <1>0, <2>1, ExecuteFacts
  <2>4. /\ made' \in Seq(Traces) /\ Len(made') = Len(made)
        /\ \A t \in Ids : made'[t].saved <= made'[t].length /\ made'[t].matched = made[t].matched
    BY <2>2, NodeMarked
  <2>5. Ids' = Ids /\ Targets' = Targets
    BY <2>4 DEF Ids, Targets
  <2>6. TypeOK'
    BY <1>0, <2>2, <2>3, <2>4, <2>5 DEF TypeOK, clock
  <2>7. LastIn' /\ OneTarget'
    BY <1>0, <2>2, <2>4 DEF LastIn, OneTarget, TypeOK, Targets
  <2>8. DBType'
    <3>1. made[LastTrace] \in Traces /\ LastTrace \in 1 .. Len(made) /\ video \in Nat
      BY <1>0, <2>2, TurnFacts DEF TypeOK, Ids
    <3>2. made[LastTrace].saved \in Nat /\ LastTrace \in Nat
      BY <3>1 DEF Traces
    <3>3. \A i, t, v \in Nat :
            WithNode(i, t, v) \in Tables /\ WithNode(i, t, v).session = db.session
      <4>. TAKE i, t, v \in Nat
      <4>1. WithNode(i, t, v) \in Tables
        BY <1>0, StatementFacts
      <4>2. WithNode(i, t, v).session = db.session
        BY <1>0, OtherTables
      <4>3. QED
        BY <4>1, <4>2
    <3>4. db' \in Tables /\ db'.session = db.session
      <4>1. CASE db' = db
        BY <1>0, <4>1
      <4>2. CASE db' = WithNode(made[LastTrace].saved, LastTrace, video)
        <5>1. /\ WithNode(made[LastTrace].saved, LastTrace, video) \in Tables
              /\ WithNode(made[LastTrace].saved, LastTrace, video).session = db.session
          BY <3>1, <3>2, <3>3, Zenon
        <5>2. QED
          BY <4>2, <5>1, Zenon
      <4>3. QED
        BY <2>3, <4>1, <4>2
    <3>5. QED
      BY <1>0, <3>4, SessionsKept
  <2>9. QED
    BY <2>2, <2>6, <2>7, <2>8 DEF MemoryInv, Idle, SavingTurn
<1>10. CASE SaveNext \/ Saved
  <2>1. /\ at = "save" /\ saving' \subseteq saving /\ at' \in {"save", "play"}
        /\ at' = "play" => saving' = {}
        /\ UNCHANGED <<database, clock, memory, faults>>
    BY <1>10 DEF SaveNext, Saved, SavingTurn
  <2>2. TypeOK'
    BY <1>0, <2>1, MemoryKept DEF TypeOK, clock, database, memory
  <2>3. DBType'
    BY <1>0, <2>1, SessionsKept DEF database
  <2>4. QED
    BY <2>1, <2>2, <2>3, MemoryKept DEF MemoryInv, Idle
<1>11. CASE OtherProgram
  <2>1. /\ at \in {"select", "insert"} /\ db' = WithSession(Largest + 1, Others)
        /\ UNCHANGED <<session, connection, maxId, at, clock, memory, saving, faults>>
    BY <1>11 DEF OtherProgram, OtherSession
  <2>2. TypeOK'
    BY <1>0, <2>1, MemoryKept DEF TypeOK, clock, memory
  <2>3. DBType'
    BY <1>0, <2>1, LargestFacts, SessionsBounded DEF Others
  <2>4. QED
    BY <2>1, <2>2, <2>3, MemoryKept DEF MemoryInv, Idle
<1>12. CASE UNCHANGED vars
  <2>1. UNCHANGED <<database, at, clock, memory, saving, faults>>
    BY <1>12 DEF vars
  <2>2. TypeOK'
    BY <1>0, <2>1, MemoryKept DEF TypeOK, clock, database, memory
  <2>3. DBType'
    BY <1>0, <2>1, SessionsKept DEF database
  <2>4. QED
    BY <1>0, <2>1, <2>2, <2>3, MemoryKept DEF MemoryInv, Idle
<1>13. QED
  BY <1>1, <1>2, <1>3, <1>4, <1>5, <1>6, <1>7, <1>8, <1>9, <1>10, <1>11, <1>12 DEF Next

LEMMA MemoryAlways == Spec => []MemoryInv
<1>1. QED
  BY InitMemory, MemoryStep, PTL DEF Spec

\* The variables keep their types, and no more nodes of a trace are written than
\* it has.
THEOREM TypeCorrect == Spec => []TypeOK
<1>1. MemoryInv => TypeOK
  BY DEF MemoryInv
<1>2. QED
  BY <1>1, MemoryAlways, PTL

\* A trace belongs to one target at most, and counts as matched then: the
\* filter for traces to match and the test for novel ones keep them apart.
THEOREM OneTargetAlways == Spec => []OneTarget
<1>1. MemoryInv => OneTarget
  BY DEF MemoryInv
<1>2. QED
  BY <1>1, MemoryAlways, PTL

-----------------------------------------------------------------------------
(* Linked rows, and what is believed to be saved.                          *)

\* Without a session nothing counts as saved.
Unsaved ==
  session = None =>
    /\ \A g \in DOMAIN targets : ~targets[g].inDB
    /\ \A t \in Ids : ~made[t].inDB /\ made[t].saved = 0

\* Changes are saved in a session, which is created when there is none.
SessionAt ==
  /\ at = "save" => session # None
  /\ at \in {"select", "insert"} => session = None

\* The rows of the session are those of its own targets and traces.
Own ==
  connection # "dead" /\ session # None =>
    /\ [session |-> session, of |-> video] \in db.session
    /\ \A r \in db.target : r.session = session => r.target <= targetCount
    /\ \A r \in db.trace : r.session = session => r.trace \in Ids

LinkInv == RowsLinked /\ BelievedSaved /\ Unsaved /\ SessionAt /\ Own

LEMMA InitLink == Init => LinkInv
<1>. SUFFICES ASSUME Init PROVE LinkInv
  OBVIOUS
<1>1. db.session = {} /\ db.target = {} /\ db.trace = {} /\ db.node = {}
  BY DEF Init, EmptyDB
<1>2. session = None /\ at = "new" /\ DOMAIN targets = {}
  BY DEF Init
<1>3. Ids = {}
  BY EmptySeq DEF Init, Ids
<1>4. QED
  BY <1>1, <1>2, <1>3 DEF LinkInv, RowsLinked, BelievedSaved, Unsaved, SessionAt, Own

\* A step that writes none of these rows.
LEMMA RowsKept ==
  ASSUME RowsLinked, db'.session = db.session, db'.target = db.target,
         db'.trace = db.trace, db'.node = db.node
  PROVE  RowsLinked'
  BY DEF RowsLinked

LEMMA Quiet ==
  ASSUME LinkInv, UNCHANGED <<memory, session, video>>, connection' \in {connection, "dead"},
         db'.session = db.session, db'.target = db.target,
         db'.trace = db.trace, db'.node = db.node
  PROVE  RowsLinked' /\ BelievedSaved' /\ Unsaved' /\ Own'
<1>1. Ids' = Ids
  BY DEF Ids, memory
<1>2. RowsLinked'
  BY RowsKept DEF LinkInv
<1>3. BelievedSaved'
  BY <1>1 DEF LinkInv, BelievedSaved, memory
<1>4. Unsaved'
  BY <1>1 DEF LinkInv, Unsaved, memory
<1>5. Own'
  BY <1>1 DEF LinkInv, Own, memory
<1>6. QED
  BY <1>2, <1>3, <1>4, <1>5

\* Without a session, or with nothing that writes, there is nothing to agree on.
LEMMA NothingToAgree ==
  ASSUME session' = None \/ connection' = "dead"
  PROVE  BelievedSaved' /\ Own'
  BY DEF BelievedSaved, Own

LEMMA RowFacts ==
  ASSUME db \in Tables
  PROVE  /\ \A r \in db.session : r = [session |-> r.session, of |-> r.of]
         /\ \A r \in db.target : r = [session |-> r.session, target |-> r.target, of |-> r.of]
         /\ \A r \in db.session : r.session \in Numbers
  BY DEF Tables, Numbers

\* Every row has a session.
LEMMA RowsHaveSession ==
  ASSUME db \in Tables, RowsLinked
  PROVE  /\ \A r \in db.target : r.session \in Numbers
         /\ \A r \in db.trace : r.session \in Numbers
         /\ \A r \in db.node : r.session \in Numbers
<1>1. ASSUME NEW r \in db.target PROVE r.session \in Numbers
  <2>1. [session |-> r.session, of |-> r.of] \in db.session
    BY DEF RowsLinked
  <2>2. QED
    BY <2>1 DEF Numbers
<1>2. ASSUME NEW r \in db.trace PROVE r.session \in Numbers
  <2>1. [session |-> r.session, target |-> r.target, of |-> r.of] \in db.target
    BY DEF RowsLinked
  <2>2. QED
    BY <1>1, <2>1
<1>3. ASSUME NEW r \in db.node PROVE r.session \in Numbers
  BY <1>2 DEF RowsLinked
<1>4. QED
  BY <1>1, <1>2, <1>3

LEMMA SessionAdded ==
  ASSUME MemoryInv, RowsLinked, NEW n \in Nat, n \notin Numbers, NEW v \in Nat,
         db' = WithSession(n, v)
  PROVE  /\ RowsLinked'
         /\ [session |-> n, of |-> v] \in db'.session
         /\ \A r \in db'.target : r.session # n
         /\ \A r \in db'.trace : r.session # n
         /\ \A r \in db'.node : r.session # n
<1>. DEFINE row == [session |-> n, of |-> v]
<1>1. db \in Tables /\ session \in Nat
  BY DEF MemoryInv, DBType, TypeOK
<1>2. db'.session = db.session \cup {row}
  BY <1>1, StatementFacts
<1>3. db'.target = db.target /\ db'.trace = db.trace /\ db'.node = db.node
  BY <1>1, OtherTables
<1>4. row.session = n /\ \A r \in db.session : r.session # n
  BY <1>1, RowFacts
<1>. HIDE DEF row
<1>5. \A x, y \in db'.session : x.session = y.session => x = y
  BY <1>2, <1>4 DEF RowsLinked
<1>6. RowsLinked'
  BY <1>2, <1>3, <1>5 DEF RowsLinked
<1>7. QED
  BY <1>1, <1>2, <1>3, <1>6, RowsHaveSession DEF row

LEMMA RunLink ==
  ASSUME MemoryInv, LinkInv, Run
  PROVE  LinkInv'
<1>1. /\ Grown /\ TargetsGrown /\ UNCHANGED <<database, video>>
      /\ \/ at' = "play"
         \/ at' = "select" /\ session = None
         \/ at' = "save" /\ session # None
  BY RunFacts DEF MemoryInv
<1>2. db' = db /\ session' = session /\ connection' = connection /\ video' = video
  BY <1>1 DEF database
<1>3. Ids \subseteq Ids' /\ targetCount \in Nat /\ targetCount' \in Nat /\ targetCount <= targetCount'
  <2>1. Len(made) \in Nat
    BY LenProperties DEF MemoryInv, TypeOK
  <2>2. Len(made') \in Nat /\ Len(made) <= Len(made')
    BY <1>1, LenProperties DEF Grown
  <2>3. QED
    BY <1>1, <2>1, <2>2 DEF TargetsGrown, MemoryInv, TypeOK, Ids
<1>4. RowsLinked /\ RowsLinked'
  BY <1>2, RowsKept DEF LinkInv
<1>5. SessionAt'
  BY <1>1, <1>2 DEF SessionAt
<1>6. Unsaved'
  BY <1>1, <1>2 DEF LinkInv, Unsaved, Grown, TargetsGrown
<1>7. Own'
  <2>1. db \in Tables
    BY DEF MemoryInv, DBType
  <2>2. \A r \in db.target : r.target \in Nat
    BY <2>1 DEF Tables
  <2>3. QED
    BY <1>2, <1>3, <2>2 DEF LinkInv, Own
<1>8. BelievedSaved'
  <2>. SUFFICES ASSUME connection # "dead", session # None
                PROVE  BelievedSaved'
    BY <1>2 DEF BelievedSaved
  <2>1. /\ \A r \in db.target : r.session = session => r.target <= targetCount
        /\ \A r \in db.trace : r.session = session => r.trace \in Ids
    BY DEF LinkInv, Own
  <2>2. ASSUME NEW g \in DOMAIN targets'
        PROVE  /\ targets'[g].inDB <=> [session |-> session, target |-> g, of |-> video] \in db.target
               /\ \A r \in db.trace : r.session = session /\ r.target = g => r.trace \in targets'[g].traces
    <3>1. CASE g \in DOMAIN targets /\ targets[g].traces \subseteq targets'[g].traces
               /\ targets'[g].inDB = targets[g].inDB
      BY <3>1 DEF LinkInv, BelievedSaved
    <3>2. CASE g > targetCount /\ ~targets'[g].inDB
      <4>1. g \in Nat
        BY <1>1, <1>3 DEF TargetsGrown
      <4>2. \A v : [session |-> session, target |-> g, of |-> v] \notin db.target
        <5>. SUFFICES ASSUME NEW v, [session |-> session, target |-> g, of |-> v] \in db.target
                      PROVE  FALSE
          OBVIOUS
        <5>1. g <= targetCount
          BY <2>1
        <5>2. QED
          BY <1>3, <3>2, <4>1, <5>1
      <4>3. \A r \in db.trace : r.session = session => r.target # g
        BY <1>4, <4>2 DEF RowsLinked
      <4>4. QED
        BY <3>2, <4>2, <4>3
    <3>3. QED
      BY <1>1, <3>1, <3>2 DEF TargetsGrown
  <2>3. ASSUME NEW t \in Ids'
        PROVE  /\ made'[t].inDB <=> \E r \in db.trace : r.session = session /\ r.trace = t
               /\ \A r \in db.node : r.session = session /\ r.trace = t => r.node < made'[t].saved
    <3>1. CASE t \in Ids
      BY <1>1, <3>1 DEF LinkInv, BelievedSaved, Grown
    <3>2. CASE t \notin Ids
      <4>1. ~made'[t].inDB
        BY <1>1, <3>2 DEF Grown
      <4>2. \A r \in db.trace : r.session = session => r.trace # t
        BY <2>1, <3>2
      <4>3. \A r \in db.node : r.session = session => r.trace # t
        BY <1>4, <4>2 DEF RowsLinked
      <4>4. QED
        BY <4>1, <4>2, <4>3
    <3>3. QED
      BY <3>1, <3>2
  <2>4. QED
    BY <1>2, <2>2, <2>3 DEF BelievedSaved
<1>9. QED
  BY <1>4, <1>5, <1>6, <1>7, <1>8 DEF LinkInv

LEMMA InsertLink ==
  ASSUME MemoryInv, LinkInv, Insert
  PROVE  LinkInv'
<1>1. /\ at = "insert" /\ UNCHANGED memory /\ video' = video /\ session = None
      /\ at' = (IF session' # None THEN "save" ELSE "play")
  BY DEF Insert, LinkInv, SessionAt, clock
<1>2. SessionAt'
  BY <1>1 DEF SessionAt
<1>3. /\ Ids' = Ids /\ db \in Tables /\ video \in Nat
      /\ maxId + 1 \in Nat /\ maxId + 1 # None /\ connection \in Modes \cup {"dead"}
  BY <1>1, MemoryKept DEF MemoryInv, TypeOK, DBType, None
<1>4. Unsaved'
  BY <1>1, <1>3 DEF LinkInv, Unsaved, memory
<1>5. CASE db' = db /\ (session' = None \/ connection' = "dead")
  BY <1>2, <1>4, <1>5, RowsKept, NothingToAgree DEF LinkInv
<1>6. CASE InsertSession(video)
  <2>1. /\ maxId + 1 \notin Numbers /\ session' = maxId + 1
        /\ db' = WithSession(maxId + 1, video)
    BY <1>6 DEF InsertSession, Succeeds
  <2>2. /\ RowsLinked'
        /\ [session |-> session', of |-> video'] \in db'.session
        /\ \A r \in db'.target : r.session # session'
        /\ \A r \in db'.trace : r.session # session'
        /\ \A r \in db'.node : r.session # session'
    BY <1>1, <1>3, <2>1, SessionAdded DEF LinkInv
  <2>3. Own'
    BY <2>2 DEF Own
  <2>4. /\ \A g \in DOMAIN targets' : ~targets'[g].inDB
        /\ \A t \in Ids' : ~made'[t].inDB
    BY <1>1, <1>3 DEF LinkInv, Unsaved, memory
  <2>5. BelievedSaved'
    <3>1. \A g \in DOMAIN targets' :
            [session |-> session', target |-> g, of |-> video'] \notin db'.target
      BY <2>2
    <3>2. QED
      BY <2>2, <2>4, <3>1 DEF BelievedSaved
  <2>6. QED
    BY <1>2, <1>4, <2>2, <2>3, <2>5 DEF LinkInv
<1>7. InsertSession(video) \/ (db' = db /\ (session' = None \/ connection' = "dead"))
  BY <1>3 DEF Insert, InsertSessionIgnored, InsertSessionFails, Ignored, Fails
<1>8. QED
  BY <1>5, <1>6, <1>7

\* A statement that is refused, or that nothing runs any more.
LEMMA StatementDead ==
  ASSUME LinkInv, db' = db, connection' = "dead", session' = session, at' = at, session # None
  PROVE  LinkInv'
  BY RowsKept, NothingToAgree DEF LinkInv, SessionAt, Unsaved

LEMMA StatementRefused ==
  ASSUME LinkInv, db' = db, connection' = connection, at' = at,
         UNCHANGED <<memory, session, video>>
  PROVE  LinkInv'
  BY Quiet DEF LinkInv, SessionAt

LEMMA SaveTargetLink ==
  ASSUME MemoryInv, LinkInv, SaveTarget
  PROVE  LinkInv'
<1>1. PICK ok \in BOOLEAN :
        /\ Execute(WithTarget(Turn, video), ok)
        /\ IF ok THEN targets' = [targets EXCEPT ![Turn].inDB = TRUE] /\ UNCHANGED saving
                 ELSE saving' = saving \ {Turn} /\ UNCHANGED targets
  BY DEF SaveTarget
<1>2. /\ SavingTurn /\ at = "save" /\ session # None
      /\ UNCHANGED <<session, video, at, made, traces, targetCount>>
  BY DEF SaveTarget, SavingTurn, LinkInv, SessionAt, clock
<1>3. /\ Turn \in 1 .. targetCount /\ Turn \in DOMAIN targets /\ Turn \in Nat
      /\ db \in Tables /\ session \in Nat /\ video \in Nat
      /\ targetCount \in Nat
  BY <1>2, TurnFacts DEF MemoryInv, TypeOK, DBType
<1>4. \/ db' = WithTarget(Turn, video) /\ ok /\ connection' = connection /\ connection # "dead"
      \/ db' = db /\ ~ok /\ connection' = connection
      \/ db' = db /\ connection' = "dead"
  BY <1>1, ExecuteFacts DEF MemoryInv
<1>5. CASE db' = db /\ connection' = "dead"
  BY <1>2, <1>5, StatementDead
<1>6. CASE db' = db /\ ~ok /\ connection' = connection
  BY <1>1, <1>2, <1>6, StatementRefused DEF memory
<1>7. CASE db' = WithTarget(Turn, video) /\ ok /\ connection' = connection /\ connection # "dead"
  <2>. DEFINE row == [session |-> session, target |-> Turn, of |-> video]
  <2>1. db'.target = db.target \cup {row}
    BY <1>3, <1>7, StatementFacts
  <2>2. db'.session = db.session /\ db'.trace = db.trace /\ db'.node = db.node
    BY <1>3, <1>7, OtherTables
  <2>3. /\ DOMAIN targets' = DOMAIN targets /\ targets'[Turn].inDB
        /\ \A g \in DOMAIN targets :
             /\ targets'[g].traces = targets[g].traces
             /\ g # Turn => targets'[g] = targets[g]
    BY <1>1, <1>2, <1>7, TargetMarked
  <2>4. Ids' = Ids
    BY <1>2 DEF Ids
  <2>5. SessionAt' /\ Unsaved'
    BY <1>2 DEF LinkInv, SessionAt, Unsaved
  <2>6. [session |-> session, of |-> video] \in db.session
    BY <1>2, <1>7 DEF LinkInv, Own
  <2>7. RowsLinked'
    <3>1. \A r \in db'.target : [session |-> r.session, of |-> r.of] \in db'.session
      <4>1. \A r \in db.target : [session |-> r.session, of |-> r.of] \in db.session
        BY DEF LinkInv, RowsLinked
      <4>2. row.session = session /\ row.of = video
        OBVIOUS
      <4>. HIDE DEF row
      <4>3. QED
        BY <2>1, <2>2, <2>6, <4>1, <4>2
    <3>2. QED
      BY <2>1, <2>2, <3>1 DEF LinkInv, RowsLinked
  <2>8. Own'
    BY <1>2, <1>3, <1>7, <2>1, <2>2, <2>4 DEF LinkInv, Own
  <2>9. \A g \in DOMAIN targets' :
          targets'[g].inDB <=> [session |-> session, target |-> g, of |-> video] \in db'.target
    <3>. TAKE g \in DOMAIN targets'
    <3>1. CASE g = Turn
      BY <2>1, <2>3, <3>1
    <3>2. CASE g # Turn
      <4>1. [session |-> session, target |-> g, of |-> video] # row
        BY <3>2
      <4>2. targets'[g] = targets[g]
        BY <2>3, <3>2
      <4>3. targets[g].inDB <=> [session |-> session, target |-> g, of |-> video] \in db.target
        BY <1>2, <2>3, <1>7 DEF LinkInv, BelievedSaved
      <4>4. QED
        BY <2>1, <4>1, <4>2, <4>3
    <3>3. QED
      BY <3>1, <3>2
  <2>10. \A g \in DOMAIN targets' : \A r \in db'.trace :
          r.session = session /\ r.target = g => r.trace \in targets'[g].traces
    BY <1>2, <2>2, <2>3, <1>7 DEF LinkInv, BelievedSaved
  <2>11. \A t \in Ids' :
          /\ made'[t].inDB <=> \E r \in db'.trace : r.session = session /\ r.trace = t
          /\ \A r \in db'.node : r.session = session /\ r.trace = t => r.node < made'[t].saved
    BY <1>2, <2>2, <2>4, <1>7 DEF LinkInv, BelievedSaved
  <2>12. BelievedSaved'
    BY <1>2, <2>9, <2>10, <2>11 DEF BelievedSaved
  <2>13. QED
    BY <2>5, <2>7, <2>8, <2>12 DEF LinkInv
<1>8. QED
  BY <1>4, <1>5, <1>6, <1>7

LEMMA SaveTraceLink ==
  ASSUME MemoryInv, LinkInv, SaveTrace
  PROVE  LinkInv'
<1>1. PICK ok \in BOOLEAN :
        /\ Execute(WithTrace(LastTrace, Turn, video), ok)
        /\ IF ok THEN made' = [made EXCEPT ![LastTrace].inDB = TRUE] /\ UNCHANGED saving
                 ELSE saving' = saving \ {Turn} /\ UNCHANGED made
  BY DEF SaveTrace
<1>2. /\ SavingTurn /\ at = "save" /\ session # None /\ targets[Turn].inDB
      /\ UNCHANGED <<session, video, at, traces, targets, targetCount>>
  BY DEF SaveTrace, SavingTurn, LinkInv, SessionAt, clock
<1>3. /\ Turn \in DOMAIN targets /\ Turn \in Nat /\ LastTrace \in Nat /\ LastTrace \in Ids
      /\ LastTrace \in targets[Turn].traces
      /\ db \in Tables /\ session \in Nat /\ video \in Nat
  BY <1>2, TurnFacts DEF MemoryInv, TypeOK, DBType, Ids
<1>4. \/ db' = WithTrace(LastTrace, Turn, video) /\ ok /\ connection' = connection /\ connection # "dead"
      \/ db' = db /\ ~ok /\ connection' = connection
      \/ db' = db /\ connection' = "dead"
  BY <1>1, ExecuteFacts DEF MemoryInv
<1>5. CASE db' = db /\ connection' = "dead"
  BY <1>2, <1>5, StatementDead
<1>6. CASE db' = db /\ ~ok /\ connection' = connection
  BY <1>1, <1>2, <1>6, StatementRefused DEF memory
<1>7. CASE db' = WithTrace(LastTrace, Turn, video) /\ ok /\ connection' = connection /\ connection # "dead"
  <2>. DEFINE row == [session |-> session, trace |-> LastTrace, target |-> Turn, of |-> video]
  <2>1. db'.trace = db.trace \cup {row}
    BY <1>3, <1>7, StatementFacts
  <2>2. db'.session = db.session /\ db'.target = db.target /\ db'.node = db.node
    BY <1>3, <1>7, OtherTables
  <2>3. /\ made'[LastTrace].inDB
        /\ \A t \in Ids : made'[t].saved = made[t].saved /\ (t # LastTrace => made'[t] = made[t])
        /\ Len(made') = Len(made)
    BY <1>1, <1>2, <1>7, TraceMarked
  <2>4. Ids' = Ids
    BY <2>3 DEF Ids
  <2>5. SessionAt' /\ Unsaved'
    BY <1>2 DEF LinkInv, SessionAt, Unsaved
  <2>6. [session |-> session, target |-> Turn, of |-> video] \in db.target
    BY <1>2, <1>3, <1>7 DEF LinkInv, BelievedSaved
  <2>7. row.session = session /\ row.trace = LastTrace /\ row.target = Turn /\ row.of = video
    OBVIOUS
  <2>. HIDE DEF row
  <2>8. RowsLinked'
    <3>1. \A r \in db'.trace : [session |-> r.session, target |-> r.target, of |-> r.of] \in db'.target
      <4>1. \A r \in db.trace : [session |-> r.session, target |-> r.target, of |-> r.of] \in db.target
        BY DEF LinkInv, RowsLinked
      <4>2. QED
        BY <2>1, <2>2, <2>6, <2>7, <4>1
    <3>2. QED
      BY <2>1, <2>2, <3>1 DEF LinkInv, RowsLinked
  <2>9. Own'
    BY <1>2, <1>3, <1>7, <2>1, <2>2, <2>4, <2>7 DEF LinkInv, Own
  <2>10. \A g \in DOMAIN targets' :
           targets'[g].inDB <=> [session |-> session, target |-> g, of |-> video] \in db'.target
    BY <1>2, <1>7, <2>2 DEF LinkInv, BelievedSaved
  <2>11. \A g \in DOMAIN targets' : \A r \in db'.trace :
           r.session = session /\ r.target = g => r.trace \in targets'[g].traces
    BY <1>2, <1>3, <1>7, <2>1, <2>7 DEF LinkInv, BelievedSaved
  <2>12. \A t \in Ids' : made'[t].inDB <=> \E r \in db'.trace : r.session = session /\ r.trace = t
    <3>. TAKE t \in Ids'
    <3>1. CASE t = LastTrace
      BY <2>1, <2>3, <2>7, <3>1
    <3>2. CASE t # LastTrace
      <4>1. made'[t] = made[t]
        BY <2>3, <2>4, <3>2
      <4>2. made[t].inDB <=> \E r \in db.trace : r.session = session /\ r.trace = t
        BY <1>2, <1>7, <2>4 DEF LinkInv, BelievedSaved
      <4>3. QED
        BY <2>1, <2>7, <3>2, <4>1, <4>2
    <3>3. QED
      BY <3>1, <3>2
  <2>13. \A t \in Ids' : \A r \in db'.node :
           r.session = session /\ r.trace = t => r.node < made'[t].saved
    BY <1>2, <1>7, <2>2, <2>3, <2>4 DEF LinkInv, BelievedSaved
  <2>14. BelievedSaved'
    BY <1>2, <2>10, <2>11, <2>12, <2>13 DEF BelievedSaved
  <2>15. QED
    BY <2>5, <2>8, <2>9, <2>14 DEF LinkInv
<1>8. QED
  BY <1>4, <1>5, <1>6, <1>7

LEMMA SaveNodeLink ==
  ASSUME MemoryInv, LinkInv, SaveNode
  PROVE  LinkInv'
<1>. DEFINE i == made[LastTrace].saved
<1>1. PICK ok \in BOOLEAN : Execute(WithNode(i, LastTrace, video), ok)
  BY DEF SaveNode
<1>2. /\ SavingTurn /\ at = "save" /\ session # None /\ made[LastTrace].inDB
      /\ made[LastTrace].saved < made[LastTrace].length
      /\ made' = [made EXCEPT ![LastTrace].saved = @ + 1]
      /\ UNCHANGED <<session, video, at, traces, targets, targetCount>>
  BY DEF SaveNode, SavingTurn, LinkInv, SessionAt, clock
<1>3. LastTrace \in Ids /\ made[LastTrace] \in Traces
  BY <1>2, TurnFacts
<1>4. /\ LastTrace \in Nat /\ i \in Nat
      /\ db \in Tables /\ session \in Nat /\ video \in Nat
  <2>1. LastTrace \in Nat
    BY <1>3 DEF Ids
  <2>2. i \in Nat
    BY <1>3 DEF Traces
  <2>3. db \in Tables /\ session \in Nat /\ video \in Nat
    BY DEF MemoryInv, TypeOK, DBType
  <2>4. QED
    BY <2>1, <2>2, <2>3
<1>5. \/ db' = WithNode(i, LastTrace, video) /\ connection' = connection /\ connection # "dead"
      \/ db' = db /\ connection' = connection
      \/ db' = db /\ connection' = "dead"
  BY <1>1, ExecuteFacts DEF MemoryInv
<1>6. CASE db' = db /\ connection' = "dead"
  BY <1>2, <1>6, StatementDead
<1>7. /\ Len(made') = Len(made) /\ made'[LastTrace].saved = i + 1
      /\ \A t \in Ids : made'[t].inDB = made[t].inDB /\ (t # LastTrace => made'[t] = made[t])
  BY <1>2, NodeMarked
<1>8. Ids' = Ids
  BY <1>7 DEF Ids
<1>. HIDE DEF i
<1>9. ASSUME connection' = connection, connection # "dead",
             db'.session = db.session, db'.target = db.target, db'.trace = db.trace,
             NEW row, row.session = session, row.trace = LastTrace, row.node = i, row.of = video,
             db'.node = db.node \/ db'.node = db.node \cup {row}
      PROVE  LinkInv'
  <2>1. SessionAt' /\ Unsaved'
    BY <1>2 DEF LinkInv, SessionAt, Unsaved
  <2>2. Own'
    BY <1>2, <1>8, <1>9 DEF LinkInv, Own
  <2>3. \E t \in db.trace : t.session = session /\ t.trace = LastTrace /\ t.of = video
    <3>1. PICK t \in db.trace : t.session = session /\ t.trace = LastTrace
      BY <1>2, <1>3, <1>9 DEF LinkInv, BelievedSaved
    <3>2. [session |-> session, target |-> t.target, of |-> t.of] \in db.target
      BY <3>1 DEF LinkInv, RowsLinked
    <3>3. [session |-> session, of |-> t.of] \in db.session
      BY <3>2 DEF LinkInv, RowsLinked
    <3>4. [session |-> session, of |-> video] \in db.session
      BY <1>2, <1>9 DEF LinkInv, Own
    <3>5. t.of = video
      BY <3>3, <3>4 DEF LinkInv, RowsLinked
    <3>6. QED
      BY <3>1, <3>5
  <2>4. RowsLinked'
    <3>1. \A n \in db'.node : \E t \in db'.trace :
            t.session = n.session /\ t.trace = n.trace /\ t.of = n.of
      BY <1>9, <2>3 DEF LinkInv, RowsLinked
    <3>2. QED
      BY <1>9, <3>1 DEF LinkInv, RowsLinked
  <2>5. \A g \in DOMAIN targets' :
          /\ targets'[g].inDB <=> [session |-> session, target |-> g, of |-> video] \in db'.target
          /\ \A r \in db'.trace : r.session = session /\ r.target = g => r.trace \in targets'[g].traces
    BY <1>2, <1>9 DEF LinkInv, BelievedSaved
  <2>6. \A t \in Ids' : made'[t].inDB <=> \E r \in db'.trace : r.session = session /\ r.trace = t
    BY <1>2, <1>7, <1>8, <1>9 DEF LinkInv, BelievedSaved
  <2>7. ASSUME NEW t \in Ids', NEW r \in db'.node, r.session = session, r.trace = t
        PROVE  r.node < made'[t].saved
    <3>1. r \in db.node => r.node \in Int /\ r.node < made[t].saved
      BY <1>2, <1>4, <1>8, <1>9, <2>7 DEF LinkInv, BelievedSaved, Tables
    <3>2. CASE t = LastTrace
      <4>1. made'[t].saved = i + 1 /\ made[t].saved = i
        BY <1>7, <3>2 DEF i
      <4>2. r \in db.node \/ r.node = i
        BY <1>9
      <4>3. QED
        BY <1>4, <3>1, <4>1, <4>2
    <3>3. CASE t # LastTrace
      <4>1. made'[t] = made[t]
        BY <1>7, <1>8, <3>3
      <4>2. r \in db.node
        BY <1>9, <2>7, <3>3
      <4>3. QED
        BY <3>1, <4>1, <4>2
    <3>4. QED
      BY <3>2, <3>3
  <2>8. BelievedSaved'
    BY <1>2, <2>5, <2>6, <2>7 DEF BelievedSaved
  <2>9. QED
    BY <2>1, <2>2, <2>4, <2>8 DEF LinkInv
<1>. DEFINE written == [session |-> session, trace |-> LastTrace, node |-> i, of |-> video]
<1>10. /\ written.session = session /\ written.trace = LastTrace
       /\ written.node = i /\ written.of = video
  OBVIOUS
<1>11. CASE db' = WithNode(i, LastTrace, video) /\ connection' = connection /\ connection # "dead"
  <2>1. db'.node = db.node \cup {written}
    BY <1>4, <1>11, StatementFacts
  <2>2. db'.session = db.session /\ db'.target = db.target /\ db'.trace = db.trace
    BY <1>4, <1>11, OtherTables
  <2>. HIDE DEF written
  <2>3. QED
    BY <1>9, <1>10, <1>11, <2>1, <2>2
<1>12. CASE db' = db /\ connection' = connection
  <2>1. CASE connection = "dead"
    BY <1>2, <1>12, <2>1, StatementDead
  <2>. HIDE DEF written
  <2>2. CASE connection # "dead"
    BY <1>9, <1>10, <1>12, <2>2
  <2>3. QED
    BY <2>1, <2>2
<1>13. QED
  BY <1>5, <1>6, <1>11, <1>12

LEMMA LinkStep == MemoryInv /\ LinkInv /\ [Next]_vars => LinkInv'
<1>. SUFFICES ASSUME MemoryInv, LinkInv, [Next]_vars PROVE LinkInv'
  OBVIOUS
<1>0. db \in Tables /\ session \in Nat
  BY DEF MemoryInv, DBType, TypeOK
<1>1. CASE Start \/ Clear
  <2>1. session' = None /\ at' \in {"new", "play"} /\ Forget /\ db' = db
    BY <1>1 DEF Start, Clear
  <2>2. Unsaved'
    BY <2>1, ForgetFacts DEF Unsaved
  <2>3. SessionAt'
    BY <2>1 DEF SessionAt
  <2>4. QED
    BY <2>1, <2>2, <2>3, RowsKept, NothingToAgree DEF LinkInv
<1>2. CASE PostProcessSequence
  <2>1. at' = "ended" /\ UNCHANGED <<session, video, memory>>
    BY <1>2 DEF PostProcessSequence, clock
  <2>2. /\ connection' \in {connection, "dead"}
        /\ db' = db \/ db' = WithEnd
    <3>1. CASE session # None
      BY <1>2, <3>1, ExecuteFacts DEF PostProcessSequence, MemoryInv
    <3>2. CASE session = None
      BY <1>2, <3>2 DEF PostProcessSequence
    <3>3. QED
      BY <3>1, <3>2
  <2>3. /\ db'.session = db.session /\ db'.target = db.target
        /\ db'.trace = db.trace /\ db'.node = db.node
    BY <1>0, <2>2, OtherTables
  <2>4. SessionAt'
    BY <2>1 DEF SessionAt
  <2>5. QED
    BY <2>1, <2>2, <2>3, <2>4, Quiet DEF LinkInv
<1>3. CASE Run
  BY <1>3, RunLink
<1>4. CASE Select
  <2>1. /\ at = "select" /\ at' \in {"insert", "play"} /\ db' = db /\ session' = None
        /\ UNCHANGED memory
    BY <1>4 DEF Select, SelectMax, SelectMissed, SelectFails
  <2>2. Unsaved'
    <3>1. session = None
      BY <2>1 DEF LinkInv, SessionAt
    <3>2. QED
      BY <2>1, <3>1, MemoryKept DEF LinkInv, Unsaved, memory
  <2>3. SessionAt'
    BY <2>1 DEF SessionAt
  <2>4. QED
    BY <2>1, <2>2, <2>3, RowsKept, NothingToAgree DEF LinkInv
<1>5. CASE Insert
  BY <1>5, InsertLink
<1>6. CASE SaveTarget
  BY <1>6, SaveTargetLink
<1>7. CASE SaveTrace
  BY <1>7, SaveTraceLink
<1>8. CASE SaveNode
  BY <1>8, SaveNodeLink
<1>9. CASE SaveNext \/ Saved \/ UNCHANGED vars
  <2>1. UNCHANGED <<database, video, memory>> /\ at' \in {at, "play"}
    BY <1>9 DEF SaveNext, Saved, vars, clock
  <2>2. RowsLinked' /\ BelievedSaved' /\ Unsaved' /\ Own'
    BY <2>1, Quiet DEF database
  <2>3. SessionAt'
    BY <2>1 DEF LinkInv, SessionAt, database
  <2>4. QED
    BY <2>2, <2>3 DEF LinkInv
<1>10. CASE OtherProgram
  <2>1. /\ at \in {"select", "insert"} /\ db' = WithSession(Largest + 1, Others)
        /\ UNCHANGED <<session, at, memory>>
    BY <1>10 DEF OtherProgram, OtherSession
  <2>2. session = None
    BY <2>1 DEF LinkInv, SessionAt
  <2>3. Largest + 1 \in Nat /\ Largest + 1 \notin Numbers /\ Others \in Nat
    BY LargestFacts DEF MemoryInv, Others
  <2>4. RowsLinked'
    BY <2>1, <2>3, SessionAdded DEF LinkInv
  <2>5. Unsaved' /\ SessionAt'
    BY <2>1, MemoryKept DEF LinkInv, Unsaved, SessionAt, memory
  <2>6. QED
    BY <2>1, <2>2, <2>4, <2>5, NothingToAgree DEF LinkInv
<1>11. QED
  BY <1>1, <1>2, <1>3, <1>4, <1>5, <1>6, <1>7, <1>8, <1>9, <1>10 DEF Next

LEMMA LinkAlways == Spec => []LinkInv
<1>1. Init => LinkInv
  BY InitLink
<1>2. MemoryInv /\ LinkInv /\ [Next]_vars => LinkInv'
  BY LinkStep
<1>3. QED
  BY <1>1, <1>2, MemoryAlways, PTL DEF Spec

\* Every row has the row it refers to, of the same video, whatever is refused,
\* missed or interrupted, and whatever other programs do.
THEOREM RowsLinkedAlways == Spec => []RowsLinked
<1>1. LinkInv => RowsLinked
  BY DEF LinkInv
<1>2. QED
  BY <1>1, LinkAlways, PTL

\* What the tracker takes for saved is in the database, and nothing else is.
THEOREM BelievedSavedAlways == Spec => []BelievedSaved
<1>1. LinkInv => BelievedSaved
  BY DEF LinkInv
<1>2. QED
  BY <1>1, LinkAlways, PTL

-----------------------------------------------------------------------------
(* Nothing of a target is left out while nothing goes wrong.               *)

\* The nodes of a trace that count as written have their rows.
Written(t) ==
  \A i \in 0 .. made[t].saved - 1 :
    [session |-> session, trace |-> t, node |-> i, of |-> video] \in db.node

\* While nothing has gone wrong, every trace goes up to the last frame, and all
\* of a target is written, but for what this frame added to its last trace: the
\* others have ended, so that nothing is added to them.
Regular ==
  faults = 0 =>
    /\ connection \in Modes
    /\ \A t \in traces : FrameOfLast(made[t]) = frame
    /\ session = None => saving = DOMAIN targets
    /\ session # None => \A t \in Ids : Written(t)
    /\ \A g \in DOMAIN targets : \A t \in targets[g].traces :
         /\ t # targets[g].last => t \notin traces
         /\ t # targets[g].last \/ g \notin saving => made[t].saved = made[t].length

\* Steps between two frames that write no node.
LEMMA RegularKept ==
  ASSUME MemoryInv, Regular, faults = 0, connection' \in Modes,
         UNCHANGED <<session, video, frame, traces, saving>>, db'.node = db.node,
         Ids' = Ids, DOMAIN targets' = DOMAIN targets,
         \A t \in Ids : /\ made'[t].saved = made[t].saved /\ made'[t].length = made[t].length
                        /\ made'[t].start = made[t].start,
         \A g \in DOMAIN targets : /\ targets'[g].traces = targets[g].traces
                                   /\ targets'[g].last = targets[g].last
  PROVE  Regular'
<1>1. traces \subseteq Ids /\ \A g \in DOMAIN targets : targets[g].traces \subseteq Ids
  BY DEF MemoryInv, TypeOK, Targets
<1>2. \A t \in traces' : FrameOfLast(made'[t]) = frame'
  BY <1>1 DEF Regular, FrameOfLast
<1>3. session' # None => \A t \in Ids' : Written(t)'
  BY DEF Regular, Written
<1>4. \A g \in DOMAIN targets' : \A t \in targets'[g].traces :
        /\ t # targets'[g].last => t \notin traces'
        /\ t # targets'[g].last \/ g \notin saving' => made'[t].saved = made'[t].length
  BY <1>1 DEF Regular
<1>5. session' = None => saving' = DOMAIN targets'
  BY DEF Regular
<1>6. QED
  BY <1>2, <1>3, <1>4, <1>5 DEF Regular

\* A statement that counts as no fault has its effect.
LEMMA NoFault ==
  ASSUME MemoryInv, connection \in Modes, NEW d, NEW ok \in BOOLEAN, Execute(d, ok), faults' = 0
  PROVE  faults = 0 /\ ok /\ db' = d /\ connection' \in Modes
  BY ModesAssumption DEF Execute, Succeeds, Ignored, MemoryInv, TypeOK

LEMMA ForgetRegular ==
  ASSUME Forget, connection' \in Modes, saving' = {}
  PROVE  Regular'
  BY ForgetFacts DEF Regular

\* A target that a trace goes on with gets no other one; the rest of it has ended.
LEMMA AddedTo ==
  ASSUME MemoryInv, NEW target \in Targets, NEW new, NEW n \in Nat, new \subseteq 1 .. n,
         \A t, u \in new : t = u
  PROVE  \/ new = {} /\ AddTraces(target, new) = target
         \/ \E u \in new : /\ AddTraces(target, new).traces = target.traces \cup {u}
                           /\ AddTraces(target, new).last = u
<1>1. CASE new = {}
  BY <1>1 DEF AddTraces
<1>2. CASE new # {}
  <2>1. Max(new) \in new
    <3>1. new \in SUBSET Nat /\ \A t \in new : t <= n
      OBVIOUS
    <3>2. QED
      BY <1>2, <3>1, MaxIn
  <2>2. new = {Max(new)}
    BY <2>1
  <2>. DEFINE more == [target EXCEPT !.traces = @ \cup new]
  <2>3. /\ more.traces = target.traces \cup new
        /\ more \in [traces : SUBSET (Ids \cup 1 .. n), first : Ids, last : Ids, inDB : BOOLEAN]
    BY DEF Targets
  <2>4. AddTraces(target, new) = [more EXCEPT !.last = Max(new)]
    BY <1>2, Zenon DEF AddTraces
  <2>. HIDE DEF more
  <2>5. AddTraces(target, new).traces = more.traces /\ AddTraces(target, new).last = Max(new)
    BY <2>3, <2>4
  <2>6. QED
    BY <2>1, <2>2, <2>3, <2>5
<1>3. QED
  BY <1>1, <1>2

\* The traces after a frame.
LEMMA BlobsExactly ==
  ASSUME TypeOK, NEW f \in Nat, NEW extended \in SUBSET Ids, NEW blobs \in Nat
  PROVE  /\ \A t \in extended : MatchBlobs(f, extended, blobs)[t] = Longer(Later(made[t], f))
         /\ \A t \in Ids \ extended : MatchBlobs(f, extended, blobs)[t] = made[t]
         /\ \A t \in DOMAIN MatchBlobs(f, extended, blobs) \ Ids :
              MatchBlobs(f, extended, blobs)[t] = NewTrace(f)
<1>1. Len(made) \in Nat
  BY LenProperties DEF TypeOK
<1>2. Ids \subseteq 1 .. Len(made) + blobs
  BY <1>1 DEF Ids
<1>3. QED
  BY <1>2 DEF MatchBlobs

LEMMA LongerStart ==
  ASSUME NEW r \in Traces, NEW f \in Nat
  PROVE  Longer(Later(r, f)).start = r.start
<1>1. Later(r, f) \in Traces /\ Later(r, f).start = r.start
  BY DEF Traces, Later
<1>2. \A q \in Traces : Longer(q).start = q.start
  BY DEF Traces, Longer
<1>3. QED
  BY <1>1, <1>2

LEMMA RunRegular ==
  ASSUME MemoryInv, LinkInv, Regular, Run, faults' = 0
  PROVE  Regular'
<1>0. TypeOK /\ Idle /\ LastIn /\ OneTarget /\ at = "play" /\ saving = {} /\ faults \in Nat
  BY DEF MemoryInv, Run, Idle, TypeOK
<1>1. PICK f \in 0 .. LastFrame :
        /\ frame' = f
        /\ \/ RunDark(f)
           \/ \E extended \in SUBSET TracesLeft(f) :
                \E blobs \in 0 .. MaxBlobs - Cardinality(extended) : RunOn(f, extended, blobs)
  BY DEF Run
<1>2. ~RunDark(f)
  BY <1>0 DEF RunDark
<1>3. PICK extended \in SUBSET TracesLeft(f) :
        \E blobs \in 0 .. MaxBlobs - Cardinality(extended) : RunOn(f, extended, blobs)
  BY <1>1, <1>2
<1>4. PICK blobs \in 0 .. MaxBlobs - Cardinality(extended) : RunOn(f, extended, blobs)
  BY <1>3
<1>5. f \in Nat /\ blobs \in Nat /\ extended \subseteq traces /\ extended \in SUBSET Ids
  <2>1. extended \subseteq traces /\ extended \subseteq 1 .. Len(made) /\ Len(made) \in Nat
    BY LenProperties DEF TracesLeft, MemoryInv, TypeOK, Ids
  <2>2. Cardinality(extended) \in Nat
    BY <2>1, SizeOfIds
  <2>3. QED
    BY <2>1, <2>2, TrackerAssumption DEF Ids
<1>6. PICK m : m = MatchBlobs(f, extended, blobs)
  OBVIOUS
<1>7. PICK current : current = extended \cup (DOMAIN m \ Ids)
  OBVIOUS
<1>8. PICK left : left = TargetsLeft(f)
  OBVIOUS
<1>9. PICK toMatch : toMatch = TracesToMatch(m, current)
  OBVIOUS
<1>10. PICK to \in [toMatch -> TargetsToMatch(m, left, f) \cup {None}] :
         /\ faults' = IF Irregular(f, toMatch, to) THEN faults + 1 ELSE faults
         /\ traces' = current
         /\ MatchTargets(m, left, toMatch, to)
         /\ saving' = DOMAIN targets'
         /\ UNCHANGED database
  BY <1>4, <1>6, <1>7, <1>8, <1>9 DEF RunOn
<1>11. faults = 0 /\ f = frame + 1
       /\ \A t, u \in toMatch : to[t] # None /\ to[t] = to[u] => t = u
  BY <1>0, <1>10 DEF Irregular
<1>12. BlobsMatched(m, blobs)
  BY <1>0, <1>5, <1>6, MatchBlobsFacts
<1>13. /\ \A t \in extended : m[t] = Longer(Later(made[t], f))
       /\ \A t \in Ids \ extended : m[t] = made[t]
       /\ \A t \in DOMAIN m \ Ids : m[t] = NewTrace(f)
  <2>1. /\ \A t \in extended : MatchBlobs(f, extended, blobs)[t] = Longer(Later(made[t], f))
        /\ \A t \in Ids \ extended : MatchBlobs(f, extended, blobs)[t] = made[t]
        /\ \A t \in DOMAIN MatchBlobs(f, extended, blobs) \ Ids :
             MatchBlobs(f, extended, blobs)[t] = NewTrace(f)
    BY <1>0, <1>5, BlobsExactly
  <2>2. QED
    BY <1>6, <2>1, Zenon
<1>14. /\ made \in [Ids -> Traces] /\ m \in [DOMAIN m -> Traces] /\ Ids \subseteq DOMAIN m
       /\ Len(m) \in Nat /\ DOMAIN m = 1 .. Len(m) /\ current \subseteq DOMAIN m
  <2>1. made \in [Ids -> Traces] /\ Len(made) \in Nat
    BY <1>0, LenProperties DEF TypeOK, Ids
  <2>2. m \in Seq(Traces) /\ Len(m) = Len(made) + blobs /\ DOMAIN m = 1 .. Len(m)
    BY <1>12 DEF BlobsMatched
  <2>3. m \in [DOMAIN m -> Traces]
    BY <2>2, LenProperties
  <2>4. Ids \subseteq DOMAIN m
    BY <1>5, <2>1, <2>2 DEF Ids
  <2>5. QED
    BY <1>5, <1>7, <2>1, <2>2, <2>3, <2>4
<1>15. /\ DOMAIN made' = DOMAIN m
       /\ \A t \in DOMAIN m : /\ made'[t].start = m[t].start /\ made'[t].length = m[t].length
                              /\ made'[t].saved = m[t].saved
  <2>1. PICK novel : novel = NovelTraces(m, toMatch, to)
    OBVIOUS
  <2>2. made' = [t \in DOMAIN m |->
                   [m[t] EXCEPT !.matched = @ \/ t \in novel \/ (t \in toMatch /\ to[t] # None)]]
    BY <1>10, <2>1 DEF MatchTargets
  <2>3. QED
    BY <1>14, <2>2 DEF Traces
\* Every trace of this frame ends in it.
<1>16. \A t \in current : FrameOfLast(m[t]) = f
  <2>1. ASSUME NEW t \in extended PROVE FrameOfLast(m[t]) = f
    <3>1. made[t] \in Traces /\ FrameOfLast(made[t]) = frame
      BY <1>5, <1>11, <1>14 DEF Regular
    <3>2. m[t].start = made[t].start /\ m[t].length = made[t].length + 1
      BY <1>5, <1>13, <3>1, LongerStart, LongerFacts
    <3>3. made[t].start \in Nat /\ made[t].length \in Nat
      BY <3>1 DEF Traces
    <3>4. frame = made[t].start + made[t].length - 1
      BY <3>1 DEF FrameOfLast
    <3>5. QED
      BY <1>11, <3>2, <3>3, <3>4 DEF FrameOfLast
  <2>2. ASSUME NEW t \in DOMAIN m \ Ids PROVE FrameOfLast(m[t]) = f
    BY <1>5, <1>13 DEF NewTrace, FrameOfLast
  <2>3. QED
    BY <1>7, <2>1, <2>2
<1>17. \A t \in traces' : FrameOfLast(made'[t]) = frame'
  BY <1>1, <1>10, <1>14, <1>15, <1>16 DEF FrameOfLast
\* What was written is not touched.
<1>18. /\ connection' \in Modes /\ session' = session /\ video' = video /\ db' = db
  BY <1>10, <1>11 DEF database, Regular, Run
<1>19. session # None => \A t \in Ids' : Written(t)'
  <2>. SUFFICES ASSUME session # None, NEW t \in Ids' PROVE Written(t)'
    OBVIOUS
  <2>1. Grown
    BY <1>0, RunFacts
  <2>2. CASE t \in Ids
    <3>1. made'[t].saved = made[t].saved
      BY <2>1, <2>2 DEF Grown
    <3>2. Written(t)
      BY <1>11, <2>2 DEF Regular
    <3>3. QED
      BY <1>18, <3>1, <3>2 DEF Written
  <2>3. CASE t \notin Ids
    <3>1. made'[t].saved = 0
      BY <2>1, <2>3 DEF Grown
    <3>2. QED
      BY <3>1 DEF Written
  <2>4. QED
    BY <2>2, <2>3
\* A trace that has ended, of a target whose nodes are all written.
<1>20. ASSUME NEW g \in DOMAIN targets, NEW t \in targets[g].traces, t \notin extended
       PROVE  t \in Ids /\ t \notin traces' /\ made'[t].saved = made'[t].length
  <2>1. t \in Ids /\ t \in DOMAIN m
    BY <1>0, <1>14 DEF TypeOK, Targets
  <2>2. t \notin current /\ m[t] = made[t]
    BY <1>7, <1>13, <1>20, <2>1
  <2>3. made[t].saved = made[t].length
    BY <1>0, <1>11 DEF Regular
  <2>4. QED
    BY <1>10, <1>15, <2>1, <2>2, <2>3
<1>21. PICK novel : novel = NovelTraces(m, toMatch, to)
  OBVIOUS
<1>22. PICK which \in InOrder(novel) :
         targets' = [g \in DOMAIN left \cup NewIds(novel) |->
                      IF g \in DOMAIN left THEN AddTraces(left[g], {t \in toMatch : to[t] = g})
                                           ELSE NewTarget(which[g])]
  BY <1>10, <1>21 DEF MatchTargets
<1>23. DOMAIN left \subseteq DOMAIN targets /\ \A g \in DOMAIN left : left[g] = targets[g]
  BY <1>8 DEF TargetsLeft
<1>24. ASSUME NEW g \in DOMAIN left, NEW t \in targets'[g].traces, t # targets'[g].last
       PROVE  t \notin traces' /\ made'[t].saved = made'[t].length
  <2>1. PICK new : new = {u \in toMatch : to[u] = g}
    OBVIOUS
  <2>2. targets'[g] = AddTraces(targets[g], new) /\ targets[g] \in Targets /\ g # None
    BY <1>0, <1>22, <1>23, <2>1 DEF TypeOK, None
  <2>3. new \subseteq 1 .. Len(m) /\ \A u, v \in new : u = v
    BY <1>9, <1>11, <1>14, <2>1, <2>2 DEF TracesToMatch
  <2>4. CASE new = {} /\ targets'[g] = targets[g]
    <3>1. t \in targets[g].traces /\ t # targets[g].last
      BY <1>24, <2>4
    <3>2. t \notin extended
      BY <1>5, <1>11, <1>23, <3>1 DEF Regular
    <3>3. QED
      BY <1>20, <1>23, <3>1, <3>2
  <2>5. ASSUME NEW u \in new, targets'[g].traces = targets[g].traces \cup {u}, targets'[g].last = u
        PROVE  t \notin traces' /\ made'[t].saved = made'[t].length
    <3>1. t \in targets[g].traces
      BY <1>24, <2>5
    <3>2. g \in TargetsToMatch(m, left, f)
      BY <1>10, <2>1, <2>2, <2>5
    <3>3. FrameOfLast(m[targets[g].last]) # f
      BY <1>23, <3>2 DEF TargetsToMatch
    <3>4. targets[g].last \notin extended
      BY <1>7, <1>16, <3>3
    <3>5. t \notin extended
      BY <1>5, <1>11, <1>23, <3>1, <3>4 DEF Regular
    <3>6. QED
      BY <1>20, <1>23, <3>1, <3>5
  <2>6. QED
    <3>1. MemoryInv /\ Len(m) \in Nat
      BY <1>14
    <3>2. \/ new = {} /\ AddTraces(targets[g], new) = targets[g]
          \/ \E u \in new : /\ AddTraces(targets[g], new).traces = targets[g].traces \cup {u}
                            /\ AddTraces(targets[g], new).last = u
      BY <2>2, <2>3, <3>1, AddedTo
    <3>3. QED
      BY <2>2, <2>4, <2>5, <3>2
<1>25. ASSUME NEW g \in DOMAIN targets', g \notin DOMAIN left, NEW t \in targets'[g].traces
       PROVE  t = targets'[g].last
  <2>1. targets'[g] = NewTarget(which[g])
    BY <1>22, <1>25
  <2>2. \A u : NewTarget(u).traces = {u} /\ NewTarget(u).last = u
    BY DEF NewTarget
  <2>3. QED
    BY <1>25, <2>1, <2>2
<1>26. QED
  BY <1>10, <1>17, <1>18, <1>19, <1>24, <1>25 DEF Regular

LEMMA SaveNodeRegular ==
  ASSUME MemoryInv, LinkInv, Regular, SaveNode, faults' = 0
  PROVE  Regular'
<1>. DEFINE n == made[LastTrace].saved
<1>1. PICK ok \in BOOLEAN : Execute(WithNode(n, LastTrace, video), ok)
  BY DEF SaveNode
<1>2. /\ SavingTurn /\ n < made[LastTrace].length
      /\ made' = [made EXCEPT ![LastTrace].saved = @ + 1]
      /\ UNCHANGED <<session, video, frame, traces, targets, saving>>
  BY DEF SaveNode, clock
<1>3. LastTrace \in Ids /\ made[LastTrace] \in Traces /\ Turn \in saving /\ Turn \in DOMAIN targets
      /\ LastTrace \in targets[Turn].traces
  BY <1>2, TurnFacts
<1>4. made \in [Ids -> Traces] /\ db \in Tables /\ session \in Nat /\ video \in Nat
      /\ n \in Nat /\ LastTrace \in Nat
  <2>1. made \in [Ids -> Traces] /\ db \in Tables /\ session \in Nat /\ video \in Nat
    BY LenProperties DEF MemoryInv, TypeOK, DBType, Ids
  <2>2. n \in Nat
    BY <1>3 DEF Traces
  <2>3. LastTrace \in Nat
    BY <1>3 DEF Ids
  <2>4. QED
    BY <2>1, <2>2, <2>3
<1>5. faults = 0
  BY <1>1 DEF Execute, MemoryInv, TypeOK
<1>6. connection \in Modes
  BY <1>5 DEF Regular
<1>7. db' = WithNode(n, LastTrace, video) /\ connection' \in Modes
  BY <1>1, <1>6, NoFault
<1>8. PICK row : row = [session |-> session, trace |-> LastTrace, node |-> n, of |-> video]
  OBVIOUS
<1>9. /\ Ids' = Ids /\ made'[LastTrace].saved = n + 1
      /\ \A t \in Ids : /\ made'[t].start = made[t].start /\ made'[t].length = made[t].length
                        /\ t # LastTrace => made'[t] = made[t]
  <2>1. Len(made') = Len(made) /\ made'[LastTrace].saved = n + 1
    BY <1>2, NodeMarked
  <2>2. \A t \in Ids : /\ made'[t].start = made[t].start /\ made'[t].length = made[t].length
                       /\ t # LastTrace => made'[t] = made[t]
    BY <1>2, <1>4 DEF Traces
  <2>3. QED
    BY <2>1, <2>2 DEF Ids
<1>. HIDE DEF n
<1>10. db'.node = db.node \cup {row}
  BY <1>4, <1>7, <1>8, StatementFacts
<1>11. \A t \in traces' : FrameOfLast(made'[t]) = frame'
  BY <1>2, <1>5, <1>9 DEF Regular, FrameOfLast, MemoryInv, TypeOK
<1>12. session' # None => \A t \in Ids' : Written(t)'
  <2>. SUFFICES ASSUME session # None, NEW t \in Ids, NEW i \in 0 .. made'[t].saved - 1
                PROVE  [session |-> session, trace |-> t, node |-> i, of |-> video] \in db'.node
    BY <1>2, <1>9 DEF Written
  <2>1. Written(t)
    BY <1>5 DEF Regular
  <2>2. CASE t = LastTrace /\ i = n
    BY <1>8, <1>10, <2>2
  <2>3. CASE ~(t = LastTrace /\ i = n)
    <3>1. i \in 0 .. made[t].saved - 1
      <4>1. CASE t # LastTrace
        BY <1>9, <4>1
      <4>2. CASE t = LastTrace
        <5>1. made[t].saved = n /\ i \in 0 .. n
          BY <1>4, <1>9, <4>2 DEF n
        <5>2. QED
          BY <1>4, <2>3, <4>2, <5>1
      <4>3. QED
        BY <4>1, <4>2
    <3>2. QED
      BY <1>10, <2>1, <3>1 DEF Written
  <2>4. QED
    BY <2>2, <2>3
<1>13. ASSUME NEW g \in DOMAIN targets, NEW t \in targets[g].traces,
              t # targets[g].last \/ g \notin saving
       PROVE  made'[t].saved = made'[t].length
  <2>1. t \in Ids /\ t # LastTrace
    <3>1. g # Turn => t # LastTrace
      BY <1>3 DEF MemoryInv, OneTarget
    <3>2. QED
      BY <1>3, <1>13, <3>1 DEF LastTrace, MemoryInv, TypeOK, Targets
  <2>2. QED
    BY <1>5, <1>9, <1>13, <2>1 DEF Regular
<1>14. QED
  BY <1>2, <1>5, <1>7, <1>11, <1>12, <1>13 DEF Regular

LEMMA RegularStep == MemoryInv /\ LinkInv /\ Regular /\ [Next]_vars => Regular'
<1>. SUFFICES ASSUME MemoryInv, LinkInv, Regular, [Next]_vars, faults' = 0 PROVE Regular'
  BY DEF Regular
<1>0. /\ faults \in Nat /\ connection \in Modes \cup {"dead"} /\ db \in Tables
      /\ session \in Nat /\ video \in Nat
  BY DEF MemoryInv, TypeOK, DBType
<1>. USE DEF clock, memory
<1>1. CASE Start
  BY <1>1, ForgetRegular DEF Start
<1>2. CASE Clear
  <2>1. Forget /\ connection' = connection /\ saving' = {} /\ faults = 0
    BY <1>2 DEF Clear, MemoryInv, Idle
  <2>2. QED
    BY <2>1, ForgetRegular DEF Regular
<1>3. CASE PostProcessSequence
  <2>1. UNCHANGED <<session, video, frame, made, traces, targets, saving>>
    BY <1>3 DEF PostProcessSequence
  <2>2. faults = 0 /\ connection' \in Modes /\ db'.node = db.node
    <3>1. CASE session # None
      <4>1. PICK ok \in BOOLEAN : Execute(WithEnd, ok)
        BY <1>3, <3>1 DEF PostProcessSequence
      <4>2. faults = 0
        BY <1>0, <4>1 DEF Execute
      <4>3. db' = WithEnd /\ connection' \in Modes
        BY <4>1, <4>2, NoFault DEF Regular
      <4>4. QED
        BY <1>0, <4>2, <4>3, OtherTables
    <3>2. CASE session = None
      BY <1>3, <3>2 DEF PostProcessSequence, Regular
    <3>3. QED
      BY <3>1, <3>2
  <2>3. QED
    BY <2>1, <2>2, RegularKept DEF Ids
<1>4. CASE Run
  BY <1>4, RunRegular
<1>5. CASE Select
  <2>1. UNCHANGED <<clock, memory>> /\ SelectMax /\ UNCHANGED <<faults, saving>>
    BY <1>0, <1>5 DEF Select
  <2>2. session' = session
    BY <1>5, <2>1 DEF Select, SelectMax, LinkInv, SessionAt
  <2>3. QED
    BY <2>1, <2>2, RegularKept DEF SelectMax, Ids, Regular
<1>6. CASE Insert
  <2>1. UNCHANGED <<clock, memory>> /\ session = None
    BY <1>6 DEF Insert, LinkInv, SessionAt
  <2>2. /\ InsertSession(video) \/ InsertSessionIgnored
        /\ UNCHANGED faults
    BY <1>0, <1>6 DEF Insert
  <2>3. connection \in Modes /\ connection # "dead"
    BY <2>2, ModesAssumption DEF Regular
  <2>4. InsertSession(video)
    BY <2>2, <2>3 DEF InsertSessionIgnored, Ignored
  <2>5. maxId \in Nat /\ session' = maxId + 1 /\ connection' = connection
    BY <2>4 DEF InsertSession, Succeeds, MemoryInv, TypeOK
  <2>6. session' # None /\ saving' = saving
    BY <1>6, <2>5 DEF Insert, None
  <2>7. \A t \in Ids' : Written(t)'
    BY <2>1 DEF LinkInv, Unsaved, Written, Ids
  <2>8. QED
    BY <2>1, <2>2, <2>3, <2>5, <2>6, <2>7 DEF Regular
<1>7. CASE SaveTarget
  <2>1. PICK ok \in BOOLEAN :
          /\ Execute(WithTarget(Turn, video), ok)
          /\ IF ok THEN targets' = [targets EXCEPT ![Turn].inDB = TRUE] /\ UNCHANGED saving
                   ELSE saving' = saving \ {Turn} /\ UNCHANGED targets
    BY <1>7 DEF SaveTarget
  <2>2. SavingTurn /\ UNCHANGED <<session, video, frame, made, traces>>
    BY <1>7 DEF SaveTarget
  <2>3. faults = 0
    BY <1>0, <2>1 DEF Execute
  <2>4. ok /\ db' = WithTarget(Turn, video) /\ connection' \in Modes
    BY <2>1, <2>3, NoFault DEF Regular
  <2>5. Turn \in Nat
    BY <2>2, TurnFacts DEF MemoryInv, TypeOK
  <2>6. db'.node = db.node
    BY <1>0, <2>4, <2>5, OtherTables
  <2>7. DOMAIN targets' = DOMAIN targets /\ saving' = saving
        /\ \A g \in DOMAIN targets :
             targets'[g].traces = targets[g].traces /\ targets'[g].last = targets[g].last
    BY <2>1, <2>2, <2>4, TargetMarked
  <2>8. QED
    BY <2>2, <2>3, <2>4, <2>6, <2>7, RegularKept DEF Ids
<1>8. CASE SaveTrace
  <2>1. PICK ok \in BOOLEAN :
          /\ Execute(WithTrace(LastTrace, Turn, video), ok)
          /\ IF ok THEN made' = [made EXCEPT ![LastTrace].inDB = TRUE] /\ UNCHANGED saving
                   ELSE saving' = saving \ {Turn} /\ UNCHANGED made
    BY <1>8 DEF SaveTrace
  <2>2. SavingTurn /\ UNCHANGED <<session, video, frame, traces, targets>>
    BY <1>8 DEF SaveTrace
  <2>3. faults = 0
    BY <1>0, <2>1 DEF Execute
  <2>4. ok /\ db' = WithTrace(LastTrace, Turn, video) /\ connection' \in Modes
    BY <2>1, <2>3, NoFault DEF Regular
  <2>5. Turn \in Nat /\ LastTrace \in Nat /\ LastTrace \in Ids
    BY <2>2, TurnFacts DEF MemoryInv, TypeOK, Ids
  <2>6. db'.node = db.node
    BY <1>0, <2>4, <2>5, OtherTables
  <2>7. made \in [Ids -> Traces] /\ saving' = saving /\ made' = [made EXCEPT ![LastTrace].inDB = TRUE]
    BY <2>1, <2>4, LenProperties DEF MemoryInv, TypeOK, Ids
  <2>8. Ids' = Ids
    BY <2>2, <2>7, TraceMarked DEF Ids
  <2>9. \A t \in Ids : /\ made'[t].saved = made[t].saved /\ made'[t].length = made[t].length
                       /\ made'[t].start = made[t].start
    BY <2>7 DEF Traces
  <2>10. QED
    BY <2>2, <2>3, <2>4, <2>6, <2>7, <2>8, <2>9, RegularKept
<1>9. CASE SaveNode
  BY <1>9, SaveNodeRegular
<1>10. CASE SaveNext
  <2>1. /\ UNCHANGED <<database, clock, memory, faults>> /\ SavingTurn
        /\ made[LastTrace].saved = made[LastTrace].length /\ saving' = saving \ {Turn}
    BY <1>10 DEF SaveNext
  <2>2. session # None
    BY <2>1 DEF LinkInv, SessionAt, SavingTurn
  <2>3. UNCHANGED <<session, connection, db>> /\ Ids' = Ids
    BY <2>1 DEF database, Ids
  <2>4. \A t \in Ids : Written(t) => Written(t)'
    BY <2>1, <2>3 DEF Written
  <2>5. \A g \in DOMAIN targets : \A t \in targets[g].traces :
          t # targets[g].last \/ g \notin saving' => made[t].saved = made[t].length
    BY <2>1 DEF Regular, LastTrace
  <2>6. QED
    BY <2>1, <2>2, <2>3, <2>4, <2>5 DEF Regular
<1>11. CASE Saved \/ UNCHANGED vars
  <2>1. UNCHANGED <<session, connection, db, video, frame, made, traces, targets, saving, faults>>
    BY <1>11 DEF Saved, vars, database
  <2>2. QED
    BY <2>1, RegularKept DEF Ids, Regular
<1>12. CASE OtherProgram
  <2>1. /\ db' = WithSession(Largest + 1, Others)
        /\ UNCHANGED <<session, connection, video, frame, made, traces, targets, saving, faults>>
    BY <1>12 DEF OtherProgram, OtherSession
  <2>2. Largest + 1 \in Nat /\ Others \in Nat
    BY LargestFacts DEF MemoryInv, Others
  <2>3. db'.node = db.node
    BY <1>0, <2>1, <2>2, OtherTables
  <2>4. QED
    BY <2>1, <2>3, RegularKept DEF Ids, Regular
<1>13. QED
  BY <1>1, <1>2, <1>3, <1>4, <1>5, <1>6, <1>7, <1>8, <1>9, <1>10, <1>11, <1>12 DEF Next

LEMMA RegularAlways == Spec => []Regular
<1>1. Init => Regular
  <2>. SUFFICES ASSUME Init PROVE Regular
    OBVIOUS
  <2>1. Ids = {}
    BY EmptySeq DEF Init, Ids
  <2>2. QED
    BY <2>1 DEF Init, Regular
<1>2. MemoryInv /\ LinkInv /\ Regular /\ [Next]_vars => Regular'
  BY RegularStep
<1>3. QED
  BY <1>1, <1>2, MemoryAlways, LinkAlways, PTL DEF Spec

\* A set with one element for every number below n has n of them.
LEMMA Counted ==
  ASSUME NEW n \in Nat, NEW S, NEW row \in [0 .. n - 1 -> S],
         \A i, j \in 0 .. n - 1 : row[i] = row[j] => i = j,
         \A r \in S : \E i \in 0 .. n - 1 : row[i] = r
  PROVE  Cardinality(S) = n
<1>1. IsFiniteSet(0 .. n - 1) /\ Cardinality(0 .. n - 1) = n
  <2>1. /\ IsFiniteSet(0 .. n - 1)
        /\ Cardinality(0 .. n - 1) = IF 0 > n - 1 THEN 0 ELSE (n - 1) - 0 + 1
    BY FS_Interval
  <2>2. QED
    BY <2>1
<1>2. row \in Bijection(0 .. n - 1, S)
  BY DEF Bijection, Injection, Surjection, IsInjective
<1>3. ExistsBijection(0 .. n - 1, S)
  BY <1>2 DEF ExistsBijection
<1>4. QED
  BY <1>1, <1>3, FS_Bijection

\* As long as every frame follows the last one, none is dark, no two traces go to
\* one target in a frame and no statement fails, every node of every target is in
\* the database after every frame, though only the last trace of a target is saved.
THEOREM AllSavedAlways == Spec => []AllSaved
<1>1. MemoryInv /\ LinkInv /\ Regular => AllSaved
  <2>. SUFFICES ASSUME MemoryInv, LinkInv, Regular, faults = 0, at = "play",
                       NEW g \in DOMAIN targets, NEW t \in targets[g].traces
                PROVE  Cardinality({r \in db.node : r.session = session /\ r.trace = t})
                         = made[t].length
    BY DEF AllSaved
  <2>. DEFINE rows == {r \in db.node : r.session = session /\ r.trace = t}
              n == made[t].length
              row == [i \in 0 .. n - 1 |-> [session |-> session, trace |-> t, node |-> i, of |-> video]]
  <2>1. saving = {} /\ session # None /\ connection # "dead" /\ t \in Ids /\ made[t] \in Traces
    <3>1. saving = {}
      BY DEF MemoryInv, Idle
    <3>2. session # None /\ connection # "dead"
      BY <3>1, ModesAssumption DEF Regular
    <3>3. t \in Ids /\ made \in [Ids -> Traces]
      BY LenProperties DEF MemoryInv, TypeOK, Targets, Ids
    <3>4. QED
      BY <3>1, <3>2, <3>3
  <2>2. n \in Nat /\ made[t].saved = n
    BY <2>1 DEF Traces, Regular
  <2>3. \A i \in 0 .. n - 1 :
          [session |-> session, trace |-> t, node |-> i, of |-> video] \in db.node
    BY <2>1, <2>2 DEF Regular, Written
  <2>4. ASSUME NEW r \in rows
        PROVE  /\ r = [session |-> session, trace |-> t, node |-> r.node, of |-> video]
               /\ r.node \in 0 .. n - 1
    <3>1. /\ r \in [session : Nat, trace : Nat, node : Nat, of : Nat] /\ r \in db.node
          /\ r.session = session /\ r.trace = t
      BY DEF MemoryInv, DBType, Tables
    <3>2. r.node < n
      BY <2>1, <2>2, <3>1 DEF LinkInv, BelievedSaved
    <3>3. r.of = video
      <4>1. PICK x \in db.trace : x.session = r.session /\ x.trace = r.trace /\ x.of = r.of
        BY <3>1 DEF LinkInv, RowsLinked
      <4>2. [session |-> x.session, target |-> x.target, of |-> x.of] \in db.target
        BY DEF LinkInv, RowsLinked
      <4>3. [session |-> session, of |-> r.of] \in db.session
        BY <3>1, <4>1, <4>2 DEF LinkInv, RowsLinked
      <4>4. [session |-> session, of |-> video] \in db.session
        BY <2>1 DEF LinkInv, Own
      <4>5. QED
        BY <4>3, <4>4 DEF LinkInv, RowsLinked
    <3>4. QED
      BY <2>2, <3>1, <3>2, <3>3
  <2>5. row \in [0 .. n - 1 -> rows]
    <3>1. \A i \in 0 .. n - 1 : row[i] \in rows
      BY <2>3
    <3>2. QED
      BY <3>1
  <2>6. \A i, j \in 0 .. n - 1 : row[i] = row[j] => i = j
    <3>1. \A i \in 0 .. n - 1 : row[i].node = i
      OBVIOUS
    <3>2. QED
      BY <3>1
  <2>7. \A r \in rows : \E i \in 0 .. n - 1 : row[i] = r
    <3>1. \A i \in 0 .. n - 1 : row[i] = [session |-> session, trace |-> t, node |-> i, of |-> video]
      OBVIOUS
    <3>. HIDE DEF row, rows
    <3>2. QED
      BY <2>4, <3>1
  <2>. HIDE DEF row, n, rows
  <2>8. Cardinality(rows) = n
    BY <2>2, <2>5, <2>6, <2>7, Counted
  <2>9. QED
    BY <2>8 DEF rows, n
<1>2. QED
  BY <1>1, MemoryAlways, LinkAlways, RegularAlways, PTL
=============================================================================
