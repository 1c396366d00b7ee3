-------------------------- MODULE MultiVideoProofs --------------------------
(***************************************************************************)
(* Proofs about MultiVideo, for every list of files and every start and    *)
(* end time: the position is kept, no frame is skipped, and a plain list   *)
(* is a Video.                                                             *)
(***************************************************************************)
EXTENDS MultiVideo, MinMaxLemmas

\* Start[files] from the first file that is left: where a file begins.
Begins(v) == Start[files][v] - Start[files][from]

-----------------------------------------------------------------------------
(* The operators of the model.                                             *)

\* Min and Max of two numbers, as ReadFrame and TimeToFrame use them.
LEMMA MinPair ==
  ASSUME NEW a \in Int, NEW b \in Int
  PROVE  Min({a, b}) = IF a <= b THEN a ELSE b
BY DEF Min

LEMMA MaxPair ==
  ASSUME NEW a \in Int, NEW b \in Int
  PROVE  Max({a, b}) = IF a >= b THEN a ELSE b
BY DEF Max

\* The files of a list and the frames reported before each of them.
LEMMA ListFacts ==
  ASSUME NEW f \in Lists, f # <<>>
  PROVE  /\ Len(f) \in Nat
         /\ \A v \in 1 .. Len(f) : /\ f[v] \in Files
                                   /\ Start[f][v + 1] = Start[f][v] + f[v].count
         /\ \A v \in 1 .. Len(f) + 1 : Start[f][v] \in Nat
<1>1. f \in Seq(Files)
  BY ListAssumption
<1>2. Len(f) \in Nat /\ \A v \in 1 .. Len(f) : f[v] \in Files
  BY <1>1
<1>3. Len(f) \in 1 .. Len(f)
  BY <1>1, <1>2
<1>4. /\ \A v \in 1 .. Len(f) : /\ Start[f][v] \in Nat
                                /\ Start[f][v + 1] = Start[f][v] + f[v].count
  BY StartAssumption
<1>5. \A v \in 1 .. Len(f) : f[v].count \in Nat
  BY <1>2 DEF Files
<1>6. Start[f][Len(f) + 1] \in Nat
  BY <1>3, <1>4, <1>5
<1>7. QED
  BY <1>2, <1>4, <1>6

\* The offsets of a list never decrease.
LEMMA StartMono ==
  ASSUME NEW f \in Lists, f # <<>>,
         NEW u \in 1 .. Len(f) + 1, NEW w \in u .. Len(f) + 1
  PROVE  Start[f][u] <= Start[f][w]
<1>. DEFINE Less == {x \in u .. Len(f) + 1 : Start[f][x] < Start[f][u]}
<1>1. Len(f) \in Nat
  BY ListFacts
<1>2. SUFFICES ASSUME Less # {} PROVE FALSE
  <2>1. w \notin Less
    BY <1>2
  <2>2. Start[f][u] \in Nat /\ Start[f][w] \in Nat
    BY ListFacts
  <2>3. QED
    BY <2>1, <2>2
<1>3. Less \in SUBSET Nat
  BY <1>1
<1>4. PICK m \in Less : \A y \in Less : m <= y
  BY <1>2, <1>3, MinIn
<1>5. m # u
  <2>1. Start[f][u] \in Nat
    BY ListFacts
  <2>2. QED
    BY <1>4, <2>1
<1>6. m - 1 \in u .. Len(f) /\ m - 1 \in 1 .. Len(f) /\ (m - 1) + 1 = m
  BY <1>1, <1>4, <1>5
<1>7. /\ Start[f][m] = Start[f][m - 1] + f[m - 1].count
      /\ f[m - 1].count \in Nat
      /\ Start[f][m - 1] \in Nat /\ Start[f][u] \in Nat
  BY <1>6, ListFacts DEF Files
<1>8. Start[f][m - 1] < Start[f][u]
  BY <1>4, <1>7
<1>9. m - 1 \in Less
  BY <1>1, <1>6, <1>8
<1>10. QED
  BY <1>4, <1>6, <1>9

\* A frame that is looked for in a video is one of it, or its end.
LEMMA SoughtFacts ==
  ASSUME NEW v \in Nat, files[v] \in Files, NEW n \in Nat
  PROVE  /\ Sought(v, n) \in [vid : Nat, number : Nat \cup {-1}]
         /\ Sought(v, n).vid = v
         /\ Sought(v, n).number >= 0
         /\ n < files[v].frames => Sought(v, n).number = n
<1>1. files[v].frames \in Nat
  BY DEF Files
<1>2. Min({n, files[v].frames}) = IF n <= files[v].frames THEN n ELSE files[v].frames
  BY <1>1, MinPair
<1>3. QED
  BY <1>1, <1>2 DEF Sought

LEMMA TimeToFrameType ==
  ASSUME NEW v \in Nat, files[v] \in Files, NEW t \in Nat
  PROVE  TimeToFrame(v, t) \in Nat
<1>1. files[v].time \in Nat
  BY DEF Files
<1>2. Max({0, t - files[v].time}) = IF 0 >= t - files[v].time THEN 0 ELSE t - files[v].time
  BY <1>1, MaxPair
<1>3. QED
  BY <1>1, <1>2 DEF TimeToFrame

\* FilterVideos leaves a range of the files.
LEMMA KeptFacts ==
  ASSUME files \in Lists
  PROVE  /\ KeptFrom \in Nat /\ 1 <= KeptFrom
         /\ KeptTo(KeptFrom) \in Nat /\ KeptTo(KeptFrom) <= Len(files) + KeptFrom
         /\ KeptFrom <= KeptTo(KeptFrom) => KeptTo(KeptFrom) <= Len(files)
<1>. DEFINE Late == {1} \cup {v \in 2 .. Len(files) : \A w \in 2 .. v : files[w].time < startTime}
<1>1. Len(files) \in Nat
  BY ListAssumption
<1>2. KeptFrom \in Nat /\ 1 <= KeptFrom
  <2>1. Late \in SUBSET Nat /\ Late # {} /\ 1 \in Late
    BY <1>1
  <2>2. Len(files) + 1 \in Nat /\ \A x \in Late : x <= Len(files) + 1
    BY <1>1
  <2>3. Max(Late) \in Late
    BY <2>1, <2>2, MaxIn
  <2>4. QED
    BY <2>1, <2>3 DEF KeptFrom
<1>. DEFINE lo == KeptFrom
            Early == {lo - 1} \cup {v \in lo .. Len(files) : \A w \in lo .. v : files[w].time <= endTime}
<1>3. CASE endTime = NoTime
  BY <1>1, <1>2, <1>3 DEF KeptTo
<1>4. CASE endTime # NoTime
  <2>1. Early \in SUBSET Nat /\ Early # {}
    BY <1>1, <1>2
  <2>2. Len(files) + lo \in Nat /\ \A x \in Early : x <= Len(files) + lo
    BY <1>1, <1>2
  <2>3. Max(Early) \in Early
    BY <2>1, <2>2, MaxIn
  <2>4. KeptTo(lo) = Max(Early)
    BY <1>4 DEF KeptTo
  <2>5. QED
    BY <1>1, <1>2, <2>3, <2>4
<1>5. QED
  BY <1>3, <1>4

-----------------------------------------------------------------------------
(* The inductive invariant.  The position and the count are offsets of the  *)
(* list; in a plain list no video but the last is ever left at its end,     *)
(* which is why the next frame is always one further.                       *)

CountKept ==
  Playing =>
    /\ offset = Begins(vidIt)
    /\ \E v \in vidIt + 1 .. to + 1 : frameCount = Begins(v)
    /\ metadata => frameCount = Total

NumberKept ==
  /\ at = "loaded" => vidIt = from
  /\ at = "reading" => inner.number >= 0
  /\ at = "reading" /\ Plain =>
       /\ inner.number <= files[vidIt].frames
       /\ vidIt # to => inner.number < files[vidIt].frames

IInv == TypeOK /\ CountKept /\ NumberKept

\* What is known of a list that is played.
LEMMA PlayingFacts ==
  ASSUME TypeOK, Playing
  PROVE  /\ files \in Lists /\ files # <<>> /\ Len(files) \in Nat
         /\ from \in 1 .. Len(files) /\ to \in from .. Len(files) /\ vidIt \in from .. to
         /\ \A v \in from .. to : /\ v \in Nat /\ files[v] \in Files
                                  /\ files[v].count \in Nat /\ files[v].frames \in Nat
                                  /\ Begins(v + 1) = Begins(v) + files[v].count
         /\ \A v \in from .. to + 1 : Begins(v) \in Nat
         /\ Begins(from) = 0
         /\ Total = Begins(to + 1)
         /\ \A u, w \in from .. to + 1 : u <= w => Begins(u) <= Begins(w)
<1>1. files \in Lists /\ Len(files) \in Nat
  BY ListAssumption DEF TypeOK
<1>2. /\ from \in 1 .. Len(files) /\ to \in from .. Len(files) /\ vidIt \in from .. to
  BY <1>1 DEF TypeOK, Playing
<1>3. files # <<>>
  BY <1>1, <1>2
<1>4. \A v \in from .. to : v \in Nat /\ v \in 1 .. Len(files) /\ v \in 1 .. Len(files) + 1
  BY <1>1, <1>2
<1>5. \A v \in from .. to : /\ files[v] \in Files /\ files[v].count \in Nat /\ files[v].frames \in Nat
                            /\ Start[files][v + 1] = Start[files][v] + files[v].count
                            /\ Start[files][v] \in Nat
  BY <1>1, <1>3, <1>4, ListFacts DEF Files
<1>6. \A v \in from .. to + 1 : v \in 1 .. Len(files) + 1 /\ Start[files][v] \in Nat
  BY <1>1, <1>2, <1>3, ListFacts
<1>7. \A u, w \in from .. to + 1 : u <= w => Start[files][u] <= Start[files][w]
  <2>1. SUFFICES ASSUME NEW u \in from .. to + 1, NEW w \in from .. to + 1, u <= w
                 PROVE  Start[files][u] <= Start[files][w]
    OBVIOUS
  <2>2. u \in 1 .. Len(files) + 1 /\ w \in u .. Len(files) + 1
    BY <1>1, <1>2, <2>1
  <2>3. QED
    BY <1>1, <1>3, <2>2, StartMono
<1>8. Start[files][from] \in Nat /\ from \in from .. to + 1
  BY <1>2, <1>5
<1>9. \A v \in from .. to + 1 : Begins(v) \in Nat
  BY <1>2, <1>6, <1>7, <1>8 DEF Begins
<1>10. \A v \in from .. to : Begins(v + 1) = Begins(v) + files[v].count
  BY <1>5, <1>8 DEF Begins
<1>11. Begins(from) = 0 /\ Total = Begins(to + 1)
  BY <1>8 DEF Begins, Total
<1>12. \A u, w \in from .. to + 1 : u <= w => Begins(u) <= Begins(w)
  BY <1>6, <1>7, <1>8 DEF Begins
<1>13. QED
  BY <1>1, <1>2, <1>3, <1>4, <1>5, <1>9, <1>10, <1>11, <1>12

\* Entering a video keeps the count one of the offsets after it.
LEMMA CountEntering ==
  ASSUME IInv, Playing, NEW v \in from .. to
  PROVE  /\ \E w \in v + 1 .. to + 1 : CountWith(Begins(v), v) = Begins(w)
         /\ CountWith(Begins(v), v) \in Nat
         /\ metadata => CountWith(Begins(v), v) = Total
<1>0. TypeOK
  BY DEF IInv
<1>1. /\ from \in Nat /\ to \in Nat /\ vidIt \in from .. to /\ files[v].count \in Nat
      /\ Begins(v + 1) = Begins(v) + files[v].count
      /\ \A w \in from .. to + 1 : Begins(w) \in Nat
      /\ Total = Begins(to + 1)
      /\ \A u, w \in from .. to + 1 : u <= w => Begins(u) <= Begins(w)
  BY <1>0, PlayingFacts
<1>2. PICK w \in vidIt + 1 .. to + 1 : frameCount = Begins(w)
  BY DEF IInv, CountKept
<1>3. metadata => frameCount = Total
  BY DEF IInv, CountKept
<1>4. /\ v \in from .. to + 1 /\ v + 1 \in from .. to + 1 /\ w \in from .. to + 1 /\ to + 1 \in from .. to + 1
      /\ v + 1 \in v + 1 .. to + 1 /\ v + 1 <= to + 1
  BY <1>1
<1>5. /\ Begins(v) \in Nat /\ Begins(w) \in Nat /\ Begins(v + 1) \in Nat /\ Begins(to + 1) \in Nat
      /\ Begins(v + 1) <= Begins(to + 1)
  BY <1>1, <1>4
<1>6. CASE frameCount <= Begins(v)
  <2>1. CountWith(Begins(v), v) = Begins(v + 1)
    BY <1>1, <1>6 DEF CountWith
  <2>2. metadata => Begins(v + 1) = Begins(to + 1)
    BY <1>1, <1>3, <1>5, <1>6
  <2>3. QED
    BY <1>1, <1>4, <1>5, <2>1, <2>2
<1>7. CASE ~(frameCount <= Begins(v))
  <2>1. CountWith(Begins(v), v) = Begins(w)
    BY <1>2, <1>7 DEF CountWith
  <2>2. ~(w <= v)
    BY <1>1, <1>2, <1>4, <1>5, <1>7
  <2>3. w \in v + 1 .. to + 1
    BY <1>1, <1>4, <2>2
  <2>4. QED
    BY <1>2, <1>3, <1>5, <2>1, <2>3
<1>8. QED
  BY <1>6, <1>7

\* The search for frame i from video v ends at the video the frame is in, or
\* past the last one.
LEMMA SearchFacts ==
  ASSUME TypeOK, Playing, NEW v \in from .. to,
         NEW i \in Nat, Begins(v) <= i, Search(i, v, Begins(v))
  PROVE  \/ /\ i >= Total
            /\ vidIt' = to + 1 /\ offset' = Total /\ at' = "failed" /\ inner' = inner
         \/ /\ i < Total
            /\ vidIt' \in v .. to /\ at' = "reading"
            /\ offset' = Begins(vidIt') /\ Begins(vidIt') <= i /\ i < Begins(vidIt' + 1)
            /\ inner' = Sought(vidIt', i - Begins(vidIt'))
<1>. DEFINE ahead == {w \in v .. to : i < Begins(w + 1)}
            found == IF ahead = {} THEN to + 1 ELSE Min(ahead)
<1>1. /\ from \in Nat /\ to \in Nat
      /\ \A w \in from .. to + 1 : Begins(w) \in Nat
      /\ Total = Begins(to + 1)
      /\ \A u, w \in from .. to + 1 : u <= w => Begins(u) <= Begins(w)
      /\ files \in Lists /\ files # <<>> /\ from \in 1 .. Len(files) /\ to \in from .. Len(files)
      /\ Len(files) \in Nat
  BY PlayingFacts
<1>2. \A w \in from .. to + 1 : Start[files][w] \in Nat
  <2>1. \A w \in from .. to + 1 : w \in 1 .. Len(files) + 1
    BY <1>1
  <2>2. QED
    BY <1>1, <2>1, ListFacts
<1>3. \A w \in v .. to + 1 : Begins(v) + Start[files][w] - Start[files][v] = Begins(w)
  <2>1. SUFFICES ASSUME NEW w \in v .. to + 1
                 PROVE  Begins(v) + Start[files][w] - Start[files][v] = Begins(w)
    OBVIOUS
  <2>2. w \in from .. to + 1 /\ v \in from .. to + 1 /\ from \in from .. to + 1
    BY <1>1, <2>1
  <2>3. Start[files][w] \in Nat /\ Start[files][v] \in Nat /\ Start[files][from] \in Nat
    BY <1>2, <2>2
  <2>4. QED
    BY <2>3 DEF Begins
<1>4. {w \in v .. to : i < Begins(v) + Start[files][w + 1] - Start[files][v]} = ahead
  <2>1. \A w \in v .. to : w + 1 \in v .. to + 1
    BY <1>1
  <2>2. QED
    BY <1>3, <2>1
<1>5. /\ vidIt' = found
      /\ offset' = Begins(v) + Start[files][found] - Start[files][v]
      /\ IF ahead = {}
         THEN at' = "failed" /\ UNCHANGED inner
         ELSE /\ at' = "reading"
              /\ inner' = Sought(found, i - (Begins(v) + Start[files][found] - Start[files][v]))
  BY <1>4 DEF Search
<1>6. CASE ahead = {}
  <2>1. to \in v .. to /\ to + 1 \in v .. to + 1
    BY <1>1
  <2>2. i >= Begins(to + 1)
    <3>1. ~(i < Begins(to + 1))
      BY <1>6, <2>1
    <3>2. to + 1 \in from .. to + 1
      BY <1>1
    <3>3. QED
      BY <1>1, <3>1, <3>2
  <2>3. QED
    BY <1>1, <1>3, <1>5, <1>6, <2>1, <2>2
<1>7. CASE ahead # {}
  <2>1. ahead \in SUBSET Nat
    BY <1>1
  <2>2. /\ found \in v .. to /\ i < Begins(found + 1)
        /\ \A y \in v .. to : i < Begins(y + 1) => found <= y
    <3>1. found \in ahead /\ \A y \in ahead : found <= y
      BY <1>7, <2>1, MinIn
    <3>2. QED
      BY <3>1
  <2>. HIDE DEF found
  <2>3. found \in v .. to /\ found \in v .. to + 1 /\ i < Begins(found + 1)
        /\ found + 1 \in from .. to + 1 /\ to + 1 \in from .. to + 1 /\ found + 1 <= to + 1
        /\ found \in from .. to + 1
    BY <1>1, <2>2
  <2>4. Begins(found) <= i
    <3>1. CASE found = v
      BY <3>1
    <3>2. CASE found # v
      <4>1. found - 1 \in v .. to /\ (found - 1) + 1 = found
        BY <1>1, <2>3, <3>2
      <4>2. ~(i < Begins(found)) /\ Begins(found) \in Nat
        <5>1. i < Begins((found - 1) + 1) => found <= found - 1
          BY <2>2, <4>1
        <5>2. ~(found <= found - 1)
          BY <1>1, <2>2
        <5>3. ~(i < Begins(found))
          BY <4>1, <5>1, <5>2
        <5>4. QED
          BY <1>1, <2>3, <5>3
      <4>3. QED
        BY <4>2
    <3>3. QED
      BY <3>1, <3>2
  <2>5. i < Total
    <3>1. Begins(found + 1) <= Begins(to + 1) /\ Begins(found + 1) \in Nat /\ Begins(to + 1) \in Nat
      BY <1>1, <2>3
    <3>2. QED
      BY <1>1, <2>3, <3>1
  <2>6. Begins(v) + Start[files][found] - Start[files][v] = Begins(found)
    BY <1>3, <2>3
  <2>7. QED
    BY <1>5, <1>7, <2>3, <2>4, <2>5, <2>6
<1>8. QED
  BY <1>6, <1>7

\* ReadFrame shows frame i of the list, and fails past its end.
LEMMA ReadFrameFacts ==
  ASSUME IInv, NEW n \in 0 .. MaxFrame, ReadFrame(n)
  PROVE  /\ Playing /\ Skipped \in Nat
         /\ \/ /\ n + Skipped >= Total
               /\ vidIt' = to + 1 /\ offset' = Total /\ at' = "failed" /\ inner' = inner
            \/ /\ n + Skipped < Total
               /\ vidIt' \in from .. to /\ at' = "reading"
               /\ offset' = Begins(vidIt')
               /\ Begins(vidIt') <= n + Skipped /\ n + Skipped < Begins(vidIt' + 1)
               /\ inner' = Sought(vidIt', (n + Skipped) - Begins(vidIt'))
         /\ \/ UNCHANGED <<vidIt, frameCount, metadata>>
            \/ metadata' = TRUE /\ frameCount' = Total
         /\ UNCHANGED list
<1>1. Playing /\ TypeOK /\ UNCHANGED list
  BY DEF IInv, ReadFrame, Playing, list
<1>2. /\ from \in Nat /\ to \in Nat /\ vidIt \in from .. to /\ from \in from .. to
      /\ vidIt + 1 \in from .. to + 1 /\ to + 1 \in from .. to + 1 /\ vidIt \in from .. to + 1
      /\ files[vidIt].count \in Nat /\ files[from] \in Files
      /\ Begins(vidIt + 1) = Begins(vidIt) + files[vidIt].count
      /\ \A w \in from .. to + 1 : Begins(w) \in Nat
      /\ Begins(from) = 0 /\ Total = Begins(to + 1)
      /\ \A u, w \in from .. to + 1 : u <= w => Begins(u) <= Begins(w)
  <2>1. from \in Nat /\ to \in from .. Len(files) /\ Len(files) \in Nat /\ vidIt \in from .. to
    BY <1>1, PlayingFacts
  <2>2. /\ from \in from .. to /\ vidIt + 1 \in from .. to + 1
        /\ to + 1 \in from .. to + 1 /\ vidIt \in from .. to + 1 /\ to \in Nat
    BY <2>1
  <2>3. QED
    BY <1>1, <2>1, <2>2, PlayingFacts
<1>3. Skipped \in Nat
  <2>1. startTime # NoTime => startTime \in Nat
    BY <1>1 DEF TypeOK
  <2>2. QED
    BY <1>2, <2>1, TimeToFrameType DEF Skipped
<1>4. PICK i \in Nat : i = n + Skipped
  BY <1>3, TimeAssumption
<1>5. offset = Begins(vidIt) /\ (metadata => frameCount = Total)
  BY <1>1 DEF IInv, CountKept
<1>6. Begins(vidIt) \in Nat /\ Begins(vidIt + 1) \in Nat /\ Begins(vidIt + 1) <= Total
  BY <1>2
<1>7. CASE i >= offset /\ i < offset + files[vidIt].count
  <2>1. /\ inner' = Sought(vidIt, i - offset)
        /\ at' = "reading"
        /\ UNCHANGED <<vidIt, offset, frameCount, metadata>>
    BY <1>4, <1>7 DEF ReadFrame
  <2>2. i < Total
    BY <1>2, <1>4, <1>5, <1>6, <1>7
  <2>3. QED
    BY <1>1, <1>2, <1>3, <1>4, <1>5, <1>7, <2>1, <2>2
<1>8. CASE ~(i >= offset /\ i < offset + files[vidIt].count)
  <2>1. /\ metadata' = TRUE
        /\ frameCount' = IF metadata THEN frameCount ELSE Total
        /\ IF FrameNumber > i THEN Search(i, from, 0) ELSE Search(i, vidIt, offset)
    BY <1>4, <1>8 DEF ReadFrame
  <2>2. \/ UNCHANGED <<vidIt, frameCount, metadata>>
        \/ metadata' = TRUE /\ frameCount' = Total
    BY <1>5, <2>1
  <2>. DEFINE Found ==
         \/ /\ i >= Total
            /\ vidIt' = to + 1 /\ offset' = Total /\ at' = "failed" /\ inner' = inner
         \/ /\ i < Total
            /\ vidIt' \in from .. to /\ at' = "reading"
            /\ offset' = Begins(vidIt') /\ Begins(vidIt') <= i /\ i < Begins(vidIt' + 1)
            /\ inner' = Sought(vidIt', i - Begins(vidIt'))
  <2>3. CASE FrameNumber > i
    <3>1. Search(i, from, Begins(from)) /\ Begins(from) <= i
      BY <1>2, <1>4, <2>1, <2>3
    <3>2. Found
      BY <1>1, <1>2, <1>4, <3>1, SearchFacts
    <3>3. QED
      BY <1>1, <1>3, <1>4, <2>2, <3>2
  <2>4. CASE ~(FrameNumber > i)
    <3>1. Search(i, vidIt, Begins(vidIt))
      BY <1>5, <2>1, <2>4
    <3>2. Begins(vidIt) <= i
      <4>1. CASE at = "loaded"
        BY <1>2, <1>4, <4>1 DEF IInv, NumberKept
      <4>2. CASE at = "reading"
        <5>1. inner.number \in Nat
          BY <1>1, <4>2 DEF IInv, NumberKept, TypeOK
        <5>2. QED
          BY <1>4, <1>5, <1>6, <2>4, <5>1 DEF FrameNumber
      <4>3. QED
        BY <1>1, <4>1, <4>2 DEF Playing
    <3>3. \A w \in vidIt .. to : w \in from .. to
      BY <1>2
    <3>4. Found
      BY <1>1, <1>2, <1>4, <3>1, <3>2, <3>3, SearchFacts
    <3>5. QED
      BY <1>1, <1>3, <1>4, <2>2, <3>4
  <2>5. QED
    BY <2>3, <2>4
<1>9. QED
  BY <1>7, <1>8

-----------------------------------------------------------------------------
(* The invariant is kept, one lemma for each operation.                    *)

LEMMA InitInv == Init => IInv
<1>1. SUFFICES ASSUME Init PROVE IInv
  OBVIOUS
<1>2. TypeOK
  BY <1>1, TimeAssumption DEF Init, TypeOK
<1>3. QED
  BY <1>1, <1>2 DEF Init, IInv, CountKept, NumberKept, Playing

LEMMA LoadInv ==
  ASSUME IInv, Load
  PROVE  IInv'
<1>. DEFINE lo == KeptFrom
            hi == KeptTo(lo)
<1>1. TypeOK /\ files \in Lists /\ Len(files) \in Nat
  BY ListAssumption DEF IInv, TypeOK
<1>2. /\ lo \in Nat /\ 1 <= lo /\ hi \in Nat
      /\ lo <= hi => hi <= Len(files)
  BY <1>1, KeptFacts
<1>3. /\ at' = Loaded(lo, hi)
      /\ from' = lo /\ to' = hi /\ vidIt' = lo /\ offset' = 0 /\ metadata' = FALSE
      /\ inner' = IF Loaded(lo, hi) = "loaded" THEN Opened(lo) ELSE inner
      /\ frameCount' = IF Loaded(lo, hi) = "loaded" THEN files[lo].count ELSE 0
      /\ UNCHANGED <<files, startTime, endTime>>
  BY DEF Load
<1>. HIDE DEF lo, hi
<1>4. at' \in {"refused", "failed", "loaded"} /\ (at' = "loaded" => lo <= hi)
  BY <1>2, <1>3 DEF Loaded
<1>5. CASE at' = "loaded"
  <2>1. lo \in 1 .. Len(files) /\ lo \in lo .. hi /\ files # <<>> /\ hi <= Len(files) /\ lo <= hi
    BY <1>1, <1>2, <1>4, <1>5
  <2>2. /\ files[lo] \in Files /\ files[lo].count \in Nat
        /\ Start[files][lo + 1] = Start[files][lo] + files[lo].count
        /\ Start[files][lo] \in Nat
    BY <1>1, <2>1, ListFacts DEF Files
  <2>3. inner' = Opened(lo) /\ frameCount' = files[lo].count
    BY <1>3, <1>5
  <2>4. TypeOK'
    <3>1. Opened(lo) \in [vid : Nat, number : Nat \cup {-1}] /\ Opened(lo).vid = lo
      BY <1>2 DEF Opened
    <3>2. inner' \in [vid : Nat, number : Nat \cup {-1}] /\ inner'.vid = vidIt'
      BY <1>3, <2>3, <3>1
    <3>3. vidIt' \in from' .. to' /\ 1 <= from' /\ from' <= to' /\ to' <= Len(files')
      BY <1>2, <1>3, <2>1
    <3>4. QED
      BY <1>1, <1>2, <1>3, <1>5, <2>2, <2>3, <3>2, <3>3 DEF TypeOK
  <2>5. CountKept'
    <3>1. /\ offset' = Start[files'][vidIt'] - Start[files'][from']
          /\ frameCount' = Start[files'][lo + 1] - Start[files'][from']
      BY <1>3, <2>2, <2>3
    <3>2. lo + 1 \in vidIt' + 1 .. to' + 1
      BY <1>2, <1>3, <2>1
    <3>3. QED
      BY <1>3, <3>1, <3>2 DEF CountKept, Begins
  <2>6. NumberKept'
    BY <1>3, <1>5 DEF NumberKept
  <2>7. QED
    BY <2>4, <2>5, <2>6 DEF IInv
<1>6. CASE at' # "loaded"
  <2>1. TypeOK'
    BY <1>1, <1>2, <1>3, <1>4, <1>6 DEF TypeOK
  <2>2. QED
    BY <1>4, <1>6, <2>1 DEF IInv, CountKept, NumberKept, Playing
<1>7. QED
  BY <1>5, <1>6

\* What the reading operations leave alone.
LEMMA ListKept ==
  ASSUME UNCHANGED list
  PROVE  /\ UNCHANGED <<files, startTime, endTime, from, to>>
         /\ \A v : Begins(v)' = Begins(v)
         /\ Total' = Total
         /\ Plain' <=> Plain
BY DEF list, Begins, Total, Plain

\* A video is read at number k of vidIt'.
LEMMA ReadingInv ==
  ASSUME TypeOK, Playing, UNCHANGED list,
         at' = "reading", vidIt' \in from .. to,
         inner' \in [vid : Nat, number : Nat \cup {-1}], inner'.vid = vidIt', inner'.number >= 0,
         offset' = Begins(vidIt'), frameCount' \in Nat, metadata' \in BOOLEAN,
         \E w \in vidIt' + 1 .. to + 1 : frameCount' = Begins(w),
         metadata' => frameCount' = Total,
         Plain => /\ inner'.number <= files[vidIt'].frames
                  /\ vidIt' # to => inner'.number < files[vidIt'].frames
  PROVE  IInv'
<1>1. /\ UNCHANGED <<files, startTime, endTime, from, to>>
      /\ Total' = Total
      /\ Plain' <=> Plain
  BY ListKept
<1>2. /\ from \in Nat /\ to \in Nat /\ 1 <= from /\ from <= to /\ to <= Len(files)
      /\ \A v \in from .. to + 1 : Begins(v) \in Nat
  BY PlayingFacts
<1>3. vidIt' \in Nat /\ vidIt' \in from .. to + 1
  BY <1>2
<1>4. TypeOK'
  BY <1>1, <1>2, <1>3 DEF TypeOK
<1>5. CountKept'
  <2>1. offset' = Start[files'][vidIt'] - Start[files'][from']
    BY <1>1 DEF Begins
  <2>2. \E w \in vidIt' + 1 .. to' + 1 : frameCount' = Start[files'][w] - Start[files'][from']
    BY <1>1 DEF Begins
  <2>3. QED
    BY <1>1, <2>1, <2>2 DEF CountKept, Begins
<1>6. NumberKept'
  BY <1>1 DEF NumberKept
<1>7. QED
  BY <1>4, <1>5, <1>6 DEF IInv

LEMMA ReadFirstFrameInv ==
  ASSUME IInv, ReadFirstFrame
  PROVE  IInv'
<1>1. Playing /\ TypeOK /\ UNCHANGED list /\ metadata' = metadata /\ at' = "reading"
  BY DEF IInv, ReadFirstFrame
<1>2. /\ from \in Nat /\ from \in from .. to /\ from \in 1 .. Len(files) /\ files[from] \in Files
      /\ files[from].frames \in Nat /\ Begins(from) = 0
  <2>1. from \in from .. to /\ from \in Nat /\ from \in 1 .. Len(files)
    BY <1>1, PlayingFacts
  <2>2. QED
    BY <1>1, <2>1, PlayingFacts
<1>3. vidIt' = from /\ offset' = Begins(vidIt') /\ frameCount' = CountWith(Begins(from), from)
  BY <1>2 DEF ReadFirstFrame
<1>4. /\ \E w \in from + 1 .. to + 1 : frameCount' = Begins(w)
      /\ frameCount' \in Nat
      /\ metadata' => frameCount' = Total
  BY <1>1, <1>2, <1>3, CountEntering
<1>5. /\ inner' \in [vid : Nat, number : Nat \cup {-1}] /\ inner'.vid = from
      /\ inner'.number >= 0 /\ (startTime = NoTime => inner'.number = 0)
  <2>1. CASE startTime = NoTime
    <3>1. inner' = First(from)
      BY <2>1 DEF ReadFirstFrame
    <3>2. QED
      BY <1>2, <3>1 DEF First
  <2>2. CASE startTime # NoTime
    <3>1. inner' = Sought(from, Skipped)
      BY <2>2 DEF ReadFirstFrame
    <3>2. Skipped \in Nat
      <4>1. startTime \in Nat
        BY <1>1, <2>2 DEF TypeOK
      <4>2. QED
        BY <1>2, <2>2, <4>1, TimeToFrameType DEF Skipped
    <3>3. QED
      BY <1>2, <2>2, <3>1, <3>2, SoughtFacts
  <2>3. QED
    BY <2>1, <2>2
<1>6. Plain => inner'.number < files[from].frames /\ inner'.number <= files[from].frames
  <2>1. Plain => startTime = NoTime /\ files[from].frames > 0
    BY <1>2 DEF Plain
  <2>2. QED
    BY <1>2, <1>5, <2>1
<1>7. metadata' \in BOOLEAN
  BY <1>1 DEF TypeOK
<1>8. QED
  BY <1>1, <1>2, <1>3, <1>4, <1>5, <1>6, <1>7, ReadingInv

\* What ReadNextFrame does: the next frame of the video, or the first one of
\* the next video, which there is.
LEMMA ReadNextFrameFacts ==
  ASSUME IInv, ReadNextFrame
  PROVE  /\ Playing /\ TypeOK /\ UNCHANGED list
         /\ metadata' = metadata /\ at = "reading" /\ at' = "reading"
         /\ inner.vid = vidIt /\ inner.number \in Nat /\ vidIt \in from .. to
         /\ \/ /\ inner.number < files[vidIt].frames
               /\ vidIt = to \/ inner.number + 1 < files[vidIt].frames
               /\ vidIt' = vidIt /\ offset' = offset /\ frameCount' = frameCount
               /\ inner' = [vid |-> vidIt, number |-> inner.number + 1]
            \/ /\ vidIt + 1 \in from .. to
               /\ inner.number + 1 >= files[vidIt].frames
               /\ vidIt' = vidIt + 1
               /\ inner' = [vid |-> vidIt + 1, number |-> 0]
               /\ offset' = Begins(vidIt + 1)
               /\ frameCount' = CountWith(Begins(vidIt + 1), vidIt + 1)
<1>1. /\ Playing /\ TypeOK /\ UNCHANGED list /\ metadata' = metadata /\ at = "reading" /\ at' = "reading"
  BY DEF IInv, ReadNextFrame, Playing
<1>2. /\ inner \in [vid : Nat, number : Nat \cup {-1}]
      /\ inner.vid = vidIt /\ inner.number \in Nat
  BY <1>1 DEF IInv, TypeOK, NumberKept
<1>3. /\ from \in Nat /\ to \in Nat /\ vidIt \in from .. to /\ vidIt \in Nat
      /\ files[vidIt].frames \in Nat
      /\ Begins(vidIt + 1) = Begins(vidIt) + files[vidIt].count
  BY <1>1, PlayingFacts
<1>4. Following(inner) = [vid |-> vidIt, number |-> inner.number + 1]
  BY <1>2 DEF Following
<1>5. /\ Over(inner) <=> inner.number >= files[vidIt].frames
      /\ Over(Following(inner)) <=> inner.number + 1 >= files[vidIt].frames
  BY <1>2, <1>4 DEF Over
<1>6. CASE Over(inner) \/ (Over(Following(inner)) /\ vidIt # to)
  <2>1. vidIt # to
    BY <1>6 DEF ReadNextFrame, IsLastFrame
  <2>2. vidIt + 1 \in from .. to
    BY <1>3, <2>1
  <2>3. Advance(offset + files[vidIt].count)
    BY <1>6 DEF ReadNextFrame
  <2>4. offset + files[vidIt].count = Begins(vidIt + 1)
    BY <1>1, <1>3 DEF IInv, CountKept
  <2>5. Advance(Begins(vidIt + 1))
    BY <2>3, <2>4
  <2>6. inner.number + 1 >= files[vidIt].frames
    BY <1>2, <1>3, <1>5, <1>6
  <2>7. QED
    BY <1>1, <1>2, <1>3, <2>2, <2>5, <2>6 DEF Advance, First
<1>7. CASE ~(Over(inner) \/ (Over(Following(inner)) /\ vidIt # to))
  <2>1. inner' = Following(inner) /\ UNCHANGED <<vidIt, offset, frameCount>>
    BY <1>7 DEF ReadNextFrame
  <2>2. inner.number < files[vidIt].frames /\ (vidIt = to \/ inner.number + 1 < files[vidIt].frames)
    BY <1>2, <1>3, <1>5, <1>7
  <2>3. QED
    BY <1>1, <1>2, <1>3, <1>4, <2>1, <2>2
<1>8. QED
  BY <1>6, <1>7

LEMMA ReadNextFrameInv ==
  ASSUME IInv, ReadNextFrame
  PROVE  IInv'
<1>1. /\ Playing /\ TypeOK /\ UNCHANGED list /\ metadata' = metadata /\ at' = "reading"
      /\ inner.number \in Nat /\ vidIt \in from .. to
  BY ReadNextFrameFacts
<1>2. /\ from \in Nat /\ to \in Nat
      /\ \A v \in from .. to : v \in Nat /\ v \in 1 .. Len(files) /\ files[v].frames \in Nat
      /\ files \in Lists /\ Len(files) \in Nat
  <2>1. from \in 1 .. Len(files) /\ to \in from .. Len(files) /\ files \in Lists /\ Len(files) \in Nat
    BY <1>1, PlayingFacts
  <2>2. \A v \in from .. to : v \in Nat /\ files[v].frames \in Nat
    BY <1>1, PlayingFacts
  <2>3. QED
    BY <2>1, <2>2
<1>3. metadata' \in BOOLEAN
  BY <1>1 DEF TypeOK
<1>4. CASE /\ inner.number < files[vidIt].frames
           /\ vidIt = to \/ inner.number + 1 < files[vidIt].frames
           /\ vidIt' = vidIt /\ offset' = offset /\ frameCount' = frameCount
           /\ inner' = [vid |-> vidIt, number |-> inner.number + 1]
  <2>1. /\ offset' = Begins(vidIt') /\ frameCount' \in Nat
        /\ \E w \in vidIt' + 1 .. to + 1 : frameCount' = Begins(w)
        /\ metadata' => frameCount' = Total
    BY <1>1, <1>4 DEF IInv, CountKept, TypeOK
  <2>2. /\ inner' \in [vid : Nat, number : Nat \cup {-1}] /\ inner'.vid = vidIt'
        /\ inner'.number >= 0 /\ inner'.number <= files[vidIt].frames
        /\ vidIt # to => inner'.number < files[vidIt].frames
    BY <1>1, <1>2, <1>4
  <2>3. QED
    BY <1>1, <1>3, <1>4, <2>1, <2>2, ReadingInv
<1>5. CASE /\ vidIt + 1 \in from .. to
           /\ vidIt' = vidIt + 1
           /\ inner' = [vid |-> vidIt + 1, number |-> 0]
           /\ offset' = Begins(vidIt + 1)
           /\ frameCount' = CountWith(Begins(vidIt + 1), vidIt + 1)
  <2>1. /\ \E w \in vidIt' + 1 .. to + 1 : frameCount' = Begins(w)
        /\ frameCount' \in Nat
        /\ metadata' => frameCount' = Total
    BY <1>1, <1>5, CountEntering
  <2>2. /\ inner' \in [vid : Nat, number : Nat \cup {-1}] /\ inner'.vid = vidIt' /\ inner'.number = 0
    BY <1>2, <1>5
  <2>3. Plain => files[vidIt'].frames > 0
    BY <1>2, <1>5 DEF Plain
  <2>4. Plain => /\ inner'.number <= files[vidIt'].frames
                 /\ vidIt' # to => inner'.number < files[vidIt'].frames
    BY <1>2, <1>5, <2>2, <2>3
  <2>5. QED
    BY <1>1, <1>3, <1>5, <2>1, <2>2, <2>4, ReadingInv
<1>6. QED
  BY <1>4, <1>5, ReadNextFrameFacts

\* A frame that is found in a plain list is neither before nor past its video.
LEMMA FoundFacts ==
  ASSUME TypeOK, Playing, NEW v \in from .. to, NEW i \in Nat,
         Begins(v) <= i, i < Begins(v + 1)
  PROVE  /\ Sought(v, i - Begins(v)) \in [vid : Nat, number : Nat \cup {-1}]
         /\ Sought(v, i - Begins(v)).vid = v
         /\ Sought(v, i - Begins(v)).number >= 0
         /\ Plain => /\ Sought(v, i - Begins(v)).number = i - Begins(v)
                     /\ i - Begins(v) < files[v].frames
<1>1. /\ v \in Nat /\ v \in 1 .. Len(files) /\ files[v] \in Files
      /\ files[v].count \in Nat /\ files[v].frames \in Nat
      /\ Begins(v + 1) = Begins(v) + files[v].count /\ Begins(v) \in Nat
  <2>1. from \in 1 .. Len(files) /\ to \in from .. Len(files) /\ Len(files) \in Nat
    BY PlayingFacts
  <2>2. v \in from .. to + 1
    BY <2>1
  <2>3. QED
    BY <2>1, <2>2, PlayingFacts
<1>2. PICK k \in Nat : k = i - Begins(v)
  BY <1>1
<1>3. /\ Sought(v, k) \in [vid : Nat, number : Nat \cup {-1}]
      /\ Sought(v, k).vid = v
      /\ Sought(v, k).number >= 0
      /\ k < files[v].frames => Sought(v, k).number = k
  BY <1>1, SoughtFacts
<1>4. Plain => k < files[v].frames
  <2>1. Plain => files[v].count = files[v].frames
    BY <1>1 DEF Plain
  <2>2. k < files[v].count
    BY <1>1, <1>2
  <2>3. QED
    BY <2>1, <2>2
<1>5. QED
  BY <1>2, <1>3, <1>4

LEMMA ReadFrameInv ==
  ASSUME IInv, NEW n \in 0 .. MaxFrame, ReadFrame(n)
  PROVE  IInv'
<1>1. n \in Nat
  BY TimeAssumption
<1>2. /\ TypeOK /\ Playing /\ UNCHANGED list /\ Skipped \in Nat
      /\ \/ UNCHANGED <<vidIt, frameCount, metadata>>
         \/ metadata' = TRUE /\ frameCount' = Total
  BY ReadFrameFacts DEF IInv
<1>3. PICK i \in Nat : i = n + Skipped
  BY <1>1, <1>2
<1>4. /\ from \in Nat /\ to \in Nat /\ from <= to /\ vidIt \in from .. to
      /\ \A v \in from .. to + 1 : Begins(v) \in Nat
      /\ Total = Begins(to + 1)
  BY <1>2, PlayingFacts
<1>5. /\ frameCount' \in Nat /\ metadata' \in BOOLEAN
      /\ metadata' => frameCount' = Total
  <2>1. to + 1 \in from .. to + 1
    BY <1>4
  <2>2. Total \in Nat
    BY <1>4, <2>1
  <2>3. CASE UNCHANGED <<vidIt, frameCount, metadata>>
    BY <1>2, <2>3 DEF TypeOK, IInv, CountKept
  <2>4. CASE metadata' = TRUE /\ frameCount' = Total
    BY <2>2, <2>4
  <2>5. QED
    BY <1>2, <2>3, <2>4
<1>6. CASE /\ vidIt' = to + 1 /\ offset' = Total /\ at' = "failed" /\ inner' = inner
  <2>1. UNCHANGED <<files, startTime, endTime, from, to>>
    BY <1>2, ListKept
  <2>2. offset' \in Nat /\ vidIt' \in Nat
    BY <1>4, <1>6
  <2>3. TypeOK'
    BY <1>2, <1>5, <1>6, <2>1, <2>2 DEF TypeOK
  <2>4. QED
    BY <1>6, <2>3 DEF IInv, CountKept, NumberKept, Playing
<1>7. CASE /\ i < Total
           /\ vidIt' \in from .. to /\ at' = "reading"
           /\ offset' = Begins(vidIt') /\ Begins(vidIt') <= i /\ i < Begins(vidIt' + 1)
           /\ inner' = Sought(vidIt', i - Begins(vidIt'))
  <2>1. /\ inner' \in [vid : Nat, number : Nat \cup {-1}] /\ inner'.vid = vidIt'
        /\ inner'.number >= 0
        /\ Plain => /\ inner'.number = i - Begins(vidIt')
                    /\ i - Begins(vidIt') < files[vidIt'].frames
    BY <1>2, <1>7, FoundFacts
  <2>2. \E w \in vidIt' + 1 .. to + 1 : frameCount' = Begins(w)
    <3>1. CASE UNCHANGED <<vidIt, frameCount, metadata>>
      BY <1>2, <3>1 DEF IInv, CountKept
    <3>2. CASE frameCount' = Total
      <4>1. to + 1 \in vidIt' + 1 .. to + 1
        <5>1. from \in Nat /\ to \in Nat
          BY <1>4
        <5>2. \A k \in from .. to : to + 1 \in k + 1 .. to + 1
          BY <5>1
        <5>3. QED
          BY <1>7, <5>2
      <4>2. QED
        BY <1>4, <3>2, <4>1
    <3>3. QED
      BY <1>2, <3>1, <3>2
  <2>3. vidIt' \in from .. to + 1 /\ Begins(vidIt') \in Nat
    BY <1>4, <1>7
  <2>4. Plain => /\ inner'.number <= files[vidIt'].frames
                 /\ vidIt' # to => inner'.number < files[vidIt'].frames
    <3>1. files[vidIt'].frames \in Nat
      BY <1>2, <1>7, PlayingFacts
    <3>2. QED
      BY <2>1, <2>3, <3>1
  <2>5. QED
    BY <1>2, <1>5, <1>7, <2>1, <2>2, <2>4, ReadingInv
<1>8. QED
  BY <1>1, <1>2, <1>3, <1>6, <1>7, ReadFrameFacts

LEMMA NextInv == IInv /\ [Next]_vars => IInv'
<1>1. SUFFICES ASSUME IInv, [Next]_vars PROVE IInv'
  OBVIOUS
<1>2. CASE Load
  BY <1>1, <1>2, LoadInv
<1>3. CASE ReadFirstFrame
  BY <1>1, <1>3, ReadFirstFrameInv
<1>4. CASE ReadNextFrame
  BY <1>1, <1>4, ReadNextFrameInv
<1>5. ASSUME NEW n \in 0 .. MaxFrame, ReadFrame(n) PROVE IInv'
  BY <1>1, <1>5, ReadFrameInv
<1>6. CASE UNCHANGED vars
  BY <1>1, <1>6 DEF vars, IInv, TypeOK, CountKept, NumberKept, Playing, Plain, Begins, Total
<1>7. QED
  BY <1>1, <1>2, <1>3, <1>4, <1>5, <1>6 DEF Next

LEMMA Inductive == Spec => []IInv
BY InitInv, NextInv, PTL DEF Spec

-----------------------------------------------------------------------------
(* The theorems.                                                           *)

\* The type invariant: a list that is played keeps its iterator in the files
\* FilterVideos left, and the object that reads is the one of that file.
THEOREM TypeCorrect == Spec => []TypeOK
<1>1. IInv => TypeOK
  BY DEF IInv
<1>2. QED
  BY <1>1, Inductive, PTL

\* Whatever was read before, m_frameOffset counts the frames the files before
\* m_vidIt report, and the frame count covers the frame that is shown.
THEOREM PositionKeptAlways == Spec => []PositionKept
<1>1. ASSUME IInv PROVE PositionKept
  <2>1. SUFFICES ASSUME at = "reading" PROVE PositionKept
    BY DEF PositionKept
  <2>2. TypeOK /\ Playing
    BY <1>1, <2>1 DEF IInv, Playing
  <2>3. /\ from \in Nat /\ to \in Nat /\ vidIt \in from .. to
        /\ files[vidIt].count \in Nat
        /\ Begins(vidIt + 1) = Begins(vidIt) + files[vidIt].count
        /\ \A w \in from .. to + 1 : Begins(w) \in Nat
        /\ \A u, w \in from .. to + 1 : u <= w => Begins(u) <= Begins(w)
    BY <2>2, PlayingFacts
  <2>4. PICK w \in vidIt + 1 .. to + 1 : frameCount = Begins(w)
    BY <1>1, <2>2 DEF IInv, CountKept
  <2>5. offset = Begins(vidIt)
    BY <1>1, <2>2 DEF IInv, CountKept
  <2>6. inner.vid = vidIt /\ inner.number \in Nat
    BY <1>1, <2>1, <2>2 DEF IInv, TypeOK, NumberKept
  <2>7. Begins(vidIt) \in Nat /\ Begins(vidIt + 1) \in Nat /\ Begins(w) \in Nat /\ Begins(vidIt + 1) <= Begins(w)
    BY <2>3
  <2>8. inner.number < files[vidIt].count => FrameNumber < frameCount
    BY <2>3, <2>4, <2>5, <2>6, <2>7 DEF FrameNumber
  <2>9. QED
    BY <2>5, <2>6, <2>8 DEF PositionKept, Begins
<1>2. QED
  BY <1>1, Inductive, PTL

\* ReadNextFrame neither skips nor repeats a frame that can be read, for any
\* files, those that report a wrong number of frames included.
THEOREM NothingSkippedAlways == Spec => NothingSkipped
<1>1. ASSUME IInv, ReadNextFrame
      PROVE  \/ inner'.vid = inner.vid /\ inner'.number = inner.number + 1
             \/ /\ inner'.vid > inner.vid /\ inner'.number = 0
                /\ inner.number + 1 >= files[inner.vid].frames
                /\ \A v \in inner.vid + 1 .. inner'.vid - 1 : files[v].frames = 0
  <2>1. vidIt \in Nat /\ inner.vid = vidIt
    <3>1. TypeOK /\ inner.vid = vidIt
      BY <1>1, ReadNextFrameFacts
    <3>2. QED
      BY <3>1 DEF TypeOK
  <2>2. CASE /\ inner' = [vid |-> vidIt, number |-> inner.number + 1]
    BY <2>1, <2>2
  <2>3. CASE /\ inner' = [vid |-> vidIt + 1, number |-> 0]
             /\ inner.number + 1 >= files[vidIt].frames
    BY <2>1, <2>3
  <2>4. QED
    BY <1>1, <2>2, <2>3, ReadNextFrameFacts
<1>2. QED
  BY <1>1, Inductive, PTL DEF Spec, NothingSkipped

-----------------------------------------------------------------------------
(* The refinement of Video.                                                *)

\* The frame that is shown, which the refinement maps to Video's image.
Shown ==
  IF Over(inner) THEN -1
  ELSE Start[files][inner.vid] - Start[files][from] + inner.number

\* In a plain list the number, the image and the end agree.
Agree ==
  at = "reading" /\ Plain =>
    /\ FrameNumber \in Nat /\ Total \in Nat
    /\ Shown = IF FrameNumber < Total THEN FrameNumber ELSE -1
    /\ IsLastFrame <=> FrameNumber >= Total

LEMMA InvAgree == IInv => Agree
<1>1. SUFFICES ASSUME IInv, at = "reading", Plain PROVE Agree
  BY DEF Agree
<1>2. TypeOK /\ Playing
  BY <1>1 DEF IInv, Playing
<1>3. /\ from \in Nat /\ to \in Nat /\ vidIt \in from .. to
      /\ files[vidIt].count \in Nat
      /\ Begins(vidIt + 1) = Begins(vidIt) + files[vidIt].count
      /\ \A w \in from .. to + 1 : Begins(w) \in Nat
      /\ \A u, w \in from .. to + 1 : u <= w => Begins(u) <= Begins(w)
      /\ Total = Begins(to + 1)
  BY <1>2, PlayingFacts
<1>4. /\ Begins(vidIt) \in Nat /\ Begins(vidIt + 1) \in Nat /\ Total \in Nat
      /\ Begins(vidIt + 1) <= Total
  BY <1>3
<1>5. inner.vid = vidIt /\ inner.number \in Nat
  BY <1>1, <1>2 DEF IInv, TypeOK, NumberKept
<1>6. files[vidIt].frames = files[vidIt].count
  <2>1. from \in 1 .. Len(files) /\ to \in from .. Len(files) /\ Len(files) \in Nat
    BY <1>2, PlayingFacts
  <2>2. vidIt \in 1 .. Len(files)
    BY <1>3, <2>1
  <2>3. QED
    BY <1>1, <2>2 DEF Plain
<1>7. /\ inner.number <= files[vidIt].count
      /\ vidIt # to => inner.number < files[vidIt].count
  BY <1>1, <1>6 DEF IInv, NumberKept
<1>8. offset = Begins(vidIt) /\ FrameNumber = Begins(vidIt) + inner.number
  BY <1>1, <1>2 DEF IInv, CountKept, FrameNumber
<1>9. Over(inner) <=> inner.number >= files[vidIt].count
  BY <1>5, <1>6 DEF Over
<1>10. Over(inner) <=> FrameNumber >= Total
  <2>1. CASE vidIt = to
    BY <1>3, <1>4, <1>5, <1>8, <1>9, <2>1
  <2>2. CASE vidIt # to
    BY <1>3, <1>4, <1>5, <1>7, <1>8, <1>9, <2>2
  <2>3. QED
    BY <2>1, <2>2
<1>11. FrameNumber \in Nat
  BY <1>4, <1>5, <1>8
<1>12. ~Over(inner) => Shown = FrameNumber
  BY <1>5, <1>8 DEF Shown, Begins
<1>13. Shown = IF FrameNumber < Total THEN FrameNumber ELSE -1
  <2>1. CASE Over(inner)
    BY <1>4, <1>10, <1>11, <2>1 DEF Shown
  <2>2. CASE ~Over(inner)
    BY <1>4, <1>10, <1>11, <1>12, <2>2
  <2>3. QED
    BY <2>1, <2>2
<1>14. IsLastFrame <=> FrameNumber >= Total
  <2>1. IsLastFrame <=> vidIt = to /\ Over(inner)
    BY <1>1 DEF IsLastFrame, Plain
  <2>2. Over(inner) => vidIt = to
    BY <1>3, <1>5, <1>7, <1>9
  <2>3. QED
    BY <1>10, <2>1, <2>2
<1>15. QED
  BY <1>4, <1>11, <1>13, <1>14 DEF Agree

\* A step that leaves frame n shown reads n, as Video means it.
LEMMA ReadsFacts ==
  ASSUME Agree', Plain, at' = "reading", UNCHANGED list, NEW n \in Nat, FrameNumber' = n
  PROVE  V!Reads(n)
<1>1. Plain' /\ Total' = Total
  BY ListKept
<1>2. /\ Total' \in Nat
      /\ Shown' = IF FrameNumber' < Total' THEN FrameNumber' ELSE -1
      /\ IsLastFrame' <=> FrameNumber' >= Total'
  BY <1>1 DEF Agree
<1>3. Shown' = IF n < Total THEN n ELSE -1
  BY <1>1, <1>2
<1>4. IsLastFrame' = (n >= Total)
  <2>1. IsLastFrame' \in BOOLEAN
    BY DEF IsLastFrame
  <2>2. QED
    BY <1>1, <1>2, <2>1
<1>5. QED
  BY <1>1, <1>3, <1>4 DEF V!Reads, V!None, Shown

\* A requested frame of a plain list is read, unless it is past the end.
LEMMA RequestFacts ==
  ASSUME IInv, Agree', Plain, NEW n \in 0 .. MaxFrame, ReadFrame(n)
  PROVE  /\ n < Total => at' = "reading"
         /\ at' = "reading" => V!ReadFrame
<1>1. n \in Nat
  BY TimeAssumption
<1>2. n + Skipped = n
  BY <1>1 DEF Plain, Skipped
<1>3. Playing /\ TypeOK /\ UNCHANGED list
  BY ReadFrameFacts DEF IInv
<1>4. \A w \in from .. to + 1 : Begins(w) \in Nat
  BY <1>3, PlayingFacts
<1>5. from \in Nat /\ to \in Nat /\ from <= to /\ Total = Begins(to + 1)
  BY <1>3, PlayingFacts
<1>6. Total \in Nat
  <2>1. to + 1 \in from .. to + 1
    BY <1>5
  <2>2. QED
    BY <1>4, <1>5, <2>1
<1>7. CASE n >= Total /\ at' = "failed"
  BY <1>1, <1>6, <1>7
<1>8. CASE /\ n < Total
           /\ vidIt' \in from .. to /\ at' = "reading"
           /\ offset' = Begins(vidIt') /\ Begins(vidIt') <= n /\ n < Begins(vidIt' + 1)
           /\ inner' = Sought(vidIt', n - Begins(vidIt'))
  <2>1. vidIt' \in from .. to + 1 /\ Begins(vidIt') \in Nat
    BY <1>4, <1>5, <1>8
  <2>2. inner'.number = n - Begins(vidIt')
    BY <1>1, <1>3, <1>8, FoundFacts
  <2>3. FrameNumber' = n
    BY <1>1, <1>8, <2>1, <2>2 DEF FrameNumber
  <2>4. V!Reads(n)
    BY <1>1, <1>3, <1>8, <2>3, ReadsFacts
  <2>5. n \in 0 .. Total - 1
    BY <1>1, <1>6, <1>8
  <2>6. QED
    BY <1>8, <2>4, <2>5 DEF V!ReadFrame
<1>9. QED
  BY <1>2, <1>7, <1>8, ReadFrameFacts

\* Every step to a frame of a plain list is one of Video's.
LEMMA ContractStep ==
  ASSUME IInv, Agree, Agree', Next, Plain, at' = "reading"
  PROVE  V!Next
<1>1. CASE Load
  BY <1>1 DEF Load, Loaded
<1>2. CASE ReadFirstFrame
  <2>1. Playing /\ UNCHANGED list /\ inner' = First(from) /\ offset' = 0
    BY <1>2 DEF ReadFirstFrame, Plain
  <2>2. FrameNumber' = 0
    BY <2>1 DEF First, FrameNumber
  <2>3. V!Reads(0)
    BY <2>1, <2>2, ReadsFacts
  <2>4. QED
    BY <2>3 DEF V!Next, V!ReadFirstFrame
<1>3. CASE ReadNextFrame
  <2>1. Playing /\ TypeOK /\ UNCHANGED list /\ at = "reading" /\ inner.number \in Nat
        /\ vidIt \in from .. to
    BY <1>3, ReadNextFrameFacts
  <2>2. FrameNumber \in Nat
    BY <2>1 DEF Agree
  <2>3. offset = Begins(vidIt) /\ FrameNumber = offset + inner.number
    BY <2>1 DEF IInv, CountKept, FrameNumber
  <2>4. FrameNumber' = FrameNumber + 1
    <3>1. CASE /\ offset' = offset
               /\ inner' = [vid |-> vidIt, number |-> inner.number + 1]
      <4>1. offset \in Nat
        BY <2>1 DEF TypeOK
      <4>2. QED
        BY <2>1, <2>3, <3>1, <4>1 DEF FrameNumber
    <3>2. CASE /\ vidIt + 1 \in from .. to
               /\ inner.number + 1 >= files[vidIt].frames
               /\ inner' = [vid |-> vidIt + 1, number |-> 0]
               /\ offset' = Begins(vidIt + 1)
      <4>1. /\ from \in Nat /\ to \in Nat
            /\ vidIt \in 1 .. Len(files)
            /\ files[vidIt].count \in Nat
            /\ Begins(vidIt + 1) = Begins(vidIt) + files[vidIt].count
        <5>1. from \in 1 .. Len(files) /\ to \in from .. Len(files) /\ Len(files) \in Nat
          BY <2>1, PlayingFacts
        <5>2. vidIt \in 1 .. Len(files)
          BY <2>1, <5>1
        <5>3. QED
          BY <2>1, <5>1, <5>2, PlayingFacts
      <4>2. files[vidIt].count = files[vidIt].frames
        BY <4>1 DEF Plain
      <4>3. inner.number < files[vidIt].frames
        <5>1. vidIt # to
          BY <2>1, <3>2, <4>1
        <5>2. QED
          BY <2>1, <5>1 DEF IInv, NumberKept
      <4>4. files[vidIt].count = inner.number + 1
        BY <2>1, <3>2, <4>1, <4>2, <4>3
      <4>5. offset \in Nat
        BY <2>1 DEF TypeOK
      <4>6. QED
        BY <2>1, <2>3, <3>2, <4>1, <4>4, <4>5 DEF FrameNumber
    <3>3. QED
      BY <1>3, <3>1, <3>2, ReadNextFrameFacts
  <2>5. FrameNumber + 1 \in Nat
    BY <2>2
  <2>6. V!Reads(FrameNumber + 1)
    BY <2>1, <2>4, <2>5, ReadsFacts
  <2>7. ~IsLastFrame
    BY <1>3 DEF ReadNextFrame
  <2>8. QED
    BY <2>6, <2>7 DEF V!Next, V!ReadNextFrame
<1>4. ASSUME NEW n \in 0 .. MaxFrame, ReadFrame(n) PROVE V!Next
  BY <1>4, RequestFacts DEF V!Next
<1>5. QED
  BY <1>1, <1>2, <1>3, <1>4 DEF Next

\* A list of plain videos is one video: every read is a step of Video under the
\* refinement mapping, and every frame of the list can be requested.
THEOREM VideoContractAlways == Spec => VideoContract
<1>1. ASSUME IInv, Agree, Agree', [Next]_vars
      PROVE  [Plain =>
                /\ at' = "reading" => V!Next
                /\ \A n \in 0 .. MaxFrame : ReadFrame(n) /\ n < Total => at' = "reading"]_vars
  <2>1. SUFFICES ASSUME Next, Plain
                 PROVE  /\ at' = "reading" => V!Next
                        /\ \A n \in 0 .. MaxFrame : ReadFrame(n) /\ n < Total => at' = "reading"
    BY <1>1
  <2>2. at' = "reading" => V!Next
    BY <1>1, <2>1, ContractStep
  <2>3. ASSUME NEW n \in 0 .. MaxFrame, ReadFrame(n), n < Total PROVE at' = "reading"
    BY <1>1, <2>1, <2>3, RequestFacts
  <2>4. QED
    BY <2>2, <2>3
<1>2. QED
  BY <1>1, InvAgree, Inductive, PTL DEF Spec, VideoContract
=============================================================================
