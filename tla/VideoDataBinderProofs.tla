----------------------- MODULE VideoDataBinderProofs -----------------------
(***************************************************************************)
(* Proofs about VideoDataBinder, for any videos, any number of frames and  *)
(* any bounds on what is stored, with and without the assertions.          *)
(***************************************************************************)
EXTENDS VideoDataBinder, MinMaxLemmas

-----------------------------------------------------------------------------
(* The list of a video.  The ids of its metadata increase from one to the   *)
(* next, so that the function that follows it is well defined; it returns   *)
(* the least set that holds the metadata it begins with and is closed       *)
(* under "next".                                                            *)

Ascending(d) ==
  /\ Len(d.metas) \in Nat
  /\ \A m \in Ids(d.metas) :
       d.metas[m].next = None \/ (d.metas[m].next \in Ids(d.metas) /\ m < d.metas[m].next)

\* Sets can be collected along a list whose numbers increase.
LEMMA CollectExists ==
  ASSUME NEW n \in Nat, NEW next,
         \A m \in 1 .. n : next[m] = 0 \/ (next[m] \in 1 .. n /\ m < next[m])
  PROVE  \E g : g = [m \in (1 .. n) \cup {0} |-> IF m = 0 THEN {} ELSE {m} \cup g[next[m]]]
<1>. DEFINE D(k) == ((n + 1) - k .. n) \cup {0}
            Collects(g, k) == g = [m \in D(k) |-> IF m = 0 THEN {} ELSE {m} \cup g[next[m]]]
            Bad == {k \in 0 .. n : ~ \E g : Collects(g, k)}
<1>1. Bad = {}
  <2>. SUFFICES ASSUME Bad # {} PROVE FALSE
    OBVIOUS
  <2>1. PICK k \in Bad : \A j \in Bad : k <= j
    <3>1. Bad \in SUBSET Nat
      OBVIOUS
    <3>2. QED
      BY <3>1, MinIn
  <2>2. CASE k = 0
    <3>. DEFINE g == [m \in {0} |-> {}]
    <3>1. D(0) = {0}
      OBVIOUS
    <3>2. Collects(g, 0)
      BY <3>1
    <3>3. QED
      BY <2>1, <2>2, <3>2
  <2>3. CASE k # 0
    <3>. HIDE DEF Collects
    <3>1. k - 1 \in 0 .. n /\ k - 1 \notin Bad
      <4>1. k \in 0 .. n
        BY <2>1
      <4>2. k - 1 \in 0 .. n /\ k - 1 < k
        BY <2>3, <4>1
      <4>3. QED
        <5>. HIDE DEF Bad
        <5>1. QED
          BY <2>1, <4>1, <4>2
    <3>2. PICK g : Collects(g, k - 1)
      BY <3>1
    <3>. USE DEF Collects
    <3>. DEFINE x == (n + 1) - k
                h == [m \in D(k) |-> IF m = x THEN {x} \cup g[next[x]] ELSE g[m]]
    <3>3. x \in 1 .. n /\ D(k) = D(k - 1) \cup {x} /\ x \notin D(k - 1)
      BY <2>1, <2>3
    <3>4. \A m \in D(k) : m # 0 => next[m] \in D(k - 1)
      BY <2>1, <2>3
    <3>5. \A m \in D(k - 1) : h[m] = g[m]
      BY <3>3
    <3>6. \A m \in D(k - 1) : g[m] = IF m = 0 THEN {} ELSE {m} \cup g[next[m]]
      BY <3>2
    <3>. HIDE DEF D
    <3>7. \A m \in D(k) : h[m] = IF m = 0 THEN {} ELSE {m} \cup h[next[m]]
      <4>1. ASSUME NEW m \in D(k - 1) PROVE h[m] = IF m = 0 THEN {} ELSE {m} \cup h[next[m]]
        <5>1. m # 0 => next[m] \in D(k - 1)
          BY <3>3, <3>4, <4>1
        <5>. HIDE DEF h
        <5>2. QED
          BY <3>5, <3>6, <4>1, <5>1
      <4>2. h[x] = {x} \cup h[next[x]]
        <5>1. h[x] = {x} \cup g[next[x]] /\ next[x] \in D(k - 1)
          BY <3>3, <3>4
        <5>. HIDE DEF h
        <5>2. QED
          BY <3>5, <5>1
      <4>3. x # 0 /\ \A m \in D(k) : m = x \/ m \in D(k - 1)
        BY <3>3
      <4>. HIDE DEF h, x, Collects
      <4>4. QED
        BY <4>1, <4>2, <4>3
    <3>8. Collects(h, k)
      BY <3>7
    <3>9. QED
      BY <2>1, <3>8
  <2>4. QED
    BY <2>2, <2>3
<1>. HIDE DEF Collects
<1>2. PICK g : Collects(g, n)
  BY <1>1
<1>. USE DEF Collects
<1>3. D(n) = (1 .. n) \cup {0}
  OBVIOUS
<1>4. QED
  BY <1>2, <1>3

LEMMA FromFacts ==
  ASSUME NEW d, Ascending(d)
  PROVE  /\ From(d)[None] = {}
         /\ \A m \in Ids(d.metas) : From(d)[m] = {m} \cup From(d)[d.metas[m].next]
<1>. DEFINE next == [m \in Ids(d.metas) |-> d.metas[m].next]
<1>1. \E g : g = [m \in (1 .. Len(d.metas)) \cup {0} |-> IF m = 0 THEN {} ELSE {m} \cup g[next[m]]]
  BY CollectExists DEF Ascending, Ids, None
<1>2. PICK g : g = [m \in Ids(d.metas) \cup {None} |-> IF m = None THEN {} ELSE {m} \cup g[next[m]]]
  BY <1>1 DEF Ids, None
<1>3. g = [m \in Ids(d.metas) \cup {None} |-> IF m = None THEN {} ELSE {m} \cup g[d.metas[m].next]]
  <2>1. \A m \in Ids(d.metas) \cup {None} : m # None => next[m] = d.metas[m].next
    OBVIOUS
  <2>. HIDE DEF next
  <2>2. QED
    BY <1>2, <2>1
<1>4. From(d) = [m \in Ids(d.metas) \cup {None} |-> IF m = None THEN {} ELSE {m} \cup From(d)[d.metas[m].next]]
  BY <1>3 DEF From
<1>5. None \notin Ids(d.metas)
  BY DEF Ascending, Ids, None
<1>6. QED
  BY <1>4, <1>5

\* What holds of no last metadata with a property holds of none: the step of the
\* inductions along a list.
LEMMA LastIn ==
  ASSUME NEW n \in Nat, NEW S \in SUBSET (1 .. n), S # {}
  PROVE  \E m \in S : \A x \in S : x <= m
<1>1. S \in SUBSET Nat /\ \A x \in S : x <= n
  OBVIOUS
<1>2. QED
  BY <1>1, MaxIn

\* The metadata from m on are in every set that holds m and is closed under "next".
LEMMA FromLeast ==
  ASSUME NEW d, Ascending(d), NEW S,
         \A x \in S \cap Ids(d.metas) : d.metas[x].next # None => d.metas[x].next \in S
  PROVE  \A m \in S \cap Ids(d.metas) : From(d)[m] \subseteq S \cap Ids(d.metas)
<1>. DEFINE F == From(d)
            Bad == {m \in S \cap Ids(d.metas) : ~(F[m] \subseteq S \cap Ids(d.metas))}
<1>0. F[None] = {} /\ \A m \in Ids(d.metas) : F[m] = {m} \cup F[d.metas[m].next]
  BY FromFacts
<1>. HIDE DEF F
<1>1. SUFFICES ASSUME Bad # {} PROVE FALSE
  BY DEF F
<1>2. Bad \in SUBSET (1 .. Len(d.metas)) /\ Len(d.metas) \in Nat
  BY DEF Ascending, Ids
<1>3. PICK m \in Bad : \A x \in Bad : x <= m
  BY <1>1, <1>2, LastIn
<1>4. F[m] = {m} \cup F[d.metas[m].next]
  BY <1>0, <1>3
<1>5. CASE d.metas[m].next = None
  BY <1>0, <1>3, <1>4, <1>5
<1>6. CASE d.metas[m].next # None
  <2>1. d.metas[m].next \in S \cap Ids(d.metas) /\ m < d.metas[m].next
    BY <1>3, <1>6 DEF Ascending
  <2>2. d.metas[m].next \notin Bad
    BY <2>1, <1>2, <1>3
  <2>3. QED
    BY <1>3, <1>4, <2>1, <2>2
<1>7. QED
  BY <1>5, <1>6

LEMMA FromClosed ==
  ASSUME NEW d, Ascending(d)
  PROVE  \A m \in Ids(d.metas) : \A x \in From(d)[m] :
           d.metas[x].next # None => d.metas[x].next \in From(d)[m]
<1>. DEFINE F == From(d)
            Closed(m) == \A x \in F[m] : d.metas[x].next # None => d.metas[x].next \in F[m]
            Bad == {m \in Ids(d.metas) : ~Closed(m)}
<1>0. F[None] = {} /\ \A m \in Ids(d.metas) : F[m] = {m} \cup F[d.metas[m].next]
  BY FromFacts
<1>. HIDE DEF F
<1>1. SUFFICES ASSUME Bad # {} PROVE FALSE
  BY DEF F
<1>2. Bad \in SUBSET (1 .. Len(d.metas)) /\ Len(d.metas) \in Nat
  BY DEF Ascending, Ids
<1>3. PICK m \in Bad : \A x \in Bad : x <= m
  BY <1>1, <1>2, LastIn
<1>4. F[m] = {m} \cup F[d.metas[m].next]
  BY <1>0, <1>3
<1>5. CASE d.metas[m].next = None
  BY <1>0, <1>3, <1>4, <1>5
<1>6. CASE d.metas[m].next # None
  <2>. DEFINE y == d.metas[m].next
  <2>1. y \in Ids(d.metas) /\ m < y
    BY <1>3, <1>6 DEF Ascending
  <2>2. y \notin Bad
    BY <2>1, <1>2, <1>3
  <2>3. Closed(y) /\ y \in F[y]
    BY <1>0, <2>1, <2>2
  <2>4. Closed(m)
    BY <1>4, <2>3
  <2>5. QED
    BY <1>3, <2>4
<1>7. QED
  BY <1>5, <1>6

Rooted(d) == \A v \in Videos : d.roots[v] \in Ids(d.metas) \cup {None}

LEMMA ChainIsFrom ==
  ASSUME NEW d, NEW v
  PROVE  Chain(d, v) = From(d)[d.roots[v]]
BY DEF Chain

LEMMA ChainFacts ==
  ASSUME NEW d, Ascending(d), Rooted(d), NEW v \in Videos
  PROVE  /\ d.roots[v] # None => d.roots[v] \in Chain(d, v)
         /\ Chain(d, v) \subseteq Ids(d.metas)
         /\ \A x \in Chain(d, v) : d.metas[x].next # None => d.metas[x].next \in Chain(d, v)
<1>1. CASE d.roots[v] = None
  BY <1>1, ChainIsFrom, FromFacts
<1>2. CASE d.roots[v] # None
  <2>1. d.roots[v] \in Ids(d.metas)
    BY <1>2 DEF Rooted
  <2>2. From(d)[d.roots[v]] = {d.roots[v]} \cup From(d)[d.metas[d.roots[v]].next]
    BY <2>1, FromFacts
  <2>3. From(d)[d.roots[v]] \subseteq Ids(d.metas)
    <3>1. \A x \in Ids(d.metas) \cap Ids(d.metas) : d.metas[x].next # None => d.metas[x].next \in Ids(d.metas)
      BY DEF Ascending
    <3>2. QED
      BY <2>1, <3>1, FromLeast
  <2>4. QED
    BY <2>1, <2>2, <2>3, ChainIsFrom, FromClosed
<1>3. QED
  BY <1>1, <1>2

LEMMA ChainLeast ==
  ASSUME NEW d, Ascending(d), Rooted(d), NEW v \in Videos, NEW S,
         d.roots[v] # None => d.roots[v] \in S,
         \A x \in S \cap Ids(d.metas) : d.metas[x].next # None => d.metas[x].next \in S
  PROVE  Chain(d, v) \subseteq S
<1>1. CASE d.roots[v] = None
  BY <1>1, ChainIsFrom, FromFacts
<1>2. CASE d.roots[v] # None
  BY <1>2, ChainIsFrom, FromLeast DEF Rooted
<1>3. QED
  BY <1>1, <1>2

-----------------------------------------------------------------------------
(* The types of what a database holds.                                      *)

\* An update of a field takes effect.
Fields(d) == d = [items |-> d.items, maps |-> d.maps, metas |-> d.metas, roots |-> d.roots]

LEMMA SeqOfFunction ==
  ASSUME NEW T, NEW n \in Nat, NEW s \in [1 .. n -> T]
  PROVE  s \in Seq(T) /\ Len(s) = n
OBVIOUS

LEMMA FunctionOfSeq ==
  ASSUME NEW T, NEW s \in Seq(T)
  PROVE  Len(s) \in Nat /\ s \in [Ids(s) -> T]
BY DEF Ids

MetaOK(d, m) ==
  /\ d.metas[m] = [frame |-> d.metas[m].frame, data |-> d.metas[m].data, next |-> d.metas[m].next]
  /\ d.metas[m].frame \in 0 .. PastEnd
  /\ d.metas[m].data \in Ids(d.maps)
  /\ d.metas[m].next \in Ids(d.metas) \cup {None}

LEMMA DatabaseFacts ==
  ASSUME NEW d, DatabaseOK(d)
  PROVE  /\ Len(d.items) \in Nat /\ Len(d.maps) \in Nat /\ Len(d.metas) \in Nat
         /\ \A i \in Ids(d.items) : d.items[i] \in Owners
         /\ \A k \in Ids(d.maps) : d.maps[k] \in [Labels -> Ids(d.items) \cup {None}]
         /\ \A m \in Ids(d.metas) : MetaOK(d, m)
         /\ Rooted(d)
<1>. DEFINE R == [frame : 0 .. PastEnd, data : Ids(d.maps), next : Ids(d.metas) \cup {None}]
<1>1. d.items \in Seq(Owners) /\ d.maps \in Seq([Labels -> Ids(d.items) \cup {None}]) /\ d.metas \in Seq(R)
  BY DEF DatabaseOK
<1>2. \A m \in Ids(d.metas) : d.metas[m] \in R
  <2>. HIDE DEF R
  <2>1. QED
    BY <1>1, FunctionOfSeq
<1>3. \A m \in Ids(d.metas) : MetaOK(d, m)
  BY <1>2 DEF MetaOK
<1>4. QED
  BY <1>1, <1>3, FunctionOfSeq DEF DatabaseOK, Rooted

LEMMA DatabaseIsOK ==
  ASSUME NEW d, NEW nItems \in Nat, NEW nMaps \in Nat, NEW nMetas \in Nat,
         d.items \in [1 .. nItems -> Owners],
         d.maps \in [1 .. nMaps -> [Labels -> (1 .. nItems) \cup {None}]],
         d.metas \in [1 .. nMetas -> [frame : 0 .. PastEnd, data : 1 .. nMaps, next : (1 .. nMetas) \cup {None}]],
         d.roots \in [Videos -> (1 .. nMetas) \cup {None}]
  PROVE  DatabaseOK(d)
<1>1. Len(d.items) = nItems /\ d.items \in Seq(Owners)
  BY SeqOfFunction
<1>2. Len(d.maps) = nMaps /\ d.maps \in Seq([Labels -> (1 .. nItems) \cup {None}])
  BY SeqOfFunction
<1>3. /\ Len(d.metas) = nMetas
      /\ d.metas \in Seq([frame : 0 .. PastEnd, data : 1 .. nMaps, next : (1 .. nMetas) \cup {None}])
  <2>. DEFINE R == [frame : 0 .. PastEnd, data : 1 .. nMaps, next : (1 .. nMetas) \cup {None}]
  <2>1. d.metas \in [1 .. nMetas -> R]
    OBVIOUS
  <2>. HIDE DEF R
  <2>2. Len(d.metas) = nMetas /\ d.metas \in Seq(R)
    BY <2>1, SeqOfFunction
  <2>3. QED
    BY <2>2 DEF R
<1>4. QED
  BY <1>1, <1>2, <1>3 DEF DatabaseOK, Ids

-----------------------------------------------------------------------------
(* The invariant.                                                           *)

\* The metadata on disk or in memory, each of which belongs to a video: the lists
\* are in the order of their frames and stay within one video, no two metadata
\* share a map, and data were computed from the frame they are found under.
Listed(d, own) ==
  /\ own \in [Ids(d.metas) -> Videos]
  /\ \A v \in Videos : d.roots[v] # None => own[d.roots[v]] = v
  /\ \A m \in Ids(d.metas) :
       /\ d.metas[m].next # None =>
            /\ m < d.metas[m].next
            /\ d.metas[m].frame <= d.metas[d.metas[m].next].frame
            /\ own[d.metas[m].next] = own[m]
       /\ d.metas[m].frame # PastEnd =>
            Holds(d, d.maps[d.metas[m].data], [video |-> own[m], frame |-> d.metas[m].frame])
  /\ \A m, n \in Ids(d.metas) : m # n => d.metas[m].data # d.metas[n].data

\* No metadata lead to these.
Unlinked(m) == \A x \in Ids(db.metas) : Meta(x).next # m

\* The binding is on the metadata of its video.  Metadata before which nothing
\* is known are the first of the list, or were created before it and are not on it.
OnVideo(own) ==
  /\ binding.prev # None => own[binding.prev] = binding.video
  /\ binding.prev # None => Meta(binding.prev).next = binding.curr
  /\ binding.curr # None => own[binding.curr] = binding.video
  /\ binding.prev # None \/ binding.curr # None => db.roots[binding.video] # None
  /\ binding.open /\ at \notin {"exited", "gone"} /\ binding.prev = None =>
       IF binding.curr = None THEN db.roots[binding.video] = None
       ELSE /\ Meta(db.roots[binding.video]).frame >= Meta(binding.curr).frame
            /\ binding.curr = db.roots[binding.video] \/ Unlinked(binding.curr)

DatabaseInv ==
  /\ Fields(db) /\ Fields(disk)
  /\ \E own : Listed(db, own) /\ OnVideo(own)
  /\ \E own : Listed(disk, own)

\* The frame whose data the components hold, once those of its predecessor were
\* replaced.
Current == IF at = "run" THEN Here ELSE regions
Parsed ==
  /\ binding.open
  /\ \/ at \in {"run", "save", "saved", "shown", "finish", "finished", "idle", "exit"}
     \/ at = "next" /\ frame # -1

\* The binding and the serializer are at this frame, and the map leads to its data.
FrameInv ==
  Parsed =>
    /\ Current = [video |-> binding.video, frame |-> Current.frame]
    /\ Current.frame \in 0 .. LastFrame
    /\ frame = Current.frame \/ (at \in {"idle", "exit"} /\ frame = PastEnd)
    /\ Holds(db, serializer.map, Current)
    /\ binding.hasMeta => binding.curr # None /\ Meta(binding.curr).frame = Current.frame
    /\ ~binding.hasMeta /\ binding.curr # None => Meta(binding.curr).frame > Current.frame
    /\ binding.prev # None => Meta(binding.prev).frame <= Current.frame
    /\ serializer.id # None => binding.hasMeta /\ Meta(binding.curr).data = serializer.id

StepInv ==
  /\ at \in {"next", "frame", "run", "save", "saved", "shown", "finish", "finished"} =>
       binding.open /\ frame <= LastFrame
  /\ at \in {"frame", "run", "save", "saved", "shown", "finish", "finished"} => frame >= 0
  /\ serializer.new \/ regions # NoFrame => binding.open
  /\ at = "off" => ~binding.open

\* Only data items have been added.
Grown(d, e) ==
  /\ e.metas = d.metas /\ e.maps = d.maps /\ e.roots = d.roots
  /\ Len(d.items) <= Len(e.items) /\ \A i \in Ids(d.items) : e.items[i] = d.items[i]

\* A database has the data that another has under metadata of a video.
Has(e, d, m, v) ==
  /\ m \in Chain(e, v)
  /\ e.metas[m].frame = d.metas[m].frame
  /\ \A l \in Labels : LET id == d.maps[d.metas[m].data][l]
                        IN  id # None => /\ e.maps[e.metas[m].data][l] = id
                                         /\ e.items[id] = d.items[id]

\* What is in memory and not yet on disk: only data items, until the frame is saved;
\* then what takes away nothing of earlier frames and of other videos.
Unflushed == at \in {"saved", "finished", "exited"}
UnsavedInv ==
  failed = "nothing" =>
    IF Unflushed
    THEN \A v \in Videos : \A m \in Chain(disk, v) :
           v # binding.video \/ (disk.metas[m].frame < frame /\ at # "exited") => Has(db, disk, m, v)
    ELSE Grown(disk, db)

\* The types, with those of the data apart from the others.
Bindings ==
  [open : BOOLEAN, video : Videos, prev : Ids(db.metas) \cup {None},
   curr : Ids(db.metas) \cup {None}, hasMeta : BOOLEAN]
Serializers(d) ==
  [map : [Labels -> Ids(d.items) \cup {None}], id : Ids(d.maps) \cup {None}, new : BOOLEAN]

DataOK ==
  /\ DatabaseOK(db) /\ DatabaseOK(disk)
  /\ binding \in Bindings /\ serializer \in Serializers(db)

ControlOK ==
  /\ modified \in BOOLEAN /\ readable \in BOOLEAN
  /\ shapeParser \in BOOLEAN
  /\ at \in {"off", "idle", "frame", "run", "save", "saved", "shown", "finish", "finished",
             "next", "exit", "exited", "gone"}
  /\ frame \in -1 .. PastEnd
  /\ regions \in Owners \cup {NoFrame}
  /\ failed \in {"nothing", "tables", "open", "data id", "frame number"}
  /\ starts \in 0 .. MaxStarts

BinderInv == DataOK /\ ControlOK /\ DatabaseInv /\ FrameInv /\ StepInv /\ UnsavedInv

-----------------------------------------------------------------------------
LEMMA ListedAscends ==
  ASSUME NEW d, DatabaseOK(d), NEW own, Listed(d, own)
  PROVE  Ascending(d) /\ Rooted(d)
BY DatabaseFacts DEF Listed, Ascending, MetaOK, Rooted

LEMMA TypeParts == TypeOK <=> DataOK /\ ControlOK
BY DEF TypeOK, DataOK, ControlOK, Bindings, Serializers

LEMMA InitBinder == Init => BinderInv
<1>. SUFFICES ASSUME Init PROVE BinderInv
  OBVIOUS
<1>1. AnyVideo \in Videos
  BY BinderAssumption DEF AnyVideo
<1>2. Len(Empty.items) = 0 /\ Len(Empty.maps) = 0 /\ Len(Empty.metas) = 0
  BY DEF Empty
<1>3. DatabaseOK(Empty)
  BY DEF DatabaseOK, Empty
<1>4. TypeOK
  <2>1. Unbound \in [open : BOOLEAN, video : Videos, prev : Ids(db.metas) \cup {None},
                    curr : Ids(db.metas) \cup {None}, hasMeta : BOOLEAN]
    BY <1>1 DEF Unbound
  <2>2. Unsaved \in [map : [Labels -> Ids(db.items) \cup {None}], id : Ids(db.maps) \cup {None}, new : BOOLEAN]
    BY DEF Unsaved, NoData
  <2>3. -1 \in -1 .. PastEnd /\ 0 \in 0 .. MaxStarts
    BY BinderAssumption DEF PastEnd
  <2>4. QED
    BY <1>3, <2>1, <2>2, <2>3 DEF Init, TypeOK
<1>5. Fields(Empty)
  BY DEF Fields, Empty
<1>6. Listed(Empty, [m \in Ids(<<>>) |-> AnyVideo])
  BY DEF Listed, Empty, Ids
<1>7. OnVideo([m \in Ids(<<>>) |-> AnyVideo])
  BY DEF OnVideo, Init, Unbound
<1>8. DatabaseInv
  BY <1>5, <1>6, <1>7 DEF DatabaseInv, Init
<1>9. FrameInv /\ StepInv /\ UnsavedInv
  BY <1>2 DEF FrameInv, Parsed, StepInv, UnsavedInv, Unflushed, Grown, Init, Unbound, Unsaved
<1>10. QED
  BY <1>4, <1>8, <1>9, TypeParts DEF BinderInv

-----------------------------------------------------------------------------
(* The search for the metadata of a frame.                                  *)

\* The function of Advanced.
Walk(b, f) ==
  LET walk[m \in Ids(db.metas)] ==
        LET next == Meta(m).next
        IN  IF next = None \/ Meta(next).frame >= f
            THEN [b EXCEPT !.prev = m, !.curr = next]
            ELSE walk[next]
  IN  walk

LEMMA AdvancedIsWalk ==
  ASSUME NEW b, NEW f
  PROVE  Advanced(b, f) = IF b.curr # None /\ Meta(b.curr).frame < f THEN Walk(b, f)[b.curr] ELSE b
BY DEF Advanced, Walk

\* A search along a list whose numbers increase ends.
SearchesIn(g, n, next, stop, found) ==
  g = [m \in 1 .. n |-> IF m \in stop THEN found[m] ELSE g[next[m]]]

LEMMA SearchExists ==
  ASSUME NEW n \in Nat, NEW next, NEW stop, NEW found,
         \A m \in 1 .. n : m \in stop \/ (next[m] \in 1 .. n /\ m < next[m])
  PROVE  \E g : SearchesIn(g, n, next, stop, found)
<1>. DEFINE D(k) == (n + 1) - k .. n
            Searches(g, k) == g = [m \in D(k) |-> IF m \in stop THEN found[m] ELSE g[next[m]]]
            Bad == {k \in 0 .. n : ~ \E g : Searches(g, k)}
<1>1. Bad = {}
  <2>. SUFFICES ASSUME Bad # {} PROVE FALSE
    OBVIOUS
  <2>1. PICK k \in Bad : \A j \in Bad : k <= j
    <3>1. Bad \in SUBSET Nat
      OBVIOUS
    <3>2. QED
      BY <3>1, MinIn
  <2>2. CASE k = 0
    <3>. DEFINE g == [m \in {} |-> {}]
    <3>1. D(0) = {}
      OBVIOUS
    <3>2. Searches(g, 0)
      BY <3>1
    <3>3. QED
      BY <2>1, <2>2, <3>2
  <2>3. CASE k # 0
    <3>. HIDE DEF Searches
    <3>1. k - 1 \in 0 .. n /\ k - 1 \notin Bad
      <4>1. k \in 0 .. n
        BY <2>1
      <4>2. k - 1 \in 0 .. n /\ k - 1 < k
        BY <2>3, <4>1
      <4>3. QED
        <5>. HIDE DEF Bad
        <5>1. QED
          BY <2>1, <4>1, <4>2
    <3>2. PICK g : Searches(g, k - 1)
      BY <3>1
    <3>. USE DEF Searches
    <3>. DEFINE x == (n + 1) - k
                h == [m \in D(k) |-> IF m = x /\ x \in stop THEN found[x]
                                     ELSE IF m = x THEN g[next[x]] ELSE g[m]]
    <3>3. x \in 1 .. n /\ D(k) = D(k - 1) \cup {x} /\ x \notin D(k - 1)
      BY <2>1, <2>3
    <3>4. \A m \in D(k) : m \notin stop => next[m] \in D(k - 1)
      BY <2>1, <2>3
    <3>5. \A m \in D(k - 1) : h[m] = g[m]
      BY <3>3
    <3>6. \A m \in D(k - 1) : g[m] = IF m \in stop THEN found[m] ELSE g[next[m]]
      BY <3>2
    <3>. HIDE DEF D
    <3>7. \A m \in D(k) : h[m] = IF m \in stop THEN found[m] ELSE h[next[m]]
      <4>1. ASSUME NEW m \in D(k - 1) PROVE h[m] = IF m \in stop THEN found[m] ELSE h[next[m]]
        <5>1. m \notin stop => next[m] \in D(k - 1)
          BY <3>3, <3>4, <4>1
        <5>. HIDE DEF h
        <5>2. QED
          BY <3>5, <3>6, <4>1, <5>1
      <4>2. h[x] = IF x \in stop THEN found[x] ELSE h[next[x]]
        <5>1. h[x] = IF x \in stop THEN found[x] ELSE g[next[x]]
          BY <3>3
        <5>2. x \notin stop => next[x] \in D(k - 1)
          BY <3>3, <3>4
        <5>. HIDE DEF h
        <5>3. QED
          BY <3>5, <5>1, <5>2
      <4>3. \A m \in D(k) : m = x \/ m \in D(k - 1)
        BY <3>3
      <4>. HIDE DEF h, x, Searches
      <4>4. QED
        BY <4>1, <4>2, <4>3
    <3>8. Searches(h, k)
      BY <3>7
    <3>9. QED
      BY <2>1, <3>8
  <2>4. QED
    BY <2>2, <2>3
<1>. HIDE DEF Searches
<1>2. PICK g : Searches(g, n)
  BY <1>1
<1>. USE DEF Searches
<1>3. D(n) = 1 .. n
  OBVIOUS
<1>4. QED
  BY <1>2, <1>3 DEF SearchesIn

\* The binding at metadata p.
Placed(b, p) == [b EXCEPT !.prev = p, !.curr = Meta(p).next]

\* The metadata of the list before which the search stops.
Stops(m, f) == Meta(m).next = None \/ Meta(Meta(m).next).frame >= f

LEMMA WalkFacts ==
  ASSUME Ascending(db), NEW b, NEW f
  PROVE  \A m \in Ids(db.metas) :
           Walk(b, f)[m] = IF Stops(m, f) THEN Placed(b, m)
                           ELSE Walk(b, f)[Meta(m).next]
<1>. DEFINE stop == {m \in Ids(db.metas) : Stops(m, f)}
            found == [m \in Ids(db.metas) |-> Placed(b, m)]
            next == [m \in Ids(db.metas) |-> Meta(m).next]
<1>1. \A m \in Ids(db.metas) : m \in stop \/ (next[m] \in Ids(db.metas) /\ m < next[m])
  BY DEF Ascending, Stops, Meta
<1>2. /\ \A m \in Ids(db.metas) : (m \in stop) <=> Stops(m, f)
      /\ \A m \in Ids(db.metas) : found[m] = Placed(b, m)
      /\ \A m \in Ids(db.metas) : next[m] = Meta(m).next
  OBVIOUS
<1>. HIDE DEF stop, found, next
<1>3. PICK g : g = [m \in Ids(db.metas) |-> IF m \in stop THEN found[m] ELSE g[next[m]]]
  <2>1. Len(db.metas) \in Nat /\ Ids(db.metas) = 1 .. Len(db.metas)
    BY DEF Ids, Ascending
  <2>2. \A m \in 1 .. Len(db.metas) : m \in stop \/ (next[m] \in 1 .. Len(db.metas) /\ m < next[m])
    BY <1>1, <2>1
  <2>3. Len(db.metas) \in Nat
    BY <2>1
  <2>4. \E g : SearchesIn(g, Len(db.metas), next, stop, found)
    BY <2>2, <2>3, SearchExists
  <2>5. QED
    BY <2>1, <2>4 DEF SearchesIn
<1>4. g = [m \in Ids(db.metas) |-> IF Stops(m, f) THEN Placed(b, m)
                                   ELSE g[Meta(m).next]]
  BY <1>2, <1>3
<1>5. Walk(b, f) = [m \in Ids(db.metas) |-> IF Stops(m, f) THEN Placed(b, m)
                                            ELSE Walk(b, f)[Meta(m).next]]
  BY <1>4 DEF Walk, Stops, Placed
<1>6. QED
  BY <1>5

LEMMA WalkStops ==
  ASSUME Ascending(db), NEW own, Listed(db, own), NEW b, NEW f \in Nat,
         \A m \in Ids(db.metas) : Meta(m).frame \in Nat
  PROVE  \A m \in Ids(db.metas) : Meta(m).frame < f =>
           \E p \in Ids(db.metas) :
             /\ Walk(b, f)[m] = Placed(b, p)
             /\ own[p] = own[m] /\ Meta(p).frame < f /\ Stops(p, f)
<1>. DEFINE W == Walk(b, f)
            Good(m) == \E p \in Ids(db.metas) :
                         /\ W[m] = Placed(b, p)
                         /\ own[p] = own[m] /\ Meta(p).frame < f /\ Stops(p, f)
            Bad == {m \in Ids(db.metas) : Meta(m).frame < f /\ ~Good(m)}
<1>0. \A m \in Ids(db.metas) :
        W[m] = IF Stops(m, f) THEN Placed(b, m) ELSE W[Meta(m).next]
  BY WalkFacts
<1>. HIDE DEF W
<1>1. SUFFICES ASSUME Bad # {} PROVE FALSE
  BY DEF W
<1>2. Bad \in SUBSET (1 .. Len(db.metas)) /\ Len(db.metas) \in Nat
  BY DEF Ascending, Ids
<1>3. PICK m \in Bad : \A x \in Bad : x <= m
  BY <1>1, <1>2, LastIn
<1>4. CASE Stops(m, f)
  BY <1>0, <1>3, <1>4
<1>5. CASE ~Stops(m, f)
  <2>. DEFINE y == Meta(m).next
  <2>1. y \in Ids(db.metas) /\ m < y /\ Meta(y).frame < f /\ own[y] = own[m]
    <3>1. m \in Ids(db.metas) /\ y # None /\ ~(Meta(y).frame >= f)
      BY <1>3, <1>5 DEF Stops
    <3>2. y \in Ids(db.metas) /\ m < y
      BY <3>1 DEF Ascending, Meta
    <3>3. own[y] = own[m]
      BY <3>1 DEF Listed, Meta
    <3>. HIDE DEF y
    <3>4. Meta(y).frame \in Nat
      BY <3>2
    <3>5. QED
      BY <3>1, <3>2, <3>3, <3>4
  <2>2. y \notin Bad
    <3>. HIDE DEF Bad, y
    <3>1. m \in Nat /\ y \in Nat
      BY <1>2, <1>3, <2>1 DEF Ids
    <3>2. QED
      BY <1>3, <2>1, <3>1
  <2>3. W[m] = W[y]
    BY <1>0, <1>3, <1>5
  <2>4. Good(m)
    BY <2>1, <2>2, <2>3
  <2>5. QED
    BY <1>3, <2>4
<1>6. QED
  BY <1>4, <1>5

LEMMA MetaFacts ==
  ASSUME DatabaseOK(db)
  PROVE  \A m \in Ids(db.metas) : Meta(m).frame \in Nat /\ Meta(m).next \in Ids(db.metas) \cup {None}
<1>1. \A m \in Ids(db.metas) : MetaOK(db, m)
  BY DatabaseFacts
<1>2. 0 .. PastEnd \subseteq Nat
  BY BinderAssumption DEF PastEnd
<1>3. QED
  BY <1>1, <1>2 DEF MetaOK, Meta

\* Before the first frame that is not before f.
At(b, f, own) ==
  /\ b \in Bindings /\ b.open = binding.open /\ b.video = binding.video
  /\ b.prev # None => /\ own[b.prev] = b.video
                      /\ Meta(b.prev).next = b.curr
                      /\ Meta(b.prev).frame <= f
  /\ b.curr # None => own[b.curr] = b.video /\ Meta(b.curr).frame >= f
  /\ b.prev # None \/ b.curr # None => db.roots[b.video] # None
  /\ b.prev = None => IF b.curr = None THEN db.roots[b.video] = None
                      ELSE /\ Meta(db.roots[b.video]).frame >= Meta(b.curr).frame
                           /\ b.curr = db.roots[b.video] \/ Unlinked(b.curr)

LEMMA AdvancedStops ==
  ASSUME DatabaseOK(db), NEW own, Listed(db, own), NEW f \in Nat,
         NEW b \in Bindings, b.open = binding.open, b.video = binding.video,
         b.prev # None => /\ own[b.prev] = b.video
                          /\ Meta(b.prev).next = b.curr
                          /\ Meta(b.prev).frame <= f,
         b.curr # None => own[b.curr] = b.video,
         b.prev # None \/ b.curr # None => db.roots[b.video] # None,
         b.prev = None => IF b.curr = None THEN db.roots[b.video] = None
                          ELSE /\ Meta(db.roots[b.video]).frame >= Meta(b.curr).frame
                               /\ b.curr = db.roots[b.video] \/ Unlinked(b.curr)
  PROVE  At(Advanced(b, f), f, own)
<1>1. Ascending(db) /\ Rooted(db)
  BY ListedAscends
<1>2. \A m \in Ids(db.metas) : Meta(m).frame \in Nat /\ Meta(m).next \in Ids(db.metas) \cup {None}
  BY MetaFacts
<1>3. CASE b.curr # None /\ Meta(b.curr).frame < f
  <2>1. b.curr \in Ids(db.metas)
    BY <1>3 DEF Bindings
  <2>2. PICK p \in Ids(db.metas) :
          /\ Walk(b, f)[b.curr] = Placed(b, p)
          /\ own[p] = own[b.curr] /\ Meta(p).frame < f /\ Stops(p, f)
    <3>1. \A m \in Ids(db.metas) : Meta(m).frame \in Nat
      BY <1>2
    <3>2. \A m \in Ids(db.metas) : Meta(m).frame < f =>
            \E p \in Ids(db.metas) :
              /\ Walk(b, f)[m] = Placed(b, p)
              /\ own[p] = own[m] /\ Meta(p).frame < f /\ Stops(p, f)
      <4>. HIDE DEF Walk
      <4>1. QED
        BY <1>1, <3>1, WalkStops
    <3>3. QED
      BY <1>3, <2>1, <3>2
  <2>3. Advanced(b, f) = Placed(b, p)
    BY <1>3, <2>2, AdvancedIsWalk
  <2>. DEFINE c == Placed(b, p)
  <2>4. /\ c \in Bindings /\ c.open = b.open /\ c.video = b.video
        /\ c.prev = p /\ c.curr = Meta(p).next
    BY <1>2 DEF Bindings, Placed
  <2>5. p # None /\ own[p] = b.video
    BY <1>1, <1>3, <2>2 DEF Ascending, Ids, None
  <2>6. Meta(p).next # None => own[Meta(p).next] = b.video /\ Meta(Meta(p).next).frame >= f
    BY <2>2, <2>5 DEF Listed, Stops, Meta
  <2>. HIDE DEF c
  <2>7. At(c, f, own)
    BY <1>2, <1>3, <2>2, <2>4, <2>5, <2>6 DEF At
  <2>8. QED
    BY <2>3, <2>7 DEF c
<1>4. CASE ~(b.curr # None /\ Meta(b.curr).frame < f)
  <2>1. Advanced(b, f) = b
    BY <1>4, AdvancedIsWalk
  <2>2. b.curr # None => Meta(b.curr).frame >= f
    BY <1>2, <1>4 DEF Bindings
  <2>3. QED
    BY <2>1, <2>2 DEF At
<1>5. QED
  BY <1>3, <1>4

LEMMA MovedTo ==
  ASSUME DataOK, NEW own, Listed(db, own), OnVideo(own), binding.open, at = "frame", NEW f \in Nat
  PROVE  At(MoveClosestToFrameData(f), f, own)
<1>1. DatabaseOK(db) /\ binding \in Bindings
  BY DEF DataOK, Bindings
<1>2. \A m \in Ids(db.metas) : Meta(m).frame \in Nat /\ Meta(m).next \in Ids(db.metas) \cup {None}
  BY <1>1, MetaFacts
<1>3. CASE binding.prev # None /\ Meta(binding.prev).frame > f
  <2>. DEFINE v == binding.video
  <2>1. v \in Videos /\ db.roots[v] \in Ids(db.metas) \cup {None}
    BY <1>1, DatabaseFacts DEF Bindings, Rooted
  <2>2. /\ Opened(v) \in Bindings /\ Opened(v).open = binding.open /\ Opened(v).video = v
        /\ Opened(v).prev = None /\ Opened(v).curr = db.roots[v]
    BY <2>1 DEF Opened, Bindings
  <2>3. db.roots[v] # None => own[db.roots[v]] = v /\ Meta(db.roots[v]).frame >= Meta(db.roots[v]).frame
    BY <1>2, <2>1 DEF Listed
  <2>4. At(Advanced(Opened(v), f), f, own)
    <3>. HIDE DEF v
    <3>1. QED
      BY <1>1, <2>2, <2>3, AdvancedStops DEF v
  <2>5. QED
    BY <1>3, <2>4 DEF MoveClosestToFrameData
<1>4. CASE ~(binding.prev # None /\ Meta(binding.prev).frame > f)
  <2>1. binding.prev # None => Meta(binding.prev).frame <= f
    BY <1>1, <1>2, <1>4 DEF Bindings
  <2>2. At(Advanced(binding, f), f, own)
    BY <1>1, <2>1, AdvancedStops DEF OnVideo
  <2>3. QED
    BY <1>4, <2>2 DEF MoveClosestToFrameData
<1>5. QED
  BY <1>3, <1>4

-----------------------------------------------------------------------------
(* Data items are added; an item that is saved again under its label is the *)
(* one of the same frame.                                                   *)

LEMMA GrownHolds ==
  ASSUME NEW d, NEW e, Len(d.items) \in Nat, Len(e.items) \in Nat, Grown(d, e),
         NEW map \in [Labels -> Ids(d.items) \cup {None}], NEW owner, Holds(d, map, owner)
  PROVE  Holds(e, map, owner)
<1>. SUFFICES ASSUME NEW l \in Labels, map[l] # None PROVE e.items[map[l]] = owner
  BY DEF Holds
<1>1. map[l] \in Ids(d.items) /\ d.items[map[l]] = owner
  BY DEF Holds
<1>2. QED
  BY <1>1 DEF Grown

LEMMA GrownListed ==
  ASSUME NEW d, NEW e, DatabaseOK(d), DatabaseOK(e), Grown(d, e), NEW own, Listed(d, own)
  PROVE  Listed(e, own)
<1>1. /\ Len(d.items) \in Nat /\ Len(e.items) \in Nat
      /\ \A m \in Ids(d.metas) : d.maps[d.metas[m].data] \in [Labels -> Ids(d.items) \cup {None}]
  <2>1. \A m \in Ids(d.metas) : d.metas[m].data \in Ids(d.maps)
    BY DatabaseFacts DEF MetaOK
  <2>2. QED
    BY <2>1, DatabaseFacts
<1>2. e.metas = d.metas /\ e.maps = d.maps /\ e.roots = d.roots
  BY DEF Grown
<1>3. ASSUME NEW m \in Ids(d.metas), d.metas[m].frame # PastEnd
      PROVE  Holds(e, e.maps[e.metas[m].data], [video |-> own[m], frame |-> e.metas[m].frame])
  <2>1. Holds(d, d.maps[d.metas[m].data], [video |-> own[m], frame |-> d.metas[m].frame])
    BY <1>3 DEF Listed
  <2>2. QED
    BY <1>1, <1>2, <1>3, <2>1, GrownHolds
<1>4. QED
  BY <1>2, <1>3 DEF Listed

LEMMA GrownTwice ==
  ASSUME NEW c, NEW d, NEW e,
         Len(c.items) \in Nat, Len(d.items) \in Nat, Len(e.items) \in Nat,
         Grown(c, d), Grown(d, e)
  PROVE  Grown(c, e)
<1>1. \A i \in Ids(c.items) : i \in Ids(d.items)
  BY DEF Grown, Ids
<1>2. Len(c.items) <= Len(e.items)
  BY DEF Grown
<1>3. QED
  BY <1>1, <1>2 DEF Grown

LEMMA GrownSame ==
  ASSUME NEW d, Len(d.items) \in Nat
  PROVE  Grown(d, d)
BY DEF Grown

LEMMA SavingGrows ==
  ASSUME DatabaseOK(db), Fields(db), serializer \in Serializers(db),
         NEW label \in Labels, NEW owner \in Owners,
         Holds(db, serializer.map, owner), SaveComponentData(label, owner)
  PROVE  /\ Fields(db') /\ DatabaseOK(db') /\ Grown(db, db')
         /\ serializer' \in Serializers(db') /\ serializer'.id = serializer.id
         /\ Holds(db', serializer'.map, owner)
         /\ modified' = TRUE
<1>. DEFINE n == Len(db.items)
            map == serializer.map
<1>1. /\ n \in Nat /\ db.items \in [1 .. n -> Owners]
      /\ map \in [Labels -> (1 .. n) \cup {None}]
  <2>1. db.items \in Seq(Owners)
    BY DEF DatabaseOK
  <2>2. n \in Nat /\ db.items \in [1 .. n -> Owners]
    BY <2>1, FunctionOfSeq DEF Ids
  <2>3. QED
    BY <2>2 DEF Serializers, Ids
<1>2. modified' = TRUE
  BY DEF SaveComponentData
<1>3. CASE map[label] # None
  <2>1. /\ db' = [db EXCEPT !.items[map[label]] = owner]
        /\ serializer' = [serializer EXCEPT !.new = TRUE]
    BY <1>3 DEF SaveComponentData
  <2>2. db.items[map[label]] = owner /\ map[label] \in 1 .. n
    BY <1>1, <1>3 DEF Holds
  <2>3. db' = [db EXCEPT !.items = [db.items EXCEPT ![map[label]] = owner]]
    BY <2>1
  <2>4. [db.items EXCEPT ![map[label]] = owner] = db.items
    BY <1>1, <2>2
  <2>5. db' = db
    BY <2>3, <2>4 DEF Fields
  <2>6. /\ serializer' \in Serializers(db) /\ serializer'.id = serializer.id
        /\ serializer'.map = map
    BY <2>1 DEF Serializers
  <2>7. Grown(db, db)
    BY <1>1, GrownSame
  <2>. HIDE DEF n, map
  <2>8. QED
    BY <1>2, <2>5, <2>6, <2>7 DEF map
<1>4. CASE map[label] = None
  <2>. DEFINE items2 == Append(db.items, owner)
  <2>1. /\ db' = [db EXCEPT !.items = items2]
        /\ serializer' = [serializer EXCEPT !.map[label] = n + 1, !.new = TRUE]
    BY <1>4 DEF SaveComponentData
  <2>2. /\ db' = [items |-> items2, maps |-> db.maps, metas |-> db.metas, roots |-> db.roots]
    BY <2>1 DEF Fields
  <2>3. /\ items2 \in Seq(Owners) /\ Len(items2) = n + 1 /\ items2[n + 1] = owner
        /\ \A i \in 1 .. n : items2[i] = db.items[i]
    BY <1>1 DEF DatabaseOK
  <2>4. /\ db'.items = items2 /\ db'.maps = db.maps /\ db'.metas = db.metas /\ db'.roots = db.roots
    BY <2>2
  <2>. HIDE DEF items2, n
  <2>5. Fields(db')
    BY <2>2, <2>4 DEF Fields
  <2>6. Grown(db, db')
    <3>1. n <= n + 1 /\ Ids(db.items) = 1 .. n
      BY <1>1 DEF Ids, n
    <3>2. QED
      BY <2>3, <2>4, <3>1 DEF Grown, n
  <2>7. Ids(db.items) = 1 .. n /\ Ids(items2) = 1 .. (n + 1) /\ 1 .. n \subseteq 1 .. (n + 1)
    BY <1>1, <2>3 DEF Ids, n
  <2>8. DatabaseOK(db')
    <3>1. db.maps \in Seq([Labels -> Ids(items2) \cup {None}])
      <4>. DEFINE A == [Labels -> Ids(db.items) \cup {None}]
                  B == [Labels -> Ids(items2) \cup {None}]
      <4>1. A \subseteq B /\ db.maps \in Seq(A)
        BY <2>7 DEF DatabaseOK
      <4>. HIDE DEF A, B
      <4>2. db.maps \in Seq(B)
        BY <4>1
      <4>3. QED
        BY <4>2 DEF B
    <3>2. QED
      BY <2>3, <2>4, <3>1 DEF DatabaseOK
  <2>9. /\ serializer'.map = [map EXCEPT ![label] = n + 1]
        /\ serializer'.id = serializer.id
        /\ serializer' = [map |-> [map EXCEPT ![label] = n + 1], id |-> serializer.id, new |-> TRUE]
    BY <2>1 DEF Serializers
  <2>10. [map EXCEPT ![label] = n + 1] \in [Labels -> Ids(items2) \cup {None}]
    <3>1. n + 1 \in Ids(items2)
      BY <1>1, <2>7
    <3>. HIDE DEF map
    <3>2. QED
      BY <1>1, <2>7, <3>1
  <2>11. serializer' \in Serializers(db')
    BY <2>4, <2>9, <2>10 DEF Serializers
  <2>12. Holds(db', serializer'.map, owner)
    <3>. SUFFICES ASSUME NEW l \in Labels, serializer'.map[l] # None
                  PROVE  db'.items[serializer'.map[l]] = owner
      BY DEF Holds
    <3>1. CASE l = label
      BY <1>1, <2>3, <2>4, <2>9, <3>1
    <3>2. CASE l # label
      <4>1. serializer'.map[l] = map[l]
        BY <1>1, <2>9, <3>2
      <4>2. map[l] \in 1 .. n /\ db.items[map[l]] = owner
        BY <1>1, <4>1 DEF Holds
      <4>3. QED
        BY <2>3, <2>4, <4>1, <4>2
    <3>3. QED
      BY <3>1, <3>2
  <2>13. QED
    BY <1>2, <2>5, <2>6, <2>8, <2>9, <2>11, <2>12
<1>5. QED
  BY <1>3, <1>4

-----------------------------------------------------------------------------
(* What SaveFrameData writes.                                               *)

LEMMA MapSaved ==
  ASSUME DatabaseOK(db), Fields(db), serializer \in Serializers(db)
  PROVE  /\ Fields(WithMap(db)) /\ DatabaseOK(WithMap(db))
         /\ WithMap(db).items = db.items /\ WithMap(db).metas = db.metas /\ WithMap(db).roots = db.roots
         /\ Ids(WithMap(db).maps) = Ids(db.maps) \cup {MapId}
         /\ WithMap(db).maps[MapId] = serializer.map
         /\ \A k \in Ids(db.maps) : k # MapId => WithMap(db).maps[k] = db.maps[k]
         /\ serializer.id = None => MapId \notin Ids(db.maps)
         /\ serializer.id # None => MapId = serializer.id /\ MapId \in Ids(db.maps)
<1>. DEFINE n == Len(db.maps)
            M == [Labels -> Ids(db.items) \cup {None}]
            maps2 == IF serializer.id = None THEN Append(db.maps, serializer.map)
                     ELSE [db.maps EXCEPT ![serializer.id] = serializer.map]
            e == WithMap(db)
            N == Len(db.metas)
<1>1. db.maps \in Seq(M) /\ serializer.map \in M
  BY DEF DatabaseOK, Serializers
<1>2. n \in Nat /\ db.maps \in [1 .. n -> M] /\ serializer.id \in (1 .. n) \cup {None}
  <2>. HIDE DEF M
  <2>1. n \in Nat /\ db.maps \in [1 .. n -> M]
    BY <1>1, FunctionOfSeq DEF Ids
  <2>2. QED
    BY <2>1 DEF Serializers, Ids
<1>3. /\ serializer.id = None => MapId = n + 1
      /\ serializer.id # None => MapId = serializer.id /\ MapId \in 1 .. n
  BY <1>2 DEF MapId, None
<1>4. /\ maps2 \in [(1 .. n) \cup {MapId} -> M]
      /\ maps2[MapId] = serializer.map
      /\ \A k \in 1 .. n : k # MapId => maps2[k] = db.maps[k]
      /\ (1 .. n) \cup {MapId} = IF serializer.id = None THEN 1 .. n + 1 ELSE 1 .. n
  <2>. HIDE DEF M
  <2>1. CASE serializer.id = None
    <3>1. maps2 = Append(db.maps, serializer.map) /\ MapId = n + 1
      BY <1>3, <2>1
    <3>2. (1 .. n) \cup {MapId} = 1 .. n + 1
      BY <1>2, <3>1
    <3>. HIDE DEF maps2
    <3>3. maps2 \in Seq(M) /\ Len(maps2) = n + 1 /\ maps2[n + 1] = serializer.map
      BY <1>1, <3>1
    <3>4. \A k \in 1 .. n : maps2[k] = db.maps[k]
      BY <1>1, <3>1
    <3>5. maps2 \in [1 .. n + 1 -> M]
      BY <3>3
    <3>. HIDE DEF n
    <3>6. QED
      BY <2>1, <3>1, <3>2, <3>3, <3>4, <3>5
  <2>2. CASE serializer.id # None
    BY <1>1, <1>2, <1>3, <2>2
  <2>3. QED
    BY <2>1, <2>2
<1>5. PICK n2 \in Nat : (1 .. n) \cup {MapId} = 1 .. n2 /\ n <= n2
  BY <1>2, <1>4
<1>. HIDE DEF maps2
<1>6. e = [items |-> db.items, maps |-> maps2, metas |-> db.metas, roots |-> db.roots]
  BY DEF Fields, WithMap, maps2
<1>7. e.items = db.items /\ e.maps = maps2 /\ e.metas = db.metas /\ e.roots = db.roots /\ Fields(e)
  BY <1>6 DEF Fields
<1>8. Len(maps2) = n2
  <2>. HIDE DEF M
  <2>1. maps2 \in [1 .. n2 -> M]
    BY <1>4, <1>5
  <2>2. QED
    BY <2>1, SeqOfFunction
<1>9. DatabaseOK(e)
  <2>1. maps2 \in Seq(M)
    <3>. HIDE DEF M
    <3>1. QED
      BY <1>4, <1>5, SeqOfFunction
  <2>2. db.metas \in Seq([frame : 0 .. PastEnd, data : Ids(maps2), next : Ids(db.metas) \cup {None}])
    <3>. DEFINE A == [frame : 0 .. PastEnd, data : Ids(db.maps), next : Ids(db.metas) \cup {None}]
                B == [frame : 0 .. PastEnd, data : Ids(maps2), next : Ids(db.metas) \cup {None}]
    <3>1. Ids(db.maps) \subseteq Ids(maps2)
      BY <1>2, <1>5, <1>8 DEF Ids
    <3>2. A \subseteq B /\ db.metas \in Seq(A)
      BY <3>1 DEF DatabaseOK
    <3>. HIDE DEF A, B
    <3>3. db.metas \in Seq(B)
      BY <3>2
    <3>4. QED
      BY <3>3 DEF B
  <2>. HIDE DEF e
  <2>3. QED
    BY <1>7, <2>1, <2>2 DEF DatabaseOK
<1>10. Ids(e.maps) = Ids(db.maps) \cup {MapId}
  BY <1>5, <1>7, <1>8 DEF Ids
<1>11. serializer.id = None => MapId \notin Ids(db.maps)
  BY <1>2, <1>3 DEF Ids
<1>12. QED
  BY <1>3, <1>4, <1>7, <1>9, <1>10, <1>11 DEF Ids

\* The map that is stored under its id is that of the metadata of the frame.
LEMMA MapListed ==
  ASSUME DatabaseOK(db), Fields(db), serializer \in Serializers(db), NEW own, Listed(db, own),
         serializer.id # None =>
           /\ binding.curr \in Ids(db.metas)
           /\ Meta(binding.curr).data = serializer.id
           /\ Meta(binding.curr).frame # PastEnd =>
                Holds(db, serializer.map,
                      [video |-> own[binding.curr], frame |-> Meta(binding.curr).frame])
  PROVE  Listed(WithMap(db), own)
<1>. DEFINE e == WithMap(db)
<1>1. /\ e.items = db.items /\ e.metas = db.metas /\ e.roots = db.roots
      /\ e.maps[MapId] = serializer.map
      /\ \A k \in Ids(db.maps) : k # MapId => e.maps[k] = db.maps[k]
      /\ serializer.id = None => MapId \notin Ids(db.maps)
      /\ serializer.id # None => MapId = serializer.id
  BY MapSaved
<1>. HIDE DEF e
<1>2. ASSUME NEW m \in Ids(db.metas), db.metas[m].frame # PastEnd
      PROVE  Holds(e, e.maps[db.metas[m].data], [video |-> own[m], frame |-> db.metas[m].frame])
  <2>1. db.metas[m].data \in Ids(db.maps)
    BY DatabaseFacts DEF MetaOK
  <2>2. Holds(db, db.maps[db.metas[m].data], [video |-> own[m], frame |-> db.metas[m].frame])
    BY <1>2 DEF Listed
  <2>3. CASE db.metas[m].data # MapId
    BY <1>1, <2>1, <2>2, <2>3 DEF Holds
  <2>4. CASE db.metas[m].data = MapId
    <3>1. serializer.id # None
      BY <1>1, <2>1, <2>4
    <3>2. m = binding.curr
      BY <1>1, <2>4, <3>1 DEF Listed, Meta
    <3>3. QED
      BY <1>1, <1>2, <2>4, <3>1, <3>2 DEF Holds, Meta
  <2>5. QED
    BY <2>3, <2>4
<1>3. QED
  BY <1>1, <1>2 DEF Listed, e

\* The metadata of the frame come last, unless they exist.
LEMMA MetaSaved ==
  ASSUME DatabaseOK(db), Fields(db), serializer \in Serializers(db), binding \in Bindings,
         frame \in 0 .. PastEnd, binding.hasMeta => binding.curr # None
  PROVE  LET e == WithRoot(WithMeta(WithMap(db)))
         IN  /\ Fields(e) /\ DatabaseOK(e)
             /\ e.items = db.items /\ e.maps = WithMap(db).maps
             /\ e.roots = [db.roots EXCEPT ![binding.video] = IF @ = None THEN MetaId ELSE @]
             /\ Ids(e.metas) = Ids(db.metas) \cup {MetaId}
             /\ \A m \in Ids(db.metas) : e.metas[m] = db.metas[m]
             /\ IF binding.hasMeta THEN MetaId = binding.curr /\ MetaId \in Ids(db.metas)
                ELSE /\ \A m \in Ids(db.metas) : m < MetaId
                     /\ e.metas[MetaId] = [frame |-> frame, data |-> MapId, next |-> None]
<1>. DEFINE w == WithMap(db)
            n == Len(db.metas)
            new == [frame |-> frame, data |-> MapId, next |-> None]
            metas2 == IF binding.hasMeta THEN db.metas ELSE Append(db.metas, new)
            roots2 == [db.roots EXCEPT ![binding.video] = IF @ = None THEN MetaId ELSE @]
            n2 == IF binding.hasMeta THEN n ELSE n + 1
            R(k) == [frame : 0 .. PastEnd, data : Ids(w.maps), next : (1 .. k) \cup {None}]
            e == WithRoot(WithMeta(WithMap(db)))
<1>1. /\ Fields(w) /\ DatabaseOK(w)
      /\ w.items = db.items /\ w.metas = db.metas /\ w.roots = db.roots
      /\ MapId \in Ids(w.maps)
  BY MapSaved
<1>. HIDE DEF w
<1>2. WithMeta(w) = [items |-> db.items, maps |-> w.maps, metas |-> metas2, roots |-> db.roots]
  <2>1. CASE binding.hasMeta
    BY <1>1, <2>1 DEF WithMeta, Fields
  <2>2. CASE ~binding.hasMeta
    BY <1>1, <2>2 DEF WithMeta, Fields
  <2>3. QED
    BY <2>1, <2>2
<1>. HIDE DEF metas2
<1>3. e = [items |-> db.items, maps |-> w.maps, metas |-> metas2, roots |-> roots2]
  BY <1>2 DEF WithRoot, w
<1>. HIDE DEF roots2, e
<1>4. /\ e.items = db.items /\ e.maps = w.maps /\ e.metas = metas2 /\ e.roots = roots2 /\ Fields(e)
  BY <1>3 DEF Fields
<1>5. db.metas \in Seq(R(n)) /\ n \in Nat
  <2>1. n \in Nat
    BY DatabaseFacts
  <2>2. QED
    BY <1>1, <2>1 DEF DatabaseOK, Ids
<1>6. /\ n2 \in Nat /\ (1 .. n2) = (1 .. n) \cup {MetaId} /\ 1 .. n \subseteq 1 .. n2
      /\ MetaId \in 1 .. n2
      /\ IF binding.hasMeta THEN MetaId = binding.curr /\ MetaId \in 1 .. n ELSE MetaId = n + 1
  BY <1>5 DEF MetaId, Bindings, Ids
<1>7. /\ metas2 \in Seq(R(n2)) /\ Len(metas2) = n2
      /\ \A m \in 1 .. n : metas2[m] = db.metas[m]
      /\ ~binding.hasMeta => metas2[MetaId] = new
  <2>1. new \in R(n2)
    BY <1>1
  <2>2. R(n) \subseteq R(n2)
    BY <1>6
  <2>. HIDE DEF R, new
  <2>3. db.metas \in Seq(R(n2))
    BY <1>5, <2>2
  <2>4. CASE binding.hasMeta
    BY <2>3, <2>4 DEF metas2
  <2>5. CASE ~binding.hasMeta
    BY <1>5, <1>6, <2>1, <2>3, <2>5 DEF metas2
  <2>6. QED
    BY <2>4, <2>5
<1>8. roots2 \in [Videos -> (1 .. n2) \cup {None}]
  BY <1>1, <1>6 DEF DatabaseOK, Ids, roots2, Bindings
<1>9. DatabaseOK(e)
  BY <1>1, <1>4, <1>7, <1>8 DEF DatabaseOK, Ids
<1>10. Ids(e.metas) = Ids(db.metas) \cup {MetaId}
  BY <1>4, <1>6, <1>7 DEF Ids
<1>11. ~binding.hasMeta => \A m \in Ids(db.metas) : m < MetaId
  BY <1>5, <1>6 DEF Ids
<1>. HIDE DEF n2, n
<1>12. QED
  BY <1>4, <1>6, <1>7, <1>9, <1>10, <1>11 DEF Ids, e, roots2, w, n

LEMMA SavedFacts ==
  ASSUME DatabaseOK(db), Fields(db), serializer \in Serializers(db), binding \in Bindings,
         frame \in 0 .. PastEnd, binding.hasMeta => binding.curr # None
  PROVE  /\ Fields(Saved) /\ DatabaseOK(Saved)
         /\ Saved.items = db.items /\ Saved.maps = WithMap(db).maps
         /\ Saved.roots = [db.roots EXCEPT ![binding.video] = IF @ = None THEN MetaId ELSE @]
         /\ Ids(Saved.metas) = Ids(db.metas) \cup {MetaId}
         /\ \A m \in Ids(db.metas) :
              /\ Saved.metas[m].frame = Meta(m).frame /\ Saved.metas[m].data = Meta(m).data
              /\ Saved.metas[m].next = IF m = binding.prev THEN MetaId ELSE Meta(m).next
         /\ IF binding.hasMeta THEN MetaId = binding.curr /\ MetaId \in Ids(db.metas)
            ELSE /\ \A m \in Ids(db.metas) : m < MetaId
                 /\ Saved.metas[MetaId] = [frame |-> frame, data |-> MapId, next |-> None]
<1>. DEFINE e == WithRoot(WithMeta(WithMap(db)))
            metas2 == [e.metas EXCEPT ![binding.prev].next = MetaId]
            R == [frame : 0 .. PastEnd, data : Ids(e.maps), next : Ids(e.metas) \cup {None}]
<1>1. /\ Fields(e) /\ DatabaseOK(e)
      /\ e.items = db.items /\ e.maps = WithMap(db).maps
      /\ e.roots = [db.roots EXCEPT ![binding.video] = IF @ = None THEN MetaId ELSE @]
      /\ Ids(e.metas) = Ids(db.metas) \cup {MetaId}
      /\ \A m \in Ids(db.metas) : e.metas[m] = db.metas[m]
      /\ IF binding.hasMeta THEN MetaId = binding.curr /\ MetaId \in Ids(db.metas)
         ELSE /\ \A m \in Ids(db.metas) : m < MetaId
              /\ e.metas[MetaId] = [frame |-> frame, data |-> MapId, next |-> None]
  BY MetaSaved
<1>2. Saved = WithLink(e)
  BY DEF Saved
<1>. HIDE DEF e
<1>3. CASE binding.prev = None
  <2>1. Saved = e
    BY <1>2, <1>3 DEF WithLink
  <2>2. \A m \in Ids(db.metas) : m # None
    BY DEF Ids, None
  <2>3. QED
    BY <1>1, <1>3, <2>1, <2>2 DEF Meta
<1>4. CASE binding.prev # None
  <2>1. Saved = [e EXCEPT !.metas[binding.prev].next = MetaId]
    BY <1>2, <1>4 DEF WithLink
  <2>2. Saved = [e EXCEPT !.metas = metas2]
    BY <2>1
  <2>3. binding.prev \in Ids(db.metas) /\ binding.prev \in Ids(e.metas)
    BY <1>1, <1>4 DEF Bindings
  <2>4. e.metas \in Seq(R) /\ e.metas \in [Ids(e.metas) -> R] /\ Len(e.metas) \in Nat
    <3>1. e.metas \in Seq(R)
      BY <1>1 DEF DatabaseOK
    <3>. HIDE DEF R
    <3>2. QED
      BY <3>1, FunctionOfSeq
  <2>5. /\ e.metas[binding.prev] \in R
        /\ [e.metas[binding.prev] EXCEPT !.next = MetaId] \in R
    BY <1>1, <2>3, <2>4
  <2>6. metas2 = [e.metas EXCEPT ![binding.prev] = [e.metas[binding.prev] EXCEPT !.next = MetaId]]
    OBVIOUS
  <2>7. metas2 \in Seq(R) /\ Len(metas2) = Len(e.metas)
    <3>. DEFINE r == [e.metas[binding.prev] EXCEPT !.next = MetaId]
    <3>. HIDE DEF R, r, metas2
    <3>1. r \in R /\ metas2 = [e.metas EXCEPT ![binding.prev] = r]
      BY <2>5, <2>6 DEF r
    <3>2. metas2 \in [Ids(e.metas) -> R]
      BY <2>4, <3>1
    <3>3. QED
      BY <2>4, <3>2, SeqOfFunction DEF Ids
  <2>8. /\ metas2[binding.prev] = [e.metas[binding.prev] EXCEPT !.next = MetaId]
        /\ \A m \in Ids(e.metas) : m # binding.prev => metas2[m] = e.metas[m]
    <3>. HIDE DEF R
    <3>1. QED
      BY <2>3, <2>4, <2>6
  <2>9. /\ metas2[binding.prev].frame = e.metas[binding.prev].frame
        /\ metas2[binding.prev].data = e.metas[binding.prev].data
        /\ metas2[binding.prev].next = MetaId
    BY <2>5, <2>8
  <2>. HIDE DEF metas2
  <2>10. Saved = [items |-> e.items, maps |-> e.maps, metas |-> metas2, roots |-> e.roots]
    BY <1>1, <2>2 DEF Fields
  <2>11. /\ Saved.items = e.items /\ Saved.maps = e.maps /\ Saved.metas = metas2
         /\ Saved.roots = e.roots /\ Fields(Saved)
    BY <2>10 DEF Fields
  <2>12. Ids(metas2) = Ids(e.metas)
    BY <2>7 DEF Ids
  <2>13. DatabaseOK(Saved)
    BY <1>1, <2>7, <2>11, <2>12 DEF DatabaseOK
  <2>14. \A m \in Ids(db.metas) :
           /\ metas2[m].frame = Meta(m).frame /\ metas2[m].data = Meta(m).data
           /\ metas2[m].next = IF m = binding.prev THEN MetaId ELSE Meta(m).next
    BY <1>1, <2>3, <2>8, <2>9 DEF Meta
  <2>15. ~binding.hasMeta => metas2[MetaId] = e.metas[MetaId]
    <3>1. ~binding.hasMeta => MetaId # binding.prev /\ MetaId \in Ids(e.metas)
      <4>1. binding.prev \in Nat
        BY <2>3, <2>4 DEF Ids
      <4>2. QED
        BY <1>1, <2>3, <4>1
    <3>2. QED
      BY <2>8, <3>1
  <2>16. QED
    BY <1>1, <2>11, <2>12, <2>13, <2>14, <2>15
<1>5. QED
  BY <1>3, <1>4

-----------------------------------------------------------------------------
(* Each step preserves the invariant.                                       *)

LEMMA Facts ==
  ASSUME DataOK, ControlOK
  PROVE  /\ Len(db.items) \in Nat /\ Len(disk.items) \in Nat
         /\ frame \in Int /\ LastFrame \in Nat /\ PastEnd = LastFrame + 1
         /\ \A m \in Ids(db.metas) : /\ Meta(m).frame \in Nat
                                     /\ Meta(m).data \in Ids(db.maps)
                                     /\ Meta(m).next \in Ids(db.metas) \cup {None}
<1>1. DatabaseOK(db) /\ DatabaseOK(disk)
  BY DEF DataOK
<1>2. Len(db.items) \in Nat /\ Len(disk.items) \in Nat
  BY <1>1, DatabaseFacts
<1>3. \A m \in Ids(db.metas) : MetaOK(db, m)
  BY <1>1, DatabaseFacts
<1>4. \A m \in Ids(db.metas) : Meta(m).frame \in Nat
  BY <1>1, MetaFacts
<1>5. LastFrame \in Nat /\ PastEnd = LastFrame + 1
  BY BinderAssumption DEF PastEnd
<1>6. frame \in Int
  <2>1. frame \in -1 .. PastEnd
    BY DEF ControlOK
  <2>2. QED
    BY <1>5, <2>1
<1>7. QED
  BY <1>1, <1>2, <1>3, <1>4, <1>5, <1>6 DEF MetaOK, Meta

LEMMA StartStep == BinderInv /\ Start => BinderInv'
<1>. SUFFICES ASSUME BinderInv, Start PROVE BinderInv'
  OBVIOUS
<1>1. /\ UNCHANGED <<db, disk, modified, readable, binding, serializer, frame, regions, failed>>
      /\ at = "off" /\ at' = "idle" /\ shapeParser' \in BOOLEAN
      /\ starts < MaxStarts /\ starts' = starts + 1
  BY DEF Start, file
<1>. USE DEF BinderInv
<1>2. DataOK'
  BY <1>1 DEF DataOK, Bindings, Serializers
<1>3. ControlOK'
  <2>1. starts' \in 0 .. MaxStarts
    <3>1. starts \in 0 .. MaxStarts /\ MaxStarts \in Nat
      BY BinderAssumption DEF ControlOK
    <3>2. QED
      BY <1>1, <3>1
  <2>2. QED
    BY <1>1, <2>1 DEF ControlOK
<1>4. DatabaseInv'
  BY <1>1 DEF DatabaseInv, OnVideo, Unlinked, Meta
<1>5. FrameInv' /\ StepInv'
  BY <1>1 DEF FrameInv, Parsed, StepInv
<1>6. UnsavedInv'
  BY <1>1 DEF UnsavedInv, Unflushed
<1>7. QED
  BY <1>2, <1>3, <1>4, <1>5, <1>6

LEMMA StartUnawareStep == BinderInv /\ StartUnaware => BinderInv'
<1>. SUFFICES ASSUME BinderInv, StartUnaware PROVE BinderInv'
  OBVIOUS
<1>1. /\ UNCHANGED <<db, disk, modified, readable, binding, serializer, frame, regions, shapeParser>>
      /\ at = "off" /\ at' = "idle" /\ failed' = "tables"
      /\ starts < MaxStarts /\ starts' = starts + 1
  BY DEF StartUnaware, file
<1>. USE DEF BinderInv
<1>2. DataOK'
  BY <1>1 DEF DataOK, Bindings, Serializers
<1>3. ControlOK'
  <2>1. starts' \in 0 .. MaxStarts
    <3>1. starts \in 0 .. MaxStarts /\ MaxStarts \in Nat
      BY BinderAssumption DEF ControlOK
    <3>2. QED
      BY <1>1, <3>1
  <2>2. QED
    BY <1>1, <2>1 DEF ControlOK
<1>4. DatabaseInv'
  BY <1>1 DEF DatabaseInv, OnVideo, Unlinked, Meta
<1>5. FrameInv' /\ StepInv'
  BY <1>1 DEF FrameInv, Parsed, StepInv
<1>6. UnsavedInv'
  BY <1>1 DEF UnsavedInv, Unflushed, Has
<1>7. QED
  BY <1>2, <1>3, <1>4, <1>5, <1>6

LEMMA InitializeStep == BinderInv /\ Initialize => BinderInv'
<1>. SUFFICES ASSUME BinderInv, Initialize PROVE BinderInv'
  OBVIOUS
<1>. USE DEF BinderInv
<1>1. /\ at \in {"idle", "shown"} /\ at' = "idle"
      /\ UNCHANGED <<db, readable, frame, failed>> /\ shapeParser' \in BOOLEAN
      /\ starts < MaxStarts /\ starts' = starts + 1
      /\ disk' = db /\ modified' = FALSE
      /\ binding' = [binding EXCEPT !.open = FALSE]
      /\ serializer' = [serializer EXCEPT !.id = None, !.new = FALSE]
      /\ regions' = NoFrame
  BY DEF Initialize
<1>2. /\ binding' \in Bindings /\ ~binding'.open /\ binding'.video = binding.video
      /\ binding'.prev = binding.prev /\ binding'.curr = binding.curr
  BY <1>1 DEF Bindings, DataOK
<1>3. serializer' \in Serializers(db) /\ serializer'.new = FALSE
  BY <1>1 DEF Serializers, DataOK
<1>4. DataOK'
  BY <1>1, <1>2, <1>3 DEF DataOK, Bindings, Serializers
<1>5. ControlOK'
  <2>1. starts' \in 0 .. MaxStarts
    <3>1. starts \in 0 .. MaxStarts /\ MaxStarts \in Nat
      BY BinderAssumption DEF ControlOK
    <3>2. QED
      BY <1>1, <3>1
  <2>2. QED
    BY <1>1, <2>1 DEF ControlOK
<1>6. DatabaseInv'
  BY <1>1, <1>2 DEF DatabaseInv, OnVideo, Unlinked, Meta
<1>7. FrameInv' /\ StepInv'
  BY <1>1, <1>2, <1>3 DEF FrameInv, Parsed, StepInv
<1>8. UnsavedInv'
  BY <1>1, Facts, GrownSame DEF UnsavedInv, Unflushed
<1>9. QED
  BY <1>4, <1>5, <1>6, <1>7, <1>8

LEMMA KillStep == BinderInv /\ Kill => BinderInv'
<1>. SUFFICES ASSUME BinderInv, Kill PROVE BinderInv'
  OBVIOUS
<1>. USE DEF BinderInv
<1>1. /\ db' = disk /\ disk' = disk /\ modified' = FALSE
      /\ binding' = Unbound /\ serializer' = Unsaved /\ at' = "off" /\ frame' = -1
      /\ regions' = NoFrame /\ failed' = "nothing" /\ shapeParser' = FALSE /\ starts' = starts
  BY DEF Kill
<1>2. readable' \in BOOLEAN
  BY DEF Kill, ControlOK
<1>3. AnyVideo \in Videos
  BY BinderAssumption DEF AnyVideo
<1>4. DataOK'
  <2>1. Unbound \in [open : BOOLEAN, video : Videos, prev : Ids(disk.metas) \cup {None},
                    curr : Ids(disk.metas) \cup {None}, hasMeta : BOOLEAN]
    BY <1>3 DEF Unbound
  <2>2. Unsaved \in Serializers(disk)
    BY DEF Unsaved, NoData, Serializers
  <2>3. QED
    BY <1>1, <2>1, <2>2 DEF DataOK, Bindings, Serializers
<1>5. ControlOK'
  <2>1. -1 \in -1 .. PastEnd
    BY BinderAssumption DEF PastEnd
  <2>2. QED
    BY <1>1, <1>2, <2>1 DEF ControlOK
<1>6. DatabaseInv'
  <2>1. \A own : OnVideo(own)'
    BY <1>1 DEF OnVideo, Unbound
  <2>2. QED
    BY <1>1, <2>1 DEF DatabaseInv
<1>7. FrameInv' /\ StepInv'
  BY <1>1 DEF FrameInv, Parsed, StepInv, Unbound, Unsaved
<1>8. UnsavedInv'
  BY <1>1, Facts, GrownSame DEF UnsavedInv, Unflushed
<1>9. QED
  BY <1>4, <1>5, <1>6, <1>7, <1>8

LEMMA OpenStep == \A v \in Videos : BinderInv /\ OpenBinding(v) => BinderInv'
<1>. SUFFICES ASSUME NEW v \in Videos, BinderInv, OpenBinding(v) PROVE BinderInv'
  OBVIOUS
<1>. USE DEF BinderInv
<1>1. CASE AssertsCompiled /\ binding.open
  <2>1. /\ failed' = "open"
        /\ UNCHANGED <<db, disk, modified, readable, binding, serializer, at, frame, regions, shapeParser, starts>>
    BY <1>1 DEF OpenBinding, Fails, file
  <2>2. DataOK'
    BY <2>1 DEF DataOK, Bindings, Serializers
  <2>3. ControlOK'
    BY <2>1 DEF ControlOK
  <2>4. DatabaseInv'
    BY <2>1 DEF DatabaseInv, OnVideo, Unlinked, Meta
  <2>5. FrameInv' /\ StepInv'
    BY <2>1 DEF FrameInv, Parsed, Current, Here, Meta, StepInv
  <2>6. UnsavedInv'
    BY <2>1 DEF UnsavedInv, Unflushed, Has
  <2>7. QED
    BY <2>2, <2>3, <2>4, <2>5, <2>6
<1>2. CASE ~(AssertsCompiled /\ binding.open)
  <2>1. /\ at = "idle"
        /\ binding' = Opened(v) /\ regions' = NoFrame /\ at' = "next" /\ frame' = -1
        /\ UNCHANGED <<db, disk, modified, readable, serializer, failed, shapeParser, starts>>
    BY <1>2 DEF OpenBinding, file
  <2>2. db.roots[v] \in Ids(db.metas) \cup {None}
    BY DatabaseFacts DEF DataOK, Rooted
  <2>3. DataOK'
    BY <2>1, <2>2 DEF DataOK, Bindings, Serializers, Opened
  <2>4. -1 \in -1 .. PastEnd /\ -1 <= LastFrame
    BY Facts
  <2>5. ControlOK'
    BY <2>1, <2>4 DEF ControlOK
  <2>6. DatabaseInv'
    <3>1. PICK own : Listed(db, own)
      BY DEF DatabaseInv
    <3>2. db.roots[v] # None => own[db.roots[v]] = v
      BY <3>1 DEF Listed
    <3>3. db.roots[v] # None => Meta(db.roots[v]).frame >= Meta(db.roots[v]).frame
      BY <2>2, Facts
    <3>4. OnVideo(own)'
      BY <2>1, <3>2, <3>3 DEF OnVideo, Opened, Unlinked, Meta
    <3>5. QED
      BY <2>1, <3>1, <3>4 DEF DatabaseInv
  <2>7. FrameInv' /\ StepInv'
    BY <2>1, <2>4 DEF FrameInv, Parsed, StepInv, Opened
  <2>8. UnsavedInv'
    BY <2>1 DEF UnsavedInv, Unflushed, Has
  <2>9. QED
    BY <2>3, <2>5, <2>6, <2>7, <2>8
<1>3. QED
  BY <1>1, <1>2

LEMMA ReadStep == BinderInv /\ ReadNextFrame => BinderInv'
<1>. SUFFICES ASSUME BinderInv, ReadNextFrame PROVE BinderInv'
  OBVIOUS
<1>. USE DEF BinderInv
<1>1. /\ at = "next" /\ at' = "frame" /\ frame' \in 0 .. LastFrame
      /\ UNCHANGED <<db, disk, modified, readable, binding, serializer, regions, failed, shapeParser, starts>>
  BY DEF ReadNextFrame, file
<1>2. DataOK'
  BY <1>1 DEF DataOK, Bindings, Serializers
<1>3. frame' \in -1 .. PastEnd /\ frame' >= 0 /\ frame' <= LastFrame
  BY <1>1, Facts
<1>4. ControlOK'
  BY <1>1, <1>3 DEF ControlOK
<1>5. DatabaseInv'
  BY <1>1 DEF DatabaseInv, OnVideo, Unlinked, Meta
<1>6. FrameInv' /\ StepInv'
  BY <1>1, <1>3 DEF FrameInv, Parsed, StepInv
<1>7. UnsavedInv'
  BY <1>1 DEF UnsavedInv, Unflushed, Has
<1>8. QED
  BY <1>2, <1>4, <1>5, <1>6, <1>7

LEMMA EndStep == BinderInv /\ EndParsing => BinderInv'
<1>. SUFFICES ASSUME BinderInv, EndParsing PROVE BinderInv'
  OBVIOUS
<1>. USE DEF BinderInv
<1>1. /\ at = "next" /\ frame # -1 /\ at' = "idle" /\ (frame' = frame \/ frame' = PastEnd)
      /\ UNCHANGED <<db, disk, modified, readable, binding, serializer, regions, failed, shapeParser, starts>>
  BY DEF EndParsing, file
<1>2. DataOK'
  BY <1>1 DEF DataOK, Bindings, Serializers
<1>3. PastEnd \in -1 .. PastEnd
  BY Facts
<1>4. ControlOK'
  BY <1>1, <1>3 DEF ControlOK
<1>5. DatabaseInv'
  BY <1>1 DEF DatabaseInv, OnVideo, Unlinked, Meta
<1>6. FrameInv'
  <2>1. Parsed /\ Parsed' /\ Current' = Current
    BY <1>1 DEF Parsed, Current, StepInv
  <2>2. QED
    BY <1>1, <2>1 DEF FrameInv, Meta
<1>7. StepInv'
  BY <1>1 DEF StepInv
<1>8. UnsavedInv'
  BY <1>1 DEF UnsavedInv, Unflushed, Has
<1>9. QED
  BY <1>2, <1>4, <1>5, <1>6, <1>7, <1>8

LEMMA LoadStep == BinderInv /\ LoadFrameData => BinderInv'
<1>. SUFFICES ASSUME BinderInv, LoadFrameData PROVE BinderInv'
  OBVIOUS
<1>. USE DEF BinderInv
<1>. DEFINE b == MoveClosestToFrameData(frame)
            found == b.curr # None /\ Meta(b.curr).frame = frame
<1>1. /\ at = "frame" /\ at' = "run"
      /\ UNCHANGED <<db, disk, modified, readable, frame, regions, failed, shapeParser, starts>>
      /\ binding' = [b EXCEPT !.hasMeta = found]
      /\ serializer' =
           IF found
           THEN [map |-> db.maps[Meta(b.curr).data], id |-> Meta(b.curr).data, new |-> FALSE]
           ELSE Unsaved
  BY DEF LoadFrameData, file
<1>2. PICK own : Listed(db, own) /\ OnVideo(own)
  BY DEF DatabaseInv
<1>3. binding.open /\ frame \in 0 .. LastFrame /\ frame \in Nat /\ frame # PastEnd
  BY <1>1, Facts DEF StepInv
<1>4. At(b, frame, own)
  BY <1>1, <1>2, <1>3, MovedTo
<1>. HIDE DEF b
<1>5. /\ b \in Bindings /\ b.open = binding.open /\ b.video = binding.video
  BY <1>4 DEF At
<1>6. /\ binding' \in Bindings /\ binding'.open /\ binding'.video = b.video
      /\ binding'.prev = b.prev /\ binding'.curr = b.curr /\ binding'.hasMeta = found
  BY <1>1, <1>3, <1>5 DEF Bindings
<1>7. found => /\ b.curr \in Ids(db.metas)
               /\ Meta(b.curr).data \in Ids(db.maps)
               /\ db.maps[Meta(b.curr).data] \in [Labels -> Ids(db.items) \cup {None}]
  <2>1. found => b.curr \in Ids(db.metas)
    BY <1>5 DEF Bindings
  <2>2. found => Meta(b.curr).data \in Ids(db.maps)
    BY <2>1, Facts
  <2>3. QED
    BY <2>1, <2>2, DatabaseFacts DEF DataOK
<1>8. serializer' \in Serializers(db)
  BY <1>1, <1>7 DEF Serializers, Unsaved, NoData
<1>9. DataOK'
  BY <1>1, <1>6, <1>8 DEF DataOK, Bindings, Serializers
<1>10. ControlOK'
  BY <1>1 DEF ControlOK
<1>11. DatabaseInv'
  <2>1. OnVideo(own)'
    BY <1>1, <1>4, <1>6 DEF OnVideo, At, Unlinked, Meta
  <2>2. QED
    BY <1>1, <1>2, <2>1 DEF DatabaseInv
<1>12. FrameInv'
  <2>1. Current' = [video |-> b.video, frame |-> frame]
    BY <1>1, <1>6 DEF Current, Here
  <2>2. /\ Current'.frame = frame
        /\ Current' = [video |-> binding'.video, frame |-> Current'.frame]
    BY <1>6, <2>1
  <2>3. Holds(db, serializer'.map, Current')
    <3>1. CASE found
      <4>1. own[b.curr] = b.video
        BY <1>4, <3>1 DEF At
      <4>2. Holds(db, db.maps[Meta(b.curr).data], [video |-> own[b.curr], frame |-> Meta(b.curr).frame])
        BY <1>2, <1>3, <1>7, <3>1 DEF Listed, Meta
      <4>3. QED
        BY <1>1, <2>1, <3>1, <4>1, <4>2
    <3>2. CASE ~found
      BY <1>1, <3>2 DEF Holds, Unsaved, NoData
    <3>3. QED
      BY <3>1, <3>2
  <2>4. serializer'.id # None => found /\ Meta(b.curr).data = serializer'.id
    BY <1>1 DEF Unsaved
  <2>5. ~found /\ b.curr # None => Meta(b.curr).frame > frame
    <3>1. b.curr # None => Meta(b.curr).frame >= frame /\ Meta(b.curr).frame \in Nat
      BY <1>4, <1>5, Facts DEF At, Bindings
    <3>2. QED
      BY <1>3, <3>1
  <2>6. b.prev # None => Meta(b.prev).frame <= frame
    BY <1>4 DEF At
  <2>7. QED
    BY <1>1, <1>3, <1>6, <2>2, <2>3, <2>4, <2>5, <2>6 DEF FrameInv, Meta
<1>13. StepInv'
  BY <1>1, <1>3, <1>6 DEF StepInv
<1>14. UnsavedInv'
  BY <1>1 DEF UnsavedInv, Unflushed, Has
<1>15. QED
  BY <1>9, <1>10, <1>11, <1>12, <1>13, <1>14

\* Between its operations the binder does not mind data items that are added.
LEMMA GrownInv ==
  ASSUME BinderInv, DatabaseOK(db'), Fields(db'), Grown(db, db'),
         serializer' \in Serializers(db'), UNCHANGED <<disk, binding, failed>>,
         at \in {"run", "shown", "idle"}, at' \in {"save", "finish", "exit"}
  PROVE  DataOK' /\ DatabaseInv' /\ UnsavedInv'
<1>. USE DEF BinderInv
<1>1. DatabaseOK(db) /\ DatabaseOK(disk)
  BY DEF DataOK
<1>2. db'.metas = db.metas /\ db'.maps = db.maps /\ db'.roots = db.roots
  BY DEF Grown
<1>3. DataOK'
  BY <1>2 DEF DataOK, Bindings
<1>4. DatabaseInv'
  <2>1. PICK own : Listed(db, own) /\ OnVideo(own)
    BY DEF DatabaseInv
  <2>2. Listed(db', own)
    BY <1>1, <2>1, GrownListed
  <2>3. OnVideo(own)'
    BY <1>2, <2>1 DEF OnVideo, Unlinked, Meta
  <2>4. QED
    BY <2>2, <2>3 DEF DatabaseInv
<1>5. UnsavedInv'
  <2>1. Len(disk.items) \in Nat /\ Len(db.items) \in Nat /\ Len(db'.items) \in Nat
    BY <1>1, DatabaseFacts
  <2>2. QED
    BY <2>1, GrownTwice DEF UnsavedInv, Unflushed
<1>6. QED
  BY <1>3, <1>4, <1>5

LEMMA CurrentIsOwner ==
  ASSUME BinderInv, Parsed
  PROVE  Current \in Owners /\ Current.video = binding.video
<1>. USE DEF BinderInv
<1>1. /\ Current = [video |-> binding.video, frame |-> Current.frame]
      /\ Current.frame \in 0 .. LastFrame
  BY DEF FrameInv
<1>2. binding.video \in Videos
  BY DEF DataOK, Bindings
<1>3. Current.frame \in 0 .. PastEnd
  BY <1>1, Facts
<1>. HIDE DEF Current
<1>4. QED
  BY <1>1, <1>2, <1>3 DEF Owners

LEMMA RunStep == BinderInv /\ Run => BinderInv'
<1>. SUFFICES ASSUME BinderInv, Run PROVE BinderInv'
  OBVIOUS
<1>. USE DEF BinderInv
<1>1. /\ at = "run" /\ at' = "save" /\ regions' = Here
      /\ UNCHANGED <<disk, readable, binding, frame, failed, shapeParser, starts>>
  BY DEF Run
<1>2. Parsed /\ Current = Here /\ binding.open
  BY <1>1 DEF Parsed, Current, StepInv
<1>3. Here \in Owners
  BY <1>2, CurrentIsOwner
<1>4. Holds(db, serializer.map, Here)
  BY <1>2 DEF FrameInv
<1>5. /\ Fields(db') /\ DatabaseOK(db') /\ Grown(db, db')
      /\ serializer' \in Serializers(db') /\ serializer'.id = serializer.id
      /\ Holds(db', serializer'.map, Here)
      /\ modified' \in BOOLEAN
  <2>1. CASE shapeParser /\ serializer.map["shapes"] = None
    <3>1. SaveComponentData("shapes", Here)
      BY <2>1 DEF Run
    <3>2. QED
      BY <1>3, <1>4, <3>1, SavingGrows DEF DataOK, DatabaseInv, Labels
  <2>2. CASE ~(shapeParser /\ serializer.map["shapes"] = None)
    <3>1. UNCHANGED <<db, modified, serializer>>
      BY <2>2 DEF Run
    <3>2. QED
      BY <1>4, <3>1, Facts, GrownSame DEF DataOK, DatabaseInv, ControlOK
  <2>3. QED
    BY <2>1, <2>2
<1>6. DataOK' /\ DatabaseInv' /\ UnsavedInv'
  BY <1>1, <1>5, GrownInv
<1>7. ControlOK'
  BY <1>1, <1>3, <1>5 DEF ControlOK
<1>8. FrameInv'
  <2>1. Current' = Current
    BY <1>1, <1>2 DEF Current
  <2>2. db'.metas = db.metas
    BY <1>5 DEF Grown
  <2>3. frame = Current.frame
    BY <1>1, <1>2 DEF FrameInv
  <2>4. Holds(db', serializer'.map, Current')
    BY <1>2, <1>5, <2>1
  <2>. HIDE DEF Current
  <2>5. QED
    BY <1>1, <1>2, <1>5, <2>1, <2>2, <2>3, <2>4 DEF FrameInv, Meta
<1>9. StepInv'
  BY <1>1, <1>2 DEF StepInv
<1>10. QED
  BY <1>6, <1>7, <1>8, <1>9

LEMMA FinishedStep == BinderInv /\ FinishedFrame => BinderInv'
<1>. SUFFICES ASSUME BinderInv, FinishedFrame PROVE BinderInv'
  OBVIOUS
<1>. USE DEF BinderInv
<1>1. /\ (at = "shown" /\ at' = "finish") \/ (at = "idle" /\ at' = "exit")
      /\ UNCHANGED <<disk, readable, binding, frame, regions, failed, shapeParser, starts>>
  BY DEF FinishedFrame
<1>2. Parsed' => Parsed
  BY <1>1 DEF Parsed
<1>3. /\ Fields(db') /\ DatabaseOK(db') /\ Grown(db, db')
      /\ serializer' \in Serializers(db') /\ serializer'.id = serializer.id
      /\ Parsed => Holds(db', serializer'.map, regions)
      /\ modified' \in BOOLEAN
      /\ serializer'.new => binding.open
  <2>1. CASE UNCHANGED <<db, modified, serializer>>
    <3>1. Parsed => Holds(db, serializer.map, regions)
      BY <1>1 DEF FrameInv, Current
    <3>2. QED
      BY <2>1, <3>1, Facts, GrownSame DEF DataOK, DatabaseInv, ControlOK, StepInv
  <2>2. CASE regions # NoFrame /\ SaveComponentData("regions", regions)
    <3>1. binding.open /\ Parsed /\ Current = regions
      BY <1>1, <2>2 DEF StepInv, Parsed, Current
    <3>2. regions \in Owners /\ Holds(db, serializer.map, regions)
      BY <3>1, CurrentIsOwner DEF FrameInv
    <3>3. QED
      BY <2>2, <3>1, <3>2, SavingGrows DEF DataOK, DatabaseInv, Labels
  <2>3. QED
    BY <2>1, <2>2 DEF FinishedFrame
<1>4. DataOK' /\ DatabaseInv' /\ UnsavedInv'
  BY <1>1, <1>3, GrownInv
<1>5. ControlOK'
  BY <1>1, <1>3 DEF ControlOK
<1>6. FrameInv'
  <2>1. Current' = regions /\ Current = regions
    BY <1>1 DEF Current
  <2>2. db'.metas = db.metas
    BY <1>3 DEF Grown
  <2>. HIDE DEF Current, Parsed
  <2>3. Parsed => /\ Holds(db', serializer'.map, Current')
                  /\ serializer'.id = serializer.id
                  /\ Current' = Current
    BY <1>3, <2>1
  <2>4. QED
    BY <1>1, <1>2, <2>2, <2>3 DEF FrameInv, Meta
<1>7. StepInv'
  BY <1>1, <1>3 DEF StepInv
<1>8. QED
  BY <1>4, <1>5, <1>6, <1>7

LEMMA AfterSaveAt ==
  ASSUME at \in {"save", "saved", "finish", "finished", "exit", "exited"}
  PROVE  /\ at \in {"save", "saved"} => AfterSave = "shown"
         /\ at \in {"finish", "finished"} => AfterSave = "next"
         /\ at \in {"exit", "exited"} => AfterSave = "gone"
BY DEF AfterSave

LEMMA SaveNothingStep == BinderInv /\ SaveNothing => BinderInv'
<1>. SUFFICES ASSUME BinderInv, SaveNothing PROVE BinderInv'
  OBVIOUS
<1>. USE DEF BinderInv
<1>1. /\ at \in {"save", "finish", "exit"} /\ at' = AfterSave
      /\ UNCHANGED <<db, disk, modified, readable, binding, serializer, frame, regions, failed, shapeParser, starts>>
  BY DEF SaveNothing, file
<1>2. \/ at = "save" /\ at' = "shown"
      \/ at = "finish" /\ at' = "next"
      \/ at = "exit" /\ at' = "gone"
  BY <1>1, AfterSaveAt
<1>3. DataOK'
  BY <1>1 DEF DataOK, Bindings, Serializers
<1>4. ControlOK'
  BY <1>1, <1>2 DEF ControlOK
<1>5. DatabaseInv'
  BY <1>1, <1>2 DEF DatabaseInv, OnVideo, Unlinked, Meta
<1>6. FrameInv'
  <2>1. Parsed' => Parsed /\ Current' = Current /\ at # "exit"
    BY <1>1, <1>2 DEF Parsed, Current
  <2>. HIDE DEF Current, Parsed
  <2>2. QED
    BY <1>1, <1>2, <2>1 DEF FrameInv, Meta
<1>7. StepInv'
  BY <1>1, <1>2 DEF StepInv
<1>8. UnsavedInv'
  BY <1>1, <1>2 DEF UnsavedInv, Unflushed
<1>9. QED
  BY <1>3, <1>4, <1>5, <1>6, <1>7, <1>8

\* What the invariant says when SaveFrameData has something to save.
LEMMA BeforeSave ==
  ASSUME BinderInv, at \in {"save", "finish", "exit"}, serializer.new
  PROVE  /\ binding.open /\ Parsed /\ Current = regions
         /\ frame \in 0 .. PastEnd /\ regions.frame <= frame
         /\ frame = regions.frame \/ (at = "exit" /\ frame = PastEnd)
         /\ regions.frame \in 0 .. LastFrame /\ regions = [video |-> binding.video, frame |-> regions.frame]
         /\ Holds(db, serializer.map, regions)
         /\ binding.hasMeta => binding.curr \in Ids(db.metas) /\ Meta(binding.curr).frame = regions.frame
         /\ ~binding.hasMeta /\ binding.curr # None => Meta(binding.curr).frame > regions.frame
         /\ binding.prev # None => Meta(binding.prev).frame <= regions.frame
         /\ serializer.id # None => binding.hasMeta /\ Meta(binding.curr).data = serializer.id
<1>. USE DEF BinderInv
<1>1. binding.open /\ Parsed /\ Current = regions
  BY DEF StepInv, Parsed, Current
<1>2. /\ regions = [video |-> binding.video, frame |-> regions.frame]
      /\ regions.frame \in 0 .. LastFrame
      /\ frame = regions.frame \/ (at \in {"idle", "exit"} /\ frame = PastEnd)
      /\ Holds(db, serializer.map, regions)
      /\ binding.hasMeta => binding.curr # None /\ Meta(binding.curr).frame = regions.frame
      /\ ~binding.hasMeta /\ binding.curr # None => Meta(binding.curr).frame > regions.frame
      /\ binding.prev # None => Meta(binding.prev).frame <= regions.frame
      /\ serializer.id # None => binding.hasMeta /\ Meta(binding.curr).data = serializer.id
  BY <1>1 DEF FrameInv
<1>3. frame \in 0 .. PastEnd /\ regions.frame <= frame
  BY <1>2, Facts
<1>4. binding.hasMeta => binding.curr \in Ids(db.metas)
  BY <1>2 DEF DataOK, Bindings
<1>5. QED
  BY <1>1, <1>2, <1>3, <1>4

\* The map of the frame can be stored whenever it is.
LEMMA MapStored ==
  ASSUME BinderInv, at \in {"save", "finish", "exit"}, serializer.new,
         NEW own, Listed(db, own), OnVideo(own)
  PROVE  Listed(WithMap(db), own)
<1>. USE DEF BinderInv
<1>1. serializer.id # None =>
        /\ binding.curr \in Ids(db.metas) /\ binding.curr # None
        /\ Meta(binding.curr).data = serializer.id /\ Meta(binding.curr).frame = regions.frame
  BY BeforeSave DEF Ids, None
<1>2. serializer.id # None => own[binding.curr] = binding.video
  BY <1>1 DEF OnVideo
<1>3. regions = [video |-> binding.video, frame |-> regions.frame] /\ Holds(db, serializer.map, regions)
  BY BeforeSave
<1>4. serializer.id # None =>
        Holds(db, serializer.map, [video |-> own[binding.curr], frame |-> Meta(binding.curr).frame])
  BY <1>1, <1>2, <1>3
<1>5. QED
  BY <1>1, <1>4, MapListed DEF DataOK, DatabaseInv

LEMMA SaveFailsStep == BinderInv /\ SaveFails => BinderInv'
<1>. SUFFICES ASSUME BinderInv, SaveFails PROVE BinderInv'
  OBVIOUS
<1>. USE DEF BinderInv
<1>1. /\ at \in {"save", "finish", "exit"} /\ serializer.new
      /\ failed' = Violated /\ Violated # "nothing"
      /\ modified' = (modified \/ binding.open)
      /\ UNCHANGED <<disk, readable, binding, serializer, at, frame, regions, shapeParser, starts>>
  BY DEF SaveFails
<1>2. db' = WithMap(db)
  BY <1>1, BeforeSave DEF SaveFails
<1>3. /\ Fields(db') /\ DatabaseOK(db')
      /\ db'.items = db.items /\ db'.metas = db.metas /\ db'.roots = db.roots
      /\ Ids(db.maps) \subseteq Ids(db'.maps)
  BY <1>2, MapSaved DEF DataOK, DatabaseInv
<1>4. DataOK'
  BY <1>1, <1>3 DEF DataOK, Bindings, Serializers
<1>5. ControlOK'
  <2>1. Violated \in {"nothing", "open", "data id", "frame number"}
    BY DEF Violated
  <2>2. QED
    BY <1>1, <2>1 DEF ControlOK
<1>6. DatabaseInv'
  <2>1. PICK own : Listed(db, own) /\ OnVideo(own)
    BY DEF DatabaseInv
  <2>2. Listed(db', own)
    BY <1>1, <1>2, <2>1, MapStored
  <2>3. OnVideo(own)'
    BY <1>1, <1>3, <2>1 DEF OnVideo, Unlinked, Meta
  <2>4. QED
    BY <1>1, <1>3, <2>2, <2>3 DEF DatabaseInv
<1>7. FrameInv'
  <2>1. Parsed' = Parsed /\ Current' = Current
    BY <1>1 DEF Parsed, Current, Here
  <2>2. \A map, owner : Holds(db', map, owner) <=> Holds(db, map, owner)
    BY <1>3 DEF Holds
  <2>. HIDE DEF Current, Parsed
  <2>3. QED
    BY <1>1, <1>3, <2>1, <2>2 DEF FrameInv, Meta
<1>8. StepInv'
  BY <1>1 DEF StepInv
<1>9. UnsavedInv'
  BY <1>1 DEF UnsavedInv, Unflushed, Has
<1>10. QED
  BY <1>4, <1>5, <1>6, <1>7, <1>8, <1>9

\* New metadata belong to the video that is parsed.
OwnSaved(own) ==
  [m \in Ids(Saved.metas) |-> IF m \in Ids(db.metas) THEN own[m] ELSE binding.video]

LEMMA SavedListed ==
  ASSUME BinderInv, at \in {"save", "finish", "exit"}, serializer.new,
         NEW own, Listed(db, own), OnVideo(own)
  PROVE  Listed(Saved, OwnSaved(own)) /\ OwnSaved(own)[MetaId] = binding.video
<1>. USE DEF BinderInv
<1>. DEFINE e == Saved
            own2 == OwnSaved(own)
            w == WithMap(db)
<1>1. /\ DatabaseOK(db) /\ binding \in Bindings /\ own \in [Ids(db.metas) -> Videos]
  BY DEF DataOK, Listed
<1>2. /\ frame \in 0 .. PastEnd /\ regions.frame <= frame
      /\ frame = regions.frame \/ frame = PastEnd
      /\ regions.frame \in 0 .. LastFrame
      /\ regions = [video |-> binding.video, frame |-> regions.frame]
      /\ Holds(db, serializer.map, regions)
      /\ binding.hasMeta => binding.curr \in Ids(db.metas) /\ binding.curr # None
      /\ binding.prev # None => Meta(binding.prev).frame <= regions.frame
      /\ serializer.id # None => binding.hasMeta
  BY BeforeSave DEF Ids, None
<1>3. /\ e.items = db.items /\ e.maps = w.maps
      /\ e.roots = [db.roots EXCEPT ![binding.video] = IF @ = None THEN MetaId ELSE @]
      /\ Ids(e.metas) = Ids(db.metas) \cup {MetaId}
      /\ \A m \in Ids(db.metas) :
           /\ e.metas[m].frame = Meta(m).frame /\ e.metas[m].data = Meta(m).data
           /\ e.metas[m].next = IF m = binding.prev THEN MetaId ELSE Meta(m).next
      /\ IF binding.hasMeta THEN MetaId = binding.curr /\ MetaId \in Ids(db.metas)
         ELSE /\ \A m \in Ids(db.metas) : m < MetaId
              /\ e.metas[MetaId] = [frame |-> frame, data |-> MapId, next |-> None]
  BY <1>2, SavedFacts DEF DataOK, DatabaseInv
<1>4. /\ w.items = db.items /\ w.maps[MapId] = serializer.map /\ w.metas = db.metas
      /\ serializer.id = None => MapId \notin Ids(db.maps)
  BY MapSaved DEF DataOK, DatabaseInv
<1>5. Listed(w, own)
  BY MapStored
<1>6. /\ own2 \in [Ids(e.metas) -> Videos]
      /\ \A m \in Ids(db.metas) : own2[m] = own[m]
      /\ own2[MetaId] = binding.video
  <2>1. own2 \in [Ids(e.metas) -> Videos] /\ \A m \in Ids(db.metas) : own2[m] = own[m]
    BY <1>1, <1>3 DEF OwnSaved, Bindings
  <2>2. CASE binding.hasMeta
    BY <1>2, <1>3, <2>1, <2>2 DEF OnVideo
  <2>3. CASE ~binding.hasMeta
    <3>1. MetaId \notin Ids(db.metas)
      <4>1. \A m \in Ids(db.metas) : m \in Int
        BY DEF Ids
      <4>2. QED
        BY <1>3, <2>3, <4>1
    <3>2. MetaId \in Ids(Saved.metas)
      BY <1>3
    <3>3. QED
      BY <2>1, <3>1, <3>2 DEF OwnSaved
  <2>4. QED
    BY <2>2, <2>3, <2>1
<1>7. \A m \in Ids(db.metas) : Meta(m).frame \in Nat /\ Meta(m).data \in Ids(db.maps)
                               /\ Meta(m).next \in Ids(db.metas) \cup {None}
  BY Facts
<1>. HIDE DEF e, w, own2
<1>8. \A v \in Videos : e.roots[v] # None => own2[e.roots[v]] = v
  <2>. SUFFICES ASSUME NEW v \in Videos, e.roots[v] # None PROVE own2[e.roots[v]] = v
    OBVIOUS
  <2>1. db.roots \in [Videos -> Ids(db.metas) \cup {None}]
    BY <1>1 DEF DatabaseOK
  <2>2. CASE db.roots[v] # None
    <3>1. e.roots[v] = db.roots[v]
      BY <1>3, <2>1, <2>2
    <3>2. QED
      BY <1>6, <2>1, <2>2, <3>1 DEF Listed
  <2>3. CASE db.roots[v] = None
    <3>1. v = binding.video /\ e.roots[v] = MetaId
      BY <1>3, <2>1, <2>3
    <3>2. QED
      BY <1>6, <3>1
  <2>4. QED
    BY <2>2, <2>3
<1>9. ASSUME NEW m \in Ids(e.metas), e.metas[m].next # None
      PROVE  /\ m < e.metas[m].next
             /\ e.metas[m].frame <= e.metas[e.metas[m].next].frame
             /\ own2[e.metas[m].next] = own2[m]
  <2>1. m \in Ids(db.metas)
    BY <1>3, <1>9
  <2>2. CASE m # binding.prev
    <3>1. e.metas[m].next = Meta(m).next /\ Meta(m).next \in Ids(db.metas)
      BY <1>3, <1>7, <1>9, <2>1, <2>2
    <3>2. /\ m < Meta(m).next /\ Meta(m).frame <= Meta(Meta(m).next).frame
          /\ own[Meta(m).next] = own[m]
      BY <1>9, <2>1, <3>1 DEF Listed, Meta
    <3>3. QED
      BY <1>3, <1>6, <2>1, <3>1, <3>2
  <2>3. CASE m = binding.prev
    <3>0. m # None
      BY <2>1 DEF Ids, None
    <3>1. e.metas[m].next = MetaId /\ own[m] = binding.video /\ Meta(m).frame <= regions.frame
      BY <1>2, <1>3, <2>1, <2>3, <3>0 DEF OnVideo
    <3>2. CASE binding.hasMeta
      <4>1. Meta(m).next = MetaId /\ MetaId # None /\ MetaId \in Ids(db.metas)
        BY <1>2, <1>3, <2>3, <3>0, <3>2 DEF OnVideo
      <4>2. m < MetaId /\ Meta(m).frame <= Meta(MetaId).frame
        BY <2>1, <4>1 DEF Listed, Meta
      <4>3. QED
        BY <1>3, <1>6, <2>1, <3>1, <4>1, <4>2
    <3>3. CASE ~binding.hasMeta
      <4>1. e.metas[MetaId].frame = frame /\ m < MetaId
        BY <1>3, <2>1, <3>3
      <4>2. Meta(m).frame <= frame
        BY <1>2, <1>7, <2>1, <3>1, Facts
      <4>3. QED
        BY <1>3, <1>6, <2>1, <3>1, <4>1, <4>2
    <3>4. QED
      BY <3>2, <3>3
  <2>4. QED
    BY <2>2, <2>3
<1>10. ASSUME NEW m \in Ids(e.metas), e.metas[m].frame # PastEnd
       PROVE  Holds(e, e.maps[e.metas[m].data], [video |-> own2[m], frame |-> e.metas[m].frame])
  <2>1. CASE m \in Ids(db.metas)
    <3>1. Holds(w, w.maps[Meta(m).data], [video |-> own[m], frame |-> Meta(m).frame])
      BY <1>3, <1>4, <1>5, <1>10, <2>1 DEF Listed, Meta
    <3>2. QED
      BY <1>3, <1>4, <1>6, <2>1, <3>1 DEF Holds
  <2>2. CASE m \notin Ids(db.metas)
    <3>1. m = MetaId /\ e.metas[m] = [frame |-> frame, data |-> MapId, next |-> None]
      BY <1>3, <2>2
    <3>2. frame = regions.frame
      BY <1>2, <1>10, <3>1
    <3>3. regions = [video |-> own2[m], frame |-> e.metas[m].frame]
      BY <1>2, <1>6, <3>1, <3>2
    <3>4. e.maps[e.metas[m].data] = serializer.map
      BY <1>3, <1>4, <3>1
    <3>5. Holds(e, serializer.map, regions)
      BY <1>2, <1>3 DEF Holds
    <3>6. QED
      BY <3>3, <3>4, <3>5
  <2>3. QED
    BY <2>1, <2>2
<1>11. ASSUME NEW m \in Ids(e.metas), NEW n \in Ids(e.metas), m # n
       PROVE  e.metas[m].data # e.metas[n].data
  <2>1. CASE m \in Ids(db.metas) /\ n \in Ids(db.metas)
    BY <1>3, <1>11, <2>1 DEF Listed, Meta
  <2>2. ASSUME NEW x \in Ids(db.metas), NEW y \in Ids(e.metas), y \notin Ids(db.metas)
        PROVE  e.metas[x].data # e.metas[y].data
    <3>1. y = MetaId /\ ~binding.hasMeta /\ e.metas[y].data = MapId
      BY <1>3, <2>2
    <3>2. MapId \notin Ids(db.maps)
      BY <1>2, <1>4, <3>1
    <3>3. QED
      BY <1>3, <1>7, <3>1, <3>2
  <2>3. QED
    BY <1>3, <1>11, <2>1, <2>2
<1>12. QED
  BY <1>6, <1>8, <1>9, <1>10, <1>11 DEF Listed, e, own2

\* A list keeps the metadata before those that are saved.
LEMMA SavedChain ==
  ASSUME BinderInv, at \in {"save", "finish", "exit"}, serializer.new, Grown(disk, db),
         NEW own, Listed(db, own), OnVideo(own), NEW v \in Videos, NEW m \in Chain(disk, v),
         v # binding.video \/ (disk.metas[m].frame < frame /\ at # "exit")
  PROVE  /\ m \in Chain(Saved, v) /\ m \in Ids(db.metas)
         /\ binding.hasMeta => m # binding.curr
<1>. USE DEF BinderInv
<1>. DEFINE e == Saved
            Later == {x \in Ids(db.metas) : v = binding.video /\ at # "exit" /\ Meta(x).frame >= frame}
            S == {x \in Ids(db.metas) : own[x] = v /\ x \in Chain(e, v)} \cup Later
<1>1. /\ disk.metas = db.metas /\ disk.roots = db.roots
      /\ binding \in Bindings /\ DatabaseOK(db) /\ DatabaseOK(disk)
  BY DEF Grown, DataOK
<1>2. Ascending(db) /\ Rooted(db) /\ Ascending(disk) /\ Rooted(disk)
  <2>1. Ascending(db) /\ Rooted(db)
    BY <1>1, ListedAscends
  <2>2. QED
    BY <1>1, <2>1 DEF Ascending, Rooted
<1>3. /\ frame \in Nat
      /\ at # "exit" => frame = regions.frame
      /\ binding.hasMeta => binding.curr \in Ids(db.metas) /\ Meta(binding.curr).frame = regions.frame
      /\ ~binding.hasMeta /\ binding.curr # None => Meta(binding.curr).frame > regions.frame
  BY BeforeSave, Facts
<1>4. /\ DatabaseOK(e)
      /\ e.roots = [db.roots EXCEPT ![binding.video] = IF @ = None THEN MetaId ELSE @]
      /\ \A x \in Ids(db.metas) : x # binding.prev => e.metas[x].next = Meta(x).next
  <2>1. binding.hasMeta => binding.curr # None
    BY <1>3 DEF Ids, None
  <2>2. frame \in 0 .. PastEnd
    BY BeforeSave
  <2>3. QED
    BY <1>1, <2>1, <2>2, SavedFacts DEF DataOK, DatabaseInv
<1>5. Ascending(e) /\ Rooted(e)
  BY <1>4, SavedListed, ListedAscends
<1>. HIDE DEF e
<1>6. /\ e.roots[v] # None => e.roots[v] \in Chain(e, v)
      /\ \A x \in Chain(e, v) : e.metas[x].next # None => e.metas[x].next \in Chain(e, v)
  BY <1>5, ChainFacts
<1>7. disk.roots[v] # None => disk.roots[v] \in S
  <2>1. db.roots[v] # None => e.roots[v] = db.roots[v]
    BY <1>1, <1>4 DEF DatabaseOK
  <2>2. db.roots[v] # None => db.roots[v] \in Ids(db.metas) /\ own[db.roots[v]] = v
    BY <1>2 DEF Rooted, Listed
  <2>3. QED
    BY <1>1, <1>6, <2>1, <2>2
<1>8. \A x \in S \cap Ids(disk.metas) : disk.metas[x].next # None => disk.metas[x].next \in S
  <2>. SUFFICES ASSUME NEW x \in S, Meta(x).next # None PROVE Meta(x).next \in S
    BY <1>1 DEF Meta
  <2>. DEFINE y == Meta(x).next
  <2>1. /\ x \in Ids(db.metas) /\ y \in Ids(db.metas) /\ own[y] = own[x]
        /\ Meta(x).frame <= Meta(y).frame /\ Meta(x).frame \in Nat /\ Meta(y).frame \in Nat
    <3>1. x \in Ids(db.metas) /\ y \in Ids(db.metas)
      BY <1>2 DEF Ascending, Meta
    <3>2. own[y] = own[x] /\ Meta(x).frame <= Meta(y).frame
      BY <3>1 DEF Listed, Meta
    <3>3. QED
      BY <3>1, <3>2, Facts
  <2>2. CASE x \in Later
    <3>1. Meta(y).frame >= frame
      <4>1. Meta(x).frame >= frame
        BY <2>2
      <4>. HIDE DEF y
      <4>2. QED
        BY <1>3, <2>1, <4>1
    <3>2. QED
      BY <2>1, <2>2, <3>1
  <2>3. CASE x \notin Later
    <3>1. own[x] = v /\ x \in Chain(e, v)
      BY <2>3
    <3>2. CASE x # binding.prev
      <4>1. e.metas[x].next = y
        BY <1>4, <2>1, <3>2
      <4>. HIDE DEF y
      <4>2. QED
        BY <1>6, <2>1, <3>1, <4>1 DEF y
    <3>3. CASE x = binding.prev
      <4>1. binding.prev # None
        BY <2>1, <3>3 DEF Ids, None
      <4>2. own[x] = binding.video /\ y = binding.curr
        BY <3>3, <4>1 DEF OnVideo
      <4>3. v = binding.video /\ at # "exit"
        BY <3>1, <3>3, <4>2
      <4>4. binding.curr \in Ids(db.metas) /\ binding.curr # None
        BY <2>1, <4>2 DEF Ids, None
      <4>5. Meta(binding.curr).frame >= frame
        BY <1>3, <4>3, <4>4, Facts
      <4>6. QED
        BY <4>2, <4>3, <4>4, <4>5
    <3>4. QED
      BY <3>2, <3>3
  <2>4. QED
    BY <2>2, <2>3
<1>. HIDE DEF Later
<1>9. m \in S
  <2>. HIDE DEF S
  <2>1. Chain(disk, v) \subseteq S
    BY <1>2, <1>7, <1>8, ChainLeast
  <2>2. QED
    BY <2>1
<1>10. m \in Ids(db.metas) /\ Meta(m).frame \in Nat /\ Meta(m).frame = disk.metas[m].frame
  BY <1>1, <1>9, Facts DEF Later, Meta
<1>11. m \notin Later
  BY <1>3, <1>10 DEF Later
<1>12. binding.hasMeta => m # binding.curr
  <2>. SUFFICES ASSUME binding.hasMeta, m = binding.curr PROVE FALSE
    OBVIOUS
  <2>1. own[m] = v /\ own[m] = binding.video
    BY <1>3, <1>9, <1>10, <1>11 DEF OnVideo, Ids, None
  <2>2. at # "exit" /\ Meta(m).frame < frame
    BY <1>10, <2>1
  <2>3. QED
    BY <1>3, <1>10, <2>2
<1>13. QED
  BY <1>9, <1>10, <1>11, <1>12 DEF e

\* What is saved takes away nothing that is in the file of earlier frames and of
\* other videos.
LEMMA SaveKeeps ==
  ASSUME BinderInv, at \in {"save", "finish", "exit"}, serializer.new, failed = "nothing",
         NEW v \in Videos, NEW m \in Chain(disk, v),
         v # binding.video \/ (disk.metas[m].frame < frame /\ at # "exit")
  PROVE  Has(Saved, disk, m, v)
<1>. USE DEF BinderInv
<1>. DEFINE e == Saved
<1>1. Grown(disk, db)
  BY DEF UnsavedInv, Unflushed
<1>2. PICK own : Listed(db, own) /\ OnVideo(own)
  BY DEF DatabaseInv
<1>3. /\ m \in Chain(e, v) /\ m \in Ids(db.metas)
      /\ binding.hasMeta => m # binding.curr
  BY <1>1, <1>2, SavedChain
<1>4. /\ disk.metas = db.metas /\ disk.maps = db.maps
      /\ \A i \in Ids(disk.items) : db.items[i] = disk.items[i]
  BY <1>1 DEF Grown
<1>5. /\ frame \in 0 .. PastEnd /\ (binding.hasMeta => binding.curr \in Ids(db.metas))
      /\ serializer.id # None => binding.hasMeta /\ Meta(binding.curr).data = serializer.id
  BY BeforeSave
<1>6. /\ e.items = db.items /\ e.maps = WithMap(db).maps
      /\ e.metas[m].frame = Meta(m).frame /\ e.metas[m].data = Meta(m).data
  <2>1. binding.hasMeta => binding.curr # None
    BY <1>5 DEF Ids, None
  <2>2. QED
    BY <1>1, <1>3, <1>5, <2>1, SavedFacts DEF DataOK, DatabaseInv
<1>. HIDE DEF e
<1>. DEFINE k == Meta(m).data
<1>7. k \in Ids(db.maps)
  BY <1>3, Facts
<1>8. k # MapId
  <2>1. serializer.id = None => MapId \notin Ids(db.maps)
    BY MapSaved DEF DataOK, DatabaseInv
  <2>2. serializer.id # None => MapId = Meta(binding.curr).data
    BY <1>5, MapSaved DEF DataOK, DatabaseInv
  <2>3. QED
    BY <1>2, <1>3, <1>5, <1>7, <2>1, <2>2 DEF Listed, Meta
<1>9. e.maps[k] = db.maps[k]
  BY <1>6, <1>7, <1>8, MapSaved DEF DataOK, DatabaseInv
<1>10. disk.maps[k] \in [Labels -> Ids(disk.items) \cup {None}]
  <2>1. k \in Ids(disk.maps)
    BY <1>4, <1>7
  <2>2. QED
    BY <2>1, DatabaseFacts DEF DataOK
<1>11. disk.metas[m].data = k /\ e.metas[m].data = k /\ e.metas[m].frame = disk.metas[m].frame
  BY <1>4, <1>6 DEF Meta
<1>. HIDE DEF k
<1>12. ASSUME NEW l \in Labels, disk.maps[k][l] # None
       PROVE  /\ e.maps[k][l] = disk.maps[k][l]
              /\ e.items[disk.maps[k][l]] = disk.items[disk.maps[k][l]]
  <2>1. disk.maps[k][l] \in Ids(disk.items)
    BY <1>10, <1>12
  <2>2. QED
    BY <1>4, <1>6, <1>9, <2>1
<1>13. QED
  BY <1>3, <1>11, <1>12 DEF Has, e

LEMMA SaveStep == BinderInv /\ Save => BinderInv'
<1>. SUFFICES ASSUME BinderInv, Save PROVE BinderInv'
  OBVIOUS
<1>. USE DEF BinderInv
<1>1. /\ at \in {"save", "finish", "exit"} /\ serializer.new /\ failed = "nothing"
      /\ db' = Saved /\ modified' = TRUE
      /\ binding' = [binding EXCEPT !.curr = MetaId, !.hasMeta = TRUE]
      /\ UNCHANGED <<disk, readable, serializer, frame, regions, failed, shapeParser, starts>>
  BY DEF Save, Running
<1>2. \/ at = "save" /\ at' = "saved"
      \/ at = "finish" /\ at' = "finished"
      \/ at = "exit" /\ at' = "exited"
  BY DEF Save
<1>3. /\ binding.open /\ Parsed /\ Current = regions
      /\ frame \in 0 .. PastEnd /\ regions.frame <= frame
      /\ frame = regions.frame \/ (at = "exit" /\ frame = PastEnd)
      /\ regions.frame \in 0 .. LastFrame
      /\ regions = [video |-> binding.video, frame |-> regions.frame]
      /\ Holds(db, serializer.map, regions)
      /\ binding.hasMeta => binding.curr \in Ids(db.metas) /\ Meta(binding.curr).frame = regions.frame
      /\ ~binding.hasMeta /\ binding.curr # None => Meta(binding.curr).frame > regions.frame
      /\ binding.prev # None => Meta(binding.prev).frame <= regions.frame
      /\ serializer.id # None => binding.hasMeta /\ Meta(binding.curr).data = serializer.id
  BY <1>1, BeforeSave
<1>4. /\ Fields(db') /\ DatabaseOK(db')
      /\ db'.items = db.items /\ db'.maps = WithMap(db).maps
      /\ db'.roots = [db.roots EXCEPT ![binding.video] = IF @ = None THEN MetaId ELSE @]
      /\ Ids(db'.metas) = Ids(db.metas) \cup {MetaId}
      /\ \A m \in Ids(db.metas) :
           /\ db'.metas[m].frame = Meta(m).frame /\ db'.metas[m].data = Meta(m).data
           /\ db'.metas[m].next = IF m = binding.prev THEN MetaId ELSE Meta(m).next
      /\ IF binding.hasMeta THEN MetaId = binding.curr /\ MetaId \in Ids(db.metas)
         ELSE /\ \A m \in Ids(db.metas) : m < MetaId
              /\ db'.metas[MetaId] = [frame |-> frame, data |-> MapId, next |-> None]
  <2>1. binding.hasMeta => binding.curr # None
    BY <1>3 DEF Ids, None
  <2>2. QED
    BY <1>1, <1>3, <2>1, SavedFacts DEF DataOK, DatabaseInv
<1>5. /\ Ids(db.maps) \subseteq Ids(db'.maps)
  BY <1>4, MapSaved DEF DataOK, DatabaseInv
<1>6. MetaId \in Ids(db'.metas) /\ MetaId # None
  BY <1>4 DEF Ids, None
<1>7. /\ binding.prev \in Ids(db.metas) \cup {None} /\ binding.curr \in Ids(db.metas) \cup {None}
      /\ binding.video \in Videos
      /\ binding' = [open |-> binding.open, video |-> binding.video, prev |-> binding.prev,
                     curr |-> MetaId, hasMeta |-> TRUE]
  BY <1>1 DEF DataOK, Bindings
<1>8. DataOK'
  <2>1. binding' \in Bindings'
    BY <1>3, <1>4, <1>6, <1>7 DEF Bindings
  <2>2. serializer' \in Serializers(db)'
    BY <1>1, <1>4, <1>5 DEF DataOK, Serializers
  <2>3. QED
    BY <1>1, <1>4, <2>1, <2>2 DEF DataOK
<1>9. ControlOK'
  BY <1>1, <1>2 DEF ControlOK
<1>10. db'.metas[MetaId].frame = frame \/ (binding.hasMeta /\ db'.metas[MetaId].frame = regions.frame)
  BY <1>3, <1>4
<1>11. DatabaseInv'
  <2>1. PICK own : Listed(db, own) /\ OnVideo(own)
    BY DEF DatabaseInv
  <2>0. PICK own2 : own2 = OwnSaved(own)
    OBVIOUS
  <2>2. Listed(db', own2) /\ own2[MetaId] = binding.video
    BY <1>1, <2>0, <2>1, SavedListed
  <2>3. binding.prev # None => own2[binding.prev] = binding.video /\ db'.metas[binding.prev].next = MetaId
    <3>1. binding.prev # None => binding.prev \in Ids(db.metas) /\ binding.prev \in Ids(Saved.metas)
      BY <1>1, <1>4, <1>7
    <3>2. binding.prev # None => own2[binding.prev] = own[binding.prev]
      BY <2>0, <3>1 DEF OwnSaved
    <3>3. QED
      BY <1>4, <2>1, <3>1, <3>2 DEF OnVideo
  <2>4. db.roots \in [Videos -> Ids(db.metas) \cup {None}]
    BY DEF DataOK, DatabaseOK
  <2>. DEFINE old == db.roots[binding.video]
              root == db'.roots[binding.video]
  <2>5. root = (IF old = None THEN MetaId ELSE old) /\ root # None
    BY <1>4, <1>6, <1>7, <2>4
  <2>6. at # "exit" /\ binding.prev = None => db'.metas[root].frame >= db'.metas[MetaId].frame
    <3>. SUFFICES ASSUME at # "exit", binding.prev = None
                  PROVE  db'.metas[root].frame >= db'.metas[MetaId].frame
      OBVIOUS
    <3>1. frame = regions.frame /\ db'.metas[MetaId].frame = frame /\ frame \in Nat
      BY <1>3, <1>10, Facts
    <3>2. CASE old = None
      BY <2>5, <3>1, <3>2
    <3>3. CASE old # None
      <4>0. at \notin {"exited", "gone"}
        BY <1>1
      <4>1. old \in Ids(db.metas) /\ root = old
        BY <1>7, <2>4, <2>5, <3>3
      <4>2. binding.curr # None /\ Meta(old).frame >= Meta(binding.curr).frame
        BY <1>3, <2>1, <3>3, <4>0 DEF OnVideo
      <4>3. Meta(binding.curr).frame >= frame
        BY <1>3, <1>7, <3>1, <4>2, Facts
      <4>4. Meta(old).frame \in Nat /\ Meta(binding.curr).frame \in Nat
        BY <1>7, <4>1, <4>2, Facts
      <4>5. Meta(old).frame >= frame
        BY <3>1, <4>2, <4>3, <4>4
      <4>. HIDE DEF old, root
      <4>6. QED
        BY <1>4, <3>1, <4>1, <4>5
    <3>4. QED
      BY <3>2, <3>3
  <2>. DEFINE Beside == \A x \in Ids(db'.metas) : db'.metas[x].next # MetaId
  <2>7. at # "exit" /\ binding.prev = None => MetaId = root \/ Beside
    <3>. SUFFICES ASSUME at # "exit", binding.prev = None, MetaId # root
                  PROVE  Beside
      OBVIOUS
    <3>0. old \in Ids(db.metas) /\ old # None /\ root = old /\ at \notin {"exited", "gone"}
      BY <1>1, <1>7, <2>4, <2>5
    <3>1. \A x \in Ids(db.metas) : db'.metas[x].next = Meta(x).next /\ x # None
      BY <1>4 DEF Ids, None
    <3>. HIDE DEF old, root
    <3>2. CASE binding.hasMeta
      <4>1. MetaId = binding.curr /\ Ids(db'.metas) = Ids(db.metas)
        BY <1>4, <3>2
      <4>2. Unlinked(MetaId)
        BY <1>3, <2>1, <3>0, <3>2, <4>1 DEF OnVideo, old
      <4>3. QED
        BY <3>1, <4>1, <4>2 DEF Unlinked, Meta
    <3>3. CASE ~binding.hasMeta
      <4>1. \A x \in Ids(db.metas) : Meta(x).next # MetaId
        <5>1. \A x \in Ids(db.metas) : Meta(x).next \in Ids(db.metas) \cup {None} /\ x \in Int
          BY Facts DEF Ids
        <5>2. QED
          BY <1>4, <1>6, <3>3, <5>1
      <4>2. db'.metas[MetaId].next # MetaId
        BY <1>4, <1>6, <3>3
      <4>3. QED
        BY <1>4, <3>1, <4>1, <4>2 DEF Unlinked, Meta
    <3>4. QED
      BY <3>2, <3>3
  <2>. HIDE DEF old
  <2>9. OnVideo(own2)'
    BY <1>2, <1>6, <1>7, <2>2, <2>3, <2>5, <2>6, <2>7 DEF OnVideo, Unlinked, Meta
  <2>8. QED
    BY <1>1, <1>4, <2>2, <2>9 DEF DatabaseInv
<1>12. FrameInv'
  <2>. SUFFICES ASSUME Parsed' PROVE FrameInv'
    BY DEF FrameInv
  <2>1. Current' = regions /\ at # "exit" /\ at' \notin {"idle", "exit"}
    BY <1>1, <1>2 DEF Parsed, Current
  <2>2. frame = regions.frame /\ db'.metas[MetaId].frame = regions.frame
    BY <1>3, <1>10, <2>1
  <2>3. Holds(db', serializer'.map, regions)
    BY <1>1, <1>3, <1>4 DEF Holds
  <2>4. binding.prev # None => db'.metas[binding.prev].frame <= regions.frame
    BY <1>3, <1>4, <1>7
  <2>5. serializer.id # None => db'.metas[MetaId].data = serializer.id
    BY <1>3, <1>4
  <2>6. QED
    BY <1>1, <1>3, <1>6, <1>7, <2>1, <2>2, <2>3, <2>4, <2>5 DEF FrameInv, Meta
<1>13. StepInv'
  <2>1. at # "exit" => frame <= LastFrame /\ frame >= 0
    BY <1>3, Facts
  <2>2. QED
    BY <1>1, <1>2, <1>3, <1>7, <2>1 DEF StepInv
<1>14. UnsavedInv'
  <2>. SUFFICES ASSUME NEW v \in Videos, NEW m \in Chain(disk, v),
                       v # binding.video \/ (disk.metas[m].frame < frame /\ at # "exit")
                PROVE  Has(db', disk, m, v)
    <3>1. /\ disk' = disk /\ frame' = frame /\ binding'.video = binding.video
          /\ at' \in {"saved", "finished", "exited"} /\ (at' # "exited" <=> at # "exit")
      BY <1>1, <1>2, <1>7
    <3>2. QED
      BY <3>1 DEF UnsavedInv, Unflushed
  <2>1. QED
    BY <1>1, SaveKeeps
<1>15. QED
  BY <1>8, <1>9, <1>11, <1>12, <1>13, <1>14

LEMMA FlushStep == BinderInv /\ FlushEverything => BinderInv'
<1>. SUFFICES ASSUME BinderInv, FlushEverything PROVE BinderInv'
  OBVIOUS
<1>. USE DEF BinderInv
<1>1. /\ at \in {"saved", "finished", "exited"} /\ at' = AfterSave
      /\ disk' = db /\ modified' = FALSE
      /\ UNCHANGED <<db, readable, binding, serializer, frame, regions, failed, shapeParser, starts>>
  BY DEF FlushEverything
<1>2. \/ at = "saved" /\ at' = "shown"
      \/ at = "finished" /\ at' = "next"
      \/ at = "exited" /\ at' = "gone"
  BY <1>1, AfterSaveAt
<1>3. DataOK'
  BY <1>1 DEF DataOK, Bindings, Serializers
<1>4. ControlOK'
  BY <1>1, <1>2 DEF ControlOK
<1>5. DatabaseInv'
  BY <1>1, <1>2 DEF DatabaseInv, OnVideo, Unlinked, Meta
<1>6. FrameInv'
  <2>1. Parsed' => Parsed /\ Current' = Current /\ frame = Current.frame
    BY <1>1, <1>2 DEF Parsed, Current, FrameInv
  <2>. HIDE DEF Current, Parsed
  <2>2. QED
    BY <1>1, <1>2, <2>1 DEF FrameInv, Meta
<1>7. StepInv'
  BY <1>1, <1>2 DEF StepInv
<1>8. UnsavedInv'
  BY <1>1, <1>2, Facts, GrownSame DEF UnsavedInv, Unflushed
<1>9. QED
  BY <1>3, <1>4, <1>5, <1>6, <1>7, <1>8

LEMMA NextBinder == BinderInv /\ [Next]_vars => BinderInv'
<1>. SUFFICES ASSUME BinderInv, [Next]_vars PROVE BinderInv'
  OBVIOUS
<1>1. CASE UNCHANGED vars
  <2>1. UNCHANGED <<db, disk, modified, readable, binding, serializer, shapeParser, at, frame, regions, failed, starts>>
    BY <1>1 DEF vars, file
  <2>2. DataOK'
    BY <2>1 DEF BinderInv, DataOK, Bindings, Serializers
  <2>3. ControlOK'
    BY <2>1 DEF BinderInv, ControlOK
  <2>4. DatabaseInv'
    BY <2>1 DEF BinderInv, DatabaseInv, OnVideo, Unlinked, Meta
  <2>5. FrameInv' /\ StepInv' /\ UnsavedInv'
    BY <2>1 DEF BinderInv, FrameInv, Parsed, Current, Here, Meta, StepInv, UnsavedInv, Unflushed, Has
  <2>6. QED
    BY <2>2, <2>3, <2>4, <2>5 DEF BinderInv
<1>2. QED
  BY <1>1, StartStep, StartUnawareStep, InitializeStep, KillStep, OpenStep, ReadStep, EndStep, LoadStep, RunStep,
     FinishedStep, SaveStep, FlushStep, SaveFailsStep, SaveNothingStep DEF Next, SaveFrameData

LEMMA BinderAlways == Spec => []BinderInv
BY InitBinder, NextBinder, PTL DEF Spec

\* The ids in the lists, the binding and the serializer always lead to objects
\* that exist, also after restarts and failed assertions.
THEOREM BinderTypes == Spec => []TypeOK
<1>1. BinderInv => TypeOK
  BY TypeParts DEF BinderInv
<1>2. QED
  BY <1>1, BinderAlways, PTL

-----------------------------------------------------------------------------
(* What the lists promise.                                                  *)

LEMMA ChainOwn ==
  ASSUME NEW d, DatabaseOK(d), NEW own, Listed(d, own), NEW v \in Videos
  PROVE  \A m \in Chain(d, v) : m \in Ids(d.metas) /\ own[m] = v
<1>. DEFINE S == {m \in Ids(d.metas) : own[m] = v}
<1>1. Ascending(d) /\ Rooted(d)
  BY ListedAscends
<1>2. d.roots[v] # None => d.roots[v] \in S
  BY <1>1 DEF Rooted, Listed
<1>3. \A x \in S \cap Ids(d.metas) : d.metas[x].next # None => d.metas[x].next \in S
  BY <1>1 DEF Ascending, Listed
<1>. HIDE DEF S
<1>4. Chain(d, v) \subseteq S
  BY <1>1, <1>2, <1>3, ChainLeast
<1>5. QED
  BY <1>4 DEF S

\* All data that can be found under a frame of a video, and all that the components
\* have loaded for the current frame, were computed from it: in whatever order the
\* frames are parsed, requested and parsed again (LoadFrameData, SaveFrameData).
THEOREM OwnDataAlways == Spec => []OwnData
<1>1. BinderInv => OwnData
  <2>. SUFFICES ASSUME BinderInv PROVE OwnData
    OBVIOUS
  <2>. USE DEF BinderInv
  <2>1. PICK own : Listed(db, own)
    BY DEF DatabaseInv
  <2>2. ASSUME NEW v \in Videos, NEW m \in Chain(db, v), Meta(m).frame # PastEnd
        PROVE  Holds(db, db.maps[Meta(m).data], [video |-> v, frame |-> Meta(m).frame])
    <3>1. m \in Ids(db.metas) /\ own[m] = v
      BY <2>1, ChainOwn DEF DataOK
    <3>2. QED
      BY <2>1, <2>2, <3>1 DEF Listed, Meta
  <2>3. at \in {"run", "save", "saved", "shown"} => Holds(db, serializer.map, Here)
    <3>. SUFFICES ASSUME at \in {"run", "save", "saved", "shown"} PROVE Holds(db, serializer.map, Here)
      OBVIOUS
    <3>1. Parsed
      BY DEF StepInv, Parsed
    <3>2. Current = [video |-> binding.video, frame |-> frame] /\ Holds(db, serializer.map, Current)
      BY <3>1 DEF FrameInv
    <3>3. QED
      BY <3>2 DEF Here
  <2>4. QED
    BY <2>2, <2>3 DEF OwnData
<1>2. QED
  BY <1>1, BinderAlways, PTL

\* The list of a video stays in the order of its frames, although metadata are
\* created before, between and after those it has (MoveClosestToFrameData stops at
\* the first metadata that are not before the frame).
THEOREM OrderedAlways == Spec => []ChainsOrdered
<1>1. BinderInv => ChainsOrdered
  <2>. SUFFICES ASSUME BinderInv PROVE ChainsOrdered
    OBVIOUS
  <2>1. PICK own : Listed(db, own)
    BY DEF BinderInv, DatabaseInv
  <2>2. ASSUME NEW v \in Videos, NEW m \in Chain(db, v), Meta(m).next # None
        PROVE  Meta(m).frame <= Meta(Meta(m).next).frame
    <3>1. m \in Ids(db.metas)
      BY <2>1, ChainOwn DEF BinderInv, DataOK
    <3>2. QED
      BY <2>1, <2>2, <3>1 DEF Listed, Meta
  <2>3. QED
    BY <2>2 DEF ChainsOrdered
<1>2. QED
  BY <1>1, BinderAlways, PTL

\* No metadata are in the lists of two videos, and no map is shared by two metadata:
\* saving the data of a frame changes those of no other.
THEOREM ApartAlways == Spec => []ChainsApart
<1>1. BinderInv => ChainsApart
  <2>. SUFFICES ASSUME BinderInv PROVE ChainsApart
    OBVIOUS
  <2>1. PICK own : Listed(db, own)
    BY DEF BinderInv, DatabaseInv
  <2>2. \A v \in Videos : \A m \in Chain(db, v) : m \in Ids(db.metas) /\ own[m] = v
    BY <2>1, ChainOwn DEF BinderInv, DataOK
  <2>3. QED
    BY <2>1, <2>2 DEF ChainsApart, Listed, Meta
<1>2. QED
  BY <1>1, BinderAlways, PTL

\* From metadata only those of the same frame and of later ones are reached.
LEMMA ReachedInOrder ==
  ASSUME NEW d, DatabaseOK(d), NEW own, Listed(d, own), NEW m \in Ids(d.metas), NEW p \in From(d)[m]
  PROVE  d.metas[m].frame <= d.metas[p].frame
<1>. DEFINE S == {x \in Ids(d.metas) : d.metas[m].frame <= d.metas[x].frame}
<1>1. Ascending(d)
  BY ListedAscends
<1>2. \A x \in Ids(d.metas) : d.metas[x].frame \in Nat
  <2>1. 0 .. PastEnd \subseteq Nat
    BY BinderAssumption DEF PastEnd
  <2>2. \A x \in Ids(d.metas) : d.metas[x].frame \in 0 .. PastEnd
    BY DatabaseFacts DEF MetaOK
  <2>3. QED
    BY <2>1, <2>2
<1>3. \A x \in S \cap Ids(d.metas) : d.metas[x].next # None => d.metas[x].next \in S
  <2>. SUFFICES ASSUME NEW x \in S, d.metas[x].next # None PROVE d.metas[x].next \in S
    OBVIOUS
  <2>1. d.metas[x].next \in Ids(d.metas) /\ d.metas[x].frame <= d.metas[d.metas[x].next].frame
    BY <1>1 DEF Ascending, Listed
  <2>2. QED
    BY <1>2, <2>1
<1>4. m \in S \cap Ids(d.metas)
  BY <1>2
<1>. HIDE DEF S
<1>5. From(d)[m] \subseteq S
  BY <1>1, <1>3, <1>4, FromLeast
<1>6. QED
  BY <1>5 DEF S

\* The search for a frame divides the list of its video: what comes later is ahead,
\* what comes earlier is not, and metadata of the frame that are ahead are the current
\* ones, whether the user went on, went back or requested a frame
\* (MoveClosestToFrameData).
THEOREM SearchDividesAlways == Spec => []SearchDivides
<1>1. BinderInv => SearchDivides
  <2>. SUFFICES ASSUME BinderInv, at = "run", OnList, NEW m \in Chain(db, binding.video)
                PROVE  IF m \in From(db)[binding.curr]
                       THEN Meta(m).frame > frame \/ (Meta(m).frame = frame /\ binding.hasMeta)
                       ELSE Meta(m).frame <= frame
    BY DEF SearchDivides
  <2>. USE DEF BinderInv
  <2>1. PICK own : Listed(db, own) /\ OnVideo(own)
    BY DEF DatabaseInv
  <2>. DEFINE v == binding.video
              F == From(db)
  <2>2. /\ v \in Videos /\ DatabaseOK(db)
        /\ binding.prev \in Ids(db.metas) \cup {None} /\ binding.curr \in Ids(db.metas) \cup {None}
    BY DEF DataOK, Bindings
  <2>3. Ascending(db) /\ Rooted(db) /\ F[None] = {}
    BY <2>1, <2>2, ListedAscends, FromFacts
  <2>4. \A x \in Ids(db.metas) : Meta(x).frame \in Nat
    BY Facts
  <2>5. /\ frame \in Nat /\ binding.open
        /\ binding.hasMeta => Meta(binding.curr).frame = frame
        /\ ~binding.hasMeta /\ binding.curr # None => Meta(binding.curr).frame > frame
        /\ binding.prev # None => Meta(binding.prev).frame <= frame
    <3>1. Parsed /\ Current = Here
      BY DEF StepInv, Parsed, Current
    <3>2. frame = Current.frame /\ binding.open
      BY <3>1 DEF Here, Parsed
    <3>3. QED
      BY <3>1, <3>2, Facts DEF FrameInv
  <2>6. m \in Ids(db.metas)
    BY <2>2, <2>3, ChainFacts
  <2>7. CASE m \in F[binding.curr]
    <3>1. binding.curr \in Ids(db.metas) /\ binding.curr # None
      BY <2>2, <2>3, <2>7
    <3>2. Meta(binding.curr).frame <= Meta(m).frame
      BY <2>1, <2>2, <2>7, <3>1, ReachedInOrder DEF Meta
    <3>. HIDE DEF F
    <3>3. QED
      BY <2>4, <2>5, <2>6, <2>7, <3>1, <3>2 DEF F
  <2>8. CASE m \notin F[binding.curr]
    <3>1. CASE binding.prev = None
      <4>1. db.roots[v] # None /\ db.roots[v] \in Ids(db.metas)
        BY <2>2, <2>3, ChainIsFrom DEF Rooted
      <4>2. binding.curr # None /\ binding.curr \in Chain(db, v)
        BY <2>1, <2>5, <3>1, <4>1 DEF OnVideo, OnList
      <4>3. binding.curr = db.roots[v]
        <5>. SUFFICES ASSUME binding.curr # db.roots[v] PROVE FALSE
          OBVIOUS
        <5>. DEFINE S == {x \in Ids(db.metas) : x # binding.curr}
        <5>1. Unlinked(binding.curr)
          BY <2>1, <2>5, <3>1, <4>2 DEF OnVideo
        <5>2. \A x \in S \cap Ids(db.metas) : db.metas[x].next # None => db.metas[x].next \in S
          BY <2>3, <5>1 DEF Unlinked, Ascending, Meta
        <5>3. db.roots[v] \in S
          BY <4>1
        <5>. HIDE DEF S, v
        <5>4. Chain(db, v) \subseteq S
          BY <2>2, <2>3, <5>2, <5>3, ChainLeast
        <5>5. QED
          BY <4>2, <5>4 DEF S
      <4>4. QED
        BY <2>8, <4>3, ChainIsFrom
    <3>2. CASE binding.prev # None
      <4>. DEFINE Before == {x \in Ids(db.metas) : binding.prev \in F[x]}
                  S == Before \cup F[binding.curr]
      <4>1. binding.prev \in Ids(db.metas) /\ binding.prev \in F[db.roots[v]]
        BY <2>2, <3>2, ChainIsFrom DEF OnList
      <4>2. db.roots[v] # None => db.roots[v] \in S
        BY <2>2, <2>3, <4>1 DEF Rooted
      <4>3. \A x \in S \cap Ids(db.metas) : db.metas[x].next # None => db.metas[x].next \in S
        <5>. SUFFICES ASSUME NEW x \in S \cap Ids(db.metas), db.metas[x].next # None
                      PROVE  db.metas[x].next \in S
          OBVIOUS
        <5>1. db.metas[x].next \in Ids(db.metas) /\ F[x] = {x} \cup F[db.metas[x].next]
          BY <2>3, FromFacts DEF Ascending
        <5>2. CASE x \in F[binding.curr]
          <6>1. binding.curr \in Ids(db.metas)
            BY <2>2, <2>3, <5>2
          <6>2. db.metas[x].next \in F[binding.curr]
            BY <2>3, <5>2, <6>1, FromClosed
          <6>3. QED
            BY <6>2
        <5>3. CASE x = binding.prev
          <6>1. db.metas[x].next = binding.curr
            BY <2>1, <3>2, <5>3 DEF OnVideo, Meta
          <6>2. F[binding.curr] = {binding.curr} \cup F[db.metas[binding.curr].next]
            BY <2>3, <5>1, <6>1, FromFacts
          <6>3. QED
            BY <6>1, <6>2
        <5>4. CASE x \in Before /\ x # binding.prev
          BY <5>1, <5>4
        <5>5. QED
          BY <5>2, <5>3, <5>4
      <4>. HIDE DEF S
      <4>4. m \in S
        <5>. HIDE DEF v
        <5>1. Chain(db, v) \subseteq S
          BY <2>2, <2>3, <4>2, <4>3, ChainLeast
        <5>2. QED
          BY <5>1 DEF v
      <4>5. binding.prev \in F[m]
        BY <2>8, <4>4 DEF S
      <4>6. Meta(m).frame <= Meta(binding.prev).frame
        BY <2>1, <2>2, <2>6, <4>5, ReachedInOrder DEF Meta
      <4>. HIDE DEF F
      <4>7. QED
        BY <2>4, <2>5, <2>6, <2>8, <3>2, <4>1, <4>6 DEF F
    <3>3. QED
      BY <3>1, <3>2
  <2>9. QED
    BY <2>7, <2>8
<1>2. QED
  BY <1>1, BinderAlways, PTL

\* What is in memory but not in the file is about to be saved, and the serializer
\* knows that its map has changed; or it has been saved and is about to be flushed.
UnsavedIsKnown ==
  failed = "nothing" /\ (disk # db \/ modified) =>
    (at \in {"save", "finish", "exit"} /\ serializer.new) \/ at \in {"saved", "finished", "exited"}

\* Of the types only this is needed: an update of a field takes effect.
SerializerFields == DOMAIN serializer = {"map", "id", "new"}

FlushInv == UnsavedIsKnown /\ SerializerFields

LEMMA InitFlush == Init => FlushInv
BY DEF Init, FlushInv, UnsavedIsKnown, SerializerFields, Unsaved

\* A component that saves its data marks the map as changed.
LEMMA SavingMarks ==
  ASSUME SerializerFields, NEW label, NEW owner, SaveComponentData(label, owner)
  PROVE  serializer'.new /\ SerializerFields'
<1>1. CASE serializer.map[label] # None
  <2>1. serializer' = [serializer EXCEPT !.new = TRUE]
    BY <1>1 DEF SaveComponentData
  <2>2. QED
    BY <2>1 DEF SerializerFields
<1>2. CASE serializer.map[label] = None
  <2>1. serializer' = [serializer EXCEPT !.map[label] = Len(db.items) + 1, !.new = TRUE]
    BY <1>2 DEF SaveComponentData
  <2>2. QED
    BY <2>1 DEF SerializerFields
<1>3. QED
  BY <1>1, <1>2

\* A new map of the serializer has the fields of every one.
LEMMA LoadedFields ==
  ASSUME LoadFrameData
  PROVE  SerializerFields' /\ UNCHANGED <<file, failed>> /\ at = "frame" /\ at' = "run"
<1>1. PICK map, id : serializer' = [map |-> map, id |-> id, new |-> FALSE]
  BY DEF LoadFrameData, Unsaved
<1>2. QED
  BY <1>1 DEF LoadFrameData, SerializerFields

LEMMA NextFlush == FlushInv /\ [Next]_vars => FlushInv'
<1>. SUFFICES ASSUME FlushInv, [Next]_vars PROVE FlushInv'
  OBVIOUS
<1>. USE DEF FlushInv, file
<1>1. CASE Start
  BY <1>1 DEF Start, UnsavedIsKnown, SerializerFields
<1>2. CASE Initialize
  <2>1. disk' = db' /\ ~modified' /\ serializer' = [serializer EXCEPT !.id = None, !.new = FALSE]
    BY <1>2 DEF Initialize
  <2>2. QED
    BY <2>1 DEF UnsavedIsKnown, SerializerFields
<1>3. CASE Kill
  BY <1>3 DEF Kill, UnsavedIsKnown, SerializerFields, Unsaved
<1>4. ASSUME NEW v \in Videos, OpenBinding(v) PROVE FlushInv'
  BY <1>4 DEF OpenBinding, Fails, Running, UnsavedIsKnown, SerializerFields
<1>5. CASE ReadNextFrame
  BY <1>5 DEF ReadNextFrame, Running, UnsavedIsKnown, SerializerFields
<1>6. CASE LoadFrameData
  BY <1>6, LoadedFields DEF UnsavedIsKnown
<1>7. CASE Run
  <2>1. CASE SaveComponentData("shapes", Here)
    BY <1>7, <2>1, SavingMarks DEF Run, UnsavedIsKnown
  <2>2. CASE UNCHANGED <<db, modified, serializer>>
    BY <1>7, <2>2 DEF Run, Running, UnsavedIsKnown, SerializerFields
  <2>3. QED
    BY <1>7, <2>1, <2>2 DEF Run
<1>8. CASE FinishedFrame
  <2>1. CASE SaveComponentData("regions", regions)
    BY <1>8, <2>1, SavingMarks DEF FinishedFrame, UnsavedIsKnown
  <2>2. CASE UNCHANGED <<db, modified, serializer>>
    BY <1>8, <2>2 DEF FinishedFrame, Running, UnsavedIsKnown, SerializerFields
  <2>3. QED
    BY <1>8, <2>1, <2>2 DEF FinishedFrame
<1>9. CASE Save
  BY <1>9 DEF Save, UnsavedIsKnown, SerializerFields
<1>10. CASE SaveFails
  BY <1>10 DEF SaveFails, Violated, UnsavedIsKnown, SerializerFields
<1>11. CASE SaveNothing
  BY <1>11 DEF SaveNothing, Running, UnsavedIsKnown, SerializerFields
<1>12. CASE EndParsing
  BY <1>12 DEF EndParsing, Running, UnsavedIsKnown, SerializerFields
<1>13. CASE StartUnaware
  BY <1>13 DEF StartUnaware, UnsavedIsKnown, SerializerFields
<1>14. CASE FlushEverything
  BY <1>14 DEF FlushEverything, UnsavedIsKnown, SerializerFields
<1>15. CASE UNCHANGED vars
  BY <1>15 DEF vars, UnsavedIsKnown, SerializerFields
<1>16. QED
  BY <1>1, <1>2, <1>3, <1>4, <1>5, <1>6, <1>7, <1>8, <1>9, <1>10, <1>11, <1>12, <1>13, <1>14, <1>15
     DEF Next, SaveFrameData

-----------------------------------------------------------------------------
(* What is written to the file.                                             *)

KeepsEarlier ==
  DamagingDeath \/
  \A v \in Videos : \A m \in Stored(v) :
    v # binding.video \/ (disk.metas[m].frame < frame /\ at # "exited") => Kept(m, v)

LEMMA SameFileKeeps == disk' = disk /\ readable' = readable => KeepsEarlier
BY DEF KeepsEarlier, Kept, Stored

LEMMA FlushKeeps == BinderInv /\ FlushEverything => KeepsEarlier
<1>. SUFFICES ASSUME BinderInv, FlushEverything, NEW v \in Videos, NEW m \in Stored(v),
                     v # binding.video \/ (disk.metas[m].frame < frame /\ at # "exited")
              PROVE  Kept(m, v)
  BY DEF KeepsEarlier
<1>1. disk' = db /\ readable' = readable /\ readable /\ m \in Chain(disk, v)
  BY DEF FlushEverything, Stored
<1>2. Has(db, disk, m, v)
  BY <1>1 DEF FlushEverything, Running, BinderInv, UnsavedInv, Unflushed
<1>3. QED
  BY <1>1, <1>2 DEF Has, Kept, Stored

\* No step takes from what a start finds in the file any data of earlier frames of
\* the video that is parsed, nor any of other videos, whichever frames were parsed
\* before; except that a death between the first write over the index tables and the
\* flush may cost all of it, and the save in Finalize has no such frame (Save,
\* FlushEverything, Initialize, Kill).
THEOREM EarlierAlwaysKept == Spec => EarlierKept
<1>1. BinderInv /\ FlushInv /\ [Next]_vars => [KeepsEarlier]_vars
  <2>. SUFFICES ASSUME BinderInv, FlushInv, Next PROVE KeepsEarlier
    OBVIOUS
  <2>1. CASE Initialize
    <3>1. disk' = db /\ readable' = readable /\ at \in {"idle", "shown"} /\ failed = "nothing"
      BY <2>1 DEF Initialize, Running
    <3>2. disk' = disk
      BY <3>1 DEF FlushInv, UnsavedIsKnown
    <3>3. QED
      BY <3>1, <3>2, SameFileKeeps
  <2>2. CASE FlushEverything
    BY <2>2, FlushKeeps
  <2>3. CASE Kill
    <3>1. CASE modified
      BY <2>3, <3>1 DEF Kill, DamagingDeath, KeepsEarlier
    <3>2. CASE ~modified
      <4>1. disk' = disk /\ readable' = readable
        BY <2>3, <3>2 DEF Kill
      <4>2. QED
        BY <4>1, SameFileKeeps
    <3>3. QED
      BY <3>1, <3>2
  <2>4. CASE ~Initialize /\ ~FlushEverything /\ ~Kill
    <3>1. disk' = disk /\ readable' = readable
      BY <2>4 DEF Next, Start, StartUnaware, OpenBinding, Fails, ReadNextFrame, LoadFrameData, Run,
                  FinishedFrame, SaveFrameData, Save, SaveFails, SaveNothing, EndParsing, file
    <3>2. QED
      BY <3>1, SameFileKeeps
  <2>5. QED
    BY <2>1, <2>2, <2>3, <2>4
<1>2. QED
  BY <1>1, BinderAlways, InitFlush, NextFlush, PTL DEF Spec, EarlierKept, KeepsEarlier

\* Between two frames, while nothing is parsed and after the program was closed,
\* everything that was saved is in the file together with its index tables,
\* whatever was requested, changed, initialized again or killed before.
THEOREM FlushedAlways == Spec => []Flushed
<1>1. FlushInv => Flushed
  BY DEF FlushInv, UnsavedIsKnown, Flushed
<1>2. QED
  BY <1>1, InitFlush, NextFlush, PTL DEF Spec
=============================================================================
