-------------------------- MODULE VSCGraphProofs --------------------------
(***************************************************************************)
(* Proofs about VSCGraph, for every table of components and every choice   *)
(* of the user: components are initialized and run after their parents,    *)
(* and are not displayed while they run.                                   *)
(***************************************************************************)
EXTENDS VSCGraph, FiniteSetTheorems, TLAPS

-----------------------------------------------------------------------------
(* The inductive invariant.                                                 *)

\* Only names that were added have a component, and only components that were
\* added wait or are sorted; sorting begins when all are added.
Added == {Order[i] : i \in 1 .. added}
Building ==
  /\ Created \subseteq Added
  /\ init \subseteq Added
  /\ \A i \in 1 .. Len(queue) : queue[i] \in Created
  /\ \A i \in 1 .. Len(sorted) : sorted[i] \in Created
  /\ added < Len(Order) => sorted = <<>>

\* A component counts as initialized only when it is sorted.
InitializedSorted ==
  \A n \in init : n \in Created => \E j \in 1 .. Len(sorted) : sorted[j] = n

\* During a pass everything before the index has run, if it runs in this mode.
PassedHaveRun ==
  parser.at # "idle" =>
    /\ Built
    /\ parser.at = "run" => parser.i <= Last /\ RunsIn(Current, mode)
    /\ parser.pass = "playback" => sorted # <<>>
    /\ parser.pass # "playback" =>
         \A j \in 1 .. parser.i - 1 : RunsIn(sorted[j], mode) => ran[sorted[j]] = frame

\* Who runs or draws a component owns its mutex.
Owned ==
  /\ parser.at = "run" => mutex[Current].owner = "parser"
  /\ gui.at = "draw" => mutex[gui.of].owner = "gui"

\* An owned mutex was locked, and a mutex that is left locked was left by a crash.
Depths ==
  \A n \in Names :
    /\ mutex[n].owner = "nobody" <=> mutex[n].depth = 0
    /\ mutex[n].owner = "gui" => mutex[n].depth = 1
    /\ mutex[n].owner = "parser" /\ ~(parser.at = "run" /\ n = Current)
         => mutex[n].depth <= MaxCrashes

Inv ==
  /\ TypeOK /\ Building /\ InitializedSorted /\ DependenciesFirst
  /\ PassedHaveRun /\ Owned /\ Depths

-----------------------------------------------------------------------------
\* The initial state.
LEMMA InitInv == Init => Inv
<1> SUFFICES ASSUME Init PROVE Inv
  OBVIOUS
<1> USE DEF Init
<1>1. Len(<<>>) = 0 /\ <<>> \in Seq(Names)
  OBVIOUS
<1>2. Created = {}
  BY DEF Created
<1>3. Len(Order) \in Nat /\ Order[1] \in Names
  BY GraphAssumption
<1>4. parser.i \in 1 .. Len(sorted) + 1
  BY <1>1
<1>5. TypeOK
  BY <1>1, <1>3, <1>4, GraphAssumption DEF TypeOK
<1>6. Building /\ InitializedSorted /\ DependenciesFirst
  BY <1>1, <1>2 DEF Building, InitializedSorted, DependenciesFirst, Added
<1>7. PassedHaveRun /\ Owned /\ Depths
  BY DEF PassedHaveRun, Owned, Depths
<1> QED
  BY <1>5, <1>6, <1>7 DEF Inv

\* Adding a component: nothing is sorted yet, and its name is new.
LEMMA AddInv ==
  ASSUME Inv, NEW class \in Classes \cup {None}, AddComponent(class)
  PROVE  Inv'
<1> DEFINE n == Order[added + 1]
<1> USE DEF Inv
<1>1. added \in Nat /\ Len(Order) \in Nat /\ added + 1 \in 1 .. Len(Order) /\ n \in Names
  <2>1. Len(Order) \in Nat
    BY GraphAssumption
  <2>2. added \in Nat /\ added + 1 \in 1 .. Len(Order)
    BY <2>1 DEF AddComponent, TypeOK
  <2>3. n \in Names
    BY <2>2, GraphAssumption
  <2> QED
    BY <2>1, <2>2, <2>3
<1>2. n \notin Added
  BY <1>1, GraphAssumption DEF Added
<1>3. Added' = Added \cup {n}
  BY <1>1 DEF Added, AddComponent
<1>4. sorted = <<>> /\ sorted' = <<>> /\ parser' = parser /\ Len(<<>>) = 0
  BY DEF AddComponent, Building
<1>5. parser.at = "idle"
  <2>1. ~Built
    BY <1>1 DEF Built
  <2> QED
    BY <2>1 DEF PassedHaveRun
<1>6. Created' = IF class = None THEN Created ELSE Created \cup {n}
  BY <1>1, <1>2 DEF AddComponent, Created, Building, TypeOK
<1>7. TypeOK'
  <2>1. selection' \in [Names -> Classes \cup {None}]
    BY <1>1 DEF AddComponent, TypeOK
  <2>2. Append(queue, n) \in Seq(Names) /\ init \cup {n} \in SUBSET Names
    BY <1>1 DEF TypeOK
  <2>3. queue' \in Seq(Names) /\ init' \in SUBSET Names
    BY <2>2 DEF AddComponent, TypeOK
  <2>4. added' \in 0 .. Len(Order)
    BY <1>1 DEF AddComponent
  <2> QED
    BY <2>1, <2>3, <2>4 DEF AddComponent, TypeOK
<1>8. Building'
  <2>1. Created' \subseteq Added' /\ init' \subseteq Added'
    BY <1>3, <1>6 DEF AddComponent, Building
  <2>2. \A i \in 1 .. Len(queue') : queue'[i] \in Created'
    <3>1. CASE class = None
      BY <3>1, <1>6 DEF AddComponent, Building
    <3>2. CASE class # None
      <4>1. queue' = Append(queue, n) /\ queue \in Seq(Names)
        BY <3>2 DEF AddComponent, TypeOK
      <4> QED
        BY <4>1, <3>2, <1>1, <1>6 DEF Building
    <3> QED
      BY <3>1, <3>2
  <2> QED
    BY <2>1, <2>2, <1>4 DEF Building
<1>9. InitializedSorted' /\ DependenciesFirst'
  <2>1. ASSUME NEW m \in init', m \in Created' PROVE FALSE
    <3>1. m \notin init \/ m \notin Created
      BY <1>4 DEF InitializedSorted
    <3> QED
      BY <2>1, <3>1, <1>2, <1>6 DEF AddComponent, Building
  <2> QED
    BY <2>1, <1>4 DEF InitializedSorted, DependenciesFirst
<1>10. PassedHaveRun' /\ Owned' /\ Depths'
  <2>1. mutex' = mutex /\ gui' = gui
    BY DEF AddComponent
  <2> QED
    BY <2>1, <1>4, <1>5 DEF PassedHaveRun, Owned, Depths, Current
<1> QED
  BY <1>7, <1>8, <1>9, <1>10

\* While components are being initialized no pass has begun.
LEMMA NoPassYet == Inv /\ ~Built => parser.at = "idle"
BY DEF Inv, PassedHaveRun

\* Initializing the head of the queue: its parents are initialized, so sorted.
LEMMA InitializeHeadInv ==
  ASSUME Inv, InitializeHead
  PROVE  Inv'
<1> DEFINE h == Head(queue)
<1> USE DEF Inv
<1>1. /\ queue \in Seq(Names) /\ queue # <<>> /\ sorted \in Seq(Names)
      /\ h = queue[1] /\ h \in Names /\ Len(queue) \in Nat \ {0}
      /\ sorted' = Append(sorted, h) /\ queue' = Tail(queue) /\ init' = init \cup {h}
  BY DEF InitializeHead, TypeOK
<1>2. /\ sorted' \in Seq(Names) /\ Len(sorted') = Len(sorted) + 1 /\ Len(sorted) \in Nat
      /\ \A i \in 1 .. Len(sorted) : sorted'[i] = sorted[i]
      /\ sorted'[Len(sorted) + 1] = h
  BY <1>1
<1>3. Created' = Created /\ Added' = Added
  BY DEF InitializeHead, Created, Added
<1>4. parser.at = "idle" /\ UNCHANGED <<selection, added, parser, frame, ran, mutex, gui, mode>>
  BY NoPassYet DEF InitializeHead, Built
<1>5. h \in Created
  BY <1>1 DEF Building
<1>6. TypeOK'
  <2>1. queue' \in Seq(Names)
    BY <1>1
  <2>2. parser'.i \in 1 .. Len(sorted') + 1
    BY <1>2, <1>4 DEF TypeOK
  <2> QED
    BY <1>1, <1>2, <1>4, <2>1, <2>2 DEF TypeOK
<1>7. Building'
  <2>1. \A i \in 1 .. Len(queue') : queue'[i] \in Created
    BY <1>1 DEF Building
  <2>2. \A i \in 1 .. Len(sorted') : sorted'[i] \in Created
    BY <1>2, <1>5 DEF Building
  <2>3. ~(added' < Len(Order))
    BY <1>4, GraphAssumption DEF InitializeHead
  <2> QED
    BY <1>1, <1>3, <1>5, <2>1, <2>2, <2>3 DEF Building
<1>8. InitializedSorted'
  <2> SUFFICES ASSUME NEW n \in init', n \in Created'
               PROVE  \E j \in 1 .. Len(sorted') : sorted'[j] = n
    BY DEF InitializedSorted
  <2>1. CASE n = h
    BY <2>1, <1>2
  <2>2. CASE n \in init
    <3>1. PICK j \in 1 .. Len(sorted) : sorted[j] = n
      BY <2>2, <1>3 DEF InitializedSorted
    <3> QED
      BY <3>1, <1>2
  <2> QED
    BY <2>1, <2>2, <1>1
<1>9. DependenciesFirst'
  <2>1. \A n : Deps(n)' = Deps(n)
    BY <1>4 DEF Deps
  <2> SUFFICES ASSUME NEW i \in 1 .. Len(sorted'), NEW p \in Parents(sorted'[i])
               PROVE  \E j \in 1 .. i - 1 : sorted'[j] = p
    BY <1>3, <2>1 DEF DependenciesFirst, Parents
  <2>2. CASE i = Len(sorted) + 1
    <3>1. p \in init /\ p \in Created
      BY <2>2, <1>2 DEF InitializeHead, Ready, Parents
    <3>2. PICK j \in 1 .. Len(sorted) : sorted[j] = p
      BY <3>1 DEF InitializedSorted
    <3> QED
      BY <3>2, <2>2, <1>2
  <2>3. CASE i \in 1 .. Len(sorted)
    <3>1. PICK j \in 1 .. i - 1 : sorted[j] = p
      BY <2>3, <1>2 DEF DependenciesFirst
    <3> QED
      BY <3>1, <2>3, <1>2
  <2> QED
    BY <2>2, <2>3, <1>2
<1>10. PassedHaveRun' /\ Owned' /\ Depths'
  BY <1>4 DEF PassedHaveRun, Owned, Depths, Current
<1> QED
  BY <1>6, <1>7, <1>8, <1>9, <1>10

\* Putting a component back in the queue.
LEMMA PutBackInv ==
  ASSUME Inv, PutBack
  PROVE  Inv'
<1> USE DEF Inv
<1>1. /\ queue \in Seq(Names) /\ queue # <<>> /\ Len(queue) \in Nat \ {0}
      /\ queue' = Append(Tail(queue), Head(queue)) /\ Head(queue) = queue[1]
  BY DEF PutBack, TypeOK
<1>2. queue' \in Seq(Names) /\ \A i \in 1 .. Len(queue') : \E j \in 1 .. Len(queue) : queue'[i] = queue[j]
  <2>1. Tail(queue) \in Seq(Names) /\ Len(Tail(queue)) = Len(queue) - 1
    BY <1>1
  <2>2. \A i \in 1 .. Len(queue) - 1 : queue'[i] = queue[i + 1]
    BY <1>1, <2>1
  <2>3. Len(queue') = Len(queue) /\ queue'[Len(queue)] = queue[1]
    BY <1>1, <2>1
  <2>4. ASSUME NEW i \in 1 .. Len(queue') PROVE \E j \in 1 .. Len(queue) : queue'[i] = queue[j]
    <3>1. CASE i = Len(queue)
      BY <3>1, <2>3, <1>1
    <3>2. CASE i \in 1 .. Len(queue) - 1
      BY <3>2, <2>2, <1>1
    <3> QED
      BY <3>1, <3>2, <2>3, <1>1
  <2>5. queue' \in Seq(Names)
    BY <1>1, <2>1 DEF TypeOK
  <2> QED
    BY <2>4, <2>5
<1>3. parser.at = "idle" /\ UNCHANGED <<selection, added, init, sorted, parser, frame, ran, mutex, gui, mode>>
  BY NoPassYet DEF PutBack, Built
<1>4. Created' = Created /\ Added' = Added
  BY <1>3 DEF Created, Added
<1>5. TypeOK' /\ Building'
  BY <1>2, <1>3, <1>4 DEF TypeOK, Building
<1>6. InitializedSorted' /\ DependenciesFirst'
  <2>1. \A n : Deps(n)' = Deps(n)
    BY <1>3 DEF Deps
  <2>2. InitializedSorted'
    BY <1>3, <1>4 DEF InitializedSorted
  <2>3. DependenciesFirst'
    BY <1>3, <1>4, <2>1 DEF DependenciesFirst, Parents
  <2> QED
    BY <2>2, <2>3
<1>7. PassedHaveRun' /\ Owned' /\ Depths'
  BY <1>3 DEF PassedHaveRun, Owned, Depths, Current
<1> QED
  BY <1>5, <1>6, <1>7

\* What the passes and the displays leave alone.
LEMMA BuildingKept ==
  ASSUME Inv, UNCHANGED building
  PROVE  Building' /\ InitializedSorted' /\ DependenciesFirst'
<1>1. Created' = Created /\ Added' = Added
  BY DEF building, Created, Added
<1>2. Building'
  BY <1>1 DEF Inv, building, Building
<1>3. InitializedSorted'
  BY <1>1 DEF Inv, building, InitializedSorted
<1>4. DependenciesFirst'
  <2>1. \A n : Deps(n)' = Deps(n)
    BY DEF building, Deps
  <2> QED
    BY <1>1, <2>1 DEF Inv, building, DependenciesFirst, Parents
<1> QED
  BY <1>2, <1>3, <1>4

\* The component at the index during a pass.
LEMMA CurrentNamed ==
  ASSUME Inv, parser.at # "idle", parser.i <= Last
  PROVE  /\ parser.i \in 1 .. Len(sorted) /\ Len(sorted) \in Nat
         /\ Current \in Names
<1>1. parser.i \in Nat \ {0} /\ sorted \in Seq(Names) /\ Len(sorted) \in Nat
  BY DEF Inv, TypeOK
<1>2. parser.i <= Len(sorted)
  BY <1>1 DEF Inv, PassedHaveRun, Last
<1> QED
  BY <1>1, <1>2 DEF Current

LEMMA PassInv ==
  ASSUME Inv, NEW pass \in {"frame", "offline", "playback"}, Pass(pass)
  PROVE  Inv'
<1> USE DEF Inv
<1>1. /\ UNCHANGED building /\ UNCHANGED <<ran, mutex, gui>> /\ sorted # <<>>
      /\ parser' = [at |-> "next", pass |-> pass, i |-> 1] /\ frame' = frame + 1
  BY DEF Pass
<1>2. Building' /\ InitializedSorted' /\ DependenciesFirst'
  BY <1>1, BuildingKept
<1>3. frame' \in 0 .. MaxFrames /\ parser'.i \in 1 .. Len(sorted') + 1
  BY <1>1, GraphAssumption DEF Pass, TypeOK, building
<1>4. TypeOK'
  BY <1>1, <1>3 DEF TypeOK, building
<1>5. PassedHaveRun'
  BY <1>1 DEF PassedHaveRun, Built, building, Pass
<1>6. Owned' /\ Depths'
  BY <1>1 DEF Owned, Depths, Pass
<1> QED
  BY <1>2, <1>4, <1>5, <1>6

LEMMA SkipInv ==
  ASSUME Inv, Skip
  PROVE  Inv'
<1> USE DEF Inv
<1>1. /\ UNCHANGED building /\ UNCHANGED <<frame, ran, mutex, gui>>
      /\ parser.at = "next" /\ parser' = [parser EXCEPT !.i = @ + 1]
  BY DEF Skip
<1>2. Building' /\ InitializedSorted' /\ DependenciesFirst'
  BY <1>1, BuildingKept
<1>3. parser.i \in 1 .. Len(sorted) /\ Len(sorted) \in Nat
  BY CurrentNamed DEF Skip
<1>4. parser'.at = "next" /\ parser'.pass = parser.pass /\ parser'.i = parser.i + 1
  BY <1>1 DEF TypeOK
<1>5. TypeOK'
  <2>1. parser' \in [at : {"idle", "next", "run"}, pass : {"frame", "offline", "playback"}, i : Nat]
    <3>1. parser' = [at |-> "next", pass |-> parser.pass, i |-> parser.i + 1]
      BY <1>1 DEF TypeOK
    <3>2. parser.i + 1 \in Nat
      BY <1>3
    <3> QED
      BY <3>1, <3>2 DEF TypeOK
  <2>2. parser'.i \in 1 .. Len(sorted') + 1
    BY <1>1, <1>3, <1>4 DEF building
  <2> QED
    BY <2>1, <2>2, <1>1 DEF TypeOK, building
<1>6. PassedHaveRun'
  <2>1. ASSUME parser.pass # "playback", NEW j \in 1 .. parser.i, RunsIn(sorted[j], mode)
        PROVE  ran[sorted[j]] = frame
    BY <2>1, <1>1, <1>3 DEF PassedHaveRun, Skip, Current
  <2> QED
    BY <2>1, <1>1, <1>3, <1>4 DEF PassedHaveRun, Built, building, RunsIn
<1>7. Owned' /\ Depths'
  BY <1>1, <1>4 DEF Owned, Depths
<1> QED
  BY <1>2, <1>5, <1>6, <1>7

LEMMA LockAndRunInv ==
  ASSUME Inv, LockAndRun
  PROVE  Inv'
<1> USE DEF Inv
<1>1. /\ UNCHANGED building /\ UNCHANGED <<frame, ran, gui>>
      /\ parser.at = "next" /\ parser' = [parser EXCEPT !.at = "run"]
      /\ mutex' = [mutex EXCEPT ![Current] = [owner |-> "parser", depth |-> @.depth + 1]]
  BY DEF LockAndRun
<1>2. Building' /\ InitializedSorted' /\ DependenciesFirst'
  BY <1>1, BuildingKept
<1>3. parser.i \in 1 .. Len(sorted) /\ Len(sorted) \in Nat /\ Current \in Names
  BY CurrentNamed DEF LockAndRun
<1>4. parser'.at = "run" /\ parser'.pass = parser.pass /\ parser'.i = parser.i
  BY <1>1 DEF TypeOK
<1>5. Current' = Current
  BY <1>1, <1>4 DEF Current, building
<1>6. mutex[Current].depth \in 0 .. MaxCrashes /\ mutex[Current].owner # "gui"
  <2>1. mutex[Current].depth \in Nat
    BY <1>3, GraphAssumption DEF TypeOK
  <2>2. CASE mutex[Current].owner = "nobody"
    BY <2>2, <1>3, GraphAssumption DEF Depths
  <2>3. CASE mutex[Current].owner = "parser"
    BY <2>3, <2>1, <1>1, <1>3, GraphAssumption DEF Depths
  <2> QED
    BY <2>2, <2>3 DEF LockAndRun
<1>7. /\ mutex'[Current] = [owner |-> "parser", depth |-> mutex[Current].depth + 1]
      /\ \A n \in Names : n # Current => mutex'[n] = mutex[n]
  BY <1>1, <1>3 DEF TypeOK
<1>8. TypeOK'
  <2>1. mutex' \in [Names -> [owner : {"nobody", "parser", "gui"}, depth : 0 .. MaxCrashes + 1]]
    <3>1. [owner |-> "parser", depth |-> mutex[Current].depth + 1]
            \in [owner : {"nobody", "parser", "gui"}, depth : 0 .. MaxCrashes + 1]
      BY <1>6, GraphAssumption
    <3> QED
      BY <3>1, <1>1, <1>3 DEF TypeOK
  <2> QED
    BY <2>1, <1>1, <1>3, <1>4 DEF TypeOK, building
<1>9. PassedHaveRun'
  BY <1>1, <1>4, <1>5 DEF PassedHaveRun, Built, building, RunsIn, LockAndRun, Last
<1>10. Owned' /\ Depths'
  <2>1. gui.at = "draw" => gui.of # Current /\ gui.of \in Names
    BY <1>6 DEF Owned, TypeOK
  <2>2. Owned'
    BY <2>1, <1>1, <1>5, <1>7 DEF Owned
  <2>3. ASSUME NEW n \in Names, n # Current
        PROVE  /\ mutex'[n].owner = "nobody" <=> mutex'[n].depth = 0
               /\ mutex'[n].owner = "gui" => mutex'[n].depth = 1
               /\ mutex'[n].owner = "parser" => mutex'[n].depth <= MaxCrashes
    BY <2>3, <1>1, <1>7 DEF Depths
  <2>4. Depths'
    BY <2>3, <1>4, <1>5, <1>6, <1>7 DEF Depths
  <2> QED
    BY <2>2, <2>4
<1> QED
  BY <1>2, <1>8, <1>9, <1>10

\* Unlocking a mutex that is locked.
LEMMA UnlockedType ==
  ASSUME NEW m \in [owner : {"parser", "gui"}, depth : 1 .. MaxCrashes + 1]
  PROVE  /\ Unlocked(m) \in [owner : {"nobody", "parser", "gui"}, depth : 0 .. MaxCrashes]
         /\ Unlocked(m).owner \in {"nobody", m.owner}
         /\ Unlocked(m).owner = "nobody" <=> Unlocked(m).depth = 0
         /\ m.depth = 1 => Unlocked(m).owner = "nobody"
<1>1. CASE m.depth = 1
  BY <1>1, GraphAssumption DEF Unlocked
<1>2. CASE m.depth # 1
  <2>1. Unlocked(m) = [owner |-> m.owner, depth |-> m.depth - 1]
    BY <1>2 DEF Unlocked
  <2> QED
    BY <2>1, <1>2, GraphAssumption
<1> QED
  BY <1>1, <1>2

LEMMA RunAndUnlockInv ==
  ASSUME Inv, RunAndUnlock
  PROVE  Inv'
<1> USE DEF Inv
<1>1. /\ UNCHANGED building /\ UNCHANGED <<frame, gui>> /\ parser.at = "run"
      /\ parser' = [parser EXCEPT !.at = "next", !.i = @ + 1]
      /\ ran' = [ran EXCEPT ![Current] = frame]
      /\ mutex' = [mutex EXCEPT ![Current] = Unlocked(@)]
  BY DEF RunAndUnlock
<1>2. Building' /\ InitializedSorted' /\ DependenciesFirst'
  BY <1>1, BuildingKept
<1>3. parser.i <= Last /\ parser.i \in 1 .. Len(sorted) /\ Len(sorted) \in Nat /\ Current \in Names
  BY <1>1, CurrentNamed DEF PassedHaveRun
<1>4. parser'.at = "next" /\ parser'.pass = parser.pass /\ parser'.i = parser.i + 1
  BY <1>1 DEF TypeOK
<1>5. mutex[Current] \in [owner : {"parser", "gui"}, depth : 1 .. MaxCrashes + 1]
  BY <1>1, <1>3, GraphAssumption DEF Owned, Depths, TypeOK
<1>6. /\ mutex'[Current] = Unlocked(mutex[Current])
      /\ \A n \in Names : n # Current => mutex'[n] = mutex[n]
  BY <1>1, <1>3 DEF TypeOK
<1>7. TypeOK'
  <2>1. parser' \in [at : {"idle", "next", "run"}, pass : {"frame", "offline", "playback"}, i : Nat]
    <3>1. parser' = [at |-> "next", pass |-> parser.pass, i |-> parser.i + 1]
      BY <1>1 DEF TypeOK
    <3>2. parser.i + 1 \in Nat
      BY <1>3
    <3> QED
      BY <3>1, <3>2 DEF TypeOK
  <2>2. parser'.i \in 1 .. Len(sorted') + 1
    BY <1>1, <1>3, <1>4 DEF building
  <2>3. Unlocked(mutex[Current]) \in [owner : {"nobody", "parser", "gui"}, depth : 0 .. MaxCrashes + 1]
    BY <1>5, UnlockedType, GraphAssumption
  <2>4. mutex' \in [Names -> [owner : {"nobody", "parser", "gui"}, depth : 0 .. MaxCrashes + 1]]
    BY <1>1, <1>3, <2>3 DEF TypeOK
  <2>5. ran' \in [Names -> 0 .. MaxFrames]
    BY <1>1, <1>3 DEF TypeOK
  <2> QED
    BY <2>1, <2>2, <2>4, <2>5, <1>1 DEF TypeOK, building
<1>8. PassedHaveRun'
  <2>1. ASSUME parser.pass # "playback", NEW j \in 1 .. parser.i, RunsIn(sorted[j], mode)
        PROVE  ran'[sorted[j]] = frame
    <3>1. sorted[j] \in Names
      BY <1>3 DEF TypeOK
    <3>2. CASE sorted[j] = Current
      BY <3>2, <1>1, <1>3 DEF TypeOK
    <3>3. CASE sorted[j] # Current
      <4>1. j \in 1 .. parser.i - 1
        BY <3>3, <1>3 DEF Current
      <4> QED
        BY <4>1, <3>1, <3>3, <2>1, <1>1 DEF PassedHaveRun, TypeOK
    <3> QED
      BY <3>2, <3>3
  <2> QED
    BY <2>1, <1>1, <1>3, <1>4 DEF PassedHaveRun, Built, building, RunsIn
<1>9. Owned' /\ Depths'
  <2>1. gui.at = "draw" => gui.of # Current /\ gui.of \in Names
    BY <1>1 DEF Owned, TypeOK
  <2>2. Owned'
    BY <2>1, <1>1, <1>4, <1>6 DEF Owned
  <2>3. ASSUME NEW n \in Names, n # Current
        PROVE  /\ mutex'[n].owner = "nobody" <=> mutex'[n].depth = 0
               /\ mutex'[n].owner = "gui" => mutex'[n].depth = 1
               /\ mutex'[n].owner = "parser" => mutex'[n].depth <= MaxCrashes
    BY <2>3, <1>6 DEF Depths
  <2>4. /\ mutex'[Current].owner \in {"nobody", "parser"}
        /\ mutex'[Current].owner = "nobody" <=> mutex'[Current].depth = 0
        /\ mutex'[Current].depth <= MaxCrashes
    BY <1>1, <1>5, <1>6, UnlockedType, GraphAssumption DEF Owned
  <2>5. Depths'
    BY <2>3, <2>4, <1>4 DEF Depths
  <2> QED
    BY <2>2, <2>5
<1> QED
  BY <1>2, <1>7, <1>8, <1>9

\* The end of a pass, or a crash: the mutex may stay locked, within the bound.
LEMMA PassEndsInv ==
  ASSUME Inv, Crash \/ EndPass
  PROVE  Inv'
<1> USE DEF Inv
<1>1. /\ UNCHANGED building /\ UNCHANGED <<frame, ran, mutex, gui>>
      /\ parser' = [parser EXCEPT !.at = "idle", !.i = 1]
      /\ parser.at = "run" => mutex[Current].depth <= MaxCrashes
  BY DEF Crash, EndPass
<1>2. Building' /\ InitializedSorted' /\ DependenciesFirst'
  BY <1>1, BuildingKept
<1>3. parser'.at = "idle" /\ parser'.i = 1
  BY <1>1 DEF TypeOK
<1>4. TypeOK'
  <2>1. parser' \in [at : {"idle", "next", "run"}, pass : {"frame", "offline", "playback"}, i : Nat]
    BY <1>1 DEF TypeOK
  <2>2. parser'.i \in 1 .. Len(sorted') + 1
    BY <1>1, <1>3 DEF building, TypeOK
  <2> QED
    BY <2>1, <2>2, <1>1 DEF TypeOK, building
<1>5. PassedHaveRun' /\ Owned' /\ Depths'
  BY <1>1, <1>3 DEF PassedHaveRun, Owned, Depths
<1> QED
  BY <1>2, <1>4, <1>5

LEMMA DisplayInv ==
  ASSUME Inv, NEW n \in Names, Display(n)
  PROVE  Inv'
<1> USE DEF Inv
<1>1. /\ UNCHANGED building /\ UNCHANGED <<parser, frame, ran, mutex>>
      /\ gui' = [at |-> "lock", of |-> n]
  BY DEF Display
<1>2. Building' /\ InitializedSorted' /\ DependenciesFirst'
  BY <1>1, BuildingKept
<1>3. TypeOK'
  BY <1>1 DEF TypeOK, building
<1>4. PassedHaveRun' /\ Owned' /\ Depths'
  BY <1>1 DEF PassedHaveRun, Built, Last, Current, RunsIn, Owned, Depths, building
<1> QED
  BY <1>2, <1>3, <1>4

LEMMA LockAndDrawInv ==
  ASSUME Inv, LockAndDraw
  PROVE  Inv'
<1> USE DEF Inv
<1>1. /\ UNCHANGED building /\ UNCHANGED <<parser, frame, ran>>
      /\ mutex[gui.of].owner = "nobody" /\ gui' = [gui EXCEPT !.at = "draw"]
      /\ mutex' = [mutex EXCEPT ![gui.of] = [owner |-> "gui", depth |-> 1]]
  BY DEF LockAndDraw
<1>2. Building' /\ InitializedSorted' /\ DependenciesFirst'
  BY <1>1, BuildingKept
<1>3. gui.of \in Names /\ gui'.of = gui.of /\ gui'.at = "draw"
  BY <1>1 DEF TypeOK
<1>4. /\ mutex'[gui.of] = [owner |-> "gui", depth |-> 1]
      /\ \A n \in Names : n # gui.of => mutex'[n] = mutex[n]
  BY <1>1, <1>3 DEF TypeOK
<1>5. TypeOK'
  <2>1. [owner |-> "gui", depth |-> 1] \in [owner : {"nobody", "parser", "gui"}, depth : 0 .. MaxCrashes + 1]
    BY GraphAssumption
  <2>2. mutex' \in [Names -> [owner : {"nobody", "parser", "gui"}, depth : 0 .. MaxCrashes + 1]]
    BY <2>1, <1>1, <1>3 DEF TypeOK
  <2> QED
    BY <2>2, <1>1 DEF TypeOK, building
<1>6. Current' = Current
  BY <1>1 DEF Current, building
<1>7. PassedHaveRun'
  BY <1>1, <1>6 DEF PassedHaveRun, Built, Last, RunsIn, building
<1>8. Owned'
  <2>1. parser.at = "run" => Current \in Names /\ Current # gui.of
    BY <1>1, CurrentNamed DEF PassedHaveRun, Owned
  <2> QED
    BY <2>1, <1>1, <1>3, <1>4, <1>6 DEF Owned
<1>9. Depths'
  <2> SUFFICES ASSUME NEW n \in Names
               PROVE  /\ mutex'[n].owner = "nobody" <=> mutex'[n].depth = 0
                      /\ mutex'[n].owner = "gui" => mutex'[n].depth = 1
                      /\ mutex'[n].owner = "parser" /\ ~(parser.at = "run" /\ n = Current)
                           => mutex'[n].depth <= MaxCrashes
    BY <1>1, <1>6 DEF Depths
  <2>1. CASE n = gui.of
    BY <2>1, <1>4
  <2>2. CASE n # gui.of
    BY <2>2, <1>4 DEF Depths
  <2> QED
    BY <2>1, <2>2
<1> QED
  BY <1>2, <1>5, <1>7, <1>8, <1>9

LEMMA DrawAndUnlockInv ==
  ASSUME Inv, DrawAndUnlock
  PROVE  Inv'
<1> USE DEF Inv
<1>1. /\ UNCHANGED building /\ UNCHANGED <<parser, frame, ran>>
      /\ gui.at = "draw" /\ gui' = [gui EXCEPT !.at = "idle"]
      /\ mutex' = [mutex EXCEPT ![gui.of] = Unlocked(@)]
  BY DEF DrawAndUnlock
<1>2. Building' /\ InitializedSorted' /\ DependenciesFirst'
  BY <1>1, BuildingKept
<1>3. gui.of \in Names /\ gui'.at = "idle" /\ mutex[gui.of].owner = "gui"
  BY <1>1 DEF TypeOK, Owned
<1>4. mutex[gui.of] \in [owner : {"parser", "gui"}, depth : 1 .. MaxCrashes + 1] /\ mutex[gui.of].depth = 1
  BY <1>3, GraphAssumption DEF TypeOK, Depths
<1>5. /\ mutex'[gui.of] = Unlocked(mutex[gui.of])
      /\ \A n \in Names : n # gui.of => mutex'[n] = mutex[n]
  BY <1>1, <1>3 DEF TypeOK
<1>6. TypeOK'
  <2>1. Unlocked(mutex[gui.of]) \in [owner : {"nobody", "parser", "gui"}, depth : 0 .. MaxCrashes + 1]
    BY <1>4, UnlockedType, GraphAssumption
  <2>2. mutex' \in [Names -> [owner : {"nobody", "parser", "gui"}, depth : 0 .. MaxCrashes + 1]]
    BY <2>1, <1>1, <1>3 DEF TypeOK
  <2> QED
    BY <2>2, <1>1 DEF TypeOK, building
<1>7. Current' = Current
  BY <1>1 DEF Current, building
<1>8. PassedHaveRun'
  BY <1>1, <1>7 DEF PassedHaveRun, Built, Last, RunsIn, building
<1>9. Owned'
  <2>1. parser.at = "run" => Current \in Names /\ Current # gui.of
    BY <1>3, CurrentNamed DEF PassedHaveRun, Owned
  <2> QED
    BY <2>1, <1>1, <1>3, <1>5, <1>7 DEF Owned
<1>10. Depths'
  <2> SUFFICES ASSUME NEW n \in Names
               PROVE  /\ mutex'[n].owner = "nobody" <=> mutex'[n].depth = 0
                      /\ mutex'[n].owner = "gui" => mutex'[n].depth = 1
                      /\ mutex'[n].owner = "parser" /\ ~(parser.at = "run" /\ n = Current)
                           => mutex'[n].depth <= MaxCrashes
    BY <1>1, <1>7 DEF Depths
  <2>1. CASE n = gui.of
    BY <2>1, <1>4, <1>5, UnlockedType
  <2>2. CASE n # gui.of
    BY <2>2, <1>5 DEF Depths
  <2> QED
    BY <2>1, <2>2
<1> QED
  BY <1>2, <1>6, <1>8, <1>9, <1>10

LEMMA StutterInv == Inv /\ UNCHANGED vars => Inv'
<1> SUFFICES ASSUME Inv, UNCHANGED vars PROVE Inv'
  OBVIOUS
<1> USE DEF Inv, vars
<1>1. Building' /\ InitializedSorted' /\ DependenciesFirst'
  BY BuildingKept
<1>2. TypeOK'
  BY DEF TypeOK, building
<1>3. PassedHaveRun' /\ Owned' /\ Depths'
  BY DEF PassedHaveRun, Built, Last, Current, RunsIn, Owned, Depths, building
<1> QED
  BY <1>1, <1>2, <1>3

LEMMA NextInv == Inv /\ [Next]_vars => Inv'
<1> SUFFICES ASSUME Inv, [Next]_vars PROVE Inv'
  OBVIOUS
<1>1. ASSUME NEW class \in Classes \cup {None}, AddComponent(class) PROVE Inv'
  BY <1>1, AddInv
<1>2. CASE InitializeHead
  BY <1>2, InitializeHeadInv
<1>3. CASE PutBack
  BY <1>3, PutBackInv
<1>4. ASSUME NEW pass \in {"frame", "offline", "playback"}, Pass(pass) PROVE Inv'
  BY <1>4, PassInv
<1>5. CASE Skip
  BY <1>5, SkipInv
<1>6. CASE LockAndRun
  BY <1>6, LockAndRunInv
<1>7. CASE RunAndUnlock
  BY <1>7, RunAndUnlockInv
<1>8. CASE Crash \/ EndPass
  BY <1>8, PassEndsInv
<1>9. ASSUME NEW n \in Names, Display(n) PROVE Inv'
  BY <1>9, DisplayInv
<1>10. CASE LockAndDraw
  BY <1>10, LockAndDrawInv
<1>11. CASE DrawAndUnlock
  BY <1>11, DrawAndUnlockInv
<1>12. CASE UNCHANGED vars
  BY <1>12, StutterInv
<1> QED
  BY <1>1, <1>2, <1>3, <1>4, <1>5, <1>6, <1>7, <1>8, <1>9, <1>10, <1>11, <1>12
     DEF Next, Initializing, Running, Displaying

-----------------------------------------------------------------------------
(* Every created component is in one place, and once.                       *)

RangeOf(s) == {s[i] : i \in 1 .. Len(s)}
OnceInv == EachOnce /\ IsFiniteSet(Created)

LEMMA AppendedRange ==
  ASSUME NEW s \in Seq(Names), NEW x \in Names
  PROVE  Len(Append(s, x)) = Len(s) + 1 /\ RangeOf(Append(s, x)) = RangeOf(s) \cup {x}
BY DEF RangeOf

LEMMA InitOnce == Init => OnceInv
<1> SUFFICES ASSUME Init PROVE OnceInv
  OBVIOUS
<1>1. Created = {} /\ queue = <<>> /\ sorted = <<>>
  BY DEF Init, Created
<1>2. IsFiniteSet({}) /\ Cardinality({}) = 0
  BY FS_EmptySet
<1> QED
  BY <1>1, <1>2 DEF OnceInv, EachOnce

\* A name that is added has no component yet, so that one more is created.
LEMMA AddOnce ==
  ASSUME Inv, OnceInv, NEW class \in Classes \cup {None}, AddComponent(class)
  PROVE  OnceInv'
<1> DEFINE n == Order[added + 1]
<1>1. added \in Nat /\ Len(Order) \in Nat /\ added + 1 \in 1 .. Len(Order) /\ n \in Names
  <2>1. Len(Order) \in Nat
    BY GraphAssumption
  <2>2. added \in Nat /\ added + 1 \in 1 .. Len(Order)
    BY <2>1 DEF AddComponent, Inv, TypeOK
  <2> QED
    BY <2>1, <2>2, GraphAssumption
<1>2. n \notin Created
  <2>1. n \notin Added
    BY <1>1, GraphAssumption DEF Added
  <2> QED
    BY <2>1 DEF Inv, Building
<1>3. Created' = IF class = None THEN Created ELSE Created \cup {n}
  BY <1>1, <1>2 DEF AddComponent, Created, Inv, TypeOK
<1>4. queue \in Seq(Names) /\ sorted' = sorted /\ sorted \in Seq(Names)
  BY DEF AddComponent, Inv, TypeOK
<1>5. CASE class = None
  BY <1>3, <1>5 DEF AddComponent, OnceInv, EachOnce
<1>6. CASE class # None
  <2>1. queue' = Append(queue, n) /\ Created' = Created \cup {n}
    BY <1>3, <1>6 DEF AddComponent
  <2>2. IsFiniteSet(Created') /\ Cardinality(Created') = Cardinality(Created) + 1
    BY <1>2, <2>1, FS_AddElement DEF OnceInv
  <2>3. Len(queue') = Len(queue) + 1 /\ RangeOf(queue') = RangeOf(queue) \cup {n}
    BY <1>1, <1>4, <2>1, AppendedRange
  <2>4. Len(queue) \in Nat /\ Len(sorted) \in Nat
    BY <1>4
  <2> QED
    BY <1>4, <2>1, <2>2, <2>3, <2>4 DEF OnceInv, EachOnce, RangeOf
<1> QED
  BY <1>5, <1>6

\* The head of the queue is moved to the sorted ones or to the end of the queue.
LEMMA MoveOnce ==
  ASSUME Inv, OnceInv, InitializeHead \/ PutBack
  PROVE  OnceInv'
<1> DEFINE h == Head(queue)
<1>1. /\ queue \in Seq(Names) /\ queue # <<>> /\ sorted \in Seq(Names) /\ h \in Names
      /\ Created' = Created
  BY DEF InitializeHead, PutBack, Inv, TypeOK, Created
<1>2. Len(queue) \in Nat \ {0} /\ Len(sorted) \in Nat
  BY <1>1
<1>3. /\ Tail(queue) \in Seq(Names) /\ Len(Tail(queue)) = Len(queue) - 1
      /\ RangeOf(queue) = {h} \cup RangeOf(Tail(queue))
  <2>1. Tail(queue) \in Seq(Names) /\ Len(Tail(queue)) = Len(queue) - 1
    BY <1>1
  <2>2. \A i \in 1 .. Len(queue) - 1 : Tail(queue)[i] = queue[i + 1]
    BY <1>1
  <2>3. h = queue[1] /\ 1 \in 1 .. Len(queue)
    BY <1>1, <1>2
  <2>4. \A i \in 2 .. Len(queue) : i - 1 \in 1 .. Len(queue) - 1 /\ Tail(queue)[i - 1] = queue[i]
    BY <1>2, <2>2
  <2>5. RangeOf(queue) \subseteq {h} \cup RangeOf(Tail(queue))
    <3> SUFFICES ASSUME NEW i \in 1 .. Len(queue)
                 PROVE  queue[i] \in {h} \cup RangeOf(Tail(queue))
      BY DEF RangeOf
    <3>1. CASE i = 1
      BY <2>3, <3>1
    <3>2. CASE i # 1
      BY <1>2, <2>1, <2>4, <3>2 DEF RangeOf
    <3> QED
      BY <3>1, <3>2
  <2>6. {h} \cup RangeOf(Tail(queue)) \subseteq RangeOf(queue)
    BY <1>2, <2>1, <2>2, <2>3 DEF RangeOf
  <2> QED
    BY <2>1, <2>5, <2>6
<1>4. CASE InitializeHead
  <2>1. queue' = Tail(queue) /\ sorted' = Append(sorted, h)
    BY <1>4 DEF InitializeHead
  <2>2. Len(sorted') = Len(sorted) + 1 /\ RangeOf(sorted') = RangeOf(sorted) \cup {h}
    BY <1>1, <2>1, AppendedRange
  <2>3. Len(queue') + Len(sorted') = Len(queue) + Len(sorted)
    BY <1>2, <1>3, <2>1, <2>2
  <2>4. RangeOf(queue') \cup RangeOf(sorted') = RangeOf(queue) \cup RangeOf(sorted)
    BY <1>3, <2>1, <2>2
  <2> QED
    BY <1>1, <2>3, <2>4 DEF OnceInv, EachOnce, RangeOf
<1>5. CASE PutBack
  <2>1. queue' = Append(Tail(queue), h) /\ sorted' = sorted
    BY <1>5 DEF PutBack
  <2>2. Len(queue') = Len(Tail(queue)) + 1 /\ RangeOf(queue') = RangeOf(Tail(queue)) \cup {h}
    BY <1>1, <1>3, <2>1, AppendedRange
  <2>3. Len(queue') + Len(sorted') = Len(queue) + Len(sorted)
    BY <1>2, <1>3, <2>1, <2>2
  <2>4. RangeOf(queue') \cup RangeOf(sorted') = RangeOf(queue) \cup RangeOf(sorted)
    BY <1>3, <2>1, <2>2
  <2> QED
    BY <1>1, <2>3, <2>4 DEF OnceInv, EachOnce, RangeOf
<1> QED
  BY <1>4, <1>5

LEMMA NextOnce == Inv /\ OnceInv /\ [Next]_vars => OnceInv'
<1> SUFFICES ASSUME Inv, OnceInv, [Next]_vars PROVE OnceInv'
  OBVIOUS
<1>1. ASSUME NEW class \in Classes \cup {None}, AddComponent(class) PROVE OnceInv'
  BY <1>1, AddOnce
<1>2. CASE InitializeHead \/ PutBack
  BY <1>2, MoveOnce
<1>3. ASSUME UNCHANGED building PROVE OnceInv'
  BY <1>3 DEF building, OnceInv, EachOnce, Created
<1>4. ASSUME NEW pass \in {"frame", "offline", "playback"}, Pass(pass) PROVE OnceInv'
  BY <1>3, <1>4 DEF Pass
<1>5. ASSUME NEW n \in Names, Display(n) PROVE OnceInv'
  BY <1>3, <1>5 DEF Display
<1>6. CASE Running
  BY <1>3, <1>6 DEF Running, Skip, LockAndRun, RunAndUnlock, Crash, EndPass
<1>7. CASE Displaying
  BY <1>3, <1>7 DEF Displaying, LockAndDraw, DrawAndUnlock
<1>8. CASE UNCHANGED vars
  BY <1>3, <1>8 DEF vars
<1> QED
  BY <1>1, <1>2, <1>4, <1>5, <1>6, <1>7, <1>8 DEF Next, Initializing

-----------------------------------------------------------------------------
(* The theorems.                                                            *)

\* The inductive invariant holds in every behaviour.
THEOREM GraphInvariant == Spec => []Inv
<1>1. Init => Inv
  BY InitInv
<1>2. Inv /\ [Next]_vars => Inv'
  BY NextInv
<1> QED
  BY <1>1, <1>2, PTL DEF Spec

\* Variables keep their types, the index of a pass and the depth of every
\* mutex included.
THEOREM TypeCorrect == Spec => []TypeOK
<1>1. Inv => TypeOK
  BY DEF Inv
<1> QED
  BY <1>1, GraphInvariant, PTL

\* VSCGraph::Initialize initializes a component after the parents it has.
THEOREM ParentsInitializedFirst == Spec => []DependenciesFirst
<1>1. Inv => DependenciesFirst
  BY DEF Inv
<1> QED
  BY <1>1, GraphInvariant, PTL

\* A component runs on a frame when its parents have finished that frame.
THEOREM RunsAfterParents == Spec => []ParentsCurrent
<1>1. Inv => ParentsCurrent
  <2> SUFFICES ASSUME Inv, parser.at = "run", parser.pass # "playback",
                      NEW p \in Parents(Current), RunsIn(p, mode)
               PROVE  ran[p] = frame
    BY DEF ParentsCurrent
  <2>1. parser.i \in 1 .. Len(sorted) /\ Len(sorted) \in Nat
    BY CurrentNamed DEF Inv, PassedHaveRun
  <2>2. PICK j \in 1 .. parser.i - 1 : sorted[j] = p
    BY <2>1 DEF Inv, DependenciesFirst, Current
  <2> QED
    BY <2>2 DEF Inv, PassedHaveRun
<1> QED
  BY <1>1, GraphInvariant, PTL

\* A component is never asked for its display while it runs.
THEOREM DisplayExcludesRun == Spec => []NotDrawnWhileRunning
<1>1. Inv => NotDrawnWhileRunning
  BY DEF Inv, Owned, NotDrawnWhileRunning
<1> QED
  BY <1>1, GraphInvariant, PTL

\* Every component the user has selected waits in the queue or is sorted, once:
\* none is forgotten or initialized twice, however often it is put back.
THEOREM EachOnceAlways == Spec => []EachOnce
<1>1. OnceInv => EachOnce
  BY DEF OnceInv
<1> QED
  BY <1>1, InitOnce, NextOnce, GraphInvariant, PTL DEF Spec
=============================================================================
