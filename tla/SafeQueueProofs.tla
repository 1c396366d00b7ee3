-------------------------- MODULE SafeQueueProofs --------------------------
(***************************************************************************)
(* Proofs about SafeQueue, for every number of slots and every set of      *)
(* elements.                                                               *)
(***************************************************************************)
EXTENDS SafeQueue, SequenceTheorems, TLAPS

LEMMA NextElementIs ==
  ASSUME NEW i \in Slots
  PROVE  /\ NextElement(i) = IF i + 1 = SIZE THEN 0 ELSE i + 1
         /\ NextElement(i) \in Slots
<1>1. CASE i + 1 = SIZE
  <2>1. SIZE % SIZE = 0
    BY SizeAssumption
  <2>2. QED
    BY <1>1, <2>1, SizeAssumption DEF NextElement, Slots
<1>2. CASE i + 1 < SIZE
  <2>1. (i + 1) % SIZE = i + 1
    BY <1>2, SizeAssumption DEF Slots
  <2>2. QED
    BY <1>2, <2>1, SizeAssumption DEF NextElement, Slots
<1>3. QED
  BY <1>1, <1>2, SizeAssumption DEF Slots

(***************************************************************************)
(* The inductive invariant.  TypeOK alone does not keep the two threads    *)
(* apart: that the producer assigns a slot the consumer does not copy      *)
(* needs CallsStable (the tests are still true when the threads act on     *)
(* them), and that a copied slot is a whole element needs PublishedWhole.  *)
(***************************************************************************)
QueueInv == TypeOK /\ CallsStable /\ PublishedWhole

LEMMA CountSlots ==
  ASSUME TypeOK
  PROVE  /\ Count \in 0 .. SIZE - 1
         /\ Count = 0 <=> m_read = m_write
         /\ Count = SIZE - 1 <=> NextElement(m_write) = m_read
         /\ \A k \in 1 .. Count : Slot(k - 1) \in Slots /\ Slot(k - 1) # m_write
         /\ \A k \in 2 .. Count : Slot(k - 1) # m_read
         /\ Slot(0) = m_read
<1>. m_read \in Slots /\ m_write \in Slots
  BY DEF TypeOK
<1>. QED
  BY SizeAssumption, NextElementIs DEF Count, Slot, Slots

LEMMA OutcomeType ==
  /\ Failed \in Outcome
  /\ \A e \in Elem \cup {Torn} : Done(e) \in Outcome
BY DEF Failed, Done, Outcome

LEMMA InitInv == Init => QueueInv
<1>. SUFFICES ASSUME Init PROVE QueueInv
  OBVIOUS
<1>1. TypeOK
  BY SizeAssumption, OutcomeType DEF Init, TypeOK, Slots
<1>2. CallsStable
  BY DEF Init, CallsStable
<1>3. Count = 0
  BY DEF Init, Count
<1>4. PublishedWhole
  BY <1>3 DEF PublishedWhole
<1>. QED
  BY <1>1, <1>2, <1>4 DEF QueueInv

LEMMA NextTypeOK == TypeOK /\ [Next]_vars => TypeOK'
<1>. SUFFICES ASSUME TypeOK, [Next]_vars PROVE TypeOK'
  OBVIOUS
<1>. USE DEF TypeOK, queue
<1>1. ASSUME NEW e \in Elem, PushStart(e) PROVE TypeOK'
  BY <1>1, NextElementIs DEF PushStart
<1>2. CASE PushTest
  BY <1>2, OutcomeType DEF PushTest
<1>3. CASE PushAssign
  BY <1>3 DEF PushAssign
<1>4. CASE PushAssigned
  BY <1>4 DEF PushAssigned
<1>5. CASE PushPublish
  BY <1>5, OutcomeType DEF PushPublish
<1>6. CASE PopTest
  <2>1. CASE m_read = m_write
    BY <1>6, <2>1, OutcomeType DEF PopTest
  <2>2. CASE m_read # m_write
    BY <1>6, <2>2, NextElementIs DEF PopTest
  <2>. QED
    BY <2>1, <2>2
<1>7. CASE PopCopy
  BY <1>7 DEF PopCopy
<1>8. CASE PopCopied
  BY <1>8 DEF PopCopied
<1>9. CASE PopPublish
  BY <1>9, OutcomeType DEF PopPublish
<1>10. CASE UNCHANGED vars
  BY <1>10 DEF vars
<1>. QED
  BY <1>1, <1>2, <1>3, <1>4, <1>5, <1>6, <1>7, <1>8, <1>9, <1>10
  DEF Next, Produce, Consume

LEMMA NextCallsStable == QueueInv /\ [Next]_vars => CallsStable'
<1>. SUFFICES ASSUME QueueInv, [Next]_vars PROVE CallsStable'
  OBVIOUS
<1>. USE DEF QueueInv, CallsStable, TypeOK, queue
<1>1. ASSUME NEW e \in Elem, PushStart(e) PROVE CallsStable'
  BY <1>1 DEF PushStart
<1>2. CASE PushTest
  BY <1>2 DEF PushTest
<1>3. CASE PushAssign
  BY <1>3 DEF PushAssign
<1>4. CASE PushAssigned
  BY <1>4 DEF PushAssigned
<1>5. CASE PushPublish
  BY <1>5 DEF PushPublish
<1>6. CASE PopTest
  <2>1. CASE m_read = m_write
    BY <1>6, <2>1 DEF PopTest
  <2>2. CASE m_read # m_write
    BY <1>6, <2>2, NextElementIs DEF PopTest
  <2>. QED
    BY <2>1, <2>2
<1>7. CASE PopCopy
  BY <1>7 DEF PopCopy
<1>8. CASE PopCopied
  BY <1>8 DEF PopCopied
<1>9. CASE PopPublish
  BY <1>9, NextElementIs, SizeAssumption DEF PopPublish, Slots
<1>10. CASE UNCHANGED vars
  BY <1>10 DEF vars
<1>. QED
  BY <1>1, <1>2, <1>3, <1>4, <1>5, <1>6, <1>7, <1>8, <1>9, <1>10
  DEF Next, Produce, Consume

(***************************************************************************)
(* How a step changes the contents of the queue: they are a sequence of    *)
(* whole elements, publishing a push appends, publishing a pop takes the   *)
(* head off, and every other step leaves them alone (in particular the     *)
(* assignment of the slot at m_write, which is not one of theirs).         *)
(***************************************************************************)
LEMMA ContentsType ==
  ASSUME QueueInv
  PROVE  /\ Contents \in Seq(Elem)
         /\ Len(Contents) = Count
         /\ Count > 0 => Contents[1] = m_data[m_read] /\ m_data[m_read] \in Elem
<1>1. Count \in Nat /\ Slot(0) = m_read
  BY CountSlots, SizeAssumption DEF QueueInv
<1>2. \A k \in 1 .. Count : Contents[k] \in Elem
  BY DEF QueueInv, PublishedWhole
<1>3. Contents \in [1 .. Count -> Elem]
  BY <1>2 DEF Contents
<1>4. Contents \in Seq(Elem) /\ Len(Contents) = Count
  BY <1>1, <1>3
<1>5. Count > 0 => Contents[1] = m_data[m_read]
  BY <1>1 DEF Contents
<1>. QED
  BY <1>1, <1>2, <1>4, <1>5

LEMMA ContentsUnchanged ==
  ASSUME UNCHANGED queue
  PROVE  UNCHANGED <<Contents, Count>>
BY DEF queue, Contents, Count, Slot

LEMMA ContentsAssigned ==
  ASSUME QueueInv, NEW e, m_data' = [m_data EXCEPT ![m_write] = e],
         UNCHANGED <<m_read, m_write>>
  PROVE  UNCHANGED <<Contents, Count>>
<1>1. Count' = Count
  BY DEF Count
<1>2. \A k \in 1 .. Count : Slot(k - 1)' = Slot(k - 1)
  BY DEF Slot
<1>3. \A k \in 1 .. Count : m_data'[Slot(k - 1)] = m_data[Slot(k - 1)]
  BY CountSlots DEF QueueInv, TypeOK
<1>4. Contents' = [k \in 1 .. Count |-> m_data'[Slot(k - 1)]]
  BY <1>1, <1>2 DEF Contents
<1>. QED
  BY <1>1, <1>3, <1>4 DEF Contents

LEMMA ContentsAppended ==
  ASSUME QueueInv, PushPublish
  PROVE  /\ producer.e \in Elem
         /\ Count < SIZE - 1
         /\ Count' = Count + 1
         /\ Contents' = Append(Contents, producer.e)
<1>. DEFINE e == producer.e
<1>1. e \in Elem /\ m_write' = NextElement(m_write) /\ NextElement(m_write) # m_read
      /\ m_data[m_write] = e /\ UNCHANGED <<m_read, m_data>>
  BY DEF QueueInv, CallsStable, PushPublish
<1>2. m_read \in Slots /\ m_write \in Slots
  BY DEF QueueInv, TypeOK
<1>3. Count \in Nat /\ Count < SIZE - 1
  BY <1>1, CountSlots, SizeAssumption DEF QueueInv
<1>4. Count' = Count + 1 /\ Slot(Count) = m_write
  BY <1>1, <1>2, <1>3, NextElementIs, SizeAssumption DEF Count, Slot, Slots
<1>5. \A k \in Nat : Slot(k)' = Slot(k)
  BY <1>1 DEF Slot
<1>6. Contents' = [k \in 1 .. Count + 1 |-> m_data[Slot(k - 1)]]
  BY <1>1, <1>3, <1>4, <1>5 DEF Contents
<1>7. Append(Contents, e) = [k \in 1 .. Count + 1 |-> IF k = Count + 1 THEN e ELSE Contents[k]]
  BY <1>3, ContentsType
<1>8. \A k \in 1 .. Count + 1 : m_data[Slot(k - 1)] = IF k = Count + 1 THEN e ELSE Contents[k]
  BY <1>1, <1>3, <1>4 DEF Contents
<1>. QED
  BY <1>1, <1>3, <1>4, <1>6, <1>7, <1>8

LEMMA ContentsTail ==
  ASSUME QueueInv, PopPublish
  PROVE  /\ Count > 0
         /\ Count' = Count - 1
         /\ Contents # <<>>
         /\ Head(Contents) = consumer.e
         /\ Contents' = Tail(Contents)
<1>1. /\ m_read' = NextElement(m_read) /\ m_read # m_write
      /\ consumer.e = m_data[m_read] /\ UNCHANGED <<m_write, m_data>>
  BY DEF QueueInv, CallsStable, PopPublish
<1>2. m_read \in Slots /\ m_write \in Slots
  BY DEF QueueInv, TypeOK
<1>3. Count \in Nat /\ Count > 0
  BY <1>1, CountSlots, SizeAssumption DEF QueueInv
<1>4. Count' = Count - 1 /\ \A k \in 1 .. Count - 1 : Slot(k - 1)' = Slot(k)
  BY <1>1, <1>2, <1>3, NextElementIs, SizeAssumption DEF Count, Slot, Slots
<1>5. Contents' = [k \in 1 .. Count - 1 |-> m_data[Slot(k)]]
  BY <1>1, <1>3, <1>4 DEF Contents
<1>6. Contents \in Seq(Elem) /\ Len(Contents) = Count
  BY ContentsType
<1>7. /\ Tail(Contents) \in Seq(Elem) /\ Len(Tail(Contents)) = Count - 1
      /\ \A k \in 1 .. Count - 1 : Tail(Contents)[k] = Contents[k + 1]
  BY <1>3, <1>6, HeadTailProperties
<1>8. \A k \in 1 .. Count - 1 : Contents[k + 1] = m_data[Slot(k)]
  BY <1>3 DEF Contents
<1>9. Contents # <<>> /\ Head(Contents) = consumer.e
  BY <1>1, <1>3, <1>6, ContentsType
<1>10. Contents' \in Seq(Elem) /\ Len(Contents') = Count - 1
  BY <1>3, <1>5, <1>7, <1>8
<1>11. \A k \in 1 .. Count - 1 : Contents'[k] = Tail(Contents)[k]
  BY <1>5, <1>7, <1>8
<1>12. Contents' = Tail(Contents)
  BY <1>7, <1>10, <1>11, SeqEqual
<1>. QED
  BY <1>3, <1>4, <1>9, <1>12

LEMMA NextPublishedWhole == QueueInv /\ [Next]_vars => PublishedWhole'
<1>. SUFFICES ASSUME QueueInv, [Next]_vars PROVE PublishedWhole'
  OBVIOUS
<1>1. PublishedWhole /\ Count \in Nat
  BY CountSlots, SizeAssumption DEF QueueInv
<1>2. CASE UNCHANGED <<Contents, Count>>
  BY <1>1, <1>2 DEF PublishedWhole
<1>3. CASE PushAssign
  BY <1>2, <1>3, ContentsAssigned DEF PushAssign
<1>4. CASE PushAssigned
  BY <1>2, <1>4, ContentsAssigned DEF PushAssigned
<1>5. CASE PushPublish
  <2>1. Contents' \in Seq(Elem) /\ Len(Contents') = Count + 1 /\ Count' = Count + 1
    BY <1>5, ContentsAppended, ContentsType, AppendProperties
  <2>. QED
    BY <2>1, ElementOfSeq DEF PublishedWhole
<1>6. CASE PopPublish
  <2>1. Contents' \in Seq(Elem) /\ Len(Contents') = Count - 1 /\ Count' = Count - 1
    BY <1>6, ContentsTail, ContentsType, HeadTailProperties
  <2>. QED
    BY <2>1, ElementOfSeq DEF PublishedWhole
<1>7. CASE UNCHANGED queue
  BY <1>2, <1>7, ContentsUnchanged
<1>. QED
  BY <1>3, <1>4, <1>5, <1>6, <1>7
  DEF Next, Produce, Consume, PushStart, PushTest, PopTest, PopCopy, PopCopied, vars, queue

(***************************************************************************)
(* Every reachable state of the queue, whatever its size and its elements, *)
(* satisfies the invariant of its calls.                                   *)
(***************************************************************************)
THEOREM QueueInvariant == Spec => []QueueInv
<1>1. QueueInv /\ [Next]_vars => QueueInv'
  BY NextTypeOK, NextCallsStable, NextPublishedWhole DEF QueueInv
<1>. QED
  BY <1>1, InitInv, PTL DEF Spec

\* The variables keep their types: the indices stay within the slots.
THEOREM TypeCorrect == Spec => []TypeOK
<1>1. QueueInv => TypeOK
  BY DEF QueueInv
<1>. QED
  BY <1>1, QueueInvariant, PTL

\* With one producer and one consumer no slot is ever copied out while it is
\* assigned, without any lock.
THEOREM RaceFree == Spec => []NoSlotRace
<1>1. QueueInv => NoSlotRace
  BY DEF QueueInv, CallsStable, NoSlotRace
<1>. QED
  BY <1>1, QueueInvariant, PTL

\* The queue only ever holds whole elements.
THEOREM WholeElements == Spec => []PublishedWhole
<1>1. QueueInv => PublishedWhole
  BY DEF QueueInv
<1>. QED
  BY <1>1, QueueInvariant, PTL

(***************************************************************************)
(* The ring buffer implements the bounded FIFO.                            *)
(***************************************************************************)
LEMMA InitRefines == Init => FIFO!Init
<1>. SUFFICES ASSUME Init PROVE FIFO!Init
  OBVIOUS
<1>1. Contents = <<>>
  BY DEF Init, Contents, Count
<1>. QED
  BY <1>1 DEF Init, FIFO!Init, Failed, FIFO!NoCall

LEMMA NextRefines == QueueInv /\ [Next]_vars => [FIFO!Next]_(FIFO!vars)
<1>. SUFFICES ASSUME QueueInv, [Next]_vars PROVE [FIFO!Next]_(FIFO!vars)
  OBVIOUS
<1>. USE DEF FIFO!vars
<1>1. /\ Len(Contents) = Count /\ Contents \in Seq(Elem)
      /\ Count \in 0 .. SIZE - 1
      /\ Count = 0 <=> m_read = m_write
      /\ Count = SIZE - 1 <=> NextElement(m_write) = m_read
  BY CountSlots, ContentsType DEF QueueInv
<1>2. CASE UNCHANGED <<Contents, pushed, popped>>
  BY <1>2
<1>3. CASE PushTest
  <2>1. CASE producer.next # m_read
    BY <1>2, <1>3, <2>1, ContentsUnchanged DEF PushTest
  <2>2. CASE producer.next = m_read
    <3>1. Len(Contents) = SIZE - 1
      BY <1>1, <1>3, <2>2 DEF PushTest, QueueInv, CallsStable
    <3>2. FIFO!PushFull
      BY <1>3, <2>2, <3>1, ContentsUnchanged
      DEF PushTest, FIFO!PushFull, Failed, FIFO!NoCall
    <3>. QED
      BY <3>2 DEF FIFO!Next
  <2>. QED
    BY <2>1, <2>2
<1>4. CASE PushAssign \/ PushAssigned
  BY <1>2, <1>4, ContentsAssigned DEF PushAssign, PushAssigned
<1>5. CASE PushPublish
  <2>1. producer.e \in Elem /\ Len(Contents) < SIZE - 1
        /\ Contents' = Append(Contents, producer.e)
    BY <1>1, <1>5, ContentsAppended
  <2>2. FIFO!Push(producer.e)
    BY <1>5, <2>1 DEF PushPublish, FIFO!Push, Done, FIFO!Success
  <2>. QED
    BY <2>1, <2>2 DEF FIFO!Next
<1>6. CASE PopTest
  <2>1. CASE m_read # m_write
    BY <1>2, <1>6, <2>1, ContentsUnchanged DEF PopTest
  <2>2. CASE m_read = m_write
    <3>1. Contents = <<>>
      BY <1>1, <2>2 DEF Contents
    <3>2. FIFO!PopEmpty
      BY <1>6, <2>2, <3>1, ContentsUnchanged
      DEF PopTest, FIFO!PopEmpty, Failed, FIFO!NoCall
    <3>. QED
      BY <3>2 DEF FIFO!Next
  <2>. QED
    BY <2>1, <2>2
<1>7. CASE PopPublish
  <2>1. FIFO!Pop
    BY <1>7, ContentsTail DEF PopPublish, FIFO!Pop, Done, FIFO!Success
  <2>. QED
    BY <2>1 DEF FIFO!Next
<1>8. CASE (\E e \in Elem : PushStart(e)) \/ PopCopy \/ PopCopied
  BY <1>2, <1>8, ContentsUnchanged DEF PushStart, PopCopy, PopCopied
<1>9. CASE UNCHANGED vars
  BY <1>2, <1>9, ContentsUnchanged DEF vars, queue
<1>. QED
  BY <1>3, <1>4, <1>5, <1>6, <1>7, <1>8, <1>9 DEF Next, Produce, Consume

\* What SafeQueue's comment promises, for every size and element type: used
\* by one producer and one consumer it is a bounded FIFO of SIZE - 1 elements,
\* and each call returns what the FIFO would.
THEOREM ImplementsFIFO == Spec => FIFOSpec
<1>. QED
  BY InitRefines, NextRefines, QueueInvariant, PTL DEF Spec, FIFOSpec, FIFO!Spec
=============================================================================
