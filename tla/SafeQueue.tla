----------------------------- MODULE SafeQueue -----------------------------
(***************************************************************************)
(* vpl::SafeQueue<T, SIZE> (Tools/SafeQueue.h): the ring buffer between    *)
(* the thread that issues SQL queries and the thread that runs them.  It   *)
(* has two indices and no lock, and is documented to be safe with exactly  *)
(* one consumer and one producer thread.                                   *)
(*                                                                         *)
(* Each access to an index the other thread writes is a step of its own,   *)
(* and so are the start and the end of the copy of an element (T is        *)
(* std::string in the program): a slot holds Torn while it is being        *)
(* assigned.  Volatile accesses are taken in program order, which is what  *)
(* the Visual C++ build of the program gives.                              *)
(***************************************************************************)
EXTENDS Integers, Sequences

CONSTANTS
  SIZE,     \* the number of slots
  Elem,     \* the elements that are pushed
  Torn      \* the contents of a slot in the middle of its assignment

ASSUME SizeAssumption == SIZE \in Nat /\ SIZE >= 2
ASSUME TornAssumption == Torn \notin Elem

VARIABLES
  m_read,   \* index of the next element to remove, written by Pop only
  m_write,  \* index of the next free slot, written by Push only
  m_data,   \* the slots
  producer, \* the producer's step and locals: nextElement, the argument e
  consumer, \* the consumer's step and locals: nextElement, the reference e
  pushed,   \* what the latest Push returned (and the element it was given)
  popped    \* what the latest Pop returned (and the element it delivered)

queue == <<m_read, m_write, m_data>>
vars == <<m_read, m_write, m_data, producer, consumer, pushed, popped>>

Slots == 0 .. SIZE - 1

\* Mistake: the index does not wrap.
NextElementUnwrapped(i) == i + 1

\* (i + 1) % SIZE
NextElement(i) == (i + 1) % SIZE

\* The value of a Push or Pop that returns false, and of one that returns true.
Failed == [ok |-> FALSE, elems |-> <<>>]
Done(e) == [ok |-> TRUE, elems |-> <<e>>]

Outcome == [ok : BOOLEAN, elems : Seq(Elem \cup {Torn})]

TypeOK ==
  /\ m_read \in Slots
  /\ m_write \in Slots
  /\ m_data \in [Slots -> Elem \cup {Torn}]
  /\ producer \in [at : {"idle", "test", "assign", "assigning", "publish"},
                   next : Slots, e : Elem \cup {Torn}]
  /\ consumer \in [at : {"idle", "copy", "copying", "publish"},
                   next : Slots, e : Elem \cup {Torn}]
  /\ pushed \in Outcome
  /\ popped \in Outcome

\* Nothing reads a slot before it is assigned, nor a local before its call.
Init ==
  /\ m_read = 0
  /\ m_write = 0
  /\ m_data = [s \in Slots |-> Torn]
  /\ producer = [at |-> "idle", next |-> 0, e |-> Torn]
  /\ consumer = [at |-> "idle", next |-> 0, e |-> Torn]
  /\ pushed = Failed
  /\ popped = Failed

-----------------------------------------------------------------------------
(* Push(e), called by the producer thread.                                 *)

PushStart(e) ==
  /\ producer.at = "idle"
  /\ producer' = [at |-> "test", next |-> NextElement(m_write), e |-> e]
  /\ UNCHANGED <<queue, consumer, pushed, popped>>

\* Mistake: a push that stops one slot early.
PushTestEarly ==
  /\ producer.at = "test"
  /\ IF NextElement(producer.next) # m_read
     THEN producer' = [producer EXCEPT !.at = "assign"] /\ UNCHANGED pushed
     ELSE producer' = [producer EXCEPT !.at = "idle"] /\ pushed' = Failed
  /\ UNCHANGED <<queue, consumer, popped>>

PushTest ==
  /\ producer.at = "test"
  /\ IF producer.next # m_read
     THEN /\ producer' = [producer EXCEPT !.at = "assign"]
          /\ UNCHANGED pushed
     ELSE /\ producer' = [producer EXCEPT !.at = "idle"]
          /\ pushed' = Failed
  /\ UNCHANGED <<queue, consumer, popped>>

\* Mistake: the index is published before the element is assigned.
PushAssignPublished ==
  /\ producer.at = "assign"
  /\ m_data' = [m_data EXCEPT ![m_write] = Torn]
  /\ m_write' = producer.next
  /\ producer' = [producer EXCEPT !.at = "assigning"]
  /\ UNCHANGED <<m_read, consumer, pushed, popped>>

PushAssign ==
  /\ producer.at = "assign"
  /\ m_data' = [m_data EXCEPT ![m_write] = Torn]
  /\ producer' = [producer EXCEPT !.at = "assigning"]
  /\ UNCHANGED <<m_read, m_write, consumer, pushed, popped>>

PushAssigned ==
  /\ producer.at = "assigning"
  /\ m_data' = [m_data EXCEPT ![m_write] = producer.e]
  /\ producer' = [producer EXCEPT !.at = "publish"]
  /\ UNCHANGED <<m_read, m_write, consumer, pushed, popped>>

PushPublish ==
  /\ producer.at = "publish"
  /\ m_write' = producer.next
  /\ pushed' = Done(producer.e)
  /\ producer' = [producer EXCEPT !.at = "idle"]
  /\ UNCHANGED <<m_read, m_data, consumer, popped>>

-----------------------------------------------------------------------------
(* Pop(e), called by the consumer thread.                                  *)

\* Mistake: a pop that does not look for an element.
PopUntested ==
  /\ consumer.at = "idle"
  /\ consumer' = [consumer EXCEPT !.at = "copy", !.next = NextElement(m_read)]
  /\ UNCHANGED <<queue, producer, pushed, popped>>

PopTest ==
  /\ consumer.at = "idle"
  /\ IF m_read = m_write
     THEN /\ popped' = Failed
          /\ UNCHANGED consumer
     ELSE /\ consumer' = [consumer EXCEPT !.at = "copy", !.next = NextElement(m_read)]
          /\ UNCHANGED popped
  /\ UNCHANGED <<queue, producer, pushed>>

PopCopy ==
  /\ consumer.at = "copy"
  /\ consumer' = [consumer EXCEPT !.at = "copying", !.e = m_data[m_read]]
  /\ UNCHANGED <<queue, producer, pushed, popped>>

\* A copy during which the slot changes is torn.
PopCopied ==
  /\ consumer.at = "copying"
  /\ consumer' = [consumer EXCEPT !.at = "publish",
                    !.e = IF m_data[m_read] = consumer.e THEN consumer.e ELSE Torn]
  /\ UNCHANGED <<queue, producer, pushed, popped>>

PopPublish ==
  /\ consumer.at = "publish"
  /\ m_read' = consumer.next
  /\ popped' = Done(consumer.e)
  /\ consumer' = [consumer EXCEPT !.at = "idle"]
  /\ UNCHANGED <<m_write, m_data, producer, pushed>>

-----------------------------------------------------------------------------
Produce == (\E e \in Elem : PushStart(e))
             \/ PushTest \/ PushAssign \/ PushAssigned \/ PushPublish
Consume == PopTest \/ PopCopy \/ PopCopied \/ PopPublish

Next == Produce \/ Consume

Spec == Init /\ [][Next]_vars

-----------------------------------------------------------------------------
(* Properties.                                                             *)

\* How many elements lie between the two indices, and where the k-th of
\* the slots that follow m_read is.
Count == IF m_write >= m_read THEN m_write - m_read ELSE m_write - m_read + SIZE
Slot(k) == IF m_read + k < SIZE THEN m_read + k ELSE m_read + k - SIZE

\* The contents of the queue, oldest element first.
Contents == [k \in 1 .. Count |-> m_data[Slot(k - 1)]]

\* No slot is copied out by Pop while Push assigns it, the race that the
\* class's "safe as long as there is exactly one consumer and one produced
\* thread" excludes.
NoSlotRace ==
  ~ /\ producer.at \in {"assign", "assigning"}
    /\ consumer.at \in {"copy", "copying"}
    /\ m_read = m_write

\* Everything between the indices is a completely assigned element, so that
\* a Pop which finds the queue non-empty delivers a whole element.
PublishedWhole == \A k \in 1 .. Count : Contents[k] \in Elem

\* What holds between the steps of a call: the locals of a thread agree with
\* the index only it writes, whatever the other thread does meanwhile; once a
\* test has found room (an element), there is room (an element) until the
\* call publishes its index.
CallsStable ==
  /\ producer.at # "idle" =>
       producer.next = NextElement(m_write) /\ producer.e \in Elem
  /\ producer.at \in {"assign", "assigning", "publish"} => producer.next # m_read
  /\ producer.at = "publish" => m_data[m_write] = producer.e
  /\ consumer.at # "idle" =>
       m_read # m_write /\ consumer.next = NextElement(m_read)
  /\ consumer.at \in {"copying", "publish"} => consumer.e = m_data[m_read]

\* The queue is a bounded FIFO of SIZE - 1 elements: each Push that returns
\* true appends, each that returns false found it full; each Pop that returns
\* true removes the oldest element, each that returns false found it empty.
FIFO == INSTANCE BoundedFIFO WITH buffer <- Contents, Capacity <- SIZE - 1

FIFOSpec == FIFO!Spec
=============================================================================
