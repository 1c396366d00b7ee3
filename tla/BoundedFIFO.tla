---------------------------- MODULE BoundedFIFO ----------------------------
(***************************************************************************)
(* What a consumer/producer queue promises: a bounded first-in first-out   *)
(* buffer.  A push either stores its element at the tail or, when the      *)
(* buffer is full, stores nothing and says so; a pop either removes the    *)
(* element at the head or, when the buffer is empty, says so.  The state   *)
(* machine shows the outcome of the latest call of either side, so that    *)
(* an implementation has to get the answers right as well as the contents. *)
(***************************************************************************)
EXTENDS Naturals, Sequences

CONSTANTS
  Elem,       \* the elements that can be stored
  Capacity    \* how many of them fit

VARIABLES
  buffer,     \* the stored elements, oldest first
  pushed,     \* the outcome of the latest push
  popped      \* the outcome of the latest pop

vars == <<buffer, pushed, popped>>

\* Before the first call of either side there is no outcome.
NoCall == [ok |-> FALSE, elems |-> <<>>]

\* A pop that found the element e; a push that stored e.
Success(e) == [ok |-> TRUE, elems |-> <<e>>]

Outcome == [ok : BOOLEAN, elems : Seq(Elem)]

TypeOK ==
  /\ buffer \in Seq(Elem)
  /\ Len(buffer) <= Capacity
  /\ pushed \in Outcome
  /\ popped \in Outcome

Init ==
  /\ buffer = <<>>
  /\ pushed = NoCall
  /\ popped = NoCall

Push(e) ==
  /\ Len(buffer) < Capacity
  /\ buffer' = Append(buffer, e)
  /\ pushed' = Success(e)
  /\ UNCHANGED popped

PushFull ==
  /\ Len(buffer) = Capacity
  /\ pushed' = NoCall
  /\ UNCHANGED <<buffer, popped>>

Pop ==
  /\ buffer # <<>>
  /\ buffer' = Tail(buffer)
  /\ popped' = Success(Head(buffer))
  /\ UNCHANGED pushed

PopEmpty ==
  /\ buffer = <<>>
  /\ popped' = NoCall
  /\ UNCHANGED <<buffer, pushed>>

Next ==
  \/ \E e \in Elem : Push(e)
  \/ PushFull
  \/ Pop
  \/ PopEmpty

Spec == Init /\ [][Next]_vars
=============================================================================
