-------------------------------- MODULE Fifo --------------------------------
(***************************************************************************)
(* What a queue of project1 part 3 promises its producer and its consumer: *)
(* the items 0, 1, 2, ... come out as they went in, the queue never holds  *)
(* more than its capacity, and it is deleted when it is not needed more.   *)
(***************************************************************************)
EXTENDS Naturals, Sequences

CONSTANTS
  NumItems,   \* n
  Capacity    \* m

VARIABLES
  queue,      \* the items in the queue
  sent,       \* how many items have gone in
  received    \* the items that have come out

vars == <<queue, sent, received>>

Empty == queue = << >> /\ sent = 0 /\ received = << >>

Enqueue ==
  /\ sent < NumItems
  /\ Len(queue) < Capacity
  /\ queue' = Append(queue, sent)
  /\ sent' = sent + 1
  /\ UNCHANGED received

Dequeue ==
  /\ queue # << >>
  /\ received' = Append(received, Head(queue))
  /\ queue' = Tail(queue)
  /\ UNCHANGED sent

\* The next queue takes the place of one that has done its work.
Renew ==
  /\ Len(received) = NumItems
  /\ queue' = << >> /\ sent' = 0 /\ received' = << >>

Next == Enqueue \/ Dequeue \/ Renew

Spec == Empty /\ [][Next]_vars
=============================================================================
