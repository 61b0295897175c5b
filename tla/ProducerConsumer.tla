-------------------------- MODULE ProducerConsumer --------------------------
(***************************************************************************)
(* Part 3 of project1: one producer and one consumer on a ring of items,   *)
(* with a mutex and one condition variable (LockQueue) or without any      *)
(* synchronisation (LockFreeQueue), run one after the other by main().     *)
(*                                                                         *)
(* Each index is written by one of the two threads.  The processors the    *)
(* program runs on keep the order of stores and of loads, and items may    *)
(* alias an index, so the compiler keeps it, too.                          *)
(*                                                                         *)
(* POSIX lets pthread_cond_wait() return without a signal (WakeUp), and    *)
(* the queue does not test again: what LockQueue promises, it promises     *)
(* while that has not happened.                                            *)
(***************************************************************************)
EXTENDS Integers, Sequences

CONSTANTS
  NumItems,       \* n
  Capacity,       \* m; with 0 a queue is full and empty at once
  NONE

Roles == {"producer", "consumer"}
Kinds == {"lock", "lockfree"}

ASSUME ProducerConsumerAssumption ==
  /\ NumItems \in Nat
  /\ Capacity \in Nat \ {0}
  /\ NONE \notin Nat \cup Roles \cup Kinds

VARIABLES
  todo,           \* the queues that main() has still to run
  q,              \* params.q: the kind of the queue, or NONE
  head_, tail_, items,
  holder,         \* who holds lock_
  at,             \* where the two threads are
  calls,          \* their loop variable
  x,              \* the item that dequeue() has read
  received,       \* history: the items that dequeue() has returned
  unsignalled     \* history: who has been woken without a signal

queueVars ==
  <<todo, q, head_, tail_, items, holder, at, calls, x, received, unsignalled>>

\* new T[capacity] leaves the items as they are.
NewQueue ==
  /\ head_' = 0 /\ tail_' = 0
  /\ items' = [k \in 0 .. Capacity - 1 |-> NONE]
  /\ received' = << >>
  /\ unsignalled' = {}

QueueInit(kinds) ==
  /\ todo = kinds
  /\ q = NONE
  /\ head_ = 0 /\ tail_ = 0
  /\ items = [k \in 0 .. Capacity - 1 |-> NONE]
  /\ holder = NONE
  /\ at = [r \in Roles |-> "done"]
  /\ calls = [r \in Roles |-> 0]
  /\ x = NONE
  /\ received = << >>
  /\ unsignalled = {}

-----------------------------------------------------------------------------
(* main() *)

Begin(n) == IF n < NumItems THEN "call" ELSE "done"

\* params.q = new ...; both threads are created.
RunQueue ==
  /\ q = NONE /\ todo # << >>
  /\ q' = Head(todo)
  /\ todo' = Tail(todo)
  /\ NewQueue
  /\ calls' = [r \in Roles |-> 0]
  /\ at' = [r \in Roles |-> Begin(0)]
  /\ UNCHANGED <<holder, x>>

\* Both have been joined: delete params.q
DeleteQueue ==
  /\ q # NONE
  /\ \A r \in Roles : at[r] = "done"
  /\ q' = NONE
  /\ UNCHANGED <<todo, head_, tail_, items, holder, at, calls, x, received, unsignalled>>

-----------------------------------------------------------------------------
(* What enqueue() and dequeue() do to the ring *)

Moves(r, from, to) == at[r] = from /\ at' = [at EXCEPT ![r] = to]

\* The call has returned: the next iteration of the thread's loop.
CallReturns(r, from) ==
  /\ Moves(r, from, Begin(calls[r] + 1))
  /\ calls' = [calls EXCEPT ![r] = @ + 1]

\* Fault: one item too many.
Full_TooLate == tail_ - head_ > Capacity

Full == tail_ - head_ = Capacity
Nothing == tail_ = head_

\* What the thread waits for the end of, and what the other may be waiting in.
Blocked(r) == IF r = "producer" THEN Full ELSE Nothing
Boundary(r) == IF r = "producer" THEN Nothing ELSE Full

\* items[tail_ % capacity_] = item; or x = items[head_ % capacity_];
Transfer(r) ==
  IF r = "producer"
  THEN items' = [items EXCEPT ![tail_ % Capacity] = calls[r]] /\ UNCHANGED x
  ELSE x' = items[head_ % Capacity] /\ UNCHANGED items

\* tail_++; or head_++; return x;
Advance(r) ==
  IF r = "producer"
  THEN tail_' = tail_ + 1 /\ UNCHANGED <<head_, received, x>>
  ELSE /\ head_' = head_ + 1
       /\ received' = Append(received, x)
       /\ x' = NONE
       /\ UNCHANGED tail_

-----------------------------------------------------------------------------
(* LockQueue *)

Lock(r) ==
  /\ q = "lock" /\ holder = NONE
  /\ Moves(r, "call", IF Blocked(r) THEN "wait" ELSE "signal")
  /\ holder' = r
  /\ UNCHANGED <<todo, q, head_, tail_, items, calls, x, received, unsignalled>>

\* pthread_cond_wait(&cond_, &lock_) goes to sleep ...
Wait(r) ==
  /\ Moves(r, "wait", "asleep")
  /\ holder' = NONE
  /\ UNCHANGED <<todo, q, head_, tail_, items, calls, x, received, unsignalled>>

\* ... returns from its sleep without a signal, ...
WakeUp(r) ==
  /\ Moves(r, "asleep", "woken")
  /\ unsignalled' = unsignalled \cup {r}
  /\ UNCHANGED <<todo, q, head_, tail_, items, holder, calls, x, received>>

\* ... and, signalled or not, takes the mutex again.  The condition is tested with if:
\* it is not tested again.
Resume(r) ==
  /\ holder = NONE
  /\ Moves(r, "woken", "signal")
  /\ holder' = r
  /\ UNCHANGED <<todo, q, head_, tail_, items, calls, x, received, unsignalled>>

\* Fault: the signal is left out.
Signal_Never(r) ==
  /\ Moves(r, "signal", "transfer")
  /\ UNCHANGED <<todo, q, head_, tail_, items, holder, calls, x, received, unsignalled>>

\* if(tail_ == head_) lock.signal(); or if((tail_ - head_) == capacity_) ...:
\* the other thread is the only one that can be asleep.
Signal(r) ==
  /\ at[r] = "signal"
  /\ at' = [s \in Roles |->
              CASE s = r -> "transfer"
                [] s # r /\ Boundary(r) /\ at[s] = "asleep" -> "woken"
                [] OTHER -> at[s]]
  /\ UNCHANGED <<todo, q, head_, tail_, items, holder, calls, x, received, unsignalled>>

LockedTransfer(r) ==
  /\ Moves(r, "transfer", "unlock")
  /\ Transfer(r)
  /\ UNCHANGED <<todo, q, head_, tail_, holder, calls, received, unsignalled>>

Unlock(r) ==
  /\ CallReturns(r, "unlock")
  /\ Advance(r)
  /\ holder' = NONE
  /\ UNCHANGED <<todo, q, items, unsignalled>>

-----------------------------------------------------------------------------
(* LockFreeQueue *)

Spin(r) ==
  /\ q = "lockfree"
  /\ Moves(r, "call", IF Blocked(r) THEN "call" ELSE "access")
  /\ UNCHANGED <<todo, q, head_, tail_, items, holder, calls, x, received, unsignalled>>

Access(r) ==
  /\ Moves(r, "access", "advance")
  /\ Transfer(r)
  /\ UNCHANGED <<todo, q, head_, tail_, holder, calls, received, unsignalled>>

Publish(r) ==
  /\ CallReturns(r, "advance")
  /\ Advance(r)
  /\ UNCHANGED <<todo, q, items, holder, unsignalled>>

-----------------------------------------------------------------------------

QueueMain == RunQueue \/ DeleteQueue

QueueThread(r) ==
  \/ Lock(r) \/ Wait(r) \/ Resume(r) \/ Signal(r) \/ LockedTransfer(r) \/ Unlock(r)
  \/ Spin(r) \/ Access(r) \/ Publish(r)

QueueNext ==
  \/ QueueMain
  \/ \E r \in Roles : QueueThread(r) \/ WakeUp(r)

-----------------------------------------------------------------------------

\* The ring between the two indices is the queue: every item comes out once, in
\* order, and not before it is in its place; none is overwritten.  So it is until
\* a wait returns without a signal, and always without the mutex.
Queue == INSTANCE Fifo WITH
           queue <- [k \in 1 .. tail_ - head_ |-> items[(head_ + k - 1) % Capacity]],
           sent <- tail_
ImplementsFifo ==
  Queue!Empty /\ [][unsignalled' = {} => Queue!Next]_(Queue!vars)

\* The queue never holds more items than its size, the -m of the command line.
SizeKept == tail_ - head_ <= Capacity
=============================================================================
