---------------------------- MODULE LockFreeTest ----------------------------
(***************************************************************************)
(* testtwo with the lock-free stack, built without USE_GC: a popped node   *)
(* is neither deleted nor used again, so every push brings a node that no  *)
(* other thread has ever seen.                                             *)
(***************************************************************************)
EXTENDS LockFreeStack

vars == <<harnessVars, linkVars, cur, nxt, limit, lim>>

Points == WorkPoints \cup OpPoints

Init == HarnessInit /\ StackInit

\* Every new node has an address of its own, and it does not matter which.
Allocate(t) ==
  /\ free # {}
  /\ New(t, CHOOSE n \in free : TRUE)
  /\ UNCHANGED regVars

Worker(t) ==
  \/ (Start(t) \/ WorkerStep(t) \/ AddTotals(t, "done")) /\ UNCHANGED stackVars
  \/ Allocate(t)
  \/ Push(t) \/ Pop(t)

MainThread ==
  \/ MainStep /\ UNCHANGED stackVars
  \/ DeleteLeftover /\ UNCHANGED regVars
  \/ Pop(Main)

Next ==
  \/ MainThread
  \/ \E t \in Workers : Worker(t)
  \/ TimeUp /\ UNCHANGED stackVars
  \/ Exited /\ UNCHANGED vars

Spec == Init /\ [][Next]_vars

TypeOK == HarnessTypeOK(Points) /\ StackTypeOK

\* LockFreeStack is a stack: push() and pop() happen at the swap that succeeds,
\* or at the look that finds the stack empty.
Stack == INSTANCE LifoStack WITH pc <- [a \in Actors |-> OpPoint(pc[a])]
ImplementsStack == Stack!Spec
=============================================================================
