-------------------------- MODULE EliminationTest ---------------------------
(***************************************************************************)
(* testone with the elimination stack.                                     *)
(***************************************************************************)
EXTENDS EliminationStack, TestOne, TLC

vars == <<harnessVars, linkVars, elimVars, reg>>

Init == HarnessInit /\ OneInit /\ StackInit

\* n = new Node((tid*10000) + i)
Allocate(t) == (\E n \in Nodes : New(t, n)) /\ UNCHANGED <<elimVars, reg>>

Worker(t) ==
  \/ OneWorkerStep(t) /\ UNCHANGED <<linkVars, elimVars>>
  \/ Allocate(t)
  \/ (Push(t) \/ Pop(t) \/ Visit(t)) /\ UNCHANGED reg

\* main() keeps the nodes it pops.  It is alone by then and gets each of them
\* at once, without a visit to the array.
MainThread ==
  \/ (MainStep \/ CountLeftover) /\ UNCHANGED <<linkVars, elimVars, reg>>
  \/ Pop(Main) /\ UNCHANGED reg

Next ==
  \/ MainThread
  \/ \E t \in Workers : Worker(t)
  \/ \E t, u \in Workers : t < u /\ Meet(t, u) /\ UNCHANGED reg
  \/ Exited /\ UNCHANGED vars

Spec == Init /\ [][Next]_vars

\* Every thread is scheduled again and again, and a worker that draws again and
\* again between a push and a pop draws a push in the end.
FairSpec ==
  /\ Spec
  /\ WF_vars(MainThread)
  /\ \A t \in Workers : WF_vars(Worker(t)) /\ SF_vars(Allocate(t))

-----------------------------------------------------------------------------

\* The nodes are addresses, which the program only compares.
Symmetry == Permutations(Nodes)

\* With MaxRange = 0 there is one exchanger to draw, whatever the range is, so
\* states that differ in the range alone need not be told apart.
View == <<harnessVars, linkVars, cur, slot, reg>>

TypeOK ==
  /\ HarnessTypeOK(OnePoints \cup OpPoints)
  /\ LinkTypeOK
  /\ reg \in [Workers -> Nat]
  /\ cur \in [Actors -> Nodes \cup {NULL}]
  /\ range \in [Actors -> 0 .. IntSpan - 1]
  /\ slot \in [Actors -> 0 .. MaxRange]

\* Whoever meets whom in the elimination array: push() and pop() act on one
\* stack, or on each other.  A pop() that says so found the stack empty.
Stack == INSTANCE TradingStack WITH pc <- [a \in Actors |-> OpPoint(a)]
ImplementsStack == Stack!SpecOne
=============================================================================
