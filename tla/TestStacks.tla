----------------------------- MODULE TestStacks -----------------------------
(***************************************************************************)
(* testtwo as a whole, built without USE_GC: testCommon() makes the stack  *)
(* that the command line asks for, and the harness runs it.                *)
(***************************************************************************)
EXTENDS LinkedStack

CONSTANT LimitModulus     \* of LockFreeStack

ASSUME TestStacksAssumption == LimitModulus \in Nat \ {0}

VARIABLES
  stacktype,              \* options.stacktype
  owner,                  \* of LockStack
  cur, nxt, limit, lim    \* of LockFreeStack

freeVars == <<cur, nxt, limit, lim>>
stackVars == <<linkVars, owner, cur, nxt, limit, lim>>
vars == <<harnessVars, stacktype, stackVars>>

Lock == INSTANCE LockStack
LockFree == INSTANCE LockFreeTest

\* The variables of the stack that is not made.
NoLockFree ==
  /\ cur = [a \in Actors |-> NULL]
  /\ nxt = [a \in Actors |-> NULL]
  /\ limit = 1
  /\ lim = [a \in Actors |-> 0]

\* The switch in testCommon()
Init ==
  \/ stacktype = "LOCK" /\ Lock!Init /\ NoLockFree
  \/ stacktype = "LOCKFREE" /\ LockFree!Init /\ owner = {}

MainThread ==
  /\ \/ stacktype = "LOCK" /\ Lock!MainThread /\ UNCHANGED freeVars
     \/ stacktype = "LOCKFREE" /\ LockFree!MainThread /\ UNCHANGED owner
  /\ UNCHANGED stacktype

Worker(t) ==
  /\ \/ stacktype = "LOCK" /\ Lock!Worker(t) /\ UNCHANGED freeVars
     \/ stacktype = "LOCKFREE" /\ LockFree!Worker(t) /\ UNCHANGED owner
  /\ UNCHANGED stacktype

Clock == TimeUp /\ UNCHANGED <<stacktype, stackVars>>

Next ==
  \/ MainThread
  \/ \E t \in Workers : Worker(t)
  \/ Clock
  \/ Exited /\ UNCHANGED vars

Spec == Init /\ [][Next]_vars

\* Every thread is scheduled again and again, and time passes.  Nothing is
\* assumed about who gets the mutex, and a thread may lose every
\* compare-and-swap for as long as other threads win theirs.
FairSpec ==
  /\ Spec
  /\ WF_vars(MainThread)
  /\ \A t \in Workers : WF_vars(Worker(t))
  /\ WF_vars(Clock)

-----------------------------------------------------------------------------

TypeOK ==
  \/ stacktype = "LOCK" /\ Lock!TypeOK
  \/ stacktype = "LOCKFREE" /\ LockFree!TypeOK

\* "1 <= limit <= 512" (LockFreeStack.cpp), whatever the threads do to limit.
LimitRange == stacktype = "LOCKFREE" => LockFree!LimitRange

\* Whichever the stack is, it is a stack.
Stack == INSTANCE LifoStack WITH
           pc <- [a \in Actors |-> IF stacktype = "LOCK"
                                   THEN Lock!StackPoint(pc[a])
                                   ELSE LockFree!OpPoint(pc[a])],
           node <- [a \in Actors |-> IF stacktype = "LOCK"
                                     THEN Lock!StackNode(a)
                                     ELSE node[a]]
ImplementsStack == Stack!Spec
=============================================================================
