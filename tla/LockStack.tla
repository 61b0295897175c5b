----------------------------- MODULE LockStack ------------------------------
(***************************************************************************)
(* The stack with a mutex of project3/LockStack.cpp, run by testtwo.       *)
(***************************************************************************)
EXTENDS LinkedStack

VARIABLE owner     \* of the pthread mutex: at most one actor

vars == <<harnessVars, linkVars, owner>>

Points == WorkPoints \cup {"pushlink", "pushhead", "pushunlock",
                           "pophead", "popunlock"}

\* LockStack::LockStack()
Init == HarnessInit /\ LinkInit /\ owner = {}

\* Fault: pthread_mutex_lock() without waiting.
Lock_Always(a, from, to) ==
  /\ owner' = {a}
  /\ StackStep(a, from, to)
  /\ UNCHANGED linkVars

\* pthread_mutex_lock(&mutex)
Lock(a, from, to) ==
  /\ owner = {}
  /\ owner' = {a}
  /\ StackStep(a, from, to)
  /\ UNCHANGED linkVars

\* node->next = head;
PushLink(a) ==
  /\ StackStep(a, "pushlink", "pushhead")
  /\ next' = [next EXCEPT ![node[a]] = head]
  /\ UNCHANGED <<head, free, contents, owner>>

\* head = node;
PushHead(a) ==
  /\ StackStep(a, "pushhead", "pushunlock")
  /\ head' = node[a]
  /\ contents' = <<node[a]>> \o contents
  /\ UNCHANGED <<next, free, owner>>

\* pthread_mutex_unlock(&mutex), and push() returns.
PushUnlock(a) ==
  /\ PushReturns(a, "pushunlock")
  /\ owner' = {}
  /\ UNCHANGED linkVars

\* if(head != NULL) { node = head; head = head->next; }
PopHead(a) ==
  /\ Goto(a, "pophead", "popunlock")
  /\ node' = [node EXCEPT ![a] = head]
  /\ \/ head # NULL /\ head' = next[head] /\ contents' = Tail(contents)
     \/ head = NULL /\ UNCHANGED <<head, contents>>
  /\ UNCHANGED <<countVars, next, free, owner>>

PopUnlock(a) ==
  /\ StackStep(a, "popunlock", "popped")
  /\ owner' = {}
  /\ UNCHANGED linkVars

StackOp(a) ==
  \/ Lock(a, "push", "pushlink") \/ PushLink(a) \/ PushHead(a) \/ PushUnlock(a)
  \/ Lock(a, "pop", "pophead") \/ PopHead(a) \/ PopUnlock(a)

\* This build never deletes a node while the workers run: every new node has
\* an address of its own, and it does not matter which.
Allocate(t) ==
  /\ free # {}
  /\ New(t, CHOOSE n \in free : TRUE)
  /\ UNCHANGED owner

Worker(t) ==
  \/ (Start(t) \/ WorkerStep(t) \/ AddTotals(t, "done")) /\ UNCHANGED <<linkVars, owner>>
  \/ Allocate(t)
  \/ StackOp(t)

MainThread ==
  \/ MainStep /\ UNCHANGED <<linkVars, owner>>
  \/ DeleteLeftover /\ UNCHANGED owner
  \/ StackOp(Main)

Next ==
  \/ MainThread
  \/ \E t \in Workers : Worker(t)
  \/ TimeUp /\ UNCHANGED <<linkVars, owner>>
  \/ Exited /\ UNCHANGED vars

Spec == Init /\ [][Next]_vars

-----------------------------------------------------------------------------

TypeOK ==
  /\ HarnessTypeOK(Points)
  /\ LinkTypeOK
  /\ owner \in SUBSET Actors

\* LockStack is a stack: push() and pop() happen when head changes hands, and
\* what is left of the call is only to return.
StackPoint(p) ==
  CASE p \in {"pushlink", "pushhead"} -> "push"
    [] p = "pushunlock" -> "pushed"
    [] p = "pophead" -> "pop"
    [] p = "popunlock" -> "popped"
    [] OTHER -> p
StackNode(a) == IF pc[a] = "pushunlock" THEN NULL ELSE node[a]

Stack == INSTANCE LifoStack WITH
           pc <- [a \in Actors |-> StackPoint(pc[a])],
           node <- [a \in Actors |-> StackNode(a)]
ImplementsStack == Stack!Spec
=============================================================================
