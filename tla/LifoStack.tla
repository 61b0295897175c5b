----------------------------- MODULE LifoStack ------------------------------
(***************************************************************************)
(* What the interface class Stack of project3 promises, whichever stack    *)
(* implements it: push() and pop() act as if at once, at some moment of    *)
(* the call, on one last-in-first-out sequence, and pop() returns NULL     *)
(* only if that is empty.                                                  *)
(***************************************************************************)
EXTENDS StackTest, Sequences

VARIABLE contents     \* the nodes on the stack, the top first

vars == <<harnessVars, contents>>

Init == HarnessInit /\ contents = << >>

OnStack == {contents[i] : i \in DOMAIN contents}

\* A node to push is one that is neither on the stack nor in anybody's hands.
Allocate(t) ==
  \E n \in Nodes :
    /\ n \notin OnStack
    /\ \A a \in Actors : node[a] # n
    /\ BeginPush(t, n)
    /\ UNCHANGED contents

Push(a) ==
  /\ PushReturns(a, "push")
  /\ contents' = <<node[a]>> \o contents

Pop(a) ==
  \/ contents # << >> /\ PopReturns(a, "pop", Head(contents))
                      /\ contents' = Tail(contents)
  \/ contents = << >> /\ PopReturns(a, "pop", NULL)
                      /\ UNCHANGED contents

Worker(t) ==
  \/ (Start(t) \/ WorkerStep(t) \/ AddTotals(t, "done")) /\ UNCHANGED contents
  \/ Allocate(t) \/ Push(t) \/ Pop(t)

MainThread ==
  \/ (MainStep \/ CountLeftover) /\ UNCHANGED contents
  \/ Pop(Main)

Next ==
  \/ MainThread
  \/ \E t \in Workers : Worker(t)
  \/ TimeUp /\ UNCHANGED contents
  \/ Exited /\ UNCHANGED vars

Spec == Init /\ [][Next]_vars

TypeOK == HarnessTypeOK(WorkPoints) /\ contents \in Seq(Nodes)
=============================================================================
