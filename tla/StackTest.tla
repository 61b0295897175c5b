----------------------------- MODULE StackTest ------------------------------
(***************************************************************************)
(* The harness every stack of project3 runs in: main() and worker() of     *)
(* testtwo.cpp and testCommon() of TestCommon.cpp.                         *)
(*                                                                         *)
(* N workers push new nodes and pop until the clock reaches stoptime; each *)
(* then adds its counts to the totals.  main joins them, pops what is left *)
(* and prints.  main pops through the same code as the workers, so it is   *)
(* an actor like them.                                                     *)
(*                                                                         *)
(* The stack is not part of this module.  A module that EXTENDS it adds    *)
(* the stack's state and the steps that take an actor from pc "push" to    *)
(* "pushed" (a call of push(node)) and from "pop" to "popped" (a call of   *)
(* pop(), which leaves its result in node).                                *)
(***************************************************************************)
EXTENDS Naturals

CONSTANTS
  N,          \* options.numthreads
  Nodes,      \* the addresses Nodes can have
  NULL,
  MaxPushes   \* bound: how often each worker pushes

ASSUME StackTestAssumption ==
  /\ N \in Nat \ {0}
  /\ MaxPushes \in Nat
  /\ NULL \notin Nodes

Workers == 0 .. N-1
Main == N
Actors == 0 .. N

VARIABLES
  pc,          \* where each actor is
  node,        \* n, in worker() and in main()
  timeup,      \* the clock has reached stoptime
  pushcount,   \* of each worker
  popcount,
  totalpushcount,
  totalpopcount,
  mypopcount   \* of main

harnessVars == <<pc, node, timeup, pushcount, popcount,
                 totalpushcount, totalpopcount, mypopcount>>
countVars == <<timeup, pushcount, popcount,
               totalpushcount, totalpopcount, mypopcount>>

HarnessInit ==
  /\ pc = [a \in Actors |-> IF a = Main THEN "join" ELSE "start"]
  /\ node = [a \in Actors |-> NULL]
  /\ timeup = FALSE
  /\ pushcount = [t \in Workers |-> 0]
  /\ popcount = [t \in Workers |-> 0]
  /\ totalpushcount = 0
  /\ totalpopcount = 0
  /\ mypopcount = 0

-----------------------------------------------------------------------------

\* The process runs until main returns or a thread calls _exit(), which only
\* the garbage collector does.
Running == pc[Main] \notin {"exit", "aborted"}

Goto(a, from, to) ==
  /\ Running
  /\ pc[a] = from
  /\ pc' = [pc EXCEPT ![a] = to]

\* A step of a stack that stays inside push() or pop().
StackStep(a, from, to) ==
  /\ Goto(a, from, to)
  /\ UNCHANGED <<node, countVars>>

\* The last step of push(): the node is the stack's now.
PushReturns(a, from) ==
  /\ Goto(a, from, "pushed")
  /\ node' = [node EXCEPT ![a] = NULL]
  /\ UNCHANGED countVars

\* The last step of pop().
PopReturns(a, from, n) ==
  /\ Goto(a, from, "popped")
  /\ node' = [node EXCEPT ![a] = n]
  /\ UNCHANGED countVars

\* The clock reaches stoptime, which testCommon() sets once all workers have
\* been created.
TimeUp ==
  /\ Running
  /\ ~timeup
  /\ timeup' = TRUE
  /\ UNCHANGED <<pc, node, pushcount, popcount,
                 totalpushcount, totalpopcount, mypopcount>>

-----------------------------------------------------------------------------
(* worker() *)

\* The worker has waited for starttime.
Start(t) == StackStep(t, "start", "loop")

\* zeroone() < 0.5: push the new node n.
BeginPush(t, n) ==
  /\ pushcount[t] < MaxPushes
  /\ Goto(t, "loop", "push")
  /\ node' = [node EXCEPT ![t] = n]
  /\ UNCHANGED countVars

BeginPop(t) == StackStep(t, "loop", "pop")

\* pushcount++
CountPush(t) ==
  /\ Goto(t, "pushed", "test")
  /\ pushcount' = [pushcount EXCEPT ![t] = @ + 1]
  /\ UNCHANGED <<node, timeup, popcount, totalpushcount, totalpopcount, mypopcount>>

\* Fault: a pop that finds nothing counts.
CountPop_Always(t) ==
  /\ Goto(t, "popped", "test")
  /\ node' = [node EXCEPT ![t] = NULL]
  /\ popcount' = [popcount EXCEPT ![t] = @ + 1]
  /\ UNCHANGED <<timeup, pushcount, totalpushcount, totalpopcount, mypopcount>>

\* popcount++, if there was a node
CountPop(t) ==
  /\ Goto(t, "popped", "test")
  /\ node' = [node EXCEPT ![t] = NULL]
  /\ popcount' = [popcount EXCEPT ![t] = IF node[t] = NULL THEN @ ELSE @ + 1]
  /\ UNCHANGED <<timeup, pushcount, totalpushcount, totalpopcount, mypopcount>>

\* while(current < *stoptime)
Again(t) == ~timeup /\ StackStep(t, "test", "loop")
Leave(t) == timeup /\ StackStep(t, "test", "total")

\* The two __sync_fetch_and_add(); nobody reads the totals before the join.
AddTotals(t, to) ==
  /\ Goto(t, "total", to)
  /\ totalpushcount' = totalpushcount + pushcount[t]
  /\ totalpopcount' = totalpopcount + popcount[t]
  /\ UNCHANGED <<node, timeup, pushcount, popcount, mypopcount>>

WorkerStep(t) ==
  BeginPop(t) \/ CountPush(t) \/ CountPop(t) \/ Again(t) \/ Leave(t)

-----------------------------------------------------------------------------
(* main() *)

\* Every pthread_join() has returned.
Join ==
  /\ \A t \in Workers : pc[t] = "done"
  /\ StackStep(Main, "join", "pop")

\* while((n = globalstack->pop()) != NULL) { mypopcount++; delete n; }
CountLeftover ==
  /\ node[Main] # NULL
  /\ Goto(Main, "popped", "pop")
  /\ node' = [node EXCEPT ![Main] = NULL]
  /\ mypopcount' = mypopcount + 1
  /\ UNCHANGED <<timeup, pushcount, popcount, totalpushcount, totalpopcount>>

PrintTotals ==
  /\ node[Main] = NULL
  /\ StackStep(Main, "popped", "exit")

MainStep == Join \/ PrintTotals

\* The process has ended; nothing happens any more.
Exited == ~Running

-----------------------------------------------------------------------------
(* What the harness is for *)

HarnessTypeOK(Points) ==
  /\ pc \in [Actors -> Points]
  /\ node \in [Actors -> Nodes \cup {NULL}]
  /\ timeup \in BOOLEAN
  /\ pushcount \in [Workers -> Nat]
  /\ popcount \in [Workers -> Nat]
  /\ totalpushcount \in Nat
  /\ totalpopcount \in Nat
  /\ mypopcount \in Nat

WorkPoints == {"start", "loop", "push", "pushed", "pop", "popped", "test",
               "total", "done", "join", "exit"}

\* "%lu pushed, %lu popped, %lu leftover": when main prints, every node that
\* was pushed has been popped, by a worker or by main, once.
Balanced ==
  pc[Main] = "exit" => totalpushcount = totalpopcount + mypopcount

\* "SECONDS determines how long the test runs": once the time is up the
\* program comes to its end.
Terminates == <>(pc[Main] = "exit")
=============================================================================
