------------------------------ MODULE TestOne -------------------------------
(***************************************************************************)
(* The harness testone.cpp of project3.  It differs from testtwo in that   *)
(* each worker goes on until it has done a fixed number of operations, and *)
(* in that the workers add to the totals without synchronisation: each     *)
(* addition is a load and a store.                                         *)
(***************************************************************************)
EXTENDS StackTest, Functions

CONSTANT Ops     \* how many operations each worker does (10000)

ASSUME TestOneAssumption == Ops \in Nat \ {0}

VARIABLE reg     \* the register through which a total goes

OneInit == reg = [t \in Workers |-> 0]

OnePoints == WorkPoints \cup {"storepush", "totalpop", "storepop"}

\* for(int i = 0; i < 10000; i++): i is lowered again if there was no node, so
\* it counts what pushcount and popcount count.
i(t) == pushcount[t] + popcount[t]
NextOp(t) == i(t) < Ops /\ StackStep(t, "test", "loop") /\ UNCHANGED reg
LastOp(t) == i(t) = Ops /\ StackStep(t, "test", "total") /\ UNCHANGED reg

\* totalpushcount += pushcount
LoadPushTotal(t) ==
  /\ StackStep(t, "total", "storepush")
  /\ reg' = [reg EXCEPT ![t] = totalpushcount]

StorePushTotal(t) ==
  /\ Goto(t, "storepush", "totalpop")
  /\ totalpushcount' = reg[t] + pushcount[t]
  /\ reg' = [reg EXCEPT ![t] = 0]
  /\ UNCHANGED <<node, timeup, pushcount, popcount, totalpopcount, mypopcount>>

\* totalpopcount += popcount
LoadPopTotal(t) ==
  /\ StackStep(t, "totalpop", "storepop")
  /\ reg' = [reg EXCEPT ![t] = totalpopcount]

StorePopTotal(t) ==
  /\ Goto(t, "storepop", "done")
  /\ totalpopcount' = reg[t] + popcount[t]
  /\ reg' = [reg EXCEPT ![t] = 0]
  /\ UNCHANGED <<node, timeup, pushcount, popcount, totalpushcount, mypopcount>>

\* What a worker does between its operations.
OneWorkerStep(t) ==
  \/ (Start(t) \/ BeginPop(t) \/ CountPush(t) \/ CountPop(t)) /\ UNCHANGED reg
  \/ NextOp(t) \/ LastOp(t)
  \/ LoadPushTotal(t) \/ StorePushTotal(t) \/ LoadPopTotal(t) \/ StorePopTotal(t)

-----------------------------------------------------------------------------

\* When main is done, every push of a worker has been matched by the pop of one
\* node, by a worker or by main, although many of them never reached the stack.
Accounted ==
  pc[Main] = "exit" => SumFunction(pushcount) = SumFunction(popcount) + mypopcount

\* "testone starts the number of threads specified and performs 10000 stack
\* operations": every worker gets its operations done, and the program ends.
OperationsDone == <>(pc[Main] = "exit")
=============================================================================
