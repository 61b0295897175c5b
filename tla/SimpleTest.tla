----------------------------- MODULE SimpleTest -----------------------------
(***************************************************************************)
(* The harness every lock of project2 runs in: main() and worker_thread()  *)
(* of simple_test.cpp and test_common() of test_common.cpp.                *)
(*                                                                         *)
(* main creates N threads in order, joins them in order, deletes the lock  *)
(* and prints the counter; each thread runs Iters times                    *)
(*                                                                         *)
(*       lock->lock();  counter++;  lock->unlock();                        *)
(*                                                                         *)
(* The lock is not part of this module.  A module that EXTENDS it adds the *)
(* lock's own state and the steps that take a thread from pc "lock" to     *)
(* "cs" (a call of lock()) and from "unlock" back to "loop" (a call of     *)
(* unlock()).  counter++ compiles to a load and a store that other threads *)
(* may come between, so it is two steps.                                   *)
(***************************************************************************)
EXTENDS Naturals

CONSTANTS
  N,        \* carg->num_threads
  Iters     \* iterations of each worker (10000 in simple_test.cpp)

ASSUME SimpleTestAssumption == N \in Nat \ {0} /\ Iters \in Nat

Threads == 0 .. N-1     \* arg->tnum

VARIABLES
  main,       \* where the main thread is: "run", "print" or "exit"
  created,    \* how many threads pthread_create() has started
  joined,     \* how many threads pthread_join() has waited for
  lockAlive,  \* testLock has not been deleted yet
  printed,    \* the values main has printed (none or one)
  pc,         \* where each worker is
  iter,       \* i, the worker's loop counter
  reg,        \* the register counter++ goes through
  counter     \* the shared counter

mainVars == <<main, created, joined, lockAlive, printed>>
workVars == <<iter, reg, counter>>
harnessVars == <<main, created, joined, lockAlive, printed, pc, iter, reg, counter>>

HarnessInit ==
  /\ main = "run"
  /\ created = 0
  /\ joined = 0
  /\ lockAlive = TRUE
  /\ printed = {}
  /\ pc = [t \in Threads |-> "unborn"]
  /\ iter = [t \in Threads |-> 0]
  /\ reg = [t \in Threads |-> 0]
  /\ counter = 0

-----------------------------------------------------------------------------
(* The main thread *)

\* pthread_create() starts the next thread.
Create ==
  /\ main = "run"
  /\ created < N
  /\ created' = created + 1
  /\ pc' = [pc EXCEPT ![created] = "loop"]
  /\ UNCHANGED <<main, joined, lockAlive, printed, workVars>>

\* pthread_create() fails: test_common() returns -1 at once, neither joining
\* the threads already started nor deleting the lock.
CreateFails ==
  /\ main = "run"
  /\ created < N
  /\ main' = "print"
  /\ UNCHANGED <<created, joined, lockAlive, printed, pc, workVars>>

\* Fault: the threads are counted, not waited for.
Join_WithoutWaiting ==
  /\ main = "run"
  /\ created = N
  /\ joined < N
  /\ joined' = joined + 1
  /\ UNCHANGED <<main, created, lockAlive, printed, pc, workVars>>

\* Fault: the loop stops before the last thread (i < num_threads - 1).
Join_LastLeftOut ==
  /\ main = "run"
  /\ created = N
  /\ joined < N - 1
  /\ pc[joined] = "done"
  /\ joined' = joined + 1
  /\ UNCHANGED <<main, created, lockAlive, printed, pc, workVars>>

\* pthread_join(v[joined]) returns once that thread has.
Join ==
  /\ main = "run"
  /\ created = N
  /\ joined < N
  /\ pc[joined] = "done"
  /\ joined' = joined + 1
  /\ UNCHANGED <<main, created, lockAlive, printed, pc, workVars>>

DeleteLock ==
  /\ main = "run"
  /\ joined = N
  /\ lockAlive' = FALSE
  /\ main' = "print"
  /\ UNCHANGED <<created, joined, printed, pc, workVars>>

\* main prints the counter and returns, which ends the process and with it
\* every thread that is still running.
PrintCounter ==
  /\ main = "print"
  /\ printed' = {counter}
  /\ main' = "exit"
  /\ UNCHANGED <<created, joined, lockAlive, pc, workVars>>

MainStep == Create \/ CreateFails \/ Join \/ DeleteLock \/ PrintCounter

-----------------------------------------------------------------------------
(* The workers, outside lock() and unlock() *)

\* Thread t goes from one point of the program to the next; it can as long as
\* the process exists.
Goto(t, from, to) ==
  /\ main # "exit"
  /\ pc[t] = from
  /\ pc' = [pc EXCEPT ![t] = to]

CallLock(t) ==
  /\ iter[t] < Iters
  /\ Goto(t, "loop", "lock")
  /\ UNCHANGED <<mainVars, workVars>>

\* Fault: a thread leaves its loop one iteration early.
Finish_Early(t) ==
  /\ iter[t] + 1 >= Iters
  /\ Goto(t, "loop", "done")
  /\ UNCHANGED <<mainVars, workVars>>

Finish(t) ==
  /\ iter[t] >= Iters
  /\ Goto(t, "loop", "done")
  /\ UNCHANGED <<mainVars, workVars>>

ReadCounter(t) ==
  /\ Goto(t, "cs", "store")
  /\ reg' = [reg EXCEPT ![t] = counter]
  /\ UNCHANGED <<mainVars, iter, counter>>

WriteCounter(t) ==
  /\ Goto(t, "store", "unlock")
  /\ counter' = reg[t] + 1
  /\ UNCHANGED <<mainVars, iter, reg>>

WorkStep(t) == CallLock(t) \/ Finish(t) \/ ReadCounter(t) \/ WriteCounter(t)

\* A step of a lock that stays inside lock() or unlock().
LockStep(t, from, to) ==
  /\ Goto(t, from, to)
  /\ UNCHANGED <<mainVars, workVars>>

\* The last step of unlock(): the worker goes round its loop (i++).
UnlockReturns(t, from) ==
  /\ Goto(t, from, "loop")
  /\ iter' = [iter EXCEPT ![t] = @ + 1]
  /\ UNCHANGED <<mainVars, reg, counter>>

\* The process has exited; nothing happens any more.
Exited == main = "exit"

-----------------------------------------------------------------------------
(* What the harness is for *)

\* Type of the harness' variables; Points is the set of program points of
\* the lock that is being run.
HarnessTypeOK(Points) ==
  /\ main \in {"run", "print", "exit"}
  /\ created \in 0 .. N
  /\ joined \in 0 .. N
  /\ lockAlive \in BOOLEAN
  /\ printed \in SUBSET Nat
  /\ pc \in [Threads -> Points]
  /\ iter \in [Threads -> Nat]
  /\ reg \in [Threads -> Nat]
  /\ counter \in Nat

WorkPoints == {"unborn", "loop", "lock", "cs", "store", "unlock", "done"}

\* "This program spawns <num_threads> and each thread increments a counter to
\* 10000" (project2/README): when every thread was created, what main prints
\* is the number of all the increments asked for.
ReportExact == (created = N /\ printed # {}) => printed = {N * Iters}

\* test_common() deletes the lock only after every thread that may use it
\* has returned.
NoUseAfterDelete == ~lockAlive => \A t \in Threads : pc[t] = "done"

\* The program ends (given a fair scheduler and a lock that lets threads in).
Terminates == <>(main = "exit")
=============================================================================
