----------------------------- MODULE SecondTest -----------------------------
(***************************************************************************)
(* second_test of project2: for some seconds every thread increments the   *)
(* counter under the lock, counts how often it did and how long it had to  *)
(* wait.  main() compares the counter with the sum of the threads' counts. *)
(* The lock is any mutex, as all locks of project2 are (ImplementsMutex).  *)
(*                                                                         *)
(* A time is the number of its nanoseconds, NSEC_SEC of which make a       *)
(* second; the program sees it as a timespec.  The clock, CLOCK_REALTIME,  *)
(* may be set back once while the program runs.                            *)
(***************************************************************************)
EXTENDS Integers, Functions

CONSTANTS
  NumThreads,   \* carg->num_threads
  NOBODY,
  NSEC_SEC,     \* 1000000000
  MaxElapsed,   \* bound on the time
  MaxRounds     \* bound: the increments of a thread before the end of the test

Testers == 0 .. NumThreads - 1

VARIABLES
  main,         \* where main() is: "create", "join", "report" or "exit"
  created,      \* how many threads it has created
  pc,           \* where each thread is
  lock1, lock2, \* the times it has read
  tcounters, tnsecs,
  owner,        \* who holds the lock
  counter,
  reg,          \* the register of counter++
  elapsed,      \* the time since the program was started
  setback,      \* by how much the clock has been set back
  retval

mainVars == <<main, created, retval>>
workVars == <<pc, lock1, lock2, tcounters, tnsecs, owner, counter, reg>>
clockVars == <<elapsed, setback>>
testVars == <<mainVars, workVars, clockVars>>

-----------------------------------------------------------------------------
(* Time *)

timespec(time) == [tv_sec |-> time \div NSEC_SEC, tv_nsec |-> time % NSEC_SEC]

ts_lt(a, b) ==
  \/ a.tv_sec < b.tv_sec
  \/ a.tv_sec = b.tv_sec /\ a.tv_nsec < b.tv_nsec

\* Fault: nothing is borrowed from the seconds.
ts_sub_NoBorrow(x, y) ==
  LET borrow == x.tv_nsec < y.tv_nsec
      nsec == x.tv_nsec - y.tv_nsec + (IF borrow THEN NSEC_SEC ELSE 0)
      difference == nsec + (x.tv_sec - y.tv_sec) * NSEC_SEC
  IN  IF difference < 0 THEN 0 ELSE difference

\* The difference in nanoseconds; a negative one is reported and counts 0.
ts_sub(x, y) ==
  LET borrow == x.tv_nsec < y.tv_nsec
      nsec == x.tv_nsec - y.tv_nsec + (IF borrow THEN NSEC_SEC ELSE 0)
      second == x.tv_sec - y.tv_sec - (IF borrow THEN 1 ELSE 0)
      difference == nsec + second * NSEC_SEC
  IN  IF difference < 0 THEN 0 ELSE difference

\* main() is started in the middle of a second, has the threads start one
\* second later and (num_seconds = 1) stop after another one.
Started == 1
start == timespec(Started + NSEC_SEC)
stop == timespec(Started + 2 * NSEC_SEC)

now == Started + elapsed - setback
clock_gettime == timespec(now)

Tick ==
  /\ elapsed < MaxElapsed
  /\ elapsed' = elapsed + 1
  /\ UNCHANGED <<mainVars, workVars, setback>>

SetBack ==
  /\ setback = 0 /\ elapsed > 0
  /\ setback' = 1
  /\ UNCHANGED <<mainVars, workVars, elapsed>>

-----------------------------------------------------------------------------
(* main(), and test_common() that it calls *)

TestInit ==
  /\ main = "create" /\ created = 0 /\ retval = 0
  /\ pc = [t \in Testers |-> "wait"]
  /\ lock1 = [t \in Testers |-> 0] /\ lock2 = lock1
  /\ tcounters = [t \in Testers |-> 0] /\ tnsecs = tcounters
  /\ owner = NOBODY /\ counter = 0 /\ reg = [t \in Testers |-> 0]
  /\ elapsed = 0 /\ setback = 0

CreateTester ==
  /\ main = "create"
  /\ created' = created + 1
  /\ main' = IF created' = NumThreads THEN "join" ELSE "create"
  /\ UNCHANGED <<workVars, clockVars, retval>>

\* test_common() returns at once when a thread cannot be created, and main()
\* goes on with the threads that run.
CreateTesterFails ==
  /\ main = "create"
  /\ main' = "report"
  /\ UNCHANGED <<workVars, clockVars, created, retval>>

JoinTesters ==
  /\ main = "join"
  /\ \A t \in Testers : pc[t] = "done"
  /\ main' = "report"
  /\ UNCHANGED <<workVars, clockVars, created, retval>>

\* if(test != counter): a sum that races with threads may be any.
Report ==
  /\ main = "report"
  /\ LET test == FoldFunction(+, 0, tcounters)
     IN  IF created = NumThreads THEN retval' = (IF test # counter THEN 1 ELSE 0)
                                 ELSE retval' \in {0, 1}
  /\ main' = "exit"
  /\ UNCHANGED <<workVars, clockVars, created>>

-----------------------------------------------------------------------------
(* worker_thread() *)

Goes(t, from, to) ==
  /\ main # "exit" /\ t < created
  /\ pc[t] = from
  /\ pc' = [pc EXCEPT ![t] = to]
  /\ UNCHANGED <<mainVars, clockVars>>

\* The clock is read until the test starts.
StartTest(t) ==
  /\ ~ts_lt(clock_gettime, start)
  /\ Goes(t, "wait", "loop")
  /\ lock2' = [lock2 EXCEPT ![t] = now]
  /\ UNCHANGED <<lock1, tcounters, tnsecs, owner, counter, reg>>

CallLock(t) ==
  /\ ts_lt(timespec(lock2[t]), stop)
  /\ tcounters[t] < MaxRounds \/ ~ts_lt(clock_gettime, stop)
  /\ Goes(t, "loop", "lock")
  /\ lock1' = [lock1 EXCEPT ![t] = now]
  /\ UNCHANGED <<lock2, tcounters, tnsecs, owner, counter, reg>>

StopTest(t) ==
  /\ ~ts_lt(timespec(lock2[t]), stop)
  /\ Goes(t, "loop", "done")
  /\ UNCHANGED <<lock1, lock2, tcounters, tnsecs, owner, counter, reg>>

LockReturns(t) ==
  /\ owner = NOBODY
  /\ Goes(t, "lock", "cs")
  /\ owner' = t
  /\ UNCHANGED <<lock1, lock2, tcounters, tnsecs, counter, reg>>

\* clock_gettime(CLOCK_REALTIME, &lock2), and the load of counter++
ReadClock(t) ==
  /\ Goes(t, "cs", "store")
  /\ lock2' = [lock2 EXCEPT ![t] = now]
  /\ reg' = [reg EXCEPT ![t] = counter]
  /\ UNCHANGED <<lock1, tcounters, tnsecs, owner, counter>>

\* The store of counter++, and unlock()
Unlock(t) ==
  /\ Goes(t, "store", "count")
  /\ counter' = reg[t] + 1
  /\ reg' = [reg EXCEPT ![t] = 0]
  /\ owner' = NOBODY
  /\ UNCHANGED <<lock1, lock2, tcounters, tnsecs>>

Count(t) ==
  /\ Goes(t, "count", "loop")
  /\ tcounters' = [tcounters EXCEPT ![t] = @ + 1]
  /\ tnsecs' = [tnsecs EXCEPT ![t] = @ + ts_sub(timespec(lock2[t]), timespec(lock1[t]))]
  /\ lock1' = [lock1 EXCEPT ![t] = 0]
  /\ UNCHANGED <<lock2, owner, counter, reg>>

-----------------------------------------------------------------------------

TestMain == CreateTester \/ JoinTesters \/ Report

Tester(t) ==
  \/ StartTest(t) \/ StopTest(t)
  \/ CallLock(t) \/ LockReturns(t) \/ ReadClock(t) \/ Unlock(t) \/ Count(t)

TestNext ==
  \/ TestMain \/ CreateTesterFails
  \/ \E t \in Testers : Tester(t)
  \/ Tick \/ SetBack

\* When all threads have been created, second_test's own check succeeds: every
\* increment of the counter has been counted by a thread.  And no thread can
\* have waited longer than the program has run, even if the clock is set back
\* between the two readings.
TalliesAgree ==
  /\ main = "exit" /\ created = NumThreads => retval = 0
  /\ \A t \in Testers : tnsecs[t] <= elapsed
=============================================================================
