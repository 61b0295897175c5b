---------------------------- MODULE PThreadLock -----------------------------
(***************************************************************************)
(* project2/PThreadLock.cpp, run by simple_test: lock() and unlock() are   *)
(* pthread_mutex_lock() and pthread_mutex_unlock() on one mutex, which is  *)
(* external: how a thread waits for it is not the business of this code.   *)
(***************************************************************************)
EXTENDS SimpleTest

VARIABLE owner     \* of the pthread_mutex_t: at most one thread

vars == <<harnessVars, owner>>

Init == HarnessInit /\ owner = {}

\* pthread_mutex_lock()
MutexLock(t) ==
  /\ owner = {}
  /\ owner' = {t}
  /\ LockStep(t, "lock", "cs")

\* pthread_mutex_unlock()
MutexUnlock(t) ==
  /\ owner' = {}
  /\ UnlockReturns(t, "unlock")

Worker(t) ==
  \/ WorkStep(t) /\ UNCHANGED owner
  \/ MutexLock(t) \/ MutexUnlock(t)

Next ==
  \/ MainStep /\ UNCHANGED owner
  \/ \E t \in Threads : Worker(t)
  \/ Exited /\ UNCHANGED vars

Spec == Init /\ [][Next]_vars

TypeOK == HarnessTypeOK(WorkPoints) /\ owner \in SUBSET Threads

\* PThreadLock is a mutex.
M == INSTANCE Mutex
ImplementsMutex == M!Spec
=============================================================================
