------------------------------- MODULE Mutex --------------------------------
(***************************************************************************)
(* What the interface class LOCK of project2/common.h promises, whichever  *)
(* lock implements it: lock() lets a thread into its critical section only *)
(* when no other thread is in it, unlock() lets it out.  The critical      *)
(* section is what worker_thread() does between the two calls.             *)
(*                                                                         *)
(* Every lock module shows that it implements this specification.          *)
(***************************************************************************)
EXTENDS SimpleTest

\* The program points between the return of lock() and that of unlock().
CriticalSection == {"cs", "store", "unlock"}

Init == HarnessInit

Lock(t) ==
  /\ \A u \in Threads : pc[u] \notin CriticalSection
  /\ LockStep(t, "lock", "cs")

Unlock(t) == UnlockReturns(t, "unlock")

Worker(t) == WorkStep(t) \/ Lock(t) \/ Unlock(t)

Next ==
  \/ MainStep
  \/ \E t \in Threads : Worker(t)
  \/ Exited /\ UNCHANGED harnessVars

Spec == Init /\ [][Next]_harnessVars

TypeOK == HarnessTypeOK(WorkPoints)

\* At most one thread is between the return of lock() and that of unlock().
MutualExclusion ==
  \A t, u \in Threads :
    pc[t] \in CriticalSection /\ pc[u] \in CriticalSection => t = u
=============================================================================
