------------------------------ MODULE TASLock -------------------------------
(***************************************************************************)
(* The test-and-set lock of project2/TASLock.cpp, run by simple_test.      *)
(***************************************************************************)
EXTENDS SimpleTest

VARIABLE state     \* TASLock::state: "SET" or "CLEAR"

vars == <<harnessVars, state>>

Points == WorkPoints

\* TASLock::TASLock() clears the state.
Init == HarnessInit /\ state = "CLEAR"

\* AO_test_and_set() writes "SET" and returns what was there.  lock() returns
\* when that was "CLEAR" ...
TestAndSetWins(t) ==
  /\ state = "CLEAR"
  /\ state' = "SET"
  /\ LockStep(t, "lock", "cs")

\* ... and tries again (yielding in between, or not) when it was "SET".
TestAndSetLoses(t) ==
  /\ state = "SET"
  /\ LockStep(t, "lock", "lock")
  /\ UNCHANGED state

Unlock(t) ==
  /\ state' = "CLEAR"
  /\ UnlockReturns(t, "unlock")

Worker(t) ==
  \/ WorkStep(t) /\ UNCHANGED state
  \/ TestAndSetWins(t) \/ TestAndSetLoses(t)
  \/ Unlock(t)

Next ==
  \/ MainStep /\ UNCHANGED state
  \/ \E t \in Threads : Worker(t)
  \/ Exited /\ UNCHANGED vars

Spec == Init /\ [][Next]_vars

TypeOK == HarnessTypeOK(Points) /\ state \in {"CLEAR", "SET"}

\* TASLock is a mutex: lock() and unlock() take effect at the atomic
\* operations above.
M == INSTANCE Mutex
ImplementsMutex == M!Spec
=============================================================================
