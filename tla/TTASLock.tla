------------------------------ MODULE TTASLock ------------------------------
(***************************************************************************)
(* The test-test-and-set lock of project2/TTASLock.cpp, run by             *)
(* simple_test.  lock() reads the state until it looks clear and only then *)
(* tries to set it; another thread may set it in between.                  *)
(***************************************************************************)
EXTENDS SimpleTest

VARIABLE state     \* TTASLock::state: "SET" or "CLEAR"

vars == <<harnessVars, state>>

Points == WorkPoints \cup {"tas"}

\* TTASLock::TTASLock() clears the state.
Init == HarnessInit /\ state = "CLEAR"

\* while (state == AO_TS_SET): the loop is left when a read finds it clear.
SeeClear(t) ==
  /\ state = "CLEAR"
  /\ LockStep(t, "lock", "tas")
  /\ UNCHANGED state

SeeSet(t) ==
  /\ state = "SET"
  /\ LockStep(t, "lock", "lock")
  /\ UNCHANGED state

\* Fault: once the state looked clear it is simply set.
TestAndSetWins_PlainStore(t) ==
  /\ state' = "SET"
  /\ LockStep(t, "tas", "cs")

\* AO_test_and_set() finds the state clear: lock() returns.
TestAndSetWins(t) ==
  /\ state = "CLEAR"
  /\ state' = "SET"
  /\ LockStep(t, "tas", "cs")

\* It finds it set, by a thread that was faster: back to reading.
TestAndSetLoses(t) ==
  /\ state = "SET"
  /\ LockStep(t, "tas", "lock")
  /\ UNCHANGED state

Unlock(t) ==
  /\ state' = "CLEAR"
  /\ UnlockReturns(t, "unlock")

Worker(t) ==
  \/ WorkStep(t) /\ UNCHANGED state
  \/ SeeClear(t) \/ SeeSet(t) \/ TestAndSetWins(t) \/ TestAndSetLoses(t)
  \/ Unlock(t)

Next ==
  \/ MainStep /\ UNCHANGED state
  \/ \E t \in Threads : Worker(t)
  \/ Exited /\ UNCHANGED vars

Spec == Init /\ [][Next]_vars

TypeOK == HarnessTypeOK(Points) /\ state \in {"CLEAR", "SET"}

\* TTASLock is a mutex: a thread between its read and its test-and-set is still
\* calling lock().
M == INSTANCE Mutex WITH
       pc <- [t \in Threads |-> IF pc[t] = "tas" THEN "lock" ELSE pc[t]]
ImplementsMutex == M!Spec
=============================================================================
