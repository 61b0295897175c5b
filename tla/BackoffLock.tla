---------------------------- MODULE BackoffLock -----------------------------
(***************************************************************************)
(* The exponential-backoff lock of project2/BackoffLock.cpp, run by        *)
(* simple_test, with the delay limit of each call of lock().               *)
(*                                                                         *)
(* Two things differ from TASLock.  Its constructor does not clear the     *)
(* state, so it starts as whatever the heap held.  And a thread that loses *)
(* sleeps for a time drawn from minDelay..limit, a range it widens each    *)
(* time.  How long it sleeps only matters to the clock, so the draw itself *)
(* is left out, but not the range it is drawn from.                        *)
(***************************************************************************)
EXTENDS SimpleTest, DelayArgs

VARIABLES
  state,      \* BackoffLock::state: "SET" (0xff), "CLEAR" (0) or "OTHER"
  limit       \* Backoff::limit of each thread's current call of lock()

vars == <<harnessVars, state, limit>>
lockVars == <<state, limit>>

Points == WorkPoints \cup {"tas", "backoff"}

Least(a, b) == IF a < b THEN a ELSE b

\* BackoffLock::BackoffLock() seeds the generator and leaves state as it is:
\* a byte of the heap block that new returned.
Init ==
  /\ HarnessInit
  /\ state \in {"SET", "CLEAR", "OTHER"}
  /\ limit = [t \in Threads |-> 0]

\* Fault: the constructor of Backoff leaves limit at zero.
NewBackoff_NoLimit(t) ==
  /\ limit' = [limit EXCEPT ![t] = 0]
  /\ LockStep(t, "lock", "tas")
  /\ UNCHANGED state

\* lock() makes a Backoff of its own.
NewBackoff(t) ==
  /\ limit' = [limit EXCEPT ![t] = Least(MinDelay, MaxDelay)]
  /\ LockStep(t, "lock", "tas")
  /\ UNCHANGED state

\* AO_test_and_set() writes AO_TS_SET; whatever else was there is not
\* AO_TS_SET, so the lock is taken.
TestAndSetWins(t) ==
  /\ state # "SET"
  /\ state' = "SET"
  /\ LockStep(t, "tas", "cs")
  /\ UNCHANGED limit

TestAndSetLoses(t) ==
  /\ state = "SET"
  /\ LockStep(t, "tas", "backoff")
  /\ UNCHANGED lockVars

\* Fault: the limit is doubled without the minimum.
BackOff_Unbounded(t) ==
  /\ limit' = [limit EXCEPT ![t] = (2 * @) % UIntSpan]
  /\ LockStep(t, "backoff", "tas")
  /\ UNCHANGED state

\* backoff.backoff(): draw a delay from minDelay..limit, widen the range (in
\* uint32_t arithmetic) and sleep.  The do-while condition that follows reads
\* the state once more, but both its outcomes lead to the next test-and-set.
BackOff(t) ==
  /\ limit' = [limit EXCEPT ![t] =
                 Least(MaxDelay, (2 * @) % UIntSpan)]
  /\ LockStep(t, "backoff", "tas")
  /\ UNCHANGED state

Unlock(t) ==
  /\ state' = "CLEAR"
  /\ UnlockReturns(t, "unlock")
  /\ UNCHANGED limit

Worker(t) ==
  \/ WorkStep(t) /\ UNCHANGED lockVars
  \/ NewBackoff(t) \/ TestAndSetWins(t) \/ TestAndSetLoses(t) \/ BackOff(t)
  \/ Unlock(t)

Next ==
  \/ MainStep /\ UNCHANGED lockVars
  \/ \E t \in Threads : Worker(t)
  \/ Exited /\ UNCHANGED vars

Spec == Init /\ [][Next]_vars

TypeOK ==
  /\ HarnessTypeOK(Points)
  /\ state \in {"SET", "CLEAR", "OTHER"}
  /\ limit \in [Threads -> 0 .. MaxDelay]

\* The range minDelay..limit handed to uniform_int_distribution is not empty
\* and not beyond the maximum asked for, however often a thread has backed off
\* and whatever the uint32_t doubling does.  It holds when 2 * MaxDelay does
\* not wrap; "MAXDELAY=<max>" (test_common.cpp) takes any uint32_t.
DelayRange ==
  \A t \in Threads :
    pc[t] \in {"tas", "backoff"} =>
      MinDelay <= limit[t] /\ limit[t] <= MaxDelay

\* BackoffLock is a mutex, whatever its state started as: a lock that starts
\* set lets nobody in rather than two.
M == INSTANCE Mutex WITH
       pc <- [t \in Threads |->
                IF pc[t] \in {"tas", "backoff"} THEN "lock" ELSE pc[t]]
ImplementsMutex == M!Spec
=============================================================================
