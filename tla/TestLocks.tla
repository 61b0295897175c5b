----------------------------- MODULE TestLocks ------------------------------
(***************************************************************************)
(* simple_test as a whole: create_lock() of test_common.cpp makes the lock *)
(* that the command line asks for, and the harness runs it.  The array     *)
(* lock is run by its own module.                                          *)
(***************************************************************************)
EXTENDS SimpleTest, DelayArgs

VARIABLES
  locktype,   \* carg->locktype
  state,      \* of the three locks made of one test-and-set byte
  limit,      \* of BackoffLock
  owner       \* of PThreadLock

lockVars == <<state, limit, owner>>
vars == <<harnessVars, locktype, state, limit, owner>>

TAS == INSTANCE TASLock
TTAS == INSTANCE TTASLock
BACKOFF == INSTANCE BackoffLock
PTHREAD == INSTANCE PThreadLock

NoLimit == limit = [t \in Threads |-> 0]

\* create_lock(carg)
Init ==
  \/ locktype = "TASLOCK" /\ TAS!Init /\ NoLimit /\ owner = {}
  \/ locktype = "TTASLOCK" /\ TTAS!Init /\ NoLimit /\ owner = {}
  \/ locktype = "BACKOFF" /\ BACKOFF!Init /\ owner = {}
  \/ locktype = "PTHREAD" /\ PTHREAD!Init /\ NoLimit /\ state = "CLEAR"

MainThread == MainStep /\ UNCHANGED <<locktype, lockVars>>

Worker(t) ==
  /\ \/ locktype = "TASLOCK" /\ TAS!Worker(t) /\ UNCHANGED <<limit, owner>>
     \/ locktype = "TTASLOCK" /\ TTAS!Worker(t) /\ UNCHANGED <<limit, owner>>
     \/ locktype = "BACKOFF" /\ BACKOFF!Worker(t) /\ UNCHANGED owner
     \/ locktype = "PTHREAD" /\ PTHREAD!Worker(t) /\ UNCHANGED <<state, limit>>
  /\ UNCHANGED locktype

Next ==
  \/ MainThread
  \/ \E t \in Threads : Worker(t)
  \/ Exited /\ UNCHANGED vars

Spec == Init /\ [][Next]_vars

\* Every thread is scheduled again and again, and wakes up from its sleep in
\* BackOff.  That is all: nothing promises a thread that its test-and-set, or its
\* attempt at the mutex, comes while the lock is free.
FairSpec ==
  /\ Spec
  /\ WF_vars(MainThread)
  /\ \A t \in Threads : WF_vars(Worker(t))

-----------------------------------------------------------------------------

TypeOK ==
  \/ locktype = "TASLOCK" /\ TAS!TypeOK
  \/ locktype = "TTASLOCK" /\ TTAS!TypeOK
  \/ locktype = "BACKOFF" /\ BACKOFF!TypeOK
  \/ locktype = "PTHREAD" /\ PTHREAD!TypeOK

\* BackoffLock never draws a delay from an empty range or one beyond the
\* maximum asked for (while twice the maximum is a uint32_t).
DelayRange == locktype = "BACKOFF" => BACKOFF!DelayRange

\* Whichever the lock is, it is a mutex: a thread that tests or backs off is
\* still calling lock().
M == INSTANCE Mutex WITH
       pc <- [t \in Threads |->
                IF pc[t] \in {"tas", "backoff"} THEN "lock" ELSE pc[t]]
ImplementsMutex == M!Spec

\* simple_test ends, whichever the lock is, but for a BackoffLock that is born
\* set.
TerminatesUnlessBornSet == state # "SET" => Terminates
=============================================================================
