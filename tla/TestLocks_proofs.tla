-------------------------- MODULE TestLocks_proofs --------------------------
(***************************************************************************)
(* Proofs about simple_test with the locks that TestLocks runs, for every  *)
(* number of threads and of iterations and every range of delays.          *)
(***************************************************************************)
EXTENDS TestLocks, TLAPS

-----------------------------------------------------------------------------
(* The harness *)

\* The main thread's steps keep the harness' variables in their types.
LEMMA MainStepType ==
  ASSUME NEW P, WorkPoints \subseteq P, HarnessTypeOK(P), MainStep
  PROVE  HarnessTypeOK(P)'
<1> USE SimpleTestAssumption DEF HarnessTypeOK, workVars
<1>1. CASE Create
  <2>1. "loop" \in P
    BY DEF WorkPoints
  <2>2. pc' \in [Threads -> P]
    BY <1>1, <2>1 DEF Create
  <2>3. created' \in 0 .. N
    BY <1>1 DEF Create
  <2>4. QED
    BY <1>1, <2>2, <2>3 DEF Create
<1>2. CASE CreateFails
  BY <1>2 DEF CreateFails
<1>3. CASE Join
  <2>1. joined' \in 0 .. N
    BY <1>3 DEF Join
  <2>2. QED
    BY <1>3, <2>1 DEF Join
<1>4. CASE DeleteLock
  BY <1>4 DEF DeleteLock
<1>5. CASE PrintCounter
  <2>1. printed' \in SUBSET Nat
    BY <1>5 DEF PrintCounter
  <2>2. QED
    BY <1>5, <2>1 DEF PrintCounter
<1>6. QED
  BY <1>1, <1>2, <1>3, <1>4, <1>5 DEF MainStep

\* So do a worker's own steps ...
LEMMA WorkStepType ==
  ASSUME NEW P, WorkPoints \subseteq P, HarnessTypeOK(P),
         NEW t \in Threads, WorkStep(t)
  PROVE  HarnessTypeOK(P)'
<1> USE DEF HarnessTypeOK, mainVars, workVars, Goto
<1>1. {"lock", "done", "store", "unlock"} \subseteq P
  BY DEF WorkPoints
<1>2. CASE CallLock(t)
  BY <1>1, <1>2 DEF CallLock
<1>3. CASE Finish(t)
  BY <1>1, <1>3 DEF Finish
<1>4. CASE ReadCounter(t)
  BY <1>1, <1>4 DEF ReadCounter
<1>5. CASE WriteCounter(t)
  BY <1>1, <1>5 DEF WriteCounter
<1>6. QED
  BY <1>2, <1>3, <1>4, <1>5 DEF WorkStep

\* ... and the steps of lock() and unlock().
LEMMA LockStepType ==
  ASSUME NEW P, HarnessTypeOK(P), NEW t \in Threads, NEW from, NEW to \in P,
         LockStep(t, from, to)
  PROVE  HarnessTypeOK(P)'
  BY DEF HarnessTypeOK, mainVars, workVars, Goto, LockStep

LEMMA UnlockReturnsType ==
  ASSUME NEW P, "loop" \in P, HarnessTypeOK(P), NEW t \in Threads, NEW from,
         UnlockReturns(t, from)
  PROVE  HarnessTypeOK(P)'
  BY DEF HarnessTypeOK, mainVars, Goto, UnlockReturns

\* No step of a worker moves another one.
LEMMA GotoMoves ==
  ASSUME NEW P, HarnessTypeOK(P), NEW t \in Threads, NEW from, NEW to,
         Goto(t, from, to)
  PROVE  /\ pc[t] = from /\ pc'[t] = to
         /\ \A u \in Threads : u # t => pc'[u] = pc[u]
  BY DEF HarnessTypeOK, Goto

-----------------------------------------------------------------------------
(* What the four modules say, in the words of the harness *)

\* The three locks made of one test-and-set byte.
ByteLock == locktype \in {"TASLOCK", "TTASLOCK", "BACKOFF"}

\* A step inside lock() that changes neither the byte nor the mutex.
Tries(t, from, to) == LockStep(t, from, to) /\ UNCHANGED <<state, owner>>

\* A test-and-set that finds the byte clear.
Wins(t, from) ==
  /\ state # "SET"
  /\ state' = "SET"
  /\ LockStep(t, from, "cs")
  /\ UNCHANGED <<limit, owner>>

Clears(t) ==
  /\ state' = "CLEAR"
  /\ UnlockReturns(t, "unlock")
  /\ UNCHANGED <<limit, owner>>

LEMMA TASInit == TAS!Init <=> HarnessInit /\ state = "CLEAR"
  BY DEF TAS!Init, TAS!HarnessInit, HarnessInit, TAS!Threads, Threads

LEMMA TTASInit == TTAS!Init <=> HarnessInit /\ state = "CLEAR"
  BY DEF TTAS!Init, TTAS!HarnessInit, HarnessInit, TTAS!Threads, Threads

LEMMA BackoffInit ==
  BACKOFF!Init <=> HarnessInit /\ state \in {"SET", "CLEAR", "OTHER"} /\ NoLimit
  BY DEF BACKOFF!Init, BACKOFF!HarnessInit, HarnessInit, BACKOFF!Threads, Threads,
         NoLimit

LEMMA PThreadInit == PTHREAD!Init <=> HarnessInit /\ owner = {}
  BY DEF PTHREAD!Init, PTHREAD!HarnessInit, HarnessInit, PTHREAD!Threads, Threads

\* TASLock
LEMMA TASSteps ==
  ASSUME NEW t \in Threads, TAS!Worker(t), UNCHANGED <<limit, owner>>
  PROVE  \/ WorkStep(t) /\ UNCHANGED lockVars
         \/ Wins(t, "lock")
         \/ Tries(t, "lock", "lock") /\ UNCHANGED limit
         \/ Clears(t)
<1> USE DEF TAS!Goto, Goto, TAS!mainVars, mainVars, TAS!workVars, workVars, lockVars
<1>1. CASE TAS!WorkStep(t) /\ UNCHANGED state
  BY <1>1
  DEF TAS!WorkStep, TAS!CallLock, TAS!Finish, TAS!ReadCounter, TAS!WriteCounter,
      WorkStep, CallLock, Finish, ReadCounter, WriteCounter
<1>2. CASE TAS!TestAndSetWins(t)
  BY <1>2 DEF TAS!TestAndSetWins, TAS!LockStep, LockStep, Wins
<1>3. CASE TAS!TestAndSetLoses(t)
  BY <1>3 DEF TAS!TestAndSetLoses, TAS!LockStep, LockStep, Tries
<1>4. CASE TAS!Unlock(t)
  BY <1>4 DEF TAS!Unlock, TAS!UnlockReturns, UnlockReturns, Clears
<1>5. QED
  BY <1>1, <1>2, <1>3, <1>4 DEF TAS!Worker

\* TTASLock
LEMMA TTASSteps ==
  ASSUME NEW t \in Threads, TTAS!Worker(t), UNCHANGED <<limit, owner>>
  PROVE  \/ WorkStep(t) /\ UNCHANGED lockVars
         \/ Wins(t, "tas")
         \/ \E from, to \in {"lock", "tas"} : Tries(t, from, to) /\ UNCHANGED limit
         \/ Clears(t)
<1> USE DEF TTAS!Goto, Goto, TTAS!mainVars, mainVars, TTAS!workVars, workVars,
            lockVars, TTAS!LockStep, LockStep, Tries
<1>1. CASE TTAS!WorkStep(t) /\ UNCHANGED state
  BY <1>1
  DEF TTAS!WorkStep, TTAS!CallLock, TTAS!Finish, TTAS!ReadCounter,
      TTAS!WriteCounter, WorkStep, CallLock, Finish, ReadCounter, WriteCounter
<1>2. CASE TTAS!TestAndSetWins(t)
  BY <1>2 DEF TTAS!TestAndSetWins, Wins
<1>3. CASE TTAS!TestAndSetLoses(t)
  BY <1>3 DEF TTAS!TestAndSetLoses
<1>4. CASE TTAS!SeeClear(t)
  BY <1>4 DEF TTAS!SeeClear
<1>5. CASE TTAS!SeeSet(t)
  BY <1>5 DEF TTAS!SeeSet
<1>6. CASE TTAS!Unlock(t)
  BY <1>6 DEF TTAS!Unlock, TTAS!UnlockReturns, UnlockReturns, Clears
<1>7. QED
  BY <1>1, <1>2, <1>3, <1>4, <1>5, <1>6 DEF TTAS!Worker

\* BackoffLock, with what each step does to the limit
LEMMA BackoffSteps ==
  ASSUME NEW t \in Threads, BACKOFF!Worker(t), UNCHANGED owner
  PROVE  \/ WorkStep(t) /\ UNCHANGED lockVars
         \/ Wins(t, "tas")
         \/ /\ Tries(t, "lock", "tas")
            /\ limit' = [limit EXCEPT ![t] = BACKOFF!Least(MinDelay, MaxDelay)]
         \/ Tries(t, "tas", "backoff") /\ UNCHANGED limit
         \/ /\ Tries(t, "backoff", "tas")
            /\ limit' = [limit EXCEPT ![t] =
                           BACKOFF!Least(MaxDelay, (2 * limit[t]) % UIntSpan)]
         \/ Clears(t)
<1> USE DEF BACKOFF!Goto, Goto, BACKOFF!mainVars, mainVars, BACKOFF!workVars,
            workVars, lockVars, BACKOFF!lockVars, BACKOFF!LockStep, LockStep, Tries
<1>1. CASE BACKOFF!WorkStep(t) /\ UNCHANGED <<state, limit>>
  BY <1>1
  DEF BACKOFF!WorkStep, BACKOFF!CallLock, BACKOFF!Finish, BACKOFF!ReadCounter,
      BACKOFF!WriteCounter, WorkStep, CallLock, Finish, ReadCounter, WriteCounter
<1>2. CASE BACKOFF!TestAndSetWins(t)
  BY <1>2 DEF BACKOFF!TestAndSetWins, Wins
<1>3. CASE BACKOFF!TestAndSetLoses(t)
  BY <1>3 DEF BACKOFF!TestAndSetLoses
<1>4. CASE BACKOFF!NewBackoff(t)
  BY <1>4 DEF BACKOFF!NewBackoff
<1>5. CASE BACKOFF!BackOff(t)
  BY <1>5 DEF BACKOFF!BackOff
<1>6. CASE BACKOFF!Unlock(t)
  BY <1>6 DEF BACKOFF!Unlock, BACKOFF!UnlockReturns, UnlockReturns, Clears
<1>7. QED
  BY <1>1, <1>2, <1>3, <1>4, <1>5, <1>6 DEF BACKOFF!Worker

\* PThreadLock
LockMutex(t) == owner = {} /\ owner' = {t} /\ LockStep(t, "lock", "cs")

UnlockMutex(t) == owner' = {} /\ UnlockReturns(t, "unlock")

LEMMA PThreadSteps ==
  ASSUME NEW t \in Threads, PTHREAD!Worker(t), UNCHANGED <<state, limit>>
  PROVE  \/ WorkStep(t) /\ UNCHANGED lockVars
         \/ LockMutex(t)
         \/ UnlockMutex(t)
<1> USE DEF PTHREAD!Goto, Goto, PTHREAD!mainVars, mainVars, PTHREAD!workVars,
            workVars, lockVars, PTHREAD!LockStep, LockStep
<1>1. CASE PTHREAD!WorkStep(t) /\ UNCHANGED owner
  BY <1>1
  DEF PTHREAD!WorkStep, PTHREAD!CallLock, PTHREAD!Finish, PTHREAD!ReadCounter,
      PTHREAD!WriteCounter, WorkStep, CallLock, Finish, ReadCounter, WriteCounter
<1>2. CASE PTHREAD!MutexLock(t)
  BY <1>2 DEF PTHREAD!MutexLock, LockMutex
<1>3. CASE PTHREAD!MutexUnlock(t)
  BY <1>3 DEF PTHREAD!MutexUnlock, UnlockMutex, PTHREAD!UnlockReturns, UnlockReturns
<1>4. QED
  BY <1>1, <1>2, <1>3 DEF PTHREAD!Worker

-----------------------------------------------------------------------------
(* Types *)

LocksTypeOK ==
  \/ /\ locktype = "TASLOCK"
     /\ HarnessTypeOK(WorkPoints) /\ state \in {"CLEAR", "SET"}
  \/ /\ locktype = "TTASLOCK"
     /\ HarnessTypeOK(WorkPoints \cup {"tas"}) /\ state \in {"CLEAR", "SET"}
  \/ /\ locktype = "BACKOFF"
     /\ HarnessTypeOK(WorkPoints \cup {"tas", "backoff"})
     /\ state \in {"SET", "CLEAR", "OTHER"}
     /\ limit \in [Threads -> 0 .. MaxDelay]
  \/ /\ locktype = "PTHREAD"
     /\ HarnessTypeOK(WorkPoints) /\ owner \in SUBSET Threads

LEMMA TypeOKIs == TypeOK <=> LocksTypeOK
  BY DEF TypeOK, LocksTypeOK, HarnessTypeOK, WorkPoints,
         Threads,
         TAS!TypeOK, TAS!HarnessTypeOK, TAS!Points, TAS!WorkPoints, TAS!Threads,
         TTAS!TypeOK, TTAS!HarnessTypeOK, TTAS!Points, TTAS!WorkPoints, TTAS!Threads,
         BACKOFF!TypeOK, BACKOFF!HarnessTypeOK, BACKOFF!Points, BACKOFF!WorkPoints,
         BACKOFF!Threads, PTHREAD!TypeOK, PTHREAD!HarnessTypeOK,
         PTHREAD!WorkPoints, PTHREAD!Threads

LEMMA TypeOKIsNext == TypeOK' <=> LocksTypeOK'
  BY TypeOKIs, PTL

\* The points of all the locks.
AllPoints == WorkPoints \cup {"tas", "backoff"}

LEMMA TypeOKHarness == TypeOK => HarnessTypeOK(AllPoints)
  BY TypeOKIs DEF LocksTypeOK, HarnessTypeOK, AllPoints

LEMMA TypeInit == Init => TypeOK
<1> SUFFICES ASSUME Init PROVE TypeOK
  OBVIOUS
<1> USE SimpleTestAssumption, TypeOKIs
    DEF LocksTypeOK, HarnessInit, HarnessTypeOK, WorkPoints
<1>1. CASE locktype = "TASLOCK" /\ TAS!Init
  BY <1>1, TASInit
<1>2. CASE locktype = "TTASLOCK" /\ TTAS!Init
  BY <1>2, TTASInit
<1>3. CASE locktype = "BACKOFF" /\ BACKOFF!Init
  BY <1>3, BackoffInit, DelayAssumption DEF NoLimit
<1>4. CASE locktype = "PTHREAD" /\ PTHREAD!Init
  BY <1>4, PThreadInit
<1>5. QED
  BY <1>1, <1>2, <1>3, <1>4 DEF Init

LEMMA TASType ==
  ASSUME locktype = "TASLOCK", TypeOK, NEW t \in Threads, TAS!Worker(t),
         UNCHANGED <<limit, owner, locktype>>
  PROVE  TypeOK'
<1> DEFINE P == WorkPoints
<1> USE TypeOKIs, TypeOKIsNext DEF LocksTypeOK
<1>1. {"lock", "cs", "loop"} \subseteq P /\ HarnessTypeOK(P)
  BY DEF WorkPoints
<1> HIDE DEF P
<1>2. HarnessTypeOK(P)' /\ state' \in {"CLEAR", "SET"}
  <2>1. CASE WorkStep(t) /\ UNCHANGED lockVars
    BY <1>1, <2>1, WorkStepType DEF lockVars, P
  <2>2. CASE Wins(t, "lock")
    BY <1>1, <2>2, LockStepType DEF Wins
  <2>3. CASE Tries(t, "lock", "lock") /\ UNCHANGED limit
    BY <1>1, <2>3, LockStepType DEF Tries
  <2>4. CASE Clears(t)
    BY <1>1, <2>4, UnlockReturnsType DEF Clears
  <2>5. QED
    BY <2>1, <2>2, <2>3, <2>4, TASSteps
<1>3. QED
  BY <1>2 DEF P

LEMMA TTASType ==
  ASSUME locktype = "TTASLOCK", TypeOK, NEW t \in Threads, TTAS!Worker(t),
         UNCHANGED <<limit, owner, locktype>>
  PROVE  TypeOK'
<1> DEFINE P == WorkPoints \cup {"tas"}
<1> USE TypeOKIs, TypeOKIsNext DEF LocksTypeOK
<1>1. {"lock", "tas", "cs", "loop"} \subseteq P /\ HarnessTypeOK(P)
  BY DEF WorkPoints
<1> HIDE DEF P
<1>2. HarnessTypeOK(P)' /\ state' \in {"CLEAR", "SET"}
  <2>1. CASE WorkStep(t) /\ UNCHANGED lockVars
    BY <1>1, <2>1, WorkStepType DEF lockVars, P
  <2>2. CASE Wins(t, "tas")
    BY <1>1, <2>2, LockStepType DEF Wins
  <2>3. ASSUME NEW from \in {"lock", "tas"}, NEW to \in {"lock", "tas"},
               Tries(t, from, to)
        PROVE  HarnessTypeOK(P)' /\ state' \in {"CLEAR", "SET"}
    BY <1>1, <2>3, LockStepType DEF Tries
  <2>4. CASE Clears(t)
    BY <1>1, <2>4, UnlockReturnsType DEF Clears
  <2>5. QED
    BY <2>1, <2>2, <2>3, <2>4, TTASSteps
<1>3. QED
  BY <1>2 DEF P

LEMMA BackoffType ==
  ASSUME locktype = "BACKOFF", TypeOK, NEW t \in Threads, BACKOFF!Worker(t),
         UNCHANGED <<owner, locktype>>
  PROVE  TypeOK'
<1> DEFINE P == WorkPoints \cup {"tas", "backoff"}
           L == [Threads -> 0 .. MaxDelay]
<1> USE TypeOKIs, TypeOKIsNext DEF LocksTypeOK
<1>1. /\ {"lock", "tas", "backoff", "cs", "loop"} \subseteq P
      /\ HarnessTypeOK(P) /\ limit \in L
  BY DEF WorkPoints
<1>2. BACKOFF!Least(MinDelay, MaxDelay) \in 0 .. MaxDelay
  BY DelayAssumption DEF BACKOFF!Least
<1>3. BACKOFF!Least(MaxDelay, (2 * limit[t]) % UIntSpan) \in 0 .. MaxDelay
  <2>1. limit[t] \in Nat /\ MaxDelay \in Nat /\ UIntSpan \in Nat \ {0}
    BY <1>1, DelayAssumption
  <2>2. (2 * limit[t]) % UIntSpan \in Nat
    BY <2>1
  <2>3. QED
    BY <2>1, <2>2 DEF BACKOFF!Least
<1> HIDE DEF P
<1>4. HarnessTypeOK(P)' /\ state' \in {"SET", "CLEAR", "OTHER"} /\ limit' \in L
  <2>1. CASE WorkStep(t) /\ UNCHANGED lockVars
    BY <1>1, <2>1, WorkStepType DEF lockVars, P
  <2>2. CASE Wins(t, "tas")
    BY <1>1, <2>2, LockStepType DEF Wins
  <2>3. CASE /\ Tries(t, "lock", "tas")
             /\ limit' = [limit EXCEPT ![t] = BACKOFF!Least(MinDelay, MaxDelay)]
    BY <1>1, <1>2, <2>3, LockStepType DEF Tries
  <2>4. CASE Tries(t, "tas", "backoff") /\ UNCHANGED limit
    BY <1>1, <2>4, LockStepType DEF Tries
  <2>5. CASE /\ Tries(t, "backoff", "tas")
             /\ limit' = [limit EXCEPT ![t] =
                            BACKOFF!Least(MaxDelay, (2 * limit[t]) % UIntSpan)]
    BY <1>1, <1>3, <2>5, LockStepType DEF Tries
  <2>6. CASE Clears(t)
    BY <1>1, <2>6, UnlockReturnsType DEF Clears
  <2>7. QED
    BY <2>1, <2>2, <2>3, <2>4, <2>5, <2>6, BackoffSteps
<1>5. QED
  BY <1>4 DEF P

LEMMA PThreadType ==
  ASSUME locktype = "PTHREAD", TypeOK, NEW t \in Threads, PTHREAD!Worker(t),
         UNCHANGED <<state, limit, locktype>>
  PROVE  TypeOK'
<1> DEFINE P == WorkPoints
<1> USE TypeOKIs, TypeOKIsNext DEF LocksTypeOK
<1>1. /\ {"lock", "cs", "loop"} \subseteq P
      /\ HarnessTypeOK(P) /\ owner \in SUBSET Threads
  BY DEF WorkPoints
<1> HIDE DEF P
<1>2. HarnessTypeOK(P)' /\ owner' \in SUBSET Threads
  <2>1. CASE WorkStep(t) /\ UNCHANGED lockVars
    BY <1>1, <2>1, WorkStepType DEF lockVars, P
  <2>2. CASE LockMutex(t)
    BY <1>1, <2>2, LockStepType DEF LockMutex
  <2>3. CASE UnlockMutex(t)
    BY <1>1, <2>3, UnlockReturnsType DEF UnlockMutex
  <2>4. QED
    BY <2>1, <2>2, <2>3, PThreadSteps
<1>3. QED
  BY <1>2 DEF P

LEMMA TypeStep == TypeOK /\ [Next]_vars => TypeOK'
<1> SUFFICES ASSUME TypeOK, [Next]_vars PROVE TypeOK'
  OBVIOUS
<1>1. CASE MainThread
  <2>1. \A P \in SUBSET AllPoints :
          WorkPoints \subseteq P /\ HarnessTypeOK(P) => HarnessTypeOK(P)'
    BY <1>1, MainStepType DEF MainThread
  <2>2. /\ WorkPoints \in SUBSET AllPoints
        /\ WorkPoints \cup {"tas"} \in SUBSET AllPoints
        /\ WorkPoints \cup {"tas", "backoff"} \in SUBSET AllPoints
    BY DEF AllPoints
  <2>3. QED
    BY <1>1, <2>1, <2>2, TypeOKIs, TypeOKIsNext
    DEF MainThread, lockVars, LocksTypeOK
<1>2. ASSUME NEW t \in Threads, Worker(t) PROVE TypeOK'
  BY <1>2, TASType, TTASType, BackoffType, PThreadType DEF Worker
<1>3. CASE UNCHANGED vars
  BY <1>3, TypeOKIs, TypeOKIsNext
  DEF vars, harnessVars, LocksTypeOK, HarnessTypeOK
<1>4. QED
  BY <1>1, <1>2, <1>3 DEF Next

\* Whichever the lock, its variables and those of the harness keep their types.
THEOREM TypeCorrect == Spec => []TypeOK
<1>1. QED
  BY TypeInit, TypeStep, PTL DEF Spec

-----------------------------------------------------------------------------
(* Mutual exclusion, by the byte or by the mutex *)

Critical == {"cs", "store", "unlock"}

\* At most one thread is in its critical section; while it is there the byte
\* is set, or the mutex is its own, and only then is the mutex taken.
LockInv ==
  /\ \A t, u \in Threads : pc[t] \in Critical /\ pc[u] \in Critical => t = u
  /\ ByteLock => \A t \in Threads : pc[t] \in Critical => state = "SET"
  /\ locktype = "PTHREAD" => owner = {t \in Threads : pc[t] \in Critical}

\* A thread that main has not created yet has not begun.
BornOK == \A t \in Threads : t >= created => pc[t] = "unborn"

Inv == TypeOK /\ LockInv /\ BornOK

LEMMA InvInit == Init => Inv
<1> SUFFICES ASSUME Init PROVE Inv
  OBVIOUS
<1>1. HarnessInit /\ (locktype = "PTHREAD" => owner = {})
  BY TASInit, TTASInit, BackoffInit, PThreadInit DEF Init
<1>2. \A t \in Threads : pc[t] = "unborn"
  BY <1>1 DEF HarnessInit
<1>3. LockInv /\ BornOK
  BY <1>1, <1>2 DEF LockInv, BornOK, Critical
<1>4. QED
  BY <1>3, TypeInit DEF Inv

\* A step of main moves no worker but the one it creates.
LEMMA MainMoves ==
  ASSUME HarnessTypeOK(AllPoints), MainStep
  PROVE  /\ created' \in Nat /\ created \in Nat
         /\ \/ pc' = pc /\ created' = created
            \/ /\ created \in Threads /\ created' = created + 1
               /\ pc' = [pc EXCEPT ![created] = "loop"]
<1> USE SimpleTestAssumption DEF HarnessTypeOK, Threads, workVars
<1>1. CASE Create
  BY <1>1 DEF Create
<1>2. CASE CreateFails \/ Join \/ DeleteLock \/ PrintCounter
  BY <1>2 DEF CreateFails, Join, DeleteLock, PrintCounter
<1>3. QED
  BY <1>1, <1>2 DEF MainStep

LEMMA InvMain ==
  ASSUME Inv, MainThread
  PROVE  LockInv' /\ BornOK'
<1>1. HarnessTypeOK(AllPoints)
  BY TypeOKHarness DEF Inv
<1>2. UNCHANGED <<locktype, state, owner>>
  BY DEF MainThread, lockVars
<1>3. /\ created' \in Nat /\ created \in Nat
      /\ \/ pc' = pc /\ created' = created
         \/ /\ created \in Threads /\ created' = created + 1
            /\ pc' = [pc EXCEPT ![created] = "loop"]
  BY <1>1, MainMoves DEF MainThread
<1>4. \A t \in Threads :
        \/ pc'[t] = pc[t]
        \/ pc[t] = "unborn" /\ pc'[t] = "loop"
  BY <1>1, <1>3, SimpleTestAssumption DEF HarnessTypeOK, Inv, BornOK, Threads
<1>5. LockInv'
  BY <1>2, <1>4 DEF Inv, LockInv, Critical, ByteLock
<1>6. BornOK'
  BY <1>1, <1>3, SimpleTestAssumption DEF HarnessTypeOK, Inv, BornOK, Threads
<1>7. QED
  BY <1>5, <1>6

\* The steps that all locks have: neither the byte nor the mutex matters.
LEMMA InvWork ==
  ASSUME Inv, NEW t \in Threads, UNCHANGED <<locktype, state, owner>>,
         WorkStep(t)
  PROVE  LockInv' /\ BornOK'
<1>1. HarnessTypeOK(AllPoints)
  BY TypeOKHarness DEF Inv
<1>2. \E from, to :
        /\ Goto(t, from, to) /\ created' = created
        /\ \/ from = "loop" /\ to \in {"lock", "done"}
           \/ from = "cs" /\ to = "store"
           \/ from = "store" /\ to = "unlock"
  BY DEF WorkStep, CallLock, Finish, ReadCounter, WriteCounter, mainVars
<1>3. PICK from, to :
        /\ pc[t] = from /\ pc'[t] = to /\ created' = created
        /\ \A u \in Threads : u # t => pc'[u] = pc[u]
        /\ \/ from = "loop" /\ to \in {"lock", "done"}
           \/ from = "cs" /\ to = "store"
           \/ from = "store" /\ to = "unlock"
  BY <1>1, <1>2, GotoMoves
<1>4. LockInv'
  BY <1>3 DEF Inv, LockInv, Critical, ByteLock
<1>5. BornOK'
  BY <1>3 DEF Inv, BornOK
<1>6. QED
  BY <1>4, <1>5

\* The steps of the locks that are a byte.
LEMMA InvByte ==
  ASSUME Inv, ByteLock, UNCHANGED locktype, NEW t \in Threads,
         \/ \E from, to \in {"lock", "tas", "backoff"} : Tries(t, from, to)
         \/ \E from \in {"lock", "tas"} : Wins(t, from)
         \/ Clears(t)
  PROVE  LockInv' /\ BornOK'
<1>1. HarnessTypeOK(AllPoints)
  BY TypeOKHarness DEF Inv
<1> USE DEF Inv, LockInv, BornOK, Critical, ByteLock
<1>2. ASSUME NEW from \in {"lock", "tas", "backoff"},
             NEW to \in {"lock", "tas", "backoff"}, Tries(t, from, to)
      PROVE  LockInv' /\ BornOK'
  BY <1>1, <1>2, GotoMoves DEF Tries, LockStep, mainVars
<1>3. ASSUME NEW from \in {"lock", "tas"}, Wins(t, from)
      PROVE  LockInv' /\ BornOK'
  BY <1>1, <1>3, GotoMoves DEF Wins, LockStep, mainVars
<1>4. CASE Clears(t)
  BY <1>1, <1>4, GotoMoves DEF Clears, UnlockReturns, mainVars
<1>5. QED
  BY <1>2, <1>3, <1>4

\* The steps of the mutex.
LEMMA InvMutex ==
  ASSUME Inv, locktype = "PTHREAD", UNCHANGED locktype, NEW t \in Threads,
         LockMutex(t) \/ UnlockMutex(t)
  PROVE  LockInv' /\ BornOK'
<1>1. HarnessTypeOK(AllPoints)
  BY TypeOKHarness DEF Inv
<1> USE DEF Inv, BornOK, Critical, LockInv, ByteLock
<1>2. CASE LockMutex(t)
  BY <1>1, <1>2, GotoMoves DEF LockMutex, LockStep, mainVars
<1>3. CASE UnlockMutex(t)
  BY <1>1, <1>3, GotoMoves DEF UnlockMutex, UnlockReturns, mainVars
<1>4. QED
  BY <1>2, <1>3

\* What a worker's step is, whichever the lock.
LEMMA WorkerSteps ==
  ASSUME NEW t \in Threads, Worker(t)
  PROVE  /\ UNCHANGED locktype
         /\ \/ WorkStep(t) /\ UNCHANGED <<state, owner>>
            \/ /\ ByteLock
               /\ \/ \E from, to \in {"lock", "tas", "backoff"} : Tries(t, from, to)
                  \/ \E from \in {"lock", "tas"} : Wins(t, from)
                  \/ Clears(t)
            \/ /\ locktype = "PTHREAD"
               /\ LockMutex(t) \/ UnlockMutex(t)
<1> USE DEF lockVars, ByteLock
<1>1. CASE locktype = "TASLOCK" /\ TAS!Worker(t) /\ UNCHANGED <<limit, owner>>
  BY <1>1, TASSteps DEF Worker
<1>2. CASE locktype = "TTASLOCK" /\ TTAS!Worker(t) /\ UNCHANGED <<limit, owner>>
  BY <1>2, TTASSteps DEF Worker
<1>3. CASE locktype = "BACKOFF" /\ BACKOFF!Worker(t) /\ UNCHANGED owner
  BY <1>3, BackoffSteps DEF Worker
<1>4. CASE locktype = "PTHREAD" /\ PTHREAD!Worker(t) /\ UNCHANGED <<state, limit>>
  BY <1>4, PThreadSteps DEF Worker
<1>5. QED
  BY <1>1, <1>2, <1>3, <1>4 DEF Worker

LEMMA InvStep == Inv /\ [Next]_vars => Inv'
<1> SUFFICES ASSUME Inv, [Next]_vars PROVE Inv'
  OBVIOUS
<1>1. TypeOK'
  BY TypeStep DEF Inv
<1>2. CASE MainThread
  BY <1>1, <1>2, InvMain DEF Inv
<1>3. ASSUME NEW t \in Threads, Worker(t) PROVE Inv'
  BY <1>1, <1>3, WorkerSteps, InvWork, InvByte, InvMutex DEF Inv
<1>4. CASE UNCHANGED vars
  BY <1>1, <1>4
  DEF vars, harnessVars, Inv, LockInv, BornOK, ByteLock
<1>5. QED
  BY <1>2, <1>3, <1>4 DEF Next

\* The invariant that the refinement rests on.
THEOREM Invariance == Spec => []Inv
<1>1. QED
  BY InvInit, InvStep, PTL DEF Spec

-----------------------------------------------------------------------------
(* The range of BackoffLock's delays *)

\* The doubling of a limit in range neither wraps nor leaves the range.
LEMMA Doubled ==
  ASSUME 2 * MaxDelay < UIntSpan, NEW l \in MinDelay .. MaxDelay
  PROVE  BACKOFF!Least(MaxDelay, (2 * l) % UIntSpan) \in MinDelay .. MaxDelay
<1> USE DelayAssumption
<1>1. 2 * l \in Nat /\ 2 * l < UIntSpan
  OBVIOUS
<1>2. (2 * l) % UIntSpan = 2 * l
  BY <1>1
<1>3. QED
  BY <1>2 DEF BACKOFF!Least

\* The limit of a thread that may draw from it.
LimitInv ==
  locktype = "BACKOFF" =>
    \A t \in Threads : pc[t] \in {"tas", "backoff"} => limit[t] \in MinDelay .. MaxDelay

LEMMA LimitWorker ==
  ASSUME 2 * MaxDelay < UIntSpan, TypeOK, LimitInv, locktype = "BACKOFF",
         NEW t \in Threads, BACKOFF!Worker(t), UNCHANGED <<locktype, owner>>
  PROVE  LimitInv'
<1>1. HarnessTypeOK(AllPoints) /\ limit \in [Threads -> 0 .. MaxDelay]
  BY TypeOKIs, TypeOKHarness DEF LocksTypeOK
<1> USE DEF LimitInv
<1>2. CASE WorkStep(t) /\ UNCHANGED lockVars
  <2>1. PICK to : /\ pc'[t] = to /\ \A u \in Threads : u # t => pc'[u] = pc[u]
                  /\ to \in {"lock", "done", "store", "unlock"}
    BY <1>1, <1>2, GotoMoves
    DEF WorkStep, CallLock, Finish, ReadCounter, WriteCounter
  <2>2. QED
    BY <1>2, <2>1 DEF lockVars
<1>3. CASE Wins(t, "tas")
  BY <1>1, <1>3, GotoMoves DEF Wins, LockStep
<1>4. CASE /\ Tries(t, "lock", "tas")
           /\ limit' = [limit EXCEPT ![t] = BACKOFF!Least(MinDelay, MaxDelay)]
  <2>1. BACKOFF!Least(MinDelay, MaxDelay) \in MinDelay .. MaxDelay
    BY DelayAssumption DEF BACKOFF!Least
  <2>2. QED
    BY <1>1, <1>4, <2>1, GotoMoves DEF Tries, LockStep
<1>5. CASE Tries(t, "tas", "backoff") /\ UNCHANGED limit
  BY <1>1, <1>5, GotoMoves DEF Tries, LockStep
<1>6. CASE /\ Tries(t, "backoff", "tas")
           /\ limit' = [limit EXCEPT ![t] =
                          BACKOFF!Least(MaxDelay, (2 * limit[t]) % UIntSpan)]
  <2>1. pc[t] = "backoff" /\ pc'[t] = "tas" /\ \A u \in Threads : u # t => pc'[u] = pc[u]
    BY <1>1, <1>6, GotoMoves DEF Tries, LockStep
  <2>2. BACKOFF!Least(MaxDelay, (2 * limit[t]) % UIntSpan) \in MinDelay .. MaxDelay
    BY <2>1, Doubled
  <2>3. QED
    BY <1>1, <1>6, <2>1, <2>2
<1>7. CASE Clears(t)
  BY <1>1, <1>7, GotoMoves DEF Clears, UnlockReturns
<1>8. QED
  BY <1>2, <1>3, <1>4, <1>5, <1>6, <1>7, BackoffSteps

LEMMA LimitStep ==
  ASSUME 2 * MaxDelay < UIntSpan
  PROVE  TypeOK /\ LimitInv /\ [Next]_vars => LimitInv'
<1> SUFFICES ASSUME TypeOK, LimitInv, [Next]_vars PROVE LimitInv'
  OBVIOUS
<1>1. CASE MainThread
  <2>1. \A t \in Threads : pc'[t] = pc[t] \/ pc'[t] = "loop"
    <3>1. HarnessTypeOK(AllPoints)
      BY TypeOKHarness
    <3>2. pc' = pc \/ \E c : pc' = [pc EXCEPT ![c] = "loop"]
      BY <1>1, <3>1, MainMoves DEF MainThread
    <3>3. QED
      BY <3>1, <3>2 DEF HarnessTypeOK
  <2>2. QED
    BY <1>1, <2>1 DEF MainThread, lockVars, LimitInv
<1>2. ASSUME NEW t \in Threads, Worker(t) PROVE LimitInv'
  BY <1>2, LimitWorker DEF Worker, LimitInv
<1>3. CASE UNCHANGED vars
  BY <1>3 DEF vars, harnessVars, LimitInv
<1>4. QED
  BY <1>1, <1>2, <1>3 DEF Next

\* As long as twice the maximum fits in a uint32_t, BackoffLock never draws a
\* delay from an empty range or one beyond the maximum asked for, however
\* often a thread has backed off.
THEOREM DelaysInRange ==
  ASSUME 2 * MaxDelay < UIntSpan
  PROVE  Spec => []DelayRange
<1>1. Init => LimitInv
  <2>1. Init => \A t \in Threads : pc[t] = "unborn"
    BY TASInit, TTASInit, BackoffInit, PThreadInit DEF Init, HarnessInit
  <2>2. QED
    BY <2>1 DEF LimitInv
<1>2. LimitInv => DelayRange
  BY DelayAssumption
  DEF LimitInv, DelayRange, BACKOFF!DelayRange, BACKOFF!Threads, Threads
<1>3. QED
  BY <1>1, <1>2, TypeCorrect, LimitStep, PTL DEF Spec

-----------------------------------------------------------------------------
(* Every lock implements the mutex *)

MutexPoint(p) == IF p \in {"tas", "backoff"} THEN "lock" ELSE p
MutexPC == [t \in Threads |-> MutexPoint(pc[t])]

LEMMA MutexInit == Init => M!Init
<1> SUFFICES ASSUME Init PROVE M!Init
  OBVIOUS
<1>1. HarnessInit
  BY TASInit, TTASInit, BackoffInit, PThreadInit DEF Init
<1>2. QED
  BY <1>1 DEF HarnessInit, M!Init, M!HarnessInit, Threads, M!Threads

\* A worker's step that the mutex sees as one from one point to another.
LEMMA PCStep ==
  ASSUME TypeOK, NEW t \in Threads, NEW from, NEW to, Goto(t, from, to)
  PROVE  /\ MutexPC[t] = MutexPoint(from)
         /\ MutexPC' = [MutexPC EXCEPT ![t] = MutexPoint(to)]
<1>1. pc[t] = from /\ pc'[t] = to /\ \A u \in Threads : u # t => pc'[u] = pc[u]
  BY TypeOKHarness, GotoMoves
<1>2. QED
  BY <1>1 DEF MutexPC

LEMMA MutexMainStep ==
  ASSUME TypeOK, MainStep
  PROVE  M!MainStep
<1>1. HarnessTypeOK(AllPoints)
  BY TypeOKHarness
<1> USE DEF workVars, M!workVars, MutexPC, MutexPoint
<1>2. CASE Create
  <2>1. created \in Threads
    BY <1>1, <1>2, SimpleTestAssumption DEF Create, HarnessTypeOK, Threads
  <2>2. pc'[created] = "loop" /\ \A u \in Threads : u # created => pc'[u] = pc[u]
    BY <1>1, <1>2, <2>1 DEF Create, HarnessTypeOK
  <2>3. MutexPC' = [MutexPC EXCEPT ![created] = "loop"]
    BY <2>1, <2>2
  <2>4. M!Create
    BY <1>2, <2>3 DEF Create, M!Create
  <2>5. QED
    BY <2>4 DEF M!MainStep
<1>3. CASE CreateFails
  BY <1>3 DEF CreateFails, M!CreateFails, M!MainStep
<1>4. CASE Join
  <2>1. joined \in Threads /\ pc[joined] = "done"
    BY <1>1, <1>4, SimpleTestAssumption DEF Join, HarnessTypeOK, Threads
  <2>2. MutexPC[joined] = "done"
    BY <2>1
  <2>3. QED
    BY <1>4, <2>2 DEF Join, M!Join, M!MainStep
<1>5. CASE DeleteLock
  BY <1>5 DEF DeleteLock, M!DeleteLock, M!MainStep
<1>6. CASE PrintCounter
  BY <1>6 DEF PrintCounter, M!PrintCounter, M!MainStep
<1>7. QED
  BY <1>2, <1>3, <1>4, <1>5, <1>6 DEF MainStep

LEMMA MutexWorkStep ==
  ASSUME TypeOK, NEW t \in Threads, WorkStep(t)
  PROVE  M!WorkStep(t)
<1> USE PCStep DEF Goto, M!Goto, mainVars, M!mainVars, workVars, M!workVars,
                   M!WorkStep, MutexPC, MutexPoint
<1>1. CASE CallLock(t)
  BY <1>1 DEF CallLock, M!CallLock
<1>2. CASE Finish(t)
  BY <1>2 DEF Finish, M!Finish
<1>3. CASE ReadCounter(t)
  BY <1>3 DEF ReadCounter, M!ReadCounter
<1>4. CASE WriteCounter(t)
  BY <1>4 DEF WriteCounter, M!WriteCounter
<1>5. QED
  BY <1>1, <1>2, <1>3, <1>4 DEF WorkStep

\* lock() returns while no other thread is in its critical section.
LEMMA MutexEnters ==
  ASSUME Inv, NEW t \in Threads, NEW from \in {"lock", "tas"},
         LockStep(t, from, "cs"),
         \/ ByteLock /\ state # "SET"
         \/ locktype = "PTHREAD" /\ owner = {}
  PROVE  M!Lock(t)
<1>1. \A u \in Threads : MutexPC[u] \notin M!CriticalSection
  BY DEF Inv, LockInv, Critical, MutexPC, MutexPoint, M!CriticalSection
<1>2. MutexPC[t] = "lock" /\ MutexPC' = [MutexPC EXCEPT ![t] = "cs"]
  BY PCStep DEF Inv, LockStep, MutexPoint
<1>3. QED
  BY <1>1, <1>2
  DEF LockStep, Goto, mainVars, workVars, Threads, MutexPC, MutexPoint,
      M!Lock, M!LockStep, M!Goto, M!mainVars, M!workVars, M!Threads

\* unlock() is one step of the mutex.
LEMMA MutexLeaves ==
  ASSUME TypeOK, NEW t \in Threads, Clears(t) \/ UnlockMutex(t)
  PROVE  M!Unlock(t)
<1>1. MutexPC[t] = "unlock" /\ MutexPC' = [MutexPC EXCEPT ![t] = "loop"]
  BY PCStep DEF Clears, UnlockMutex, UnlockReturns, MutexPoint
<1>2. QED
  BY <1>1
  DEF Clears, UnlockMutex, UnlockReturns, Goto, mainVars, MutexPC, MutexPoint,
      M!Unlock, M!UnlockReturns, M!Goto, M!mainVars

\* A thread that tests or backs off is still calling lock().
LEMMA MutexStutter ==
  ASSUME TypeOK, NEW t \in Threads, NEW from, NEW to, LockStep(t, from, to),
         MutexPoint(from) = MutexPoint(to)
  PROVE  UNCHANGED M!harnessVars
<1>1. MutexPC' = MutexPC
  BY PCStep DEF LockStep, MutexPC
<1>2. QED
  BY <1>1 DEF LockStep, mainVars, workVars, MutexPC, MutexPoint, M!harnessVars

LEMMA MutexStep == Inv /\ [Next]_vars => [M!Next]_(M!harnessVars)
<1> SUFFICES ASSUME Inv, [Next]_vars PROVE [M!Next]_(M!harnessVars)
  OBVIOUS
<1> USE DEF Inv, M!Next, M!Worker, M!Threads, Threads
<1>1. CASE MainThread
  BY <1>1, MutexMainStep DEF MainThread
<1>2. ASSUME NEW t \in Threads, Worker(t)
      PROVE  [M!Next]_(M!harnessVars)
  <2>1. CASE WorkStep(t)
    BY <2>1, MutexWorkStep
  <2>2. ASSUME NEW from \in {"lock", "tas", "backoff"},
               NEW to \in {"lock", "tas", "backoff"}, Tries(t, from, to)
        PROVE  UNCHANGED M!harnessVars
    BY <2>2, MutexStutter DEF Tries, MutexPoint
  <2>3. ASSUME ByteLock, NEW from \in {"lock", "tas"}, Wins(t, from)
        PROVE  M!Lock(t)
    BY <2>3, MutexEnters DEF Wins
  <2>4. ASSUME locktype = "PTHREAD", LockMutex(t) PROVE M!Lock(t)
    BY <2>4, MutexEnters DEF LockMutex
  <2>5. CASE Clears(t) \/ UnlockMutex(t)
    BY <2>5, MutexLeaves
  <2>6. QED
    BY <1>2, <2>1, <2>2, <2>3, <2>4, <2>5, WorkerSteps
<1>3. CASE UNCHANGED vars
  BY <1>3 DEF vars, harnessVars, M!harnessVars
<1>4. QED
  BY <1>1, <1>2, <1>3 DEF Next

\* TASLock, TTASLock, BackoffLock and PThreadLock keep the promise of the LOCK
\* interface.
THEOREM Refinement == Spec => ImplementsMutex
<1>1. QED
  BY Invariance, MutexInit, MutexStep, PTL DEF Spec, ImplementsMutex, M!Spec

-----------------------------------------------------------------------------
(* What the mutex gives simple_test *)

MP == INSTANCE Mutex_proofs WITH
        pc <- [t \in Threads |->
                 IF pc[t] \in {"tas", "backoff"} THEN "lock" ELSE pc[t]]

\* The two instances of the mutex are the same.
LEMMA SameMutex == M!Spec => MP!Spec
<1>1. M!Init => MP!Init
  BY DEF M!Init, MP!Init, M!HarnessInit, MP!HarnessInit, M!Threads, MP!Threads
<1>2. M!MainStep => MP!MainStep
  BY DEF M!MainStep, M!Create, M!CreateFails, M!Join, M!DeleteLock, M!PrintCounter,
         M!workVars, MP!MainStep, MP!Create, MP!CreateFails, MP!Join,
         MP!DeleteLock, MP!PrintCounter, MP!workVars
<1>3. ASSUME NEW t PROVE M!Worker(t) => MP!Worker(t)
  <2> USE DEF M!Goto, M!mainVars, M!workVars, MP!Goto, MP!mainVars, MP!workVars
  <2>1. M!WorkStep(t) => MP!WorkStep(t)
    BY DEF M!WorkStep, M!CallLock, M!Finish, M!ReadCounter, M!WriteCounter,
           MP!WorkStep, MP!CallLock, MP!Finish, MP!ReadCounter, MP!WriteCounter
  <2>2. M!Lock(t) => MP!Lock(t)
    BY DEF M!Lock, M!LockStep, M!Threads, M!CriticalSection,
           MP!Lock, MP!LockStep, MP!Threads, MP!CriticalSection
  <2>3. M!Unlock(t) => MP!Unlock(t)
    BY DEF M!Unlock, M!UnlockReturns, MP!Unlock, MP!UnlockReturns
  <2>4. QED
    BY <2>1, <2>2, <2>3 DEF M!Worker, MP!Worker
<1>4. [M!Next]_(M!harnessVars) => [MP!Next]_(MP!harnessVars)
  BY <1>2, <1>3
  DEF M!Next, M!Threads, M!Exited, M!harnessVars,
      MP!Next, MP!Threads, MP!Exited, MP!harnessVars
<1>5. QED
  BY <1>1, <1>4, PTL DEF M!Spec, MP!Spec

LEMMA ImplementsMP == Spec => MP!Spec
  BY Refinement, SameMutex DEF ImplementsMutex

\* Whichever of these locks it runs, simple_test prints the number of all the
\* increments asked for.
THEOREM Report == Spec => []ReportExact
<1>1. MP!Spec => []MP!ReportExact
  BY MP!Report, SimpleTestAssumption DEF MP!SimpleTestAssumption
<1>2. MP!ReportExact <=> ReportExact
  BY DEF MP!ReportExact, ReportExact
<1>3. QED
  BY <1>1, <1>2, ImplementsMP, PTL

\* It deletes the lock only after every thread that uses it has returned.
THEOREM Delete == Spec => []NoUseAfterDelete
<1>1. MP!Spec => []MP!NoUseAfterDelete
  BY MP!Delete, SimpleTestAssumption DEF MP!SimpleTestAssumption
<1>2. MP!NoUseAfterDelete => NoUseAfterDelete
  BY DEF MP!NoUseAfterDelete, NoUseAfterDelete, MP!Threads, Threads
<1>3. QED
  BY <1>1, <1>2, ImplementsMP, PTL
=============================================================================
