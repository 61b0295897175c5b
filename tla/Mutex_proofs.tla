---------------------------- MODULE Mutex_proofs ----------------------------
(***************************************************************************)
(* What simple_test gets from any LOCK, for every number of threads and of *)
(* iterations: the proofs are about the mutex that each lock implements,   *)
(* and every lock takes over the theorems by INSTANCE.                     *)
(***************************************************************************)
EXTENDS Mutex, FiniteSetTheorems, TLAPS

-----------------------------------------------------------------------------
(* The harness *)

\* The main thread's steps keep the harness' variables in their types.
LEMMA MainStepType ==
  ASSUME NEW P, WorkPoints \subseteq P, HarnessTypeOK(P), MainStep
  PROVE  HarnessTypeOK(P)'
<1> USE SimpleTestAssumption DEF HarnessTypeOK, workVars
<1>1. CASE Create
  <2>1. "loop" \in P
    BY DEF WorkPoints
  <2>2. pc' \in [Threads -> P]
    BY <1>1, <2>1 DEF Create
  <2>3. created' \in 0 .. N
    BY <1>1 DEF Create
  <2>4. QED
    BY <1>1, <2>2, <2>3 DEF Create
<1>2. CASE CreateFails
  BY <1>2 DEF CreateFails
<1>3. CASE Join
  <2>1. joined' \in 0 .. N
    BY <1>3 DEF Join
  <2>2. QED
    BY <1>3, <2>1 DEF Join
<1>4. CASE DeleteLock
  BY <1>4 DEF DeleteLock
<1>5. CASE PrintCounter
  <2>1. printed' \in SUBSET Nat
    BY <1>5 DEF PrintCounter
  <2>2. QED
    BY <1>5, <2>1 DEF PrintCounter
<1>6. QED
  BY <1>1, <1>2, <1>3, <1>4, <1>5 DEF MainStep

\* So do a worker's own steps ...
LEMMA WorkStepType ==
  ASSUME NEW P, WorkPoints \subseteq P, HarnessTypeOK(P),
         NEW t \in Threads, WorkStep(t)
  PROVE  HarnessTypeOK(P)'
<1> USE DEF HarnessTypeOK, mainVars, workVars, Goto
<1>1. {"lock", "done", "store", "unlock"} \subseteq P
  BY DEF WorkPoints
<1>2. CASE CallLock(t)
  BY <1>1, <1>2 DEF CallLock
<1>3. CASE Finish(t)
  BY <1>1, <1>3 DEF Finish
<1>4. CASE ReadCounter(t)
  BY <1>1, <1>4 DEF ReadCounter
<1>5. CASE WriteCounter(t)
  BY <1>1, <1>5 DEF WriteCounter
<1>6. QED
  BY <1>2, <1>3, <1>4, <1>5 DEF WorkStep

\* ... and the steps of lock() and unlock().
LEMMA LockStepType ==
  ASSUME NEW P, HarnessTypeOK(P), NEW t \in Threads, NEW from, NEW to \in P,
         LockStep(t, from, to)
  PROVE  HarnessTypeOK(P)'
  BY DEF HarnessTypeOK, mainVars, workVars, Goto, LockStep

LEMMA UnlockReturnsType ==
  ASSUME NEW P, "loop" \in P, HarnessTypeOK(P), NEW t \in Threads, NEW from,
         UnlockReturns(t, from)
  PROVE  HarnessTypeOK(P)'
  BY DEF HarnessTypeOK, mainVars, Goto, UnlockReturns

-----------------------------------------------------------------------------
(* The increments *)

\* The increments stored so far: thread t has stored its i-th one.
Stored ==
  {w \in Threads \X (0 .. Iters-1) :
     \/ w[2] < iter[w[1]]
     \/ w[2] = iter[w[1]] /\ pc[w[1]] = "unlock"}

\* A worker calls lock() only for an iteration that is left.
LoopOK ==
  \A t \in Threads :
    /\ iter[t] <= Iters
    /\ pc[t] \in {"lock", "cs", "store", "unlock"} => iter[t] < Iters
    /\ pc[t] = "done" => iter[t] = Iters

\* What the critical section is for: nobody stores into the counter between
\* a thread's load and its store.
RegOK == \A t \in Threads : pc[t] = "store" => reg[t] = counter

\* How far main has come.
MainOK ==
  /\ joined > 0 => created = N
  /\ \A t \in Threads : t < joined => pc[t] = "done"
  /\ main = "run" => lockAlive
  /\ ~lockAlive => joined = N
  /\ main # "run" /\ created = N => joined = N
  /\ printed # {} => main = "exit" /\ printed = {counter}

\* A thread that main has not created yet has not begun.
BornOK == \A t \in Threads : t >= created => pc[t] = "unborn"

Inv ==
  /\ TypeOK
  /\ MutualExclusion
  /\ BornOK
  /\ LoopOK
  /\ RegOK
  /\ MainOK
  /\ counter = Cardinality(Stored)

-----------------------------------------------------------------------------
(* The type of every step, and mutual exclusion *)

\* Every step keeps the variables in their types.
LEMMA TypeStep == TypeOK /\ [Next]_harnessVars => TypeOK'
<1> SUFFICES ASSUME TypeOK, [Next]_harnessVars PROVE TypeOK'
  OBVIOUS
<1> USE DEF TypeOK
<1>1. CASE MainStep
  BY <1>1, MainStepType
<1>2. ASSUME NEW t \in Threads, Worker(t) PROVE HarnessTypeOK(WorkPoints)'
  <2>0. {"cs", "loop"} \subseteq WorkPoints
    BY DEF WorkPoints
  <2>1. CASE WorkStep(t)
    BY <2>1, WorkStepType
  <2>2. CASE Lock(t)
    BY <2>0, <2>2, LockStepType DEF Lock
  <2>3. CASE Unlock(t)
    BY <2>0, <2>3, UnlockReturnsType DEF Unlock
  <2>4. QED
    BY <1>2, <2>1, <2>2, <2>3 DEF Worker
<1>3. CASE UNCHANGED harnessVars
  BY <1>3 DEF harnessVars, HarnessTypeOK
<1>4. QED
  BY <1>1, <1>2, <1>3 DEF Next

\* A worker's step is a step from one point of the program to the next.
LEMMA WorkerMoves ==
  ASSUME TypeOK, NEW t \in Threads, Worker(t)
  PROVE  /\ main # "exit" /\ UNCHANGED mainVars
         /\ \A u \in Threads \ {t} : pc'[u] = pc[u] /\ iter'[u] = iter[u] /\ reg'[u] = reg[u]
         /\ \/ pc[t] = "loop" /\ pc'[t] = "lock" /\ iter[t] < Iters
               /\ iter'[t] = iter[t] /\ counter' = counter
            \/ pc[t] = "loop" /\ pc'[t] = "done" /\ iter[t] >= Iters
               /\ iter'[t] = iter[t] /\ counter' = counter
            \/ pc[t] = "lock" /\ pc'[t] = "cs"
               /\ (\A u \in Threads : pc[u] \notin CriticalSection)
               /\ iter'[t] = iter[t] /\ counter' = counter
            \/ pc[t] = "cs" /\ pc'[t] = "store"
               /\ reg'[t] = counter /\ iter'[t] = iter[t] /\ counter' = counter
            \/ pc[t] = "store" /\ pc'[t] = "unlock"
               /\ iter'[t] = iter[t] /\ counter' = reg[t] + 1
            \/ pc[t] = "unlock" /\ pc'[t] = "loop"
               /\ iter'[t] = iter[t] + 1 /\ counter' = counter
<1> USE DEF TypeOK, HarnessTypeOK, Goto, mainVars, workVars
<1>1. CASE CallLock(t)
  BY <1>1 DEF CallLock
<1>2. CASE Finish(t)
  BY <1>2 DEF Finish
<1>3. CASE ReadCounter(t)
  BY <1>3 DEF ReadCounter
<1>4. CASE WriteCounter(t)
  BY <1>4 DEF WriteCounter
<1>5. CASE Lock(t)
  BY <1>5 DEF Lock, LockStep
<1>6. CASE Unlock(t)
  BY <1>6 DEF Unlock, UnlockReturns
<1>7. QED
  BY <1>1, <1>2, <1>3, <1>4, <1>5, <1>6 DEF Worker, WorkStep

\* A step of main moves no worker but the one it creates.
LEMMA MainMoves ==
  ASSUME TypeOK, MainStep
  PROVE  /\ UNCHANGED workVars
         /\ \A t \in Threads :
              \/ pc'[t] = pc[t]
              \/ Create /\ t = created /\ pc'[t] = "loop"
  BY SimpleTestAssumption
  DEF MainStep, Create, CreateFails, Join, DeleteLock, PrintCounter, workVars,
      TypeOK, HarnessTypeOK

-----------------------------------------------------------------------------
(* The number of the increments stored *)

\* There are finitely many increments, N * Iters of them in all.
LEMMA AllStored ==
  /\ IsFiniteSet(Threads \X (0 .. Iters-1))
  /\ Cardinality(Threads \X (0 .. Iters-1)) = N * Iters
<1> USE SimpleTestAssumption
<1>1. IsFiniteSet(Threads) /\ Cardinality(Threads) = N
  BY FS_Interval DEF Threads
<1>2. IsFiniteSet(0 .. Iters-1) /\ Cardinality(0 .. Iters-1) = Iters
  BY FS_Interval
<1>3. QED
  BY <1>1, <1>2, FS_Product

LEMMA StoredFinite == IsFiniteSet(Stored) /\ Cardinality(Stored) \in Nat
<1>1. IsFiniteSet(Stored)
  BY AllStored, FS_Subset DEF Stored
<1>2. QED
  BY <1>1, FS_CardinalityType

\* Nothing happens to them unless a worker stores into the counter, ...
LEMMA StoredStays ==
  ASSUME TypeOK, TypeOK', NEW t \in Threads,
         \A u \in Threads \ {t} : pc'[u] = pc[u] /\ iter'[u] = iter[u],
         \/ pc[t] # "unlock" /\ pc'[t] # "unlock" /\ iter'[t] = iter[t]
         \/ pc[t] = "unlock" /\ pc'[t] # "unlock" /\ iter'[t] = iter[t] + 1
  PROVE  Stored' = Stored
<1>1. ASSUME NEW u \in Threads, NEW i \in 0 .. Iters-1
      PROVE  (i < iter'[u] \/ (i = iter'[u] /\ pc'[u] = "unlock"))
               <=> (i < iter[u] \/ (i = iter[u] /\ pc[u] = "unlock"))
  <2>1. iter[u] \in Nat /\ iter'[u] \in Nat /\ i \in Nat
    BY SimpleTestAssumption DEF TypeOK, HarnessTypeOK
  <2>2. QED
    BY <2>1
<1>2. QED
  BY <1>1 DEF Stored

\* ... which adds the one it is about.
LEMMA StoredGrows ==
  ASSUME Inv, TypeOK', NEW t \in Threads, pc[t] = "store", pc'[t] = "unlock",
         iter'[t] = iter[t],
         \A u \in Threads \ {t} : pc'[u] = pc[u] /\ iter'[u] = iter[u]
  PROVE  Cardinality(Stored') = Cardinality(Stored) + 1
<1> DEFINE w == <<t, iter[t]>>
<1>1. iter[t] \in 0 .. Iters-1
  BY SimpleTestAssumption DEF Inv, LoopOK, TypeOK, HarnessTypeOK
<1>2. w \notin Stored /\ w \in Threads \X (0 .. Iters-1)
  BY <1>1 DEF Stored
<1>3. Stored' = Stored \cup {w}
  BY <1>1, <1>2 DEF Stored
<1>4. QED
  BY <1>2, <1>3, StoredFinite, FS_AddElement

-----------------------------------------------------------------------------
(* The invariant *)

LEMMA InvInit == Init => Inv
<1> SUFFICES ASSUME Init PROVE Inv
  OBVIOUS
<1> USE SimpleTestAssumption DEF Init, HarnessInit
<1>1. TypeOK
  BY DEF TypeOK, HarnessTypeOK, WorkPoints
<1>2. MutualExclusion /\ BornOK /\ LoopOK /\ RegOK /\ MainOK
  BY DEF MutualExclusion, CriticalSection, BornOK, LoopOK, RegOK, MainOK, Threads
<1>3. Stored = {}
  BY DEF Stored
<1>4. QED
  BY <1>1, <1>2, <1>3, FS_EmptySet DEF Inv

LEMMA InvMain ==
  ASSUME Inv, MainStep, TypeOK'
  PROVE  Inv'
<1> USE MainMoves DEF Inv
<1>1. ASSUME Create PROVE created \in Threads /\ pc[created] = "unborn"
  BY <1>1, SimpleTestAssumption DEF Create, BornOK, TypeOK, HarnessTypeOK, Threads
<1>2. MutualExclusion'
  BY DEF MutualExclusion, CriticalSection
<1>3. BornOK'
  <2>1. CASE Create
    BY <2>1, SimpleTestAssumption
    DEF Create, BornOK, TypeOK, HarnessTypeOK, Threads
  <2>2. CASE CreateFails \/ Join \/ DeleteLock \/ PrintCounter
    BY <2>2 DEF CreateFails, Join, DeleteLock, PrintCounter, BornOK
  <2>3. QED
    BY <2>1, <2>2 DEF MainStep
<1>4. LoopOK'
  BY DEF LoopOK, workVars
<1>5. RegOK'
  BY DEF RegOK, workVars
<1>6. MainOK'
  <2> USE SimpleTestAssumption DEF MainOK, TypeOK, HarnessTypeOK, Threads, workVars
  <2>1. CASE Create
    BY <2>1 DEF Create
  <2>2. CASE CreateFails
    BY <2>2 DEF CreateFails
  <2>3. CASE Join
    BY <2>3 DEF Join
  <2>4. CASE DeleteLock
    BY <2>4 DEF DeleteLock
  <2>5. CASE PrintCounter
    BY <2>5 DEF PrintCounter
  <2>6. QED
    BY <2>1, <2>2, <2>3, <2>4, <2>5 DEF MainStep
<1>7. Stored' = Stored
  BY <1>1 DEF Stored, workVars
<1>8. QED
  BY <1>2, <1>3, <1>4, <1>5, <1>6, <1>7 DEF workVars

LEMMA InvWorker ==
  ASSUME Inv, NEW t \in Threads, Worker(t), TypeOK'
  PROVE  Inv'
<1> USE WorkerMoves DEF Inv
<1>1. MutualExclusion'
  BY DEF MutualExclusion, CriticalSection
<1>2. BornOK'
  BY DEF BornOK, mainVars
<1>3. LoopOK'
  BY SimpleTestAssumption DEF LoopOK, TypeOK, HarnessTypeOK
<1>4. RegOK'
  BY DEF RegOK, MutualExclusion, CriticalSection
<1>5. MainOK'
  BY DEF MainOK, mainVars
<1>6. counter' = Cardinality(Stored')
  <2>1. CASE pc[t] = "store"
    BY <2>1, StoredGrows DEF RegOK
  <2>2. CASE pc[t] # "store"
    BY <2>2, StoredStays
  <2>3. QED
    BY <2>1, <2>2
<1>7. QED
  BY <1>1, <1>2, <1>3, <1>4, <1>5, <1>6

LEMMA InvStep == Inv /\ [Next]_harnessVars => Inv'
<1> SUFFICES ASSUME Inv, [Next]_harnessVars PROVE Inv'
  OBVIOUS
<1>1. TypeOK'
  BY TypeStep DEF Inv
<1>2. CASE MainStep
  BY <1>1, <1>2, InvMain
<1>3. ASSUME NEW t \in Threads, Worker(t) PROVE Inv'
  BY <1>1, <1>3, InvWorker
<1>4. CASE UNCHANGED harnessVars
  <2>1. Stored' = Stored
    BY <1>4 DEF Stored, harnessVars
  <2>2. QED
    BY <1>1, <1>4, <2>1
    DEF Inv, harnessVars, MutualExclusion, BornOK, LoopOK, RegOK, MainOK
<1>5. QED
  BY <1>2, <1>3, <1>4 DEF Next

-----------------------------------------------------------------------------
(* What simple_test gets *)

\* The counter is the number of increments stored, which one thread at a time
\* adds to; main deletes the lock after it has joined every thread it created.
THEOREM Invariance == Spec => []Inv
<1>1. QED
  BY InvInit, InvStep, PTL DEF Spec

\* Never two threads between the return of lock() and that of unlock().
THEOREM Exclusion == Spec => []MutualExclusion
<1>1. Inv => MutualExclusion
  BY DEF Inv
<1>2. QED
  BY <1>1, Invariance, PTL

\* When main has joined all of them, every increment is stored.
LEMMA InvReport == Inv => ReportExact
<1> SUFFICES ASSUME Inv, created = N, printed # {} PROVE printed = {N * Iters}
  BY DEF ReportExact
<1>1. joined = N /\ printed = {counter}
  BY DEF Inv, MainOK
<1>2. \A t \in Threads : iter[t] = Iters
  BY <1>1, SimpleTestAssumption DEF Inv, MainOK, LoopOK, Threads
<1>3. Stored = Threads \X (0 .. Iters-1)
  BY <1>2, SimpleTestAssumption DEF Stored
<1>4. QED
  BY <1>1, <1>3, AllStored DEF Inv

\* main prints the number of all the increments asked for.
THEOREM Report == Spec => []ReportExact
<1>1. QED
  BY Invariance, InvReport, PTL

\* The lock is deleted after the last thread is done with it.
LEMMA InvDelete == Inv => NoUseAfterDelete
  BY SimpleTestAssumption DEF Inv, MainOK, NoUseAfterDelete, Threads

\* main deletes the lock when no thread is going to use it any more.
THEOREM Delete == Spec => []NoUseAfterDelete
<1>1. QED
  BY Invariance, InvDelete, PTL
=============================================================================
