---------------------------- MODULE ALock_proofs ----------------------------
(***************************************************************************)
(* Proofs about the array lock, for every number of threads and of         *)
(* iterations.                                                             *)
(***************************************************************************)
EXTENDS ALock, FiniteSetTheorems, TLAPS

-----------------------------------------------------------------------------
(* The harness *)

\* The main thread's steps keep the harness' variables in their types.
LEMMA MainStepType ==
  ASSUME NEW P, WorkPoints \subseteq P, HarnessTypeOK(P), MainStep
  PROVE  HarnessTypeOK(P)'
<1> USE SimpleTestAssumption DEF HarnessTypeOK, workVars
<1>1. CASE Create
  <2>1. "loop" \in P
    BY DEF WorkPoints
  <2>2. pc' \in [Threads -> P]
    BY <1>1, <2>1 DEF Create
  <2>3. created' \in 0 .. N
    BY <1>1 DEF Create
  <2>4. QED
    BY <1>1, <2>2, <2>3 DEF Create
<1>2. CASE CreateFails
  BY <1>2 DEF CreateFails
<1>3. CASE Join
  <2>1. joined' \in 0 .. N
    BY <1>3 DEF Join
  <2>2. QED
    BY <1>3, <2>1 DEF Join
<1>4. CASE DeleteLock
  BY <1>4 DEF DeleteLock
<1>5. CASE PrintCounter
  <2>1. printed' \in SUBSET Nat
    BY <1>5 DEF PrintCounter
  <2>2. QED
    BY <1>5, <2>1 DEF PrintCounter
<1>6. QED
  BY <1>1, <1>2, <1>3, <1>4, <1>5 DEF MainStep

\* So do a worker's own steps ...
LEMMA WorkStepType ==
  ASSUME NEW P, WorkPoints \subseteq P, HarnessTypeOK(P),
         NEW t \in Threads, WorkStep(t)
  PROVE  HarnessTypeOK(P)'
<1> USE DEF HarnessTypeOK, mainVars, workVars, Goto
<1>1. {"lock", "done", "store", "unlock"} \subseteq P
  BY DEF WorkPoints
<1>2. CASE CallLock(t)
  BY <1>1, <1>2 DEF CallLock
<1>3. CASE Finish(t)
  BY <1>1, <1>3 DEF Finish
<1>4. CASE ReadCounter(t)
  BY <1>1, <1>4 DEF ReadCounter
<1>5. CASE WriteCounter(t)
  BY <1>1, <1>5 DEF WriteCounter
<1>6. QED
  BY <1>2, <1>3, <1>4, <1>5 DEF WorkStep

\* ... and the steps of lock() and unlock().
LEMMA LockStepType ==
  ASSUME NEW P, HarnessTypeOK(P), NEW t \in Threads, NEW from, NEW to \in P,
         LockStep(t, from, to)
  PROVE  HarnessTypeOK(P)'
  BY DEF HarnessTypeOK, mainVars, workVars, Goto, LockStep

LEMMA UnlockReturnsType ==
  ASSUME NEW P, "loop" \in P, HarnessTypeOK(P), NEW t \in Threads, NEW from,
         UnlockReturns(t, from)
  PROVE  HarnessTypeOK(P)'
  BY DEF HarnessTypeOK, mainVars, Goto, UnlockReturns

\* No step of a worker moves another one.
LEMMA GotoMoves ==
  ASSUME NEW P, HarnessTypeOK(P), NEW t \in Threads, NEW from, NEW to,
         Goto(t, from, to)
  PROVE  /\ pc[t] = from /\ pc'[t] = to
         /\ \A u \in Threads : u # t => pc'[u] = pc[u]
  BY DEF HarnessTypeOK, Goto

-----------------------------------------------------------------------------
(* Slots: tickets modulo the number of threads *)

\* Quotient and remainder are unique.
LEMMA QuotientUnique ==
  ASSUME NEW k \in Nat \ {0}, NEW p \in Nat, NEW q \in Nat,
         NEW r \in 0 .. k-1, NEW s \in 0 .. k-1, k * p + r = k * q + s
  PROVE  p = q
<1>1. ASSUME NEW x \in Nat, NEW y \in Nat, x < y
      PROVE  k * x + k <= k * y
  <2> DEFINE d == y - x - 1
  <2>1. d \in Nat /\ y = x + 1 + d
    BY <1>1
  <2> HIDE DEF d
  <2>2. k * y = k * x + k + k * d /\ k * d \in Nat
    BY <2>1
  <2>3. QED
    BY <2>2
<1>2. k * p \in Nat /\ k * q \in Nat
  OBVIOUS
<1>3. ~ (p < q)
  BY <1>1, <1>2
<1>4. ~ (q < p)
  BY <1>1, <1>2
<1>5. QED
  BY <1>3, <1>4

\* Two numbers less than k apart are equal if they are so modulo k.
LEMMA ModWindow ==
  ASSUME NEW k \in Nat \ {0}, NEW a \in Nat, NEW b \in Nat,
         a <= b, b < a + k, a % k = b % k
  PROVE  a = b
<1> DEFINE p == a \div k
           q == b \div k
           r == a % k
<1>1. p \in Nat /\ q \in Nat /\ r \in 0 .. k-1
  OBVIOUS
<1>2. a = k * p + r /\ b = k * q + r
  OBVIOUS
<1> HIDE DEF p, q, r
<1>3. b - a \in 0 .. k-1 /\ k * p + (b - a) = k * q + 0
  BY <1>1, <1>2
<1>4. p = q
  BY <1>1, <1>3, QuotientUnique
<1>5. QED
  BY <1>1, <1>2, <1>4

\* The slot after a ticket's slot is the slot of the next ticket.
LEMMA ModSucc ==
  ASSUME NEW k \in Nat \ {0}, NEW a \in Nat
  PROVE  ((a % k) + 1) % k = (a + 1) % k
<1> DEFINE p == a \div k
           r == a % k
           u == (a + 1) \div k
           v == (a + 1) % k
<1>1. p \in Nat /\ r \in 0 .. k-1 /\ a = k * p + r
  OBVIOUS
<1>2. u \in Nat /\ v \in 0 .. k-1 /\ a + 1 = k * u + v
  OBVIOUS
<1> SUFFICES (r + 1) % k = v
  OBVIOUS
<1> HIDE DEF p, r, u, v
<1>3. CASE r + 1 < k
  <2>1. r + 1 \in 0 .. k-1 /\ k * p + (r + 1) = k * u + v
    BY <1>1, <1>2, <1>3
  <2>2. p = u
    BY <1>1, <1>2, <2>1, QuotientUnique
  <2>3. r + 1 = v
    BY <1>1, <1>2, <2>1, <2>2
  <2>4. (r + 1) % k = r + 1
    BY <2>1
  <2>5. QED
    BY <2>3, <2>4
<1>4. CASE r + 1 = k
  <2>1. k * (p + 1) + 0 = k * u + v
    BY <1>1, <1>2, <1>4
  <2>2. p + 1 = u
    BY <1>1, <1>2, <2>1, QuotientUnique
  <2>3. v = 0
    BY <1>1, <1>2, <2>1, <2>2
  <2>4. k % k = 0
    OBVIOUS
  <2>5. QED
    BY <1>4, <2>3, <2>4
<1>5. QED
  BY <1>1, <1>3, <1>4

-----------------------------------------------------------------------------
(* The queue *)

LEMMA ThreadsFinite == IsFiniteSet(Threads) /\ Cardinality(Threads) = N
  BY FS_Interval, SimpleTestAssumption DEF Threads

\* There are at most N threads in the queue.
LEMMA QueueSize ==
  /\ IsFiniteSet(Queue)
  /\ Cardinality(Queue) \in 0 .. N
  /\ tail \in Nat => Serving \in Int /\ tail = Serving + Cardinality(Queue)
<1>1. Queue \subseteq Threads
  BY DEF Queue
<1>2. IsFiniteSet(Queue) /\ Cardinality(Queue) <= N
  BY <1>1, ThreadsFinite, FS_Subset
<1>3. Cardinality(Queue) \in Nat
  BY <1>2, FS_CardinalityType
<1>4. QED
  BY <1>2, <1>3, SimpleTestAssumption DEF Serving

\* A step that changes neither the queue nor tail does not change the turn.
LEMMA SameQueue ==
  ASSUME \A u \in Threads : HasTicket(u)' <=> HasTicket(u), tail' = tail
  PROVE  Queue' = Queue /\ Serving' = Serving
<1>1. Queue' = Queue
  BY DEF Queue
<1>2. QED
  BY <1>1 DEF Serving

\* Joining the queue does not change the turn.
LEMMA JoinQueue ==
  ASSUME tail \in Nat, NEW t \in Threads, ~ HasTicket(t), HasTicket(t)',
         \A u \in Threads : u # t => (HasTicket(u)' <=> HasTicket(u)),
         tail' = tail + 1
  PROVE  Queue' = Queue \cup {t} /\ Serving' = Serving
<1>1. Queue' = Queue \cup {t} /\ t \notin Queue
  BY DEF Queue
<1>2. Cardinality(Queue') = Cardinality(Queue) + 1
  BY <1>1, QueueSize, FS_AddElement
<1>3. Serving' = tail' - Cardinality(Queue')
  BY DEF Serving
<1>4. QED
  BY <1>1, <1>2, <1>3, QueueSize DEF Serving

\* Leaving the queue passes the turn on.
LEMMA LeaveQueue ==
  ASSUME tail \in Nat, NEW t \in Threads, HasTicket(t), ~ HasTicket(t)',
         \A u \in Threads : u # t => (HasTicket(u)' <=> HasTicket(u)),
         tail' = tail
  PROVE  Queue' = Queue \ {t} /\ Serving' = Serving + 1
<1>1. Queue' = Queue \ {t} /\ t \in Queue
  BY DEF Queue
<1>2. Cardinality(Queue') = Cardinality(Queue) - 1
  BY <1>1, QueueSize, FS_RemoveElement
<1>3. Serving' = tail' - Cardinality(Queue')
  BY DEF Serving
<1>4. QED
  BY <1>1, <1>2, <1>3, QueueSize DEF Serving

-----------------------------------------------------------------------------
(* What the invariant says of one state *)

\* The lock has one holder.
LEMMA OneHolder == Inv => MutualExclusion
  BY DEF Inv, MutualExclusion, HolderIsServed, TicketsDistinct, Queue, HasTicket

\* Tickets in the queue that fall on the same slot are the same.
LEMMA SlotsAreDistinct == Inv => SlotsDistinct
<1> SUFFICES ASSUME Inv, NEW t \in Queue, NEW u \in Queue,
                    SlotOf(ticket[t]) = SlotOf(ticket[u])
             PROVE  t = u
  BY DEF SlotsDistinct
<1>1. /\ tail \in Nat
      /\ ticket[t] \in Nat /\ ticket[u] \in Nat
      /\ Serving <= ticket[t] /\ ticket[t] < tail
      /\ Serving <= ticket[u] /\ ticket[u] < tail
  BY DEF Inv, TypeOK, TicketsInLine, Queue
<1>2. tail <= Serving + N
  BY <1>1, QueueSize, SimpleTestAssumption
<1>3. Serving \in Int /\ N \in Nat \ {0}
  BY <1>1, QueueSize, SimpleTestAssumption
<1>4. ticket[t] < ticket[u] + N /\ ticket[u] < ticket[t] + N
  BY <1>1, <1>2, <1>3
<1>5. ticket[t] % N = ticket[u] % N
  BY DEF SlotOf, Size
<1>6. ticket[t] = ticket[u]
  <2>1. CASE ticket[t] <= ticket[u]
    BY <1>1, <1>3, <1>4, <1>5, <2>1, ModWindow
  <2>2. CASE ticket[u] <= ticket[t]
    BY <1>1, <1>3, <1>4, <1>5, <2>2, ModWindow
  <2>3. QED
    BY <1>1, <2>1, <2>2
<1>7. QED
  BY <1>6 DEF Inv, TicketsDistinct

\* A thread in the queue whose slot is the one of the turn has the turn.
LEMMA TurnBySlot ==
  ASSUME Inv, NEW t \in Queue, SlotOf(ticket[t]) = SlotOf(Serving)
  PROVE  ticket[t] = Serving
<1>1. /\ tail \in Nat /\ ticket[t] \in Nat /\ Serving \in Nat
      /\ Serving <= ticket[t] /\ ticket[t] < tail
  BY DEF Inv, TypeOK, TicketsInLine, Queue
<1>2. N \in Nat \ {0} /\ ticket[t] < Serving + N
  BY <1>1, QueueSize, SimpleTestAssumption
<1>3. ticket[t] % N = Serving % N
  BY DEF SlotOf, Size
<1>4. QED
  BY <1>1, <1>2, <1>3, ModWindow


-----------------------------------------------------------------------------
(* The types *)

LEMMA TypeInit == Init => TypeOK
  BY SimpleTestAssumption
  DEF Init, HarnessInit, TypeOK, HarnessTypeOK, Points, WorkPoints, Threads,
      Slots, Size

LEMMA SlotType == \A n \in Nat : SlotOf(n) \in Slots
  BY SimpleTestAssumption DEF SlotOf, Slots, Size

LEMMA TypeStep == TypeOK /\ [Next]_vars => TypeOK'
<1> SUFFICES ASSUME TypeOK, [Next]_vars PROVE TypeOK'
  OBVIOUS
<1> DEFINE LockTypeOK ==
             /\ flag \in [Slots -> BOOLEAN]
             /\ tail \in Nat
             /\ ticket \in [Threads -> Nat]
             /\ curslot \in Slots
             /\ nextslot \in [Threads -> Slots]
<1>1. HarnessTypeOK(Points) /\ LockTypeOK
  BY DEF TypeOK
<1>2. /\ WorkPoints \subseteq Points
      /\ {"loop", "spin", "claim", "record", "cs", "release"} \subseteq Points
  BY DEF Points, WorkPoints
<1> SUFFICES HarnessTypeOK(Points)' /\ LockTypeOK'
  BY DEF TypeOK
<1>3. CASE MainStep /\ UNCHANGED lockVars
  BY <1>1, <1>2, <1>3, MainStepType DEF lockVars
<1>4. ASSUME NEW t \in Threads, Worker(t)
      PROVE  HarnessTypeOK(Points)' /\ LockTypeOK'
  <2>1. CASE WorkStep(t) /\ UNCHANGED lockVars
    BY <1>1, <1>2, <2>1, WorkStepType DEF lockVars
  <2>2. CASE TakeTicket(t)
    BY <1>1, <1>2, <2>2, LockStepType DEF TakeTicket
  <2>3. CASE SeeFlag(t)
    BY <1>1, <1>2, <2>3, LockStepType DEF SeeFlag, lockVars
  <2>4. CASE SeeNoFlag(t)
    BY <1>1, <1>2, <2>4, LockStepType DEF SeeNoFlag, lockVars
  <2>5. CASE LowerFlag(t)
    BY <1>1, <1>2, <2>5, LockStepType DEF LowerFlag
  <2>6. CASE RecordSlot(t)
    BY <1>1, <1>2, <2>6, LockStepType, SlotType DEF RecordSlot
  <2>7. CASE ReadSlot(t)
    <3>1. SlotOf(curslot + 1) \in Slots
      BY <1>1, SlotType, SimpleTestAssumption DEF Slots, Size
    <3>2. QED
      BY <1>1, <1>2, <2>7, <3>1, LockStepType DEF ReadSlot
  <2>8. CASE RaiseFlag(t)
    BY <1>1, <1>2, <2>8, UnlockReturnsType DEF RaiseFlag
  <2>9. QED
    BY <1>4, <2>1, <2>2, <2>3, <2>4, <2>5, <2>6, <2>7, <2>8 DEF Worker
<1>5. CASE UNCHANGED vars
  BY <1>1, <1>5 DEF vars, harnessVars, HarnessTypeOK
<1>6. QED
  BY <1>3, <1>4, <1>5 DEF Next

\* Every variable keeps its type.
THEOREM TypeCorrect == Spec => []TypeOK
<1>1. QED
  BY TypeInit, TypeStep, PTL DEF Spec


-----------------------------------------------------------------------------
(* The invariant *)

LEMMA InvInit == Init => Inv
<1> SUFFICES ASSUME Init PROVE Inv
  OBVIOUS
<1>1. TypeOK
  BY TypeInit
<1>2. \A t \in Threads : pc[t] = "unborn"
  BY DEF Init, HarnessInit
<1>3. Queue = {}
  BY <1>2 DEF Queue, HasTicket, Holding
<1>4. Serving = 0
  BY <1>3, FS_EmptySet DEF Serving, Init
<1>5. SlotOf(0) = 0
  BY SimpleTestAssumption DEF SlotOf, Size
<1>6. OneFlag
  BY <1>2, <1>4, <1>5 DEF OneFlag, Init, Holding
<1>7. QED
  BY <1>1, <1>2, <1>3, <1>4, <1>6
  DEF Inv, NotYetCreated, TicketsInLine, TicketsDistinct, HolderIsServed,
      CurslotIsHolders, NextIsRaised, Holding

\* A step that moves nobody along the queue, except between the return of
\* lock() and the call of unlock(), and leaves the lock alone keeps the
\* invariant.
LEMMA InvElsewhere ==
  ASSUME Inv, TypeOK', NotYetCreated', UNCHANGED lockVars,
         \A u \in Threads :
           \/ pc'[u] = pc[u]
           \/ ~ HasTicket(u) /\ ~ HasTicket(u)'
           \/ {pc[u], pc'[u]} \subseteq {"cs", "store", "unlock"}
  PROVE  Inv'
<1>1. \A u \in Threads : HasTicket(u)' <=> HasTicket(u)
  BY DEF HasTicket, Holding
<1>2. Queue' = Queue /\ Serving' = Serving
  BY <1>1, SameQueue DEF lockVars
<1>3. \A u \in Threads :
        /\ pc'[u] \in Holding <=> pc[u] \in Holding
        /\ pc'[u] = "claim" <=> pc[u] = "claim"
        /\ pc'[u] = "release" <=> pc[u] = "release"
        /\ pc'[u] \in {"cs", "store", "unlock"} <=>
             pc[u] \in {"cs", "store", "unlock"}
  BY DEF HasTicket, Holding
<1>4. TicketsInLine' /\ TicketsDistinct'
  BY <1>2 DEF Inv, TicketsInLine, TicketsDistinct, lockVars
<1>5. HolderIsServed'
  BY <1>2, <1>3 DEF Inv, HolderIsServed, lockVars
<1>6. OneFlag'
  BY <1>2, <1>3 DEF Inv, OneFlag, SlotOf, lockVars
<1>7. CurslotIsHolders' /\ NextIsRaised'
  BY <1>2, <1>3 DEF Inv, CurslotIsHolders, NextIsRaised, SlotOf, lockVars
<1>8. QED
  BY <1>4, <1>5, <1>6, <1>7 DEF Inv

\* A worker's step does not move the threads that do not exist yet.
LEMMA NotYetCreatedStep ==
  ASSUME Inv, NEW t \in Threads, NEW from, NEW to,
         Goto(t, from, to), from # "unborn", created' = created
  PROVE  NotYetCreated'
<1>1. \A u \in Threads : u # t => pc'[u] = pc[u]
  BY GotoMoves DEF Inv, TypeOK
<1>2. pc[t] # "unborn"
  BY GotoMoves DEF Inv, TypeOK
<1>3. QED
  BY <1>1, <1>2 DEF Inv, NotYetCreated

LEMMA InvMainStep ==
  ASSUME Inv, TypeOK', MainStep, UNCHANGED lockVars
  PROVE  Inv'
<1>1. CASE Create
  <2>1. created \in Threads /\ pc[created] = "unborn"
    BY <1>1, SimpleTestAssumption
    DEF Create, Inv, TypeOK, HarnessTypeOK, NotYetCreated, Threads
  <2>2. pc'[created] = "loop" /\ \A u \in Threads : u # created => pc'[u] = pc[u]
    BY <1>1, <2>1 DEF Create, Inv, TypeOK, HarnessTypeOK
  <2>3. NotYetCreated'
    <3> SUFFICES ASSUME NEW u \in Threads, u >= created'
                 PROVE  pc'[u] = "unborn"
      BY DEF NotYetCreated
    <3>1. created \in Nat /\ created' = created + 1 /\ u \in Nat
      BY <1>1, <2>1, SimpleTestAssumption DEF Create, Threads
    <3>2. u # created /\ u >= created
      BY <3>1
    <3>3. QED
      BY <2>2, <3>2 DEF Inv, NotYetCreated
  <2>4. \A u \in Threads : pc'[u] = pc[u] \/ (~ HasTicket(u) /\ ~ HasTicket(u)')
    BY <2>1, <2>2 DEF HasTicket, Holding
  <2>5. QED
    BY <2>3, <2>4, InvElsewhere
<1>2. CASE CreateFails \/ Join \/ DeleteLock \/ PrintCounter
  <2>1. pc' = pc /\ created' = created
    BY <1>2 DEF CreateFails, Join, DeleteLock, PrintCounter
  <2>2. NotYetCreated'
    BY <2>1 DEF Inv, NotYetCreated
  <2>3. QED
    BY <2>1, <2>2, InvElsewhere
<1>3. QED
  BY <1>1, <1>2 DEF MainStep

LEMMA InvWorkStep ==
  ASSUME Inv, TypeOK', NEW t \in Threads, WorkStep(t), UNCHANGED lockVars
  PROVE  Inv'
<1>1. PICK from, to :
        /\ Goto(t, from, to)
        /\ \/ from = "loop" /\ to \in {"lock", "done"}
           \/ from \in {"cs", "store"} /\ to \in {"store", "unlock"}
  BY DEF WorkStep, CallLock, Finish, ReadCounter, WriteCounter
<1>2. created' = created
  BY DEF WorkStep, CallLock, Finish, ReadCounter, WriteCounter, mainVars
<1>3. NotYetCreated'
  BY <1>1, <1>2, NotYetCreatedStep
<1>4. pc[t] = from /\ pc'[t] = to /\ \A u \in Threads : u # t => pc'[u] = pc[u]
  BY <1>1, GotoMoves DEF Inv, TypeOK
<1>5. QED
  BY <1>1, <1>3, <1>4, InvElsewhere DEF HasTicket, Holding

\* What a step of lock() or unlock() that stays in the queue does to it.
LEMMA QueueStep ==
  ASSUME Inv, NEW t \in Threads, NEW from, NEW to, LockStep(t, from, to),
         from \in Holding \cup {"spin"}, to \in Holding \cup {"spin"},
         tail' = tail
  PROVE  /\ Queue' = Queue /\ Serving' = Serving /\ t \in Queue
         /\ NotYetCreated'
         /\ pc[t] = from /\ pc'[t] = to
         /\ \A u \in Threads : u # t => pc'[u] = pc[u]
<1>1. Goto(t, from, to) /\ created' = created
  BY DEF LockStep, mainVars
<1>2. pc[t] = from /\ pc'[t] = to /\ \A u \in Threads : u # t => pc'[u] = pc[u]
  BY <1>1, GotoMoves DEF Inv, TypeOK
<1>3. \A u \in Threads : HasTicket(u)' <=> HasTicket(u)
  BY <1>2 DEF HasTicket
<1>4. from # "unborn"
  BY DEF Holding
<1>5. QED
  BY <1>1, <1>2, <1>3, <1>4, SameQueue, NotYetCreatedStep DEF Queue, HasTicket

LEMMA InvTakeTicket ==
  ASSUME Inv, TypeOK', NEW t \in Threads, TakeTicket(t)
  PROVE  Inv'
<1>1. Goto(t, "lock", "spin") /\ created' = created
  BY DEF TakeTicket, LockStep, mainVars
<1>2. /\ pc[t] = "lock" /\ pc'[t] = "spin"
      /\ \A u \in Threads : u # t => pc'[u] = pc[u]
  BY <1>1, GotoMoves DEF Inv, TypeOK
<1>3. /\ tail \in Nat /\ tail' = tail + 1
      /\ ticket'[t] = tail /\ \A u \in Threads : u # t => ticket'[u] = ticket[u]
  BY DEF TakeTicket, Inv, TypeOK
<1>4. NotYetCreated'
  BY <1>1, NotYetCreatedStep
<1>5. Queue' = Queue \cup {t} /\ Serving' = Serving /\ t \notin Queue
  <2>1. ~ HasTicket(t) /\ HasTicket(t)'
    BY <1>2 DEF HasTicket, Holding
  <2>2. \A u \in Threads : u # t => (HasTicket(u)' <=> HasTicket(u))
    BY <1>2 DEF HasTicket
  <2>3. QED
    BY <1>3, <2>1, <2>2, JoinQueue DEF Queue
<1>6. TicketsInLine'
  <2>1. Serving \in Nat /\ Serving <= tail
    BY <1>3, QueueSize, SimpleTestAssumption DEF Inv, TicketsInLine
  <2>2. \A u \in Queue : u # t /\ u \in Threads /\ ticket[u] \in Nat
    BY <1>5 DEF Queue, Inv, TypeOK
  <2>3. QED
    BY <1>3, <1>5, <2>1, <2>2 DEF Inv, TicketsInLine
<1>7. TicketsDistinct'
  <2>1. \A u \in Queue : u # t /\ u \in Threads /\ ticket[u] # tail
    BY <1>3, <1>5 DEF Queue, Inv, TypeOK, TicketsInLine
  <2>2. QED
    BY <1>3, <1>5, <2>1 DEF Inv, TicketsDistinct
<1>8. \A u \in Threads : pc'[u] \in Holding => u # t /\ pc[u] \in Holding
  BY <1>2 DEF Holding
<1>9. HolderIsServed'
  BY <1>3, <1>5, <1>8 DEF Inv, HolderIsServed
<1>10. OneFlag'
  BY <1>2, <1>5 DEF Inv, OneFlag, SlotOf, TakeTicket, Holding
<1>11. CurslotIsHolders'
  BY <1>2, <1>3 DEF Inv, CurslotIsHolders, SlotOf, TakeTicket
<1>12. NextIsRaised'
  BY <1>2, <1>5 DEF Inv, NextIsRaised, SlotOf, TakeTicket
<1>13. QED
  BY <1>4, <1>6, <1>7, <1>9, <1>10, <1>11, <1>12 DEF Inv


LEMMA InvSeeFlag ==
  ASSUME Inv, TypeOK', NEW t \in Threads, SeeFlag(t)
  PROVE  Inv' /\ \A u \in Threads : pc[u] \notin Holding
<1>1. /\ Queue' = Queue /\ Serving' = Serving /\ t \in Queue
      /\ NotYetCreated'
      /\ pc[t] = "spin" /\ pc'[t] = "claim"
      /\ \A u \in Threads : u # t => pc'[u] = pc[u]
  BY QueueStep DEF SeeFlag, lockVars, Holding
<1>2. SlotOf(ticket[t]) = SlotOf(Serving)
  <2>1. SlotOf(ticket[t]) \in Slots
    BY SlotType DEF Inv, TypeOK
  <2>2. QED
    BY <2>1 DEF SeeFlag, Inv, OneFlag
<1>3. ticket[t] = Serving
  BY <1>1, <1>2, TurnBySlot
<1>4. \A u \in Threads : pc[u] \notin Holding
  <2> SUFFICES ASSUME NEW u \in Threads, pc[u] \in Holding PROVE FALSE
    OBVIOUS
  <2>1. ticket[u] = Serving
    BY DEF Inv, HolderIsServed
  <2>2. u \in Queue
    BY DEF Queue, HasTicket
  <2>3. u = t
    BY <1>1, <1>3, <2>1, <2>2 DEF Inv, TicketsDistinct
  <2>4. QED
    BY <1>1, <2>3 DEF Holding
<1>5. \A u \in Threads : pc'[u] \in Holding => u = t
  BY <1>1, <1>4
<1>6. TicketsInLine' /\ TicketsDistinct'
  BY <1>1 DEF Inv, TicketsInLine, TicketsDistinct, SeeFlag, lockVars
<1>7. HolderIsServed'
  BY <1>1, <1>3, <1>5 DEF HolderIsServed, SeeFlag, lockVars
<1>8. OneFlag'
  BY <1>1, <1>4, <1>5 DEF Inv, OneFlag, SlotOf, SeeFlag, lockVars
<1>9. CurslotIsHolders' /\ NextIsRaised'
  BY <1>1, <1>5 DEF CurslotIsHolders, NextIsRaised, Holding
<1>10. QED
  BY <1>1, <1>4, <1>6, <1>7, <1>8, <1>9 DEF Inv

LEMMA InvLowerFlag ==
  ASSUME Inv, TypeOK', NEW t \in Threads, LowerFlag(t)
  PROVE  Inv'
<1>1. /\ Queue' = Queue /\ Serving' = Serving /\ t \in Queue
      /\ NotYetCreated'
      /\ pc[t] = "claim" /\ pc'[t] = "record"
      /\ \A u \in Threads : u # t => pc'[u] = pc[u]
  BY QueueStep DEF LowerFlag, Holding
<1>2. ticket[t] = Serving /\ \A u \in Threads : pc[u] \in Holding => u = t
  BY <1>1, OneHolder DEF Inv, HolderIsServed, MutualExclusion, Holding
<1>3. \A u \in Threads : pc'[u] \in Holding => u = t
  BY <1>1, <1>2
<1>4. TicketsInLine' /\ TicketsDistinct'
  BY <1>1 DEF Inv, TicketsInLine, TicketsDistinct, LowerFlag
<1>5. HolderIsServed'
  BY <1>1, <1>2, <1>3 DEF HolderIsServed, LowerFlag
<1>6. OneFlag'
  <2>1. \A i \in Slots : ~ flag'[i]
    BY <1>2 DEF LowerFlag, Inv, TypeOK, OneFlag
  <2>2. pc'[t] \in Holding /\ pc'[t] # "claim"
    BY <1>1 DEF Holding
  <2>3. QED
    BY <2>1, <2>2 DEF OneFlag
<1>7. CurslotIsHolders' /\ NextIsRaised'
  BY <1>1, <1>3 DEF CurslotIsHolders, NextIsRaised, Holding
<1>8. QED
  BY <1>1, <1>4, <1>5, <1>6, <1>7 DEF Inv

LEMMA InvRecordSlot ==
  ASSUME Inv, TypeOK', NEW t \in Threads, RecordSlot(t)
  PROVE  Inv'
<1>1. /\ Queue' = Queue /\ Serving' = Serving /\ t \in Queue
      /\ NotYetCreated'
      /\ pc[t] = "record" /\ pc'[t] = "cs"
      /\ \A u \in Threads : u # t => pc'[u] = pc[u]
  BY QueueStep DEF RecordSlot, Holding
<1>2. ticket[t] = Serving /\ \A u \in Threads : pc[u] \in Holding => u = t
  BY <1>1, OneHolder DEF Inv, HolderIsServed, MutualExclusion, Holding
<1>3. \A u \in Threads : pc'[u] \in Holding => u = t
  BY <1>1, <1>2
<1>4. TicketsInLine' /\ TicketsDistinct'
  BY <1>1 DEF Inv, TicketsInLine, TicketsDistinct, RecordSlot
<1>5. HolderIsServed'
  BY <1>1, <1>2, <1>3 DEF HolderIsServed, RecordSlot
<1>6. OneFlag'
  <2>1. pc[t] \in Holding \ {"claim"} /\ pc'[t] \in Holding \ {"claim"}
    BY <1>1 DEF Holding
  <2>2. QED
    BY <2>1 DEF Inv, OneFlag, RecordSlot
<1>7. CurslotIsHolders'
  BY <1>1, <1>3 DEF CurslotIsHolders, SlotOf, RecordSlot, Holding
<1>8. NextIsRaised'
  BY <1>1, <1>3 DEF NextIsRaised, Holding
<1>9. QED
  BY <1>1, <1>4, <1>5, <1>6, <1>7, <1>8 DEF Inv

LEMMA InvReadSlot ==
  ASSUME Inv, TypeOK', NEW t \in Threads, ReadSlot(t)
  PROVE  Inv'
<1>1. /\ Queue' = Queue /\ Serving' = Serving /\ t \in Queue
      /\ NotYetCreated'
      /\ pc[t] = "unlock" /\ pc'[t] = "release"
      /\ \A u \in Threads : u # t => pc'[u] = pc[u]
  BY QueueStep DEF ReadSlot, Holding
<1>2. ticket[t] = Serving /\ \A u \in Threads : pc[u] \in Holding => u = t
  BY <1>1, OneHolder DEF Inv, HolderIsServed, MutualExclusion, Holding
<1>3. \A u \in Threads : pc'[u] \in Holding => u = t
  BY <1>1, <1>2
<1>4. TicketsInLine' /\ TicketsDistinct'
  BY <1>1 DEF Inv, TicketsInLine, TicketsDistinct, ReadSlot
<1>5. HolderIsServed'
  BY <1>1, <1>2, <1>3 DEF HolderIsServed, ReadSlot
<1>6. OneFlag'
  <2>1. pc[t] \in Holding \ {"claim"} /\ pc'[t] \in Holding \ {"claim"}
    BY <1>1 DEF Holding
  <2>2. QED
    BY <2>1 DEF Inv, OneFlag, ReadSlot
<1>7. CurslotIsHolders'
  BY <1>1, <1>3 DEF CurslotIsHolders, Holding
<1>8. NextIsRaised'
  <2>1. curslot = SlotOf(Serving)
    BY <1>1, <1>2 DEF Inv, CurslotIsHolders
  <2>2. SlotOf(curslot + 1) = SlotOf(Serving + 1)
    BY <2>1, ModSucc, SimpleTestAssumption DEF SlotOf, Size, Inv, TicketsInLine
  <2>3. nextslot'[t] = SlotOf(Serving + 1)
    BY <2>2 DEF ReadSlot, Inv, TypeOK
  <2>4. QED
    BY <1>1, <1>3, <2>3 DEF NextIsRaised, SlotOf, Holding
<1>9. QED
  BY <1>1, <1>4, <1>5, <1>6, <1>7, <1>8 DEF Inv

LEMMA InvRaiseFlag ==
  ASSUME Inv, TypeOK', NEW t \in Threads, RaiseFlag(t)
  PROVE  Inv'
<1>1. Goto(t, "release", "loop") /\ created' = created
  BY DEF RaiseFlag, UnlockReturns, mainVars
<1>2. /\ pc[t] = "release" /\ pc'[t] = "loop"
      /\ \A u \in Threads : u # t => pc'[u] = pc[u]
  BY <1>1, GotoMoves DEF Inv, TypeOK
<1>3. NotYetCreated'
  BY <1>1, NotYetCreatedStep
<1>4. Queue' = Queue \ {t} /\ Serving' = Serving + 1 /\ t \in Queue
  <2>1. HasTicket(t) /\ ~ HasTicket(t)'
    BY <1>2 DEF HasTicket, Holding
  <2>2. \A u \in Threads : u # t => (HasTicket(u)' <=> HasTicket(u))
    BY <1>2 DEF HasTicket
  <2>3. tail \in Nat /\ tail' = tail
    BY DEF RaiseFlag, Inv, TypeOK
  <2>4. QED
    BY <2>1, <2>2, <2>3, LeaveQueue DEF Queue
<1>5. ticket[t] = Serving /\ \A u \in Threads : pc[u] \in Holding => u = t
  BY <1>2, OneHolder DEF Inv, HolderIsServed, MutualExclusion, Holding
<1>6. \A u \in Threads : pc'[u] \notin Holding
  BY <1>2, <1>5 DEF Holding
<1>7. TicketsInLine'
  <2>1. \A u \in Queue : u # t => ticket[u] # Serving
    BY <1>4, <1>5 DEF Inv, TicketsDistinct
  <2>2. \A u \in Queue : ticket[u] \in Nat
    BY DEF Queue, Inv, TypeOK
  <2>3. Serving \in Nat
    BY DEF Inv, TicketsInLine
  <2>4. QED
    BY <1>4, <2>1, <2>2, <2>3 DEF Inv, TicketsInLine, RaiseFlag
<1>8. TicketsDistinct'
  BY <1>4 DEF Inv, TicketsDistinct, RaiseFlag
<1>9. HolderIsServed' /\ CurslotIsHolders' /\ NextIsRaised'
  BY <1>6 DEF HolderIsServed, CurslotIsHolders, NextIsRaised, Holding
<1>10. OneFlag'
  <2>1. pc[t] \in Holding /\ pc[t] # "claim"
    BY <1>2 DEF Holding
  <2>2. \A i \in Slots : ~ flag[i]
    BY <2>1 DEF Inv, OneFlag
  <2>3. nextslot[t] = SlotOf(Serving + 1) /\ nextslot[t] \in Slots
    BY <1>2 DEF Inv, NextIsRaised, TypeOK
  <2>4. \A i \in Slots : flag'[i] <=> i = SlotOf(Serving + 1)
    BY <2>2, <2>3 DEF RaiseFlag, Inv, TypeOK
  <2>5. QED
    BY <1>4, <1>6, <2>4 DEF OneFlag, SlotOf
<1>11. QED
  BY <1>3, <1>7, <1>8, <1>9, <1>10 DEF Inv

LEMMA InvStep == Inv /\ [Next]_vars => Inv'
<1> SUFFICES ASSUME Inv, [Next]_vars PROVE Inv'
  OBVIOUS
<1>1. TypeOK'
  BY TypeStep DEF Inv
<1>2. CASE MainStep /\ UNCHANGED lockVars
  BY <1>1, <1>2, InvMainStep
<1>3. ASSUME NEW t \in Threads, Worker(t) PROVE Inv'
  <2>1. CASE WorkStep(t) /\ UNCHANGED lockVars
    BY <1>1, <2>1, InvWorkStep
  <2>2. CASE TakeTicket(t)
    BY <1>1, <2>2, InvTakeTicket
  <2>3. CASE SeeFlag(t)
    BY <1>1, <2>3, InvSeeFlag
  <2>4. CASE SeeNoFlag(t)
    <3>1. /\ NotYetCreated' /\ pc[t] = "spin" /\ pc'[t] = "spin"
          /\ \A u \in Threads : u # t => pc'[u] = pc[u]
      BY <2>4, QueueStep DEF SeeNoFlag, lockVars
    <3>2. QED
      BY <1>1, <2>4, <3>1, InvElsewhere DEF SeeNoFlag
  <2>5. CASE LowerFlag(t)
    BY <1>1, <2>5, InvLowerFlag
  <2>6. CASE RecordSlot(t)
    BY <1>1, <2>6, InvRecordSlot
  <2>7. CASE ReadSlot(t)
    BY <1>1, <2>7, InvReadSlot
  <2>8. CASE RaiseFlag(t)
    BY <1>1, <2>8, InvRaiseFlag
  <2>9. QED
    BY <1>3, <2>1, <2>2, <2>3, <2>4, <2>5, <2>6, <2>7, <2>8 DEF Worker
<1>4. CASE UNCHANGED vars
  <2>1. UNCHANGED lockVars /\ pc' = pc /\ NotYetCreated'
    BY <1>4 DEF vars, harnessVars, lockVars, Inv, NotYetCreated
  <2>2. QED
    BY <1>1, <2>1, InvElsewhere
<1>5. QED
  BY <1>2, <1>3, <1>4 DEF Next

\* The tickets, the flags and the threads past them fit together at every moment.
THEOREM Invariance == Spec => []Inv
<1>1. QED
  BY InvInit, InvStep, PTL DEF Spec


-----------------------------------------------------------------------------
(* What follows from it *)

\* At most one thread is between seeing its flag and raising the next.
THEOREM MutexCorrect == Spec => []MutualExclusion
<1>1. QED
  BY Invariance, OneHolder, PTL

\* unlock() finds in curslot the slot of the thread that calls it.
THEOREM CurslotCorrect == Spec => []CurslotIsHolders
<1>1. Inv => CurslotIsHolders
  BY DEF Inv
<1>2. QED
  BY <1>1, Invariance, PTL

\* There is one flag up, that of the thread whose turn it is, unless the holder
\* has taken it down: no hand-over is lost or doubled.
THEOREM OneFlagCorrect == Spec => []OneFlag
<1>1. Inv => OneFlag
  BY DEF Inv
<1>2. QED
  BY <1>1, Invariance, PTL

\* As many slots as threads are enough: no two threads wait at one slot.
THEOREM SlotsCorrect == Spec => []SlotsDistinct
<1>1. QED
  BY Invariance, SlotsAreDistinct, PTL

LEMMA EntersBySeeFlag ==
  ASSUME Inv, Next, NEW t \in Threads, pc[t] = "spin", pc'[t] = "claim"
  PROVE  SeeFlag(t)
<1>1. CASE MainStep
  <2>1. CASE Create
    BY <2>1 DEF Create, Inv, TypeOK, HarnessTypeOK
  <2>2. CASE CreateFails \/ Join \/ DeleteLock \/ PrintCounter
    BY <2>2 DEF CreateFails, Join, DeleteLock, PrintCounter
  <2>3. QED
    BY <1>1, <2>1, <2>2 DEF MainStep
<1>2. ASSUME NEW u \in Threads, Worker(u) PROVE SeeFlag(t)
  <2>1. PICK from, to : Goto(u, from, to) /\ (to = "claim" => SeeFlag(u))
    BY <1>2
    DEF Worker, WorkStep, CallLock, Finish, ReadCounter, WriteCounter,
        TakeTicket, SeeFlag, SeeNoFlag, LowerFlag, RecordSlot, ReadSlot,
        RaiseFlag, LockStep, UnlockReturns
  <2>2. pc'[u] = to /\ (u # t => pc'[t] = pc[t])
    BY <2>1, GotoMoves DEF Inv, TypeOK
  <2>3. QED
    BY <2>1, <2>2
<1>3. QED
  BY <1>1, <1>2 DEF Next, vars, harnessVars

\* A thread that enters has the oldest ticket.
THEOREM Fair == Spec => FirstComeFirstServed
<1>1. ASSUME Inv, [Next]_vars
      PROVE  [\A t \in Threads :
                pc[t] = "spin" /\ pc'[t] = "claim" =>
                  \A u \in Queue : ticket[t] <= ticket[u]]_vars
  <2> SUFFICES ASSUME Next, NEW t \in Threads,
                      pc[t] = "spin", pc'[t] = "claim", NEW u \in Queue
               PROVE  ticket[t] <= ticket[u]
    BY <1>1
  <2>1. SeeFlag(t)
    BY <1>1, EntersBySeeFlag
  <2>2. SlotOf(ticket[t]) = SlotOf(Serving)
    BY <1>1, <2>1, SlotType DEF SeeFlag, Inv, OneFlag, TypeOK
  <2>3. t \in Queue
    BY DEF Queue, HasTicket
  <2>4. ticket[t] = Serving
    BY <1>1, <2>2, <2>3, TurnBySlot
  <2>5. QED
    BY <1>1, <2>4 DEF Inv, TicketsInLine
<1>2. QED
  BY <1>1, Invariance, PTL DEF Spec, FirstComeFirstServed

-----------------------------------------------------------------------------
(* The array lock implements the mutex *)

LEMMA PCStep ==
  ASSUME Inv, NEW t \in Threads, NEW from, NEW to, Goto(t, from, to)
  PROVE  /\ MutexPC[t] = MutexPoint(from)
         /\ MutexPC' = [MutexPC EXCEPT ![t] = MutexPoint(to)]
<1>1. pc[t] = from /\ pc'[t] = to /\ \A u \in Threads : u # t => pc'[u] = pc[u]
  BY GotoMoves DEF Inv, TypeOK
<1>2. QED
  BY <1>1 DEF MutexPC

LEMMA MutexInit == Init => M!Init
<1> SUFFICES ASSUME Init PROVE M!Init
  OBVIOUS
<1>1. MutexPC = [t \in Threads |-> "unborn"]
  BY DEF Init, HarnessInit, MutexPC, MutexPoint
<1>2. QED
  BY <1>1 DEF Init, HarnessInit, M!Init, M!HarnessInit, Threads, M!Threads

LEMMA MutexMainStep ==
  ASSUME Inv, MainStep
  PROVE  M!MainStep
<1> USE DEF workVars, M!workVars
<1>1. CASE Create
  <2>1. created \in Threads
    BY <1>1, SimpleTestAssumption
    DEF Create, Inv, TypeOK, HarnessTypeOK, Threads
  <2>2. pc'[created] = "loop" /\ \A u \in Threads : u # created => pc'[u] = pc[u]
    BY <1>1, <2>1 DEF Create, Inv, TypeOK, HarnessTypeOK
  <2>3. MutexPC' = [MutexPC EXCEPT ![created] = "loop"]
    BY <2>1, <2>2 DEF MutexPC, MutexPoint
  <2>4. M!Create
    BY <1>1, <2>3 DEF Create, M!Create
  <2>5. QED
    BY <2>4 DEF M!MainStep
<1>2. CASE CreateFails \/ Join \/ DeleteLock \/ PrintCounter
  <2>1. MutexPC' = MutexPC
    BY <1>2 DEF CreateFails, Join, DeleteLock, PrintCounter, MutexPC
  <2>2. CASE CreateFails
    BY <2>1, <2>2 DEF CreateFails, M!CreateFails, M!MainStep
  <2>3. CASE Join
    <3>1. joined \in Threads /\ pc[joined] = "done"
      BY <2>3, SimpleTestAssumption
      DEF Join, Inv, TypeOK, HarnessTypeOK, Threads
    <3>2. MutexPC[joined] = "done"
      BY <3>1 DEF MutexPC, MutexPoint
    <3>3. QED
      BY <2>1, <2>3, <3>2 DEF Join, M!Join, M!MainStep
  <2>4. CASE DeleteLock
    BY <2>1, <2>4 DEF DeleteLock, M!DeleteLock, M!MainStep
  <2>5. CASE PrintCounter
    BY <2>1, <2>5 DEF PrintCounter, M!PrintCounter, M!MainStep
  <2>6. QED
    BY <1>2, <2>2, <2>3, <2>4, <2>5
<1>3. QED
  BY <1>1, <1>2 DEF MainStep

LEMMA MutexWorkStep ==
  ASSUME Inv, NEW t \in Threads, WorkStep(t)
  PROVE  M!WorkStep(t)
<1> USE DEF Goto, M!Goto, MutexPoint, mainVars, M!mainVars, workVars, M!workVars,
            M!WorkStep
<1>1. CASE CallLock(t)
  BY <1>1, PCStep DEF CallLock, M!CallLock
<1>2. CASE Finish(t)
  BY <1>2, PCStep DEF Finish, M!Finish
<1>3. CASE ReadCounter(t)
  BY <1>3, PCStep DEF ReadCounter, M!ReadCounter
<1>4. CASE WriteCounter(t)
  BY <1>4, PCStep DEF WriteCounter, M!WriteCounter
<1>5. QED
  BY <1>1, <1>2, <1>3, <1>4 DEF WorkStep


\* The steps of lock() and unlock() that the mutex does not see.
LEMMA MutexStutter ==
  ASSUME Inv, NEW t \in Threads, NEW from, NEW to, LockStep(t, from, to),
         MutexPoint(from) = MutexPoint(to)
  PROVE  UNCHANGED M!harnessVars
<1>1. /\ MutexPC[t] = MutexPoint(from)
      /\ MutexPC' = [MutexPC EXCEPT ![t] = MutexPoint(to)]
  BY PCStep DEF LockStep
<1>2. MutexPC' = MutexPC
  BY <1>1 DEF MutexPC
<1>3. QED
  BY <1>2 DEF LockStep, mainVars, workVars, M!harnessVars

LEMMA MutexEnters ==
  ASSUME Inv, TypeOK', NEW t \in Threads, SeeFlag(t)
  PROVE  M!Lock(t)
<1>1. \A u \in Threads : pc[u] \notin Holding
  BY InvSeeFlag
<1>2. \A u \in Threads : MutexPC[u] \notin M!CriticalSection
  BY <1>1 DEF MutexPC, MutexPoint, Holding, M!CriticalSection
<1>3. MutexPC[t] = "lock" /\ MutexPC' = [MutexPC EXCEPT ![t] = "cs"]
  BY PCStep DEF SeeFlag, LockStep, MutexPoint
<1>4. QED
  BY <1>2, <1>3
  DEF SeeFlag, LockStep, Goto, mainVars, workVars, Threads,
      M!Lock, M!LockStep, M!Goto, M!mainVars, M!workVars, M!Threads

LEMMA MutexLeaves ==
  ASSUME Inv, NEW t \in Threads, RaiseFlag(t)
  PROVE  M!Unlock(t)
<1>1. MutexPC[t] = "unlock" /\ MutexPC' = [MutexPC EXCEPT ![t] = "loop"]
  BY PCStep DEF RaiseFlag, UnlockReturns, MutexPoint
<1>2. QED
  BY <1>1
  DEF RaiseFlag, UnlockReturns, Goto, mainVars,
      M!Unlock, M!UnlockReturns, M!Goto, M!mainVars

LEMMA MutexStep ==
  ASSUME Inv, [Next]_vars
  PROVE  [M!Next]_(M!harnessVars)
<1> USE DEF M!Next, M!Worker, M!Threads, Threads
<1>1. CASE MainStep /\ UNCHANGED lockVars
  BY <1>1, MutexMainStep
<1>2. ASSUME NEW t \in Threads, Worker(t)
      PROVE  [M!Next]_(M!harnessVars)
  <2> USE DEF MutexPoint
  <2>1. CASE WorkStep(t) /\ UNCHANGED lockVars
    BY <2>1, MutexWorkStep
  <2>2. CASE TakeTicket(t)
    BY <2>2, MutexStutter DEF TakeTicket
  <2>3. CASE SeeFlag(t)
    BY <2>3, TypeStep, MutexEnters DEF Inv
  <2>4. CASE SeeNoFlag(t)
    BY <2>4, MutexStutter DEF SeeNoFlag
  <2>5. CASE LowerFlag(t)
    BY <2>5, MutexStutter DEF LowerFlag
  <2>6. CASE RecordSlot(t)
    BY <2>6, MutexStutter DEF RecordSlot
  <2>7. CASE ReadSlot(t)
    BY <2>7, MutexStutter DEF ReadSlot
  <2>8. CASE RaiseFlag(t)
    BY <2>8, MutexLeaves
  <2>9. QED
    BY <1>2, <2>1, <2>2, <2>3, <2>4, <2>5, <2>6, <2>7, <2>8 DEF Worker
<1>3. CASE UNCHANGED vars
  BY <1>3 DEF vars, harnessVars, M!harnessVars, MutexPC
<1>4. QED
  BY <1>1, <1>2, <1>3 DEF Next

\* ALock keeps the promise of the LOCK interface.
THEOREM Refinement == Spec => ImplementsMutex
<1>1. QED
  BY Invariance, MutexInit, MutexStep, PTL DEF Spec, ImplementsMutex, M!Spec

-----------------------------------------------------------------------------
(* What the mutex gives simple_test *)

MP == INSTANCE Mutex_proofs WITH pc <- MutexPC

\* The two instances of the mutex are the same.
LEMMA SameMutex == M!Spec => MP!Spec
<1>1. M!Init => MP!Init
  BY DEF M!Init, MP!Init, M!HarnessInit, MP!HarnessInit, M!Threads, MP!Threads
<1>2. M!MainStep => MP!MainStep
  BY DEF M!MainStep, M!Create, M!CreateFails, M!Join, M!DeleteLock, M!PrintCounter,
         M!workVars, MP!MainStep, MP!Create, MP!CreateFails, MP!Join,
         MP!DeleteLock, MP!PrintCounter, MP!workVars
<1>3. ASSUME NEW t PROVE M!Worker(t) => MP!Worker(t)
  <2> USE DEF M!Goto, M!mainVars, M!workVars, MP!Goto, MP!mainVars, MP!workVars
  <2>1. M!WorkStep(t) => MP!WorkStep(t)
    BY DEF M!WorkStep, M!CallLock, M!Finish, M!ReadCounter, M!WriteCounter,
           MP!WorkStep, MP!CallLock, MP!Finish, MP!ReadCounter, MP!WriteCounter
  <2>2. M!Lock(t) => MP!Lock(t)
    BY DEF M!Lock, M!LockStep, M!Threads, M!CriticalSection,
           MP!Lock, MP!LockStep, MP!Threads, MP!CriticalSection
  <2>3. M!Unlock(t) => MP!Unlock(t)
    BY DEF M!Unlock, M!UnlockReturns, MP!Unlock, MP!UnlockReturns
  <2>4. QED
    BY <2>1, <2>2, <2>3 DEF M!Worker, MP!Worker
<1>4. [M!Next]_(M!harnessVars) => [MP!Next]_(MP!harnessVars)
  BY <1>2, <1>3
  DEF M!Next, M!Threads, M!Exited, M!harnessVars,
      MP!Next, MP!Threads, MP!Exited, MP!harnessVars
<1>5. QED
  BY <1>1, <1>4, PTL DEF M!Spec, MP!Spec

LEMMA ImplementsMP == Spec => MP!Spec
  BY Refinement, SameMutex DEF ImplementsMutex

\* With the array lock, too, simple_test prints the number of all the
\* increments asked for ...
THEOREM Report == Spec => []ReportExact
<1>1. MP!Spec => []MP!ReportExact
  BY MP!Report, SimpleTestAssumption DEF MP!SimpleTestAssumption
<1>2. MP!ReportExact <=> ReportExact
  BY DEF MP!ReportExact, ReportExact
<1>3. QED
  BY <1>1, <1>2, ImplementsMP, PTL

\* ... and deletes the lock only after every thread has returned.
THEOREM Delete == Spec => []NoUseAfterDelete
<1>1. MP!Spec => []MP!NoUseAfterDelete
  BY MP!Delete, SimpleTestAssumption DEF MP!SimpleTestAssumption
<1>2. MP!NoUseAfterDelete => NoUseAfterDelete
  BY DEF MP!NoUseAfterDelete, NoUseAfterDelete, MP!Threads, Threads, MutexPC,
         MutexPoint
<1>3. QED
  BY <1>1, <1>2, ImplementsMP, PTL
=============================================================================
