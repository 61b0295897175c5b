------------------------------- MODULE ALock --------------------------------
(***************************************************************************)
(* Anderson's array lock (project2/ALock.cpp), run by simple_test.         *)
(*                                                                         *)
(* lock() draws a ticket from tail, waits for the flag of the ticket's     *)
(* slot, takes the flag down and notes the slot in curslot; unlock() puts  *)
(* up the flag of the slot after curslot.  curslot is shared, plain memory *)
(* that only the holder may touch.                                         *)
(*                                                                         *)
(* Each of these accesses is a step of its own.  They are stores in        *)
(* program order and locked read-modify-writes on x86, where a later store *)
(* is never seen before an earlier one, so an interleaving of the steps is *)
(* what the machine does.                                                  *)
(***************************************************************************)
EXTENDS SimpleTest, FiniteSets

\* Fault: one slot too few.
Size_OneLess == N - 1

\* create_lock(): new ALock(carg->num_threads)
Size == N

\* tmp % size.  tail is a uint64_t: at most 2^32 threads take 10^4 tickets
\* each, which is below 2^64, so tickets are plain numbers here.
SlotOf(ticket) == ticket % Size

Slots == 0 .. Size-1

VARIABLES
  flag,       \* flag[i]: whoever waits at slot i may enter
  tail,       \* the next ticket
  ticket,     \* tmp, in lock(), of each thread
  curslot,    \* the slot of the thread that holds the lock
  nextslot    \* in unlock(): (curslot + 1) % size

lockVars == <<flag, tail, ticket, curslot, nextslot>>
vars == <<harnessVars, flag, tail, ticket, curslot, nextslot>>

Points == WorkPoints \cup {"spin", "claim", "record", "release"}

\* ALock::ALock(capacity).  curslot is not initialised: it holds any value,
\* of which only its slot could ever matter.
Init ==
  /\ HarnessInit
  /\ flag = [i \in Slots |-> i = 0]
  /\ tail = 0
  /\ ticket = [t \in Threads |-> 0]
  /\ curslot \in Slots
  /\ nextslot = [t \in Threads |-> 0]

\* Fault: __sync_add_and_fetch(), which returns the new value.
TakeTicket_AddAndFetch(t) ==
  /\ ticket' = [ticket EXCEPT ![t] = tail + 1]
  /\ tail' = tail + 1
  /\ LockStep(t, "lock", "spin")
  /\ UNCHANGED <<flag, curslot, nextslot>>

\* tmp = __sync_fetch_and_add(&tail, 1); slot = tmp % size;
TakeTicket(t) ==
  /\ ticket' = [ticket EXCEPT ![t] = tail]
  /\ tail' = tail + 1
  /\ LockStep(t, "lock", "spin")
  /\ UNCHANGED <<flag, curslot, nextslot>>

\* Fault: any raised flag will do.
SeeFlag_AnySlot(t) ==
  /\ \E i \in Slots : flag[i]
  /\ LockStep(t, "spin", "claim")
  /\ UNCHANGED lockVars

\* while (! flag[slot]): the loop is left when a read finds the flag up.
SeeFlag(t) ==
  /\ flag[SlotOf(ticket[t])]
  /\ LockStep(t, "spin", "claim")
  /\ UNCHANGED lockVars

SeeNoFlag(t) ==
  /\ ~flag[SlotOf(ticket[t])]
  /\ LockStep(t, "spin", "spin")
  /\ UNCHANGED lockVars

\* Fault: the flag is left up.
LowerFlag_Not(t) ==
  /\ LockStep(t, "claim", "record")
  /\ UNCHANGED lockVars

\* flag[slot] = false;
LowerFlag(t) ==
  /\ flag' = [flag EXCEPT ![SlotOf(ticket[t])] = FALSE]
  /\ LockStep(t, "claim", "record")
  /\ UNCHANGED <<tail, ticket, curslot, nextslot>>

\* Fault: curslot is not recorded.
RecordSlot_Not(t) ==
  /\ LockStep(t, "record", "cs")
  /\ UNCHANGED lockVars

\* curslot = slot;
RecordSlot(t) ==
  /\ curslot' = SlotOf(ticket[t])
  /\ LockStep(t, "record", "cs")
  /\ UNCHANGED <<flag, tail, ticket, nextslot>>

\* Fault: the holder's own slot is raised again.
ReadSlot_SameSlot(t) ==
  /\ nextslot' = [nextslot EXCEPT ![t] = curslot]
  /\ LockStep(t, "unlock", "release")
  /\ UNCHANGED <<flag, tail, ticket, curslot>>

\* unlock() reads curslot and computes the next slot ...
ReadSlot(t) ==
  /\ nextslot' = [nextslot EXCEPT ![t] = SlotOf(curslot + 1)]
  /\ LockStep(t, "unlock", "release")
  /\ UNCHANGED <<flag, tail, ticket, curslot>>

\* ... and puts its flag up.
RaiseFlag(t) ==
  /\ flag' = [flag EXCEPT ![nextslot[t]] = TRUE]
  /\ UnlockReturns(t, "release")
  /\ UNCHANGED <<tail, ticket, curslot, nextslot>>

Worker(t) ==
  \/ WorkStep(t) /\ UNCHANGED lockVars
  \/ TakeTicket(t) \/ SeeFlag(t) \/ SeeNoFlag(t) \/ LowerFlag(t) \/ RecordSlot(t)
  \/ ReadSlot(t) \/ RaiseFlag(t)

Next ==
  \/ MainStep /\ UNCHANGED lockVars
  \/ \E t \in Threads : Worker(t)
  \/ Exited /\ UNCHANGED vars

Spec == Init /\ [][Next]_vars

\* Every thread is scheduled again and again.
FairSpec ==
  /\ Spec
  /\ WF_vars(MainStep /\ UNCHANGED lockVars)
  /\ \A t \in Threads : WF_vars(Worker(t))

-----------------------------------------------------------------------------
(* Properties *)

TypeOK ==
  /\ HarnessTypeOK(Points)
  /\ flag \in [Slots -> BOOLEAN]
  /\ tail \in Nat
  /\ ticket \in [Threads -> Nat]
  /\ curslot \in Slots
  /\ nextslot \in [Threads -> Slots]

\* From the moment a thread has seen its flag until it has raised the next one
\* the lock is its own.
Holding == {"claim", "record", "cs", "store", "unlock", "release"}

\* The threads that have drawn a ticket and not used it up.
HasTicket(t) == pc[t] \in Holding \cup {"spin"}
Queue == {t \in Threads : HasTicket(t)}

\* The ticket whose turn it is.
Serving == tail - Cardinality(Queue)

\* At most one thread is between seeing its flag and raising the next.
MutualExclusion ==
  \A t, u \in Threads : pc[t] \in Holding /\ pc[u] \in Holding => t = u

\* curslot, which every thread writes and only the holder should read, is the
\* holder's own slot for as long as the holder relies on it.
CurslotIsHolders ==
  \A t \in Threads :
    pc[t] \in {"cs", "store", "unlock"} => curslot = SlotOf(ticket[t])

\* The slots of the threads in the queue are different: nobody spins on a flag
\* that is raised for somebody else.
SlotsDistinct ==
  \A t, u \in Queue : SlotOf(ticket[t]) = SlotOf(ticket[u]) => t = u

\* No hand-over is lost or doubled: there is one flag up, the one of the turn,
\* except while the holder has taken it down.
OneFlag ==
  \A i \in Slots :
    flag[i] <=> /\ i = SlotOf(Serving)
                /\ \A t \in Threads : pc[t] \in Holding => pc[t] = "claim"

\* First come, first served: a thread that gets the lock has the oldest ticket
\* of all that are waiting.
FirstComeFirstServed ==
  [][\A t \in Threads :
       pc[t] = "spin" /\ pc'[t] = "claim" =>
         \A u \in Queue : ticket[t] <= ticket[u]]_vars

\* Why these hold.  Threads from created on have not started; the tickets in
\* the queue are different and lie between the one whose turn it is and tail;
\* the holder's is the one whose turn it is, and the slot it is about to raise
\* is the one after its own.
NotYetCreated == \A t \in Threads : t >= created => pc[t] = "unborn"

TicketsInLine ==
  /\ Serving \in Nat
  /\ \A t \in Queue : Serving <= ticket[t] /\ ticket[t] < tail

TicketsDistinct == \A t, u \in Queue : ticket[t] = ticket[u] => t = u

HolderIsServed == \A t \in Threads : pc[t] \in Holding => ticket[t] = Serving

NextIsRaised ==
  \A t \in Threads : pc[t] = "release" => nextslot[t] = SlotOf(Serving + 1)

Inv ==
  /\ TypeOK
  /\ NotYetCreated
  /\ TicketsInLine
  /\ TicketsDistinct
  /\ HolderIsServed
  /\ OneFlag
  /\ CurslotIsHolders
  /\ NextIsRaised

\* A thread that has a ticket gets the lock, unless main ends the process
\* under it.
NoStarvation ==
  \A t \in Threads : pc[t] = "spin" ~> (pc[t] = "cs" \/ main = "exit")

\* ALock is a mutex.  The flag a thread sees is what lets it in; taking it down
\* and recording the slot already happen under the lock, and it is let go when
\* the next flag goes up.
MutexPoint(p) ==
  CASE p = "spin" -> "lock"
    [] p \in {"claim", "record"} -> "cs"
    [] p = "release" -> "unlock"
    [] OTHER -> p
MutexPC == [t \in Threads |-> MutexPoint(pc[t])]

M == INSTANCE Mutex WITH pc <- MutexPC
ImplementsMutex == M!Spec
=============================================================================
