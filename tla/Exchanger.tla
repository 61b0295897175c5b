----------------------------- MODULE Exchanger ------------------------------
(***************************************************************************)
(* visit() of the elimination array (project3/Exchanger.cpp): a thread     *)
(* draws one of the exchangers and tries to trade its node there, one step *)
(* per access to the exchanger's slot.                                     *)
(*                                                                         *)
(* A slot is one word that holds a node and a state.  A thread that finds  *)
(* it EMPTY leaves its node there, WAITING; the next one takes that and    *)
(* leaves its own, BUSY; the first one takes it and makes the slot EMPTY.  *)
(* A thread that has waited for NANO_DUR withdraws.                        *)
(*                                                                         *)
(* visit() draws 0, ..., maxrange, out of an array of maxrange exchangers. *)
(* What is drawn last is the word behind the array, in the same piece of   *)
(* heap: no constructor has run there, and it holds anything.              *)
(***************************************************************************)
EXTENDS Naturals

CONSTANTS
  Threads,
  Nodes,
  NULL,
  MaxRange,   \* maxrange, 100 in EliminationStack()
  IntBits     \* the width of an int

ASSUME ExchangerAssumption ==
  /\ NULL \notin Nodes
  /\ MaxRange \in Nat
  /\ IntBits \in Nat \ {0}

Slots == 0 .. MaxRange - 1
Draws == 0 .. MaxRange
States == {"EMPTY", "WAITING", "BUSY"}
Word(n, state) == [item |-> n, state |-> state]

\* What push() and pop() call visit() with: 2, doubled again and again.
Ranges == {(2^k) % (2^IntBits) : k \in 1 .. IntBits}

VARIABLES
  data,       \* the words of the slots, and the one behind them
  behind,     \* what is in that one before visit() is ever called
  pc,         \* where each thread is in visit() and exchange()
  n,          \* the argument of visit(), then what it returns
  slot,       \* the slot it has drawn
  state,      \* what exchange() has read from the slot
  otheritem

vars == <<data, behind, pc, n, slot, state, otheritem>>

Init ==
  /\ behind \in [item : Nodes \cup {NULL}, state : States]
  /\ data = [s \in Draws |-> IF s \in Slots THEN Word(NULL, "EMPTY") ELSE behind]
  /\ pc = [t \in Threads |-> "outside"]
  /\ n = [t \in Threads |-> NULL]
  /\ slot = [t \in Threads |-> 0]
  /\ state = [t \in Threads |-> "EMPTY"]
  /\ otheritem = [t \in Threads |-> NULL]

Mine(t) == data[slot[t]]
Owns(t) == pc[t] \in {"wait", "withdraw", "take", "clear"}

\* The trade happens at Accept: from then on the owner of the slot is sure to
\* leave with the node that its partner has put there.
Met(t) == Owns(t) /\ Mine(t).state = "BUSY"
Holds(t) == IF Met(t) THEN Mine(t).item ELSE n[t]

Goto(t, from, to) == pc[t] = from /\ pc' = [pc EXCEPT ![t] = to]

\* What t has read is of no use any more.
Forget(t) ==
  /\ state' = [state EXCEPT ![t] = "EMPTY"]
  /\ otheritem' = [otheritem EXCEPT ![t] = NULL]

\* exchange() is done: visit() returns m.
Return(t, from, m) ==
  /\ Goto(t, from, "leaving")
  /\ n' = [n EXCEPT ![t] = m]
  /\ Forget(t)
  /\ UNCHANGED slot

-----------------------------------------------------------------------------

\* Fault: the range is not cut to maxrange.
Draw_NoMin(t, range) ==
  \E s \in 0 .. range : slot' = [slot EXCEPT ![t] = s]

\* int_distribution_type dist(0, min(range, maxrange))
Draw(t, range) ==
  \E s \in Draws : s <= range /\ slot' = [slot EXCEPT ![t] = s]

\* A node is in the hands of one thread.
Visit(t) ==
  /\ Goto(t, "outside", "look")
  /\ \E m \in Nodes \cup {NULL} :
       /\ m # NULL => \A u \in Threads : m # Holds(u)
       /\ n' = [n EXCEPT ![t] = m]
  /\ \E range \in Ranges : Draw(t, range)
  /\ UNCHANGED <<data, state, otheritem>>

\* What the caller does with it is not part of this module.
Leave(t) ==
  /\ Goto(t, "leaving", "outside")
  /\ n' = [n EXCEPT ![t] = NULL]
  /\ slot' = [slot EXCEPT ![t] = 0]
  /\ UNCHANGED <<data, state, otheritem>>

\* exchange() reads the clock before each look at the slot.  Whatever it reads
\* is before bound or not; once it is not, it is not read again.  Here it is
\* not: if (current > bound) throw TimeoutException(); and visit() returns n.
TooLate(t) ==
  /\ Return(t, "look", n[t])
  /\ UNCHANGED data

\* get() reads the word once for the state ...
ReadState(t) ==
  /\ Goto(t, "look", IF Mine(t).state = "BUSY" THEN "look" ELSE "item")
  /\ state' = [state EXCEPT ![t] = Mine(t).state]
  /\ UNCHANGED <<data, n, slot, otheritem>>

\* ... and once more for the node, which may belong to another state by now.
ReadItem(t) ==
  /\ Goto(t, "item", "swap")
  /\ otheritem' = [otheritem EXCEPT ![t] = Mine(t).item]
  /\ UNCHANGED <<data, n, slot, state>>

Found(t) == Mine(t) = Word(otheritem[t], state[t])

\* compareAndSet(otheritem, n, EMPTY, WAITING)
Offer(t) ==
  /\ state[t] = "EMPTY" /\ Found(t)
  /\ Goto(t, "swap", "wait")
  /\ data' = [data EXCEPT ![slot[t]] = Word(n[t], "WAITING")]
  /\ Forget(t)
  /\ UNCHANGED <<n, slot>>

\* Fault: the word is stored although it may have changed.
Accept_PlainStore(t) ==
  /\ state[t] = "WAITING"
  /\ data' = [data EXCEPT ![slot[t]] = Word(n[t], "BUSY")]
  /\ Return(t, "swap", otheritem[t])

\* compareAndSet(otheritem, n, WAITING, BUSY)
Accept(t) ==
  /\ state[t] = "WAITING" /\ Found(t)
  /\ data' = [data EXCEPT ![slot[t]] = Word(n[t], "BUSY")]
  /\ Return(t, "swap", otheritem[t])

\* Somebody else was faster: exchange() starts again.
SwapFails(t) ==
  /\ ~Found(t)
  /\ Goto(t, "swap", "look")
  /\ Forget(t)
  /\ UNCHANGED <<data, n, slot>>

-----------------------------------------------------------------------------
(* The thread whose node is in the slot *)

\* while(current < bound) ...: somebody has come,
Await(t) ==
  /\ Goto(t, "wait", IF Mine(t).state = "BUSY" THEN "take" ELSE "wait")
  /\ UNCHANGED <<data, n, slot, state, otheritem>>

\* Fault: the clock is not looked at while the slot is WAITING.
TimeIsUp_Never(t) ==
  /\ Mine(t).state = "EMPTY"
  /\ Goto(t, "wait", "withdraw")
  /\ UNCHANGED <<data, n, slot, state, otheritem>>

\* or nobody has, and the clock has reached bound.
TimeIsUp(t) ==
  /\ Mine(t).state # "BUSY"
  /\ Goto(t, "wait", "withdraw")
  /\ UNCHANGED <<data, n, slot, state, otheritem>>

\* Fault: the slot is left as it is.
Withdraw_Leaves(t) ==
  /\ Mine(t) = Word(n[t], "WAITING")
  /\ Return(t, "withdraw", n[t])
  /\ UNCHANGED data

\* compareAndSet(n, NULL, WAITING, EMPTY): nobody has come, and visit()
\* returns n ...
Withdraw(t) ==
  /\ Mine(t) = Word(n[t], "WAITING")
  /\ data' = [data EXCEPT ![slot[t]] = Word(NULL, "EMPTY")]
  /\ Return(t, "withdraw", n[t])

\* ... or somebody has come after the last look.
MetAfterAll(t) ==
  /\ Mine(t) # Word(n[t], "WAITING")
  /\ Goto(t, "withdraw", "take")
  /\ UNCHANGED <<data, n, slot, state, otheritem>>

\* otheritem, the second half of get()
Take(t) ==
  /\ Goto(t, "take", "clear")
  /\ otheritem' = [otheritem EXCEPT ![t] = Mine(t).item]
  /\ UNCHANGED <<data, n, slot, state>>

\* slot.set(NULL, EMPTY); return otheritem;
Clear(t) ==
  /\ data' = [data EXCEPT ![slot[t]] = Word(NULL, "EMPTY")]
  /\ Return(t, "clear", otheritem[t])

-----------------------------------------------------------------------------

Exchange(t) ==
  \/ TooLate(t) \/ ReadState(t) \/ ReadItem(t)
  \/ Offer(t) \/ Accept(t) \/ SwapFails(t)
  \/ Await(t) \/ TimeIsUp(t) \/ Withdraw(t) \/ MetAfterAll(t) \/ Take(t) \/ Clear(t)

Thread(t) == (Visit(t) \/ Leave(t) \/ Exchange(t)) /\ UNCHANGED behind

Next == \E t \in Threads : Thread(t)

\* A thread inside exchange() keeps running, and time passes: if it reads the
\* clock again and again, it reads a time after bound in the end.
FairSpec ==
  /\ Init /\ [][Next]_vars
  /\ \A t \in Threads :
       /\ WF_vars(Exchange(t) /\ UNCHANGED behind)
       /\ SF_vars((TooLate(t) \/ TimeIsUp(t)) /\ UNCHANGED behind)

-----------------------------------------------------------------------------

TypeOK ==
  /\ data \in [Draws -> [item : Nodes \cup {NULL}, state : States]]
  /\ behind \in [item : Nodes \cup {NULL}, state : States]
  /\ pc \in [Threads -> {"outside", "look", "item", "swap", "wait",
                         "withdraw", "take", "clear", "leaving"}]
  /\ n \in [Threads -> Nodes \cup {NULL}]
  /\ slot \in [Threads -> Draws]
  /\ state \in [Threads -> States]
  /\ otheritem \in [Threads -> Nodes \cup {NULL}]

\* The words that begin as Slot() makes them: the slots, and the word behind them
\* if the heap was clean.  Of the threads that draw another word nothing is said,
\* and nothing that they do is to harm those that do not.
Made == Slots \cup {s \in Draws : behind = Word(NULL, "EMPTY")}
Astray(t) == slot[t] \notin Made

\* A slot that is not EMPTY belongs to exactly one thread, which is going to
\* empty it, and an EMPTY one to nobody, whose word is 0: no thread can leave
\* and forget its slot, which would then be lost for good, or find its own
\* slot given to another.
SlotsOwned ==
  \A s \in Made :
    LET owners == {t \in Threads : Owns(t) /\ slot[t] = s}
    IN  IF data[s].state = "EMPTY"
        THEN owners = {} /\ data[s].item = NULL
        ELSE \E t \in owners :
               /\ owners = {t}
               /\ data[s].state = "WAITING" => data[s].item = n[t]

Abstract == INSTANCE Rendezvous WITH
  at <- [t \in Threads |->
           IF Astray(t) THEN "outside" ELSE
             CASE pc[t] \in {"outside", "leaving"} -> pc[t]
               [] Met(t) -> "leaving"
               [] OTHER -> "inside"],
  brought <- [t \in Threads |->
                IF Astray(t) \/ pc[t] = "leaving" \/ Met(t) THEN NULL ELSE n[t]],
  leaving <- [t \in Threads |->
                IF ~Astray(t) /\ (pc[t] = "leaving" \/ Met(t)) THEN Holds(t) ELSE NULL]

\* However the reads, the compare-and-swaps and the timeouts of the threads
\* interleave, nodes are traded between two threads or brought back: none is
\* lost, given to two threads, or made up from two different words.
ImplementsRendezvous == Abstract!Spec

\* No thread stays in visit() for ever, whatever the others do.
VisitEnds == \A t \in Threads : pc[t] # "outside" ~> pc[t] \in {"leaving", "outside"}
=============================================================================
