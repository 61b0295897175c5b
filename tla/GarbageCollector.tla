-------------------------- MODULE GarbageCollector --------------------------
(***************************************************************************)
(* testtwo with the lock-free stack, built with USE_GC: the garbage        *)
(* collector of project3/GarbageCollector.cpp decides when a popped node   *)
(* can be deleted or used again although other threads may still be        *)
(* reading it in trypop().                                                 *)
(*                                                                         *)
(* Each thread has a clock, drawn from a global counter, that it moves on  *)
(* only between its operations on the stack.  A node that is popped gets   *)
(* the popper's new clock; once every registered clock is later, no        *)
(* operation that could have seen the node on the stack is still running.  *)
(***************************************************************************)
EXTENDS LockFreeStack, SequencesExt

CONSTANTS
  Threshold,     \* 10 in clean(): longer dirty lists are cleaned up
  ListSize       \* the capacity of the lists (1024*1024)

\* There are finitely many addresses.
ASSUME GarbageCollectorAssumption ==
  Threshold \in Nat /\ ListSize \in Nat \ {0} /\ IsFiniteSet(Nodes)

VARIABLES
  clocks,        \* GarbageCollector::clocks: the registered threads
  clock,         \* GCNode::clock of each thread
  drawn,         \* what getclock() returned and is not yet stored in clock
  seen,          \* min, in getminclock() of each thread
  at,            \* where in clocks getminclock() is
  stamp,         \* Node::clock of each node in a dirty list
  dirty,         \* GCNode::dirty_list of each thread
  clean          \* GCNode::clean_list

clockVars == <<clock, drawn, seen, stamp>>
listVars == <<clocks, at, dirty, clean>>
vars == <<harnessVars, stackVars, clockVars, listVars>>

CleanPoints == {"stamp", "scanned", "restamp"}
DeregPoints == {"deregstamp", "unregister"}
ScanPoints == {"scan", "take"}
Points == WorkPoints \cup OpPoints \cup CleanPoints \cup DeregPoints \cup
          ScanPoints \cup {"register", "aborted"}

\* 0 is earlier than every clock that is drawn (the counter starts at 1).
Init ==
  /\ HarnessInit
  /\ StackInit
  /\ clocks = << >>
  /\ clock = [t \in Workers |-> 0]
  /\ drawn = [t \in Workers |-> 0]
  /\ seen = [t \in Workers |-> 0]
  /\ at = [t \in Workers |-> 1]
  /\ stamp = [n \in Nodes |-> 0]
  /\ dirty = [t \in Workers |-> << >>]
  /\ clean = [t \in Workers |-> << >>]

-----------------------------------------------------------------------------
(* The clock *)

\* __sync_fetch_and_add(&clock, 1): thread t draws a clock later than all that
\* were drawn before, while s is what the stamps are about to be.  Clocks are
\* 64 bits wide and are only ever compared, so the model keeps their order
\* alone: those still in use are renumbered as a new one is drawn.
GetClock(t, s) ==
  LET inUse == {0} \cup {clock[u] : u \in Workers} \cup {drawn[u] : u \in Workers}
               \cup {seen[u] : u \in Workers \ {t}} \cup {s[n] : n \in Nodes}
      rank(c) == Cardinality({d \in inUse : d < c})
  IN  /\ clock' = [u \in Workers |-> rank(clock[u])]
      /\ drawn' = [u \in Workers |->
                     IF u = t THEN Cardinality(inUse) ELSE rank(drawn[u])]
      /\ seen' = [u \in Workers |-> IF u = t THEN 0 ELSE rank(seen[u])]
      /\ stamp' = [n \in Nodes |-> rank(s[n])]

\* What was drawn becomes the thread's clock, which the others can read.
StoreClock(t, from, to) ==
  /\ StackStep(t, from, to)
  /\ clock' = [clock EXCEPT ![t] = drawn[t]]
  /\ drawn' = [drawn EXCEPT ![t] = 0]
  /\ UNCHANGED <<seen, stamp, stackVars, at, dirty, clean>>

\* The threads inside getminclock() hold the lock for reading.
Unlocked == \A t \in Workers : pc[t] \notin ScanPoints

-----------------------------------------------------------------------------
(* reg() and alloc() *)

\* GC.reg() sets the clock of the new GCNode, which nobody else can see yet.
RegisterDraw(t) ==
  /\ StackStep(t, "start", "register")
  /\ GetClock(t, stamp)
  /\ UNCHANGED <<stackVars, listVars>>

\* clocks.push_back(&retval->clock), with the lock held for writing
Register(t) ==
  /\ Unlocked
  /\ StoreClock(t, "register", "loop")
  /\ clocks' = Append(clocks, t)

\* Fault: alloc() leaves the node in the clean list.
Reuse_LeavesNode(t) ==
  /\ clean[t] # << >>
  /\ BeginPush(t, Head(clean[t]))
  /\ UNCHANGED <<linkVars, regVars, clockVars, listVars>>

\* alloc() takes a node from the clean list ...
Reuse(t) ==
  /\ clean[t] # << >>
  /\ LET n == Head(clean[t])
     IN  BeginPush(t, n) /\ next' = [next EXCEPT ![n] = NULL]
  /\ clean' = [clean EXCEPT ![t] = Tail(@)]
  /\ UNCHANGED <<head, free, contents, regVars, clockVars, clocks, at, dirty>>

\* ... or, if that is empty, from the heap.
Allocate(t) ==
  /\ clean[t] = << >>
  /\ \E n \in Nodes : New(t, n)
  /\ UNCHANGED <<regVars, clockVars, listVars>>

-----------------------------------------------------------------------------
(* clean(), getminclock() and cleanup() *)

\* popcount++, and clean() draws a clock.
BeginClean(t) ==
  /\ node[t] # NULL
  /\ Goto(t, "popped", "stamp")
  /\ popcount' = [popcount EXCEPT ![t] = @ + 1]
  /\ GetClock(t, stamp)
  /\ UNCHANGED <<node, timeup, pushcount, totalpushcount, totalpopcount,
                 mypopcount, stackVars, listVars>>

NothingPopped(t) ==
  /\ node[t] = NULL
  /\ CountPop(t)
  /\ UNCHANGED <<stackVars, clockVars, listVars>>

\* getminclock() goes on to the next clock, or returns at the end of the list.
ScanPast(t, from) ==
  LET last == at[t] = Len(clocks)
  IN  /\ StackStep(t, from, IF last THEN "scanned" ELSE "scan")
      /\ at' = [at EXCEPT ![t] = IF last THEN 1 ELSE @ + 1]

\* The clock that getminclock() is at, which is volatile: as it is right now.
Scanned(t) == clock[clocks[at[t]]]

\* Fault: every clock is taken, whatever it is.
Smaller_Always(t) == TRUE

\* Fault: getminclock() starts with min = 0.
Smaller_FromZero(t) == Scanned(t) < seen[t]

\* *(*it) < min, which holds for the first clock: min is 2^64 - 1 before.
Smaller(t) == at[t] = 1 \/ Scanned(t) < seen[t]

\* if(*(*it) < min): the clock is loaded, to be compared ...
ScanCompare(t) ==
  /\ \/ StackStep(t, "scan", "take") /\ Smaller(t) /\ UNCHANGED at
     \/ ScanPast(t, "scan") /\ ~Smaller(t)
  /\ UNCHANGED <<stackVars, clockVars, clocks, dirty, clean>>

\* min = *(*it): ... and loaded once more, when its thread may have moved it on.
ScanTake(t) ==
  /\ ScanPast(t, "take")
  /\ seen' = [seen EXCEPT ![t] = Scanned(t)]
  /\ UNCHANGED <<stackVars, clock, drawn, stamp, clocks, dirty, clean>>

\* Fault: clean() does not look at the other clocks.
NobodyBehind_Always(t) == TRUE

\* clock == minclock: every other thread is past the pop of n.
NobodyBehind(t) == clock[t] = seen[t]

DeleteAtOnce(t) ==
  /\ node[t] # NULL
  /\ NobodyBehind(t)
  /\ Goto(t, "scanned", "test")
  /\ node' = [node EXCEPT ![t] = NULL]
  /\ free' = free \cup {node[t]}
  /\ seen' = [seen EXCEPT ![t] = 0]
  /\ UNCHANGED <<countVars, head, next, contents, regVars,
                 clock, drawn, stamp, listVars>>

MustWait(t) == pc[t] = "scanned" /\ node[t] # NULL /\ ~NobodyBehind(t)

\* dirty_list.push_back(n)
KeepDirty(t) ==
  /\ MustWait(t)
  /\ Len(dirty[t]) <= Threshold /\ Len(dirty[t]) < ListSize
  /\ Goto(t, "scanned", "test")
  /\ node' = [node EXCEPT ![t] = NULL]
  /\ stamp' = [stamp EXCEPT ![node[t]] = clock[t]]
  /\ dirty' = [dirty EXCEPT ![t] = Append(@, node[t])]
  /\ seen' = [seen EXCEPT ![t] = 0]
  /\ UNCHANGED <<countVars, stackVars, clock, drawn, clocks, at, clean>>

\* The nodes that cleanup(minclock) takes from the front of the dirty list.
OldNodes(t) ==
  LET d == dirty[t]
      old(k) == \A i \in 1 .. k : stamp[d[i]] < seen[t]
  IN  SubSeq(d, 1, Max({k \in 0 .. Len(d) : old(k)}))

\* The first kept of the nodes in old go to the front of the clean list, one by
\* one, the others to the heap; d becomes the dirty list, where a node that is
\* new gets the thread's clock; and a clock is drawn.
Recycle(t, old, kept, d) ==
  /\ clean' = [clean EXCEPT ![t] = Reverse(SubSeq(old, 1, kept)) \o @]
  /\ free' = free \cup ToSet(SubSeq(old, kept + 1, Len(old)))
  /\ dirty' = [dirty EXCEPT ![t] = d]
  /\ GetClock(t, [n \in Nodes |->
                    CASE n \in ToSet(old) -> 0
                      [] n \in ToSet(d) \ ToSet(dirty[t]) -> clock[t]
                      [] OTHER -> stamp[n]])
  /\ UNCHANGED <<head, next, contents, regVars, clocks, at>>

\* What cleanup() leaves in the dirty list.
YoungNodes(t) == SubSeq(dirty[t], Len(OldNodes(t)) + 1, Len(dirty[t]))

\* Fault: clean() does not ask whether the dirty list is still full.
Cleanup_NoFullTest(t, more) ==
  Recycle(t, OldNodes(t), Min({Len(OldNodes(t)), ListSize - Len(clean[t])}),
          YoungNodes(t) \o more)

\* Fault: dirty_list.push_front(n).
Cleanup_PushFront(t, more) ==
  /\ Len(YoungNodes(t)) + Len(more) <= ListSize
  /\ Recycle(t, OldNodes(t), Min({Len(OldNodes(t)), ListSize - Len(clean[t])}),
             more \o YoungNodes(t))

\* cleanup(), after which clean() appends its node.
Cleanup(t, more) ==
  /\ Len(YoungNodes(t)) + Len(more) <= ListSize
  /\ Recycle(t, OldNodes(t), Min({Len(OldNodes(t)), ListSize - Len(clean[t])}),
             YoungNodes(t) \o more)

CleanupInClean(t) ==
  /\ MustWait(t)
  /\ Len(dirty[t]) > Threshold
  /\ Goto(t, "scanned", "restamp")
  /\ node' = [node EXCEPT ![t] = NULL]
  /\ Cleanup(t, <<node[t]>>)
  /\ UNCHANGED countVars

\* "DIRTY LIST FULL": nothing was old enough, and _exit(1) ends the process.
DirtyListFull(t) ==
  /\ MustWait(t)
  /\ Len(dirty[t]) = ListSize
  /\ Len(dirty[t]) > Threshold => OldNodes(t) = << >>
  /\ Goto(Main, "join", "aborted")
  /\ UNCHANGED <<node, countVars, stackVars, clockVars, listVars>>

-----------------------------------------------------------------------------
(* dereg() *)

\* Fault: the dirty list is not emptied first.
DeregTest_Not(t) == "unregister"

\* while( !n->empty() ) n->cleanup( getminclock() );
DeregTest(t) == IF dirty[t] = << >> THEN "unregister" ELSE "scan"

Deregister(t) ==
  /\ AddTotals(t, DeregTest(t))
  /\ UNCHANGED <<stackVars, clockVars, listVars>>

CleanupInDereg(t) ==
  /\ node[t] = NULL
  /\ StackStep(t, "scanned", "deregstamp")
  /\ Cleanup(t, << >>)

\* clocks.remove( &(n->clock) ), with the lock held for writing, and delete n,
\* whose destructor deletes what is in the clean list.
Unregister(t) ==
  /\ Unlocked
  /\ StackStep(t, "unregister", "done")
  /\ \E i \in DOMAIN clocks : clocks[i] = t /\ clocks' = RemoveAt(clocks, i)
  /\ free' = free \cup ToSet(clean[t])
  /\ clean' = [clean EXCEPT ![t] = << >>]
  /\ clock' = [clock EXCEPT ![t] = 0]
  /\ UNCHANGED <<head, next, contents, regVars, drawn, seen, stamp, at, dirty>>

-----------------------------------------------------------------------------

LockForWriting(t) == Register(t) \/ Unregister(t)

Collect(t) ==
  \/ RegisterDraw(t) \/ BeginClean(t) \/ ScanCompare(t) \/ ScanTake(t)
  \/ DeleteAtOnce(t) \/ KeepDirty(t) \/ CleanupInClean(t)
  \/ Deregister(t) \/ CleanupInDereg(t)
  \/ /\ \/ StoreClock(t, "stamp", "scan")
        \/ StoreClock(t, "restamp", "test")
        \/ StoreClock(t, "deregstamp", DeregTest(t))
     /\ UNCHANGED clocks

Worker(t) ==
  \/ (BeginPop(t) \/ CountPush(t) \/ Again(t) \/ Leave(t))
       /\ UNCHANGED <<stackVars, clockVars, listVars>>
  \/ (Push(t) \/ Pop(t)) /\ UNCHANGED <<clockVars, listVars>>
  \/ Reuse(t) \/ Allocate(t) \/ NothingPopped(t)
  \/ Collect(t) \/ DirtyListFull(t) \/ LockForWriting(t)

MainThread ==
  \/ MainStep /\ UNCHANGED <<stackVars, clockVars, listVars>>
  \/ DeleteLeftover /\ UNCHANGED <<regVars, clockVars, listVars>>
  \/ Pop(Main) /\ UNCHANGED <<clockVars, listVars>>

Next ==
  \/ MainThread
  \/ \E t \in Workers : Worker(t)
  \/ TimeUp /\ UNCHANGED <<stackVars, clockVars, listVars>>
  \/ Exited /\ UNCHANGED vars

Spec == Init /\ [][Next]_vars

\* Every thread is scheduled again and again, and time passes.  A thread that
\* wants the lock for writing gets it if it is free again and again: while
\* other threads keep locking it for reading, as they do in dereg(), weak
\* fairness would not do.
FairSpec ==
  /\ Spec
  /\ WF_vars(MainThread)
  /\ \A t \in Workers : WF_vars(Worker(t)) /\ SF_vars(LockForWriting(t))
  /\ WF_vars(TimeUp /\ UNCHANGED <<stackVars, clockVars, listVars>>)

-----------------------------------------------------------------------------

TypeOK ==
  /\ HarnessTypeOK(Points)
  /\ StackTypeOK
  /\ clocks \in Seq(Workers)
  /\ clock \in [Workers -> Nat]
  /\ drawn \in [Workers -> Nat]
  /\ seen \in [Workers -> Nat]
  /\ at \in [Workers -> Nat]
  /\ stamp \in [Nodes -> Nat]
  /\ \A t \in Workers : dirty[t] \in Seq(Nodes) /\ Len(dirty[t]) <= ListSize
  /\ \A t \in Workers : clean[t] \in Seq(Nodes) /\ Len(clean[t]) <= ListSize

\* Where the node n is in the sequence s.
In(n, s) == {i \in DOMAIN s : s[i] = n}

\* Every node is in one place: on the stack, in the hands of one actor, in one
\* dirty or clean list, or free.  None is lost and none is deleted or handed
\* out twice.
Places(n) ==
  {<<"stack", 0, i>> : i \in In(n, contents)}
  \cup {<<"hand", a, 0>> : a \in {b \in Actors : node[b] = n}}
  \cup (UNION {{<<"dirty", t, i>> : i \in In(n, dirty[t])} : t \in Workers})
  \cup (UNION {{<<"clean", t, i>> : i \in In(n, clean[t])} : t \in Workers})
  \cup (IF n \in free THEN {<<"free", 0, 0>>} ELSE {})
NodesConserved == \A n \in Nodes : Cardinality(Places(n)) = 1

\* Nothing leaks: when main returns, all nodes have been deleted.
NoLeak == pc[Main] = "exit" => free = Nodes

\* cleanup() stops at the first node that is too young, so a dirty list has to
\* be in the order of its nodes' clocks.
DirtySorted ==
  \A t \in Workers :
    \A i, j \in DOMAIN dirty[t] :
      i < j => stamp[dirty[t][i]] < stamp[dirty[t][j]]

\* What the clocks are for: a node that a thread is about to unlink in
\* trypop() is neither free nor ready to be used again, nor on its way back.
Protected ==
  \A a \in Actors :
    pc[a] \in {"popnext", "popcas"} =>
      /\ cur[a] \notin free
      /\ \A t \in Workers : cur[a] \notin ToSet(clean[t])
      /\ \A t \in Workers : cur[a] = node[t] =>
            pc[t] \notin {"push", "pushlink", "pushcas", "backoff", "widen"}

\* The stack is the same stack.  What clean() and dereg() do with the nodes is
\* out of its sight.
Stack == INSTANCE LifoStack WITH
           pc <- [a \in Actors |->
                    CASE pc[a] = "register" -> "start"
                      [] pc[a] \in CleanPoints \cup ScanPoints ->
                           IF node[a] # NULL \/ pc[a] = "restamp"
                           THEN "test" ELSE "done"
                      [] pc[a] \in DeregPoints -> "done"
                      [] pc[a] = "aborted" -> "join"
                      [] OTHER -> OpPoint(pc[a])],
           node <- [a \in Actors |->
                      IF pc[a] \in CleanPoints \cup ScanPoints
                      THEN NULL ELSE node[a]]
ImplementsStack == Stack!Spec

\* "SECONDS determines how long the test runs": the loop of dereg() ends, too.
Ends == <>~Running
=============================================================================
