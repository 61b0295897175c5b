-------------------------- MODULE TestStacks_proofs -------------------------
(***************************************************************************)
(* Proofs about testtwo with LockStack and LockFreeStack, built without    *)
(* USE_GC, for every number of threads, of nodes and of pushes.            *)
(***************************************************************************)
EXTENDS TestStacks, FiniteSetTheorems, TLAPS

-----------------------------------------------------------------------------
(* The steps: the harness is the same whichever stack it runs *)

StackUnchanged == UNCHANGED <<stacktype, owner, freeVars>>

HarnessOf(t) == Start(t) \/ WorkerStep(t) \/ AddTotals(t, "done")

\* A step of the harness that leaves the nodes alone.
HarnessStep ==
  /\ (\E t \in Workers : HarnessOf(t)) \/ MainStep \/ TimeUp
  /\ UNCHANGED linkVars /\ StackUnchanged

AllocateStep == (\E t \in Workers, n \in Nodes : New(t, n)) /\ StackUnchanged

DeleteStep == DeleteLeftover /\ StackUnchanged

LockStep ==
  /\ stacktype = "LOCK"
  /\ \E a \in Actors : Lock!StackOp(a)
  /\ UNCHANGED <<stacktype, freeVars>>

FreeStep ==
  /\ stacktype = "LOCKFREE"
  /\ \E a \in Actors : LockFree!Push(a) \/ LockFree!Pop(a)
  /\ UNCHANGED <<stacktype, owner>>

LEMMA Threads ==
  /\ Actors = Workers \cup {Main} /\ Main \notin Workers
  /\ Lock!Actors = Actors /\ Lock!Workers = Workers /\ Lock!Main = Main
  /\ LockFree!Actors = Actors /\ LockFree!Workers = Workers
  /\ LockFree!Main = Main
  BY StackTestAssumption
  DEF Actors, Workers, Main, Lock!Actors, Lock!Workers, Lock!Main,
      LockFree!Actors, LockFree!Workers, LockFree!Main

\* The harness of each stack, instantiated, is the harness.
LEMMA LockHarness ==
  ASSUME NEW t
  PROVE  /\ Lock!Start(t) \/ Lock!WorkerStep(t) \/ Lock!AddTotals(t, "done")
            => HarnessOf(t)
         /\ \A n : Lock!New(t, n) => New(t, n)
         /\ Lock!MainStep => MainStep
         /\ Lock!DeleteLeftover => DeleteLeftover
<1> USE Threads
    DEF Lock!StackStep, Lock!Goto, Lock!Running, Lock!countVars,
        StackStep, Goto, Running, countVars
<1>1. Lock!Start(t) \/ Lock!WorkerStep(t) \/ Lock!AddTotals(t, "done")
      => HarnessOf(t)
  BY DEF Lock!Start, Lock!WorkerStep, Lock!AddTotals, Lock!BeginPop,
         Lock!CountPush, Lock!CountPop, Lock!Again, Lock!Leave, HarnessOf,
         Start, WorkerStep, AddTotals, BeginPop, CountPush, CountPop, Again, Leave
<1>2. \A n : Lock!New(t, n) => New(t, n)
  BY DEF Lock!New, Lock!BeginPush, New, BeginPush
<1>3. Lock!MainStep => MainStep
  BY DEF Lock!MainStep, Lock!Join, Lock!PrintTotals, MainStep, Join, PrintTotals
<1>4. Lock!DeleteLeftover => DeleteLeftover
  BY DEF Lock!DeleteLeftover, Lock!CountLeftover, DeleteLeftover, CountLeftover
<1>5. QED
  BY <1>1, <1>2, <1>3, <1>4

LEMMA FreeHarness ==
  ASSUME NEW t
  PROVE  /\ LockFree!Start(t) \/ LockFree!WorkerStep(t)
            \/ LockFree!AddTotals(t, "done") => HarnessOf(t)
         /\ \A n : LockFree!New(t, n) => New(t, n)
         /\ LockFree!MainStep => MainStep
         /\ LockFree!DeleteLeftover => DeleteLeftover
<1> USE Threads
    DEF LockFree!StackStep, LockFree!Goto, LockFree!Running, LockFree!countVars,
        StackStep, Goto, Running, countVars
<1>1. LockFree!Start(t) \/ LockFree!WorkerStep(t)
      \/ LockFree!AddTotals(t, "done") => HarnessOf(t)
  BY DEF LockFree!Start, LockFree!WorkerStep, LockFree!AddTotals,
         LockFree!BeginPop, LockFree!CountPush, LockFree!CountPop,
         LockFree!Again, LockFree!Leave, HarnessOf,
         Start, WorkerStep, AddTotals, BeginPop, CountPush, CountPop, Again, Leave
<1>2. \A n : LockFree!New(t, n) => New(t, n)
  BY DEF LockFree!New, LockFree!BeginPush, New, BeginPush
<1>3. LockFree!MainStep => MainStep
  BY DEF LockFree!MainStep, LockFree!Join, LockFree!PrintTotals,
         MainStep, Join, PrintTotals
<1>4. LockFree!DeleteLeftover => DeleteLeftover
  BY DEF LockFree!DeleteLeftover, LockFree!CountLeftover, DeleteLeftover,
         CountLeftover
<1>5. QED
  BY <1>1, <1>2, <1>3, <1>4

\* Every step is one of these.
LEMMA Steps ==
  ASSUME LinkTypeOK, [Next]_vars
  PROVE  \/ HarnessStep \/ AllocateStep \/ DeleteStep \/ LockStep \/ FreeStep
         \/ UNCHANGED vars
<1> USE Threads DEF StackUnchanged, freeVars, linkVars
<1>1. ASSUME NEW t \in Workers, Worker(t)
      PROVE  HarnessStep \/ AllocateStep \/ LockStep \/ FreeStep
  <2>1. CASE stacktype = "LOCK" /\ Lock!Worker(t) /\ UNCHANGED freeVars
    <3>0. UNCHANGED stacktype
      BY <1>1 DEF Worker
    <3>1. CASE (Lock!Start(t) \/ Lock!WorkerStep(t) \/ Lock!AddTotals(t, "done"))
               /\ UNCHANGED <<Lock!linkVars, owner>>
      BY <2>1, <3>0, <3>1, LockHarness DEF HarnessStep, Lock!linkVars
    <3>2. CASE Lock!Allocate(t)
      <4>1. PICK n \in Nodes : Lock!New(t, n)
        BY <3>2 DEF Lock!Allocate, LinkTypeOK
      <4>2. QED
        BY <2>1, <3>0, <3>2, <4>1, LockHarness DEF AllocateStep, Lock!Allocate
    <3>3. CASE Lock!StackOp(t)
      BY <2>1, <3>0, <3>3 DEF LockStep
    <3>4. QED
      BY <2>1, <3>1, <3>2, <3>3 DEF Lock!Worker
  <2>2. CASE stacktype = "LOCKFREE" /\ LockFree!Worker(t) /\ UNCHANGED owner
    <3>0. UNCHANGED stacktype
      BY <1>1 DEF Worker
    <3>1. CASE (LockFree!Start(t) \/ LockFree!WorkerStep(t)
                \/ LockFree!AddTotals(t, "done")) /\ UNCHANGED LockFree!stackVars
      BY <2>2, <3>0, <3>1, FreeHarness DEF HarnessStep, LockFree!stackVars
    <3>2. CASE LockFree!Allocate(t)
      <4>1. PICK n \in Nodes : LockFree!New(t, n)
        BY <3>2 DEF LockFree!Allocate, LinkTypeOK
      <4>2. QED
        BY <2>2, <3>0, <3>2, <4>1, FreeHarness
        DEF AllocateStep, LockFree!Allocate, LockFree!regVars
    <3>3. CASE LockFree!Push(t) \/ LockFree!Pop(t)
      BY <2>2, <3>0, <3>3 DEF FreeStep
    <3>4. QED
      BY <2>2, <3>1, <3>2, <3>3 DEF LockFree!Worker
  <2>3. QED
    BY <1>1, <2>1, <2>2 DEF Worker
<1>2. ASSUME MainThread
      PROVE  HarnessStep \/ DeleteStep \/ LockStep \/ FreeStep
  <2>1. CASE stacktype = "LOCK" /\ Lock!MainThread /\ UNCHANGED freeVars
    BY <1>2, <2>1, LockHarness
    DEF MainThread, Lock!MainThread, Lock!linkVars, HarnessStep, DeleteStep, LockStep
  <2>2. CASE stacktype = "LOCKFREE" /\ LockFree!MainThread /\ UNCHANGED owner
    BY <1>2, <2>2, FreeHarness
    DEF MainThread, LockFree!MainThread, LockFree!stackVars, LockFree!regVars,
        HarnessStep, DeleteStep, FreeStep
  <2>3. QED
    BY <1>2, <2>1, <2>2 DEF MainThread
<1>3. CASE Clock
  BY <1>3 DEF Clock, stackVars, HarnessStep
<1>4. QED
  BY <1>1, <1>2, <1>3 DEF Next, vars

-----------------------------------------------------------------------------
(* The nodes: each is free, on the stack, in the hands of one actor, or     *)
(* popped and forgotten                                                     *)

\* The nodes c are linked through nx, starting at h, and none is there twice.
Linked(h, nx, c) ==
  /\ h = IF c = << >> THEN NULL ELSE c[1]
  /\ \A i \in 1..Len(c) : nx[c[i]] = IF i < Len(c) THEN c[i+1] ELSE NULL
  /\ \A i, j \in 1..Len(c) : c[i] = c[j] => i = j

\* What an actor has in hand is nowhere else, and no node on the stack is free.
Owned(held, fr, c) ==
  /\ \A i \in 1..Len(c) : c[i] \notin fr
  /\ \A a \in Actors : held[a] # NULL =>
       /\ held[a] \notin fr
       /\ \A i \in 1..Len(c) : c[i] # held[a]
       /\ \A b \in Actors : held[b] = held[a] => b = a

\* What push() has put on the stack is not in the hands of its caller any more.
Held == [a \in Actors |-> IF pc[a] = "pushunlock" THEN NULL ELSE node[a]]

Heap ==
  /\ LinkTypeOK /\ Held \in [Actors -> Nodes \cup {NULL}]
  /\ Linked(head, next, contents)
  /\ Owned(Held, free, contents)

\* What a step does to the nodes.
HeapKeeps == Held' = Held /\ UNCHANGED linkVars

HeapAllocates == \E a \in Actors, n \in free :
  /\ Held' = [Held EXCEPT ![a] = n]
  /\ free' = free \ {n}
  /\ next' = [next EXCEPT ![n] = NULL]
  /\ UNCHANGED <<head, contents>>

HeapLinks == \E a \in Actors, m \in Nodes \cup {NULL} :
  /\ Held[a] # NULL
  /\ next' = [next EXCEPT ![Held[a]] = m]
  /\ Held' = Held /\ UNCHANGED <<head, free, contents>>

HeapPushes(a) ==
  /\ Held[a] # NULL /\ next[Held[a]] = head
  /\ head' = Held[a] /\ contents' = <<Held[a]>> \o contents
  /\ Held' = [Held EXCEPT ![a] = NULL]
  /\ UNCHANGED <<next, free>>

HeapPops(a) ==
  /\ contents # << >>
  /\ head' = next[head] /\ contents' = Tail(contents)
  /\ Held' = [Held EXCEPT ![a] = head]
  /\ UNCHANGED <<next, free>>

HeapDrops == \E a \in Actors :
  /\ Held' = [Held EXCEPT ![a] = NULL]
  /\ \/ UNCHANGED free
     \/ Held[a] # NULL /\ free' = free \cup {Held[a]}
  /\ UNCHANGED <<head, next, contents>>

HeapStep ==
  \/ HeapKeeps \/ HeapAllocates \/ HeapLinks \/ HeapDrops
  \/ \E a \in Actors : HeapPushes(a) \/ HeapPops(a)

\* The sequence with an element put in front of it.
LEMMA ConsIs ==
  ASSUME NEW S, NEW c \in Seq(S), NEW m \in S
  PROVE  /\ <<m>> \o c \in Seq(S) /\ <<m>> \o c # << >>
         /\ Len(<<m>> \o c) = Len(c) + 1
         /\ (<<m>> \o c)[1] = m
         /\ \A i \in 1..Len(c) : (<<m>> \o c)[i+1] = c[i]
         /\ \A i \in 2..Len(c)+1 : (<<m>> \o c)[i] = c[i-1]
  OBVIOUS

\* A sequence without its first element.
LEMMA TailIs ==
  ASSUME NEW S, NEW c \in Seq(S), c # << >>
  PROVE  /\ Tail(c) \in Seq(S)
         /\ Len(c) >= 1 /\ Len(Tail(c)) = Len(c) - 1
         /\ \A i \in 1..Len(c)-1 : Tail(c)[i] = c[i+1]
         /\ SubSeq(c, 2, Len(c)) = Tail(c)
  OBVIOUS

LEMMA HeapStays == Heap /\ HeapStep => Heap'
<1> SUFFICES ASSUME Heap, HeapStep PROVE Heap'
  OBVIOUS
<1> USE StackTestAssumption DEF Heap, LinkTypeOK
<1>1. CASE HeapKeeps
  BY <1>1 DEF HeapKeeps, linkVars
<1>2. CASE HeapAllocates
  BY <1>2 DEF HeapAllocates, Linked, Owned
<1>3. CASE HeapLinks
  BY <1>3 DEF HeapLinks, Linked, Owned
<1>4. CASE HeapDrops
  BY <1>4 DEF HeapDrops, Linked, Owned
<1>5. ASSUME NEW a \in Actors, HeapPushes(a)
      PROVE  Heap'
  <2> DEFINE m == Held[a]
  <2>1. m \in Nodes
    BY <1>5 DEF HeapPushes
  <2>2. /\ contents' \in Seq(Nodes) /\ contents' # << >>
        /\ Len(contents') = Len(contents) + 1
        /\ contents'[1] = m
        /\ \A i \in 1..Len(contents) : contents'[i+1] = contents[i]
        /\ \A i \in 2..Len(contents') : contents'[i] = contents[i-1]
    BY <1>5, <2>1, ConsIs DEF HeapPushes
  <2>3. Linked(head', next', contents')
    <3>1. \A i \in 1..Len(contents) : contents[i] # m
      BY <1>5, <2>1 DEF HeapPushes, Owned
    <3>2. \A i \in 1..Len(contents') :
            next'[contents'[i]] = IF i < Len(contents') THEN contents'[i+1] ELSE NULL
      <4> SUFFICES ASSUME NEW i \in 1..Len(contents')
                   PROVE  next'[contents'[i]]
                          = IF i < Len(contents') THEN contents'[i+1] ELSE NULL
        OBVIOUS
      <4>1. CASE i = 1
        <5>1. next'[contents'[i]] = IF contents = << >> THEN NULL ELSE contents[1]
          BY <1>5, <2>2, <4>1 DEF HeapPushes, Linked
        <5>2. QED
          BY <2>2, <4>1, <5>1
      <4>2. CASE i # 1
        <5>1. next[contents[i-1]]
              = IF i-1 < Len(contents) THEN contents[i-1+1] ELSE NULL
          BY <2>2, <4>2 DEF Linked
        <5>2. QED
          BY <1>5, <2>2, <4>2, <5>1 DEF HeapPushes
      <4>3. QED
        BY <4>1, <4>2
    <3>3. \A i, j \in 1..Len(contents') : contents'[i] = contents'[j] => i = j
      <4> SUFFICES ASSUME NEW i \in 1..Len(contents'), NEW j \in 1..Len(contents'),
                          contents'[i] = contents'[j]
                   PROVE  i = j
        OBVIOUS
      <4>1. CASE i = 1 \/ j = 1
        BY <2>2, <3>1, <4>1
      <4>2. CASE i # 1 /\ j # 1
        <5>1. i-1 \in 1..Len(contents) /\ j-1 \in 1..Len(contents)
              /\ contents[i-1] = contents[j-1]
          BY <2>2, <4>2
        <5>2. i-1 = j-1
          BY <5>1 DEF Linked
        <5>3. QED
          BY <5>2
      <4>3. QED
        BY <4>1, <4>2
    <3>4. QED
      BY <1>5, <2>2, <3>2, <3>3 DEF HeapPushes, Linked
  <2>4. Owned(Held', free', contents')
    BY <1>5, <2>1, <2>2 DEF HeapPushes, Owned
  <2>5. QED
    BY <1>5, <2>1, <2>2, <2>3, <2>4 DEF HeapPushes
<1>6. ASSUME NEW a \in Actors, HeapPops(a)
      PROVE  Heap'
  <2>1. /\ contents' \in Seq(Nodes)
        /\ Len(contents) >= 1 /\ Len(contents') = Len(contents) - 1
        /\ \A i \in 1..Len(contents') : contents'[i] = contents[i+1]
    BY <1>6, TailIs DEF HeapPops
  <2>2. head = contents[1] /\ head \in Nodes
    BY <1>6, <2>1 DEF HeapPops, Linked
  <2>3. Linked(head', next', contents')
    <3>1. head' = IF contents' = << >> THEN NULL ELSE contents'[1]
      <4>1. head' = IF 1 < Len(contents) THEN contents[1+1] ELSE NULL
        BY <1>6, <2>1, <2>2 DEF HeapPops, Linked
      <4>2. contents' = << >> <=> Len(contents') = 0
        BY <2>1
      <4>3. QED
        BY <2>1, <4>1, <4>2
    <3>2. \A i \in 1..Len(contents') :
            next'[contents'[i]] = IF i < Len(contents') THEN contents'[i+1] ELSE NULL
      <4> SUFFICES ASSUME NEW i \in 1..Len(contents')
                   PROVE  next'[contents'[i]]
                          = IF i < Len(contents') THEN contents'[i+1] ELSE NULL
        OBVIOUS
      <4>1. next[contents[i+1]]
            = IF i+1 < Len(contents) THEN contents[i+1+1] ELSE NULL
        BY <2>1 DEF Linked
      <4>2. QED
        BY <1>6, <2>1, <4>1 DEF HeapPops
    <3>3. \A i, j \in 1..Len(contents') : contents'[i] = contents'[j] => i = j
      <4> SUFFICES ASSUME NEW i \in 1..Len(contents'), NEW j \in 1..Len(contents'),
                          contents'[i] = contents'[j]
                   PROVE  i = j
        OBVIOUS
      <4>1. i+1 \in 1..Len(contents) /\ j+1 \in 1..Len(contents)
            /\ contents[i+1] = contents[j+1]
        BY <2>1
      <4>2. i+1 = j+1
        BY <4>1 DEF Linked
      <4>3. QED
        BY <4>2
    <3>4. QED
      BY <3>1, <3>2, <3>3 DEF Linked
  <2>4. Owned(Held', free', contents')
    BY <1>6, <2>1, <2>2 DEF HeapPops, Linked, Owned
  <2>5. QED
    BY <1>6, <2>1, <2>2, <2>3, <2>4 DEF HeapPops
<1>7. QED
  BY <1>1, <1>2, <1>3, <1>4, <1>5, <1>6 DEF HeapStep

-----------------------------------------------------------------------------
(* The invariant *)

Types ==
  /\ stacktype \in {"LOCK", "LOCKFREE"}
  /\ HarnessTypeOK(IF stacktype = "LOCK" THEN Lock!Points ELSE LockFree!Points)
  /\ LinkTypeOK
  /\ owner \in SUBSET Actors
  /\ cur \in [Actors -> Nodes \cup {NULL}]
  /\ nxt \in [Actors -> Nodes \cup {NULL}]
  /\ limit \in Nat
  /\ lim \in [Actors -> Nat]

\* In push(), before the node is on the stack.
PushPoints == {"push", "pushlink", "pushhead", "pushcas", "backoff", "widen"}
\* In LockStack, between pthread_mutex_lock() and pthread_mutex_unlock().
LockPoints == {"pushlink", "pushhead", "pushunlock", "pophead", "popunlock"}
\* Where main can be: it never pushes.
MainPoints == {"join", "pop", "popped", "exit", "pophead", "popunlock",
               "popread", "popnext", "popcas"}

\* main pops only once the workers are done.
MainInv ==
  /\ pc[Main] \in MainPoints
  /\ pc[Main] # "join" => \A t \in Workers : pc[t] = "done"

\* Who pushes has a node, and once it is linked its successor is what push()
\* took for the top of the stack.
PushInv ==
  \A a \in Actors :
    /\ pc[a] \in PushPoints => node[a] \in Nodes
    /\ pc[a] = "pushhead" => next[node[a]] = head
    /\ pc[a] = "pushcas" => next[node[a]] = cur[a]

\* The mutex keeps all others out of LockStack.
LockInv ==
  stacktype = "LOCK" =>
    \A a \in Actors : pc[a] \in LockPoints => owner = {a}

\* trypop()'s node may be popped, even deleted, by others meanwhile, but nobody
\* is going to push it again, and so nobody changes its next.
PopInv ==
  \A a \in Actors :
    /\ pc[a] \in {"popnext", "popcas"} =>
         /\ cur[a] \in Nodes /\ cur[a] \notin free
         /\ \A b \in Actors : pc[b] \in PushPoints => node[b] # cur[a]
    /\ pc[a] = "popcas" => nxt[a] = next[cur[a]]

Control == MainInv /\ PushInv /\ LockInv /\ PopInv

Inv == Types /\ Heap /\ Control

LEMMA PointsAre ==
  /\ Lock!Points = WorkPoints \cup LockPoints
  /\ LockFree!Points = WorkPoints \cup LockFree!OpPoints
  BY DEF Lock!Points, Lock!WorkPoints, LockFree!Points, LockFree!WorkPoints,
         WorkPoints, LockPoints

LEMMA InvInit == Init => Inv
<1> SUFFICES ASSUME Init PROVE Inv
  OBVIOUS
<1> USE Threads, StackTestAssumption
    DEF HarnessInit, LinkInit, Lock!HarnessInit, Lock!LinkInit,
        LockFree!HarnessInit, LockFree!LinkInit
<1>1. /\ HarnessInit /\ LinkInit /\ owner = {} /\ NoLockFree
      /\ stacktype \in {"LOCK", "LOCKFREE"}
  BY DEF Init, Lock!Init, LockFree!Init, LockFree!StackInit, NoLockFree
<1>2. Types
  <2>1. {"join", "start"} \subseteq WorkPoints
    BY DEF WorkPoints
  <2>2. pc \in [Actors -> {"join", "start"}]
    BY <1>1
  <2>3. pc \in [Actors -> IF stacktype = "LOCK" THEN Lock!Points ELSE LockFree!Points]
    BY <2>1, <2>2, PointsAre
  <2>4. LinkTypeOK
    BY <1>1 DEF LinkTypeOK
  <2>5. QED
    BY <1>1, <2>3, <2>4 DEF Types, HarnessTypeOK, NoLockFree
<1>3. Heap
  BY <1>1, <1>2 DEF Types, Heap, Linked, Owned, Held
<1>4. Control
  BY <1>1 DEF Control, MainInv, PushInv, LockInv, PopInv, MainPoints, PushPoints,
              LockPoints
<1>5. QED
  BY <1>2, <1>3, <1>4 DEF Inv

-----------------------------------------------------------------------------
(* The steps of the harness keep it *)

LEMMA HarnessKeeps ==
  ASSUME Inv, HarnessStep
  PROVE  Types' /\ HeapStep /\ Control'
<1> USE Threads, StackTestAssumption
    DEF StackStep, Goto, countVars, StackUnchanged, freeVars, linkVars
<1>1. Types /\ Control /\ LinkTypeOK
  BY DEF Inv, Types
<1>2. ASSUME NEW t \in Workers, HarnessOf(t),
             UNCHANGED linkVars, StackUnchanged
      PROVE  Types' /\ HeapStep /\ Control'
  <2>1. PICK to \in {"loop", "pop", "test", "total", "done"} :
           /\ pc' = [pc EXCEPT ![t] = to]
           /\ pc[t] \in {"start", "loop", "pushed", "popped", "test", "total"}
           /\ node' = node \/ node' = [node EXCEPT ![t] = NULL]
    BY <1>2 DEF HarnessOf, Start, WorkerStep, AddTotals, BeginPop, CountPush,
                CountPop, Again, Leave
  <2>2. /\ timeup' = timeup /\ pushcount' \in [Workers -> Nat]
        /\ popcount' \in [Workers -> Nat] /\ totalpushcount' \in Nat
        /\ totalpopcount' \in Nat /\ mypopcount' = mypopcount
    BY <1>1, <1>2 DEF Types, HarnessTypeOK, HarnessOf, Start, WorkerStep,
                AddTotals, BeginPop, CountPush, CountPop, Again, Leave
  <2>3. Types'
    BY <1>1, <1>2, <2>1, <2>2, PointsAre
    DEF Types, HarnessTypeOK, LinkTypeOK, WorkPoints
  <2>4. HeapKeeps \/ HeapDrops
    <3>1. CASE node' = node
      BY <1>1, <1>2, <2>1, <3>1 DEF Types, HarnessTypeOK, HeapKeeps, Held
    <3>2. CASE node' = [node EXCEPT ![t] = NULL]
      <4>1. Held' = [Held EXCEPT ![t] = NULL]
        BY <1>1, <2>1, <3>2 DEF Types, HarnessTypeOK, Held
      <4>2. QED
        BY <1>2, <4>1 DEF HeapDrops
    <3>3. QED
      BY <2>1, <3>1, <3>2
  <2>5. MainInv'
    BY <1>1, <1>2, <2>1 DEF Types, HarnessTypeOK, Control, MainInv
  <2>6. (PushInv /\ LockInv /\ PopInv)'
    BY <1>1, <1>2, <2>1
    DEF Types, HarnessTypeOK, Control, PushInv, LockInv, PopInv, PushPoints, LockPoints
  <2>7. QED
    BY <2>3, <2>4, <2>5, <2>6 DEF Control, HeapStep
<1>3. CASE /\ Join \/ PrintTotals
           /\ UNCHANGED linkVars /\ StackUnchanged
  <2>1. PICK to \in {"pop", "exit"} :
           /\ pc' = [pc EXCEPT ![Main] = to] /\ node' = node
           /\ pc[Main] \in {"join", "popped"}
           /\ \A t \in Workers : pc[t] = "done"
    BY <1>1, <1>3 DEF Join, PrintTotals, Control, MainInv
  <2>2. Types'
    BY <1>1, <1>3, <2>1, PointsAre
    DEF Types, HarnessTypeOK, LinkTypeOK, WorkPoints, Join, PrintTotals
  <2>3. HeapKeeps
    BY <1>1, <1>3, <2>1 DEF Types, HarnessTypeOK, HeapKeeps, Held
  <2>4. Control'
    BY <1>1, <1>3, <2>1
    DEF Types, HarnessTypeOK, Control, MainInv, PushInv, LockInv, PopInv,
        PushPoints, LockPoints, MainPoints
  <2>5. QED
    BY <2>2, <2>3, <2>4 DEF HeapStep
<1>4. CASE TimeUp /\ UNCHANGED linkVars /\ StackUnchanged
  BY <1>1, <1>4
  DEF TimeUp, Types, HarnessTypeOK, LinkTypeOK, Control, MainInv, PushInv, LockInv,
      PopInv, HeapStep, HeapKeeps, Held
<1>5. QED
  BY <1>2, <1>3, <1>4 DEF HarnessStep, MainStep

LEMMA AllocateKeeps ==
  ASSUME Inv, AllocateStep
  PROVE  Types' /\ HeapStep /\ Control'
<1> USE Threads, StackTestAssumption
    DEF New, BeginPush, Goto, countVars, StackUnchanged, freeVars
<1>1. Types /\ Control /\ Heap /\ LinkTypeOK
  BY DEF Inv, Types
<1>2. PICK t \in Workers, n \in Nodes : New(t, n)
  BY DEF AllocateStep
<1>3. StackUnchanged
  BY DEF AllocateStep
<1>4. Types'
  BY <1>1, <1>2, <1>3, PointsAre DEF Types, HarnessTypeOK, LinkTypeOK, WorkPoints
<1>5. HeapAllocates
  <2>1. Held' = [Held EXCEPT ![t] = n]
    BY <1>1, <1>2 DEF Types, HarnessTypeOK, Held
  <2>2. QED
    BY <1>2, <2>1 DEF HeapAllocates
<1>6. \A a \in Actors : pc[a] # "pushunlock" => node[a] # n
  <2>1. n \in free /\ n # NULL
    BY <1>2
  <2>2. \A a \in Actors : Held[a] # n
    BY <1>1, <2>1 DEF Heap, Owned
  <2>3. QED
    BY <2>2 DEF Held
<1>7. MainInv' /\ LockInv'
  BY <1>1, <1>2, <1>3
  DEF Types, HarnessTypeOK, Control, MainInv, LockInv, LockPoints
<1>8. PushInv'
  BY <1>1, <1>2, <1>3, <1>6
  DEF Types, HarnessTypeOK, LinkTypeOK, Control, PushInv, PushPoints
<1>9. PopInv'
  BY <1>1, <1>2, <1>3
  DEF Types, HarnessTypeOK, LinkTypeOK, Control, PopInv, PushPoints
<1>10. QED
  BY <1>4, <1>5, <1>7, <1>8, <1>9 DEF Control, HeapStep

LEMMA DeleteKeeps ==
  ASSUME Inv, DeleteStep
  PROVE  Types' /\ HeapStep /\ Control'
<1> USE Threads, StackTestAssumption
    DEF DeleteStep, DeleteLeftover, CountLeftover, Goto, StackUnchanged, freeVars
<1>1. Types /\ Control /\ LinkTypeOK
  BY DEF Inv, Types
<1>2. Types'
  BY <1>1, PointsAre DEF Types, HarnessTypeOK, LinkTypeOK, WorkPoints
<1>3. HeapDrops
  BY <1>1 DEF Types, HarnessTypeOK, HeapDrops, Held
<1>4. \A t \in Workers : pc[t] = "done"
  BY <1>1 DEF Control, MainInv
<1>5. Control'
  BY <1>1, <1>4
  DEF Types, HarnessTypeOK, Control, MainInv, PushInv, LockInv, PopInv,
      PushPoints, LockPoints, MainPoints
<1>6. QED
  BY <1>2, <1>3, <1>5 DEF HeapStep

-----------------------------------------------------------------------------
(* So do the steps of LockStack *)

LEMMA LockKeeps ==
  ASSUME Inv, LockStep
  PROVE  Types' /\ HeapStep /\ Control'
<1> USE Threads, StackTestAssumption
    DEF Lock!StackStep, Lock!Goto, Lock!Running, Lock!countVars, Lock!linkVars,
        Lock!PushReturns, freeVars, Types, HarnessTypeOK, LinkTypeOK
<1>1. Types /\ MainInv /\ PushInv /\ LockInv /\ PopInv
  BY DEF Inv, Control
<1>2. /\ stacktype = "LOCK" /\ UNCHANGED <<stacktype, freeVars>>
      /\ pc \in [Actors -> WorkPoints \cup LockPoints]
  BY <1>1, PointsAre DEF LockStep
<1>3. PICK a \in Actors : Lock!StackOp(a)
  BY DEF LockStep
<1>4. WorkPoints \cap {"popnext", "popcas", "pushcas"} = {}
      /\ LockPoints \cap {"popnext", "popcas", "pushcas"} = {}
  BY DEF WorkPoints, LockPoints
<1>5. Held \in [Actors -> Nodes \cup {NULL}]
      /\ (pc[a] # "pushunlock" => Held[a] = node[a])
  BY <1>1 DEF Held
<1> DEFINE Kept == Types' /\ HeapStep /\ PushInv' /\ LockInv'
<1>c. pc[a] \in LockPoints =>
        \A b \in Actors : b # a => pc[b] \notin LockPoints
  BY <1>1, <1>2 DEF LockInv
<1>6. ASSUME Lock!Lock(a, "push", "pushlink")
      PROVE  Kept
  <2>1. Types'
    BY <1>1, <1>2, <1>6, PointsAre DEF Lock!Lock, WorkPoints, LockPoints
  <2>2. HeapKeeps
    BY <1>1, <1>6 DEF Lock!Lock, HeapKeeps, Held, linkVars
  <2>3. PushInv' /\ LockInv'
    BY <1>1, <1>2, <1>6 DEF Lock!Lock, PushInv, LockInv, PushPoints, LockPoints
  <2>4. QED
    BY <2>1, <2>2, <2>3 DEF HeapStep
<1>7. ASSUME Lock!Lock(a, "pop", "pophead")
      PROVE  Kept
  <2>1. Types'
    BY <1>1, <1>2, <1>7, PointsAre DEF Lock!Lock, WorkPoints, LockPoints
  <2>2. HeapKeeps
    BY <1>1, <1>7 DEF Lock!Lock, HeapKeeps, Held, linkVars
  <2>3. PushInv' /\ LockInv'
    BY <1>1, <1>2, <1>7 DEF Lock!Lock, PushInv, LockInv, PushPoints, LockPoints
  <2>4. QED
    BY <2>1, <2>2, <2>3 DEF HeapStep
<1>8. ASSUME Lock!PushLink(a)
      PROVE  Kept
  <2>1. Types'
    BY <1>1, <1>2, <1>8, PointsAre
    DEF Lock!PushLink, WorkPoints, LockPoints, PushInv, PushPoints
  <2>2. node[a] \in Nodes
    BY <1>1, <1>8 DEF Lock!PushLink, PushInv, PushPoints
  <2>3. Held' = Held
    BY <1>1, <1>8 DEF Lock!PushLink, Held
  <2>4. HeapLinks
    BY <1>1, <1>5, <1>8, <2>2, <2>3 DEF Lock!PushLink, HeapLinks
  <2>5. LockInv'
    BY <1>1, <1>2, <1>8 DEF Lock!PushLink, LockInv, LockPoints
  <2>6. PushInv'
    BY <1>1, <1>2, <1>4, <1>8, <2>2
    DEF Lock!PushLink, PushInv, LockInv, PushPoints, LockPoints
  <2>7. QED
    BY <2>1, <2>4, <2>5, <2>6 DEF HeapStep
<1>9. ASSUME Lock!PushHead(a)
      PROVE  Kept
  <2>1. node[a] \in Nodes /\ next[node[a]] = head
    BY <1>1, <1>9 DEF Lock!PushHead, PushInv, PushPoints
  <2>2. Types'
    BY <1>1, <1>2, <1>9, <2>1, ConsIs, PointsAre
    DEF Lock!PushHead, WorkPoints, LockPoints
  <2>3. Held' = [Held EXCEPT ![a] = NULL]
    BY <1>1, <1>9 DEF Lock!PushHead, Held
  <2>4. HeapPushes(a)
    BY <1>5, <1>9, <2>1, <2>3 DEF Lock!PushHead, HeapPushes
  <2>5. LockInv'
    BY <1>1, <1>2, <1>9 DEF Lock!PushHead, LockInv, LockPoints
  <2>6. PushInv'
    <3>1. /\ pc'[a] = "pushunlock" /\ node' = node /\ next' = next
          /\ \A b \in Actors \ {a} : pc'[b] = pc[b]
      BY <1>1, <1>2, <1>9 DEF Lock!PushHead
    <3>2. \A b \in Actors \ {a} : pc[b] # "pushhead" /\ pc[b] # "pushcas"
      BY <1>2, <1>4, <1>9, <1>c DEF Lock!PushHead, LockPoints
    <3>3. QED
      BY <1>1, <3>1, <3>2 DEF PushInv, PushPoints
  <2>7. QED
    BY <2>2, <2>4, <2>5, <2>6 DEF HeapStep
<1>10. ASSUME Lock!PushUnlock(a)
      PROVE  Kept
  <2>1. Types'
    BY <1>1, <1>2, <1>10, PointsAre DEF Lock!PushUnlock, WorkPoints, LockPoints
  <2>2. HeapKeeps
    BY <1>1, <1>10 DEF Lock!PushUnlock, HeapKeeps, Held, linkVars
  <2>3. /\ pc'[a] = "pushed" /\ next' = next /\ head' = head
        /\ \A b \in Actors \ {a} : pc'[b] = pc[b] /\ node'[b] = node[b]
    BY <1>1, <1>2, <1>10 DEF Lock!PushUnlock
  <2>4. PushInv'
    BY <1>1, <1>2, <1>4, <2>3 DEF PushInv, PushPoints
  <2>5. LockInv'
    BY <1>2, <1>10, <1>c, <2>3 DEF Lock!PushUnlock, LockInv, LockPoints
  <2>6. QED
    BY <2>1, <2>2, <2>4, <2>5 DEF HeapStep
<1>11. ASSUME Lock!PopHead(a)
      PROVE  Kept
  <2>1. pc[a] = "pophead" /\ Held' = [Held EXCEPT ![a] = head]
    BY <1>1, <1>11 DEF Lock!PopHead, Held
  <2>2. LockInv'
    BY <1>1, <1>2, <1>11 DEF Lock!PopHead, LockInv, LockPoints
  <2>3. PushInv'
    BY <1>1, <1>2, <1>4, <1>c, <1>11
    DEF Lock!PopHead, PushInv, PushPoints, LockPoints
  <2>4. head = NULL <=> contents = << >>
    BY <1>1 DEF Inv, Heap, Linked
  <2>5. CASE head = NULL
    <3>1. HeapDrops
      BY <1>11, <2>1, <2>5 DEF Lock!PopHead, HeapDrops
    <3>2. Types'
      BY <1>1, <1>2, <1>11, <2>5, PointsAre DEF Lock!PopHead, WorkPoints, LockPoints
    <3>3. QED
      BY <2>2, <2>3, <3>1, <3>2 DEF HeapStep
  <2>6. CASE head # NULL
    <3>1. HeapPops(a)
      BY <1>11, <2>1, <2>4, <2>6 DEF Lock!PopHead, HeapPops
    <3>2. head \in Nodes /\ Tail(contents) \in Seq(Nodes)
      BY <1>1, <2>4, <2>6, TailIs
    <3>3. pc' \in [Actors -> WorkPoints \cup LockPoints]
      BY <1>2, <1>11 DEF Lock!PopHead, WorkPoints, LockPoints
    <3>4. /\ head' \in Nodes \cup {NULL} /\ contents' \in Seq(Nodes)
          /\ node' \in [Actors -> Nodes \cup {NULL}]
          /\ UNCHANGED <<countVars, next, free, owner>>
      BY <1>1, <1>11, <2>6, <3>2 DEF Lock!PopHead, countVars
    <3>5. Types'
      BY <1>1, <1>2, <3>3, <3>4, PointsAre DEF countVars
    <3>6. QED
      BY <2>2, <2>3, <3>1, <3>5 DEF HeapStep
  <2>7. QED
    BY <2>5, <2>6
<1>12. ASSUME Lock!PopUnlock(a)
      PROVE  Kept
  <2>1. Types'
    BY <1>1, <1>2, <1>12, PointsAre DEF Lock!PopUnlock, WorkPoints, LockPoints
  <2>2. HeapKeeps
    BY <1>1, <1>12 DEF Lock!PopUnlock, HeapKeeps, Held, linkVars
  <2>3. LockInv'
    BY <1>1, <1>2, <1>c, <1>12 DEF Lock!PopUnlock, LockInv, LockPoints
  <2>4. PushInv'
    BY <1>1, <1>2, <1>12 DEF Lock!PopUnlock, PushInv, PushPoints
  <2>5. QED
    BY <2>1, <2>2, <2>3, <2>4 DEF HeapStep
<1>13. MainInv'
  <2>1. \E from, to : pc[a] = from /\ pc' = [pc EXCEPT ![a] = to]
          /\ from # "done" /\ from # "join"
          /\ (from \in MainPoints /\ from # "join" => to \in MainPoints /\ to # "join")
    BY <1>3
    DEF Lock!StackOp, Lock!Lock, Lock!PushLink, Lock!PushHead, Lock!PushUnlock,
        Lock!PopHead, Lock!PopUnlock, MainPoints
  <2>2. QED
    BY <1>1, <2>1 DEF MainInv
<1>14. Kept
  BY <1>3, <1>6, <1>7, <1>8, <1>9, <1>10, <1>11, <1>12 DEF Lock!StackOp
<1>15. PopInv'
  BY <1>2, <1>4, <1>14, PointsAre DEF PopInv
<1>16. QED
  BY <1>13, <1>14, <1>15 DEF Control

-----------------------------------------------------------------------------
(* And so do the steps of LockFreeStack *)

LEMMA FreeKeeps ==
  ASSUME Inv, FreeStep
  PROVE  Types' /\ HeapStep /\ Control'
<1> USE Threads, StackTestAssumption
    DEF LockFree!StackStep, LockFree!Goto, LockFree!Running, LockFree!countVars,
        LockFree!linkVars, LockFree!regVars, LockFree!stackVars, linkVars,
        LockFree!PushReturns, LockFree!PopReturns,
        Types, HarnessTypeOK, LinkTypeOK
<1>1. Types /\ MainInv /\ PushInv /\ LockInv /\ PopInv
  BY DEF Inv, Control
<1>2. stacktype = "LOCKFREE" /\ UNCHANGED <<stacktype, owner>>
  BY DEF FreeStep
<1>3. /\ pc \in [Actors -> WorkPoints \cup LockFree!OpPoints]
      /\ "pushhead" \notin WorkPoints \cup LockFree!OpPoints
      /\ "pushunlock" \notin WorkPoints \cup LockFree!OpPoints
      /\ LockFree!Points = WorkPoints \cup LockFree!OpPoints
  BY <1>1, <1>2, PointsAre DEF WorkPoints, LockFree!OpPoints
<1>4. /\ head = NULL <=> contents = << >>
      /\ head # NULL => head = contents[1] /\ 1 \in 1..Len(contents)
      /\ head \notin free \/ head = NULL
  BY <1>1 DEF Inv, Heap, Linked, Owned
<1>5. \A b \in Actors : pc[b] \in PushPoints =>
        /\ node[b] \in Nodes /\ node[b] # head
        /\ \A c \in Actors : pc[c] \in PushPoints /\ c # b => node[c] # node[b]
  <2>1. \A b \in Actors : pc[b] \in PushPoints => Held[b] = node[b] /\ Held[b] \in Nodes
    BY <1>1 DEF Held, PushInv, PushPoints
  <2>2. QED
    BY <1>1, <1>4, <2>1 DEF Inv, Heap, Owned
<1> DEFINE Kept == Types' /\ HeapStep /\ PushInv' /\ PopInv'
<1>a. PICK a \in Actors : LockFree!Push(a) \/ LockFree!Pop(a)
  BY DEF FreeStep
<1>6. ASSUME LockFree!PushRead(a)
      PROVE  Kept
  <2>1. Types'
    BY <1>1, <1>2, <1>3, <1>6
    DEF LockFree!PushRead, WorkPoints, LockFree!OpPoints
  <2>2. HeapKeeps
    BY <1>1, <1>6 DEF LockFree!PushRead, HeapKeeps, Held
  <2>3. PushInv'
    BY <1>1, <1>3, <1>6 DEF LockFree!PushRead, PushInv, PushPoints
  <2>4. PopInv'
    BY <1>1, <1>3, <1>6 DEF LockFree!PushRead, PopInv, PushPoints
  <2>5. QED
    BY <2>1, <2>2, <2>3, <2>4 DEF HeapStep
<1>7. ASSUME LockFree!PushLink(a)
      PROVE  Kept
  <2>a. node[a] \in Nodes /\ pc[a] = "pushlink"
    BY <1>1, <1>7 DEF LockFree!PushLink, PushInv, PushPoints
  <2>1. Types'
    BY <1>1, <1>2, <1>3, <1>7, <2>a
    DEF LockFree!PushLink, WorkPoints, LockFree!OpPoints
  <2>b. Held' = Held
    BY <1>1, <1>7 DEF LockFree!PushLink, Held
  <2>2. HeapLinks
    BY <1>1, <1>7, <2>a, <2>b DEF LockFree!PushLink, HeapLinks, Held
  <2>3. PushInv'
    BY <1>1, <1>5, <1>7, <2>a DEF LockFree!PushLink, PushInv, PushPoints
  <2>4. PopInv'
    BY <1>1, <1>3, <1>7, <2>a DEF LockFree!PushLink, PopInv, PushPoints
  <2>5. QED
    BY <2>1, <2>2, <2>3, <2>4 DEF HeapStep
<1>8. ASSUME LockFree!PushSwap(a)
      PROVE  Kept
  <2>a. node[a] \in Nodes /\ pc[a] = "pushcas" /\ next[node[a]] = head
    BY <1>1, <1>8 DEF LockFree!PushSwap, PushInv, PushPoints
  <2>1. Types'
    BY <1>1, <1>2, <1>3, <1>8, <2>a, ConsIs
    DEF LockFree!PushSwap, WorkPoints, LockFree!OpPoints
  <2>b. Held' = [Held EXCEPT ![a] = NULL] /\ Held[a] = node[a]
    BY <1>1, <1>8 DEF LockFree!PushSwap, Held
  <2>2. HeapPushes(a)
    BY <1>8, <2>a, <2>b DEF LockFree!PushSwap, HeapPushes
  <2>3. PushInv'
    BY <1>1, <1>3, <1>8 DEF LockFree!PushSwap, PushInv, PushPoints
  <2>4. PopInv'
    BY <1>1, <1>3, <1>8, <2>a DEF LockFree!PushSwap, PopInv, PushPoints
  <2>5. QED
    BY <2>1, <2>2, <2>3, <2>4 DEF HeapStep
<1>9. ASSUME LockFree!PushFail(a)
      PROVE  Kept
  <2>1. Types'
    BY <1>1, <1>2, <1>3, <1>9
    DEF LockFree!PushFail, WorkPoints, LockFree!OpPoints
  <2>2. HeapKeeps
    BY <1>1, <1>9 DEF LockFree!PushFail, HeapKeeps, Held
  <2>3. PushInv'
    BY <1>1, <1>3, <1>9 DEF LockFree!PushFail, PushInv, PushPoints
  <2>4. PopInv'
    BY <1>1, <1>3, <1>9 DEF LockFree!PushFail, PopInv, PushPoints
  <2>5. QED
    BY <2>1, <2>2, <2>3, <2>4 DEF HeapStep
<1>10. ASSUME LockFree!LoadLimit(a)
      PROVE  Kept
  <2>1. Types'
    BY <1>1, <1>2, <1>3, <1>10
    DEF LockFree!LoadLimit, WorkPoints, LockFree!OpPoints
  <2>2. HeapKeeps
    BY <1>1, <1>10 DEF LockFree!LoadLimit, HeapKeeps, Held
  <2>3. PushInv'
    BY <1>1, <1>3, <1>10 DEF LockFree!LoadLimit, PushInv, PushPoints
  <2>4. PopInv'
    BY <1>1, <1>3, <1>10 DEF LockFree!LoadLimit, PopInv, PushPoints
  <2>5. QED
    BY <2>1, <2>2, <2>3, <2>4 DEF HeapStep
<1>11. ASSUME LockFree!StoreLimit(a)
      PROVE  Kept
  <2>1. Types'
    <3>1. limit' \in Nat /\ lim' \in [Actors -> Nat]
      BY <1>1, <1>11, TestStacksAssumption DEF LockFree!StoreLimit
    <3>2. pc' \in [Actors -> LockFree!Points]
      BY <1>3, <1>11 DEF LockFree!StoreLimit, WorkPoints
    <3>3. UNCHANGED <<node, timeup, pushcount, popcount, totalpushcount,
                      totalpopcount, mypopcount, head, next, free, contents, cur, nxt>>
      BY <1>11 DEF LockFree!StoreLimit
    <3>4. QED
      BY <1>1, <1>2, <3>1, <3>2, <3>3
  <2>2. HeapKeeps
    BY <1>1, <1>11 DEF LockFree!StoreLimit, HeapKeeps, Held
  <2>3. PushInv'
    BY <1>1, <1>3, <1>11 DEF LockFree!StoreLimit, PushInv, PushPoints
  <2>4. PopInv'
    BY <1>1, <1>3, <1>11 DEF LockFree!StoreLimit, PopInv, PushPoints
  <2>5. QED
    BY <2>1, <2>2, <2>3, <2>4 DEF HeapStep
<1>12. ASSUME LockFree!PopEmpty(a)
      PROVE  Kept
  <2>1. Types'
    BY <1>1, <1>2, <1>3, <1>12
    DEF LockFree!PopEmpty, WorkPoints, LockFree!OpPoints
  <2>b. Held' = [Held EXCEPT ![a] = NULL]
    BY <1>1, <1>12 DEF LockFree!PopEmpty, LockFree!stackVars, Held
  <2>2. HeapDrops
    BY <1>12, <2>b DEF LockFree!PopEmpty, LockFree!stackVars, HeapDrops
  <2>3. PushInv'
    BY <1>1, <1>12 DEF LockFree!PopEmpty, LockFree!stackVars, PushInv, PushPoints
  <2>4. PopInv'
    BY <1>1, <1>3, <1>12 DEF LockFree!PopEmpty, PopInv, PushPoints
  <2>5. QED
    BY <2>1, <2>2, <2>3, <2>4 DEF HeapStep
<1>13. ASSUME LockFree!PopTry(a)
      PROVE  Kept
  <2>1. Types'
    BY <1>1, <1>2, <1>3, <1>13
    DEF LockFree!PopTry, WorkPoints, LockFree!OpPoints
  <2>2. HeapKeeps
    BY <1>1, <1>13 DEF LockFree!PopTry, HeapKeeps, Held
  <2>3. PushInv'
    BY <1>1, <1>3, <1>13 DEF LockFree!PopTry, PushInv, PushPoints
  <2>4. PopInv'
    BY <1>1, <1>3, <1>13 DEF LockFree!PopTry, PopInv, PushPoints
  <2>5. QED
    BY <2>1, <2>2, <2>3, <2>4 DEF HeapStep
<1>14. ASSUME LockFree!PopRead(a)
      PROVE  Kept
  <2>a. head # NULL =>
          /\ head \in Nodes /\ head \notin free
          /\ \A b \in Actors : pc[b] \in PushPoints => node[b] # head
    BY <1>1, <1>4, <1>5 DEF PushPoints
  <2>1. Types'
    BY <1>1, <1>2, <1>3, <1>14
    DEF LockFree!PopRead, WorkPoints, LockFree!OpPoints
  <2>2. HeapKeeps
    BY <1>1, <1>14 DEF LockFree!PopRead, HeapKeeps, Held
  <2>3. PushInv'
    BY <1>1, <1>3, <1>14 DEF LockFree!PopRead, PushInv, PushPoints
  <2>4. PopInv'
    BY <1>1, <1>3, <1>14, <2>a DEF LockFree!PopRead, PopInv, PushPoints
  <2>5. QED
    BY <2>1, <2>2, <2>3, <2>4 DEF HeapStep
<1>15. ASSUME LockFree!PopNext(a)
      PROVE  Kept
  <2>a. cur[a] \in Nodes
    BY <1>1, <1>15 DEF LockFree!PopNext, PopInv
  <2>1. Types'
    BY <1>1, <1>2, <1>3, <1>15, <2>a
    DEF LockFree!PopNext, WorkPoints, LockFree!OpPoints
  <2>2. HeapKeeps
    BY <1>1, <1>15 DEF LockFree!PopNext, HeapKeeps, Held
  <2>3. PushInv'
    BY <1>1, <1>3, <1>15 DEF LockFree!PopNext, PushInv, PushPoints
  <2>4. PopInv'
    BY <1>1, <1>3, <1>15, <2>a DEF LockFree!PopNext, PopInv, PushPoints
  <2>5. QED
    BY <2>1, <2>2, <2>3, <2>4 DEF HeapStep
<1>16. ASSUME LockFree!PopSwap(a)
      PROVE  Kept
  <2>a. /\ pc[a] = "popcas" /\ cur[a] \in Nodes /\ head = cur[a]
        /\ nxt[a] = next[head] /\ contents # << >>
    BY <1>1, <1>4, <1>16 DEF LockFree!PopSwap, PopInv
  <2>1. Types'
    <3>1. contents' \in Seq(Nodes)
      BY <1>1, <1>16, <2>a, TailIs DEF LockFree!PopSwap
    <3>2. pc' \in [Actors -> LockFree!Points]
      BY <1>3, <1>16 DEF LockFree!PopSwap, WorkPoints
    <3>3. /\ head' \in Nodes \cup {NULL} /\ node' \in [Actors -> Nodes \cup {NULL}]
          /\ cur' \in [Actors -> Nodes \cup {NULL}]
          /\ nxt' \in [Actors -> Nodes \cup {NULL}]
      BY <1>1, <1>16, <2>a DEF LockFree!PopSwap
    <3>4. QED
      BY <1>1, <1>2, <1>16, <3>1, <3>2, <3>3 DEF LockFree!PopSwap
  <2>b. Held' = [Held EXCEPT ![a] = head]
    BY <1>1, <1>16, <2>a DEF LockFree!PopSwap, Held
  <2>2. HeapPops(a)
    BY <1>1, <1>16, <2>a, <2>b, TailIs DEF LockFree!PopSwap, HeapPops
  <2>3. PushInv'
    BY <1>1, <1>3, <1>16 DEF LockFree!PopSwap, PushInv, PushPoints
  <2>4. PopInv'
    BY <1>1, <1>3, <1>16, <2>a DEF LockFree!PopSwap, PopInv, PushPoints
  <2>5. QED
    BY <2>1, <2>2, <2>3, <2>4 DEF HeapStep
<1>17. ASSUME LockFree!PopFail(a)
      PROVE  Kept
  <2>1. Types'
    BY <1>1, <1>2, <1>3, <1>17
    DEF LockFree!PopFail, WorkPoints, LockFree!OpPoints
  <2>2. HeapKeeps
    BY <1>1, <1>17 DEF LockFree!PopFail, HeapKeeps, Held
  <2>3. PushInv'
    BY <1>1, <1>3, <1>17 DEF LockFree!PopFail, PushInv, PushPoints
  <2>4. PopInv'
    BY <1>1, <1>3, <1>17 DEF LockFree!PopFail, PopInv, PushPoints
  <2>5. QED
    BY <2>1, <2>2, <2>3, <2>4 DEF HeapStep
<1>18. MainInv'
  <2>1. \E from, to : pc[a] = from /\ pc' = [pc EXCEPT ![a] = to]
          /\ from # "done" /\ from # "join"
          /\ (from \in MainPoints /\ from # "join" => to \in MainPoints /\ to # "join")
    <3>1. CASE LockFree!Push(a)
      BY <3>1
      DEF LockFree!Push, LockFree!PushRead, LockFree!PushLink, LockFree!PushSwap,
          LockFree!PushFail, LockFree!LoadLimit, LockFree!StoreLimit, MainPoints
    <3>2. CASE LockFree!Pop(a)
      BY <3>2
      DEF LockFree!Pop, LockFree!PopEmpty, LockFree!PopTry, LockFree!PopRead,
          LockFree!PopNext, LockFree!PopSwap, LockFree!PopFail, MainPoints
    <3>3. QED
      BY <1>a, <3>1, <3>2
  <2>2. QED
    BY <1>1, <2>1 DEF MainInv
<1>19. Kept
  BY <1>a, <1>6, <1>7, <1>8, <1>9, <1>10, <1>11, <1>12, <1>13, <1>14, <1>15, <1>16,
     <1>17 DEF LockFree!Push, LockFree!Pop
<1>20. LockInv'
  BY <1>2 DEF LockInv
<1>21. QED
  BY <1>18, <1>19, <1>20 DEF Control

-----------------------------------------------------------------------------

LEMMA InvStep == Inv /\ [Next]_vars => Inv'
<1> SUFFICES ASSUME Inv, [Next]_vars PROVE Inv'
  OBVIOUS
<1>1. CASE UNCHANGED vars
  BY <1>1
  DEF Inv, Types, HarnessTypeOK, LinkTypeOK, Heap, Linked, Owned, Held, Control,
      MainInv, PushInv, LockInv, PopInv, vars, harnessVars, stackVars, linkVars
<1>2. CASE HarnessStep \/ AllocateStep \/ DeleteStep \/ LockStep \/ FreeStep
  <2>1. Types' /\ HeapStep /\ Control'
    BY <1>2, HarnessKeeps, AllocateKeeps, DeleteKeeps, LockKeeps, FreeKeeps
  <2>2. QED
    BY <2>1, HeapStays DEF Inv
<1>3. LinkTypeOK
  BY DEF Inv, Types
<1>4. QED
  BY <1>1, <1>2, <1>3, Steps

\* The invariant holds in every state of the program, whichever the stack.
THEOREM Invariance == Spec => []Inv
  BY InvInit, InvStep, PTL DEF Spec

\* TypeOK of TestStacks: the variables of worker(), main() and the two stacks
\* keep their types, and no thread is ever at a point of the stack that the
\* command line did not ask for.
THEOREM TypeCorrect == Spec => []TypeOK
<1>1. Inv => TypeOK
  BY Threads
  DEF Inv, Types, TypeOK, HarnessTypeOK, LinkTypeOK, Lock!TypeOK,
      Lock!HarnessTypeOK, Lock!LinkTypeOK, LockFree!TypeOK,
      LockFree!HarnessTypeOK, LockFree!StackTypeOK, LockFree!LinkTypeOK
<1>2. QED
  BY <1>1, Invariance, PTL

\* NoABA of LockFreeStack, without the garbage collector: when the swap of
\* trypop() is going to succeed, what it read as the node's successor still is,
\* because no address is used twice.
THEOREM NoReuse == Spec => [](stacktype = "LOCKFREE" => LockFree!NoABA)
<1>1. Inv => (stacktype = "LOCKFREE" => LockFree!NoABA)
  BY Threads DEF Inv, Control, PopInv, LockFree!NoABA
<1>2. QED
  BY <1>1, Invariance, PTL

\* In LockStack there is never more than one thread at a time.
THEOREM OneInside ==
  Spec => [](stacktype = "LOCK" =>
               \A a, b \in Actors :
                 pc[a] \in LockPoints /\ pc[b] \in LockPoints => a = b)
<1>1. Inv => (stacktype = "LOCK" =>
               \A a, b \in Actors :
                 pc[a] \in LockPoints /\ pc[b] \in LockPoints => a = b)
  BY DEF Inv, Control, LockInv
<1>2. QED
  BY <1>1, Invariance, PTL

-----------------------------------------------------------------------------
(* Whichever the stack is, it is a stack *)

AbsPC == [a \in Actors |-> IF stacktype = "LOCK" THEN Lock!StackPoint(pc[a])
                                                 ELSE LockFree!OpPoint(pc[a])]
AbsNode == [a \in Actors |-> IF stacktype = "LOCK" THEN Lock!StackNode(a)
                                                   ELSE node[a]]

\* What the two stacks' steps are to the abstract stack.
AbsPush(a) ==
  /\ AbsPC[a] = "push" /\ AbsPC' = [AbsPC EXCEPT ![a] = "pushed"]
  /\ AbsNode' = [AbsNode EXCEPT ![a] = NULL]
  /\ contents' = <<AbsNode[a]>> \o contents

AbsPop(a) ==
  /\ AbsPC[a] = "pop" /\ AbsPC' = [AbsPC EXCEPT ![a] = "popped"]
  /\ \/ contents # << >> /\ contents' = Tail(contents)
                         /\ AbsNode' = [AbsNode EXCEPT ![a] = Head(contents)]
     \/ contents = << >> /\ contents' = << >>
                         /\ AbsNode' = [AbsNode EXCEPT ![a] = NULL]

\* A worker's push or pop, main's pop, or nothing at all.
AbsOp ==
  /\ pc[Main] # "exit" /\ UNCHANGED countVars
  /\ \/ \E t \in Workers : AbsPush(t)
     \/ \E a \in Actors : AbsPop(a)
     \/ UNCHANGED <<AbsPC, AbsNode, contents>>

LEMMA AbsIs ==
  ASSUME Inv
  PROVE  /\ AbsNode \in [Actors -> Nodes \cup {NULL}]
         /\ AbsNode = Held
         /\ \A a \in Actors : pc[a] \in WorkPoints => AbsPC[a] = pc[a]
         /\ \A a \in Actors : pc[a] \in WorkPoints => AbsNode[a] = node[a]
<1>1. AbsNode = Held
  <2>1. CASE stacktype = "LOCK"
    BY <2>1 DEF AbsNode, Held, Lock!StackNode
  <2>2. CASE stacktype # "LOCK"
    <3>1. \A a \in Actors : pc[a] # "pushunlock"
      BY <2>2, PointsAre DEF Inv, Types, HarnessTypeOK, WorkPoints, LockFree!OpPoints
    <3>2. QED
      BY <2>2, <3>1 DEF AbsNode, Held
  <2>3. QED
    BY <2>1, <2>2
<1>2. \A a \in Actors : pc[a] \in WorkPoints => AbsPC[a] = pc[a] /\ AbsNode[a] = node[a]
  BY <1>1 DEF AbsPC, AbsNode, Held, WorkPoints, Lock!StackPoint, LockFree!OpPoint
<1>3. QED
  BY <1>1, <1>2 DEF Inv, Heap

\* The abstract stack's counters of places, step by step.
LEMMA AbsGoes ==
  ASSUME Types, stacktype' = stacktype, NEW a \in Actors, NEW to,
         pc' = [pc EXCEPT ![a] = to]
  PROVE  LET p == IF stacktype = "LOCK" THEN Lock!StackPoint(to)
                                        ELSE LockFree!OpPoint(to)
         IN  /\ AbsPC' = [AbsPC EXCEPT ![a] = p]
             /\ AbsPC[a] = p => AbsPC' = AbsPC
  BY DEF Types, HarnessTypeOK, AbsPC

LEMMA LockIsStack ==
  ASSUME Inv, Inv', LockStep
  PROVE  AbsOp
<1> USE Threads, StackTestAssumption
    DEF Lock!StackStep, Lock!Goto, Lock!Running, Lock!countVars, countVars,
        Lock!linkVars, Lock!PushReturns, Lock!StackPoint
<1>1. /\ stacktype = "LOCK" /\ stacktype' = stacktype
      /\ Types /\ LinkTypeOK
  BY DEF LockStep, Inv, Types
<1>2. AbsNode = Held /\ AbsNode' = Held'
  <2>1. AbsNode = Held
    BY AbsIs
  <2>2. AbsNode' = Held'
    BY <1>1 DEF AbsNode, Held, Lock!StackNode
  <2>3. QED
    BY <2>1, <2>2
<1>3. PICK a \in Actors : Lock!StackOp(a)
  BY DEF LockStep
<1>4. pc[Main] # "exit" /\ UNCHANGED countVars
  BY <1>3
  DEF Lock!StackOp, Lock!Lock, Lock!PushLink, Lock!PushHead, Lock!PushUnlock,
      Lock!PopHead, Lock!PopUnlock
<1>5. AbsPC[a] = Lock!StackPoint(pc[a])
  BY <1>1 DEF AbsPC
<1>6. CASE Lock!Lock(a, "push", "pushlink") \/ Lock!Lock(a, "pop", "pophead")
  <2>1. Held' = Held
    BY <1>1, <1>6 DEF Lock!Lock, Held, Types, HarnessTypeOK
  <2>2. AbsPC' = AbsPC
    BY <1>1, <1>5, <1>6, AbsGoes DEF Lock!Lock
  <2>3. QED
    BY <1>2, <1>4, <1>6, <2>1, <2>2 DEF Lock!Lock, AbsOp
<1>7. CASE Lock!PushLink(a)
  <2>1. Held' = Held
    BY <1>1, <1>7 DEF Lock!PushLink, Held, Types, HarnessTypeOK
  <2>2. AbsPC' = AbsPC
    BY <1>1, <1>5, <1>7, AbsGoes DEF Lock!PushLink
  <2>3. QED
    BY <1>2, <1>4, <1>7, <2>1, <2>2 DEF Lock!PushLink, AbsOp
<1>8. CASE Lock!PushUnlock(a)
  <2>1. Held' = Held
    BY <1>1, <1>8 DEF Lock!PushUnlock, Held, Types, HarnessTypeOK
  <2>2. AbsPC' = AbsPC
    BY <1>1, <1>5, <1>8, AbsGoes DEF Lock!PushUnlock
  <2>3. QED
    BY <1>2, <1>4, <1>8, <2>1, <2>2 DEF Lock!PushUnlock, AbsOp
<1>9. CASE Lock!PopUnlock(a)
  <2>1. Held' = Held
    BY <1>1, <1>9 DEF Lock!PopUnlock, Held, Types, HarnessTypeOK
  <2>2. AbsPC' = AbsPC
    BY <1>1, <1>5, <1>9, AbsGoes DEF Lock!PopUnlock
  <2>3. QED
    BY <1>2, <1>4, <1>9, <2>1, <2>2 DEF Lock!PopUnlock, AbsOp
<1>10. CASE Lock!PushHead(a)
  <2>1. pc[a] = "pushhead" /\ a \in Workers
    BY <1>10 DEF Lock!PushHead, Inv, Control, MainInv, MainPoints
  <2>2. Held' = [Held EXCEPT ![a] = NULL] /\ Held[a] = node[a]
    BY <1>1, <1>10 DEF Lock!PushHead, Held, Types, HarnessTypeOK
  <2>3. AbsPC[a] = "push" /\ AbsPC' = [AbsPC EXCEPT ![a] = "pushed"]
    BY <1>1, <1>5, <1>10, AbsGoes DEF Lock!PushHead
  <2>4. AbsPush(a)
    BY <1>2, <1>10, <2>2, <2>3 DEF Lock!PushHead, AbsPush
  <2>5. QED
    BY <1>4, <2>1, <2>4 DEF AbsOp
<1>11. CASE Lock!PopHead(a)
  <2>1. Held' = [Held EXCEPT ![a] = head]
    BY <1>1, <1>11 DEF Lock!PopHead, Held, Types, HarnessTypeOK
  <2>2. AbsPC[a] = "pop" /\ AbsPC' = [AbsPC EXCEPT ![a] = "popped"]
    BY <1>1, <1>5, <1>11, AbsGoes DEF Lock!PopHead
  <2>3. head = IF contents = << >> THEN NULL ELSE Head(contents)
    BY <1>1 DEF Inv, Heap, Linked, LinkTypeOK
  <2>4. head = NULL <=> contents = << >>
    BY <1>1 DEF Inv, Heap, Linked, LinkTypeOK
  <2>5. AbsPop(a)
    BY <1>2, <1>11, <2>1, <2>2, <2>3, <2>4 DEF Lock!PopHead, AbsPop
  <2>6. QED
    BY <1>4, <2>5 DEF AbsOp
<1>12. QED
  BY <1>3, <1>6, <1>7, <1>8, <1>9, <1>10, <1>11 DEF Lock!StackOp

LEMMA FreeIsStack ==
  ASSUME Inv, Inv', FreeStep
  PROVE  AbsOp
<1> USE Threads, StackTestAssumption
    DEF LockFree!StackStep, LockFree!Goto, LockFree!Running, LockFree!countVars,
        countVars, LockFree!linkVars, LockFree!regVars, LockFree!stackVars,
        LockFree!PushReturns, LockFree!PopReturns, LockFree!OpPoint
<1>1. /\ stacktype = "LOCKFREE" /\ stacktype' = stacktype
      /\ Types /\ LinkTypeOK
  BY DEF FreeStep, Inv, Types
<1>2. /\ AbsNode = node /\ AbsNode' = node'
      /\ \A b \in Actors : AbsPC[b] = LockFree!OpPoint(pc[b])
  BY <1>1 DEF Inv, AbsNode, AbsPC, Types, HarnessTypeOK
<1>3. PICK a \in Actors : LockFree!Push(a) \/ LockFree!Pop(a)
  BY DEF FreeStep
<1>4. pc[Main] # "exit" /\ UNCHANGED countVars
  BY <1>3
  DEF LockFree!Push, LockFree!Pop, LockFree!PushRead, LockFree!PushLink,
      LockFree!PushSwap, LockFree!PushFail, LockFree!LoadLimit,
      LockFree!StoreLimit, LockFree!PopEmpty, LockFree!PopTry, LockFree!PopRead,
      LockFree!PopNext, LockFree!PopSwap, LockFree!PopFail
<1>5. /\ head = IF contents = << >> THEN NULL ELSE Head(contents)
      /\ (head = NULL <=> contents = << >>)
  BY <1>1 DEF Inv, Heap, Linked, LinkTypeOK
<1>6. CASE \/ LockFree!PushRead(a) \/ LockFree!PushLink(a) \/ LockFree!PushFail(a)
           \/ LockFree!LoadLimit(a) \/ LockFree!StoreLimit(a)
  <2>1. UNCHANGED <<node, contents>>
    BY <1>6 DEF LockFree!PushRead, LockFree!PushLink, LockFree!PushFail,
                LockFree!LoadLimit, LockFree!StoreLimit
  <2>2. PICK to \in {"push", "pushlink", "pushcas", "backoff", "widen"} :
           pc' = [pc EXCEPT ![a] = to] /\ AbsPC[a] = "push"
    BY <1>2, <1>6
    DEF LockFree!PushRead, LockFree!PushLink, LockFree!PushFail,
        LockFree!LoadLimit, LockFree!StoreLimit
  <2>3. AbsPC' = AbsPC
    BY <1>1, <2>2, AbsGoes
  <2>4. QED
    BY <1>2, <1>4, <2>1, <2>3 DEF AbsOp
<1>7. CASE \/ LockFree!PopTry(a) \/ LockFree!PopRead(a) \/ LockFree!PopNext(a)
           \/ LockFree!PopFail(a)
  <2>1. UNCHANGED <<node, contents>>
    BY <1>7 DEF LockFree!PopTry, LockFree!PopRead, LockFree!PopNext,
                LockFree!PopFail
  <2>2. PICK to \in {"pop", "popread", "popnext", "popcas"} :
           pc' = [pc EXCEPT ![a] = to] /\ AbsPC[a] = "pop"
    BY <1>2, <1>7
    DEF LockFree!PopTry, LockFree!PopRead, LockFree!PopNext, LockFree!PopFail
  <2>3. AbsPC' = AbsPC
    BY <1>1, <2>2, AbsGoes
  <2>4. QED
    BY <1>2, <1>4, <2>1, <2>3 DEF AbsOp
<1>8. CASE LockFree!PushSwap(a)
  <2>1. pc[a] = "pushcas" /\ a \in Workers
    BY <1>8 DEF LockFree!PushSwap, Inv, Control, MainInv, MainPoints
  <2>2. AbsPC[a] = "push" /\ AbsPC' = [AbsPC EXCEPT ![a] = "pushed"]
    BY <1>1, <1>2, <1>8, AbsGoes DEF LockFree!PushSwap
  <2>3. AbsPush(a)
    BY <1>2, <1>8, <2>2 DEF LockFree!PushSwap, AbsPush
  <2>4. QED
    BY <1>4, <2>1, <2>3 DEF AbsOp
<1>9. CASE LockFree!PopEmpty(a) \/ LockFree!PopSwap(a)
  <2>1. AbsPC[a] = "pop" /\ AbsPC' = [AbsPC EXCEPT ![a] = "popped"]
    <3>1. pc[a] \in {"pop", "popcas"} /\ pc' = [pc EXCEPT ![a] = "popped"]
      BY <1>9 DEF LockFree!PopEmpty, LockFree!PopSwap
    <3>2. QED
      BY <1>1, <1>2, <3>1, AbsGoes
  <2>2. CASE LockFree!PopEmpty(a)
    BY <1>2, <1>4, <1>5, <2>1, <2>2 DEF LockFree!PopEmpty, AbsPop, AbsOp
  <2>3. CASE LockFree!PopSwap(a)
    <3>1. pc[a] = "popcas" /\ cur[a] \in Nodes /\ head = cur[a]
      BY <2>3 DEF LockFree!PopSwap, Inv, Control, PopInv
    <3>2. contents # << >> /\ contents' = Tail(contents) /\ head = Head(contents)
      BY <1>1, <1>5, <2>3, <3>1, TailIs DEF LockFree!PopSwap, LinkTypeOK
    <3>3. AbsPop(a)
      BY <1>2, <2>1, <2>3, <3>1, <3>2 DEF LockFree!PopSwap, AbsPop
    <3>4. QED
      BY <1>4, <3>3 DEF AbsOp
  <2>4. QED
    BY <1>9, <2>2, <2>3
<1>10. QED
  BY <1>3, <1>6, <1>7, <1>8, <1>9 DEF LockFree!Push, LockFree!Pop

\* The program of a worker and of main, in the abstract stack's words.
LEMMA StackGoto ==
  ASSUME Inv, NEW a \in Actors, NEW from, NEW to
  PROVE  /\ Stack!Running <=> pc[Main] # "exit"
         /\ Stack!Goto(a, from, to) <=>
              /\ pc[Main] # "exit"
              /\ AbsPC[a] = from /\ AbsPC' = [AbsPC EXCEPT ![a] = to]
<1>1. /\ Stack!Goto(a, from, to) <=>
           Stack!Running /\ AbsPC[a] = from /\ AbsPC' = [AbsPC EXCEPT ![a] = to]
      /\ Stack!Running <=> AbsPC[Main] \notin {"exit", "aborted"}
  BY Threads DEF Stack!Goto, Stack!Running, Stack!Main, AbsPC, Main
<1>2. AbsPC[Main] \notin {"exit", "aborted"} <=> pc[Main] # "exit"
  BY Threads DEF AbsPC, Inv, Control, MainInv, MainPoints, Lock!StackPoint,
                 LockFree!OpPoint
<1>3. QED
  BY <1>1, <1>2

LEMMA StackNodes ==
  ASSUME NEW a, NEW from, NEW to, NEW n
  PROVE  /\ Stack!StackStep(a, from, to) <=>
              Stack!Goto(a, from, to) /\ AbsNode' = AbsNode /\ UNCHANGED countVars
         /\ Stack!PushReturns(a, from) <=>
              /\ Stack!Goto(a, from, "pushed")
              /\ AbsNode' = [AbsNode EXCEPT ![a] = NULL] /\ UNCHANGED countVars
         /\ Stack!PopReturns(a, from, n) <=>
              /\ Stack!Goto(a, from, "popped")
              /\ AbsNode' = [AbsNode EXCEPT ![a] = n] /\ UNCHANGED countVars
  BY DEF Stack!StackStep, Stack!PushReturns, Stack!PopReturns, Stack!countVars,
         countVars, AbsNode

\* A step of the harness is the same step of the abstract stack's harness.
LEMMA HarnessGoes ==
  ASSUME Inv, NEW a \in Actors, NEW from \in WorkPoints, NEW to \in WorkPoints,
         Goto(a, from, to), stacktype' = stacktype
  PROVE  /\ Stack!Goto(a, from, to)
         /\ AbsNode[a] = node[a]
         /\ node' = node => AbsNode' = AbsNode
         /\ \A m : node' = [node EXCEPT ![a] = m]
              => AbsNode' = [AbsNode EXCEPT ![a] = m]
<1>1. /\ pc[Main] # "exit" /\ pc[a] = from /\ pc' = [pc EXCEPT ![a] = to]
  BY DEF Goto, Running
<1>2. AbsPC[a] = from /\ AbsPC' = [AbsPC EXCEPT ![a] = to]
  <2>1. /\ from = IF stacktype = "LOCK" THEN Lock!StackPoint(from)
                                        ELSE LockFree!OpPoint(from)
        /\ to = IF stacktype = "LOCK" THEN Lock!StackPoint(to)
                                      ELSE LockFree!OpPoint(to)
    BY DEF WorkPoints, Lock!StackPoint, LockFree!OpPoint
  <2>2. AbsPC[a] = from
    BY <1>1, <2>1 DEF AbsPC
  <2>3. AbsPC' = [AbsPC EXCEPT ![a] = to]
    <3>1. Types
      BY DEF Inv
    <3>2. QED
      BY <1>1, <2>1, <3>1, AbsGoes
  <2>4. QED
    BY <2>2, <2>3
<1>3. AbsNode[a] = node[a]
  BY <1>1, AbsIs
<1>4. Types /\ from # "pushunlock" /\ to # "pushunlock"
  BY DEF Inv, WorkPoints
<1>5. node' = node => AbsNode' = AbsNode
  BY <1>1, <1>4 DEF AbsNode, Lock!StackNode, Types, HarnessTypeOK
<1>6. \A m : node' = [node EXCEPT ![a] = m] => AbsNode' = [AbsNode EXCEPT ![a] = m]
  BY <1>1, <1>4 DEF AbsNode, Lock!StackNode, Types, HarnessTypeOK
<1>7. QED
  BY <1>1, <1>2, <1>3, <1>5, <1>6, StackGoto

LEMMA HarnessIsStack ==
  ASSUME Inv, HarnessStep
  PROVE  Stack!Next
<1> USE Threads
    DEF StackUnchanged, linkVars, StackStep, countVars, Stack!countVars,
        Stack!Workers, Workers, Stack!Main, Main
<1>1. stacktype' = stacktype /\ contents' = contents
      /\ {"start", "loop", "pop", "pushed", "popped", "test", "total", "done",
          "join", "exit"} \subseteq WorkPoints
  BY DEF HarnessStep, WorkPoints
<1>2. ASSUME NEW t \in Workers, HarnessOf(t)
      PROVE  Stack!Next
  <2>1. CASE Start(t)
    BY <1>1, <2>1, HarnessGoes, StackNodes
    DEF Start, Stack!Start, Stack!Worker, Stack!Next
  <2>2. CASE BeginPop(t)
    BY <1>1, <2>2, HarnessGoes, StackNodes
    DEF BeginPop, Stack!BeginPop, Stack!WorkerStep, Stack!Worker, Stack!Next
  <2>3. CASE CountPush(t)
    <3>1. Stack!Goto(t, "pushed", "test") /\ AbsNode' = AbsNode
      BY <1>1, <2>3, HarnessGoes DEF CountPush
    <3>2. Stack!CountPush(t)
      BY <2>3, <3>1 DEF CountPush, Stack!CountPush, AbsNode
    <3>3. QED
      BY <1>1, <3>2 DEF Stack!WorkerStep, Stack!Worker, Stack!Next
  <2>4. CASE CountPop(t)
    <3>1. /\ Stack!Goto(t, "popped", "test") /\ AbsNode[t] = node[t]
          /\ AbsNode' = [AbsNode EXCEPT ![t] = NULL]
      BY <1>1, <2>4, HarnessGoes DEF CountPop
    <3>2. Stack!CountPop(t)
      BY <2>4, <3>1 DEF CountPop, Stack!CountPop, AbsNode
    <3>3. QED
      BY <1>1, <3>2 DEF Stack!WorkerStep, Stack!Worker, Stack!Next
  <2>5. CASE Again(t) \/ Leave(t)
    BY <1>1, <2>5, HarnessGoes, StackNodes
    DEF Again, Leave, Stack!Again, Stack!Leave, Stack!WorkerStep, Stack!Worker,
        Stack!Next
  <2>6. CASE AddTotals(t, "done")
    <3>1. Stack!Goto(t, "total", "done") /\ AbsNode' = AbsNode
      BY <1>1, <2>6, HarnessGoes DEF AddTotals
    <3>2. Stack!AddTotals(t, "done")
      BY <2>6, <3>1 DEF AddTotals, Stack!AddTotals, AbsNode
    <3>3. QED
      BY <1>1, <3>2 DEF Stack!Worker, Stack!Next
  <2>7. QED
    BY <1>2, <2>1, <2>2, <2>3, <2>4, <2>5, <2>6 DEF HarnessOf, WorkerStep
<1>3. CASE Join
  <2>1. \A t \in Workers : AbsPC[t] = "done"
    BY <1>3, AbsIs DEF Join, WorkPoints
  <2>2. Stack!Join
    BY <1>1, <1>3, <2>1, HarnessGoes, StackNodes DEF Join, Stack!Join, AbsPC
  <2>3. QED
    BY <1>1, <2>2 DEF Stack!MainStep, Stack!MainThread, Stack!Next
<1>4. CASE PrintTotals
  <2>1. /\ AbsNode[Main] = NULL /\ Stack!StackStep(Main, "popped", "exit")
    BY <1>1, <1>4, HarnessGoes, StackNodes DEF PrintTotals
  <2>2. Stack!PrintTotals
    BY <2>1 DEF Stack!PrintTotals, AbsNode
  <2>3. QED
    BY <1>1, <2>2 DEF Stack!MainStep, Stack!MainThread, Stack!Next
<1>5. CASE TimeUp
  <2>1. Stack!Running
    BY <1>5, StackGoto DEF TimeUp, Running
  <2>2. AbsPC' = AbsPC /\ AbsNode' = AbsNode
    BY <1>1, <1>5 DEF TimeUp, AbsPC, AbsNode, Lock!StackNode
  <2>3. Stack!TimeUp
    BY <1>5, <2>1, <2>2 DEF TimeUp, Stack!TimeUp, AbsPC, AbsNode
  <2>4. QED
    BY <1>1, <2>3 DEF Stack!Next
<1>6. QED
  BY <1>2, <1>3, <1>4, <1>5 DEF HarnessStep, MainStep

\* The node that new returns is not on the stack and in nobody's hands.
LEMMA AllocateIsStack ==
  ASSUME Inv, AllocateStep
  PROVE  Stack!Next
<1> USE Threads DEF Stack!Workers, Workers
<1>1. PICK t \in Workers, n \in Nodes : New(t, n)
  BY DEF AllocateStep
<1>2. stacktype' = stacktype /\ contents' = contents /\ n \in free
      /\ "loop" \in WorkPoints /\ "push" \in WorkPoints
  BY <1>1 DEF AllocateStep, StackUnchanged, New, WorkPoints
<1>3. /\ Stack!Goto(t, "loop", "push")
      /\ AbsNode' = [AbsNode EXCEPT ![t] = n]
  BY <1>1, <1>2, HarnessGoes DEF New, BeginPush
<1>4. Stack!BeginPush(t, n)
  BY <1>1, <1>3
  DEF New, BeginPush, Stack!BeginPush, AbsNode, countVars, Stack!countVars
<1>5. n \notin Stack!OnStack
  BY <1>2 DEF Inv, Heap, LinkTypeOK, Owned, Stack!OnStack
<1>6. \A a \in Actors : AbsNode[a] # n
  BY <1>2, AbsIs, StackTestAssumption DEF Inv, Heap, LinkTypeOK, Owned
<1>7. Stack!Allocate(t)
  BY <1>1, <1>2, <1>4, <1>5, <1>6
  DEF Stack!Allocate, Stack!Actors, Actors, AbsNode
<1>8. QED
  BY <1>7 DEF Stack!Worker, Stack!Next

LEMMA DeleteIsStack ==
  ASSUME Inv, DeleteStep
  PROVE  Stack!Next
<1> USE Threads DEF Stack!Main, Main
<1>1. /\ CountLeftover /\ stacktype' = stacktype /\ contents' = contents
      /\ "popped" \in WorkPoints /\ "pop" \in WorkPoints
  BY DEF DeleteStep, DeleteLeftover, StackUnchanged, WorkPoints
<1>2. /\ Stack!Goto(Main, "popped", "pop") /\ AbsNode[Main] = node[Main]
      /\ AbsNode' = [AbsNode EXCEPT ![Main] = NULL]
  BY <1>1, HarnessGoes DEF CountLeftover
<1>3. Stack!CountLeftover
  BY <1>1, <1>2 DEF CountLeftover, Stack!CountLeftover, AbsNode
<1>4. QED
  BY <1>1, <1>3 DEF Stack!MainThread, Stack!Next

LEMMA OpIsStack ==
  ASSUME Inv, AbsOp
  PROVE  [Stack!Next]_(Stack!vars)
<1> USE Threads DEF Stack!Workers, Workers, Stack!Main, Main
<1>1. pc[Main] # "exit" /\ UNCHANGED countVars
  BY DEF AbsOp
<1>2. ASSUME NEW t \in Workers, AbsPush(t)
      PROVE  Stack!Next
  <2>1. Stack!PushReturns(t, "push")
    BY <1>1, <1>2, StackGoto, StackNodes DEF AbsPush
  <2>2. Stack!Push(t)
    BY <1>2, <2>1 DEF AbsPush, Stack!Push, AbsNode
  <2>3. QED
    BY <2>2 DEF Stack!Worker, Stack!Next
<1>3. ASSUME NEW a \in Actors, AbsPop(a)
      PROVE  Stack!Next
  <2>1. CASE contents # << >>
    <3>1. Stack!PopReturns(a, "pop", Head(contents))
      <4>1. Stack!Goto(a, "pop", "popped")
        BY <1>1, <1>3, StackGoto DEF AbsPop
      <4>2. AbsNode' = [AbsNode EXCEPT ![a] = Head(contents)]
        BY <1>3, <2>1 DEF AbsPop
      <4>3. QED
        BY <1>1, <4>1, <4>2
        DEF Stack!PopReturns, Stack!countVars, countVars, AbsNode
    <3>2. Stack!Pop(a)
      BY <1>3, <2>1, <3>1 DEF AbsPop, Stack!Pop
    <3>3. QED
      BY <3>2 DEF Stack!Worker, Stack!MainThread, Stack!Next
  <2>2. CASE contents = << >>
    <3>1. Stack!PopReturns(a, "pop", NULL)
      BY <1>1, <1>3, <2>2, StackGoto, StackNodes DEF AbsPop
    <3>2. Stack!Pop(a)
      BY <1>3, <2>2, <3>1 DEF AbsPop, Stack!Pop
    <3>3. QED
      BY <3>2 DEF Stack!Worker, Stack!MainThread, Stack!Next
  <2>3. QED
    BY <2>1, <2>2
<1>4. CASE UNCHANGED <<AbsPC, AbsNode, contents>>
  BY <1>1, <1>4 DEF Stack!vars, Stack!harnessVars, countVars, AbsPC, AbsNode
<1>5. QED
  BY <1>2, <1>3, <1>4 DEF AbsOp

LEMMA StackInit == Init => Stack!Init
<1> SUFFICES ASSUME Init PROVE Stack!Init
  OBVIOUS
<1>1. /\ HarnessInit /\ LinkInit
  BY Threads
  DEF Init, Lock!Init, LockFree!Init, LockFree!StackInit, HarnessInit, LinkInit,
      Lock!HarnessInit, Lock!LinkInit, LockFree!HarnessInit, LockFree!LinkInit
<1>2. \A a \in Actors : pc[a] \in WorkPoints
  BY <1>1 DEF HarnessInit, WorkPoints
<1>3. /\ \A a \in Actors : AbsPC[a] = pc[a] /\ AbsNode[a] = node[a]
      /\ AbsPC = [a \in Actors |-> AbsPC[a]] /\ AbsNode = [a \in Actors |-> AbsNode[a]]
  BY <1>2, AbsIs, InvInit DEF AbsPC, AbsNode
<1>4. /\ AbsPC = [a \in Actors |-> IF a = Main THEN "join" ELSE "start"]
      /\ AbsNode = [a \in Actors |-> NULL]
  BY <1>1, <1>3 DEF HarnessInit
<1>5. QED
  BY <1>1, <1>4
  DEF HarnessInit, LinkInit, Stack!Init, Stack!HarnessInit, Stack!Actors, Actors,
      Stack!Workers, Workers, Stack!Main, Main, AbsPC, AbsNode

\* ImplementsStack of TestStacks: LockStack and LockFreeStack are stacks.  Each
\* push() and pop() acts at one moment of the call on one last-in-first-out
\* sequence: in LockStack when head changes hands, in LockFreeStack at the
\* compare-and-swap that succeeds or the look that finds the stack empty.
THEOREM Refinement == Spec => ImplementsStack
<1>1. Inv /\ Inv' /\ [Next]_vars => [Stack!Next]_(Stack!vars)
  <2> SUFFICES ASSUME Inv, Inv', [Next]_vars
               PROVE  [Stack!Next]_(Stack!vars)
    OBVIOUS
  <2>1. CASE UNCHANGED vars
    BY <2>1
    DEF vars, harnessVars, stackVars, linkVars, Stack!vars, Stack!harnessVars,
        AbsPC, AbsNode, Lock!StackNode
  <2>2. CASE LockStep \/ FreeStep
    BY <2>2, LockIsStack, FreeIsStack, OpIsStack
  <2>3. CASE HarnessStep \/ AllocateStep \/ DeleteStep
    BY <2>3, HarnessIsStack, AllocateIsStack, DeleteIsStack
  <2>4. LinkTypeOK
    BY DEF Inv, Types
  <2>5. QED
    BY <2>1, <2>2, <2>3, <2>4, Steps
<1>2. QED
  BY <1>1, StackInit, Invariance, PTL DEF Spec, ImplementsStack, Stack!Spec

-----------------------------------------------------------------------------
(* What main prints, from what the abstract stack promises *)

SP == INSTANCE LifoStack_proofs WITH
        pc <- [a \in Actors |-> IF stacktype = "LOCK"
                                THEN Lock!StackPoint(pc[a])
                                ELSE LockFree!OpPoint(pc[a])],
        node <- [a \in Actors |-> IF stacktype = "LOCK"
                                  THEN Lock!StackNode(a)
                                  ELSE node[a]]

\* LifoStack with its proofs is LifoStack.
LEMMA SameStack == Stack!Spec => SP!Spec
<1>1. Stack!Init => SP!Init
  BY DEF Stack!Init, SP!Init, Stack!HarnessInit, SP!HarnessInit,
         Stack!Actors, SP!Actors, Stack!Workers, SP!Workers, Stack!Main, SP!Main
<1>2. [Stack!Next]_(Stack!vars) => [SP!Next]_(SP!vars)
  BY DEF Stack!Next, SP!Next, Stack!vars, SP!vars, Stack!harnessVars,
         SP!harnessVars, Stack!countVars, SP!countVars, Stack!Actors, SP!Actors,
         Stack!Workers, SP!Workers, Stack!Main, SP!Main, Stack!Running, SP!Running,
         Stack!Goto, SP!Goto, Stack!StackStep, SP!StackStep, Stack!PushReturns,
         SP!PushReturns, Stack!PopReturns, SP!PopReturns, Stack!TimeUp, SP!TimeUp,
         Stack!Start, SP!Start, Stack!BeginPush, SP!BeginPush, Stack!BeginPop,
         SP!BeginPop, Stack!CountPush, SP!CountPush, Stack!CountPop, SP!CountPop,
         Stack!Again, SP!Again, Stack!Leave, SP!Leave, Stack!AddTotals,
         SP!AddTotals, Stack!WorkerStep, SP!WorkerStep, Stack!Join, SP!Join,
         Stack!CountLeftover, SP!CountLeftover, Stack!PrintTotals, SP!PrintTotals,
         Stack!MainStep, SP!MainStep, Stack!Exited, SP!Exited, Stack!OnStack,
         SP!OnStack, Stack!Allocate, SP!Allocate, Stack!Push, SP!Push, Stack!Pop,
         SP!Pop, Stack!Worker, SP!Worker, Stack!MainThread, SP!MainThread
<1>3. QED
  BY <1>1, <1>2, PTL DEF Stack!Spec, SP!Spec

\* Balanced of StackTest, for testtwo without USE_GC: when main prints, every
\* node that was pushed has been popped, by a worker or by main, once.
THEOREM Balance == Spec => []Balanced
<1>1. SP!Spec => []SP!Balanced
  BY SP!Balance, StackTestAssumption DEF SP!StackTestAssumption
<1>2. Inv /\ SP!Balanced => Balanced
  <2> SUFFICES ASSUME Inv, SP!Balanced, pc[Main] = "exit"
               PROVE  totalpushcount = totalpopcount + mypopcount
    BY DEF Balanced
  <2>1. AbsPC[Main] = "exit"
    BY Threads, AbsIs DEF WorkPoints
  <2>2. QED
    BY <2>1 DEF SP!Balanced, SP!Main, Main, AbsPC
<1>3. QED
  BY <1>1, <1>2, Refinement, SameStack, Invariance, PTL DEF ImplementsStack

-----------------------------------------------------------------------------
(* limit *)

\* "1 <= limit <= 512": it stays a power of two, and so is what backoff() has
\* loaded of it.
Powers == {1, 2, 4, 8, 16, 32, 64, 128, 256, 512}
LimitInv == limit \in Powers /\ \A a \in Actors : pc[a] = "widen" => lim[a] \in Powers

LEMMA Doubled ==
  ASSUME LimitModulus = 1023, NEW p \in Powers
  PROVE  (2 * p) % LimitModulus \in Powers
  BY DEF Powers

\* LimitRange of TestStacks, for the modulus in the code: however the loads and
\* stores of the threads interleave, limit never becomes zero, where it would
\* stay, and never exceeds 512.
THEOREM LimitInRange ==
  ASSUME LimitModulus = 1023
  PROVE  Spec => []LimitRange
<1> USE Threads
<1>1. Init => LimitInv
  BY DEF Init, Lock!Init, LockFree!Init, LockFree!StackInit, NoLockFree,
         Lock!HarnessInit, LockFree!HarnessInit, LimitInv, Powers
<1>2. Inv /\ LimitInv /\ [Next]_vars => LimitInv'
  <2> SUFFICES ASSUME Inv, LimitInv, [Next]_vars PROVE LimitInv'
    OBVIOUS
  <2>1. CASE UNCHANGED vars
    BY <2>1 DEF vars, harnessVars, stackVars, LimitInv
  <2>2. pc \in [Actors -> IF stacktype = "LOCK" THEN Lock!Points ELSE LockFree!Points]
        /\ lim \in [Actors -> Nat]
    BY DEF Inv, Types, HarnessTypeOK
  <2>3. CASE HarnessStep \/ AllocateStep \/ DeleteStep
    BY <2>2, <2>3
    DEF HarnessStep, AllocateStep, DeleteStep, StackUnchanged, freeVars, LimitInv,
        HarnessOf, Start, WorkerStep, AddTotals, BeginPop, CountPush, CountPop,
        Again, Leave, StackStep, Goto, MainStep, Join, PrintTotals, TimeUp, New,
        BeginPush, DeleteLeftover, CountLeftover
  <2>4. CASE LockStep
    BY <2>2, <2>4, PointsAre
    DEF LockStep, freeVars, LimitInv, Lock!StackOp, Lock!Lock, Lock!PushLink,
        Lock!PushHead, Lock!PushUnlock, Lock!PopHead, Lock!PopUnlock,
        Lock!StackStep, Lock!PushReturns, Lock!Goto
  <2>5. ASSUME NEW a \in Actors, LockFree!Push(a)
        PROVE  LimitInv'
    <3> USE DEF LockFree!StackStep, LockFree!Goto, LockFree!PushReturns, LimitInv
    <3>1. CASE LockFree!StoreLimit(a)
      BY <2>2, <3>1, Doubled DEF LockFree!StoreLimit
    <3>2. CASE LockFree!LoadLimit(a)
      BY <2>2, <3>2 DEF LockFree!LoadLimit
    <3>3. CASE LockFree!PushRead(a) \/ LockFree!PushLink(a) \/ LockFree!PushSwap(a)
               \/ LockFree!PushFail(a)
      BY <2>2, <3>3 DEF LockFree!PushRead, LockFree!PushLink, LockFree!PushSwap,
                        LockFree!PushFail, LockFree!regVars
    <3>4. QED
      BY <2>5, <3>1, <3>2, <3>3 DEF LockFree!Push
  <2>6. ASSUME NEW a \in Actors, LockFree!Pop(a)
        PROVE  LimitInv'
    BY <2>2, <2>6
    DEF LockFree!Pop, LockFree!PopEmpty, LockFree!PopTry, LockFree!PopRead,
        LockFree!PopNext, LockFree!PopSwap, LockFree!PopFail, LockFree!StackStep,
        LockFree!PopReturns, LockFree!Goto, LockFree!stackVars, LimitInv
  <2>7. LinkTypeOK
    BY DEF Inv, Types
  <2>8. QED
    BY <2>1, <2>3, <2>4, <2>5, <2>6, <2>7, Steps DEF FreeStep
<1>3. LimitInv => LimitRange
  BY DEF LimitInv, Powers, LimitRange, LockFree!LimitRange
<1>4. QED
  BY <1>1, <1>2, <1>3, Invariance, PTL DEF Spec
=============================================================================
