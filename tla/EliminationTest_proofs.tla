------------------------ MODULE EliminationTest_proofs ------------------------
(***************************************************************************)
(* Proofs about testone with the elimination stack, for every number of    *)
(* threads, of nodes and of operations: it implements the stack on which   *)
(* operations may meet, and what main() adds up at the end is right.       *)
(***************************************************************************)
EXTENDS EliminationTest, FiniteSetTheorems, WellFoundedInduction, TLAPS

-----------------------------------------------------------------------------
(* The nodes: each is free, on the stack, in the hands of one actor, or     *)
(* popped and kept                                                          *)

\* The nodes c are linked through nx, starting at h, and none is there twice.
Linked(h, nx, c) ==
  /\ h = IF c = << >> THEN NULL ELSE c[1]
  /\ \A k \in 1..Len(c) : nx[c[k]] = IF k < Len(c) THEN c[k+1] ELSE NULL
  /\ \A j, k \in 1..Len(c) : c[j] = c[k] => j = k

\* What an actor has in hand is nowhere else, and no node on the stack is free.
Owned(held, fr, c) ==
  /\ \A k \in 1..Len(c) : c[k] \notin fr
  /\ \A a \in Actors : held[a] # NULL =>
       /\ held[a] \notin fr
       /\ \A k \in 1..Len(c) : c[k] # held[a]
       /\ \A b \in Actors : held[b] = held[a] => b = a

Heap ==
  /\ LinkTypeOK /\ node \in [Actors -> Nodes \cup {NULL}]
  /\ Linked(head, next, contents)
  /\ Owned(node, free, contents)

\* What a step does to the nodes.
HeapKeeps == UNCHANGED <<node, linkVars>>

HeapAllocates == \E a \in Actors, n \in free :
  /\ node' = [node EXCEPT ![a] = n]
  /\ free' = free \ {n}
  /\ next' = [next EXCEPT ![n] = NULL]
  /\ UNCHANGED <<head, contents>>

HeapLinks == \E a \in Actors, m \in Nodes \cup {NULL} :
  /\ node[a] # NULL
  /\ next' = [next EXCEPT ![node[a]] = m]
  /\ UNCHANGED <<node, head, free, contents>>

HeapPushes(a) ==
  /\ node[a] # NULL /\ next[node[a]] = head
  /\ head' = node[a] /\ contents' = <<node[a]>> \o contents
  /\ node' = [node EXCEPT ![a] = NULL]
  /\ UNCHANGED <<next, free>>

HeapPops(a) ==
  /\ contents # << >>
  /\ head' = next[head] /\ contents' = Tail(contents)
  /\ node' = [node EXCEPT ![a] = head]
  /\ UNCHANGED <<next, free>>

HeapDrops == \E a \in Actors :
  /\ node' = [node EXCEPT ![a] = NULL]
  /\ UNCHANGED linkVars

HeapTrades == \E a, b \in Actors :
  /\ a # b
  /\ node' = [node EXCEPT ![a] = node[b], ![b] = node[a]]
  /\ UNCHANGED linkVars

HeapStep ==
  \/ HeapKeeps \/ HeapAllocates \/ HeapLinks \/ HeapDrops \/ HeapTrades
  \/ \E a \in Actors : HeapPushes(a) \/ HeapPops(a)

\* The sequence with an element put in front of it.
LEMMA ConsIs ==
  ASSUME NEW S, NEW c \in Seq(S), NEW m \in S
  PROVE  /\ <<m>> \o c \in Seq(S) /\ <<m>> \o c # << >>
         /\ Len(<<m>> \o c) = Len(c) + 1
         /\ (<<m>> \o c)[1] = m
         /\ \A k \in 1..Len(c) : (<<m>> \o c)[k+1] = c[k]
         /\ \A k \in 2..Len(c)+1 : (<<m>> \o c)[k] = c[k-1]
  OBVIOUS

\* A sequence without its first element.
LEMMA TailIs ==
  ASSUME NEW S, NEW c \in Seq(S), c # << >>
  PROVE  /\ Tail(c) \in Seq(S) /\ Head(c) = c[1] /\ c[1] \in S
         /\ Len(c) >= 1 /\ Len(Tail(c)) = Len(c) - 1
         /\ \A k \in 1..Len(c)-1 : Tail(c)[k] = c[k+1]
  OBVIOUS

LEMMA PushKeepsLinks ==
  ASSUME Heap, NEW a \in Actors, HeapPushes(a)
  PROVE  Heap'
<1> USE StackTestAssumption DEF Heap, LinkTypeOK
<1> DEFINE m == node[a]
<1>1. m \in Nodes
  BY DEF HeapPushes
<1>2. /\ contents' \in Seq(Nodes) /\ contents' # << >>
      /\ Len(contents') = Len(contents) + 1
      /\ contents'[1] = m
      /\ \A k \in 1..Len(contents) : contents'[k+1] = contents[k]
      /\ \A k \in 2..Len(contents') : contents'[k] = contents[k-1]
  BY <1>1, ConsIs DEF HeapPushes
<1>3. \A k \in 1..Len(contents) : contents[k] # m
  BY <1>1 DEF HeapPushes, Owned
<1>4. ASSUME NEW k \in 1..Len(contents')
      PROVE  next'[contents'[k]] = IF k < Len(contents') THEN contents'[k+1] ELSE NULL
  <2>1. CASE k = 1
    <3>1. next'[contents'[k]] = IF contents = << >> THEN NULL ELSE contents[1]
      BY <1>2, <2>1 DEF HeapPushes, Linked
    <3>2. QED
      BY <1>2, <2>1, <3>1
  <2>2. CASE k # 1
    <3>1. next[contents[k-1]] = IF k-1 < Len(contents) THEN contents[k-1+1] ELSE NULL
      BY <1>2, <2>2 DEF Linked
    <3>2. QED
      BY <1>2, <2>2, <3>1 DEF HeapPushes
  <2>3. QED
    BY <2>1, <2>2
<1>5. ASSUME NEW j \in 1..Len(contents'), NEW k \in 1..Len(contents'),
             contents'[j] = contents'[k]
      PROVE  j = k
  <2>1. CASE j = 1 \/ k = 1
    BY <1>2, <1>3, <1>5, <2>1
  <2>2. CASE j # 1 /\ k # 1
    <3>1. j-1 \in 1..Len(contents) /\ k-1 \in 1..Len(contents)
          /\ contents[j-1] = contents[k-1]
      BY <1>2, <1>5, <2>2
    <3>2. j-1 = k-1
      BY <3>1 DEF Linked
    <3>3. QED
      BY <3>2
  <2>3. QED
    BY <2>1, <2>2
<1>6. Linked(head', next', contents')
  BY <1>2, <1>4, <1>5 DEF HeapPushes, Linked
<1>7. Owned(node', free', contents')
  BY <1>1, <1>2 DEF HeapPushes, Owned
<1>8. QED
  BY <1>1, <1>2, <1>6, <1>7 DEF HeapPushes

LEMMA PopKeepsLinks ==
  ASSUME Heap, NEW a \in Actors, HeapPops(a)
  PROVE  Heap'
<1> USE StackTestAssumption DEF Heap, LinkTypeOK
<1>1. /\ contents' \in Seq(Nodes)
      /\ Len(contents) >= 1 /\ Len(contents') = Len(contents) - 1
      /\ \A k \in 1..Len(contents') : contents'[k] = contents[k+1]
  BY TailIs DEF HeapPops
<1>2. head = contents[1] /\ head \in Nodes
  BY <1>1 DEF HeapPops, Linked
<1>3. head' = IF contents' = << >> THEN NULL ELSE contents'[1]
  <2>1. head' = IF 1 < Len(contents) THEN contents[1+1] ELSE NULL
    BY <1>1, <1>2 DEF HeapPops, Linked
  <2>2. contents' = << >> <=> Len(contents') = 0
    BY <1>1
  <2>3. QED
    BY <1>1, <2>1, <2>2
<1>4. ASSUME NEW k \in 1..Len(contents')
      PROVE  next'[contents'[k]] = IF k < Len(contents') THEN contents'[k+1] ELSE NULL
  <2>1. next[contents[k+1]] = IF k+1 < Len(contents) THEN contents[k+1+1] ELSE NULL
    BY <1>1 DEF Linked
  <2>2. QED
    BY <1>1, <2>1 DEF HeapPops
<1>5. ASSUME NEW j \in 1..Len(contents'), NEW k \in 1..Len(contents'),
             contents'[j] = contents'[k]
      PROVE  j = k
  <2>1. j+1 \in 1..Len(contents) /\ k+1 \in 1..Len(contents)
        /\ contents[j+1] = contents[k+1]
    BY <1>1, <1>5
  <2>2. j+1 = k+1
    BY <2>1 DEF Linked
  <2>3. QED
    BY <2>2
<1>6. Linked(head', next', contents')
  BY <1>3, <1>4, <1>5 DEF Linked
<1>7. Owned(node', free', contents')
  BY <1>1, <1>2 DEF HeapPops, Linked, Owned
<1>8. QED
  BY <1>1, <1>2, <1>6, <1>7 DEF HeapPops

LEMMA HeapStays == Heap /\ HeapStep => Heap'
<1> SUFFICES ASSUME Heap, HeapStep PROVE Heap'
  OBVIOUS
<1> USE StackTestAssumption DEF Heap, LinkTypeOK, linkVars
<1>1. CASE HeapKeeps
  BY <1>1 DEF HeapKeeps
<1>2. CASE HeapAllocates
  BY <1>2 DEF HeapAllocates, Linked, Owned
<1>3. CASE HeapLinks
  BY <1>3 DEF HeapLinks, Linked, Owned
<1>4. CASE HeapDrops
  BY <1>4 DEF HeapDrops, Linked, Owned
<1>5. CASE HeapTrades
  BY <1>5 DEF HeapTrades, Linked, Owned
<1>6. QED
  BY <1>1, <1>2, <1>3, <1>4, <1>5, PushKeepsLinks, PopKeepsLinks DEF HeapStep

-----------------------------------------------------------------------------
(* The invariant *)

Points == OnePoints \cup OpPoints

\* Who pushes has a node, whose successor, once it is linked, is what push()
\* took for the top of the stack.  Who pops has none, and trypop() a first node.
Hands ==
  \A a \in Actors :
    /\ pc[a] \in {"push", "pushcas"} => node[a] # NULL
    /\ pc[a] \notin {"push", "pushcas", "draw", "visiting", "popped"} => node[a] = NULL
    /\ pc[a] = "pushcas" => next[node[a]] = cur[a]
    /\ pc[a] = "popnext" => cur[a] # NULL

\* main pops only once the workers are done.  It is alone then: nothing changes
\* between its look at the stack and its swap, and it never visits the array.
MainInv ==
  /\ pc[Main] \in {"join", "pop", "trypop", "popnext", "popped", "exit"}
  /\ pc[Main] # "join" => \A t \in Workers : pc[t] = "done"
  /\ pc[Main] = "trypop" => head # NULL
  /\ pc[Main] = "popnext" => head = cur[Main]
  /\ pc[Main] = "popped" /\ node[Main] = NULL => contents = << >>
  /\ pc[Main] = "exit" => contents = << >>

Inv == TypeOK /\ Heap /\ Hands /\ MainInv

\* What a step is to the abstract stack.
AbsPC == [a \in Actors |-> OpPoint(a)]

AbsMoves(a, from, to) ==
  AbsPC[a] = from /\ AbsPC' = [AbsPC EXCEPT ![a] = to]

AbsStays == UNCHANGED <<AbsPC, node, contents>>

AbsPushes(a) ==
  /\ a \in Workers /\ AbsMoves(a, "push", "pushed")
  /\ node[a] # NULL /\ node' = [node EXCEPT ![a] = NULL]
  /\ contents' = <<node[a]>> \o contents

AbsPops(a) ==
  /\ AbsMoves(a, "pop", "popped")
  /\ contents # << >>
  /\ node' = [node EXCEPT ![a] = Head(contents)]
  /\ contents' = Tail(contents)

AbsFindsNone(a) ==
  /\ AbsMoves(a, "pop", "popped")
  /\ contents = << >> /\ node' = [node EXCEPT ![a] = NULL]
  /\ contents' = contents

AbsMeets(a, b) ==
  /\ a # b /\ AbsPC[a] = "push"
  /\ node' = [node EXCEPT ![a] = node[b], ![b] = node[a]]
  /\ node[a] # NULL /\ contents' = contents
  /\ \/ /\ AbsPC[b] = "push" /\ node[b] # NULL /\ AbsPC' = AbsPC
     \/ /\ AbsPC[b] = "pop" /\ node[b] = NULL
        /\ AbsPC' = [AbsPC EXCEPT ![a] = "pushed", ![b] = "popped"]

AbsOp ==
  \/ AbsStays
  \/ \E a \in Actors : AbsPushes(a) \/ AbsPops(a) \/ AbsFindsNone(a)
  \/ \E a, b \in Workers : AbsMeets(a, b)

LEMMA Threads ==
  /\ Actors = Workers \cup {Main} /\ Main \notin Workers
  /\ IsFiniteSet(Workers) /\ IsFiniteSet(Actors)
<1>1. Actors = Workers \cup {Main} /\ Main \notin Workers
  BY StackTestAssumption DEF Actors, Workers, Main
<1>2. IsFiniteSet(Workers) /\ IsFiniteSet(Actors)
  BY FS_Interval, StackTestAssumption DEF Actors, Workers
<1>3. QED
  BY <1>1, <1>2

\* The range is doubled as an int.
LEMMA DoubledIs ==
  ASSUME TypeOK, NEW a \in Actors
  PROVE  Doubled(a) \in 0 .. IntSpan - 1
<1>1. 2 * range[a] \in Nat /\ IntSpan \in Nat \ {0}
  BY EliminationAssumption DEF TypeOK
<1>2. QED
  BY <1>1 DEF Doubled

\* Where the abstract stack sees an actor, by its point and by what it holds.
LEMMA AbsIs ==
  ASSUME NEW a \in Actors
  PROVE  /\ pc[a] = "pushcas" => AbsPC[a] = "push"
         /\ pc[a] \in {"trypop", "popnext"} => AbsPC[a] = "pop"
         /\ pc[a] \in {"draw", "visiting"} =>
              AbsPC[a] = IF node[a] = NULL THEN "pop" ELSE "push"
         /\ pc[a] \notin OpPoints => AbsPC[a] = pc[a]
  BY DEF AbsPC, OpPoint, OpPoints

LEMMA AbsIsNext ==
  ASSUME NEW a \in Actors
  PROVE  /\ pc'[a] = "pushcas" => AbsPC'[a] = "push"
         /\ pc'[a] \in {"trypop", "popnext"} => AbsPC'[a] = "pop"
         /\ pc'[a] \in {"draw", "visiting"} =>
              AbsPC'[a] = IF node'[a] = NULL THEN "pop" ELSE "push"
         /\ pc'[a] \notin OpPoints => AbsPC'[a] = pc'[a]
  BY DEF AbsPC, OpPoint, OpPoints

\* A step of one actor moves nobody else.
LEMMA AbsGoes ==
  ASSUME NEW a \in Actors, pc \in [Actors -> Points],
         NEW to, pc' = [pc EXCEPT ![a] = to],
         \A b \in Actors : b # a => node'[b] = node[b]
  PROVE  AbsPC' = [AbsPC EXCEPT ![a] = AbsPC'[a]]
<1>1. \A b \in Actors : b # a => pc'[b] = pc[b]
  OBVIOUS
<1>2. \A b \in Actors : b # a => AbsPC'[b] = AbsPC[b]
  BY <1>1 DEF AbsPC, OpPoint
<1> DEFINE f == [AbsPC EXCEPT ![a] = AbsPC'[a]]
<1>3. \A b \in Actors : AbsPC'[b] = f[b]
  BY <1>2 DEF AbsPC
<1>4. AbsPC' = [b \in Actors |-> AbsPC'[b]] /\ f = [b \in Actors |-> f[b]]
  BY DEF AbsPC
<1> HIDE DEF f
<1>5. QED
  BY <1>3, <1>4 DEF f

LEMMA InvInit == Init => Inv
<1> SUFFICES ASSUME Init PROVE Inv
  OBVIOUS
<1> USE Threads, StackTestAssumption, EliminationAssumption
    DEF Init, HarnessInit, OneInit, StackInit, LinkInit
<1>1. pc \in [Actors -> Points]
  BY DEF Points, OnePoints, WorkPoints
<1>2. LinkTypeOK
  BY DEF LinkTypeOK
<1>3. range \in [Actors -> 0 .. IntSpan - 1] /\ slot \in [Actors -> 0 .. MaxRange]
  OBVIOUS
<1>4. TypeOK
  BY <1>1, <1>2, <1>3 DEF TypeOK, HarnessTypeOK, Points
<1>5. Heap
  BY <1>2 DEF Heap, Linked, Owned
<1>6. Hands /\ MainInv
  BY DEF Hands, MainInv
<1>7. QED
  BY <1>4, <1>5, <1>6 DEF Inv

-----------------------------------------------------------------------------
(* The steps of push(), pop() and visit() keep it *)

Kept == TypeOK' /\ HeapStep /\ Hands' /\ MainInv'

\* While a worker is in push(), pop() or between them, main waits for it.
LEMMA MainWaits ==
  ASSUME Inv, NEW t \in Workers, pc[t] # "done"
  PROVE  pc[Main] = "join" /\ t # Main
  BY Threads DEF Inv, MainInv

LEMMA PushKeeps ==
  ASSUME Inv, NEW t \in Workers, Push(t), reg' = reg
  PROVE  Kept /\ AbsOp /\ UNCHANGED countVars
<1> USE Threads, StackTestAssumption DEF StackStep, PushReturns, Goto, Assign, countVars
<1>1. /\ TypeOK /\ Heap /\ Hands /\ MainInv /\ LinkTypeOK
      /\ pc \in [Actors -> Points] /\ t \in Actors
  BY DEF Inv, TypeOK, HarnessTypeOK, Points
<1>2. {"push", "pushcas", "pushed", "draw"} \subseteq Points
  BY DEF Points, OnePoints, WorkPoints, OpPoints
<1>3. pc[Main] = "join" /\ t # Main
  BY MainWaits DEF Push, PushLink, PushSwap, PushFails
<1>4. CASE PushLink(t)
  <2>1. node[t] \in Nodes
    BY <1>1, <1>4 DEF PushLink, Hands, Heap
  <2>2. TypeOK'
    BY <1>1, <1>2, <1>4, <2>1 DEF PushLink, TypeOK, HarnessTypeOK, LinkTypeOK, Points
  <2>3. HeapLinks
    BY <1>1, <1>4, <2>1 DEF PushLink, LinkTypeOK, HeapLinks
  <2>4. \A b \in Actors : b # t /\ node[b] # NULL => node[b] # node[t]
    BY <1>1, <2>1 DEF Heap, Owned
  <2>5. Hands'
    BY <1>1, <1>2, <1>4, <2>1, <2>4 DEF PushLink, Hands, TypeOK, LinkTypeOK
  <2>6. MainInv'
    BY <1>1, <1>3, <1>4 DEF PushLink, MainInv
  <2>7. AbsStays
    <3>1. AbsPC' = [AbsPC EXCEPT ![t] = AbsPC'[t]] /\ AbsPC'[t] = AbsPC[t]
      BY <1>1, <1>4, AbsGoes, AbsIs, AbsIsNext DEF PushLink, OpPoints
    <3>2. AbsPC' = AbsPC
      BY <3>1 DEF AbsPC
    <3>3. QED
      BY <1>4, <3>2 DEF PushLink, AbsStays
  <2>8. QED
    BY <1>4, <2>2, <2>3, <2>5, <2>6, <2>7 DEF PushLink, Kept, HeapStep, AbsOp
<1>5. CASE PushSwap(t)
  <2>1. node[t] \in Nodes /\ node[t] # NULL /\ next[node[t]] = head
    BY <1>1, <1>5 DEF PushSwap, Hands, Heap
  <2>2. contents' \in Seq(Nodes)
    BY <1>1, <1>5, <2>1, ConsIs DEF PushSwap, LinkTypeOK
  <2>3. TypeOK'
    <3>1. pc' \in [Actors -> Points] /\ node' \in [Actors -> Nodes \cup {NULL}]
          /\ cur' \in [Actors -> Nodes \cup {NULL}]
      BY <1>1, <1>2, <1>5 DEF PushSwap, TypeOK, HarnessTypeOK
    <3>2. range' \in [Actors -> 0 .. IntSpan - 1]
      BY <1>1, <1>5, EliminationAssumption DEF PushSwap, TypeOK
    <3>3. LinkTypeOK'
      BY <1>1, <1>5, <2>1, <2>2 DEF PushSwap, LinkTypeOK
    <3>4. QED
      BY <1>1, <1>5, <3>1, <3>2, <3>3 DEF PushSwap, TypeOK, HarnessTypeOK, Points
  <2>4. HeapPushes(t)
    BY <1>5, <2>1 DEF PushSwap, HeapPushes
  <2>5. Hands'
    BY <1>1, <1>2, <1>5 DEF PushSwap, Hands, TypeOK, HarnessTypeOK
  <2>6. MainInv'
    BY <1>1, <1>3, <1>5 DEF PushSwap, MainInv
  <2>7. AbsPushes(t)
    <3>1. AbsPC' = [AbsPC EXCEPT ![t] = AbsPC'[t]]
      BY <1>1, <1>5, AbsGoes DEF PushSwap, TypeOK, HarnessTypeOK
    <3>2. AbsPC[t] = "push" /\ AbsPC'[t] = "pushed"
      BY <1>1, <1>5, AbsIs, AbsIsNext DEF PushSwap, OpPoints
    <3>3. QED
      BY <1>5, <2>1, <3>1, <3>2 DEF PushSwap, AbsPushes, AbsMoves
  <2>8. QED
    BY <1>1, <1>5, <2>3, <2>4, <2>5, <2>6, <2>7 DEF PushSwap, Kept, HeapStep, AbsOp
<1>6. CASE PushFails(t)
  <2>1. TypeOK'
    BY <1>1, <1>2, <1>6
    DEF PushFails, TypeOK, HarnessTypeOK, LinkTypeOK, Points, linkVars
  <2>2. HeapKeeps
    BY <1>6 DEF PushFails, HeapKeeps
  <2>3. Hands'
    BY <1>1, <1>2, <1>6 DEF PushFails, Hands, TypeOK, linkVars
  <2>4. MainInv'
    BY <1>1, <1>3, <1>6 DEF PushFails, MainInv, linkVars
  <2>5. AbsStays
    <3>1. node[t] # NULL
      BY <1>1, <1>6 DEF PushFails, Hands
    <3>2. AbsPC' = [AbsPC EXCEPT ![t] = AbsPC'[t]] /\ AbsPC'[t] = AbsPC[t]
      BY <1>1, <1>6, <3>1, AbsGoes, AbsIs, AbsIsNext DEF PushFails, OpPoints
    <3>3. AbsPC' = AbsPC
      BY <3>2 DEF AbsPC
    <3>4. QED
      BY <1>6, <3>3 DEF PushFails, linkVars, AbsStays
  <2>6. QED
    BY <1>6, <2>1, <2>2, <2>3, <2>4, <2>5 DEF PushFails, Kept, HeapStep, AbsOp
<1>7. QED
  BY <1>4, <1>5, <1>6 DEF Push

LEMMA PopKeeps ==
  ASSUME Inv, NEW a \in Actors, Pop(a), reg' = reg
  PROVE  Kept /\ AbsOp /\ UNCHANGED countVars
<1> USE Threads, StackTestAssumption DEF StackStep, PopReturns, Goto, Assign, countVars
<1>1. /\ TypeOK /\ Heap /\ Hands /\ MainInv /\ LinkTypeOK
      /\ pc \in [Actors -> Points] /\ node[a] = NULL
  BY DEF Inv, TypeOK, HarnessTypeOK, Points, Hands, Pop, PopEmpty, PopTry, PopRead,
         PopSwap, PopFails
<1>2. {"pop", "trypop", "popnext", "popped", "draw"} \subseteq Points
  BY DEF Points, OnePoints, WorkPoints, OpPoints
<1>3. a # Main => pc[Main] = "join"
  BY MainWaits DEF Pop, PopEmpty, PopTry, PopRead, PopSwap, PopFails
<1>4. head = NULL <=> contents = << >>
  <2>1. contents # << >> => contents[1] \in Nodes
    BY <1>1, TailIs DEF LinkTypeOK
  <2>2. QED
    BY <1>1, <2>1 DEF Heap, Linked
<1>m. pc[Main] # "join" => \A t \in Workers : pc[t] = "done"
  BY <1>1 DEF MainInv
<1>5. CASE PopEmpty(a)
  <2>1. TypeOK'
    BY <1>1, <1>2, <1>5
    DEF PopEmpty, TypeOK, HarnessTypeOK, LinkTypeOK, Points, linkVars, elimVars
  <2>2. HeapDrops
    BY <1>5 DEF PopEmpty, HeapDrops
  <2>3. Hands'
    BY <1>1, <1>2, <1>5 DEF PopEmpty, Hands, TypeOK, linkVars, elimVars
  <2>4. MainInv'
    BY <1>1, <1>3, <1>4, <1>m, <1>5 DEF PopEmpty, MainInv, linkVars, elimVars
  <2>5. AbsFindsNone(a)
    <3>1. AbsPC' = [AbsPC EXCEPT ![a] = AbsPC'[a]]
      BY <1>1, <1>5, AbsGoes DEF PopEmpty, TypeOK, HarnessTypeOK
    <3>2. AbsPC[a] = "pop" /\ AbsPC'[a] = "popped"
      BY <1>1, <1>5, AbsIs, AbsIsNext DEF PopEmpty, OpPoints
    <3>3. QED
      BY <1>4, <1>5, <3>1, <3>2 DEF PopEmpty, AbsFindsNone, AbsMoves, linkVars
  <2>6. QED
    BY <1>5, <2>1, <2>2, <2>3, <2>4, <2>5 DEF PopEmpty, Kept, HeapStep, AbsOp
<1>6. CASE PopTry(a)
  <2>1. TypeOK'
    BY <1>1, <1>2, <1>6
    DEF PopTry, TypeOK, HarnessTypeOK, LinkTypeOK, Points, linkVars, elimVars
  <2>2. HeapKeeps
    BY <1>6 DEF PopTry, HeapKeeps
  <2>3. Hands'
    BY <1>1, <1>2, <1>6 DEF PopTry, Hands, TypeOK, linkVars, elimVars
  <2>4. MainInv'
    BY <1>1, <1>3, <1>m, <1>6 DEF PopTry, MainInv, linkVars, elimVars
  <2>5. AbsStays
    <3>1. AbsPC' = [AbsPC EXCEPT ![a] = AbsPC'[a]] /\ AbsPC'[a] = AbsPC[a]
      BY <1>1, <1>6, AbsGoes, AbsIs, AbsIsNext DEF PopTry, OpPoints
    <3>2. AbsPC' = AbsPC
      BY <3>1 DEF AbsPC
    <3>3. QED
      BY <1>6, <3>2 DEF PopTry, linkVars, AbsStays
  <2>6. QED
    BY <1>6, <2>1, <2>2, <2>3, <2>4, <2>5 DEF PopTry, Kept, HeapStep, AbsOp
<1>7. CASE PopRead(a)
  <2>1. TypeOK'
    BY <1>1, <1>2, <1>7
    DEF PopRead, TypeOK, HarnessTypeOK, LinkTypeOK, Points, linkVars
  <2>2. HeapKeeps
    BY <1>7 DEF PopRead, HeapKeeps
  <2>3. Hands'
    BY <1>1, <1>2, <1>7 DEF PopRead, Hands, TypeOK, linkVars
  <2>4. MainInv'
    BY <1>1, <1>3, <1>m, <1>7 DEF PopRead, MainInv, TypeOK, linkVars
  <2>5. AbsStays
    <3>1. AbsPC' = [AbsPC EXCEPT ![a] = AbsPC'[a]] /\ AbsPC'[a] = AbsPC[a]
      BY <1>1, <1>7, AbsGoes, AbsIs, AbsIsNext DEF PopRead, OpPoints
    <3>2. AbsPC' = AbsPC
      BY <3>1 DEF AbsPC
    <3>3. QED
      BY <1>7, <3>2 DEF PopRead, linkVars, AbsStays
  <2>6. QED
    BY <1>7, <2>1, <2>2, <2>3, <2>4, <2>5 DEF PopRead, Kept, HeapStep, AbsOp
<1>8. CASE PopSwap(a)
  <2>1. cur[a] = head /\ head \in Nodes /\ contents # << >>
    BY <1>1, <1>4, <1>8 DEF PopSwap, Hands, LinkTypeOK
  <2>2. /\ contents' \in Seq(Nodes) /\ Head(contents) = contents[1]
        /\ head = contents[1]
    BY <1>1, <1>8, <2>1, TailIs DEF PopSwap, LinkTypeOK, Heap, Linked
  <2>3. TypeOK'
    <3>1. pc' \in [Actors -> Points] /\ node' \in [Actors -> Nodes \cup {NULL}]
          /\ cur' \in [Actors -> Nodes \cup {NULL}]
      BY <1>1, <1>2, <1>8, <2>1 DEF PopSwap, TypeOK, HarnessTypeOK
    <3>2. range' \in [Actors -> 0 .. IntSpan - 1]
      BY <1>1, <1>8, EliminationAssumption DEF PopSwap, TypeOK
    <3>3. LinkTypeOK'
      BY <1>1, <1>8, <2>1, <2>2 DEF PopSwap, LinkTypeOK
    <3>4. QED
      BY <1>1, <1>8, <3>1, <3>2, <3>3 DEF PopSwap, TypeOK, HarnessTypeOK, Points
  <2>4. HeapPops(a)
    BY <1>8, <2>1 DEF PopSwap, HeapPops
  <2>5. Hands'
    BY <1>1, <1>2, <1>8 DEF PopSwap, Hands, TypeOK, HarnessTypeOK
  <2>6. MainInv'
    BY <1>1, <1>3, <1>m, <1>8, <2>1 DEF PopSwap, MainInv, TypeOK, HarnessTypeOK
  <2>7. AbsPops(a)
    <3>1. AbsPC' = [AbsPC EXCEPT ![a] = AbsPC'[a]]
      BY <1>1, <1>8, AbsGoes DEF PopSwap, TypeOK, HarnessTypeOK
    <3>2. AbsPC[a] = "pop" /\ AbsPC'[a] = "popped"
      BY <1>1, <1>8, AbsIs, AbsIsNext DEF PopSwap, OpPoints
    <3>3. QED
      BY <1>8, <2>1, <2>2, <3>1, <3>2 DEF PopSwap, AbsPops, AbsMoves
  <2>8. QED
    BY <1>8, <2>3, <2>4, <2>5, <2>6, <2>7 DEF PopSwap, Kept, HeapStep, AbsOp
<1>9. CASE PopFails(a)
  <2>1. TypeOK'
    BY <1>1, <1>2, <1>9
    DEF PopFails, TypeOK, HarnessTypeOK, LinkTypeOK, Points, linkVars
  <2>2. HeapKeeps
    BY <1>9 DEF PopFails, HeapKeeps
  <2>3. Hands'
    BY <1>1, <1>2, <1>9 DEF PopFails, Hands, TypeOK, linkVars
  <2>4. MainInv'
    BY <1>1, <1>3, <1>m, <1>9 DEF PopFails, MainInv, linkVars
  <2>5. AbsStays
    <3>1. AbsPC' = [AbsPC EXCEPT ![a] = AbsPC'[a]] /\ AbsPC'[a] = AbsPC[a]
      BY <1>1, <1>9, AbsGoes, AbsIs, AbsIsNext DEF PopFails, OpPoints
    <3>2. AbsPC' = AbsPC
      BY <3>1 DEF AbsPC
    <3>3. QED
      BY <1>9, <3>2 DEF PopFails, linkVars, AbsStays
  <2>6. QED
    BY <1>9, <2>1, <2>2, <2>3, <2>4, <2>5 DEF PopFails, Kept, HeapStep, AbsOp
<1>10. QED
  BY <1>5, <1>6, <1>7, <1>8, <1>9 DEF Pop

\* What visit() comes to, by what each of the two has in hand.
LEMMA AfterIs ==
  ASSUME NEW a, NEW other
  PROVE  After(a, other) = IF node[a] # NULL
                           THEN IF other = NULL THEN "pushed" ELSE "push"
                           ELSE IF other = NULL THEN "trypop" ELSE "popped"
  BY DEF After

LEMMA VisitKeeps ==
  ASSUME Inv, NEW t \in Workers, Visit(t), reg' = reg
  PROVE  Kept /\ AbsOp /\ UNCHANGED countVars
<1> USE Threads, StackTestAssumption DEF StackStep, Goto, Assign, countVars
<1>1. /\ TypeOK /\ Heap /\ Hands /\ MainInv /\ LinkTypeOK
      /\ pc \in [Actors -> Points] /\ t \in Actors
  BY DEF Inv, TypeOK, HarnessTypeOK, Points
<1>2. {"push", "trypop", "draw", "visiting"} \subseteq Points
  BY DEF Points, OnePoints, WorkPoints, OpPoints
<1>3. pc[Main] = "join" /\ t # Main
  BY MainWaits DEF Visit, Draw, MeetNobody
<1>4. CASE Draw(t)
  <2>1. TypeOK'
    <3>1. slot' \in [Actors -> 0 .. MaxRange]
      BY <1>1, <1>4 DEF Draw, TypeOK
    <3>2. QED
      BY <1>1, <1>2, <1>4, <3>1
      DEF Draw, TypeOK, HarnessTypeOK, LinkTypeOK, Points, linkVars
  <2>2. HeapKeeps
    BY <1>4 DEF Draw, HeapKeeps
  <2>3. Hands'
    BY <1>1, <1>2, <1>4 DEF Draw, Hands, linkVars
  <2>4. MainInv'
    BY <1>1, <1>3, <1>4 DEF Draw, MainInv, linkVars
  <2>5. AbsStays
    <3>1. AbsPC' = [AbsPC EXCEPT ![t] = AbsPC'[t]] /\ AbsPC'[t] = AbsPC[t]
      BY <1>1, <1>4, AbsGoes, AbsIs, AbsIsNext DEF Draw, OpPoints
    <3>2. AbsPC' = AbsPC
      BY <3>1 DEF AbsPC
    <3>3. QED
      BY <1>4, <3>2 DEF Draw, linkVars, AbsStays
  <2>6. QED
    BY <1>4, <2>1, <2>2, <2>3, <2>4, <2>5 DEF Draw, Kept, HeapStep, AbsOp
<1>5. CASE MeetNobody(t)
  <2>1. pc' = [pc EXCEPT ![t] = IF node[t] # NULL THEN "push" ELSE "trypop"]
    BY <1>5, AfterIs DEF MeetNobody
  <2>2. TypeOK'
    <3>1. range' \in [Actors -> 0 .. IntSpan - 1] /\ slot' \in [Actors -> 0 .. MaxRange]
      BY <1>1, <1>5, DoubledIs, EliminationAssumption DEF MeetNobody, TypeOK
    <3>2. pc' \in [Actors -> Points]
      BY <1>1, <1>2, <2>1
    <3>3. QED
      BY <1>1, <1>5, <3>1, <3>2
      DEF MeetNobody, TypeOK, HarnessTypeOK, LinkTypeOK, Points, linkVars
  <2>3. HeapKeeps
    BY <1>5 DEF MeetNobody, HeapKeeps
  <2>4. Hands'
    BY <1>1, <1>5, <2>1 DEF MeetNobody, Hands, linkVars
  <2>5. MainInv'
    BY <1>1, <1>3, <1>5, <2>1 DEF MeetNobody, MainInv, linkVars
  <2>6. AbsStays
    <3>1. pc[t] = "visiting" /\ node' = node /\ contents' = contents
      BY <1>5 DEF MeetNobody, linkVars
    <3>2. AbsPC' = [AbsPC EXCEPT ![t] = AbsPC'[t]]
      BY <1>1, <2>1, <3>1, AbsGoes
    <3>3. AbsPC'[t] = AbsPC[t]
      BY <1>1, <2>1, <3>1, AbsIs, AbsIsNext DEF OpPoints
    <3>4. AbsPC' = AbsPC
      BY <3>2, <3>3 DEF AbsPC
    <3>5. QED
      BY <3>1, <3>4 DEF AbsStays
  <2>7. QED
    BY <1>5, <2>2, <2>3, <2>4, <2>5, <2>6 DEF MeetNobody, Kept, HeapStep, AbsOp
<1>6. QED
  BY <1>4, <1>5 DEF Visit

LEMMA MeetKeeps ==
  ASSUME Inv, NEW t \in Workers, NEW u \in Workers, Meet(t, u), reg' = reg
  PROVE  Kept /\ AbsOp /\ UNCHANGED countVars
<1> USE Threads, StackTestAssumption
<1>1. /\ TypeOK /\ Heap /\ Hands /\ MainInv /\ LinkTypeOK
      /\ pc \in [Actors -> Points] /\ node \in [Actors -> Nodes \cup {NULL}]
      /\ t \in Actors /\ u \in Actors
  BY DEF Inv, TypeOK, HarnessTypeOK, Points
<1>2. {"push", "trypop", "pushed", "popped"} \subseteq Points
  BY DEF Points, OnePoints, WorkPoints, OpPoints
<1>3. /\ t # u /\ pc[t] = "visiting" /\ pc[u] = "visiting"
      /\ node' = [node EXCEPT ![t] = node[u], ![u] = node[t]]
      /\ UNCHANGED <<countVars, linkVars, cur>>
  BY DEF Meet
<1>4. pc' = [pc EXCEPT ![t] = IF node[t] # NULL
                              THEN IF node[u] = NULL THEN "pushed" ELSE "push"
                              ELSE IF node[u] = NULL THEN "trypop" ELSE "popped",
                       ![u] = IF node[u] # NULL
                              THEN IF node[t] = NULL THEN "pushed" ELSE "push"
                              ELSE IF node[t] = NULL THEN "trypop" ELSE "popped"]
  BY AfterIs DEF Meet
<1>5. pc[Main] = "join" /\ t # Main /\ u # Main
  BY <1>3, MainWaits
<1>6. TypeOK'
  <2>1. pc' \in [Actors -> Points] /\ node' \in [Actors -> Nodes \cup {NULL}]
    BY <1>1, <1>2, <1>3, <1>4
  <2>2. RangeAfter(t, node[u]) \in 0 .. IntSpan - 1
        /\ RangeAfter(u, node[t]) \in 0 .. IntSpan - 1
    BY <1>1, DoubledIs, EliminationAssumption DEF RangeAfter
  <2>3. range' \in [Actors -> 0 .. IntSpan - 1] /\ slot' \in [Actors -> 0 .. MaxRange]
    BY <1>1, <2>2, EliminationAssumption DEF Meet, TypeOK
  <2>4. QED
    BY <1>1, <1>3, <2>1, <2>3
    DEF TypeOK, HarnessTypeOK, LinkTypeOK, Points, linkVars, countVars
<1>7. HeapTrades
  BY <1>1, <1>3 DEF HeapTrades
<1>8. Hands'
  BY <1>1, <1>3, <1>4 DEF Hands, linkVars
<1>9. MainInv'
  BY <1>1, <1>3, <1>4, <1>5 DEF MainInv, linkVars
<1>10. /\ AbsPC[t] = (IF node[t] = NULL THEN "pop" ELSE "push")
       /\ AbsPC[u] = (IF node[u] = NULL THEN "pop" ELSE "push")
  BY <1>1, <1>3, AbsIs
<1>11. \A b \in Actors : b # t /\ b # u => AbsPC'[b] = AbsPC[b]
  <2>1. \A b \in Actors : b # t /\ b # u => pc'[b] = pc[b] /\ node'[b] = node[b]
    BY <1>1, <1>3, <1>4
  <2>2. QED
    BY <2>1 DEF AbsPC, OpPoint
<1>12. DOMAIN AbsPC = Actors /\ DOMAIN AbsPC' = Actors
       /\ AbsPC = [b \in Actors |-> AbsPC[b]] /\ AbsPC' = [b \in Actors |-> AbsPC'[b]]
  BY DEF AbsPC
<1>13. contents' = contents
  BY <1>3 DEF linkVars
<1>14. CASE node[t] = NULL /\ node[u] = NULL
  <2>1. pc'[t] = "trypop" /\ pc'[u] = "trypop" /\ node' = node
    BY <1>1, <1>3, <1>4, <1>14
  <2>2. AbsPC'[t] = AbsPC[t] /\ AbsPC'[u] = AbsPC[u]
    BY <1>1, <1>10, <1>14, <2>1, AbsIsNext
  <2>3. AbsPC' = AbsPC
    BY <1>11, <1>12, <2>2
  <2>4. QED
    BY <1>3, <1>6, <1>7, <1>8, <1>9, <1>13, <2>1, <2>3
    DEF Kept, HeapStep, AbsStays, AbsOp
<1>15. CASE node[t] # NULL /\ node[u] # NULL
  <2>1. pc'[t] = "push" /\ pc'[u] = "push"
    BY <1>1, <1>3, <1>4, <1>15
  <2>2. AbsPC'[t] = AbsPC[t] /\ AbsPC'[u] = AbsPC[u]
    BY <1>1, <1>10, <1>15, <2>1, AbsIsNext DEF OpPoints
  <2>3. AbsPC' = AbsPC
    BY <1>11, <1>12, <2>2
  <2>4. AbsMeets(t, u)
    BY <1>3, <1>10, <1>13, <1>15, <2>3 DEF AbsMeets
  <2>5. QED
    BY <1>3, <1>6, <1>7, <1>8, <1>9, <2>4 DEF Kept, HeapStep, AbsOp
<1>16. ASSUME NEW v \in {t, u}, NEW w \in {t, u}, v # w,
              node[v] # NULL, node[w] = NULL
       PROVE  Kept /\ AbsOp
  <2>1. pc'[v] = "pushed" /\ pc'[w] = "popped"
    BY <1>1, <1>3, <1>4, <1>16
  <2>2. AbsPC'[v] = "pushed" /\ AbsPC'[w] = "popped"
    BY <1>1, <1>16, <2>1, AbsIsNext DEF OpPoints
  <2>3. AbsPC' = [AbsPC EXCEPT ![v] = "pushed", ![w] = "popped"]
    BY <1>1, <1>11, <1>12, <1>16, <2>2
  <2>4. node' = [node EXCEPT ![v] = node[w], ![w] = node[v]]
    <3>1. CASE v = t /\ w = u
      BY <1>3, <3>1
    <3>2. CASE v = u /\ w = t
      BY <1>1, <1>3, <3>2
    <3>3. QED
      BY <1>16, <3>1, <3>2
  <2>5. AbsMeets(v, w)
    BY <1>10, <1>13, <1>16, <2>3, <2>4 DEF AbsMeets
  <2>6. QED
    BY <1>6, <1>7, <1>8, <1>9, <1>16, <2>5 DEF Kept, HeapStep, AbsOp
<1>17. QED
  BY <1>3, <1>14, <1>15, <1>16

-----------------------------------------------------------------------------
(* So do the steps between the operations *)

LEMMA HarnessKeeps ==
  ASSUME Inv, NEW t \in Workers, OneWorkerStep(t), UNCHANGED <<linkVars, elimVars>>
  PROVE  Kept
<1> USE Threads, StackTestAssumption DEF StackStep, Goto, linkVars, elimVars, countVars
<1>1. /\ TypeOK /\ Heap /\ Hands /\ MainInv /\ LinkTypeOK
      /\ pc \in [Actors -> Points] /\ t \in Actors
  BY DEF Inv, TypeOK, HarnessTypeOK, Points
<1>2. PICK to \in {"loop", "pop", "test", "total", "storepush", "totalpop",
                   "storepop", "done"} :
         /\ pc' = [pc EXCEPT ![t] = to]
         /\ pc[t] \in {"start", "loop", "pushed", "popped", "test", "total",
                       "storepush", "totalpop", "storepop"}
         /\ \/ node' = node /\ pc[t] # "popped"
            \/ node' = [node EXCEPT ![t] = NULL]
  BY DEF OneWorkerStep, Start, BeginPop, CountPush, CountPop, NextOp, LastOp,
         LoadPushTotal, StorePushTotal, LoadPopTotal, StorePopTotal
<1>3. {"loop", "pop", "test", "total", "storepush", "totalpop", "storepop", "done"}
      \subseteq Points
  BY DEF Points, OnePoints, WorkPoints
<1>4. pc[Main] = "join" /\ t # Main
  BY <1>2, MainWaits
<1>5. TypeOK'
  <2>1. pc' \in [Actors -> Points] /\ node' \in [Actors -> Nodes \cup {NULL}]
    BY <1>1, <1>2, <1>3 DEF TypeOK, HarnessTypeOK
  <2>2. /\ timeup' = timeup /\ mypopcount' = mypopcount
        /\ pushcount' \in [Workers -> Nat] /\ popcount' \in [Workers -> Nat]
        /\ totalpushcount' \in Nat /\ totalpopcount' \in Nat
        /\ reg' \in [Workers -> Nat]
    BY <1>1
    DEF TypeOK, HarnessTypeOK, OneWorkerStep, Start, BeginPop, CountPush, CountPop,
        NextOp, LastOp, LoadPushTotal, StorePushTotal, LoadPopTotal, StorePopTotal
  <2>3. QED
    BY <1>1, <2>1, <2>2 DEF TypeOK, HarnessTypeOK, LinkTypeOK, Points
<1>6. HeapKeeps \/ HeapDrops
  BY <1>2 DEF HeapKeeps, HeapDrops
<1>7. Hands'
  BY <1>1, <1>2 DEF Hands, TypeOK, HarnessTypeOK
<1>8. MainInv'
  BY <1>1, <1>2, <1>4 DEF MainInv
<1>9. QED
  BY <1>5, <1>6, <1>7, <1>8 DEF Kept, HeapStep

LEMMA AllocateKeeps ==
  ASSUME Inv, NEW t \in Workers, Allocate(t)
  PROVE  Kept
<1> USE Threads, StackTestAssumption DEF New, BeginPush, Goto, elimVars, countVars
<1>1. /\ TypeOK /\ Heap /\ Hands /\ MainInv /\ LinkTypeOK
      /\ pc \in [Actors -> Points] /\ t \in Actors
  BY DEF Inv, TypeOK, HarnessTypeOK, Points
<1>2. PICK n \in Nodes : New(t, n) /\ UNCHANGED <<elimVars, reg>>
  BY DEF Allocate
<1>3. "push" \in Points
  BY DEF Points, OnePoints, WorkPoints
<1>4. pc[Main] = "join" /\ t # Main
  BY <1>2, MainWaits
<1>5. TypeOK'
  BY <1>1, <1>2, <1>3 DEF TypeOK, HarnessTypeOK, LinkTypeOK, Points
<1>6. HeapAllocates
  BY <1>1, <1>2 DEF HeapAllocates
<1>7. \A a \in Actors : node[a] # n
  BY <1>1, <1>2 DEF Heap, Owned
<1>8. Hands'
  BY <1>1, <1>2, <1>7 DEF Hands, TypeOK, HarnessTypeOK, LinkTypeOK
<1>9. MainInv'
  BY <1>1, <1>2, <1>4 DEF MainInv
<1>10. QED
  BY <1>5, <1>6, <1>8, <1>9 DEF Kept, HeapStep

LEMMA MainKeeps ==
  ASSUME Inv, MainStep \/ CountLeftover, UNCHANGED <<linkVars, elimVars, reg>>
  PROVE  Kept
<1> USE Threads, StackTestAssumption DEF StackStep, Goto, linkVars, elimVars, countVars
<1>1. /\ TypeOK /\ Heap /\ Hands /\ MainInv /\ LinkTypeOK
      /\ pc \in [Actors -> Points]
  BY DEF Inv, TypeOK, HarnessTypeOK, Points
<1>2. {"pop", "exit"} \subseteq Points
  BY DEF Points, OnePoints, WorkPoints
<1>3. PICK to \in {"pop", "exit"} :
         /\ pc' = [pc EXCEPT ![Main] = to]
         /\ pc[Main] \in {"join", "popped"}
         /\ \A t \in Workers : pc[t] = "done"
         /\ to = "exit" => pc[Main] = "popped" /\ node[Main] = NULL
         /\ \/ node' = node /\ node[Main] = NULL
            \/ node' = [node EXCEPT ![Main] = NULL]
  BY <1>1 DEF MainStep, Join, PrintTotals, CountLeftover, MainInv, Hands
<1>4. TypeOK'
  <2>1. pc' \in [Actors -> Points] /\ node' \in [Actors -> Nodes \cup {NULL}]
    BY <1>1, <1>2, <1>3 DEF TypeOK, HarnessTypeOK
  <2>2. /\ UNCHANGED <<timeup, pushcount, popcount, totalpushcount, totalpopcount>>
        /\ mypopcount' \in Nat
    BY <1>1 DEF TypeOK, HarnessTypeOK, MainStep, Join, PrintTotals, CountLeftover
  <2>3. QED
    BY <1>1, <2>1, <2>2 DEF TypeOK, HarnessTypeOK, LinkTypeOK, Points
<1>5. HeapKeeps \/ HeapDrops
  BY <1>3 DEF HeapKeeps, HeapDrops
<1>6. Hands'
  BY <1>1, <1>3 DEF Hands, TypeOK, HarnessTypeOK
<1>7. MainInv'
  BY <1>1, <1>3 DEF MainInv
<1>8. QED
  BY <1>4, <1>5, <1>6, <1>7 DEF Kept, HeapStep

LEMMA InvStep == Inv /\ [Next]_vars => Inv'
<1> SUFFICES ASSUME Inv, [Next]_vars PROVE Inv'
  OBVIOUS
<1>1. CASE UNCHANGED vars
  <2>1. TypeOK'
    BY <1>1 DEF Inv, TypeOK, HarnessTypeOK, LinkTypeOK, vars, harnessVars, linkVars, elimVars
  <2>2. HeapKeeps
    BY <1>1 DEF vars, harnessVars, HeapKeeps
  <2>3. Hands' /\ MainInv'
    BY <1>1 DEF Inv, Hands, MainInv, vars, harnessVars, linkVars, elimVars
  <2>4. QED
    BY <2>1, <2>2, <2>3, HeapStays DEF Inv, HeapStep
<1>2. CASE Kept
  BY <1>2, HeapStays DEF Kept, Inv
<1>3. ASSUME NEW t \in Workers, Worker(t)
      PROVE  Kept
  BY <1>3, HarnessKeeps, AllocateKeeps, PushKeeps, PopKeeps, VisitKeeps, Threads
  DEF Worker
<1>4. ASSUME MainThread
      PROVE  Kept
  BY <1>4, MainKeeps, PopKeeps, Threads DEF MainThread
<1>5. ASSUME NEW t \in Workers, NEW u \in Workers, Meet(t, u), UNCHANGED reg
      PROVE  Kept
  BY <1>5, MeetKeeps
<1>6. QED
  BY <1>1, <1>2, <1>3, <1>4, <1>5 DEF Next

\* The invariant holds in every state of the program.
THEOREM Invariance == Spec => []Inv
  BY InvInit, InvStep, PTL DEF Spec

\* TypeOK of EliminationTest: the variables of worker(), main() and the
\* elimination stack keep their types, whatever the ranges are doubled to and
\* whoever meets whom: no push() writes through NULL, and no trypop() reads the
\* next of it.
THEOREM TypeCorrect == Spec => []TypeOK
<1>1. Inv => TypeOK
  BY DEF Inv
<1>2. QED
  BY <1>1, Invariance, PTL

-----------------------------------------------------------------------------
(* It implements the stack on which operations may meet *)

LEMMA StackGoto ==
  ASSUME Inv, NEW a \in Actors, NEW from, NEW to
  PROVE  /\ Stack!Running <=> pc[Main] # "exit"
         /\ Stack!Goto(a, from, to) <=> pc[Main] # "exit" /\ AbsMoves(a, from, to)
<1>1. /\ Stack!Goto(a, from, to) <=> Stack!Running /\ AbsMoves(a, from, to)
      /\ Stack!Running <=> AbsPC[Main] \notin {"exit", "aborted"}
  BY DEF Stack!Goto, Stack!Running, Stack!Main, Main, AbsPC, AbsMoves
<1>2. AbsPC[Main] \notin {"exit", "aborted"} <=> pc[Main] # "exit"
  BY Threads, AbsIs DEF Inv, MainInv, OpPoints
<1>3. QED
  BY <1>1, <1>2

\* Between the operations, an actor moves as in the harness of the stack.
LEMMA HarnessGoes ==
  ASSUME Inv, NEW a \in Actors, NEW from, NEW to, Goto(a, from, to),
         from \notin OpPoints, to \notin OpPoints,
         \A b \in Actors : b # a => node'[b] = node[b]
  PROVE  Stack!Goto(a, from, to) /\ AbsMoves(a, from, to)
<1>1. /\ pc \in [Actors -> Points]
      /\ pc[Main] # "exit" /\ pc[a] = from /\ pc' = [pc EXCEPT ![a] = to]
  BY DEF Goto, Running, Inv, TypeOK, HarnessTypeOK, Points
<1>2. AbsPC[a] = from /\ AbsPC'[a] = to
  BY <1>1, AbsIs, AbsIsNext
<1>3. AbsPC' = [AbsPC EXCEPT ![a] = AbsPC'[a]]
  BY <1>1, AbsGoes
<1>4. QED
  BY <1>1, <1>2, <1>3, StackGoto DEF AbsMoves

LEMMA HarnessIsStack ==
  ASSUME Inv, NEW t \in Workers, OneWorkerStep(t), UNCHANGED <<linkVars, elimVars>>
  PROVE  Stack!NextOne
<1> USE Threads DEF OpPoints, StackStep, linkVars, countVars, Stack!StackStep,
                    Stack!countVars
<1>1. node \in [Actors -> Nodes \cup {NULL}] /\ contents' = contents /\ t \in Actors
  BY DEF Inv, TypeOK, HarnessTypeOK
<1> SUFFICES Stack!OneWorkerStep(t)
  BY <1>1 DEF Stack!NextOne, Stack!Workers, Workers
<1>2. CASE (Start(t) \/ BeginPop(t)) /\ UNCHANGED reg
  BY <1>1, <1>2, HarnessGoes
  DEF Start, BeginPop, Stack!Start, Stack!BeginPop, Stack!OneWorkerStep
<1>3. CASE NextOp(t) \/ LastOp(t)
  BY <1>1, <1>3, HarnessGoes
  DEF NextOp, LastOp, i, Stack!NextOp, Stack!LastOp, Stack!i, Stack!OneWorkerStep
<1>4. CASE LoadPushTotal(t) \/ LoadPopTotal(t)
  BY <1>1, <1>4, HarnessGoes
  DEF LoadPushTotal, LoadPopTotal, Stack!LoadPushTotal, Stack!LoadPopTotal,
      Stack!OneWorkerStep
<1>5. CASE StorePushTotal(t) \/ StorePopTotal(t)
  BY <1>1, <1>5, HarnessGoes
  DEF StorePushTotal, StorePopTotal,
      Stack!StorePushTotal, Stack!StorePopTotal, Stack!OneWorkerStep
<1>6. CASE (CountPush(t) \/ CountPop(t)) /\ UNCHANGED reg
  BY <1>1, <1>6, HarnessGoes
  DEF CountPush, CountPop, Stack!CountPush, Stack!CountPop, Stack!OneWorkerStep
<1>7. QED
  BY <1>2, <1>3, <1>4, <1>5, <1>6 DEF OneWorkerStep

LEMMA MainIsStack ==
  ASSUME Inv, MainStep \/ CountLeftover, UNCHANGED <<linkVars, elimVars, reg>>
  PROVE  Stack!NextOne
<1> USE Threads DEF OpPoints, StackStep, linkVars, countVars, Stack!StackStep,
                    Stack!countVars, Stack!Main, Main
<1>1. node \in [Actors -> Nodes \cup {NULL}] /\ contents' = contents
  BY DEF Inv, TypeOK, HarnessTypeOK
<1> SUFFICES Stack!MainStep \/ Stack!CountLeftover
  BY <1>1 DEF Stack!NextOne, Stack!MainThread
<1>2. CASE Join
  <2>1. \A t \in Workers : AbsPC[t] = "done"
    BY <1>2, AbsIs DEF Join
  <2>2. Stack!Goto(Main, "join", "pop")
    BY <1>2, HarnessGoes DEF Join
  <2>3. QED
    BY <1>2, <2>1, <2>2 DEF Join, Stack!Join, Stack!MainStep, Stack!Workers,
                            Workers, AbsPC
<1>3. CASE PrintTotals
  BY <1>3, HarnessGoes DEF PrintTotals, Stack!PrintTotals, Stack!MainStep
<1>4. CASE CountLeftover
  BY <1>1, <1>4, HarnessGoes DEF CountLeftover, Stack!CountLeftover
<1>5. QED
  BY <1>2, <1>3, <1>4 DEF MainStep

\* The node that new returns is not on the stack and in nobody's hands.
LEMMA AllocateIsStack ==
  ASSUME Inv, NEW t \in Workers, Allocate(t)
  PROVE  Stack!NextOne
<1> USE Threads DEF OpPoints, countVars, Stack!countVars, BeginPush
<1>1. PICK n \in Nodes : New(t, n) /\ reg' = reg
  BY DEF Allocate
<1>2. /\ node \in [Actors -> Nodes \cup {NULL}] /\ contents \in Seq(Nodes)
      /\ contents' = contents /\ n \in free /\ t \in Actors
  BY <1>1 DEF New, Inv, Heap, LinkTypeOK
<1>3. n \notin Stack!OnStack
  BY <1>2 DEF Inv, Heap, Owned, Stack!OnStack
<1>4. \A a \in Actors : node[a] # n
  BY <1>2, StackTestAssumption DEF Inv, Heap, Owned
<1>5. Stack!BeginPush(t, n)
  BY <1>1, <1>2, HarnessGoes DEF New, Stack!BeginPush
<1>6. Stack!Allocate(t)
  BY <1>2, <1>3, <1>4, <1>5 DEF Stack!Allocate, Stack!Actors, Actors
<1>7. QED
  BY <1>1, <1>6 DEF Stack!NextOne, Stack!Workers, Workers

LEMMA OpIsStack ==
  ASSUME Inv, AbsOp, UNCHANGED <<countVars, reg>>
  PROVE  [Stack!NextOne]_(Stack!allVars)
<1> USE Threads DEF Stack!Workers, Workers, countVars, Stack!countVars
<1>1. ASSUME NEW a \in Actors, AbsPC[a] \in {"push", "pop"}
      PROVE  pc[Main] # "exit"
  BY <1>1, AbsIs DEF Inv, MainInv, OpPoints
<1>2. ASSUME NEW a \in Actors, AbsPushes(a)
      PROVE  Stack!NextOne
  <2>1. Stack!Goto(a, "push", "pushed")
    BY <1>1, <1>2, StackGoto DEF AbsPushes, AbsMoves
  <2>2. Stack!Push(a)
    BY <1>2, <2>1 DEF AbsPushes, Stack!Push, Stack!PushReturns
  <2>3. QED
    BY <1>2, <2>2 DEF AbsPushes, Stack!NextOne
<1>3. ASSUME NEW a \in Actors, AbsPops(a) \/ AbsFindsNone(a)
      PROVE  Stack!NextOne
  <2>1. Stack!Goto(a, "pop", "popped")
    BY <1>1, <1>3, StackGoto DEF AbsPops, AbsFindsNone, AbsMoves
  <2>2. Stack!Pop(a)
    BY <1>3, <2>1 DEF AbsPops, AbsFindsNone, Stack!Pop, Stack!PopReturns
  <2>3. QED
    BY <2>2 DEF Stack!NextOne, Stack!MainThread, Stack!Main, Main
<1>4. ASSUME NEW a \in Workers, NEW b \in Workers, AbsMeets(a, b)
      PROVE  Stack!NextOne
  <2>1. Stack!Running
    BY <1>1, <1>4, StackGoto DEF AbsMeets
  <2>2. node \in [Actors -> Nodes \cup {NULL}]
    BY DEF Inv, TypeOK, HarnessTypeOK
  <2>3. CASE AbsPC[b] = "push" /\ AbsPC' = AbsPC
    <3>1. Stack!SwapNodes(a, b)
      BY <1>4, <2>1, <2>3 DEF AbsMeets, AbsPC, Stack!SwapNodes
    <3>2. QED
      BY <3>1 DEF Stack!NextOne
  <2>4. CASE /\ AbsPC[b] = "pop" /\ node[b] = NULL
             /\ AbsPC' = [AbsPC EXCEPT ![a] = "pushed", ![b] = "popped"]
    <3>1. node' = [node EXCEPT ![a] = NULL, ![b] = node[a]]
      BY <1>4, <2>4 DEF AbsMeets
    <3>2. Stack!HandOver(a, b)
      BY <1>4, <2>1, <2>4, <3>1 DEF AbsMeets, AbsPC, Stack!HandOver
    <3>3. QED
      BY <3>2 DEF Stack!NextOne
  <2>5. QED
    BY <1>4, <2>3, <2>4 DEF AbsMeets
<1>5. CASE AbsStays
  BY <1>5 DEF AbsStays, AbsPC, Stack!allVars, Stack!vars, Stack!harnessVars
<1>6. QED
  BY <1>2, <1>3, <1>4, <1>5 DEF AbsOp

LEMMA StackInitOne == Init => Stack!InitOne
<1> SUFFICES ASSUME Init PROVE Stack!InitOne
  OBVIOUS
<1> USE Threads DEF Init, HarnessInit, StackInit, LinkInit, OneInit
<1>1. \A a \in Actors : AbsPC[a] = IF a = Main THEN "join" ELSE "start"
  BY AbsIs DEF OpPoints
<1>2. AbsPC = [a \in Actors |-> IF a = Main THEN "join" ELSE "start"]
  BY <1>1 DEF AbsPC
<1>3. QED
  BY <1>2
  DEF AbsPC, Stack!InitOne, Stack!OneInit, Stack!Init, Stack!HarnessInit,
      Stack!Actors, Actors, Stack!Workers, Workers, Stack!Main, Main

\* ImplementsStack of EliminationTest: with the elimination array in between,
\* push() and pop() still act at one moment of the call each, on one stack or,
\* two that meet, on each other: the compare-and-swap that succeeds, the look of
\* pop() that finds nothing, or the meeting.
THEOREM Refinement == Spec => ImplementsStack
<1>1. Inv /\ [Next]_vars => [Stack!NextOne]_(Stack!allVars)
  <2> SUFFICES ASSUME Inv, [Next]_vars
               PROVE  [Stack!NextOne]_(Stack!allVars)
    OBVIOUS
  <2>1. CASE UNCHANGED vars
    BY <2>1
    DEF vars, harnessVars, linkVars, Stack!allVars, Stack!vars, Stack!harnessVars,
        OpPoint
  <2>2. ASSUME NEW t \in Workers, Worker(t)
        PROVE  [Stack!NextOne]_(Stack!allVars)
    BY <2>2, HarnessIsStack, AllocateIsStack, PushKeeps, PopKeeps, VisitKeeps,
       OpIsStack, Threads
    DEF Worker
  <2>3. CASE MainThread
    BY <2>3, MainIsStack, PopKeeps, OpIsStack, Threads DEF MainThread
  <2>4. ASSUME NEW t \in Workers, NEW u \in Workers, Meet(t, u), UNCHANGED reg
        PROVE  [Stack!NextOne]_(Stack!allVars)
    BY <2>4, MeetKeeps, OpIsStack
  <2>5. QED
    BY <2>1, <2>2, <2>3, <2>4 DEF Next
<1>2. QED
  BY <1>1, StackInitOne, Invariance, PTL DEF Spec, ImplementsStack, Stack!SpecOne

-----------------------------------------------------------------------------
(* What main() adds up.  A number that a thread has counted is a pair of    *)
(* the thread and a number, as in LifoStack_proofs                          *)

\* What the threads of W have counted: the k-th of each, from 0.
Counted(W, f) == {x \in W \X Nat : x[2] < f[x[1]]}

\* Counting once more is one more pair.
LEMMA CountOne ==
  ASSUME NEW W, NEW f \in [W -> Nat], NEW t \in W,
         IsFiniteSet(Counted(W, f))
  PROVE  LET g == [f EXCEPT ![t] = @ + 1]
         IN  /\ IsFiniteSet(Counted(W, g))
             /\ Cardinality(Counted(W, g)) = Cardinality(Counted(W, f)) + 1
<1> DEFINE g == [f EXCEPT ![t] = @ + 1]
<1>1. Counted(W, g) = Counted(W, f) \cup {<<t, f[t]>>}
  <2>1. ASSUME NEW u \in W, NEW k \in Nat
        PROVE  k < g[u] <=> k < f[u] \/ (u = t /\ k = f[t])
    OBVIOUS
  <2>2. f[t] \in Nat
    OBVIOUS
  <2>3. \A x \in W \X Nat : x[2] < g[x[1]] <=> x[2] < f[x[1]] \/ x = <<t, f[t]>>
    BY <2>1
  <2>4. <<t, f[t]>> \in W \X Nat
    BY <2>2
  <2> HIDE DEF g
  <2>5. QED
    BY <2>3, <2>4 DEF Counted
<1>2. <<t, f[t]>> \notin Counted(W, f)
  BY DEF Counted
<1>3. /\ IsFiniteSet(Counted(W, f) \cup {<<t, f[t]>>})
      /\ Cardinality(Counted(W, f) \cup {<<t, f[t]>>}) = Cardinality(Counted(W, f)) + 1
  BY <1>2, FS_AddElement
<1>4. QED
  BY <1>1, <1>3

\* A thread's count is the number of its pairs.
LEMMA CountThread ==
  ASSUME NEW W, NEW V, NEW f \in [W -> Nat], NEW t \in W, t \notin V,
         V \subseteq W, IsFiniteSet(Counted(V, f))
  PROVE  Cardinality(Counted(V \cup {t}, f))
         = Cardinality(Counted(V, f)) + f[t]
<1> DEFINE P == {t} \X (0 .. f[t]-1)
<1>1. f[t] \in Nat
  OBVIOUS
<1>2. IsFiniteSet(P) /\ Cardinality(P) = f[t]
  <2>1. IsFiniteSet(0 .. f[t]-1) /\ Cardinality(0 .. f[t]-1) = f[t]
    BY <1>1, FS_Interval
  <2>2. IsFiniteSet({t}) /\ Cardinality({t}) = 1
    BY FS_Singleton
  <2>3. QED
    BY <1>1, <2>1, <2>2, FS_Product
<1>3. Counted(V \cup {t}, f) = Counted(V, f) \cup P
  <2>1. \A k \in Nat : k < f[t] <=> k \in 0 .. f[t]-1
    BY <1>1
  <2>2. QED
    BY <2>1 DEF Counted
<1>4. Counted(V, f) \cap P = {}
  BY DEF Counted
<1>5. Cardinality(Counted(V, f)) \in Nat
  BY FS_CardinalityType
<1>6. Cardinality(Counted(V, f) \cup P)
      = Cardinality(Counted(V, f)) + Cardinality(P) - Cardinality(Counted(V, f) \cap P)
  BY <1>2, FS_Union
<1>7. Cardinality(Counted(V, f) \cap P) = 0
  BY <1>4, FS_EmptySet
<1>8. Cardinality(Counted(V \cup {t}, f)) = Cardinality(Counted(V, f) \cup P)
  BY <1>3
<1> HIDE DEF P
<1>9. QED
  BY <1>1, <1>2, <1>5, <1>6, <1>7, <1>8

LEMMA CountedSubset ==
  ASSUME NEW W, NEW V \in SUBSET W, NEW f, IsFiniteSet(Counted(W, f))
  PROVE  /\ IsFiniteSet(Counted(V, f))
         /\ Cardinality(Counted(V, f)) \in Nat
<1>1. Counted(V, f) \in SUBSET Counted(W, f)
  BY DEF Counted
<1>2. QED
  BY <1>1, FS_Subset, FS_CardinalityType

\* What SumFunction adds up, one element after the other.
Adds(g, f, W) ==
  g = [s \in SUBSET W |->
         IF s = {} THEN 0 ELSE f[CHOOSE x \in s : TRUE] + g[s \ {CHOOSE x \in s : TRUE}]]

LEMMA SumIs ==
  ASSUME NEW W, NEW f, DOMAIN f = W
  PROVE  SumFunction(f) = (CHOOSE g : Adds(g, f, W))[W]
  BY DEF SumFunction, SumFunctionOnSet, FoldFunctionOnSet, MapThenFoldSet, Adds

LEMMA SumIsCount ==
  ASSUME NEW W, IsFiniteSet(W), NEW f \in [W -> Nat], IsFiniteSet(Counted(W, f))
  PROVE  SumFunction(f) = Cardinality(Counted(W, f))
<1> DEFINE c == [s \in SUBSET W |-> Cardinality(Counted(s, f))]
<1>1. /\ c[{}] = 0
      /\ \A s \in SUBSET W : \A x \in s : c[s] = f[x] + c[s \ {x}]
  <2>1. Counted({}, f) = {}
    BY DEF Counted
  <2>2. c[{}] = 0
    BY <2>1, FS_EmptySet
  <2>3. ASSUME NEW s \in SUBSET W, NEW x \in s
        PROVE  c[s] = f[x] + c[s \ {x}]
    <3>1. PICK r \in SUBSET W : r = s \ {x}
      OBVIOUS
    <3>2. x \in W /\ x \notin r /\ r \subseteq W /\ r \cup {x} = s
      BY <3>1
    <3>3. IsFiniteSet(Counted(r, f)) /\ Cardinality(Counted(r, f)) \in Nat
      BY CountedSubset
    <3>4. Cardinality(Counted(r \cup {x}, f)) = Cardinality(Counted(r, f)) + f[x]
      BY <3>2, <3>3, CountThread
    <3>5. f[x] \in Nat
      BY <3>2
    <3>6. c[s] = Cardinality(Counted(r \cup {x}, f)) /\ c[r] = Cardinality(Counted(r, f))
      BY <3>2
    <3>7. c[s] = f[x] + c[r]
      BY <3>3, <3>4, <3>5, <3>6
    <3>8. QED
      BY <3>1, <3>7
  <2>4. QED
    BY <2>2, <2>3
<1>2. Adds(c, f, W)
  <2> SUFFICES ASSUME NEW s \in SUBSET W
        PROVE  c[s] = IF s = {} THEN 0
                      ELSE f[CHOOSE x \in s : TRUE] + c[s \ {CHOOSE x \in s : TRUE}]
    BY DEF Adds
  <2> HIDE DEF c
  <2>1. CASE s # {}
    <3>1. (CHOOSE x \in s : TRUE) \in s
      BY <2>1
    <3>2. QED
      BY <1>1, <2>1, <3>1
  <2>2. QED
    BY <1>1, <2>1
<1>3. ASSUME NEW g, Adds(g, f, W)
      PROVE  g[W] = c[W]
  <2> DEFINE Wrong == {s \in SUBSET W : g[s] # c[s]}
             T == {Cardinality(s) : s \in Wrong}
             R == OpToRel(<, Nat)
  <2> SUFFICES ASSUME g[W] # c[W] PROVE FALSE
    OBVIOUS
  <2>1. \A s \in SUBSET W : IsFiniteSet(s) /\ Cardinality(s) \in Nat
    BY FS_Subset, FS_CardinalityType
  <2>2. W \in Wrong
    OBVIOUS
  <2>3. T \subseteq Nat /\ T # {}
    BY <2>1, <2>2
  <2>4. PICK m \in T : \A n \in T : <<n, m>> \notin R
    <3>1. IsWellFoundedOn(R, Nat)
      BY NatLessThanWellFounded
    <3> HIDE DEF T, R
    <3>2. QED
      BY <2>3, <3>1, WFMin
  <2>5. PICK s \in Wrong : m = Cardinality(s)
    BY <2>4
  <2>6. g[s] = IF s = {} THEN 0
               ELSE f[CHOOSE x \in s : TRUE] + g[s \ {CHOOSE x \in s : TRUE}]
    BY <1>3 DEF Adds
  <2>7. s # {}
    BY <1>1, <2>5, <2>6
  <2>8. PICK x \in s : x = CHOOSE y \in s : TRUE
    BY <2>7
  <2> DEFINE r == s \ {x}
  <2>9. Cardinality(r) = Cardinality(s) - 1
    BY <2>1, FS_RemoveElement
  <2>10. r \in SUBSET W /\ Cardinality(r) \in Nat /\ Cardinality(s) \in Nat
    BY <2>1
  <2>11. r \notin Wrong
    <3> SUFFICES ASSUME r \in Wrong PROVE FALSE
      OBVIOUS
    <3>1. Cardinality(r) \in T
      BY Zenon
    <3>2. ~(Cardinality(r) < m)
      BY <2>3, <2>4, <3>1 DEF OpToRel
    <3>3. QED
      BY <2>5, <2>9, <2>10, <3>2
  <2>12. g[r] = c[r]
    BY <2>10, <2>11
  <2>13. g[s] = c[s]
    <3> HIDE DEF c
    <3>1. QED
      BY <1>1, <2>6, <2>7, <2>8, <2>12
  <2>14. QED
    BY <2>13
<1>4. Adds(CHOOSE g : Adds(g, f, W), f, W)
  BY <1>2
<1>5. SumFunction(f) = c[W]
  <2>1. SumFunction(f) = (CHOOSE g : Adds(g, f, W))[W]
    BY SumIs
  <2> HIDE DEF c
  <2>2. QED
    BY <1>3, <1>4, <2>1
<1>6. QED
  BY <1>5

-----------------------------------------------------------------------------
(* Every push is matched by one pop *)

\* Pushes and pops that have happened, and whose caller has yet to count them.
PushedNow == {t \in Workers : AbsPC[t] = "pushed"}
PoppedNow == {a \in Actors : AbsPC[a] = "popped" /\ node[a] # NULL}

\* Counted and to be counted, as many pushes as pops and nodes on the stack:
\* whether a node went over the stack or from hand to hand.
Matched ==
  /\ IsFiniteSet(Counted(Workers, pushcount))
  /\ IsFiniteSet(Counted(Workers, popcount))
  /\ Cardinality(Counted(Workers, pushcount)) + Cardinality(PushedNow)
     = Cardinality(Counted(Workers, popcount)) + Cardinality(PoppedNow)
       + mypopcount + Len(contents)

LEMMA Numbers ==
  /\ IsFiniteSet(PushedNow) /\ Cardinality(PushedNow) \in Nat
  /\ IsFiniteSet(PoppedNow) /\ Cardinality(PoppedNow) \in Nat
  /\ Inv => mypopcount \in Nat /\ Len(contents) \in Nat
  /\ Matched => /\ Cardinality(Counted(Workers, pushcount)) \in Nat
                /\ Cardinality(Counted(Workers, popcount)) \in Nat
<1>1. PushedNow \in SUBSET Workers /\ PoppedNow \in SUBSET Actors
  BY DEF PushedNow, PoppedNow
<1>2. IsFiniteSet(PushedNow) /\ IsFiniteSet(PoppedNow)
  BY <1>1, Threads, FS_Subset
<1>3. Inv => mypopcount \in Nat /\ Len(contents) \in Nat
  BY DEF Inv, TypeOK, HarnessTypeOK, LinkTypeOK
<1>4. QED
  BY <1>2, <1>3, FS_CardinalityType DEF Matched

\* The pushes and pops of a step, and the nodes that main counts.
LEMMA MatchedStep ==
  ASSUME Inv, Matched, UNCHANGED <<pushcount, popcount>>,
         NEW j \in Nat, NEW k \in Nat, NEW d \in Nat,
         Cardinality(PushedNow)' = Cardinality(PushedNow) + j,
         Cardinality(PoppedNow)' = Cardinality(PoppedNow) + k - d,
         mypopcount' = mypopcount + d,
         Len(contents') = Len(contents) + j - k
  PROVE  Matched'
<1>1. Counted(Workers, pushcount)' = Counted(Workers, pushcount)
      /\ Counted(Workers, popcount)' = Counted(Workers, popcount)
  BY DEF Counted
<1> DEFINE p == Cardinality(Counted(Workers, pushcount))
           q == Cardinality(Counted(Workers, popcount))
           m == Cardinality(PushedNow)
           n == Cardinality(PoppedNow)
<1>2. /\ p \in Nat /\ q \in Nat /\ m \in Nat /\ n \in Nat
      /\ mypopcount \in Nat /\ Len(contents) \in Nat
      /\ p + m = q + n + mypopcount + Len(contents)
  BY Numbers DEF Matched
<1>3. p' = p /\ q' = q /\ m' = m + j /\ n' = n + k - d
  BY <1>1
<1>4. Matched' <=> p' + m' = q' + n' + mypopcount' + Len(contents')
  BY <1>1 DEF Matched
<1> HIDE DEF p, q, m, n
<1>5. QED
  BY <1>2, <1>3, <1>4

\* A step that neither pushes nor pops nor counts.
LEMMA MatchedStays ==
  ASSUME Inv, Matched, UNCHANGED <<pushcount, popcount, mypopcount, contents>>,
         PushedNow' = PushedNow, PoppedNow' = PoppedNow
  PROVE  Matched'
<1>1. /\ Cardinality(PushedNow)' = Cardinality(PushedNow) + 0
      /\ Cardinality(PoppedNow)' = Cardinality(PoppedNow) + 0 - 0
      /\ mypopcount' = mypopcount + 0
      /\ Len(contents') = Len(contents) + 0 - 0
  BY Numbers
<1>2. QED
  BY <1>1, MatchedStep

\* One actor moves, and has neither pushed nor popped before or after.
LEMMA NobodyPushesOrPops ==
  ASSUME NEW a \in Actors, NEW from, NEW to, AbsMoves(a, from, to),
         from # "pushed", to \notin {"pushed", "popped"},
         from = "popped" => node[a] = NULL,
         \A b \in Actors : b # a => node'[b] = node[b]
  PROVE  PushedNow' = PushedNow /\ PoppedNow' = PoppedNow
<1>1. /\ AbsPC[a] = from /\ AbsPC'[a] = to
      /\ \A b \in Actors : b # a => AbsPC'[b] = AbsPC[b]
  BY DEF AbsMoves, AbsPC
<1>2. PushedNow' = PushedNow
  BY <1>1, Threads DEF PushedNow
<1>3. PoppedNow' = PoppedNow
  BY <1>1 DEF PoppedNow
<1>4. QED
  BY <1>2, <1>3

LEMMA OpMatches ==
  ASSUME Inv, Matched, AbsOp, UNCHANGED countVars
  PROVE  Matched'
<1> USE Threads DEF countVars
<1>1. /\ node \in [Actors -> Nodes \cup {NULL}] /\ contents \in Seq(Nodes)
      /\ AbsPC = [a \in Actors |-> AbsPC[a]]
  BY DEF Inv, Heap, LinkTypeOK, AbsPC
<1>2. CASE AbsStays
  BY <1>2, MatchedStays DEF AbsStays, PushedNow, PoppedNow
<1>3. ASSUME NEW a \in Actors, AbsPushes(a)
      PROVE  Matched'
  <2>1. node[a] \in Nodes /\ contents' = <<node[a]>> \o contents
    BY <1>1, <1>3 DEF AbsPushes
  <2>2. Len(contents') = Len(contents) + 1
    BY <1>1, <2>1, ConsIs
  <2>3. PushedNow' = PushedNow \cup {a} /\ a \notin PushedNow
    BY <1>1, <1>3 DEF AbsPushes, AbsMoves, PushedNow
  <2>4. PoppedNow' = PoppedNow
    BY <1>1, <1>3 DEF AbsPushes, AbsMoves, PoppedNow
  <2>5. Cardinality(PushedNow \cup {a}) = Cardinality(PushedNow) + 1
    BY <2>3, Numbers, FS_AddElement
  <2>6. QED
    <3>1. /\ Cardinality(PushedNow)' = Cardinality(PushedNow) + 1
          /\ Cardinality(PoppedNow)' = Cardinality(PoppedNow) + 0 - 0
          /\ mypopcount' = mypopcount + 0
          /\ Len(contents') = Len(contents) + 1 - 0
      BY <2>2, <2>3, <2>4, <2>5, Numbers
    <3>2. QED
      BY <3>1, MatchedStep
<1>4. ASSUME NEW a \in Actors, AbsPops(a)
      PROVE  Matched'
  <2>1. Head(contents) \in Nodes /\ Len(contents') = Len(contents) - 1
    BY <1>1, <1>4, TailIs DEF AbsPops
  <2>2. PushedNow' = PushedNow
    BY <1>1, <1>4 DEF AbsPops, AbsMoves, PushedNow
  <2>3. PoppedNow' = PoppedNow \cup {a} /\ a \notin PoppedNow
    BY <1>1, <1>4, <2>1, StackTestAssumption DEF AbsPops, AbsMoves, PoppedNow
  <2>4. Cardinality(PoppedNow \cup {a}) = Cardinality(PoppedNow) + 1
    BY <2>3, Numbers, FS_AddElement
  <2>5. QED
    <3>1. /\ Cardinality(PushedNow)' = Cardinality(PushedNow) + 0
          /\ Cardinality(PoppedNow)' = Cardinality(PoppedNow) + 1 - 0
          /\ mypopcount' = mypopcount + 0
          /\ Len(contents') = Len(contents) + 0 - 1
      BY <2>1, <2>2, <2>3, <2>4, Numbers
    <3>2. QED
      BY <3>1, MatchedStep
<1>5. ASSUME NEW a \in Actors, AbsFindsNone(a)
      PROVE  Matched'
  <2>1. PushedNow' = PushedNow /\ PoppedNow' = PoppedNow
    BY <1>1, <1>5 DEF AbsFindsNone, AbsMoves, PushedNow, PoppedNow
  <2>2. QED
    BY <1>5, <2>1, MatchedStays DEF AbsFindsNone
<1>6. ASSUME NEW a \in Workers, NEW b \in Workers, AbsMeets(a, b)
      PROVE  Matched'
  <2>1. CASE AbsPC[b] = "push" /\ AbsPC' = AbsPC
    <3>1. PushedNow' = PushedNow /\ PoppedNow' = PoppedNow
      BY <1>1, <1>6, <2>1 DEF AbsMeets, PushedNow, PoppedNow
    <3>2. QED
      BY <1>6, <3>1, MatchedStays DEF AbsMeets
  <2>2. CASE /\ AbsPC[b] = "pop" /\ node[b] = NULL
             /\ AbsPC' = [AbsPC EXCEPT ![a] = "pushed", ![b] = "popped"]
    <3>1. PushedNow' = PushedNow \cup {a} /\ a \notin PushedNow
      BY <1>1, <1>6, <2>2 DEF AbsMeets, PushedNow
    <3>2. PoppedNow' = PoppedNow \cup {b} /\ b \notin PoppedNow
      BY <1>1, <1>6, <2>2 DEF AbsMeets, PoppedNow
    <3>3. /\ Cardinality(PushedNow \cup {a}) = Cardinality(PushedNow) + 1
          /\ Cardinality(PoppedNow \cup {b}) = Cardinality(PoppedNow) + 1
      BY <3>1, <3>2, Numbers, FS_AddElement
    <3>4. /\ Cardinality(PushedNow)' = Cardinality(PushedNow) + 1
          /\ Cardinality(PoppedNow)' = Cardinality(PoppedNow) + 1 - 0
          /\ mypopcount' = mypopcount + 0
          /\ Len(contents') = Len(contents) + 1 - 1
      BY <1>6, <3>1, <3>2, <3>3, Numbers DEF AbsMeets
    <3>5. QED
      BY <3>4, MatchedStep
  <2>3. QED
    BY <1>6, <2>1, <2>2 DEF AbsMeets
<1>7. QED
  BY <1>2, <1>3, <1>4, <1>5, <1>6 DEF AbsOp

\* pushcount++ and popcount++ count what has happened.
LEMMA CountMatches ==
  ASSUME Inv, Matched, NEW t \in Workers, CountPush(t) \/ CountPop(t),
         contents' = contents
  PROVE  Matched'
<1> USE Threads DEF OpPoints
<1>1. /\ node \in [Actors -> Nodes \cup {NULL}]
      /\ pushcount \in [Workers -> Nat] /\ popcount \in [Workers -> Nat]
      /\ AbsPC = [a \in Actors |-> AbsPC[a]] /\ t \in Actors
  BY DEF Inv, TypeOK, HarnessTypeOK, AbsPC
<1> DEFINE p == Cardinality(Counted(Workers, pushcount))
           q == Cardinality(Counted(Workers, popcount))
           m == Cardinality(PushedNow)
           n == Cardinality(PoppedNow)
<1>2. /\ p \in Nat /\ q \in Nat /\ m \in Nat /\ n \in Nat
      /\ mypopcount \in Nat /\ Len(contents) \in Nat
      /\ p + m = q + n + mypopcount + Len(contents)
      /\ Matched' <=> /\ IsFiniteSet(Counted(Workers, pushcount)')
                      /\ IsFiniteSet(Counted(Workers, popcount)')
                      /\ p' + m' = q' + n' + mypopcount' + Len(contents')
  BY Numbers DEF Matched
<1>3. CASE CountPush(t)
  <2>1. AbsMoves(t, "pushed", "test") /\ node' = node
    BY <1>1, <1>3, HarnessGoes DEF CountPush
  <2>2. PushedNow' = PushedNow \ {t} /\ t \in PushedNow
    BY <1>1, <2>1 DEF AbsMoves, PushedNow
  <2>3. PoppedNow' = PoppedNow
    BY <1>1, <2>1 DEF AbsMoves, PoppedNow
  <2>4. m' = m - 1 /\ n' = n
    BY <2>2, <2>3, Numbers, FS_RemoveElement
  <2>5. IsFiniteSet(Counted(Workers, pushcount)') /\ p' = p + 1
    BY <1>1, <1>3, CountOne DEF CountPush, Matched
  <2>6. IsFiniteSet(Counted(Workers, popcount)') /\ q' = q /\ mypopcount' = mypopcount
    BY <1>3 DEF CountPush, Matched
  <2> HIDE DEF p, q, m, n
  <2>7. QED
    BY <1>2, <2>4, <2>5, <2>6
<1>4. CASE CountPop(t)
  <2>1. /\ AbsMoves(t, "popped", "test") /\ node' = [node EXCEPT ![t] = NULL]
        /\ pushcount' = pushcount /\ mypopcount' = mypopcount
    BY <1>1, <1>4, HarnessGoes DEF CountPop
  <2>2. PushedNow' = PushedNow
    BY <1>1, <2>1 DEF AbsMoves, PushedNow
  <2>3. IsFiniteSet(Counted(Workers, pushcount)') /\ p' = p /\ m' = m
    BY <2>1, <2>2 DEF Matched
  <2>4. CASE node[t] = NULL
    <3>1. popcount' = popcount /\ PoppedNow' = PoppedNow
      BY <1>1, <1>4, <2>1, <2>4 DEF CountPop, AbsMoves, PoppedNow
    <3>2. IsFiniteSet(Counted(Workers, popcount)') /\ q' = q /\ n' = n
      BY <3>1 DEF Matched
    <3> HIDE DEF p, q, m, n
    <3>3. QED
      BY <1>2, <2>1, <2>3, <3>2
  <2>5. CASE node[t] # NULL
    <3>1. PoppedNow' = PoppedNow \ {t} /\ t \in PoppedNow
      BY <1>1, <2>1, <2>5 DEF AbsMoves, PoppedNow
    <3>2. n' = n - 1
      BY <3>1, Numbers, FS_RemoveElement
    <3>3. popcount' = [popcount EXCEPT ![t] = @ + 1]
      BY <1>4, <2>5 DEF CountPop
    <3>4. IsFiniteSet(Counted(Workers, popcount)') /\ q' = q + 1
      BY <1>1, <3>3, CountOne DEF Matched
    <3> HIDE DEF p, q, m, n
    <3>5. QED
      BY <1>2, <2>1, <2>3, <3>2, <3>4
  <2>6. QED
    BY <2>4, <2>5
<1>5. QED
  BY <1>3, <1>4

\* The other steps of a worker between its operations.
LEMMA HarnessMatches ==
  ASSUME Inv, Matched, NEW t \in Workers, OneWorkerStep(t),
         UNCHANGED <<linkVars, elimVars>>
  PROVE  Matched'
<1> USE Threads DEF OpPoints, StackStep, countVars
<1>1. contents' = contents /\ t \in Actors
  BY DEF linkVars
<1>2. CASE CountPush(t) \/ CountPop(t)
  BY <1>1, <1>2, CountMatches
<1>3. CASE ~(CountPush(t) \/ CountPop(t))
  <2>1. PICK from \in {"start", "loop", "test", "total", "storepush", "totalpop",
                       "storepop"},
             to \in {"loop", "pop", "total", "storepush", "totalpop", "storepop",
                     "done"} :
          Goto(t, from, to) /\ UNCHANGED <<node, pushcount, popcount, mypopcount>>
    BY <1>3
    DEF OneWorkerStep, Start, BeginPop, NextOp, LastOp, LoadPushTotal, StorePushTotal,
        LoadPopTotal, StorePopTotal
  <2>2. AbsMoves(t, from, to)
    BY <1>1, <2>1, HarnessGoes
  <2>3. PushedNow' = PushedNow /\ PoppedNow' = PoppedNow
    BY <1>1, <2>1, <2>2, NobodyPushesOrPops
  <2>4. QED
    BY <1>1, <2>1, <2>3, MatchedStays
<1>4. QED
  BY <1>2, <1>3

LEMMA AllocateMatches ==
  ASSUME Inv, Matched, NEW t \in Workers, Allocate(t)
  PROVE  Matched'
<1>1. PICK n \in Nodes : New(t, n)
  BY DEF Allocate
<1>2. /\ node \in [Actors -> Nodes \cup {NULL}] /\ t \in Actors
      /\ Goto(t, "loop", "push") /\ node' = [node EXCEPT ![t] = n]
      /\ UNCHANGED <<pushcount, popcount, mypopcount, contents>>
  BY <1>1, Threads DEF New, BeginPush, countVars, Inv, Heap
<1>3. AbsMoves(t, "loop", "push")
  BY <1>2, HarnessGoes DEF OpPoints
<1>4. PushedNow' = PushedNow /\ PoppedNow' = PoppedNow
  BY <1>2, <1>3, NobodyPushesOrPops
<1>5. QED
  BY <1>2, <1>4, MatchedStays

LEMMA MainMatches ==
  ASSUME Inv, Matched, MainStep \/ CountLeftover,
         UNCHANGED <<linkVars, elimVars, reg>>
  PROVE  Matched'
<1> USE Threads DEF OpPoints, StackStep, countVars
<1>1. contents' = contents /\ node \in [Actors -> Nodes \cup {NULL}]
  BY DEF linkVars, Inv, Heap
<1>2. CASE MainStep
  <2>1. PICK from \in {"join", "popped"}, to \in {"pop", "exit"} :
          /\ Goto(Main, from, to) /\ UNCHANGED <<node, countVars>>
          /\ from = "popped" => node[Main] = NULL
    BY <1>2 DEF MainStep, Join, PrintTotals
  <2>2. AbsMoves(Main, from, to)
    BY <2>1, HarnessGoes
  <2>3. PushedNow' = PushedNow /\ PoppedNow' = PoppedNow
    BY <2>1, <2>2, NobodyPushesOrPops
  <2>4. QED
    BY <1>1, <2>1, <2>3, MatchedStays
<1>3. CASE CountLeftover
  <2>1. AbsMoves(Main, "popped", "pop")
    BY <1>1, <1>3, HarnessGoes DEF CountLeftover
  <2>2. PushedNow' = PushedNow
    BY <1>1, <1>3, <2>1 DEF AbsMoves, AbsPC, PushedNow
  <2>3. PoppedNow' = PoppedNow \ {Main} /\ Main \in PoppedNow
    BY <1>1, <1>3, <2>1 DEF CountLeftover, AbsMoves, AbsPC, PoppedNow
  <2>4. Cardinality(PoppedNow \ {Main}) = Cardinality(PoppedNow) - 1
    BY <2>3, Numbers, FS_RemoveElement
  <2>5. /\ Cardinality(PushedNow)' = Cardinality(PushedNow) + 0
        /\ Cardinality(PoppedNow)' = Cardinality(PoppedNow) + 0 - 1
        /\ mypopcount' = mypopcount + 1
        /\ Len(contents') = Len(contents) + 0 - 0
    BY <1>1, <1>3, <2>2, <2>3, <2>4, Numbers DEF CountLeftover
  <2>6. QED
    BY <1>3, <2>5, MatchedStep DEF CountLeftover
<1>4. QED
  BY <1>2, <1>3

LEMMA MatchedInit == Init => Matched
<1> SUFFICES ASSUME Init PROVE Matched
  OBVIOUS
<1>1. /\ pushcount = [t \in Workers |-> 0] /\ popcount = [t \in Workers |-> 0]
      /\ mypopcount = 0 /\ contents = << >>
      /\ \A a \in Actors : pc[a] \in {"join", "start"}
  BY DEF Init, HarnessInit, StackInit, LinkInit
<1>2. Counted(Workers, pushcount) = {} /\ Counted(Workers, popcount) = {}
  BY <1>1 DEF Counted
<1>3. PushedNow = {} /\ PoppedNow = {}
  BY <1>1, Threads, AbsIs DEF OpPoints, PushedNow, PoppedNow
<1>4. Len(contents) = 0
  BY <1>1
<1>5. QED
  BY <1>1, <1>2, <1>3, <1>4, FS_EmptySet DEF Matched

LEMMA MatchedNext == Inv /\ Matched /\ [Next]_vars => Matched'
<1> SUFFICES ASSUME Inv, Matched, [Next]_vars PROVE Matched'
  OBVIOUS
<1>1. CASE UNCHANGED vars
  BY <1>1, MatchedStays
  DEF vars, harnessVars, linkVars, PushedNow, PoppedNow, AbsPC, OpPoint
<1>2. ASSUME NEW t \in Workers, Worker(t)
      PROVE  Matched'
  BY <1>2, HarnessMatches, AllocateMatches, PushKeeps, PopKeeps, VisitKeeps,
     OpMatches, Threads
  DEF Worker
<1>3. CASE MainThread
  BY <1>3, MainMatches, PopKeeps, OpMatches, Threads DEF MainThread
<1>4. ASSUME NEW t \in Workers, NEW u \in Workers, Meet(t, u), UNCHANGED reg
      PROVE  Matched'
  BY <1>4, MeetKeeps, OpMatches
<1>5. QED
  BY <1>1, <1>2, <1>3, <1>4 DEF Next

\* Accounted of TestOne: when main is done, every push of a worker has been
\* matched by the pop of one node, by a worker or by main, although many of the
\* nodes never reached the stack, and others were pushed by another thread than
\* the one that had allocated them.
THEOREM EveryPushAccounted == Spec => []Accounted
<1>1. Inv /\ Matched => Accounted
  <2> SUFFICES ASSUME Inv, Matched, pc[Main] = "exit"
               PROVE  SumFunction(pushcount) = SumFunction(popcount) + mypopcount
    BY DEF Accounted
  <2>1. (\A t \in Workers : pc[t] = "done") /\ contents = << >>
    BY DEF Inv, MainInv
  <2>2. PushedNow = {} /\ PoppedNow = {}
    BY <2>1, Threads, AbsIs DEF PushedNow, PoppedNow, OpPoints
  <2>3. Cardinality(PushedNow) = 0 /\ Cardinality(PoppedNow) = 0 /\ Len(contents) = 0
    BY <2>1, <2>2, FS_EmptySet
  <2>4. /\ SumFunction(pushcount) = Cardinality(Counted(Workers, pushcount))
        /\ SumFunction(popcount) = Cardinality(Counted(Workers, popcount))
    BY Threads, SumIsCount DEF Matched, Inv, TypeOK, HarnessTypeOK
  <2>5. QED
    BY <2>3, <2>4, Numbers DEF Matched
<1>2. QED
  BY <1>1, Invariance, MatchedInit, MatchedNext, PTL DEF Spec

=============================================================================
