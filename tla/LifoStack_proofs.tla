-------------------------- MODULE LifoStack_proofs --------------------------
(***************************************************************************)
(* What the harness of project3 reports is right for every stack that      *)
(* implements LifoStack: the proof counts the pushes and the pops one by   *)
(* one, as pairs of a thread and a number.                                 *)
(***************************************************************************)
EXTENDS LifoStack, FiniteSetTheorems, TLAPS

\* What the threads of W have counted: the i-th of each, from 0.
Counted(W, f) == {x \in W \X Nat : x[2] < f[x[1]]}

Done == {t \in Workers : pc[t] = "done"}

\* Pushes and pops that have happened, and whose caller has yet to count them.
PushedNow == {t \in Workers : pc[t] = "pushed"}
PoppedNow == {a \in Actors : pc[a] = "popped" /\ node[a] # NULL}

\* main pops only once the workers are done, and until nothing is left.
MainInv ==
  /\ pc[Main] \in {"join", "pop", "popped", "exit"}
  /\ pc[Main] # "join" => Done = Workers
  /\ pc[Main] = "popped" /\ node[Main] = NULL => contents = << >>
  /\ pc[Main] = "exit" => contents = << >>

\* The totals are what the workers that are done have counted.
TotalsInv ==
  /\ IsFiniteSet(Counted(Workers, pushcount))
  /\ IsFiniteSet(Counted(Workers, popcount))
  /\ totalpushcount = Cardinality(Counted(Done, pushcount))
  /\ totalpopcount = Cardinality(Counted(Done, popcount))

\* No node is lost and none comes back twice: what was pushed was popped, or is
\* still on the stack.
BalanceInv ==
  Cardinality(Counted(Workers, pushcount)) + Cardinality(PushedNow)
  = Cardinality(Counted(Workers, popcount)) + Cardinality(PoppedNow)
    + mypopcount + Len(contents)

Inv == TypeOK /\ MainInv /\ TotalsInv /\ BalanceInv

-----------------------------------------------------------------------------
(* Counting *)

LEMMA Threads ==
  /\ Actors = Workers \cup {Main} /\ Main \notin Workers
  /\ IsFiniteSet(Workers) /\ IsFiniteSet(Actors)
<1>1. Actors = Workers \cup {Main} /\ Main \notin Workers
  BY StackTestAssumption DEF Actors, Workers, Main
<1>2. IsFiniteSet(Workers) /\ IsFiniteSet(Actors)
  BY FS_Interval, StackTestAssumption DEF Actors, Workers
<1>3. QED
  BY <1>1, <1>2

LEMMA NowFinite ==
  /\ IsFiniteSet(PushedNow) /\ Cardinality(PushedNow) \in Nat
  /\ IsFiniteSet(PoppedNow) /\ Cardinality(PoppedNow) \in Nat
<1>1. PushedNow \in SUBSET Workers /\ PoppedNow \in SUBSET Actors
  BY DEF PushedNow, PoppedNow
<1>2. IsFiniteSet(PushedNow) /\ IsFiniteSet(PoppedNow)
  BY <1>1, Threads, FS_Subset
<1>3. QED
  BY <1>2, FS_CardinalityType

\* Counting once more is one more pair.
LEMMA CountOne ==
  ASSUME NEW W, NEW f \in [W -> Nat], NEW t \in W,
         IsFiniteSet(Counted(W, f))
  PROVE  LET g == [f EXCEPT ![t] = @ + 1]
         IN  /\ IsFiniteSet(Counted(W, g))
             /\ Cardinality(Counted(W, g)) = Cardinality(Counted(W, f)) + 1
<1> DEFINE g == [f EXCEPT ![t] = @ + 1]
<1>1. Counted(W, g) = Counted(W, f) \cup {<<t, f[t]>>}
  <2>1. ASSUME NEW u \in W, NEW i \in Nat
        PROVE  i < g[u] <=> i < f[u] \/ (u = t /\ i = f[t])
    OBVIOUS
  <2>2. f[t] \in Nat
    OBVIOUS
  <2>3. \A x \in W \X Nat : x[2] < g[x[1]] <=> x[2] < f[x[1]] \/ x = <<t, f[t]>>
    BY <2>1
  <2>4. <<t, f[t]>> \in W \X Nat
    BY <2>2
  <2> HIDE DEF g
  <2>5. QED
    BY <2>3, <2>4 DEF Counted
<1>2. <<t, f[t]>> \notin Counted(W, f)
  BY DEF Counted
<1>3. /\ IsFiniteSet(Counted(W, f) \cup {<<t, f[t]>>})
      /\ Cardinality(Counted(W, f) \cup {<<t, f[t]>>}) = Cardinality(Counted(W, f)) + 1
  BY <1>2, FS_AddElement
<1>4. QED
  BY <1>1, <1>3

\* A thread's count is the number of its pairs.
LEMMA CountThread ==
  ASSUME NEW W, NEW V, NEW f \in [W -> Nat], NEW t \in W, t \notin V,
         V \subseteq W, IsFiniteSet(Counted(V, f))
  PROVE  Cardinality(Counted(V \cup {t}, f))
         = Cardinality(Counted(V, f)) + f[t]
<1> DEFINE P == {t} \X (0 .. f[t]-1)
<1>1. f[t] \in Nat
  OBVIOUS
<1>2. IsFiniteSet(P) /\ Cardinality(P) = f[t]
  <2>1. IsFiniteSet(0 .. f[t]-1) /\ Cardinality(0 .. f[t]-1) = f[t]
    BY <1>1, FS_Interval
  <2>2. IsFiniteSet({t}) /\ Cardinality({t}) = 1
    BY FS_Singleton
  <2>3. QED
    BY <1>1, <2>1, <2>2, FS_Product
<1>3. Counted(V \cup {t}, f) = Counted(V, f) \cup P
  <2>1. \A i \in Nat : i < f[t] <=> i \in 0 .. f[t]-1
    BY <1>1
  <2>2. QED
    BY <2>1 DEF Counted
<1>4. Counted(V, f) \cap P = {}
  BY DEF Counted
<1>5. Cardinality(Counted(V, f)) \in Nat
  BY FS_CardinalityType
<1>6. Cardinality(Counted(V, f) \cup P)
      = Cardinality(Counted(V, f)) + Cardinality(P) - Cardinality(Counted(V, f) \cap P)
  BY <1>2, FS_Union
<1>7. Cardinality(Counted(V, f) \cap P) = 0
  BY <1>4, FS_EmptySet
<1>8. Cardinality(Counted(V \cup {t}, f)) = Cardinality(Counted(V, f) \cup P)
  BY <1>3
<1> HIDE DEF P
<1>9. QED
  BY <1>1, <1>2, <1>5, <1>6, <1>7, <1>8

LEMMA CountedSubset ==
  ASSUME NEW W, NEW V \in SUBSET W, NEW f, IsFiniteSet(Counted(W, f))
  PROVE  /\ IsFiniteSet(Counted(V, f))
         /\ Cardinality(Counted(V, f)) \in Nat
<1>1. Counted(V, f) \in SUBSET Counted(W, f)
  BY DEF Counted
<1>2. QED
  BY <1>1, FS_Subset, FS_CardinalityType

-----------------------------------------------------------------------------
(* The steps *)

LEMMA InvInit == Init => Inv
<1> SUFFICES ASSUME Init PROVE Inv
  OBVIOUS
<1> USE Threads, StackTestAssumption DEF Init, HarnessInit
<1>1. TypeOK /\ MainInv
  <2>1. pc \in [Actors -> WorkPoints]
    BY DEF WorkPoints
  <2>2. contents \in Seq(Nodes)
    OBVIOUS
  <2>3. pc[Main] = "join"
    OBVIOUS
  <2>4. QED
    BY <2>1, <2>2, <2>3 DEF TypeOK, HarnessTypeOK, MainInv
<1>2. /\ Counted(Workers, pushcount) = {} /\ Counted(Workers, popcount) = {}
      /\ Counted(Done, pushcount) = {} /\ Counted(Done, popcount) = {}
      /\ PushedNow = {} /\ PoppedNow = {}
  <2>1. Done \subseteq Workers
    BY DEF Done
  <2>2. QED
    BY <2>1 DEF Counted, PushedNow, PoppedNow
<1>3. TotalsInv /\ BalanceInv
  <2>1. IsFiniteSet({}) /\ Cardinality({}) = 0
    BY FS_EmptySet
  <2>2. TotalsInv
    BY <1>2, <2>1 DEF TotalsInv
  <2>3. BalanceInv
    <3>1. mypopcount = 0 /\ Len(contents) = 0
      OBVIOUS
    <3>2. /\ Cardinality(Counted(Workers, pushcount)) = 0
          /\ Cardinality(Counted(Workers, popcount)) = 0
          /\ Cardinality(PushedNow) = 0 /\ Cardinality(PoppedNow) = 0
      BY <1>2, <2>1
    <3>3. QED
      BY <3>1, <3>2 DEF BalanceInv
  <2>4. QED
    BY <2>2, <2>3
<1>4. QED
  BY <1>1, <1>3 DEF Inv

LEMMA Numbers ==
  ASSUME Inv
  PROVE  /\ Cardinality(Counted(Workers, pushcount)) \in Nat
         /\ Cardinality(Counted(Workers, popcount)) \in Nat
         /\ Cardinality(PushedNow) \in Nat /\ Cardinality(PoppedNow) \in Nat
         /\ mypopcount \in Nat /\ Len(contents) \in Nat
  BY CountedSubset, NowFinite DEF Inv, TotalsInv, TypeOK, HarnessTypeOK

\* A step that counts nothing and neither pushes nor pops.
LEMMA NeutralStep ==
  ASSUME Inv, NEW a \in Actors,
         NEW from \in {"start", "loop", "test", "join", "popped"},
         NEW to \in {"loop", "push", "pop", "test", "total", "exit"},
         Goto(a, from, to),
         \/ node' = node
         \/ from = "loop" /\ \E n \in Nodes : node' = [node EXCEPT ![a] = n],
         from = "popped" => node[a] = NULL,
         a = Main => to \in {"pop", "exit"} /\ Done = Workers,
         a = Main /\ to = "pop" => from = "join",
         a = Main /\ to = "exit" => from = "popped",
         UNCHANGED <<countVars, contents>>
  PROVE  Inv'
<1> USE Threads DEF Goto, countVars
<1>1. TypeOK
  BY DEF Inv
<1>2. TypeOK'
  <2>1. pc' \in [Actors -> WorkPoints]
    BY <1>1 DEF TypeOK, HarnessTypeOK, WorkPoints
  <2>2. node' \in [Actors -> Nodes \cup {NULL}]
    BY <1>1 DEF TypeOK, HarnessTypeOK
  <2>3. QED
    BY <1>1, <2>1, <2>2 DEF TypeOK, HarnessTypeOK
<1>3. /\ Done' = Done \/ a = Main
      /\ Done \subseteq Workers /\ Done' \subseteq Workers
  BY <1>1 DEF TypeOK, HarnessTypeOK, Done
<1>4. Done' = Done
  BY <1>1, <1>3 DEF TypeOK, HarnessTypeOK, Done
<1>5. PushedNow' = PushedNow
  BY <1>1 DEF TypeOK, HarnessTypeOK, PushedNow
<1>6. PoppedNow' = PoppedNow
  <2>1. \A b \in Actors : b # a => pc'[b] = pc[b] /\ node'[b] = node[b]
    BY <1>1 DEF TypeOK, HarnessTypeOK
  <2>2. pc'[a] # "popped" /\ (pc[a] = "popped" => node[a] = NULL)
    BY <1>1 DEF TypeOK, HarnessTypeOK
  <2>3. QED
    BY <2>1, <2>2 DEF PoppedNow
<1>7. MainInv'
  BY <1>1, <1>4 DEF Inv, MainInv, TypeOK, HarnessTypeOK
<1>8. TotalsInv'
  BY <1>4 DEF Inv, TotalsInv
<1>9. BalanceInv'
  BY <1>5, <1>6 DEF Inv, BalanceInv
<1>10. QED
  BY <1>2, <1>7, <1>8, <1>9 DEF Inv

LEMMA CountPushStep ==
  ASSUME Inv, NEW t \in Workers, CountPush(t), UNCHANGED contents
  PROVE  Inv'
<1> USE Threads DEF Goto, CountPush
<1>1. TypeOK /\ TypeOK'
  BY DEF Inv, TypeOK, HarnessTypeOK, WorkPoints
<1>2. Done' = Done /\ t \notin Done /\ Done \subseteq Workers
  BY <1>1 DEF TypeOK, HarnessTypeOK, Done
<1>3. PushedNow' = PushedNow \ {t} /\ t \in PushedNow
  BY <1>1 DEF TypeOK, HarnessTypeOK, PushedNow
<1>4. PoppedNow' = PoppedNow
  BY <1>1 DEF TypeOK, HarnessTypeOK, PoppedNow
<1>5. MainInv'
  BY <1>1, <1>2 DEF Inv, MainInv, TypeOK, HarnessTypeOK
<1>6. /\ IsFiniteSet(Counted(Workers, pushcount)')
      /\ Cardinality(Counted(Workers, pushcount)')
         = Cardinality(Counted(Workers, pushcount)) + 1
  BY <1>1, CountOne DEF Inv, TotalsInv, TypeOK, HarnessTypeOK
<1>7. Counted(Done, pushcount)' = Counted(Done, pushcount)
  <2>1. \A u \in Done : pushcount'[u] = pushcount[u]
    BY <1>1, <1>2 DEF TypeOK, HarnessTypeOK
  <2>2. QED
    BY <1>2, <2>1 DEF Counted
<1>8. TotalsInv'
  BY <1>2, <1>6, <1>7 DEF Inv, TotalsInv
<1>9. BalanceInv'
  <2>1. Cardinality(PushedNow \ {t}) = Cardinality(PushedNow) - 1
    BY <1>3, NowFinite, FS_RemoveElement
  <2>2. QED
    BY <1>3, <1>4, <1>6, <2>1, Numbers DEF Inv, BalanceInv
<1>10. QED
  BY <1>1, <1>5, <1>8, <1>9 DEF Inv

LEMMA CountPopStep ==
  ASSUME Inv, NEW t \in Workers, CountPop(t), UNCHANGED contents
  PROVE  Inv'
<1> USE Threads DEF Goto, CountPop
<1>1. TypeOK /\ TypeOK'
  BY DEF Inv, TypeOK, HarnessTypeOK, WorkPoints
<1>2. Done' = Done /\ t \notin Done /\ Done \subseteq Workers
  BY <1>1 DEF TypeOK, HarnessTypeOK, Done
<1>3. PushedNow' = PushedNow
  BY <1>1 DEF TypeOK, HarnessTypeOK, PushedNow
<1>4. PoppedNow' = PoppedNow \ {t} /\ (t \in PoppedNow <=> node[t] # NULL)
  BY <1>1 DEF TypeOK, HarnessTypeOK, PoppedNow
<1>5. MainInv'
  BY <1>1, <1>2 DEF Inv, MainInv, TypeOK, HarnessTypeOK
<1>6. /\ IsFiniteSet(Counted(Workers, popcount)')
      /\ Cardinality(Counted(Workers, popcount)')
         = Cardinality(Counted(Workers, popcount))
           + (IF node[t] = NULL THEN 0 ELSE 1)
  <2>1. CASE node[t] = NULL
    <3>1. popcount' = popcount
      BY <1>1, <2>1 DEF TypeOK, HarnessTypeOK
    <3>2. QED
      BY <2>1, <3>1, Numbers DEF Inv, TotalsInv
  <2>2. CASE node[t] # NULL
    <3>1. popcount' = [popcount EXCEPT ![t] = @ + 1]
      BY <2>2
    <3>2. QED
      <4>1. popcount \in [Workers -> Nat] /\ IsFiniteSet(Counted(Workers, popcount))
        BY <1>1 DEF Inv, TotalsInv, TypeOK, HarnessTypeOK
      <4> DEFINE g == [popcount EXCEPT ![t] = @ + 1]
      <4>2. /\ IsFiniteSet(Counted(Workers, g))
            /\ Cardinality(Counted(Workers, g))
               = Cardinality(Counted(Workers, popcount)) + 1
        BY <4>1, CountOne
      <4>3. Counted(Workers, popcount)' = Counted(Workers, g)
        BY <3>1 DEF Counted
      <4> HIDE DEF g
      <4>4. QED
        BY <2>2, <4>2, <4>3
  <2>3. QED
    BY <2>1, <2>2
<1>7. Counted(Done, popcount)' = Counted(Done, popcount)
  <2>1. \A u \in Done : popcount'[u] = popcount[u]
    BY <1>1, <1>2 DEF TypeOK, HarnessTypeOK
  <2>2. QED
    BY <1>2, <2>1 DEF Counted
<1>8. TotalsInv'
  BY <1>2, <1>6, <1>7 DEF Inv, TotalsInv
<1>9. Cardinality(PoppedNow')
      = Cardinality(PoppedNow) - (IF node[t] = NULL THEN 0 ELSE 1)
  <2>1. Cardinality(PoppedNow \ {t})
        = IF t \in PoppedNow THEN Cardinality(PoppedNow) - 1
                             ELSE Cardinality(PoppedNow)
    BY NowFinite, FS_RemoveElement
  <2>2. QED
    BY <1>4, <2>1, NowFinite
<1>10. BalanceInv'
  BY <1>3, <1>6, <1>9, Numbers DEF Inv, BalanceInv
<1>11. QED
  BY <1>1, <1>5, <1>8, <1>10 DEF Inv

LEMMA AddTotalsStep ==
  ASSUME Inv, NEW t \in Workers, AddTotals(t, "done"), UNCHANGED contents
  PROVE  Inv'
<1> USE Threads DEF Goto, AddTotals
<1>1. TypeOK /\ TypeOK'
  BY DEF Inv, TypeOK, HarnessTypeOK, WorkPoints
<1>2. Done' = Done \cup {t} /\ t \notin Done /\ Done \subseteq Workers
  BY <1>1 DEF TypeOK, HarnessTypeOK, Done
<1>3. PushedNow' = PushedNow /\ PoppedNow' = PoppedNow
  BY <1>1 DEF TypeOK, HarnessTypeOK, PushedNow, PoppedNow
<1>4. MainInv'
  BY <1>1, <1>2 DEF Inv, MainInv, TypeOK, HarnessTypeOK
<1>5. /\ Cardinality(Counted(Done \cup {t}, pushcount))
         = Cardinality(Counted(Done, pushcount)) + pushcount[t]
      /\ Cardinality(Counted(Done \cup {t}, popcount))
         = Cardinality(Counted(Done, popcount)) + popcount[t]
  <2>1. /\ IsFiniteSet(Counted(Done, pushcount))
        /\ IsFiniteSet(Counted(Done, popcount))
    BY <1>2, CountedSubset DEF Inv, TotalsInv
  <2>2. QED
    <3>1. pushcount \in [Workers -> Nat] /\ popcount \in [Workers -> Nat]
      BY <1>1 DEF TypeOK, HarnessTypeOK
    <3>2. QED
      BY <1>2, <2>1, <3>1, CountThread
<1>6. TotalsInv'
  BY <1>2, <1>5 DEF Inv, TotalsInv
<1>7. BalanceInv'
  BY <1>3 DEF Inv, BalanceInv
<1>8. QED
  BY <1>1, <1>4, <1>6, <1>7 DEF Inv

LEMMA CountLeftoverStep ==
  ASSUME Inv, CountLeftover, UNCHANGED contents
  PROVE  Inv'
<1> USE Threads DEF Goto, CountLeftover
<1>1. TypeOK /\ TypeOK'
  BY DEF Inv, TypeOK, HarnessTypeOK, WorkPoints
<1>2. Done' = Done
  BY <1>1 DEF TypeOK, HarnessTypeOK, Done
<1>3. PushedNow' = PushedNow
  BY <1>1 DEF TypeOK, HarnessTypeOK, PushedNow
<1>4. PoppedNow' = PoppedNow \ {Main} /\ Main \in PoppedNow
  BY <1>1 DEF TypeOK, HarnessTypeOK, PoppedNow
<1>5. MainInv'
  BY <1>1, <1>2 DEF Inv, MainInv, TypeOK, HarnessTypeOK
<1>6. TotalsInv'
  BY <1>2 DEF Inv, TotalsInv
<1>7. Cardinality(PoppedNow \ {Main}) = Cardinality(PoppedNow) - 1
  BY <1>4, NowFinite, FS_RemoveElement
<1>8. BalanceInv'
  BY <1>3, <1>4, <1>7, Numbers DEF Inv, BalanceInv
<1>9. QED
  BY <1>1, <1>5, <1>6, <1>8 DEF Inv

\* A push or a pop leaves the balance as it was.
LEMMA BalanceStep ==
  ASSUME Inv, UNCHANGED <<pushcount, popcount, mypopcount>>,
         NEW i \in Nat, NEW j \in Nat,
         Cardinality(PushedNow)' = Cardinality(PushedNow) + i,
         Cardinality(PoppedNow)' = Cardinality(PoppedNow) + j,
         Len(contents') = Len(contents) + i - j
  PROVE  BalanceInv'
<1>1. Counted(Workers, pushcount)' = Counted(Workers, pushcount)
      /\ Counted(Workers, popcount)' = Counted(Workers, popcount)
  OBVIOUS
<1> DEFINE p == Cardinality(Counted(Workers, pushcount))
           q == Cardinality(Counted(Workers, popcount))
           m == Cardinality(PushedNow)
           n == Cardinality(PoppedNow)
<1>2. /\ p \in Nat /\ q \in Nat /\ m \in Nat /\ n \in Nat
      /\ mypopcount \in Nat /\ Len(contents) \in Nat
      /\ p + m = q + n + mypopcount + Len(contents)
  BY Numbers DEF Inv, BalanceInv
<1>3. p' = p /\ q' = q /\ m' = m + i /\ n' = n + j
  BY <1>1
<1>4. BalanceInv' <=> p' + m' = q' + n' + mypopcount' + Len(contents')
  BY DEF BalanceInv
<1> HIDE DEF p, q, m, n
<1>5. QED
  BY <1>2, <1>3, <1>4

LEMMA PushStep ==
  ASSUME Inv, NEW t \in Workers, Push(t), node[t] \in Nodes
  PROVE  Inv'
<1> USE Threads DEF Goto, Push, PushReturns, countVars
<1>1. TypeOK
  BY DEF Inv
<1>2. contents' \in Seq(Nodes) /\ Len(contents') = Len(contents) + 1
  BY <1>1 DEF TypeOK
<1>3. TypeOK'
  BY <1>1, <1>2 DEF TypeOK, HarnessTypeOK, WorkPoints
<1>4. Done' = Done /\ Done # Workers
  BY <1>1 DEF TypeOK, HarnessTypeOK, Done
<1>5. PushedNow' = PushedNow \cup {t} /\ t \notin PushedNow
  BY <1>1 DEF TypeOK, HarnessTypeOK, PushedNow
<1>6. PoppedNow' = PoppedNow
  BY <1>1 DEF TypeOK, HarnessTypeOK, PoppedNow
<1>7. MainInv'
  BY <1>1, <1>4 DEF Inv, MainInv, TypeOK, HarnessTypeOK
<1>8. TotalsInv'
  BY <1>4 DEF Inv, TotalsInv
<1>9. Cardinality(PushedNow \cup {t}) = Cardinality(PushedNow) + 1
  BY <1>5, NowFinite, FS_AddElement
<1>10. BalanceInv'
  <2>1. Cardinality(PushedNow)' = Cardinality(PushedNow) + 1
        /\ Cardinality(PoppedNow)' = Cardinality(PoppedNow) + 0
    BY <1>5, <1>6, <1>9, NowFinite
  <2>2. Len(contents') = Len(contents) + 1 - 0
    BY <1>2, Numbers
  <2>3. QED
    BY <2>1, <2>2, BalanceStep
<1>11. QED
  BY <1>3, <1>7, <1>8, <1>10 DEF Inv

LEMMA PopStep ==
  ASSUME Inv, NEW a \in Actors, Pop(a)
  PROVE  Inv'
<1> USE Threads DEF Goto, Pop, PopReturns, countVars
<1>1. TypeOK
  BY DEF Inv
<1>2. CASE contents # << >>
  <2>1. /\ Goto(a, "pop", "popped") /\ UNCHANGED countVars
        /\ node' = [node EXCEPT ![a] = Head(contents)]
        /\ contents' = Tail(contents)
    BY <1>2
  <2>2. Head(contents) \in Nodes /\ Head(contents) # NULL
        /\ contents' \in Seq(Nodes) /\ Len(contents') = Len(contents) - 1
    BY <1>1, <1>2, <2>1, StackTestAssumption DEF TypeOK
  <2>3. TypeOK'
    BY <1>1, <2>1, <2>2 DEF TypeOK, HarnessTypeOK, WorkPoints
  <2>4. Done' = Done /\ PushedNow' = PushedNow
    BY <1>1, <2>1 DEF TypeOK, HarnessTypeOK, Done, PushedNow
  <2>5. PoppedNow' = PoppedNow \cup {a} /\ a \notin PoppedNow
    BY <1>1, <2>1, <2>2 DEF TypeOK, HarnessTypeOK, PoppedNow
  <2>6. MainInv'
    <3>1. CASE a = Main
      BY <1>1, <2>1, <2>2, <2>4, <3>1 DEF Inv, MainInv, TypeOK, HarnessTypeOK
    <3>2. CASE a # Main
      <4>1. pc[Main] = "join"
        BY <1>1, <2>1, <3>2 DEF Inv, MainInv, Done
      <4>2. QED
        BY <1>1, <2>1, <3>2, <4>1 DEF MainInv, TypeOK, HarnessTypeOK
    <3>3. QED
      BY <3>1, <3>2
  <2>7. TotalsInv'
    BY <2>1, <2>4 DEF Inv, TotalsInv
  <2>8. Cardinality(PoppedNow \cup {a}) = Cardinality(PoppedNow) + 1
    BY <2>5, NowFinite, FS_AddElement
  <2>9. BalanceInv'
    <3>1. Cardinality(PushedNow)' = Cardinality(PushedNow) + 0
          /\ Cardinality(PoppedNow)' = Cardinality(PoppedNow) + 1
      BY <2>4, <2>5, <2>8, NowFinite
    <3>2. Len(contents') = Len(contents) + 0 - 1
      BY <2>2, Numbers
    <3>3. UNCHANGED <<pushcount, popcount, mypopcount>>
      BY <2>1
    <3>4. QED
      BY <3>1, <3>2, <3>3, BalanceStep
  <2>10. QED
    BY <2>3, <2>6, <2>7, <2>9 DEF Inv
<1>3. CASE contents = << >>
  <2>1. /\ Goto(a, "pop", "popped") /\ UNCHANGED <<countVars, contents>>
        /\ node' = [node EXCEPT ![a] = NULL]
    BY <1>3
  <2>2. TypeOK'
    BY <1>1, <2>1 DEF TypeOK, HarnessTypeOK, WorkPoints
  <2>3. Done' = Done /\ PushedNow' = PushedNow
    BY <1>1, <2>1 DEF TypeOK, HarnessTypeOK, Done, PushedNow
  <2>4. PoppedNow' = PoppedNow
    BY <1>1, <2>1 DEF TypeOK, HarnessTypeOK, PoppedNow
  <2>5. MainInv'
    BY <1>1, <1>3, <2>1, <2>3 DEF Inv, MainInv, TypeOK, HarnessTypeOK
  <2>6. TotalsInv'
    BY <2>1, <2>3 DEF Inv, TotalsInv
  <2>7. BalanceInv'
    BY <2>1, <2>3, <2>4 DEF Inv, BalanceInv
  <2>8. QED
    BY <2>2, <2>5, <2>6, <2>7 DEF Inv
<1>4. QED
  BY <1>2, <1>3

\* A worker in push() has a node.
PushInv == \A t \in Workers : pc[t] = "push" => node[t] \in Nodes

LEMMA PushInvStep == Inv /\ PushInv /\ [Next]_vars => PushInv'
<1> SUFFICES ASSUME Inv, PushInv, [Next]_vars PROVE PushInv'
  OBVIOUS
<1>1. TypeOK
  BY DEF Inv
<1> USE Threads DEF TypeOK, HarnessTypeOK, PushInv, Goto, StackStep
<1>2. ASSUME NEW t \in Workers, Worker(t)
      PROVE  PushInv'
  BY <1>1, <1>2
  DEF Worker, Start, WorkerStep, BeginPop, CountPush, CountPop, Again, Leave,
      AddTotals, Allocate, BeginPush, Push, PushReturns, Pop, PopReturns
<1>3. CASE MainThread
  BY <1>1, <1>3
  DEF MainThread, MainStep, Join, PrintTotals, CountLeftover, Pop, PopReturns
<1>4. CASE TimeUp \/ UNCHANGED vars
  BY <1>1, <1>4 DEF TimeUp, vars, harnessVars
<1>5. QED
  BY <1>2, <1>3, <1>4 DEF Next

LEMMA InvStep == Inv /\ PushInv /\ [Next]_vars => Inv'
<1> SUFFICES ASSUME Inv, PushInv, [Next]_vars PROVE Inv'
  OBVIOUS
<1> USE Threads
<1>1. ASSUME NEW t \in Workers, Worker(t)
      PROVE  Inv'
  <2>1. CASE Start(t) /\ UNCHANGED contents
    BY <2>1, NeutralStep DEF Start, StackStep
  <2>2. CASE BeginPop(t) /\ UNCHANGED contents
    BY <2>2, NeutralStep DEF BeginPop, StackStep
  <2>3. CASE (Again(t) \/ Leave(t)) /\ UNCHANGED contents
    BY <2>3, NeutralStep DEF Again, Leave, StackStep
  <2>4. CASE (CountPush(t) \/ CountPop(t) \/ AddTotals(t, "done"))
             /\ UNCHANGED contents
    BY <2>4, CountPushStep, CountPopStep, AddTotalsStep
  <2>5. CASE Allocate(t)
    BY <2>5, NeutralStep DEF Allocate, BeginPush
  <2>6. CASE Push(t)
    <3>1. node[t] \in Nodes
      BY <2>6 DEF Push, PushReturns, Goto, PushInv
    <3>2. QED
      BY <2>6, <3>1, PushStep
  <2>7. CASE Pop(t)
    BY <2>7, PopStep
  <2>8. QED
    BY <1>1, <2>1, <2>2, <2>3, <2>4, <2>5, <2>6, <2>7 DEF Worker, WorkerStep
<1>2. CASE MainThread
  <2>1. CASE Join /\ UNCHANGED contents
    <3>1. Done = Workers
      BY <2>1 DEF Join, Done
    <3>2. QED
      BY <2>1, <3>1, NeutralStep DEF Join, StackStep
  <2>2. CASE PrintTotals /\ UNCHANGED contents
    <3>1. Done = Workers
      BY <2>2 DEF PrintTotals, StackStep, Goto, Inv, MainInv
    <3>2. QED
      BY <2>2, <3>1, NeutralStep DEF PrintTotals, StackStep
  <2>3. CASE CountLeftover /\ UNCHANGED contents
    BY <2>3, CountLeftoverStep
  <2>4. CASE Pop(Main)
    BY <2>4, PopStep
  <2>5. QED
    BY <1>2, <2>1, <2>2, <2>3, <2>4 DEF MainThread, MainStep
<1>3. CASE TimeUp /\ UNCHANGED contents
  BY <1>3
  DEF TimeUp, Inv, TypeOK, HarnessTypeOK, MainInv, TotalsInv, BalanceInv, Done,
      PushedNow, PoppedNow
<1>4. CASE UNCHANGED vars
  BY <1>4
  DEF vars, harnessVars, Inv, TypeOK, HarnessTypeOK, MainInv, TotalsInv,
      BalanceInv, Done, PushedNow, PoppedNow
<1>5. QED
  BY <1>1, <1>2, <1>3, <1>4 DEF Next

\* At every moment: pushes counted and to be counted are pops counted and to be
\* counted, and the nodes on the stack.
THEOREM Invariance == Spec => [](Inv /\ PushInv)
<1>1. Init => PushInv
  BY Threads DEF Init, HarnessInit, PushInv
<1>2. QED
  BY <1>1, InvInit, InvStep, PushInvStep, PTL DEF Spec

\* Balanced of StackTest: "%lu pushed, %lu popped, %lu leftover" adds up when
\* main prints, for every stack that implements this one.
THEOREM Balance == Spec => []Balanced
<1>1. Inv => Balanced
  <2> SUFFICES ASSUME Inv, pc[Main] = "exit"
               PROVE  totalpushcount = totalpopcount + mypopcount
    BY DEF Balanced
  <2>1. Done = Workers /\ contents = << >>
    BY DEF Inv, MainInv
  <2>2. PushedNow = {} /\ PoppedNow = {}
    BY <2>1, Threads DEF Done, PushedNow, PoppedNow
  <2>3. Cardinality(PushedNow) = 0 /\ Cardinality(PoppedNow) = 0
        /\ Len(contents) = 0
    BY <2>1, <2>2, FS_EmptySet
  <2>4. QED
    BY <2>1, <2>3, Numbers DEF Inv, TotalsInv, BalanceInv
<1>2. QED
  BY <1>1, Invariance, PTL
=============================================================================
