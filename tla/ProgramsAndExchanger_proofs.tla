-------------------- MODULE ProgramsAndExchanger_proofs ---------------------
(***************************************************************************)
(* Proofs about two modules that have nothing to do with each other: about *)
(* Programs, the four programs of project1 and second_test, for every      *)
(* number of threads, of iterations, of items and of places; and about the *)
(* slot protocol of the elimination array, Exchanger, for every number of  *)
(* threads, of nodes and of slots.                                         *)
(***************************************************************************)
EXTENDS Programs, Exchanger, FiniteSetTheorems, WellFoundedInduction, TLAPS

-----------------------------------------------------------------------------
\* What the threads of W have counted: the k-th of each, from 0.
Counted(W, f) == {p \in W \X Nat : p[2] < f[p[1]]}

\* Counting k more is k more pairs.
LEMMA CountMore ==
  ASSUME NEW W, NEW f \in [W -> Nat], NEW t \in W, NEW k \in Nat,
         NEW g, \A u \in W : g[u] = IF u = t THEN f[t] + k ELSE f[u],
         IsFiniteSet(Counted(W, f))
  PROVE  /\ IsFiniteSet(Counted(W, g))
         /\ Cardinality(Counted(W, g)) = Cardinality(Counted(W, f)) + k
<1> DEFINE New == f[t] .. f[t] + k - 1
           More == {t} \X New
<1>1. f[t] \in Nat
  OBVIOUS
<1>2. IsFiniteSet(More) /\ Cardinality(More) = k
  <2>1. IsFiniteSet(New) /\ Cardinality(New) = k
    <3>1. ASSUME NEW a \in Int, NEW b \in Int, b = a + k - 1
          PROVE  IsFiniteSet(a .. b) /\ Cardinality(a .. b) = k
      <4>1. /\ IsFiniteSet(a .. b)
            /\ Cardinality(a .. b) = IF a > b THEN 0 ELSE b - a + 1
        BY FS_Interval
      <4>2. (IF a > b THEN 0 ELSE b - a + 1) = k
        BY <3>1
      <4>3. QED
        BY <4>1, <4>2
    <3>2. PICK a \in Int, b \in Int : a = f[t] /\ b = f[t] + k - 1
      BY <1>1
    <3>3. b = a + k - 1
      BY <1>1, <3>2
    <3>4. QED
      BY <3>1, <3>2, <3>3
  <2>2. IsFiniteSet({t}) /\ Cardinality({t}) = 1
    BY FS_Singleton
  <2> HIDE DEF New
  <2>3. IsFiniteSet(More) /\ Cardinality(More) = 1 * k
    BY <2>1, <2>2, FS_Product
  <2>4. QED
    BY <2>3
<1>3. Counted(W, g) = Counted(W, f) \cup More
  <2>1. ASSUME NEW u \in W, NEW j \in Nat
        PROVE  j < g[u] <=> j < f[u] \/ (u = t /\ j \in f[t] .. f[t] + k - 1)
    BY <1>1
  <2>2. More \subseteq W \X Nat
    BY <1>1
  <2>3. QED
    BY <2>1, <2>2 DEF Counted
<1>4. Counted(W, f) \cap More = {}
  BY <1>1 DEF Counted
<1>5. /\ IsFiniteSet(Counted(W, f) \cup More)
      /\ Cardinality(Counted(W, f) \cup More)
         = Cardinality(Counted(W, f)) + Cardinality(More) - Cardinality(Counted(W, f) \cap More)
  BY <1>2, FS_Union
<1>6. Cardinality(Counted(W, f) \cap More) = 0
  BY <1>4, FS_EmptySet
<1>7. Cardinality(Counted(W, f)) \in Nat
  BY FS_CardinalityType
<1> HIDE DEF More, New
<1>8. Cardinality(Counted(W, f) \cup More) = Cardinality(Counted(W, f)) + k
  BY <1>2, <1>5, <1>6, <1>7
<1>9. QED
  BY <1>3, <1>5, <1>8

\* If every thread has counted to k there are k pairs of each.
LEMMA CountAll ==
  ASSUME NEW W, IsFiniteSet(W), NEW k \in Nat, NEW f \in [W -> Nat],
         \A t \in W : f[t] = k
  PROVE  /\ IsFiniteSet(Counted(W, f))
         /\ Cardinality(Counted(W, f)) = Cardinality(W) * k
<1>1. Counted(W, f) = W \X (0 .. k-1)
  BY DEF Counted
<1>2. IsFiniteSet(0 .. k-1) /\ Cardinality(0 .. k-1) = k
  BY FS_Interval
<1>3. QED
  BY <1>1, <1>2, FS_Product

\* A thread's count is the number of its pairs.
LEMMA CountThread ==
  ASSUME NEW W, NEW V, NEW f \in [W -> Nat], NEW t \in W, t \notin V,
         V \subseteq W, IsFiniteSet(Counted(V, f))
  PROVE  Cardinality(Counted(V \cup {t}, f))
         = Cardinality(Counted(V, f)) + f[t]
<1> DEFINE P == {t} \X (0 .. f[t]-1)
<1>1. f[t] \in Nat
  OBVIOUS
<1>2. IsFiniteSet(P) /\ Cardinality(P) = f[t]
  <2>1. IsFiniteSet(0 .. f[t]-1) /\ Cardinality(0 .. f[t]-1) = f[t]
    BY <1>1, FS_Interval
  <2>2. IsFiniteSet({t}) /\ Cardinality({t}) = 1
    BY FS_Singleton
  <2>3. QED
    BY <1>1, <2>1, <2>2, FS_Product
<1>3. Counted(V \cup {t}, f) = Counted(V, f) \cup P
  <2>1. \A k \in Nat : k < f[t] <=> k \in 0 .. f[t]-1
    BY <1>1
  <2>2. QED
    BY <2>1 DEF Counted
<1>4. Counted(V, f) \cap P = {}
  BY DEF Counted
<1>5. Cardinality(Counted(V, f)) \in Nat
  BY FS_CardinalityType
<1>6. Cardinality(Counted(V, f) \cup P)
      = Cardinality(Counted(V, f)) + Cardinality(P) - Cardinality(Counted(V, f) \cap P)
  BY <1>2, FS_Union
<1>7. Cardinality(Counted(V, f) \cap P) = 0
  BY <1>4, FS_EmptySet
<1>8. Cardinality(Counted(V \cup {t}, f)) = Cardinality(Counted(V, f) \cup P)
  BY <1>3
<1> HIDE DEF P
<1>9. QED
  BY <1>1, <1>2, <1>5, <1>6, <1>7, <1>8

LEMMA CountedSubset ==
  ASSUME NEW W, NEW V \in SUBSET W, NEW f, IsFiniteSet(Counted(W, f))
  PROVE  /\ IsFiniteSet(Counted(V, f))
         /\ Cardinality(Counted(V, f)) \in Nat
<1>1. Counted(V, f) \in SUBSET Counted(W, f)
  BY DEF Counted
<1>2. QED
  BY <1>1, FS_Subset, FS_CardinalityType

\* What FoldFunction(+, 0, f) adds up, one element after the other.
Adds(g, f, W) ==
  g = [s \in SUBSET W |->
         IF s = {} THEN 0 ELSE f[CHOOSE p \in s : TRUE] + g[s \ {CHOOSE p \in s : TRUE}]]

LEMMA SumIs ==
  ASSUME NEW W, NEW f, DOMAIN f = W
  PROVE  Second!FoldFunction(+, 0, f) = (CHOOSE g : Adds(g, f, W))[W]
  BY DEF Second!FoldFunction, Second!FoldFunctionOnSet, Second!MapThenFoldSet, Adds

LEMMA SumIsCount ==
  ASSUME NEW W, IsFiniteSet(W), NEW f \in [W -> Nat], IsFiniteSet(Counted(W, f))
  PROVE  Second!FoldFunction(+, 0, f) = Cardinality(Counted(W, f))
<1> DEFINE c == [s \in SUBSET W |-> Cardinality(Counted(s, f))]
<1>1. /\ c[{}] = 0
      /\ \A s \in SUBSET W : \A p \in s : c[s] = f[p] + c[s \ {p}]
  <2>1. Counted({}, f) = {}
    BY DEF Counted
  <2>2. c[{}] = 0
    BY <2>1, FS_EmptySet
  <2>3. ASSUME NEW s \in SUBSET W, NEW p \in s
        PROVE  c[s] = f[p] + c[s \ {p}]
    <3>1. PICK r \in SUBSET W : r = s \ {p}
      OBVIOUS
    <3>2. p \in W /\ p \notin r /\ r \subseteq W /\ r \cup {p} = s
      BY <3>1
    <3>3. IsFiniteSet(Counted(r, f)) /\ Cardinality(Counted(r, f)) \in Nat
      BY CountedSubset
    <3>4. Cardinality(Counted(r \cup {p}, f)) = Cardinality(Counted(r, f)) + f[p]
      BY <3>2, <3>3, CountThread
    <3>5. f[p] \in Nat
      BY <3>2
    <3>6. c[s] = Cardinality(Counted(r \cup {p}, f)) /\ c[r] = Cardinality(Counted(r, f))
      BY <3>2
    <3>7. c[s] = f[p] + c[r]
      BY <3>3, <3>4, <3>5, <3>6
    <3>8. QED
      BY <3>1, <3>7
  <2>4. QED
    BY <2>2, <2>3
<1>2. Adds(c, f, W)
  <2> SUFFICES ASSUME NEW s \in SUBSET W
        PROVE  c[s] = IF s = {} THEN 0
                      ELSE f[CHOOSE p \in s : TRUE] + c[s \ {CHOOSE p \in s : TRUE}]
    BY DEF Adds
  <2> HIDE DEF c
  <2>1. CASE s # {}
    <3>1. (CHOOSE p \in s : TRUE) \in s
      BY <2>1
    <3>2. QED
      BY <1>1, <2>1, <3>1
  <2>2. QED
    BY <1>1, <2>1
<1>3. ASSUME NEW g, Adds(g, f, W)
      PROVE  g[W] = c[W]
  <2> DEFINE Wrong == {s \in SUBSET W : g[s] # c[s]}
             T == {Cardinality(s) : s \in Wrong}
             R == OpToRel(<, Nat)
  <2> SUFFICES ASSUME g[W] # c[W] PROVE FALSE
    OBVIOUS
  <2>1. \A s \in SUBSET W : IsFiniteSet(s) /\ Cardinality(s) \in Nat
    BY FS_Subset, FS_CardinalityType
  <2>2. W \in Wrong
    OBVIOUS
  <2>3. T \subseteq Nat /\ T # {}
    BY <2>1, <2>2
  <2>4. PICK m \in T : \A j \in T : <<j, m>> \notin R
    <3>1. IsWellFoundedOn(R, Nat)
      BY NatLessThanWellFounded
    <3> HIDE DEF T, R
    <3>2. QED
      BY <2>3, <3>1, WFMin
  <2>5. PICK s \in Wrong : m = Cardinality(s)
    BY <2>4
  <2>6. g[s] = IF s = {} THEN 0
               ELSE f[CHOOSE p \in s : TRUE] + g[s \ {CHOOSE p \in s : TRUE}]
    BY <1>3 DEF Adds
  <2>7. s # {}
    BY <1>1, <2>5, <2>6
  <2>8. PICK p \in s : p = CHOOSE y \in s : TRUE
    BY <2>7
  <2> DEFINE r == s \ {p}
  <2>9. Cardinality(r) = Cardinality(s) - 1
    BY <2>1, FS_RemoveElement
  <2>10. r \in SUBSET W /\ Cardinality(r) \in Nat /\ Cardinality(s) \in Nat
    BY <2>1
  <2>11. r \notin Wrong
    <3> SUFFICES ASSUME r \in Wrong PROVE FALSE
      OBVIOUS
    <3>1. Cardinality(r) \in T
      BY Zenon
    <3>2. ~(Cardinality(r) < m)
      BY <2>3, <2>4, <3>1 DEF OpToRel
    <3>3. QED
      BY <2>5, <2>9, <2>10, <3>2
  <2>12. g[r] = c[r]
    BY <2>10, <2>11
  <2>13. g[s] = c[s]
    <3> HIDE DEF c
    <3>1. QED
      BY <1>1, <2>6, <2>7, <2>8, <2>12
  <2>14. QED
    BY <2>13
<1>4. Adds(CHOOSE g : Adds(g, f, W), f, W)
  BY <1>2
<1>5. Second!FoldFunction(+, 0, f) = c[W]
  <2>1. Second!FoldFunction(+, 0, f) = (CHOOSE g : Adds(g, f, W))[W]
    BY SumIs
  <2> HIDE DEF c
  <2>2. QED
    BY <1>3, <1>4, <2>1
<1>6. QED
  BY <1>5

-----------------------------------------------------------------------------
(* Parts 1, 2 and 2a of project1: what is printed                           *)

\* The increments that have been made.
Increments == Cardinality(Counted(CounterThreads, i))

CounterTypes ==
  /\ part \in Parts
  /\ i \in [CounterThreads -> 0 .. Iterations]
  /\ local \in [CounterThreads -> Nat]
  /\ loaded \subseteq CounterThreads
  /\ counter \in Nat
  /\ main = "exit" => \A t \in CounterThreads : i[t] = Iterations
  /\ IsFiniteSet(Counted(CounterThreads, i))

Exact == counter = Increments

\* With the mutex the register of the thread that has loaded is up to date.
UpToDate == \A t \in loaded : M = t /\ local[t] = counter

\* Increments may be lost, but none is made up; a thread alone loses none.
AtMost ==
  /\ counter <= Increments
  /\ \A t \in loaded : local[t] <= Increments
  /\ NumThreads = 1 => Exact /\ \A t \in loaded : local[t] = counter

\* A thread can store 1 only as its first iteration, started from 0: after it
\* somebody has still to iterate, if only that thread.
AtLeast ==
  /\ counter = 0 => \A t \in CounterThreads : i[t] = 0
  /\ \A t \in loaded : local[t] = 0 => i[t] = 0
  /\ counter = 1 /\ Iterations > 1 => \E t \in CounterThreads : i[t] < Iterations

CounterInv ==
  /\ CounterTypes
  /\ part = "part1" => AtMost /\ AtLeast
  /\ part = "part2" => Exact /\ UpToDate
  /\ part = "part2a" => Exact

LEMMA ThreadsFinite ==
  IsFiniteSet(CounterThreads) /\ Cardinality(CounterThreads) = NumThreads
BY SharedCounterAssumption, FS_Interval DEF CounterThreads

LEMMA CounterStarts ==
  ASSUME NEW program \in Parts, CounterInit(program)
  PROVE  CounterInv
<1>1. i \in [CounterThreads -> Nat] /\ \A t \in CounterThreads : i[t] = 0
  BY DEF CounterInit
<1>2. IsFiniteSet(Counted(CounterThreads, i)) /\ Increments = NumThreads * 0
  BY <1>1, ThreadsFinite, CountAll DEF Increments
<1>3. Increments = 0 /\ \E t \in CounterThreads : TRUE
  BY <1>2, SharedCounterAssumption DEF CounterThreads
<1>4. CounterTypes
  BY <1>2, SharedCounterAssumption DEF CounterInit, CounterTypes
<1>5. QED
  BY <1>3, <1>4, SharedCounterAssumption
  DEF CounterInit, CounterInv, AtMost, AtLeast, Exact, UpToDate

\* main() counts nothing; it exits when all has been counted.
LEMMA CounterMainKeeps ==
  ASSUME CounterInv, CounterMain \/ CreateFails
  PROVE  CounterInv'
<1>1. UNCHANGED <<part, i, local, loaded, M, counter>>
  BY DEF CounterMain, Create, JoinAndPrint, CreateFails
<1>2. Counted(CounterThreads, i)' = Counted(CounterThreads, i)
  BY <1>1 DEF Counted
<1>3. main' = "exit" => \A t \in CounterThreads : i[t] = Iterations
  BY DEF CounterMain, Create, JoinAndPrint, CreateFails, CounterInv, CounterTypes
<1>4. CounterTypes'
  BY <1>1, <1>2, <1>3 DEF CounterInv, CounterTypes
<1>5. QED
  BY <1>1, <1>2, <1>4
  DEF CounterInv, AtMost, AtLeast, Exact, UpToDate, Increments

\* k increments in one step.
LEMMA IncrementsGoUp ==
  ASSUME i \in [CounterThreads -> Nat], NEW t \in CounterThreads, NEW k \in Nat,
         \A u \in CounterThreads : i'[u] = IF u = t THEN i[t] + k ELSE i[u],
         IsFiniteSet(Counted(CounterThreads, i))
  PROVE  /\ IsFiniteSet(Counted(CounterThreads, i'))
         /\ Cardinality(Counted(CounterThreads, i')) = Increments + k
BY CountMore DEF Increments

LEMMA CountersGoUp ==
  ASSUME CounterTypes, NEW t \in CounterThreads, NEW k \in Nat,
         i[t] + k <= Iterations, i' = [i EXCEPT ![t] = @ + k],
         UNCHANGED <<part, main>>, main # "exit",
         local' \in [CounterThreads -> Nat], loaded' \subseteq CounterThreads,
         counter' \in Nat
  PROVE  /\ CounterTypes'
         /\ Increments \in Nat /\ Increments' = Increments + k
<1>1. i \in [CounterThreads -> Nat]
  BY SharedCounterAssumption DEF CounterTypes
<1>2. \A u \in CounterThreads : i'[u] = IF u = t THEN i[t] + k ELSE i[u]
  BY <1>1
<1>3. IsFiniteSet(Counted(CounterThreads, i)) /\ Increments \in Nat
  BY FS_CardinalityType DEF CounterTypes, Increments
<1>4. /\ IsFiniteSet(Counted(CounterThreads, i'))
      /\ Cardinality(Counted(CounterThreads, i')) = Increments + k
  BY <1>1, <1>2, <1>3, IncrementsGoUp
<1>5. i' \in [CounterThreads -> 0 .. Iterations]
  BY SharedCounterAssumption DEF CounterTypes
<1>6. QED
  BY <1>3, <1>4, <1>5 DEF CounterTypes, Increments

LEMMA LoadKeeps ==
  ASSUME CounterInv, NEW t \in CounterThreads, LoadPart1(t) \/ LockPart2(t)
  PROVE  CounterInv'
<1>1. /\ Load(t)
      /\ UNCHANGED <<part, main, i, counter>>
      /\ part = "part1" \/ (part = "part2" /\ M = NOBODY /\ M' = t)
  BY DEF LoadPart1, LockPart2, Load
<1>2. Counted(CounterThreads, i)' = Counted(CounterThreads, i)
  BY <1>1 DEF Counted
<1>3. counter \in Nat /\ Increments \in Nat
  BY FS_CardinalityType DEF CounterInv, CounterTypes, Increments
<1>4. CounterTypes' /\ Increments' = Increments
  BY <1>1, <1>2 DEF CounterInv, CounterTypes, Load, Increments
<1>5. /\ loaded' = loaded \cup {t}
      /\ \A u \in CounterThreads : local'[u] = IF u = t THEN counter ELSE local[u]
  BY <1>1 DEF Load, CounterInv, CounterTypes
<1>6. loaded \subseteq CounterThreads
  BY DEF CounterInv, CounterTypes
<1>7. CASE part = "part1"
  BY <1>1, <1>3, <1>4, <1>5, <1>6, <1>7
  DEF CounterInv, AtMost, AtLeast, Exact
<1>8. CASE part = "part2" /\ M = NOBODY /\ M' = t
  <2>1. loaded = {}
    BY <1>6, <1>8, SharedCounterAssumption DEF CounterInv, UpToDate, CounterThreads
  <2>2. QED
    BY <1>1, <1>4, <1>5, <1>8, <2>1 DEF CounterInv, Exact, UpToDate
<1>9. QED
  BY <1>1, <1>7, <1>8

LEMMA StoreKeeps ==
  ASSUME CounterInv, NEW t \in CounterThreads, StorePart1(t) \/ UnlockPart2(t)
  PROVE  CounterInv'
<1>1. PICK k \in 1 .. Iterations - i[t] :
        /\ Working(t) /\ Store(t, k)
        /\ part = "part1" \/ (part = "part2" /\ k = 1)
  BY SharedCounterAssumption
  DEF StorePart1, UnlockPart2, Working, CounterInv, CounterTypes
<1>2. /\ i[t] \in 0 .. Iterations /\ local \in [CounterThreads -> Nat]
      /\ k \in Nat /\ k > 0 /\ i[t] + k <= Iterations
      /\ main # "exit" /\ t \in loaded /\ loaded \subseteq CounterThreads
      /\ counter' = local[t] + k
      /\ i' = [i EXCEPT ![t] = @ + k]
      /\ loaded' = loaded \ {t}
      /\ local' = [local EXCEPT ![t] = 0]
      /\ UNCHANGED <<part, main>>
  BY <1>1, SharedCounterAssumption DEF CounterInv, CounterTypes, Store, Working
<1>3. /\ CounterTypes'
      /\ Increments \in Nat /\ Increments' = Increments + k
  <2>1. CounterTypes /\ local' \in [CounterThreads -> Nat] /\ counter' \in Nat
    BY <1>2 DEF CounterInv
  <2>2. QED
    BY <1>2, <2>1, CountersGoUp
<1>4. /\ \A u \in loaded' : u # t /\ u \in loaded /\ local'[u] = local[u] /\ i'[u] = i[u]
      /\ i'[t] = i[t] + k /\ i[t] \in Nat /\ counter \in Nat /\ local[t] \in Nat
      /\ \A u \in loaded : local[u] \in Nat
  BY <1>2 DEF CounterInv, CounterTypes
<1>5. CASE part = "part1"
  <2>1. AtMost'
    <3>1. NumThreads = 1 => loaded' = {}
      BY <1>2 DEF CounterThreads
    <3>2. QED
      BY <1>2, <1>3, <1>4, <1>5, <3>1 DEF CounterInv, AtMost, Exact
  <2>2. AtLeast'
    <3>1. counter' # 0 /\ \A u \in loaded' : local'[u] = 0 => i'[u] = 0
      BY <1>2, <1>4, <1>5 DEF CounterInv, AtLeast
    <3>2. counter' = 1 => i'[t] = 1
      BY <1>2, <1>4, <1>5 DEF CounterInv, AtLeast
    <3>3. QED
      BY <3>1, <3>2, SharedCounterAssumption DEF AtLeast
  <2>3. QED
    BY <1>2, <1>3, <1>5, <2>1, <2>2 DEF CounterInv
<1>6. CASE part = "part2" /\ k = 1
  <2>1. M = t /\ local[t] = counter /\ loaded' = {} /\ counter = Increments
    BY <1>2, <1>6 DEF CounterInv, UpToDate, Exact
  <2>2. QED
    BY <1>2, <1>3, <1>6, <2>1 DEF CounterInv, UpToDate, Exact
<1>7. QED
  BY <1>1, <1>5, <1>6

LEMMA AddKeeps ==
  ASSUME CounterInv, NEW t \in CounterThreads, AddPart2a(t)
  PROVE  CounterInv'
<1>1. /\ i[t] \in Nat /\ i[t] + 1 <= Iterations /\ main # "exit"
      /\ i' = [i EXCEPT ![t] = @ + 1] /\ counter' = counter + 1 /\ counter \in Nat
      /\ part = "part2a" /\ UNCHANGED <<part, main, local, loaded>>
      /\ local \in [CounterThreads -> Nat] /\ loaded \subseteq CounterThreads
  BY SharedCounterAssumption DEF AddPart2a, Working, CounterInv, CounterTypes
<1>2. /\ CounterTypes'
      /\ Increments \in Nat /\ Increments' = Increments + 1
  <2>1. CounterTypes
    BY DEF CounterInv
  <2>2. 1 \in Nat /\ counter' \in Nat
    BY <1>1
  <2>3. QED
    BY <1>1, <2>1, <2>2, CountersGoUp
<1>3. QED
  BY <1>1, <1>2 DEF CounterInv, Exact

LEMMA CounterStays ==
  ASSUME CounterInv, UNCHANGED counterVars
  PROVE  CounterInv'
<1>1. UNCHANGED <<part, main, i, local, loaded, M, counter>>
  BY DEF counterVars
<1>2. Counted(CounterThreads, i)' = Counted(CounterThreads, i)
  BY <1>1 DEF Counted
<1>3. QED
  BY <1>1, <1>2
  DEF CounterInv, CounterTypes, AtMost, AtLeast, Exact, UpToDate, Increments

\* What main() prints follows from the invariant when all threads are joined.
LEMMA CounterResult == CounterInv => CounterReported
<1> SUFFICES ASSUME CounterInv, main = "exit"
             PROVE  IF part # "part1" \/ NumThreads = 1
                    THEN counter = NumThreads * Iterations
                    ELSE counter \in (IF Iterations = 1 THEN 1 ELSE 2) .. NumThreads * Iterations
  BY DEF CounterReported
<1>1. /\ i \in [CounterThreads -> Nat] /\ \A t \in CounterThreads : i[t] = Iterations
      /\ counter \in Nat /\ part \in Parts
  BY SharedCounterAssumption DEF CounterInv, CounterTypes
<1>2. Increments = NumThreads * Iterations
  BY <1>1, ThreadsFinite, CountAll, SharedCounterAssumption DEF Increments
<1>3. CASE part # "part1" \/ NumThreads = 1
  BY <1>1, <1>2, <1>3 DEF CounterInv, Exact, AtMost, Parts
<1>4. CASE ~(part # "part1" \/ NumThreads = 1)
  <2>1. counter <= NumThreads * Iterations /\ AtLeast
    BY <1>2, <1>4 DEF CounterInv, AtMost
  <2>2. 0 \in CounterThreads /\ i[0] = Iterations
    BY <1>1, SharedCounterAssumption DEF CounterThreads
  <2>3. counter # 0 /\ (Iterations > 1 => counter # 1)
    BY <1>1, <2>1, <2>2, SharedCounterAssumption DEF AtLeast
  <2>4. NumThreads * Iterations \in Int
    BY SharedCounterAssumption
  <2>5. QED
    BY <1>1, <1>4, <2>1, <2>3, <2>4, SharedCounterAssumption
<1>5. QED
  BY <1>3, <1>4

-----------------------------------------------------------------------------
(* second_test: the counter against the threads' counts, and their times    *)

LEMMA DivMod ==
  ASSUME NEW a \in Int, NEW k \in Nat \ {0}
  PROVE  /\ a \div k \in Int /\ a % k \in Nat
         /\ a = k * (a \div k) + (a % k)
OBVIOUS

\* ts_sub() of two times is their difference, or 0: what it borrows from the
\* seconds it adds to the nanoseconds.
LEMMA Difference ==
  ASSUME NEW a \in Int, NEW b \in Int
  PROVE  Second!ts_sub(Second!timespec(a), Second!timespec(b))
         = IF a - b < 0 THEN 0 ELSE a - b
<1> DEFINE Is(k, time, second, nsec) ==
             /\ time = k * second + nsec
             /\ Second!timespec(time) = [tv_sec |-> second, tv_nsec |-> nsec]
<1>1. PICK k \in Int : k = NSEC_SEC
  BY ProgramsAssumption
<1>2. PICK sa \in Int, na \in Int : Is(k, a, sa, na)
  BY <1>1, DivMod, ProgramsAssumption DEF Second!timespec
<1>3. PICK sb \in Int, nb \in Int : Is(k, b, sb, nb)
  BY <1>1, DivMod, ProgramsAssumption DEF Second!timespec
<1>4. PICK c \in Int : c = IF na < nb THEN 1 ELSE 0
  OBVIOUS
<1> HIDE DEF Is
<1>5. (sa - sb - c) * k = k * sa - k * sb - k * c
  BY <1>1, <1>2, <1>3, <1>4
<1>6. PICK u \in Int, v \in Int, w \in Int : u = k * sa /\ v = k * sb /\ w = k * c
  BY <1>1, <1>2, <1>3, <1>4
<1>7. a = u + na /\ b = v + nb
  BY <1>2, <1>3, <1>6 DEF Is
<1>8. (na - nb + w) + (sa - sb - c) * k = a - b
  BY <1>2, <1>3, <1>5, <1>6, <1>7
<1>9. na - nb + (IF na < nb THEN k ELSE 0) = na - nb + w
  BY <1>1, <1>4, <1>6
<1>10. LET d == (na - nb + w) + (sa - sb - c) * k
       IN  Second!ts_sub(Second!timespec(a), Second!timespec(b)) = IF d < 0 THEN 0 ELSE d
  BY <1>1, <1>2, <1>3, <1>4, <1>9 DEF Second!ts_sub, Is
<1>11. QED
  BY <1>8, <1>10

TesterPoints == {"wait", "loop", "lock", "cs", "store", "count", "done"}

\* The threads that have incremented the counter and not yet counted it.
Counting == {t \in Second!Testers : tester[t] = "count"}

TesterTypes ==
  /\ main \in {"create", "join", "report", "exit"}
  /\ created \in Nat
  /\ main = "create" => created < NumTesters
  /\ main = "join" => created = NumTesters
  /\ tester \in [Second!Testers -> TesterPoints]
  /\ lock1 \in [Second!Testers -> Int] /\ lock2 \in [Second!Testers -> Int]
  /\ tcounters \in [Second!Testers -> Nat] /\ tnsecs \in [Second!Testers -> Nat]
  /\ counter \in Nat /\ reg \in [Second!Testers -> Nat]
  /\ elapsed \in Nat /\ setback \in Nat /\ setback <= elapsed
  /\ IsFiniteSet(Counted(Second!Testers, tcounters))

\* The owner of the lock is in its critical section, and its register is up to
\* date.
Owning ==
  \A t \in Second!Testers :
    /\ tester[t] \in {"cs", "store"} <=> owner = t
    /\ tester[t] = "store" => reg[t] = counter

Tallied ==
  counter = Cardinality(Counted(Second!Testers, tcounters)) + Cardinality(Counting)

\* main() adds up when nobody counts any more.
Verified ==
  /\ main \in {"report", "exit"} /\ created = NumTesters
       => \A t \in Second!Testers : tester[t] = "done"
  /\ main = "exit" /\ created = NumTesters => retval = 0

\* What a thread has waited, with what it is about to add, is not more than has
\* passed: between its readings the clock may have been set back, not forward.
Possible ==
  \A t \in Second!Testers :
    /\ tnsecs[t] <= elapsed
    /\ tester[t] \in {"lock", "cs"} => tnsecs[t] + (Second!now - lock1[t]) <= elapsed
    /\ tester[t] \in {"store", "count"} => tnsecs[t] + (lock2[t] - lock1[t]) <= elapsed

TesterInv == TesterTypes /\ Owning /\ Tallied /\ Verified /\ Possible

LEMMA TestersFinite ==
  /\ IsFiniteSet(Second!Testers) /\ Second!Testers # {}
  /\ IsFiniteSet(Counting) /\ Cardinality(Counting) \in Nat
<1>1. IsFiniteSet(Second!Testers) /\ 0 \in Second!Testers
  BY ProgramsAssumption, FS_Interval DEF Second!Testers
<1>2. Counting \in SUBSET Second!Testers
  BY DEF Counting
<1>3. QED
  BY <1>1, <1>2, FS_Subset, FS_CardinalityType

LEMMA TestersStart == Second!TestInit => TesterInv
<1> SUFFICES ASSUME Second!TestInit PROVE TesterInv
  OBVIOUS
<1>1. /\ tcounters \in [Second!Testers -> Nat]
      /\ \A t \in Second!Testers : tcounters[t] = 0
  BY DEF Second!TestInit
<1>2. /\ IsFiniteSet(Counted(Second!Testers, tcounters))
      /\ Cardinality(Counted(Second!Testers, tcounters)) = Cardinality(Second!Testers) * 0
  BY <1>1, TestersFinite, CountAll
<1>3. Cardinality(Counting) = 0
  <2>1. Counting = {}
    BY DEF Counting, Second!TestInit
  <2>2. QED
    BY <2>1, FS_EmptySet
<1>4. Cardinality(Second!Testers) * 0 = 0
  BY TestersFinite, FS_CardinalityType
<1>5. TesterTypes
  BY <1>2, ProgramsAssumption DEF Second!TestInit, TesterTypes, TesterPoints
<1>6. QED
  BY <1>2, <1>3, <1>4, <1>5, SharedCounterAssumption
  DEF Second!TestInit, TesterInv, Owning, Tallied, Verified, Possible, Second!Testers

\* A thread's step; it has not been joined.
LEMMA TesterGoes ==
  ASSUME TesterInv, NEW t \in Second!Testers, NEW from, NEW to \in TesterPoints,
         Second!Goes(t, from, to), from # "done"
  PROVE  /\ tester[t] = from
         /\ tester' \in [Second!Testers -> TesterPoints]
         /\ \A u \in Second!Testers : tester'[u] = IF u = t THEN to ELSE tester[u]
         /\ UNCHANGED <<main, created, retval, elapsed, setback>>
         /\ Verified'
<1>1. /\ tester \in [Second!Testers -> TesterPoints]
      /\ tester[t] = from /\ tester' = [tester EXCEPT ![t] = to]
      /\ UNCHANGED <<main, created, retval, elapsed, setback>>
  BY DEF TesterInv, TesterTypes, Second!Goes, Second!mainVars, Second!clockVars
<1>2. Verified'
  BY <1>1 DEF TesterInv, Verified
<1>3. QED
  BY <1>1, <1>2

\* A step outside the critical section counts nothing.
LEMMA TalliesStay ==
  ASSUME Tallied, UNCHANGED <<counter, tcounters>>, Counting' = Counting
  PROVE  Tallied'
BY DEF Tallied, Counted

LEMMA NowIs ==
  TesterTypes => Second!now = 1 + elapsed - setback /\ Second!now \in Int
BY DEF TesterTypes, Second!now, Second!Started

LEMMA AsideKeeps ==
  ASSUME TesterInv, NEW t \in Second!Testers,
         Second!StartTest(t) \/ Second!StopTest(t) \/ Second!CallLock(t)
  PROVE  TesterInv'
<1>1. Second!now \in Int /\ lock1 \in [Second!Testers -> Int]
      /\ lock2 \in [Second!Testers -> Int]
  BY NowIs DEF TesterInv, TesterTypes
<1>2. PICK from \in {"wait", "loop"}, to \in {"loop", "done", "lock"} :
        /\ Second!Goes(t, from, to)
        /\ to = "lock" => lock1' = [lock1 EXCEPT ![t] = Second!now]
        /\ to # "lock" => lock1' = lock1
        /\ lock2' \in [Second!Testers -> Int]
        /\ \A u \in Second!Testers : u # t => lock2'[u] = lock2[u]
        /\ UNCHANGED <<tcounters, tnsecs, owner, counter, reg>>
  <2>1. CASE Second!StartTest(t)
    <3>1. /\ Second!Goes(t, "wait", "loop") /\ lock1' = lock1
          /\ lock2' = [lock2 EXCEPT ![t] = Second!now]
          /\ UNCHANGED <<tcounters, tnsecs, owner, counter, reg>>
      BY <2>1 DEF Second!StartTest
    <3>2. QED
      BY <1>1, <3>1
  <2>2. CASE Second!StopTest(t)
    BY <1>1, <2>2 DEF Second!StopTest
  <2>3. CASE Second!CallLock(t)
    BY <1>1, <2>3 DEF Second!CallLock
  <2>4. QED
    BY <2>1, <2>2, <2>3
<1>3. /\ tester[t] = from
      /\ tester' \in [Second!Testers -> TesterPoints]
      /\ \A u \in Second!Testers : tester'[u] = IF u = t THEN to ELSE tester[u]
      /\ UNCHANGED <<main, created, retval, elapsed, setback>>
      /\ Verified'
  BY <1>2, TesterGoes DEF TesterPoints
<1>4. Counted(Second!Testers, tcounters)' = Counted(Second!Testers, tcounters)
  BY <1>2 DEF Counted
<1>5. lock1' \in [Second!Testers -> Int]
  BY <1>1, <1>2
<1>6. TesterTypes'
  BY <1>2, <1>3, <1>4, <1>5 DEF TesterInv, TesterTypes
<1>7. Owning'
  BY <1>2, <1>3 DEF TesterInv, Owning
<1>8. Tallied'
  <2>1. Counting' = Counting
    BY <1>2, <1>3 DEF Counting
  <2>2. QED
    BY <1>2, <2>1, TalliesStay DEF TesterInv
<1>9. Possible'
  <2>1. Second!now' = Second!now
    BY <1>3 DEF Second!now
  <2>2. \A u \in Second!Testers : tnsecs[u] \in Nat /\ elapsed \in Nat
    BY DEF TesterInv, TesterTypes
  <2>3. \A u \in Second!Testers :
          /\ u # t => tester'[u] = tester[u] /\ lock1'[u] = lock1[u]
          /\ tester'[u] \in {"lock", "cs"} /\ u = t => lock1'[u] = Second!now
          /\ tester'[u] \in {"store", "count"} => u # t
    BY <1>1, <1>2, <1>3
  <2>4. QED
    BY <1>1, <1>2, <1>3, <2>1, <2>2, <2>3 DEF TesterInv, Possible
<1>10. QED
  BY <1>3, <1>6, <1>7, <1>8, <1>9 DEF TesterInv

LEMMA LockReturnsKeeps ==
  ASSUME TesterInv, NEW t \in Second!Testers, Second!LockReturns(t)
  PROVE  TesterInv'
<1>1. /\ Second!Goes(t, "lock", "cs") /\ owner = NOBODY /\ owner' = t
      /\ UNCHANGED <<lock1, lock2, tcounters, tnsecs, counter, reg>>
  BY DEF Second!LockReturns
<1>2. /\ tester[t] = "lock"
      /\ tester' \in [Second!Testers -> TesterPoints]
      /\ \A u \in Second!Testers : tester'[u] = IF u = t THEN "cs" ELSE tester[u]
      /\ UNCHANGED <<main, created, retval, elapsed, setback>>
      /\ Verified'
  BY <1>1, TesterGoes DEF TesterPoints
<1>3. Counted(Second!Testers, tcounters)' = Counted(Second!Testers, tcounters)
  BY <1>1 DEF Counted
<1>4. TesterTypes'
  BY <1>1, <1>2, <1>3 DEF TesterInv, TesterTypes
<1>5. Owning'
  <2>1. \A u \in Second!Testers : owner # u
    BY <1>1, SharedCounterAssumption, ProgramsAssumption DEF Second!Testers
  <2>2. QED
    BY <1>1, <1>2, <2>1 DEF TesterInv, Owning
<1>6. Tallied'
  <2>1. Counting' = Counting
    BY <1>2 DEF Counting
  <2>2. QED
    BY <1>1, <2>1, TalliesStay DEF TesterInv
<1>7. Possible'
  <2>1. Second!now' = Second!now
    BY <1>2 DEF Second!now
  <2>2. QED
    BY <1>1, <1>2, <2>1 DEF TesterInv, Possible
<1>8. QED
  BY <1>2, <1>4, <1>5, <1>6, <1>7 DEF TesterInv

LEMMA ReadClockKeeps ==
  ASSUME TesterInv, NEW t \in Second!Testers, Second!ReadClock(t)
  PROVE  TesterInv'
<1>1. /\ Second!Goes(t, "cs", "store")
      /\ lock2' = [lock2 EXCEPT ![t] = Second!now]
      /\ reg' = [reg EXCEPT ![t] = counter]
      /\ UNCHANGED <<lock1, tcounters, tnsecs, owner, counter>>
  BY DEF Second!ReadClock
<1>2. /\ tester[t] = "cs"
      /\ tester' \in [Second!Testers -> TesterPoints]
      /\ \A u \in Second!Testers : tester'[u] = IF u = t THEN "store" ELSE tester[u]
      /\ UNCHANGED <<main, created, retval, elapsed, setback>>
      /\ Verified'
  BY <1>1, TesterGoes DEF TesterPoints
<1>3. Counted(Second!Testers, tcounters)' = Counted(Second!Testers, tcounters)
  BY <1>1 DEF Counted
<1>4. /\ \A u \in Second!Testers : reg'[u] = IF u = t THEN counter ELSE reg[u]
      /\ \A u \in Second!Testers : lock2'[u] = IF u = t THEN Second!now ELSE lock2[u]
      /\ reg' \in [Second!Testers -> Nat] /\ lock2' \in [Second!Testers -> Int]
  BY <1>1, NowIs DEF TesterInv, TesterTypes
<1>5. TesterTypes'
  BY <1>1, <1>2, <1>3, <1>4 DEF TesterInv, TesterTypes
<1>6. Owning'
  BY <1>1, <1>2, <1>4 DEF TesterInv, Owning
<1>7. Tallied'
  <2>1. Counting' = Counting
    BY <1>2 DEF Counting
  <2>2. QED
    BY <1>1, <2>1, TalliesStay DEF TesterInv
<1>8. Possible'
  <2>1. Second!now' = Second!now
    BY <1>2 DEF Second!now
  <2>2. QED
    BY <1>1, <1>2, <1>4, <2>1 DEF TesterInv, Possible
<1>9. QED
  BY <1>2, <1>5, <1>6, <1>7, <1>8 DEF TesterInv

LEMMA UnlockKeeps ==
  ASSUME TesterInv, NEW t \in Second!Testers, Second!Unlock(t)
  PROVE  TesterInv'
<1>1. /\ Second!Goes(t, "store", "count")
      /\ counter' = reg[t] + 1 /\ owner' = NOBODY
      /\ reg' = [reg EXCEPT ![t] = 0]
      /\ UNCHANGED <<lock1, lock2, tcounters, tnsecs>>
  BY DEF Second!Unlock
<1>2. /\ tester[t] = "store"
      /\ tester' \in [Second!Testers -> TesterPoints]
      /\ \A u \in Second!Testers : tester'[u] = IF u = t THEN "count" ELSE tester[u]
      /\ UNCHANGED <<main, created, retval, elapsed, setback>>
      /\ Verified'
  BY <1>1, TesterGoes DEF TesterPoints
<1>3. /\ Counted(Second!Testers, tcounters)' = Counted(Second!Testers, tcounters)
      /\ Cardinality(Counted(Second!Testers, tcounters)) \in Nat
  BY <1>1, FS_CardinalityType DEF Counted, TesterInv, TesterTypes
<1>4. reg[t] = counter /\ counter \in Nat /\ owner = t
  BY <1>2 DEF TesterInv, TesterTypes, Owning
<1>5. TesterTypes'
  <2>1. reg' \in [Second!Testers -> Nat] /\ counter' \in Nat
    BY <1>1, <1>4 DEF TesterInv, TesterTypes
  <2>2. QED
    BY <1>1, <1>2, <1>3, <2>1 DEF TesterInv, TesterTypes
<1>6. Owning'
  <2>1. \A u \in Second!Testers : tester[u] \in {"cs", "store"} => u = t
    BY <1>4 DEF TesterInv, Owning
  <2>2. \A u \in Second!Testers : NOBODY # u
    BY SharedCounterAssumption, ProgramsAssumption DEF Second!Testers
  <2>3. QED
    BY <1>1, <1>2, <2>1, <2>2 DEF Owning
<1>7. Tallied'
  <2>1. Counting' = Counting \cup {t} /\ t \notin Counting
    BY <1>2 DEF Counting
  <2>2. Cardinality(Counting') = Cardinality(Counting) + 1
    BY <2>1, TestersFinite, FS_AddElement
  <2>3. counter' = counter + 1
    BY <1>1, <1>4
  <2>4. QED
    BY <1>3, <2>2, <2>3, TestersFinite DEF TesterInv, Tallied
<1>8. Possible'
  <2>1. Second!now' = Second!now
    BY <1>2 DEF Second!now
  <2>2. QED
    BY <1>1, <1>2, <2>1 DEF TesterInv, Possible
<1>9. QED
  BY <1>2, <1>5, <1>6, <1>7, <1>8 DEF TesterInv

LEMMA TesterCountsUp ==
  ASSUME tcounters \in [Second!Testers -> Nat], NEW t \in Second!Testers,
         \A u \in Second!Testers :
           tcounters'[u] = IF u = t THEN tcounters[t] + 1 ELSE tcounters[u],
         IsFiniteSet(Counted(Second!Testers, tcounters))
  PROVE  /\ IsFiniteSet(Counted(Second!Testers, tcounters'))
         /\ Cardinality(Counted(Second!Testers, tcounters'))
            = Cardinality(Counted(Second!Testers, tcounters)) + 1
BY CountMore

LEMMA CountKeeps ==
  ASSUME TesterInv, NEW t \in Second!Testers, Second!Count(t)
  PROVE  TesterInv'
<1> DEFINE d == IF lock2[t] - lock1[t] < 0 THEN 0 ELSE lock2[t] - lock1[t]
<1>1. /\ lock1[t] \in Int /\ lock2[t] \in Int /\ d \in Nat
      /\ tcounters \in [Second!Testers -> Nat] /\ tnsecs \in [Second!Testers -> Nat]
      /\ elapsed \in Nat
  BY DEF TesterInv, TesterTypes
<1>2. /\ Second!Goes(t, "count", "loop")
      /\ tcounters' = [tcounters EXCEPT ![t] = @ + 1]
      /\ tnsecs' = [tnsecs EXCEPT ![t] = @ + d]
      /\ lock1' = [lock1 EXCEPT ![t] = 0]
      /\ UNCHANGED <<lock2, owner, counter, reg>>
  BY <1>1, Difference DEF Second!Count
<1>3. /\ tester[t] = "count"
      /\ tester' \in [Second!Testers -> TesterPoints]
      /\ \A u \in Second!Testers : tester'[u] = IF u = t THEN "loop" ELSE tester[u]
      /\ UNCHANGED <<main, created, retval, elapsed, setback>>
      /\ Verified'
  BY <1>2, TesterGoes DEF TesterPoints
<1> HIDE DEF d
<1>4. /\ \A u \in Second!Testers :
            tcounters'[u] = IF u = t THEN tcounters[t] + 1 ELSE tcounters[u]
      /\ tcounters' \in [Second!Testers -> Nat]
  BY <1>1, <1>2
<1>5. /\ \A u \in Second!Testers : tnsecs'[u] = IF u = t THEN tnsecs[t] + d ELSE tnsecs[u]
      /\ tnsecs' \in [Second!Testers -> Nat]
  BY <1>1, <1>2
<1>6. /\ \A u \in Second!Testers : lock1'[u] = IF u = t THEN 0 ELSE lock1[u]
      /\ lock1' \in [Second!Testers -> Int]
  BY <1>2 DEF TesterInv, TesterTypes
<1>7. IsFiniteSet(Counted(Second!Testers, tcounters))
      /\ Cardinality(Counted(Second!Testers, tcounters)) \in Nat
  BY FS_CardinalityType DEF TesterInv, TesterTypes
<1>8. /\ IsFiniteSet(Counted(Second!Testers, tcounters'))
      /\ Cardinality(Counted(Second!Testers, tcounters'))
         = Cardinality(Counted(Second!Testers, tcounters)) + 1
  BY <1>1, <1>4, <1>7, TesterCountsUp
<1>9. TesterTypes'
  BY <1>2, <1>3, <1>4, <1>5, <1>6, <1>8 DEF TesterInv, TesterTypes
<1>10. Owning'
  BY <1>2, <1>3 DEF TesterInv, Owning
<1>11. Tallied'
  <2>1. Counting' = Counting \ {t} /\ t \in Counting
    BY <1>3 DEF Counting
  <2>2. Cardinality(Counting') = Cardinality(Counting) - 1
    BY <2>1, TestersFinite, FS_RemoveElement
  <2>3. counter' = counter
    BY <1>2
  <2>4. QED
    BY <1>7, <1>8, <2>2, <2>3, TestersFinite DEF TesterInv, Tallied
<1>12. Possible'
  <2>1. Second!now' = Second!now
    BY <1>3 DEF Second!now
  <2>2. tnsecs[t] + d <= elapsed
    BY <1>1, <1>3 DEF d, TesterInv, Possible
  <2>3. QED
    BY <1>2, <1>3, <1>5, <1>6, <2>1, <2>2 DEF TesterInv, Possible
<1>13. QED
  BY <1>3, <1>9, <1>10, <1>11, <1>12 DEF TesterInv

LEMMA ClockKeeps ==
  ASSUME TesterInv, Second!Tick \/ Second!SetBack
  PROVE  TesterInv'
<1>1. /\ UNCHANGED <<main, created, retval>>
      /\ UNCHANGED <<tester, lock1, lock2, tcounters, tnsecs, owner, counter, reg>>
      /\ elapsed \in Nat /\ setback \in Nat /\ setback <= elapsed
      /\ \/ elapsed' = elapsed + 1 /\ setback' = setback
         \/ setback = 0 /\ elapsed > 0 /\ setback' = 1 /\ elapsed' = elapsed
  BY DEF Second!Tick, Second!SetBack, Second!mainVars, Second!workVars, TesterInv, TesterTypes
<1>2. Counted(Second!Testers, tcounters)' = Counted(Second!Testers, tcounters)
  BY <1>1 DEF Counted
<1>3. elapsed' \in Nat /\ setback' \in Nat /\ setback' <= elapsed'
  BY <1>1
<1>4. TesterTypes'
  BY <1>1, <1>2, <1>3 DEF TesterInv, TesterTypes
<1>5. Owning' /\ Verified'
  BY <1>1 DEF TesterInv, Owning, Verified
<1>6. Tallied'
  <2>1. Counting' = Counting
    BY <1>1 DEF Counting
  <2>2. QED
    BY <1>1, <2>1, TalliesStay DEF TesterInv
<1>7. Possible'
  <2>1. Second!now = 1 + elapsed - setback /\ Second!now' = 1 + elapsed' - setback'
    BY DEF Second!now, Second!Started
  <2>2. \A u \in Second!Testers :
          /\ tnsecs[u] \in Nat /\ lock1[u] \in Int /\ lock2[u] \in Int
          /\ elapsed <= elapsed'
          /\ Second!now' - lock1[u] - elapsed' <= Second!now - lock1[u] - elapsed
    BY <1>1, <2>1 DEF TesterInv, TesterTypes
  <2>3. Second!now \in Int /\ Second!now' \in Int
    BY <1>1, <1>3, <2>1
  <2>4. QED
    BY <1>1, <1>3, <2>2, <2>3 DEF TesterInv, Possible
<1>8. QED
  BY <1>4, <1>5, <1>6, <1>7 DEF TesterInv

\* main() before it reports.
LEMMA TestersMainKeeps ==
  ASSUME TesterInv,
         Second!CreateTester \/ Second!CreateTesterFails \/ Second!JoinTesters
  PROVE  TesterInv'
<1>1. /\ UNCHANGED <<tester, lock1, lock2, tcounters, tnsecs, owner, counter, reg>>
      /\ UNCHANGED <<elapsed, setback, retval>>
  BY DEF Second!CreateTester, Second!CreateTesterFails, Second!JoinTesters,
         Second!workVars, Second!clockVars
<1>2. Counted(Second!Testers, tcounters)' = Counted(Second!Testers, tcounters)
  BY <1>1 DEF Counted
<1>3. /\ created' \in Nat
      /\ \/ main' = "create" /\ created' < NumTesters
         \/ main' = "join" /\ created' = NumTesters
         \/ main' = "report" /\ created' < NumTesters
         \/ main' = "report" /\ \A t \in Second!Testers : tester[t] = "done"
  BY ProgramsAssumption
  DEF Second!CreateTester, Second!CreateTesterFails, Second!JoinTesters,
      TesterInv, TesterTypes
<1>4. TesterTypes'
  BY <1>1, <1>2, <1>3 DEF TesterInv, TesterTypes
<1>5. Owning'
  BY <1>1 DEF TesterInv, Owning
<1>6. Verified'
  BY <1>1, <1>3, ProgramsAssumption DEF Verified
<1>7. Tallied'
  <2>1. Counting' = Counting
    BY <1>1 DEF Counting
  <2>2. QED
    BY <1>1, <2>1, TalliesStay DEF TesterInv
<1>8. Possible'
  <2>1. Second!now' = Second!now
    BY <1>1 DEF Second!now
  <2>2. QED
    BY <1>1, <2>1 DEF TesterInv, Possible
<1>9. QED
  BY <1>4, <1>5, <1>6, <1>7, <1>8 DEF TesterInv

\* When all threads have been joined the sum of their counts is the counter.
LEMMA ReportKeeps ==
  ASSUME TesterInv, Second!Report
  PROVE  TesterInv'
<1>1. /\ UNCHANGED <<tester, lock1, lock2, tcounters, tnsecs, owner, counter, reg>>
      /\ UNCHANGED <<elapsed, setback, created>>
      /\ main = "report" /\ main' = "exit"
      /\ created = NumTesters =>
           retval' = IF Second!FoldFunction(+, 0, tcounters) # counter THEN 1 ELSE 0
  BY DEF Second!Report, Second!workVars, Second!clockVars
<1>2. Counted(Second!Testers, tcounters)' = Counted(Second!Testers, tcounters)
  BY <1>1 DEF Counted
<1>3. created = NumTesters =>
        /\ \A t \in Second!Testers : tester[t] = "done"
        /\ Second!FoldFunction(+, 0, tcounters) = counter
  <2> SUFFICES ASSUME created = NumTesters
        PROVE  /\ \A t \in Second!Testers : tester[t] = "done"
               /\ Second!FoldFunction(+, 0, tcounters) = counter
    OBVIOUS
  <2>1. \A t \in Second!Testers : tester[t] = "done"
    BY <1>1 DEF TesterInv, Verified
  <2>2. Cardinality(Counting) = 0
    <3>1. Counting = {}
      BY <2>1 DEF Counting
    <3>2. QED
      BY <3>1, FS_EmptySet
  <2>3. /\ tcounters \in [Second!Testers -> Nat]
        /\ IsFiniteSet(Counted(Second!Testers, tcounters))
        /\ Cardinality(Counted(Second!Testers, tcounters)) \in Nat
    BY FS_CardinalityType DEF TesterInv, TesterTypes
  <2>4. Second!FoldFunction(+, 0, tcounters)
        = Cardinality(Counted(Second!Testers, tcounters))
    BY <2>3, TestersFinite, SumIsCount
  <2>5. counter = Cardinality(Counted(Second!Testers, tcounters))
    BY <2>2, <2>3 DEF TesterInv, Tallied
  <2>6. QED
    BY <2>1, <2>4, <2>5, Zenon
<1>4. TesterTypes'
  BY <1>1, <1>2 DEF TesterInv, TesterTypes
<1>5. Owning'
  BY <1>1 DEF TesterInv, Owning
<1>6. Verified'
  BY <1>1, <1>3 DEF Verified
<1>7. Tallied'
  <2>1. Counting' = Counting
    BY <1>1 DEF Counting
  <2>2. QED
    BY <1>1, <2>1, TalliesStay DEF TesterInv
<1>8. Possible'
  <2>1. Second!now' = Second!now
    BY <1>1 DEF Second!now
  <2>2. QED
    BY <1>1, <2>1 DEF TesterInv, Possible
<1>9. QED
  BY <1>4, <1>5, <1>6, <1>7, <1>8 DEF TesterInv

LEMMA TesterStep == TesterInv /\ Second!TestNext => TesterInv'
BY AsideKeeps, LockReturnsKeeps, ReadClockKeeps, UnlockKeeps, CountKeeps, ClockKeeps,
   TestersMainKeeps, ReportKeeps
DEF Second!TestNext, Second!TestMain, Second!Tester

LEMMA TesterStays ==
  ASSUME TesterInv, UNCHANGED <<main, created, counter, testerVars>>
  PROVE  TesterInv'
<1>1. /\ UNCHANGED <<tester, lock1, lock2, tcounters, tnsecs, owner, counter, reg>>
      /\ UNCHANGED <<main, created, retval, elapsed, setback>>
  BY DEF testerVars
<1>2. /\ Counted(Second!Testers, tcounters)' = Counted(Second!Testers, tcounters)
      /\ Counting' = Counting /\ Second!now' = Second!now
  BY <1>1 DEF Counted, Counting, Second!now
<1>3. QED
  BY <1>1, <1>2
  DEF TesterInv, TesterTypes, Owning, Tallied, Verified, Possible

LEMMA TesterResult == TesterInv => Second!TalliesAgree
BY DEF TesterInv, Verified, Possible, Second!TalliesAgree

-----------------------------------------------------------------------------
(* Part 3 of project1: the ring is the queue of Fifo                        *)

LEMMA QuotientUnique ==
  ASSUME NEW k \in Nat \ {0}, NEW a \in Nat, NEW b \in Nat,
         NEW u \in 0 .. k-1, NEW v \in 0 .. k-1, k * a + u = k * b + v
  PROVE  a = b
<1>1. ASSUME NEW c \in Nat, NEW d \in Nat, c < d
      PROVE  k * c + k <= k * d
  <2> DEFINE e == d - c - 1
  <2>1. e \in Nat /\ d = c + 1 + e
    BY <1>1
  <2> HIDE DEF e
  <2>2. k * d = k * c + k + k * e /\ k * e \in Nat
    BY <2>1
  <2>3. QED
    BY <2>2
<1>2. k * a \in Nat /\ k * b \in Nat
  OBVIOUS
<1>3. ~ (a < b)
  BY <1>1, <1>2
<1>4. ~ (b < a)
  BY <1>1, <1>2
<1>5. QED
  BY <1>3, <1>4

\* Two indices that are less than the capacity apart have places of their own.
LEMMA PlacesDiffer ==
  ASSUME NEW a \in Nat, NEW b \in Nat, a < b, b < a + Capacity
  PROVE  a % Capacity # b % Capacity
<1> SUFFICES ASSUME a % Capacity = b % Capacity PROVE FALSE
  OBVIOUS
<1> DEFINE k == Capacity
           c == a \div k
           d == b \div k
           e == a % k
<1>1. k \in Nat \ {0}
  BY ProducerConsumerAssumption
<1>2. c \in Nat /\ d \in Nat /\ e \in 0 .. k-1
  BY <1>1
<1>3. a = k * c + e /\ b = k * d + e
  BY <1>1
<1> HIDE DEF k, c, d, e
<1>4. b - a \in 0 .. k-1 /\ k * c + (b - a) = k * d + 0
  BY <1>1, <1>2, <1>3 DEF k
<1>5. c = d
  BY <1>1, <1>2, <1>4, QuotientUnique
<1>6. QED
  BY <1>1, <1>2, <1>3, <1>5

LEMMA PlaceInRing ==
  ASSUME NEW a \in Nat
  PROVE  a % Capacity \in 0 .. Capacity - 1
BY ProducerConsumerAssumption

RingPoints == {"call", "wait", "asleep", "woken", "signal", "transfer", "unlock",
               "access", "advance", "done"}

\* Where a thread has the mutex; where it has seen that it need not wait; where
\* its item has been written or read.
Holding == {"wait", "signal", "transfer", "unlock"}
Sure == {"signal", "transfer", "unlock", "access", "advance"}
InHand == {"unlock", "advance"}

RingTypes ==
  /\ todo \in Seq(Kinds) /\ q \in Kinds \cup {NONE}
  /\ head_ \in Nat /\ tail_ \in Nat
  /\ items \in [0 .. Capacity - 1 -> Nat \cup {NONE}]
  /\ at \in [Roles -> RingPoints]
  /\ calls \in [Roles -> Nat]
  /\ received \in Seq(Nat \cup {NONE}) /\ x \in Nat \cup {NONE}

\* The indices count the calls that have returned.
Numbered ==
  /\ head_ = calls["consumer"] /\ tail_ = calls["producer"]
  /\ Len(received) = head_

\* There is neither less than nothing in the ring nor more than its places.
Bounded == head_ <= tail_ /\ tail_ <= head_ + Capacity

\* A thread is done when it has made its calls; a queue is deleted after that.
Calling ==
  /\ q # NONE => \A r \in Roles :
       /\ calls[r] <= NumItems
       /\ at[r] = "done" <=> calls[r] = NumItems
  /\ q = NONE =>
       /\ \A r \in Roles : at[r] = "done"
       /\ \/ head_ = NumItems
          \/ head_ = 0 /\ tail_ = 0

MutexHeld == \A r \in Roles : at[r] \in Holding <=> holder = r

\* Nobody goes on while he is blocked; a thread that has been woken is not, or
\* the other one, who has the mutex, is about to see to that.
NotBlocked ==
  \A r \in Roles :
    /\ at[r] \in Sure => ~Blocked(r)
    /\ at[r] = "woken" =>
         ~Blocked(r) \/ \E s \in Roles : s # r /\ at[s] \in {"transfer", "unlock"}

\* The item of the call is in its place, or comes from there.
InPlace ==
  /\ at["producer"] \in InHand => items[tail_ % Capacity] = tail_
  /\ at["consumer"] \in InHand => x = items[head_ % Capacity]

\* What holds of the ring until a wait returns without a signal.
Tidy == unsignalled = {} => Bounded /\ NotBlocked /\ InPlace

RingInv == RingTypes /\ Numbered /\ Calling /\ MutexHeld /\ Tidy

LEMMA TheRoles ==
  /\ "producer" \in Roles /\ "consumer" \in Roles /\ "producer" # "consumer"
  /\ \A r \in Roles : r = "producer" \/ r = "consumer"
  /\ NONE \notin Roles
BY ProducerConsumerAssumption DEF Roles

LEMMA RingStarts ==
  ASSUME NEW kinds \in Seq(Kinds), QueueInit(kinds)
  PROVE  RingInv
<1>1. RingTypes
  BY ProducerConsumerAssumption DEF QueueInit, RingTypes, RingPoints
<1>2. /\ \A r \in Roles : at[r] = "done" /\ calls[r] = 0
      /\ head_ = 0 /\ tail_ = 0 /\ received = << >> /\ holder = NONE /\ q = NONE
  BY DEF QueueInit
<1>3. QED
  BY <1>1, <1>2, TheRoles, ProducerConsumerAssumption
  DEF RingInv, Numbered, Calling, MutexHeld, Tidy, Bounded, NotBlocked, InPlace, Holding,
      Sure, InHand

LEMMA RunKeeps == RingInv /\ RunQueue => RingInv'
<1> SUFFICES ASSUME RingInv, RunQueue PROVE RingInv'
  OBVIOUS
<1>1. /\ q = NONE /\ q' \in Kinds /\ todo' \in Seq(Kinds)
      /\ head_' = 0 /\ tail_' = 0 /\ received' = << >>
      /\ items' = [k \in 0 .. Capacity - 1 |-> NONE]
      /\ calls' = [r \in Roles |-> 0] /\ at' = [r \in Roles |-> Begin(0)]
      /\ UNCHANGED <<holder, x>>
  BY DEF RunQueue, NewQueue, RingInv, RingTypes
<1>2. /\ Begin(0) \in {"call", "done"} /\ q' # NONE
      /\ Begin(0) = "done" <=> 0 = NumItems
  BY <1>1, ProducerConsumerAssumption DEF Begin
<1>3. RingTypes'
  BY <1>1, <1>2 DEF RingInv, RingTypes, RingPoints
<1>4. MutexHeld'
  <2>1. \A r \in Roles : at[r] = "done"
    BY <1>1 DEF RingInv, Calling
  <2>2. \A r \in Roles : holder # r
    BY <2>1 DEF RingInv, MutexHeld, Holding
  <2>3. QED
    BY <1>1, <1>2, <2>2 DEF MutexHeld, Holding
<1>5. QED
  BY <1>1, <1>2, <1>3, <1>4, TheRoles, ProducerConsumerAssumption
  DEF RingInv, Numbered, Calling, Tidy, Bounded, NotBlocked, InPlace, Sure, InHand

LEMMA DeleteKeeps == RingInv /\ DeleteQueue => RingInv'
<1> SUFFICES ASSUME RingInv, DeleteQueue PROVE RingInv'
  OBVIOUS
<1>1. /\ q # NONE /\ q' = NONE /\ \A r \in Roles : at[r] = "done"
      /\ UNCHANGED <<todo, head_, tail_, items, holder, at, calls, x, received,
                     unsignalled>>
  BY DEF DeleteQueue
<1>2. head_ = NumItems
  BY <1>1, TheRoles DEF RingInv, Calling, Numbered
<1>3. QED
  BY <1>1, <1>2
  DEF RingInv, RingTypes, Numbered, Calling, MutexHeld, Tidy, Bounded, NotBlocked, InPlace,
      Blocked, Full, Nothing

LEMMA RingMoves ==
  ASSUME RingTypes, NEW r \in Roles, NEW from, NEW to \in RingPoints, Moves(r, from, to)
  PROVE  /\ at[r] = from /\ at' \in [Roles -> RingPoints]
         /\ \A s \in Roles : at'[s] = IF s = r THEN to ELSE at[s]
BY DEF RingTypes, Moves

\* A step that leaves the ring alone.
LEMMA AsideKeepsRing ==
  ASSUME RingInv, NEW r \in Roles, NEW from \in RingPoints \ {"done", "transfer", "unlock"},
         NEW to \in {"call", "wait", "asleep", "signal", "access"},
         Moves(r, from, to), unsignalled = {} /\ to \in Sure => ~Blocked(r), MutexHeld',
         UNCHANGED <<todo, q, head_, tail_, items, calls, x, received, unsignalled>>
  PROVE  RingInv'
<1>1. /\ at[r] = from /\ at' \in [Roles -> RingPoints]
      /\ \A s \in Roles : at'[s] = IF s = r THEN to ELSE at[s]
  BY RingMoves DEF RingInv, RingPoints
<1>2. RingTypes' /\ Numbered'
  BY <1>1 DEF RingInv, RingTypes, Numbered
<1>3. Calling'
  BY <1>1 DEF RingInv, Calling
<1>4. unsignalled = {} => NotBlocked'
  <2>1. \A s \in Roles : Blocked(s)' = Blocked(s)
    BY DEF Blocked, Full, Nothing
  <2>2. QED
    BY <1>1, <2>1 DEF RingInv, Tidy, NotBlocked
<1>5. unsignalled = {} => Bounded' /\ InPlace'
  BY <1>1, TheRoles DEF RingInv, Tidy, Bounded, InPlace, InHand
<1>6. QED
  BY <1>2, <1>3, <1>4, <1>5 DEF RingInv, Tidy

LEMMA LockKeepsRing == ASSUME RingInv, NEW r \in Roles, Lock(r) PROVE RingInv'
<1> DEFINE to == IF Blocked(r) THEN "wait" ELSE "signal"
<1>1. /\ Moves(r, "call", to) /\ holder = NONE /\ holder' = r
      /\ UNCHANGED <<todo, q, head_, tail_, items, calls, x, received, unsignalled>>
  BY DEF Lock
<1>2. /\ to \in {"call", "wait", "asleep", "signal", "access"} /\ to \in RingPoints
      /\ to \in Sure => ~Blocked(r)
      /\ to \in Holding
  BY DEF Sure, Holding, RingPoints
<1> HIDE DEF to
<1>3. \A s \in Roles : at'[s] = IF s = r THEN to ELSE at[s]
  BY <1>1, <1>2, RingMoves DEF RingInv
<1>4. MutexHeld'
  BY <1>1, <1>2, <1>3, TheRoles DEF RingInv, MutexHeld
<1>5. QED
  BY <1>1, <1>2, <1>4, AsideKeepsRing DEF RingPoints

LEMMA WaitKeepsRing == ASSUME RingInv, NEW r \in Roles, Wait(r) PROVE RingInv'
<1>1. /\ Moves(r, "wait", "asleep") /\ holder' = NONE
      /\ UNCHANGED <<todo, q, head_, tail_, items, calls, x, received, unsignalled>>
  BY DEF Wait
<1>2. at[r] = "wait" /\ \A s \in Roles : at'[s] = IF s = r THEN "asleep" ELSE at[s]
  BY <1>1, RingMoves DEF RingInv, RingPoints
<1>3. MutexHeld'
  BY <1>1, <1>2, TheRoles DEF RingInv, MutexHeld, Holding
<1>4. QED
  BY <1>1, <1>3, AsideKeepsRing DEF RingPoints, Sure

LEMMA ResumeKeepsRing == ASSUME RingInv, NEW r \in Roles, Resume(r) PROVE RingInv'
<1>1. /\ Moves(r, "woken", "signal") /\ holder = NONE /\ holder' = r
      /\ UNCHANGED <<todo, q, head_, tail_, items, calls, x, received, unsignalled>>
  BY DEF Resume
<1>2. at[r] = "woken" /\ \A s \in Roles : at'[s] = IF s = r THEN "signal" ELSE at[s]
  BY <1>1, RingMoves DEF RingInv, RingPoints
<1>3. \A s \in Roles : at[s] \notin Holding
  BY <1>1, TheRoles DEF RingInv, MutexHeld
<1>4. MutexHeld'
  BY <1>1, <1>2, <1>3 DEF MutexHeld, Holding
<1>5. unsignalled = {} => ~Blocked(r)
  BY <1>2, <1>3 DEF RingInv, Tidy, NotBlocked, Holding
<1>6. QED
  BY <1>1, <1>4, <1>5, AsideKeepsRing DEF RingPoints

\* After a wake-up without a signal nothing is promised of the ring.
LEMMA WakeUpKeepsRing == ASSUME RingInv, NEW r \in Roles, WakeUp(r) PROVE RingInv'
<1>1. /\ Moves(r, "asleep", "woken") /\ unsignalled' = unsignalled \cup {r}
      /\ UNCHANGED <<todo, q, head_, tail_, items, holder, calls, x, received>>
  BY DEF WakeUp
<1>2. /\ at[r] = "asleep" /\ at' \in [Roles -> RingPoints]
      /\ \A s \in Roles : at'[s] = IF s = r THEN "woken" ELSE at[s]
  BY <1>1, RingMoves DEF RingInv, RingPoints
<1>3. RingTypes' /\ Numbered'
  BY <1>1, <1>2 DEF RingInv, RingTypes, Numbered
<1>4. Calling'
  BY <1>1, <1>2 DEF RingInv, Calling
<1>5. MutexHeld'
  BY <1>1, <1>2 DEF RingInv, MutexHeld, Holding
<1>6. QED
  BY <1>1, <1>3, <1>4, <1>5 DEF RingInv, Tidy

LEMMA SpinKeepsRing == ASSUME RingInv, NEW r \in Roles, Spin(r) PROVE RingInv'
<1> DEFINE to == IF Blocked(r) THEN "call" ELSE "access"
<1>1. /\ Moves(r, "call", to)
      /\ UNCHANGED <<todo, q, head_, tail_, items, holder, calls, x, received,
                     unsignalled>>
  BY DEF Spin
<1>2. /\ to \in {"call", "wait", "asleep", "signal", "access"} /\ to \in RingPoints
      /\ to \in Sure => ~Blocked(r)
      /\ to \notin Holding
  BY DEF Sure, Holding, RingPoints
<1> HIDE DEF to
<1>3. at[r] = "call" /\ \A s \in Roles : at'[s] = IF s = r THEN to ELSE at[s]
  BY <1>1, <1>2, RingMoves DEF RingInv
<1>4. MutexHeld'
  BY <1>1, <1>2, <1>3 DEF RingInv, MutexHeld, Holding
<1>5. QED
  BY <1>1, <1>2, <1>4, AsideKeepsRing DEF RingPoints

LEMMA SignalKeepsRing == ASSUME RingInv, NEW r \in Roles, Signal(r) PROVE RingInv'
<1>1. /\ at[r] = "signal"
      /\ at' = [s \in Roles |->
                  CASE s = r -> "transfer"
                    [] s # r /\ Boundary(r) /\ at[s] = "asleep" -> "woken"
                    [] OTHER -> at[s]]
      /\ UNCHANGED <<todo, q, head_, tail_, items, holder, calls, x, received,
                     unsignalled>>
  BY DEF Signal
<1>2. /\ at'[r] = "transfer"
      /\ \A s \in Roles : s # r => at'[s] = at[s] \/ (at[s] = "asleep" /\ at'[s] = "woken")
      /\ at' \in [Roles -> RingPoints]
  BY <1>1 DEF RingInv, RingTypes, RingPoints
<1>3. RingTypes' /\ Numbered'
  BY <1>1, <1>2 DEF RingInv, RingTypes, Numbered
<1>4. Calling'
  BY <1>1, <1>2 DEF RingInv, Calling
<1>5. MutexHeld'
  BY <1>1, <1>2 DEF RingInv, MutexHeld, Holding
<1>6. unsignalled = {} => NotBlocked'
  <2>1. \A s \in Roles : Blocked(s)' = Blocked(s)
    BY <1>1 DEF Blocked, Full, Nothing
  <2>2. QED
    BY <1>1, <1>2, <2>1 DEF RingInv, Tidy, NotBlocked, Sure
<1>7. unsignalled = {} => Bounded' /\ InPlace'
  BY <1>1, <1>2, TheRoles DEF RingInv, Tidy, Bounded, InPlace, InHand
<1>8. QED
  BY <1>1, <1>3, <1>4, <1>5, <1>6, <1>7 DEF RingInv, Tidy

\* The item goes into its place, or is read there; the other thread's item has
\* another place.
LEMMA TransferKeepsRing ==
  ASSUME RingInv, NEW r \in Roles, LockedTransfer(r) \/ Access(r)
  PROVE  RingInv'
<1>1. PICK from, to : /\ Moves(r, from, to) /\ Transfer(r)
                      /\ \/ from = "transfer" /\ to = "unlock"
                         \/ from = "access" /\ to = "advance"
                      /\ UNCHANGED <<todo, q, head_, tail_, holder, calls, received, unsignalled>>
  BY DEF LockedTransfer, Access
<1>2. /\ at[r] = from /\ at' \in [Roles -> RingPoints]
      /\ \A s \in Roles : at'[s] = IF s = r THEN to ELSE at[s]
  BY <1>1, RingMoves DEF RingInv, RingPoints
<1>3. /\ head_ \in Nat /\ tail_ \in Nat /\ items \in [0 .. Capacity - 1 -> Nat \cup {NONE}]
      /\ x \in Nat \cup {NONE}
      /\ calls["producer"] = tail_ /\ Capacity \in Nat \ {0}
      /\ unsignalled = {} => head_ <= tail_ /\ tail_ <= head_ + Capacity
  BY ProducerConsumerAssumption DEF RingInv, RingTypes, Numbered, Tidy, Bounded
<1>4. unsignalled = {} => ~Blocked(r)
  BY <1>1, <1>2 DEF RingInv, Tidy, NotBlocked, Sure
<1>5. tail_ % Capacity \in 0 .. Capacity - 1 /\ head_ % Capacity \in 0 .. Capacity - 1
  BY <1>3, PlaceInRing
<1>6. /\ items' \in [0 .. Capacity - 1 -> Nat \cup {NONE}] /\ x' \in Nat \cup {NONE}
  BY <1>1, <1>3, <1>5, TheRoles DEF Transfer
<1>7. RingTypes' /\ Numbered'
  BY <1>1, <1>2, <1>6 DEF RingInv, RingTypes, Numbered
<1>8. Calling'
  BY <1>1, <1>2 DEF RingInv, Calling
<1>9. MutexHeld'
  BY <1>1, <1>2 DEF RingInv, MutexHeld, Holding
<1>10. unsignalled = {} => Bounded' /\ NotBlocked'
  <2>1. \A s \in Roles : Blocked(s)' = Blocked(s)
    BY <1>1 DEF Blocked, Full, Nothing
  <2>2. QED
    BY <1>1, <1>2, <1>3, <1>4, <2>1 DEF RingInv, Tidy, Bounded, NotBlocked, Sure
<1>11. ASSUME unsignalled = {} PROVE InPlace'
  <2>1. CASE r = "producer"
    <3>1. /\ items' = [items EXCEPT ![tail_ % Capacity] = tail_] /\ x' = x
          /\ tail_ # head_ + Capacity
      BY <1>1, <1>3, <1>4, <1>11, <2>1 DEF Transfer, Blocked, Full
    <3>2. items'[tail_ % Capacity] = tail_
      BY <1>3, <1>5, <3>1
    <3>3. at["consumer"] \in InHand => items'[head_ % Capacity] = items[head_ % Capacity]
      <4> SUFFICES ASSUME at["consumer"] \in InHand
                   PROVE  items'[head_ % Capacity] = items[head_ % Capacity]
        OBVIOUS
      <4>1. tail_ # head_
        BY <1>11, TheRoles DEF RingInv, Tidy, NotBlocked, Sure, InHand, Blocked, Nothing
      <4>2. head_ < tail_ /\ tail_ < head_ + Capacity
        BY <1>3, <1>11, <3>1, <4>1
      <4>3. head_ % Capacity # tail_ % Capacity
        BY <1>3, <4>2, PlacesDiffer
      <4>4. QED
        BY <1>3, <1>5, <3>1, <4>3
    <3>4. at'["consumer"] = at["consumer"]
      BY <1>2, <2>1, TheRoles
    <3>5. QED
      BY <1>1, <1>11, <3>1, <3>2, <3>3, <3>4 DEF RingInv, Tidy, InPlace
  <2>2. CASE r = "consumer"
    BY <1>1, <1>2, <1>11, <2>2, TheRoles DEF Transfer, RingInv, Tidy, InPlace
  <2>3. QED
    BY <2>1, <2>2, TheRoles
<1>12. QED
  BY <1>1, <1>7, <1>8, <1>9, <1>10, <1>11 DEF RingInv, Tidy

\* The call returns.
AdvanceStep(r) ==
  \E from \in InHand :
    /\ CallReturns(r, from) /\ Advance(r)
    /\ holder' = IF from = "unlock" THEN NONE ELSE holder
    /\ UNCHANGED <<todo, q, items, unsignalled>>

LEMMA AppendFacts ==
  ASSUME NEW S, NEW s \in Seq(S), NEW e \in S
  PROVE  /\ Append(s, e) \in Seq(S) /\ Len(Append(s, e)) = Len(s) + 1
         /\ Len(s) \in Nat
OBVIOUS

LEMMA AdvanceKeepsRing ==
  ASSUME RingInv, NEW r \in Roles, AdvanceStep(r)
  PROVE  RingInv'
<1>1. PICK from \in InHand : /\ CallReturns(r, from) /\ Advance(r)
                             /\ holder' = IF from = "unlock" THEN NONE ELSE holder
                             /\ UNCHANGED <<todo, q, items, unsignalled>>
  BY DEF AdvanceStep
<1> DEFINE to == Begin(calls[r] + 1)
<1>2. /\ calls \in [Roles -> Nat] /\ NumItems \in Nat /\ Capacity \in Nat \ {0}
      /\ head_ \in Nat /\ tail_ \in Nat /\ items \in [0 .. Capacity - 1 -> Nat \cup {NONE}]
      /\ received \in Seq(Nat \cup {NONE}) /\ x \in Nat \cup {NONE}
      /\ Len(received) = head_
      /\ head_ = calls["consumer"] /\ tail_ = calls["producer"]
      /\ unsignalled = {} => head_ <= tail_ /\ tail_ <= head_ + Capacity
  BY ProducerConsumerAssumption DEF RingInv, RingTypes, Numbered, Tidy, Bounded
<1>3. /\ to \in {"call", "done"}
      /\ to = "done" <=> ~(calls[r] + 1 < NumItems)
      /\ to \in RingPoints
  BY DEF Begin, RingPoints
<1>4. Moves(r, from, to) /\ calls' = [calls EXCEPT ![r] = @ + 1]
  BY <1>1 DEF CallReturns
<1> HIDE DEF to
<1>5. /\ at[r] = from /\ at' \in [Roles -> RingPoints]
      /\ \A s \in Roles : at'[s] = IF s = r THEN to ELSE at[s]
  BY <1>3, <1>4, RingMoves DEF RingInv
<1>6. /\ calls' \in [Roles -> Nat]
      /\ \A s \in Roles : calls'[s] = IF s = r THEN calls[r] + 1 ELSE calls[s]
  BY <1>2, <1>4
<1>7. unsignalled = {} => ~Blocked(r)
  BY <1>5 DEF RingInv, Tidy, NotBlocked, Sure, InHand
<1>8. /\ r = "producer" =>
           /\ tail_' = tail_ + 1 /\ head_' = head_ /\ received' = received /\ x' = x
           /\ unsignalled = {} => tail_ # head_ + Capacity
      /\ r = "consumer" =>
           /\ head_' = head_ + 1 /\ tail_' = tail_ /\ x' = NONE
           /\ received' = Append(received, x)
           /\ unsignalled = {} => tail_ # head_
  BY <1>1, <1>2, <1>7, TheRoles DEF Advance, Blocked, Full, Nothing
<1>9. /\ head_' \in Nat /\ tail_' \in Nat /\ x' \in Nat \cup {NONE}
      /\ received' \in Seq(Nat \cup {NONE}) /\ Len(received') = head_'
      /\ head_' = calls'["consumer"] /\ tail_' = calls'["producer"]
  <2>1. /\ calls'["producer"] = IF r = "producer" THEN tail_ + 1 ELSE tail_
        /\ calls'["consumer"] = IF r = "consumer" THEN head_ + 1 ELSE head_
    BY <1>2, <1>6, TheRoles
  <2>2. CASE r = "producer"
    BY <1>2, <1>8, <2>1, <2>2, TheRoles
  <2>3. CASE r = "consumer"
    <3>1. /\ Append(received, x) \in Seq(Nat \cup {NONE})
          /\ Len(Append(received, x)) = Len(received) + 1
      BY <1>2, AppendFacts
    <3>2. head_' = head_ + 1 /\ tail_' = tail_ /\ x' = NONE
      BY <1>8, <2>3
    <3>3. received' \in Seq(Nat \cup {NONE}) /\ Len(received') = head_ + 1
      BY <1>2, <1>8, <2>3, <3>1
    <3>4. QED
      BY <1>2, <2>1, <2>3, <3>2, <3>3, TheRoles
  <2>4. QED
    BY <2>2, <2>3, TheRoles
<1>10. RingTypes' /\ Numbered'
  BY <1>1, <1>2, <1>5, <1>6, <1>9 DEF RingInv, RingTypes, Numbered
<1>11. Calling'
  <2>1. q # NONE /\ q' = q
    BY <1>1, <1>5 DEF RingInv, Calling, InHand
  <2>2. \A s \in Roles : calls[s] <= NumItems /\ (at[s] = "done" <=> calls[s] = NumItems)
    BY <2>1 DEF RingInv, Calling
  <2>3. calls[r] # NumItems /\ calls[r] \in Nat
    BY <1>2, <1>5, <2>2 DEF InHand
  <2>4. calls[r] + 1 <= NumItems /\ (to = "done" <=> calls[r] + 1 = NumItems)
    BY <1>2, <1>3, <2>2, <2>3
  <2>5. QED
    BY <1>5, <1>6, <2>1, <2>2, <2>4, ProducerConsumerAssumption DEF Calling
<1>12. MutexHeld'
  <2>1. \A s \in Roles : at[s] \in Holding <=> holder = s
    BY DEF RingInv, MutexHeld
  <2>2. at'[r] \notin Holding /\ \A s \in Roles : s # r => at'[s] = at[s]
    BY <1>3, <1>5 DEF Holding
  <2>3. CASE from = "unlock"
    <3>1. holder = r /\ holder' = NONE
      BY <1>1, <1>5, <2>1, <2>3 DEF Holding
    <3>2. \A s \in Roles : at'[s] \notin Holding /\ holder' # s
      BY <2>1, <2>2, <3>1, TheRoles
    <3>3. QED
      BY <3>2 DEF MutexHeld
  <2>4. CASE from = "advance"
    <3>1. holder # r /\ holder' = holder
      BY <1>1, <1>5, <2>1, <2>4 DEF Holding
    <3>2. QED
      BY <2>1, <2>2, <3>1 DEF MutexHeld
  <2>5. QED
    BY <1>1, <2>3, <2>4 DEF InHand
<1>13. unsignalled = {} => Bounded'
  BY <1>2, <1>8, TheRoles DEF Bounded
<1>14. unsignalled = {} => NotBlocked'
  <2>1. unsignalled = {} => \A s \in Roles : s # r => ~Blocked(s)'
    BY <1>2, <1>8, TheRoles DEF Blocked, Full, Nothing
  <2>2. QED
    BY <1>3, <1>5, <2>1 DEF NotBlocked, Sure
<1>15. unsignalled = {} => InPlace'
  BY <1>1, <1>3, <1>5, <1>8, TheRoles DEF RingInv, Tidy, InPlace, InHand
<1>16. QED
  BY <1>1, <1>10, <1>11, <1>12, <1>13, <1>14, <1>15 DEF RingInv, Tidy

LEMMA ReturnsAdvance ==
  \A r \in Roles : Unlock(r) \/ Publish(r) => AdvanceStep(r)
BY DEF Unlock, Publish, AdvanceStep, InHand

LEMMA RingStep == RingInv /\ QueueNext => RingInv'
BY RunKeeps, DeleteKeeps, LockKeepsRing, WaitKeepsRing, WakeUpKeepsRing, ResumeKeepsRing,
   SpinKeepsRing, SignalKeepsRing, TransferKeepsRing, AdvanceKeepsRing, ReturnsAdvance
DEF QueueNext, QueueMain, QueueThread

LEMMA RingStays == RingInv /\ UNCHANGED queueVars => RingInv'
BY DEF queueVars, RingInv, RingTypes, Numbered, Calling, MutexHeld, Tidy, Bounded, NotBlocked,
       InPlace, Blocked, Full, Nothing

LEMMA SameSeq ==
  ASSUME NEW S, NEW s \in Seq(S), NEW t \in Seq(S), Len(s) = Len(t),
         \A k \in 1 .. Len(s) : s[k] = t[k]
  PROVE  s = t
<1>1. s \in [1 .. Len(s) -> S] /\ t \in [1 .. Len(t) -> S]
  OBVIOUS
<1>2. QED
  BY <1>1

LEMMA AppendIs ==
  ASSUME NEW S, NEW s \in Seq(S), NEW e \in S
  PROVE  /\ Append(s, e) \in Seq(S) /\ Len(Append(s, e)) = Len(s) + 1
         /\ Append(s, e)[Len(s) + 1] = e
         /\ \A k \in 1 .. Len(s) : Append(s, e)[k] = s[k]
OBVIOUS

LEMMA TailIs ==
  ASSUME NEW S, NEW s \in Seq(S), Len(s) # 0
  PROVE  /\ s # << >> /\ Head(s) = s[1]
         /\ Tail(s) \in Seq(S) /\ Len(Tail(s)) = Len(s) - 1
         /\ \A k \in 1 .. Len(s) - 1 : Tail(s)[k] = s[k + 1]
OBVIOUS
-----------------------------------------------------------------------------
(* Part 3: the steps of the queue are those of Fifo                          *)

\* The items between two indices, in order.
RingOf(its, h, t) == [k \in 1 .. t - h |-> its[(h + k - 1) % Capacity]]

Ring == RingOf(items, head_, tail_)

\* What of the state Fifo shows is the same.
SameRing == UNCHANGED <<items, head_, tail_, received>>

LEMMA RingStutters ==
  ASSUME SameRing
  PROVE  UNCHANGED <<Ring, tail_, received>>
BY DEF SameRing, Ring, RingOf

LEMMA RingIsSeq ==
  ASSUME NEW h \in Nat, NEW t \in Nat, h <= t,
         NEW its \in [0 .. Capacity - 1 -> Nat \cup {NONE}]
  PROVE  /\ RingOf(its, h, t) \in Seq(Nat \cup {NONE})
         /\ Len(RingOf(its, h, t)) = t - h /\ t - h \in Nat
         /\ \A k \in 1 .. t - h : RingOf(its, h, t)[k] = its[(h + k - 1) % Capacity]
<1>1. t - h \in Nat
  OBVIOUS
<1>2. \A k \in 1 .. t - h : h + k - 1 \in Nat
  BY <1>1
<1>3. \A k \in 1 .. t - h : (h + k - 1) % Capacity \in 0 .. Capacity - 1
  BY <1>2, PlaceInRing
<1>4. \A k \in 1 .. t - h : its[(h + k - 1) % Capacity] \in Nat \cup {NONE}
  BY <1>3
<1>5. QED
  BY <1>1, <1>4 DEF RingOf

\* An item that goes into its place is not yet in the queue.
LEMMA TransferHidden ==
  ASSUME RingInv, unsignalled = {}, NEW r \in Roles, LockedTransfer(r) \/ Access(r)
  PROVE  UNCHANGED <<Ring, tail_, received>>
<1>1. Transfer(r) /\ UNCHANGED <<head_, tail_, received>>
  BY DEF LockedTransfer, Access
<1>2. at[r] \in Sure
  BY DEF LockedTransfer, Access, Moves, Sure
<1>3. /\ head_ \in Nat /\ tail_ \in Nat /\ Capacity \in Nat \ {0}
      /\ head_ <= tail_ /\ tail_ <= head_ + Capacity
      /\ items \in [0 .. Capacity - 1 -> Nat \cup {NONE}]
      /\ ~Blocked(r)
  BY <1>2, ProducerConsumerAssumption
  DEF RingInv, RingTypes, Numbered, Tidy, Bounded, NotBlocked
<1>4. CASE r = "producer"
  <2>1. items' = [items EXCEPT ![tail_ % Capacity] = calls[r]] /\ tail_ - head_ # Capacity
    BY <1>1, <1>3, <1>4 DEF Transfer, Blocked, Full
  <2>2. \A k \in 1 .. tail_ - head_ :
          items'[(head_ + k - 1) % Capacity] = items[(head_ + k - 1) % Capacity]
    <3> SUFFICES ASSUME NEW k \in 1 .. tail_ - head_
                 PROVE  items'[(head_ + k - 1) % Capacity] = items[(head_ + k - 1) % Capacity]
      OBVIOUS
    <3> DEFINE j == head_ + k - 1
    <3>1. j \in Nat /\ j < tail_ /\ tail_ < j + Capacity
      BY <1>3, <2>1
    <3> HIDE DEF j
    <3>2. j % Capacity # tail_ % Capacity
      BY <1>3, <3>1, PlacesDiffer
    <3>3. j % Capacity \in 0 .. Capacity - 1
      BY <3>1, PlaceInRing
    <3>4. items'[j % Capacity] = items[j % Capacity]
      BY <1>3, <2>1, <3>2, <3>3
    <3>5. QED
      BY <3>4 DEF j
  <2>3. QED
    BY <1>1, <2>2 DEF Ring, RingOf
<1>5. CASE r = "consumer"
  BY <1>1, <1>5, RingStutters DEF Transfer, SameRing
<1>6. QED
  BY <1>4, <1>5, TheRoles

LEMMA Enqueues ==
  ASSUME RingInv, unsignalled = {}, AdvanceStep("producer")
  PROVE  Queue!Enqueue
<1>1. PICK from \in InHand : /\ CallReturns("producer", from) /\ Advance("producer")
                             /\ UNCHANGED <<todo, q, items, unsignalled>>
  BY DEF AdvanceStep
<1>2. at["producer"] = from
  BY <1>1 DEF CallReturns, Moves
<1>3. tail_' = tail_ + 1 /\ UNCHANGED <<head_, received, items>>
  BY <1>1 DEF Advance
<1>4. /\ head_ \in Nat /\ tail_ \in Nat /\ Capacity \in Nat \ {0} /\ NumItems \in Nat
      /\ head_ <= tail_ /\ tail_ <= head_ + Capacity /\ tail_ = calls["producer"]
      /\ items[tail_ % Capacity] = tail_ /\ tail_ # head_ + Capacity
      /\ tail_ # NumItems /\ tail_ <= NumItems
  <2>1. ~Blocked("producer") /\ items[tail_ % Capacity] = tail_
    BY <1>2, TheRoles DEF RingInv, Tidy, NotBlocked, InPlace, InHand, Sure
  <2>2. head_ \in Nat /\ tail_ \in Nat /\ Capacity \in Nat \ {0} /\ NumItems \in Nat
        /\ head_ <= tail_ /\ tail_ <= head_ + Capacity /\ tail_ = calls["producer"]
    BY ProducerConsumerAssumption DEF RingInv, RingTypes, Numbered, Tidy, Bounded
  <2>3. tail_ # head_ + Capacity
    BY <2>1, <2>2 DEF Blocked, Full
  <2>4. q # NONE /\ at["producer"] # "done"
    BY <1>2, TheRoles DEF RingInv, Calling, InHand
  <2>5. tail_ # NumItems /\ tail_ <= NumItems
    BY <2>2, <2>4, TheRoles DEF RingInv, Calling
  <2>6. QED
    BY <2>1, <2>2, <2>3, <2>5
<1>5. items \in [0 .. Capacity - 1 -> Nat \cup {NONE}]
  BY DEF RingInv, RingTypes
<1>6. /\ Ring \in Seq(Nat \cup {NONE}) /\ Len(Ring) = tail_ - head_
      /\ \A k \in 1 .. tail_ - head_ : Ring[k] = items[(head_ + k - 1) % Capacity]
  <2>1. head_ \in Nat /\ tail_ \in Nat /\ head_ <= tail_
    BY <1>4
  <2>2. QED
    BY <1>5, <2>1, RingIsSeq DEF Ring
<1>7. tail_ < NumItems /\ Len(Ring) < Capacity
  <2>1. /\ head_ \in Nat /\ tail_ \in Nat /\ Capacity \in Nat /\ NumItems \in Nat
        /\ head_ <= tail_ /\ tail_ <= head_ + Capacity /\ tail_ # head_ + Capacity
        /\ tail_ <= NumItems /\ tail_ # NumItems /\ Len(Ring) = tail_ - head_
    BY <1>4, <1>6
  <2>2. QED
    BY <2>1
<1>8. Ring' = Append(Ring, tail_)
  <2>1. Ring' = RingOf(items, head_, tail_ + 1)
    BY <1>3 DEF Ring
  <2>2. head_ \in Nat /\ tail_ \in Nat /\ tail_ + 1 \in Nat /\ head_ <= tail_ + 1
    BY <1>4
  <2>3. /\ Ring' \in Seq(Nat \cup {NONE}) /\ Len(Ring') = (tail_ + 1) - head_
        /\ \A k \in 1 .. (tail_ + 1) - head_ :
             Ring'[k] = items[(head_ + k - 1) % Capacity]
    <3> DEFINE t == tail_ + 1
    <3>1. t \in Nat /\ head_ <= t
      BY <2>2
    <3> HIDE DEF t
    <3>2. /\ RingOf(items, head_, t) \in Seq(Nat \cup {NONE})
          /\ Len(RingOf(items, head_, t)) = t - head_
          /\ \A k \in 1 .. t - head_ :
               RingOf(items, head_, t)[k] = items[(head_ + k - 1) % Capacity]
      BY <1>5, <2>2, <3>1, RingIsSeq
    <3>3. Ring' = RingOf(items, head_, t)
      BY <2>1 DEF t
    <3>4. QED
      BY <3>2, <3>3 DEF t
  <2>4. /\ Append(Ring, tail_) \in Seq(Nat \cup {NONE})
        /\ Len(Append(Ring, tail_)) = Len(Ring) + 1
        /\ Append(Ring, tail_)[Len(Ring) + 1] = tail_
        /\ \A k \in 1 .. Len(Ring) : Append(Ring, tail_)[k] = Ring[k]
    <3>1. tail_ \in Nat \cup {NONE}
      BY <1>4
    <3>2. Ring \in Seq(Nat \cup {NONE})
      BY <1>6
    <3>3. QED
      BY <3>1, <3>2, AppendIs
  <2>5. Len(Ring') = Len(Append(Ring, tail_))
    BY <1>4, <1>6, <2>3, <2>4
  <2>6. ASSUME NEW k \in 1 .. Len(Ring')
        PROVE  Ring'[k] = Append(Ring, tail_)[k]
    <3>1. CASE k = Len(Ring) + 1
      <4>1. head_ + k - 1 = tail_ /\ k \in 1 .. (tail_ + 1) - head_
        <5>1. /\ head_ \in Nat /\ tail_ \in Nat /\ head_ <= tail_
              /\ k = tail_ - head_ + 1
          BY <1>4, <1>6, <3>1
        <5>2. QED
          BY <5>1
      <4>2. Ring'[k] = items[tail_ % Capacity]
        BY <2>3, <4>1
      <4>3. QED
        BY <1>4, <2>4, <3>1, <4>2
    <3>2. CASE k # Len(Ring) + 1
      <4>1. /\ head_ \in Nat /\ tail_ \in Nat /\ head_ <= tail_
            /\ Len(Ring) = tail_ - head_ /\ Len(Ring') = (tail_ + 1) - head_
        BY <1>4, <1>6, <2>3
      <4>2. /\ k \in 1 .. (tail_ + 1) - head_ /\ k \in 1 .. tail_ - head_
            /\ k \in 1 .. Len(Ring)
        BY <3>2, <4>1
      <4>3. QED
        BY <1>6, <2>3, <2>4, <4>2
    <3>3. QED
      BY <3>1, <3>2
  <2>7. QED
    BY <2>3, <2>4, <2>5, <2>6, SameSeq
<1>9. QED
  BY <1>3, <1>7, <1>8 DEF Queue!Enqueue, Ring, RingOf

LEMMA Dequeues ==
  ASSUME RingInv, unsignalled = {}, AdvanceStep("consumer")
  PROVE  Queue!Dequeue
<1>1. PICK from \in InHand : /\ CallReturns("consumer", from) /\ Advance("consumer")
                             /\ UNCHANGED <<todo, q, items, unsignalled>>
  BY DEF AdvanceStep
<1>2. at["consumer"] = from
  BY <1>1 DEF CallReturns, Moves
<1>3. head_' = head_ + 1 /\ received' = Append(received, x) /\ UNCHANGED <<tail_, items>>
  BY <1>1, TheRoles DEF Advance
<1>4. /\ head_ \in Nat /\ tail_ \in Nat /\ head_ <= tail_
      /\ x = items[head_ % Capacity] /\ tail_ # head_
  <2>1. ~Blocked("consumer") /\ x = items[head_ % Capacity]
    BY <1>2, TheRoles DEF RingInv, Tidy, NotBlocked, InPlace, InHand, Sure
  <2>2. QED
    BY <2>1, TheRoles DEF RingInv, RingTypes, Numbered, Tidy, Bounded, Blocked, Nothing
<1>5. items \in [0 .. Capacity - 1 -> Nat \cup {NONE}]
  BY DEF RingInv, RingTypes
<1>6. /\ Ring \in Seq(Nat \cup {NONE}) /\ Len(Ring) = tail_ - head_
      /\ \A k \in 1 .. tail_ - head_ : Ring[k] = items[(head_ + k - 1) % Capacity]
  <2>1. head_ \in Nat /\ tail_ \in Nat /\ head_ <= tail_
    BY <1>4
  <2>2. QED
    BY <1>5, <2>1, RingIsSeq DEF Ring
<1>7. /\ Ring # << >> /\ Head(Ring) = Ring[1]
      /\ Tail(Ring) \in Seq(Nat \cup {NONE}) /\ Len(Tail(Ring)) = Len(Ring) - 1
      /\ \A k \in 1 .. Len(Ring) - 1 : Tail(Ring)[k] = Ring[k + 1]
  <2>1. Len(Ring) # 0
    BY <1>4, <1>6
  <2>2. QED
    BY <1>6, <2>1, TailIs
<1>8. Head(Ring) = x
  <2>1. 1 \in 1 .. tail_ - head_ /\ head_ + 1 - 1 = head_
    BY <1>4
  <2>2. QED
    BY <1>4, <1>6, <1>7, <2>1
<1>9. Ring' = Tail(Ring)
  <2>1. Ring' = RingOf(items, head_ + 1, tail_)
    BY <1>3 DEF Ring
  <2>2. tail_ \in Nat /\ head_ + 1 \in Nat /\ head_ + 1 <= tail_
    BY <1>4
  <2>3. /\ Ring' \in Seq(Nat \cup {NONE}) /\ Len(Ring') = tail_ - (head_ + 1)
        /\ \A k \in 1 .. tail_ - (head_ + 1) :
             Ring'[k] = items[((head_ + 1) + k - 1) % Capacity]
    <3> DEFINE h == head_ + 1
    <3>1. h \in Nat /\ h <= tail_
      BY <2>2
    <3> HIDE DEF h
    <3>2. /\ RingOf(items, h, tail_) \in Seq(Nat \cup {NONE})
          /\ Len(RingOf(items, h, tail_)) = tail_ - h
          /\ \A k \in 1 .. tail_ - h :
               RingOf(items, h, tail_)[k] = items[(h + k - 1) % Capacity]
      BY <1>5, <2>2, <3>1, RingIsSeq
    <3>3. Ring' = RingOf(items, h, tail_)
      BY <2>1 DEF h
    <3>4. QED
      BY <3>2, <3>3 DEF h
  <2>4. ASSUME NEW k \in 1 .. Len(Ring')
        PROVE  Ring'[k] = Tail(Ring)[k]
    <3>1. /\ k \in 1 .. tail_ - (head_ + 1) /\ k \in 1 .. Len(Ring) - 1
          /\ k + 1 \in 1 .. tail_ - head_ /\ (head_ + 1) + k - 1 = head_ + (k + 1) - 1
      BY <1>4, <1>6, <2>3
    <3>2. QED
      BY <1>6, <1>7, <2>3, <3>1
  <2>5. Len(Ring') = Len(Tail(Ring))
    BY <1>4, <1>6, <1>7, <2>3
  <2>6. QED
    BY <1>7, <2>3, <2>4, <2>5, SameSeq
<1>10. QED
  BY <1>3, <1>7, <1>8, <1>9 DEF Queue!Dequeue, Ring, RingOf

\* The next queue starts empty, and the one before has delivered all its items.
LEMMA Renews ==
  ASSUME RingInv, RunQueue
  PROVE  Queue!Renew \/ UNCHANGED <<Ring, tail_, received>>
<1>1. head_' = 0 /\ tail_' = 0 /\ received' = << >> /\ q = NONE
  BY DEF RunQueue, NewQueue
<1>2. Ring' = << >>
  BY <1>1 DEF Ring, RingOf
<1>3. received \in Seq(Nat \cup {NONE}) /\ Len(received) = head_
  BY DEF RingInv, RingTypes, Numbered
<1>4. CASE head_ = NumItems
  BY <1>1, <1>2, <1>3, <1>4 DEF Queue!Renew, Ring, RingOf
<1>5. CASE head_ = 0 /\ tail_ = 0
  <2>1. received = << >>
    BY <1>3, <1>5
  <2>2. Ring = << >>
    BY <1>5 DEF Ring, RingOf
  <2>3. QED
    BY <1>1, <1>2, <1>5, <2>1, <2>2
<1>6. QED
  BY <1>1, <1>4, <1>5 DEF RingInv, Calling

LEMMA FifoStep ==
  ASSUME RingInv, QueueNext
  PROVE  [unsignalled' = {} => Queue!Next]_(Queue!vars)
<1>1. UNCHANGED <<Ring, tail_, received>> => UNCHANGED Queue!vars
  BY DEF Queue!vars, Ring, RingOf
<1>2. CASE RunQueue
  BY <1>1, <1>2, Renews DEF Queue!Next
<1>3. CASE DeleteQueue
  BY <1>1, <1>3, RingStutters DEF DeleteQueue, SameRing
<1>4. ASSUME NEW r \in Roles, QueueThread(r)
      PROVE  [unsignalled' = {} => Queue!Next]_(Queue!vars)
  <2>1. CASE Lock(r) \/ Wait(r) \/ Resume(r) \/ Signal(r) \/ Spin(r)
    BY <1>1, <2>1, RingStutters DEF Lock, Wait, Resume, Signal, Spin, SameRing
  <2>2. CASE LockedTransfer(r) \/ Access(r)
    <3>1. unsignalled' = unsignalled
      BY <2>2 DEF LockedTransfer, Access
    <3>2. QED
      BY <1>1, <2>2, <3>1, TransferHidden
  <2>3. CASE Unlock(r) \/ Publish(r)
    <3>1. unsignalled' = unsignalled
      BY <2>3 DEF Unlock, Publish
    <3>2. QED
      BY <2>3, <3>1, ReturnsAdvance, Enqueues, Dequeues, TheRoles DEF Queue!Next
  <2>4. QED
    BY <1>4, <2>1, <2>2, <2>3 DEF QueueThread
<1>5. ASSUME NEW r \in Roles, WakeUp(r)
      PROVE  [unsignalled' = {} => Queue!Next]_(Queue!vars)
  BY <1>1, <1>5, RingStutters DEF WakeUp, SameRing
<1>6. QED
  BY <1>2, <1>3, <1>4, <1>5 DEF QueueNext, QueueMain
-----------------------------------------------------------------------------
(* The programs                                                              *)

LEMMA CounterStep ==
  ASSUME CounterInv, CounterNext
  PROVE  CounterInv'
BY CounterMainKeeps, LoadKeeps, StoreKeeps, AddKeeps DEF CounterNext, CounterWorker

\* Each program keeps its own invariant; the queue is idle in the others.
ProgramInv ==
  /\ part \in Parts \cup {"second_test", "part3"}
  /\ part \in Parts => CounterInv
  /\ part = "second_test" => TesterInv
  /\ RingInv

LEMMA ProgramStarts == ProgramInit => ProgramInv
<1> SUFFICES ASSUME ProgramInit PROVE ProgramInv
  OBVIOUS
<1>1. TesterInv
  BY TestersStart DEF ProgramInit
<1>2. << >> \in Seq(Kinds) /\ QueueTypes \subseteq Seq(Kinds)
  BY DEF QueueTypes, Kinds
<1>3. RingInv
  BY <1>2, RingStarts DEF ProgramInit
<1>4. part \in Parts \cup {"second_test", "part3"}
  BY DEF ProgramInit, CounterInit
<1>5. part \in Parts => CounterInv
  BY CounterStarts DEF ProgramInit, CounterInit, Parts
<1>6. QED
  BY <1>1, <1>3, <1>4, <1>5 DEF ProgramInv

LEMMA ProgramStep == ProgramInv /\ [ProgramNext]_programVars => ProgramInv'
<1> SUFFICES ASSUME ProgramInv, [ProgramNext]_programVars PROVE ProgramInv'
  OBVIOUS
<1>1. CASE CounterNext /\ Part12
  <2>1. CounterInv' /\ UNCHANGED queueVars
    BY <1>1, CounterStep DEF Part12, ProgramInv
  <2>2. part' = part /\ part \in Parts /\ part # "second_test"
    <3>1. part \in Parts /\ part # "second_test"
      BY <1>1 DEF Part12, Parts
    <3>2. part' = part
      BY <1>1
      DEF CounterNext, CounterMain, Create, JoinAndPrint, CreateFails, CounterWorker,
          LoadPart1, StorePart1, LockPart2, UnlockPart2, AddPart2a, Load, Store
    <3>3. QED
      BY <3>1, <3>2
  <2>3. QED
    BY <2>1, <2>2, RingStays DEF ProgramInv
<1>2. CASE QueueNext /\ Part3
  <2>1. part = "part3" /\ part' = part /\ part \notin Parts
    BY <1>2 DEF Part3, counterVars, Parts
  <2>2. RingInv'
    BY <1>2, RingStep DEF ProgramInv
  <2>3. QED
    BY <2>1, <2>2 DEF ProgramInv
<1>3. CASE Second!TestNext /\ SecondTest
  <2>1. part = "second_test" /\ part' = part /\ part \notin Parts /\ UNCHANGED queueVars
    BY <1>3 DEF SecondTest, Parts
  <2>2. TesterInv'
    BY <1>3, <2>1, TesterStep DEF ProgramInv
  <2>3. QED
    BY <2>1, <2>2, RingStays DEF ProgramInv
<1>4. CASE UNCHANGED programVars
  <2>1. UNCHANGED <<counterVars, queueVars, testerVars>>
    BY <1>4 DEF programVars
  <2>2. UNCHANGED <<part, main, created, counter>>
    BY <2>1 DEF counterVars
  <2>3. QED
    BY <2>1, <2>2, CounterStays, RingStays, TesterStays DEF ProgramInv
<1>5. QED
  BY <1>1, <1>2, <1>3, <1>4 DEF ProgramNext

\* Whichever of the five programs is run, it keeps its invariant.
THEOREM ProgramInvariance == ProgramSpec => []ProgramInv
BY ProgramStarts, ProgramStep, PTL DEF ProgramSpec

\* What parts 1, 2 and 2a print: every increment counts but for the races of part1.
THEOREM CounterCorrect == ProgramSpec => []CounterReported
<1>1. ProgramInv => CounterReported
  BY CounterResult DEF ProgramInv, CounterReported
<1>2. QED
  BY <1>1, ProgramInvariance, PTL

\* second_test finds its counter equal to the sum of the tallies, and no thread
\* has waited longer than the program has run.
THEOREM TalliesCorrect == ProgramSpec => []TalliesAgree
<1>1. ProgramInv => TalliesAgree
  BY TesterResult DEF ProgramInv, TalliesAgree
<1>2. QED
  BY <1>1, ProgramInvariance, PTL

LEMMA FifoEmpty == ProgramInit => Queue!Empty
BY DEF ProgramInit, QueueInit, Queue!Empty

LEMMA FifoKept ==
  ProgramInv /\ [ProgramNext]_programVars => [unsignalled' = {} => Queue!Next]_(Queue!vars)
<1> SUFFICES ASSUME ProgramInv, [ProgramNext]_programVars
             PROVE  [unsignalled' = {} => Queue!Next]_(Queue!vars)
  OBVIOUS
<1>1. CASE QueueNext
  BY <1>1, FifoStep DEF ProgramInv
<1>2. CASE UNCHANGED queueVars
  <2>1. SameRing
    BY <1>2 DEF queueVars, SameRing
  <2>2. UNCHANGED <<Ring, tail_, received>>
    BY <2>1, RingStutters
  <2>3. QED
    BY <2>2 DEF Queue!vars, Ring, RingOf
<1>3. UNCHANGED programVars => UNCHANGED queueVars
  BY DEF programVars
<1>4. QED
  BY <1>1, <1>2, <1>3 DEF ProgramNext, Part12, SecondTest

\* With the mutex and without, the ring is a queue: every item comes out once, in
\* order, and not before it is in its place; none is overwritten.  With the mutex
\* this holds as long as every return from pthread_cond_wait() was signalled.
THEOREM FifoRefinement == ProgramSpec => ImplementsFifo
<1>1. ProgramInit => Queue!Empty
  BY FifoEmpty
<1>2. ProgramInv /\ [ProgramNext]_programVars
        => [unsignalled' = {} => Queue!Next]_(Queue!vars)
  BY FifoKept
<1>3. QED
  BY <1>1, <1>2, ProgramInvariance, PTL DEF ProgramSpec, ImplementsFifo

-----------------------------------------------------------------------------
(* Exchanger: the slots                                                      *)


\* The actions without fairness: what safety rests on.
Safety == Init /\ [][Next]_vars

\* SlotsOwned, from the point of view of the threads: an owner's slot is not
\* EMPTY, and while it is WAITING it holds the owner's node; there is no second
\* owner; a slot that is not EMPTY has an owner, and one that is holds nothing.
Owner(t) == Owns(t) /\ ~Astray(t)

SlotInv ==
  /\ \A t \in Threads : Owner(t) => Mine(t).state # "EMPTY"
  /\ \A t \in Threads : Owner(t) /\ Mine(t).state = "WAITING" => Mine(t).item = n[t]
  /\ \A t, u \in Threads : Owner(t) /\ Owner(u) /\ slot[t] = slot[u] => t = u
  /\ \A s \in Made :
       IF data[s].state = "EMPTY" THEN data[s].item = NULL
                                  ELSE \E t \in Threads : Owner(t) /\ slot[t] = s

\* What a thread inside exchange() has found out stays true: nobody but the
\* owner changes a slot that is BUSY.
FoundInv ==
  \A t \in Threads :
    /\ ~Astray(t) /\ pc[t] \in {"take", "clear"} => Mine(t).state = "BUSY"
    /\ ~Astray(t) /\ pc[t] = "clear" => otheritem[t] = Mine(t).item
    /\ pc[t] = "outside" => n[t] = NULL

Inv == TypeOK /\ SlotInv /\ FoundInv

-----------------------------------------------------------------------------
(* Types *)

Points == {"outside", "look", "item", "swap", "wait", "withdraw", "take",
           "clear", "leaving"}
Words == [item : Nodes \cup {NULL}, state : States]

LEMMA WordType ==
  ASSUME NEW m \in Nodes \cup {NULL}, NEW st \in States
  PROVE  /\ Word(m, st) \in Words
         /\ Word(m, st).item = m /\ Word(m, st).state = st
  BY DEF Word, Words

LEMMA SomeSlots ==
  /\ 0 \in Draws /\ Made \subseteq Draws
  /\ \A s \in Made : s \in Slots \/ behind = Word(NULL, "EMPTY")
  BY ExchangerAssumption DEF Slots, Draws, Made

LEMMA TypeInit == Init => TypeOK
<1> SUFFICES ASSUME Init PROVE TypeOK
  OBVIOUS
<1>1. Word(NULL, "EMPTY") \in Words /\ behind \in Words
  BY WordType DEF Init, States, Words
<1>2. data \in [Draws -> Words]
  BY <1>1 DEF Init
<1>3. QED
  BY <1>1, <1>2, SomeSlots DEF Init, TypeOK, States, Words

\* Leaving exchange() keeps the types.
LEMMA ReturnType ==
  ASSUME TypeOK, NEW t \in Threads, NEW from, NEW m \in Nodes \cup {NULL},
         Return(t, from, m), data' \in [Draws -> Words], UNCHANGED behind
  PROVE  TypeOK'
  BY DEF TypeOK, Return, Forget, Goto, States, Words

LEMMA TypeStep == TypeOK /\ [Next]_vars => TypeOK'
<1> SUFFICES ASSUME TypeOK, [Next]_vars PROVE TypeOK'
  OBVIOUS
<1>1. ASSUME NEW t \in Threads, Visit(t) \/ Leave(t) \/ Exchange(t), UNCHANGED behind
      PROVE  TypeOK'
  <2>1. /\ data \in [Draws -> Words] /\ n[t] \in Nodes \cup {NULL}
        /\ otheritem[t] \in Nodes \cup {NULL} /\ slot[t] \in Draws
        /\ Mine(t) \in Words /\ Mine(t).state \in States
        /\ Mine(t).item \in Nodes \cup {NULL}
    BY DEF TypeOK, Words, Mine
  <2>2. /\ Word(n[t], "WAITING") \in Words /\ Word(n[t], "BUSY") \in Words
        /\ Word(NULL, "EMPTY") \in Words
    BY <2>1, WordType DEF States
  <2>3. CASE Visit(t)
    BY <1>1, <2>3 DEF Visit, Goto, Draw, TypeOK
  <2>4. CASE Leave(t)
    BY <1>1, <2>4, SomeSlots DEF Leave, Goto, TypeOK
  <2>5. CASE TooLate(t)
    BY <1>1, <2>1, <2>5, ReturnType DEF TooLate
  <2>6. CASE ReadState(t)
    BY <1>1, <2>1, <2>6 DEF ReadState, Goto, TypeOK
  <2>7. CASE ReadItem(t)
    BY <1>1, <2>1, <2>7 DEF ReadItem, Goto, TypeOK
  <2>8. CASE Offer(t)
    BY <1>1, <2>1, <2>2, <2>8 DEF Offer, Goto, Forget, TypeOK, Words, States
  <2>9. CASE Accept(t)
    BY <1>1, <2>1, <2>2, <2>9, ReturnType DEF Accept
  <2>10. CASE SwapFails(t) \/ Await(t) \/ TimeIsUp(t) \/ MetAfterAll(t)
    BY <1>1, <2>1, <2>10 DEF SwapFails, Forget, States, Await, TimeIsUp, MetAfterAll, Goto, TypeOK
  <2>11. CASE Withdraw(t)
    BY <1>1, <2>1, <2>2, <2>11, ReturnType DEF Withdraw
  <2>12. CASE Take(t)
    BY <1>1, <2>1, <2>12 DEF Take, Goto, TypeOK
  <2>13. CASE Clear(t)
    BY <1>1, <2>1, <2>2, <2>13, ReturnType DEF Clear
  <2>14. QED
    BY <1>1, <2>3, <2>4, <2>5, <2>6, <2>7, <2>8, <2>9, <2>10, <2>11, <2>12, <2>13
    DEF Exchange
<1>2. CASE UNCHANGED vars
  BY <1>2 DEF vars, TypeOK
<1>3. QED
  BY <1>1, <1>2 DEF Next, Thread

\* Every variable keeps its type: slots, words and registers.
THEOREM TypeCorrect == FairSpec => []TypeOK
<1>1. FairSpec => Safety
  BY PTL DEF FairSpec, Safety
<1>2. Safety => []TypeOK
  BY TypeInit, TypeStep, PTL DEF Safety
<1>3. QED
  BY <1>1, <1>2, PTL

-----------------------------------------------------------------------------
(* Who owns which slot *)

LEMMA InvInit == Init => Inv
<1>1. Init => SlotInv /\ FoundInv
  BY SomeSlots DEF Init, SlotInv, FoundInv, Owner, Owns, Mine, Word
<1>2. QED
  BY <1>1, TypeInit DEF Inv

\* A step of t leaves the registers of the others alone.
LEMMA OthersMove ==
  ASSUME TypeOK, NEW t \in Threads, Visit(t) \/ Leave(t) \/ Exchange(t)
  PROVE  \A u \in Threads \ {t} :
           /\ pc'[u] = pc[u] /\ n'[u] = n[u] /\ slot'[u] = slot[u]
           /\ otheritem'[u] = otheritem[u]
  BY DEF TypeOK, Visit, Leave, Draw, Exchange, TooLate, ReadState, ReadItem, Offer,
         Accept, SwapFails, Await, TimeIsUp, Withdraw, MetAfterAll, Take, Clear,
         Return, Forget, Goto

\* Which words began as slots does not change.
LEMMA MadeStays ==
  ASSUME UNCHANGED behind
  PROVE  Made' = Made
  BY DEF Made

\* Steps outside of any slot, or in a word that is none.
LEMMA InvOutside ==
  ASSUME Inv, NEW t \in Threads, \A s \in Made : data'[s] = data[s], UNCHANGED behind,
         ~Owner(t), ~Owner(t)', pc'[t] = "outside" => n'[t] = NULL,
         \A u \in Threads \ {t} :
           /\ pc'[u] = pc[u] /\ n'[u] = n[u] /\ slot'[u] = slot[u]
           /\ otheritem'[u] = otheritem[u]
  PROVE  SlotInv' /\ FoundInv'
<1>1. Made' = Made
  BY MadeStays
<1>2. \A u \in Threads \ {t} :
        /\ Owner(u)' <=> Owner(u)
        /\ Astray(u)' <=> Astray(u)
        /\ ~Astray(u) => Mine(u)' = Mine(u)
  BY <1>1 DEF Owner, Owns, Astray, Mine
<1>3. SlotInv'
  <2>1. \A u \in Threads : Owner(u)' <=> Owner(u)
    BY <1>2
  <2>2. \A u \in Threads : Owner(u) => u # t /\ ~Astray(u)
    BY DEF Owner
  <2>3. \A u \in Threads : Owner(u) => Mine(u)' = Mine(u) /\ n'[u] = n[u] /\ slot'[u] = slot[u]
    BY <1>2, <2>2
  <2>4. QED
    BY <1>1, <2>1, <2>3 DEF Inv, SlotInv
<1>4. FoundInv'
  BY <1>2 DEF Inv, FoundInv, Owner, Owns
<1>5. QED
  BY <1>3, <1>4

\* Steps of an owner that leave the slot as it is.
LEMMA InvOwner ==
  ASSUME Inv, NEW t \in Threads, UNCHANGED <<data, slot, behind>>,
         Owner(t), Owns(t)',
         n'[t] = n[t],
         pc'[t] \in {"take", "clear"} => Mine(t).state = "BUSY",
         pc'[t] = "clear" => otheritem'[t] = Mine(t).item,
         \A u \in Threads \ {t} :
           /\ pc'[u] = pc[u] /\ n'[u] = n[u] /\ slot'[u] = slot[u]
           /\ otheritem'[u] = otheritem[u]
  PROVE  SlotInv' /\ FoundInv'
<1>0. Made' = Made
  BY MadeStays
<1>1. SlotInv'
  <2>1. \A u \in Threads : (Owner(u)' <=> Owner(u)) /\ Mine(u)' = Mine(u) /\ n'[u] = n[u]
    BY <1>0 DEF Owner, Owns, Astray, Mine
  <2>2. QED
    BY <1>0, <2>1 DEF Inv, SlotInv
<1>2. FoundInv'
  BY <1>0 DEF Inv, FoundInv, Owner, Owns, Astray, Mine
<1>3. QED
  BY <1>1, <1>2

\* compareAndSet() from EMPTY: t becomes the owner.
LEMMA InvOffer ==
  ASSUME Inv, NEW t \in Threads, Offer(t), ~Astray(t), UNCHANGED behind
  PROVE  SlotInv' /\ FoundInv'
<1>1. /\ pc[t] = "swap" /\ pc'[t] = "wait" /\ slot[t] \in Made /\ Made' = Made
      /\ Mine(t).state = "EMPTY"
      /\ \A u \in Threads \ {t} : pc'[u] = pc[u]
      /\ \A u \in Threads \ {t} : otheritem'[u] = otheritem[u]
      /\ UNCHANGED <<n, slot>>
  BY MadeStays DEF Offer, Goto, Forget, Found, Word, Mine, Astray, Inv, TypeOK
<1>2. /\ data'[slot[t]].item = n[t] /\ data'[slot[t]].state = "WAITING"
      /\ \A s \in Made : s # slot[t] => data'[s] = data[s]
  BY <1>1, SomeSlots DEF Offer, Inv, TypeOK, Word
<1>3. \A u \in Threads : u # t =>
        /\ Owner(u)' <=> Owner(u)
        /\ Owner(u) => slot[u] # slot[t] /\ Mine(u)' = Mine(u)
  BY <1>1, <1>2 DEF Inv, TypeOK, SlotInv, Owner, Owns, Astray, Mine
<1>4. Owner(t)' /\ Mine(t)'.state = "WAITING" /\ Mine(t)'.item = n'[t]
  BY <1>1, <1>2 DEF Owner, Owns, Astray, Mine
<1>5. SlotInv'
  BY <1>1, <1>2, <1>3, <1>4 DEF Inv, SlotInv
<1>6. FoundInv'
  BY <1>1, <1>3 DEF Inv, FoundInv, Owner, Owns, Astray
<1>7. QED
  BY <1>5, <1>6

\* compareAndSet() from WAITING: the slot is still its owner's.
LEMMA InvAccept ==
  ASSUME Inv, NEW t \in Threads, Accept(t), ~Astray(t), UNCHANGED behind
  PROVE  SlotInv' /\ FoundInv'
<1>1. /\ pc[t] = "swap" /\ pc'[t] = "leaving" /\ slot[t] \in Made /\ Made' = Made
      /\ Mine(t).state = "WAITING"
      /\ \A u \in Threads \ {t} :
           pc'[u] = pc[u] /\ n'[u] = n[u] /\ otheritem'[u] = otheritem[u]
      /\ UNCHANGED slot
  BY MadeStays DEF Accept, Return, Goto, Forget, Found, Word, Mine, Astray, Inv, TypeOK
<1>2. /\ data'[slot[t]].state = "BUSY"
      /\ \A s \in Made : s # slot[t] => data'[s] = data[s]
  BY <1>1, SomeSlots DEF Accept, Inv, TypeOK, Word
<1>3. \A u \in Threads :
        /\ Owner(u)' <=> Owner(u)
        /\ Owner(u) => u # t
        /\ Owner(u) => Mine(u)' = Mine(u) \/ Mine(u)'.state = "BUSY"
  BY <1>1, <1>2 DEF Inv, TypeOK, Owner, Owns, Astray, Mine
<1>4. SlotInv'
  BY <1>1, <1>2, <1>3 DEF Inv, SlotInv, Mine
<1>5. FoundInv'
  <2>1. \A u \in Threads : ~Astray(u) /\ Mine(u).state = "BUSY" => Mine(u)' = Mine(u)
    BY <1>1, <1>2 DEF Inv, TypeOK, Mine, Astray
  <2>2. QED
    BY <1>1, <2>1 DEF Inv, FoundInv, Astray
<1>6. QED
  BY <1>4, <1>5

\* The owner empties its slot, and is its owner no more.
LEMMA InvEmpties ==
  ASSUME Inv, NEW t \in Threads, Owner(t), UNCHANGED behind, NEW from, NEW m, Return(t, from, m),
         data' = [data EXCEPT ![slot[t]] = Word(NULL, "EMPTY")]
  PROVE  SlotInv' /\ FoundInv'
<1>1. /\ pc'[t] = "leaving" /\ slot[t] \in Made /\ Made' = Made
      /\ \A u \in Threads \ {t} :
           pc'[u] = pc[u] /\ n'[u] = n[u] /\ otheritem'[u] = otheritem[u]
      /\ UNCHANGED slot
  BY MadeStays DEF Return, Goto, Forget, Owner, Astray, Inv, TypeOK
<1>2. /\ data'[slot[t]].state = "EMPTY" /\ data'[slot[t]].item = NULL
      /\ \A s \in Made : s # slot[t] => data'[s] = data[s]
  BY <1>1, SomeSlots DEF Inv, TypeOK, Word
<1>3. ~Owner(t)' /\ \A u \in Threads : u # t =>
        /\ Owner(u)' <=> Owner(u)
        /\ Owner(u) => slot[u] # slot[t] /\ Mine(u)' = Mine(u)
  BY <1>1, <1>2 DEF Inv, TypeOK, SlotInv, Owner, Owns, Astray, Mine
<1>4. SlotInv'
  BY <1>1, <1>2, <1>3 DEF Inv, SlotInv
<1>5. FoundInv'
  BY <1>1, <1>3 DEF Inv, FoundInv, Owner, Owns, Astray
<1>6. QED
  BY <1>4, <1>5

\* What a thread does that has drawn no slot.
LEMMA AstrayStep ==
  ASSUME TypeOK, NEW t \in Threads, Exchange(t), Astray(t), UNCHANGED behind
  PROVE  /\ Astray(t)' /\ pc'[t] # "outside" /\ pc[t] # "outside"
         /\ \A s \in Made : data'[s] = data[s]
<1>1. slot' = slot /\ pc'[t] # "outside" /\ pc[t] # "outside"
  BY DEF TypeOK, Exchange, TooLate, ReadState, ReadItem, Offer, Accept, SwapFails, Await,
         TimeIsUp, Withdraw, MetAfterAll, Take, Clear, Return, Goto
<1>2. data' = data \/ \E m : data' = [data EXCEPT ![slot[t]] = m]
  BY DEF Exchange, TooLate, ReadState, ReadItem, Offer, Accept, SwapFails, Await,
         TimeIsUp, Withdraw, MetAfterAll, Take, Clear
<1>3. \A s \in Made : s # slot[t] /\ s \in Draws
  BY SomeSlots DEF Astray
<1>4. QED
  BY <1>1, <1>2, <1>3, MadeStays DEF Astray, TypeOK

LEMMA InvThread ==
  ASSUME Inv, NEW t \in Threads, Visit(t) \/ Leave(t) \/ Exchange(t), UNCHANGED behind
  PROVE  SlotInv' /\ FoundInv'
<1> DEFINE Rest == \A u \in Threads \ {t} :
                     /\ pc'[u] = pc[u] /\ n'[u] = n[u] /\ slot'[u] = slot[u]
                     /\ otheritem'[u] = otheritem[u]
<1>1. Rest
  BY OthersMove DEF Inv
<1>2. CASE Visit(t) \/ Leave(t) \/ TooLate(t) \/ ReadState(t) \/ ReadItem(t) \/ SwapFails(t)
  <2>1. UNCHANGED data /\ ~Owns(t) /\ ~Owns(t)' /\ (pc'[t] = "outside" => n'[t] = NULL)
    BY <1>2
    DEF Visit, Leave, TooLate, ReadState, ReadItem, SwapFails, Return, Goto, Owns,
        Inv, TypeOK
  <2>2. QED
    BY <1>1, <2>1, InvOutside DEF Owner
<1>3. CASE Exchange(t) /\ Astray(t)
  BY <1>1, <1>3, AstrayStep, InvOutside DEF Owner, Inv
<1>4. CASE ~Astray(t) /\ (Await(t) \/ TimeIsUp(t) \/ MetAfterAll(t) \/ Take(t))
  <2>1. /\ UNCHANGED <<data, slot, n>> /\ Owner(t) /\ Owns(t)'
        /\ pc'[t] = "clear" => otheritem'[t] = Mine(t).item
    BY <1>4 DEF Await, TimeIsUp, MetAfterAll, Take, Goto, Owner, Owns, Inv, TypeOK
  <2>2. pc'[t] \in {"take", "clear"} => Mine(t).state = "BUSY"
    <3>1. CASE Await(t) \/ TimeIsUp(t)
      BY <3>1 DEF Await, TimeIsUp, Goto, Inv, TypeOK
    <3>2. CASE MetAfterAll(t)
      <4>1. Mine(t) \in Words
        BY DEF Mine, Words, Inv, TypeOK
      <4>2. Mine(t).state = "WAITING" => Mine(t) = Word(n[t], "WAITING")
        BY <2>1, <4>1 DEF Inv, SlotInv, Word, Words
      <4>3. QED
        BY <2>1, <3>2, <4>1, <4>2 DEF MetAfterAll, Inv, SlotInv, Words, States
    <3>3. CASE Take(t)
      BY <1>4, <3>3 DEF Take, Goto, Inv, FoundInv
    <3>4. QED
      BY <1>4, <3>1, <3>2, <3>3
  <2>3. QED
    BY <1>1, <2>1, <2>2, InvOwner
<1>5. CASE ~Astray(t) /\ Offer(t)
  BY <1>5, InvOffer
<1>6. CASE ~Astray(t) /\ Accept(t)
  BY <1>6, InvAccept
<1>7. CASE ~Astray(t) /\ (Withdraw(t) \/ Clear(t))
  <2>1. Owner(t)
    BY <1>7 DEF Withdraw, Clear, Return, Goto, Owner, Owns
  <2>2. QED
    BY <1>7, <2>1, InvEmpties DEF Withdraw, Clear
<1>8. QED
  BY <1>2, <1>3, <1>4, <1>5, <1>6, <1>7 DEF Exchange

LEMMA InvStep == Inv /\ [Next]_vars => Inv'
<1> SUFFICES ASSUME Inv, [Next]_vars PROVE Inv'
  OBVIOUS
<1>1. TypeOK'
  BY TypeStep DEF Inv
<1>2. ASSUME NEW t \in Threads, Thread(t)
      PROVE  SlotInv' /\ FoundInv'
  BY <1>2, InvThread DEF Thread
<1>3. CASE UNCHANGED vars
  BY <1>1, <1>3 DEF vars, Inv, SlotInv, FoundInv, Owner, Owns, Astray, Made, Mine
<1>4. QED
  BY <1>1, <1>2, <1>3 DEF Next, Inv

\* The inductive invariant of the slot protocol.
THEOREM Invariance == FairSpec => []Inv
<1>1. FairSpec => Safety
  BY PTL DEF FairSpec, Safety
<1>2. Safety => []Inv
  BY InvInit, InvStep, PTL DEF Safety
<1>3. QED
  BY <1>1, <1>2, PTL

\* A slot that is not EMPTY belongs to exactly one thread, an EMPTY one to
\* nobody, whatever the timeouts and the reads of stale words.
THEOREM SlotsCorrect == FairSpec => []SlotsOwned
<1>1. ASSUME Inv PROVE SlotsOwned
  <2> SUFFICES ASSUME NEW s \in Made
               PROVE  LET owners == {t \in Threads : Owns(t) /\ slot[t] = s}
                      IN  IF data[s].state = "EMPTY"
                          THEN owners = {} /\ data[s].item = NULL
                          ELSE \E t \in owners :
                                 /\ owners = {t}
                                 /\ data[s].state = "WAITING" => data[s].item = n[t]
    BY DEF SlotsOwned
  <2> DEFINE owners == {t \in Threads : Owns(t) /\ slot[t] = s}
  <2>1. CASE data[s].state = "EMPTY"
    BY <1>1, <2>1 DEF Inv, SlotInv, Owner, Astray, Mine
  <2>2. CASE data[s].state # "EMPTY"
    <3>1. PICK t \in Threads : Owner(t) /\ slot[t] = s
      BY <1>1, <2>2 DEF Inv, SlotInv
    <3>2. owners = {t}
      BY <1>1, <3>1 DEF Inv, SlotInv, Owner, Astray
    <3>3. data[s].state = "WAITING" => data[s].item = n[t]
      BY <1>1, <3>1 DEF Inv, SlotInv, Mine
    <3>4. QED
      BY <2>2, <3>2, <3>3
  <2>3. QED
    BY <2>1, <2>2
<1>2. QED
  BY <1>1, Invariance, PTL

-----------------------------------------------------------------------------
(* The slot protocol implements the rendezvous *)

\* What the rendezvous sees of a thread.
Leaves(t) == pc[t] = "leaving" \/ Met(t)
At(t) ==
  IF Astray(t) THEN "outside" ELSE
    CASE pc[t] \in {"outside", "leaving"} -> pc[t]
      [] Met(t) -> "leaving"
      [] OTHER -> "inside"
Brought(t) == IF Astray(t) \/ Leaves(t) THEN NULL ELSE n[t]
Leaving(t) == IF ~Astray(t) /\ Leaves(t) THEN Holds(t) ELSE NULL
AbstractAt == [t \in Threads |-> At(t)]
AbstractBrought == [t \in Threads |-> Brought(t)]
AbstractLeaving == [t \in Threads |-> Leaving(t)]

Same(t) == At(t)' = At(t) /\ Brought(t)' = Brought(t) /\ Leaving(t)' = Leaving(t)

\* The rendezvous in these words.
LEMMA AbstractInit == Init => Abstract!Init
<1> SUFFICES ASSUME Init PROVE Abstract!Init
  OBVIOUS
<1>1. \A t \in Threads : pc[t] = "outside" /\ n[t] = NULL /\ ~Met(t)
  BY DEF Init, Met, Owns
<1>2. QED
  BY <1>1 DEF Abstract!Init

LEMMA AbstractStutter ==
  ASSUME \A t \in Threads : Same(t)
  PROVE  UNCHANGED Abstract!vars
<1>1. /\ AbstractAt' = AbstractAt /\ AbstractBrought' = AbstractBrought
      /\ AbstractLeaving' = AbstractLeaving
  BY DEF Same, AbstractAt, AbstractBrought, AbstractLeaving
<1>2. QED
  BY <1>1
  DEF Abstract!vars, AbstractAt, AbstractBrought, AbstractLeaving, At, Brought,
      Leaving, Leaves

\* Points of view: before the trade, after it, outside, and from behind the array.
LEMMA Views ==
  ASSUME NEW t \in Threads
  PROVE  /\ Astray(t) => At(t) = "outside" /\ Brought(t) = NULL /\ Leaving(t) = NULL
         /\ pc[t] = "outside" /\ n[t] = NULL =>
              At(t) = "outside" /\ Brought(t) = NULL /\ Leaving(t) = NULL
         /\ ~Astray(t) /\ pc[t] = "outside" =>
              At(t) = "outside" /\ Brought(t) = n[t] /\ Leaving(t) = NULL
         /\ ~Astray(t) /\ pc[t] = "leaving" =>
              At(t) = "leaving" /\ Brought(t) = NULL /\ Leaving(t) = n[t]
         /\ ~Astray(t) /\ Met(t) =>
              At(t) = "leaving" /\ Brought(t) = NULL /\ Leaving(t) = Mine(t).item
         /\ ~Astray(t) /\ pc[t] \notin {"outside", "leaving"} /\ ~Met(t) =>
              At(t) = "inside" /\ Brought(t) = n[t] /\ Leaving(t) = NULL
         /\ Brought(t) \in {NULL, Holds(t)} /\ Leaving(t) \in {NULL, Holds(t)}
  BY DEF Astray, At, Brought, Leaving, Leaves, Holds, Met, Owns

\* The steps of the rendezvous, thread by thread.
LEMMA AbstractVisit ==
  ASSUME NEW t \in Threads, NEW m \in Nodes \cup {NULL},
         m # NULL => \A u \in Threads : m \notin {Brought(u), Leaving(u)},
         At(t) = "outside", At(t)' = "inside", Brought(t)' = m,
         Leaving(t)' = Leaving(t), \A u \in Threads \ {t} : Same(u)
  PROVE  Abstract!Visit(t)
<1>1. /\ AbstractAt[t] = "outside" /\ AbstractAt' = [AbstractAt EXCEPT ![t] = "inside"]
      /\ AbstractBrought' = [AbstractBrought EXCEPT ![t] = m]
      /\ AbstractLeaving' = AbstractLeaving
      /\ \A u \in Threads :
           AbstractBrought[u] = Brought(u) /\ AbstractLeaving[u] = Leaving(u)
  BY DEF Same, AbstractAt, AbstractBrought, AbstractLeaving
<1>2. m # NULL => \A u \in Threads : m \notin {AbstractBrought[u], AbstractLeaving[u]}
  BY <1>1
<1>3. QED
  BY <1>1, <1>2
  DEF Abstract!Visit, AbstractAt, AbstractBrought, AbstractLeaving, At, Brought,
      Leaving, Leaves

LEMMA AbstractLeave ==
  ASSUME NEW t \in Threads, At(t) = "leaving", At(t)' = "outside",
         Brought(t)' = Brought(t), Leaving(t)' = NULL,
         \A u \in Threads \ {t} : Same(u)
  PROVE  Abstract!Leave(t)
<1>1. /\ AbstractAt[t] = "leaving"
      /\ AbstractAt' = [AbstractAt EXCEPT ![t] = "outside"]
      /\ AbstractBrought' = AbstractBrought
      /\ AbstractLeaving' = [AbstractLeaving EXCEPT ![t] = NULL]
  BY DEF Same, AbstractAt, AbstractBrought, AbstractLeaving
<1>2. QED
  BY <1>1
  DEF Abstract!Leave, AbstractAt, AbstractBrought, AbstractLeaving, At, Brought,
      Leaving, Leaves

LEMMA AbstractMeetNobody ==
  ASSUME NEW t \in Threads, At(t) = "inside", At(t)' = "leaving",
         Leaving(t)' = Brought(t), Brought(t)' = NULL,
         \A u \in Threads \ {t} : Same(u)
  PROVE  Abstract!MeetNobody(t)
<1>1. /\ AbstractAt[t] = "inside"
      /\ AbstractAt' = [AbstractAt EXCEPT ![t] = "leaving"]
      /\ AbstractLeaving' = [AbstractLeaving EXCEPT ![t] = AbstractBrought[t]]
      /\ AbstractBrought' = [AbstractBrought EXCEPT ![t] = NULL]
  BY DEF Same, AbstractAt, AbstractBrought, AbstractLeaving
<1>2. QED
  BY <1>1
  DEF Abstract!MeetNobody, AbstractAt, AbstractBrought, AbstractLeaving, At,
      Brought, Leaving, Leaves

LEMMA AbstractMeet ==
  ASSUME NEW t \in Threads, NEW u \in Threads, t # u,
         At(t) = "inside", At(u) = "inside", At(t)' = "leaving", At(u)' = "leaving",
         Leaving(t)' = Brought(u), Leaving(u)' = Brought(t),
         Brought(t)' = NULL, Brought(u)' = NULL,
         \A v \in Threads \ {t, u} : Same(v)
  PROVE  Abstract!Meet(t, u)
<1>1. /\ AbstractAt[t] = "inside" /\ AbstractAt[u] = "inside"
      /\ AbstractAt' = [AbstractAt EXCEPT ![t] = "leaving", ![u] = "leaving"]
      /\ AbstractLeaving' = [AbstractLeaving EXCEPT ![t] = AbstractBrought[u],
                                                    ![u] = AbstractBrought[t]]
      /\ AbstractBrought' = [AbstractBrought EXCEPT ![t] = NULL, ![u] = NULL]
  BY DEF Same, AbstractAt, AbstractBrought, AbstractLeaving
<1>2. QED
  BY <1>1
  DEF Abstract!Meet, AbstractAt, AbstractBrought, AbstractLeaving, At, Brought,
      Leaving, Leaves

\* What t does outside of their slots does not change how others look.
LEMMA OthersSame ==
  ASSUME NEW u \in Threads, pc'[u] = pc[u], n'[u] = n[u], slot'[u] = slot[u],
         UNCHANGED behind, Owner(u) => Mine(u)' = Mine(u)
  PROVE  Same(u)
<1>1. Astray(u)' <=> Astray(u)
  BY MadeStays DEF Astray
<1>2. CASE Astray(u)
  BY <1>1, <1>2 DEF Astray, Same, At, Brought, Leaving
<1>3. CASE ~Astray(u)
  <2>1. /\ Owns(u)' <=> Owns(u)
        /\ Met(u)' <=> Met(u)
        /\ Met(u) => Mine(u)' = Mine(u)
    BY <1>3 DEF Met, Owner, Owns
  <2>2. QED
    BY <1>1, <1>3, <2>1 DEF Same, At, Brought, Leaving, Leaves, Holds
<1>4. QED
  BY <1>2, <1>3

\* The views of t after its step.
LEMMA ViewsNext ==
  ASSUME NEW t \in Threads
  PROVE  /\ Astray(t)' => At(t)' = "outside" /\ Brought(t)' = NULL /\ Leaving(t)' = NULL
         /\ pc'[t] = "outside" /\ n'[t] = NULL =>
              At(t)' = "outside" /\ Brought(t)' = NULL /\ Leaving(t)' = NULL
         /\ ~Astray(t)' /\ pc'[t] = "leaving" =>
              At(t)' = "leaving" /\ Brought(t)' = NULL /\ Leaving(t)' = n'[t]
         /\ ~Astray(t)' /\ Met(t)' =>
              At(t)' = "leaving" /\ Brought(t)' = NULL /\ Leaving(t)' = Mine(t)'.item
         /\ ~Astray(t)' /\ pc'[t] \notin {"outside", "leaving"} /\ ~Met(t)' =>
              At(t)' = "inside" /\ Brought(t)' = n'[t] /\ Leaving(t)' = NULL
  BY DEF Astray, At, Brought, Leaving, Leaves, Holds, Met, Owns

LEMMA RefineThread ==
  ASSUME Inv, NEW t \in Threads, Visit(t) \/ Leave(t) \/ Exchange(t), UNCHANGED behind
  PROVE  [Abstract!Next]_(Abstract!vars)
<1>1. \A u \in Threads \ {t} : pc'[u] = pc[u] /\ n'[u] = n[u] /\ slot'[u] = slot[u]
  BY OthersMove DEF Inv
<1>2. ASSUME UNCHANGED data PROVE \A u \in Threads \ {t} : Same(u)
  BY <1>1, <1>2, OthersSame DEF Mine
<1>3. ASSUME NEW m, data' = [data EXCEPT ![slot[t]] = m],
             NEW u \in Threads \ {t}, Owner(u) => slot[u] # slot[t]
      PROVE  Same(u)
  <2>1. Owner(u) => Mine(u)' = Mine(u)
    BY <1>1, <1>3 DEF Mine, Inv, TypeOK
  <2>2. QED
    BY <1>1, <2>1, OthersSame
<1>4. CASE Visit(t)
  <2>1. PICK m \in Nodes \cup {NULL} :
          /\ m # NULL => \A u \in Threads : m # Holds(u)
          /\ n' = [n EXCEPT ![t] = m]
    BY <1>4 DEF Visit
  <2>2. /\ pc[t] = "outside" /\ pc'[t] = "look" /\ n'[t] = m /\ n[t] = NULL
        /\ UNCHANGED data
    BY <1>4, <2>1 DEF Visit, Goto, Inv, TypeOK, FoundInv
  <2>3. \A u \in Threads : Brought(u) \in {NULL, Holds(u)} /\ Leaving(u) \in {NULL, Holds(u)}
    BY Views
  <2>4. ~Met(t)'
    BY <2>2 DEF Met, Owns
  <2>5. At(t) = "outside" /\ Brought(t) = NULL /\ Leaving(t) = NULL
    BY <2>2, Views
  <2>6. CASE Astray(t)'
    <3>1. Same(t)
      BY <2>5, <2>6, ViewsNext DEF Same
    <3>2. QED
      BY <1>2, <2>2, <3>1, AbstractStutter
  <2>7. CASE ~Astray(t)'
    <3>1. At(t)' = "inside" /\ Brought(t)' = m /\ Leaving(t)' = NULL
      BY <2>2, <2>4, <2>7, ViewsNext
    <3>2. Abstract!Visit(t)
      BY <1>2, <2>1, <2>2, <2>3, <2>5, <3>1, AbstractVisit
    <3>3. QED
      BY <3>2 DEF Abstract!Next
  <2>8. QED
    BY <2>6, <2>7
<1>5. CASE Leave(t)
  <2>1. pc[t] = "leaving" /\ pc'[t] = "outside" /\ n'[t] = NULL /\ UNCHANGED data
    BY <1>5 DEF Leave, Goto, Inv, TypeOK
  <2>2. At(t)' = "outside" /\ Brought(t)' = NULL /\ Leaving(t)' = NULL
    BY <2>1, ViewsNext
  <2>3. CASE Astray(t)
    <3>1. Same(t)
      BY <2>2, <2>3, Views DEF Same
    <3>2. QED
      BY <1>2, <2>1, <3>1, AbstractStutter
  <2>4. CASE ~Astray(t)
    <3>1. At(t) = "leaving" /\ Brought(t) = NULL
      BY <2>1, <2>4, Views
    <3>2. Abstract!Leave(t)
      BY <1>2, <2>1, <2>2, <3>1, AbstractLeave
    <3>3. QED
      BY <3>2 DEF Abstract!Next
  <2>5. QED
    BY <2>3, <2>4
<1>6. CASE Exchange(t) /\ Astray(t)
  <2>1. /\ Astray(t)' /\ \A s \in Made : data'[s] = data[s]
    BY <1>6, AstrayStep DEF Inv
  <2>2. Same(t)
    BY <1>6, <2>1, Views, ViewsNext DEF Same
  <2>3. \A u \in Threads \ {t} : Owner(u) => Mine(u)' = Mine(u)
    BY <1>1, <2>1 DEF Owner, Astray, Mine
  <2>4. \A u \in Threads \ {t} : Same(u)
    BY <1>1, <2>3, OthersSame
  <2>5. QED
    BY <2>2, <2>4, AbstractStutter
<1>7. ASSUME ~Astray(t), Exchange(t) PROVE ~Astray(t)'
  <2>1. slot' = slot
    BY <1>7
    DEF Exchange, TooLate, ReadState, ReadItem, Offer, Accept, SwapFails, Await, TimeIsUp,
        Withdraw, MetAfterAll, Take, Clear, Return
  <2>2. QED
    BY <1>7, <2>1, MadeStays DEF Astray
<1>8. CASE ~Astray(t) /\ TooLate(t)
  <2>1. pc[t] = "look" /\ pc'[t] = "leaving" /\ n'[t] = n[t] /\ ~Met(t)
    BY <1>8 DEF TooLate, Return, Goto, Met, Owner, Owns, Inv, TypeOK
  <2>2. Abstract!MeetNobody(t)
    BY <1>2, <1>7, <1>8, <2>1, Views, ViewsNext, AbstractMeetNobody DEF TooLate, Exchange
  <2>3. QED
    BY <2>2 DEF Abstract!Next
<1>9. CASE ~Astray(t) /\ (ReadState(t) \/ ReadItem(t) \/ SwapFails(t))
  <2>1. /\ UNCHANGED <<data, n>> /\ ~Met(t) /\ ~Met(t)'
        /\ pc[t] \notin {"outside", "leaving"} /\ pc'[t] \notin {"outside", "leaving"}
    BY <1>9 DEF ReadState, ReadItem, SwapFails, Goto, Met, Owner, Owns, Inv, TypeOK
  <2>2. Same(t)
    BY <1>7, <1>9, <2>1, Views, ViewsNext DEF Same, Exchange
  <2>3. QED
    BY <1>2, <2>1, <2>2, AbstractStutter
<1>10. CASE ~Astray(t) /\ (Await(t) \/ TimeIsUp(t) \/ MetAfterAll(t) \/ Take(t))
  <2>1. /\ UNCHANGED <<data, n, slot>> /\ Owns(t) /\ Owns(t)'
        /\ pc[t] \notin {"outside", "leaving"} /\ pc'[t] \notin {"outside", "leaving"}
    BY <1>10 DEF Await, TimeIsUp, MetAfterAll, Take, Goto, Owner, Owns, Inv, TypeOK
  <2>2. Mine(t)' = Mine(t) /\ (Met(t)' <=> Met(t))
    BY <2>1 DEF Mine, Met
  <2>3. Same(t)
    BY <1>7, <1>10, <2>1, <2>2, Views, ViewsNext DEF Same, Exchange
  <2>4. QED
    BY <1>2, <2>1, <2>3, AbstractStutter
<1>11. CASE ~Astray(t) /\ Offer(t)
  <2>1. /\ pc[t] = "swap" /\ pc'[t] = "wait" /\ slot[t] \in Made /\ UNCHANGED <<n, slot>>
        /\ Mine(t).state = "EMPTY"
    BY <1>11 DEF Offer, Goto, Forget, Found, Astray, Word, Mine, Inv, TypeOK
  <2>2. \A u \in Threads \ {t} : Owner(u) => slot[u] # slot[t]
    BY <2>1 DEF Inv, SlotInv, Owner, Astray, Mine
  <2>3. Mine(t)'.state = "WAITING"
    BY <1>11, <2>1 DEF Offer, Mine, Word, Inv, TypeOK
  <2>4. Same(t)
    BY <1>7, <1>11, <2>1, <2>3, Views, ViewsNext DEF Same, Met, Owns, Exchange
  <2>5. \A u \in Threads \ {t} : Same(u)
    BY <1>3, <1>11, <2>2 DEF Offer
  <2>6. QED
    BY <2>4, <2>5, AbstractStutter
<1>12. CASE ~Astray(t) /\ Accept(t)
  <2>1. /\ pc[t] = "swap" /\ pc'[t] = "leaving" /\ slot[t] \in Made /\ UNCHANGED slot
        /\ Mine(t).state = "WAITING" /\ Mine(t).item = otheritem[t]
        /\ n'[t] = otheritem[t]
    BY <1>12 DEF Accept, Return, Goto, Forget, Found, Astray, Word, Mine, Inv, TypeOK
  <2>2. PICK u \in Threads :
          /\ Owner(u) /\ slot[u] = slot[t]
          /\ \A v \in Threads : Owner(v) /\ slot[v] = slot[t] => v = u
    BY <2>1 DEF Inv, SlotInv, Owner, Astray, Mine
  <2>3. u # t /\ ~Met(u) /\ n[u] = otheritem[t]
    BY <2>1, <2>2 DEF Owner, Owns, Astray, Met, Mine, Inv, SlotInv
  <2>4. Met(u)' /\ Mine(u)'.item = n[t]
    <3>1. data'[slot[t]] = Word(n[t], "BUSY")
      BY <1>12, <2>1 DEF Accept, Inv, TypeOK
    <3>2. Owns(u)' /\ Mine(u)' = Word(n[t], "BUSY")
      BY <1>1, <2>1, <2>2, <2>3, <3>1 DEF Owner, Owns, Mine
    <3>3. QED
      BY <3>2 DEF Met, Word
  <2>5. \A v \in Threads \ {t, u} : Same(v)
    BY <1>3, <1>12, <2>2 DEF Accept
  <2>6. pc[u] \notin {"outside", "leaving"} /\ ~Met(t)
    BY <2>1, <2>2 DEF Owner, Owns, Astray, Met
  <2>7. ~Astray(u)'
    BY <1>1, <2>2, <2>3, MadeStays DEF Owner, Astray
  <2>8. Abstract!Meet(t, u)
    <3>1. /\ At(t) = "inside" /\ At(u) = "inside"
          /\ Brought(t) = n[t] /\ Brought(u) = otheritem[t]
      BY <1>12, <2>1, <2>2, <2>3, <2>6, Views DEF Owner
    <3>2. /\ At(t)' = "leaving" /\ At(u)' = "leaving"
          /\ Brought(t)' = NULL /\ Brought(u)' = NULL
          /\ Leaving(t)' = otheritem[t] /\ Leaving(u)' = n[t]
      BY <1>7, <1>12, <2>1, <2>2, <2>4, <2>7, ViewsNext DEF Exchange
    <3>3. QED
      BY <2>3, <2>5, <3>1, <3>2, AbstractMeet
  <2>9. QED
    BY <2>8 DEF Abstract!Next
<1>13. CASE ~Astray(t) /\ Withdraw(t)
  <2>1. /\ pc[t] = "withdraw" /\ pc'[t] = "leaving" /\ n'[t] = n[t]
        /\ Mine(t).state = "WAITING"
    BY <1>13 DEF Withdraw, Return, Goto, Word, Inv, TypeOK
  <2>2. Owns(t) /\ ~Met(t)
    BY <2>1 DEF Owner, Owns, Astray, Met
  <2>3. \A u \in Threads \ {t} : Same(u)
    BY <1>3, <1>13, <2>2 DEF Withdraw, Inv, SlotInv, Owner
  <2>4. Abstract!MeetNobody(t)
    BY <1>7, <1>13, <2>1, <2>2, <2>3, Views, ViewsNext, AbstractMeetNobody DEF Exchange
  <2>5. QED
    BY <2>4 DEF Abstract!Next
<1>14. CASE ~Astray(t) /\ Clear(t)
  <2>1. /\ pc[t] = "clear" /\ pc'[t] = "leaving" /\ n'[t] = otheritem[t]
        /\ Mine(t).state = "BUSY" /\ otheritem[t] = Mine(t).item
    BY <1>14 DEF Clear, Return, Goto, Inv, TypeOK, FoundInv
  <2>2. Owns(t) /\ Met(t)
    BY <2>1 DEF Owner, Owns, Astray, Met
  <2>3. \A u \in Threads \ {t} : Same(u)
    BY <1>3, <1>14, <2>2 DEF Clear, Inv, SlotInv, Owner
  <2>4. Same(t)
    BY <1>7, <1>14, <2>1, <2>2, Views, ViewsNext DEF Same, Exchange
  <2>5. QED
    BY <2>3, <2>4, AbstractStutter
<1>15. QED
  BY <1>4, <1>5, <1>6, <1>8, <1>9, <1>10, <1>11, <1>12, <1>13, <1>14 DEF Exchange

LEMMA RefineStep == Inv /\ [Next]_vars => [Abstract!Next]_(Abstract!vars)
<1> SUFFICES ASSUME Inv, [Next]_vars PROVE [Abstract!Next]_(Abstract!vars)
  OBVIOUS
<1>1. ASSUME NEW t \in Threads, Thread(t)
      PROVE  [Abstract!Next]_(Abstract!vars)
  BY <1>1, RefineThread DEF Thread
<1>2. CASE UNCHANGED vars
  <2>1. \A t \in Threads : Same(t)
    BY <1>2, OthersSame DEF vars, Mine
  <2>2. QED
    BY <2>1, AbstractStutter
<1>3. QED
  BY <1>1, <1>2 DEF Next

\* Nodes are traded between two threads or brought back, whatever happens in
\* between: none is lost, given to two threads or made up.
THEOREM Refinement == FairSpec => ImplementsRendezvous
<1>1. FairSpec => Safety
  BY PTL DEF FairSpec, Safety
<1>2. Safety /\ []Inv => Abstract!Spec
  BY AbstractInit, RefineStep, PTL DEF Safety, Abstract!Spec
<1>3. QED
  BY <1>1, <1>2, Invariance, PTL DEF ImplementsRendezvous
=============================================================================
