--------------------------- MODULE SharedCounter ----------------------------
(***************************************************************************)
(* Parts 1, 2 and 2a of project1: threads that increment one counter,      *)
(* without synchronisation (part1.cpp), with a mutex (part2.cpp) or with   *)
(* an atomic addition (part2a.cpp).  The three programs differ in          *)
(* worker_thread() alone.                                                  *)
(***************************************************************************)
EXTENDS Naturals

CONSTANTS
  NumThreads,   \* argv[1]
  Iterations,   \* 10000
  NOBODY

ASSUME SharedCounterAssumption ==
  /\ NumThreads \in Nat \ {0}
  /\ Iterations \in Nat \ {0}
  /\ NOBODY \notin Nat

CounterThreads == 0 .. NumThreads - 1
Parts == {"part1", "part2", "part2a"}

VARIABLES
  part,         \* the program
  main,         \* where main() is: "create", "join", "exit" or "failed"
  created,      \* how many threads it has created
  i,            \* the iterations of each thread
  local,        \* the register through which counter goes
  loaded,       \* the threads that have loaded and not yet stored
  M,            \* who holds the mutex of part2
  counter

counterVars == <<part, main, created, i, local, loaded, M, counter>>

CounterInit(program) ==
  /\ part = program
  /\ main = "create"
  /\ created = 0
  /\ i = [t \in CounterThreads |-> 0]
  /\ local = [t \in CounterThreads |-> 0]
  /\ loaded = {}
  /\ M = NOBODY
  /\ counter = 0

-----------------------------------------------------------------------------

Create ==
  /\ main = "create"
  /\ created' = created + 1
  /\ main' = IF created' = NumThreads THEN "join" ELSE "create"
  /\ UNCHANGED <<part, i, local, loaded, M, counter>>

\* pthread_create() fails: main() returns, which ends the other threads, too.
CreateFails ==
  /\ main = "create"
  /\ main' = "failed"
  /\ UNCHANGED <<part, created, i, local, loaded, M, counter>>

\* Every pthread_join() has returned, and the counter is printed.
JoinAndPrint ==
  /\ main = "join"
  /\ \A t \in CounterThreads : i[t] = Iterations
  /\ main' = "exit"
  /\ UNCHANGED <<part, created, i, local, loaded, M, counter>>

-----------------------------------------------------------------------------
(* worker_thread() *)

Working(t) ==
  /\ main \in {"create", "join"}
  /\ t < created
  /\ i[t] < Iterations

\* local = counter
Load(t) ==
  /\ loaded' = loaded \cup {t}
  /\ local' = [local EXCEPT ![t] = counter]
  /\ UNCHANGED <<part, main, created, i, counter>>

\* counter = local, after k iterations
Store(t, k) ==
  /\ t \in loaded
  /\ counter' = local[t] + k
  /\ i' = [i EXCEPT ![t] = @ + k]
  /\ loaded' = loaded \ {t}
  /\ local' = [local EXCEPT ![t] = 0]
  /\ UNCHANGED <<part, main, created>>

LoadPart1(t) ==
  /\ Working(t) /\ part = "part1" /\ t \notin loaded
  /\ Load(t)
  /\ UNCHANGED M

\* The threads race, and the compiler is free to keep counter in the register
\* for any number of iterations; -O2 makes one addition of the whole loop.
StorePart1(t) ==
  /\ Working(t) /\ part = "part1"
  /\ \E k \in 1 .. Iterations - i[t] : Store(t, k)
  /\ UNCHANGED M

\* Fault: the mutex does not exclude.
LockPart2_Always(t) ==
  /\ Working(t) /\ part = "part2" /\ t \notin loaded
  /\ M' = t
  /\ Load(t)

\* pthread_mutex_lock(&M), and the load of counter++
LockPart2(t) ==
  /\ Working(t) /\ part = "part2"
  /\ M = NOBODY
  /\ M' = t
  /\ Load(t)

\* The store of counter++, and pthread_mutex_unlock(&M)
UnlockPart2(t) ==
  /\ Working(t) /\ part = "part2"
  /\ Store(t, 1)
  /\ M' = NOBODY

\* __sync_add_and_fetch(&counter, 1)
AddPart2a(t) ==
  /\ Working(t) /\ part = "part2a"
  /\ counter' = counter + 1
  /\ i' = [i EXCEPT ![t] = @ + 1]
  /\ UNCHANGED <<part, main, created, local, loaded, M>>

-----------------------------------------------------------------------------

CounterMain == Create \/ JoinAndPrint

CounterWorker(t) ==
  \/ LoadPart1(t) \/ StorePart1(t)
  \/ LockPart2(t) \/ UnlockPart2(t)
  \/ AddPart2a(t)

CounterNext ==
  \/ CounterMain \/ CreateFails
  \/ \E t \in CounterThreads : CounterWorker(t)

\* What is printed: with the mutex or the atomic addition every increment
\* counts, as the README's table says.  Without, increments may be lost; but
\* some thread starts its last store from what another one has stored, unless
\* there is one thread or iteration only.
CounterReported ==
  part \in Parts /\ main = "exit" =>
    LET all == NumThreads * Iterations
    IN  IF part # "part1" \/ NumThreads = 1
        THEN counter = all
        ELSE counter \in (IF Iterations = 1 THEN 1 ELSE 2) .. all
=============================================================================
