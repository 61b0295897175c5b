------------------------- MODULE MCGarbageCollector -------------------------
(***************************************************************************)
(* The garbage collector on small instances.  The nodes are addresses      *)
(* that the program only compares, so they can be permuted.                *)
(***************************************************************************)
EXTENDS GarbageCollector

Symmetry == Permutations(Nodes)

\* The limit of backoff() decides how long a thread sleeps and nothing else, so
\* states that differ in it alone need not be told apart.
View == <<harnessVars, linkVars, cur, nxt, clockVars, listVars>>

\* The instance that is too large to be explored to its end stops when the time
\* is up: it is about what the threads do while they are all at work.
Busy == ~timeup

\* The instance with three workers is about getminclock(): all of them have
\* started, in the order of their numbers, when one begins to work.
Orderly ==
  /\ Busy
  /\ \A i \in DOMAIN clocks : clocks[i] = i - 1
  /\ Len(clocks) < N => \A t \in Workers : pc[t] \in {"start", "register", "loop"}
=============================================================================
