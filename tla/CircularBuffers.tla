--------------------------- MODULE CircularBuffers ---------------------------
(***************************************************************************)
(* The two classes of boost/circular_buffer, an object of one of which is  *)
(* used: both promise the same list.                                       *)
(***************************************************************************)
EXTENDS CircularBufferClient

CONSTANTS
  Item,         \* the one item in a space optimized buffer
  MaxControl,   \* bound on its capacity
  MinControls   \* bound: the minimal capacities it may have

ASSUME CircularBuffersAssumption == MaxControl \in Nat /\ MinControls \subseteq Nat /\ NONE # Item

VARIABLES
  class,      \* of the object: "circular_buffer" or "space_optimized"
  ctrl        \* m_capacity_ctrl of a space optimized one

allVars == <<vars, class, ctrl>>

Space == INSTANCE SpaceOptimizedClient
           WITH Values <- {Item}, MaxCapacity <- MaxControl,
                MinCapacities <- MinControls

BuffersInit ==
  \/ class = "circular_buffer" /\ Init /\ ctrl = Space!Control(0, 0)
  \/ class = "space_optimized" /\ Space!Init

BuffersNext ==
  /\ \/ class = "circular_buffer" /\ Next /\ UNCHANGED ctrl
     \/ class = "space_optimized" /\ Space!Next
  /\ UNCHANGED class

BuffersSpec == BuffersInit /\ [][BuffersNext]_allVars

-----------------------------------------------------------------------------

Symmetry == Permutations(Values)

\* The histories decide nothing.
View == <<cb, class, ctrl>>

\* The class invariant, on which every operation rests.  The array of a space
\* optimized buffer never exceeds the capacity that it was given.  (KeepsMinimum
\* says how small it may be.)
Consistent ==
  \/ class = "circular_buffer" /\ WellFormed(cb)
  \/ /\ class = "space_optimized" /\ Space!CB!WellFormed(cb)
     /\ ctrl \in Space!Controllers
     /\ capacity(cb) <= ctrl.capacity

\* Every operation does to the list, and returns, what the interface promises:
\* overwriting at the right end, whatever the order, the place and the number,
\* and whatever array there is at the time.
List == INSTANCE BoundedList WITH
          content <- Content(cb),
          limit <- IF class = "circular_buffer" THEN capacity(cb) ELSE ctrl.capacity
ImplementsList == List!Spec

\* "min_capacity() determines the minimal allocated size": an operation that sets
\* the controller gives the buffer that much, and no other takes it away, but for
\* the copy of a buffer, which has room for the items and no more.
KeepsMinimum ==
  [][/\ class = "space_optimized"
     /\ \/ call'.op \in {"set_capacity", "rset_capacity", "fill", "range"}
        \/ call'.op # "copy" /\ capacity(cb) >= ctrl.min_capacity
     => capacity(cb') >= ctrl'.min_capacity]_allVars

\* Where an iterator to element i is after the operation, in a list that may
\* have lost items at an end; -1 if the operation invalidates it.
IndexAfter(i) ==
  LET op == call'.op
      A == call'.args
      n == CASE op \in {"insert", "rinsert"} -> 1
             [] op \in {"insert_n", "rinsert_n"} -> A[2]
             [] op \in {"insert_range", "rinsert_range"} -> Len(A[2])
             [] OTHER -> 0
      Only(valid, j) == IF valid THEN j ELSE -1
  IN  CASE op \in {"pop_back", "erase_end"} -> i
        [] op = "push_back" -> i - (IF full(cb) THEN 1 ELSE 0)
        [] op = "push_front" -> i + 1
        [] op = "pop_front" -> i - 1
        [] op = "erase_begin" -> i - A[1]
        [] op \in {"insert", "insert_n", "insert_range"} ->
             Only(i < A[1], i - Max({0, n - reserve(cb)}))
        [] op \in {"rinsert", "rinsert_n", "rinsert_range"} -> Only(i >= A[1], i + n)
        [] op = "erase" -> Only(i < A[1], i)
        [] op = "rerase" -> Only(i >= A[2], i - (A[2] - A[1]))
        [] op = "rotate" /\ full(cb) -> (i - A[1]) % size(cb)
        [] op = "rotate" /\ ~full(cb) ->
             IF size(cb) - A[1] < A[1] THEN Only(i < A[1], i + (size(cb) - A[1]))
                                       ELSE i - A[1]
        [] op = "linearize" -> Only(is_linearized(cb), i)
        [] op \in {"set_capacity", "rset_capacity"} -> Only(A[1] = capacity(cb), i)
        [] op = "resize" -> Only(A[1] <= capacity(cb), i)
        [] op = "rresize" -> Only(A[1] <= capacity(cb), i + A[1] - size(cb))
        [] OTHER -> -1

\* "Iterator Invalidation": an element that the interface does not count among
\* those an operation overwrites, removes or moves stays in its cell.  (A
\* space optimized buffer keeps no iterators.)
KeepsIterators ==
  [][class = "circular_buffer" =>
     \A i \in Elems :
       IndexAfter(i) \in 0 .. size(cb') - 1 =>
         add(cb', cb'.m_first, IndexAfter(i)) = add(cb, cb.m_first, i)]_allVars
=============================================================================
