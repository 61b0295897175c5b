------------------------ MODULE SpaceOptimizedClient ------------------------
(***************************************************************************)
(* A space optimized circular buffer and a program that calls its member   *)
(* functions in any order, with any arguments that their preconditions     *)
(* allow.  Ranges to insert are of forward iterators: to find its length,  *)
(* insert() goes through a range, which it could not do twice with others. *)
(***************************************************************************)
EXTENDS SpaceOptimized

CONSTANTS
  MaxCapacity,      \* bound
  MinCapacities     \* the minimal capacities asked for: a bound, too

VARIABLES
  cb,         \* the circular buffer it inherits from
  ctrl,       \* m_capacity_ctrl
  call,       \* history: the last operation, with its arguments
  result      \* history: what it returned; 0 if nothing

vars == <<cb, ctrl, call, result>>

Capacities == 0 .. MaxCapacity
Counts == 0 .. MaxCapacity + 1
Ranges == SeqOf(Values, MaxCapacity + 1)
Controllers ==
  {c \in [capacity : Capacities, min_capacity : MinCapacities] :
     c.min_capacity <= c.capacity}

this == Made(cb, ctrl)
Positions == 0 .. size(this)
Elems == 0 .. size(this) - 1

Returns(op, args, new, ret) ==
  /\ call' = [op |-> op, args |-> args]
  /\ cb' = new.b
  /\ ctrl' = new.ctrl
  /\ result' = ret

Does(op, args, new) == Returns(op, args, new, 0)
Gives(op, args, new) == Returns(op, args, new.s, CB!Index(new.s.b, new.it))

Init ==
  /\ \E c \in Controllers : cb = Allocated(c).b /\ ctrl = c
  /\ call = [op |-> "circular_buffer_space_optimized", args |-> << >>]
  /\ result = 0

-----------------------------------------------------------------------------

Push == \E x \in Values :
  \/ Does("push_back", <<x>>, push_back(this, x))
  \/ Does("push_front", <<x>>, push_front(this, x))

Pop ==
  /\ size(this) > 0
  /\ \/ Does("pop_back", << >>, pop_back(this))
     \/ Does("pop_front", << >>, pop_front(this))

InsertItem == \E k \in Positions, x \in Values :
  \/ Gives("insert", <<k, x>>, insert(this, k, x))
  \/ Gives("rinsert", <<k, x>>, rinsert(this, k, x))

InsertCopies == \E k \in Positions, n \in Counts, x \in Values :
  \/ Does("insert_n", <<k, n, x>>, insert_copies(this, k, n, x))
  \/ Does("rinsert_n", <<k, n, x>>, rinsert_copies(this, k, n, x))

InsertRange == \E k \in Positions, items \in Ranges :
  \/ Does("insert_range", <<k, items>>, insert_range(this, k, items))
  \/ Does("rinsert_range", <<k, items>>, rinsert_range(this, k, items))

EraseItem == \E k \in Elems :
  \/ Gives("erase", <<k, k + 1>>, erase(this, At(this, k)))
  \/ Gives("rerase", <<k, k + 1>>, rerase(this, At(this, k)))

EraseRange == \E k \in Positions : \E j \in 0 .. k :
  \/ Gives("erase", <<j, k>>, erase_range(this, At(this, j), At(this, k)))
  \/ Gives("rerase", <<j, k>>, rerase_range(this, At(this, j), At(this, k)))

Clear == Does("clear", << >>, clear(this))

\* Inherited as they are.
Rotate == \E k \in Elems :
  Does("rotate", <<k>>, Made(CB!rotate(cb, At(this, k)), ctrl))

Linearize ==
  LET new == CB!linearize(cb)
  IN  Returns("linearize", << >>, Made(new.b, ctrl),
              CB!Array(new.b, new.p, CB!size(new.b)))

SetCapacity == \E c \in Controllers :
  \/ Does("set_capacity", <<c.capacity>>, set_capacity(this, c))
  \/ Does("rset_capacity", <<c.capacity>>, rset_capacity(this, c))

Resize == \E n \in Capacities, x \in Values :
  \/ Does("resize", <<n, x>>, resize(this, n, x))
  \/ Does("rresize", <<n, x>>, rresize(this, n, x))

-----------------------------------------------------------------------------

\* Constructors replace an object without a capacity.
Construct(op, args, new) == capacity(this) = 0 /\ Does(op, args, new)

ConstructCopies == \E c \in Controllers, x \in Values :
  \/ Construct("fill", <<c.capacity, c.capacity, x>>, filled(c, x))
  \/ \E n \in 0 .. c.capacity :
       Construct("fill", <<c.capacity, n, x>>, filled_to(c, n, x))

ConstructRange == \E items \in Ranges :
  \/ /\ Len(items) <= MaxCapacity
     /\ Construct("range", <<Len(items), items>>, made_of(items))
  \/ \E c \in Controllers :
       \/ Construct("range", <<c.capacity, items>>, made_of_forward(c, items))
       \/ Construct("range", <<c.capacity, items>>, made_of_input(c, items))

Copy ==
  \/ Does("copy", << >>, copied(this))
  \/ \E c \in Controllers : Does("copy", << >>, assigned(Allocated(c), this))

AssignCopies == \E n \in Capacities, x \in Values :
  \/ Does("fill", <<n, n, x>>, assign_copies(this, n, x))
  \/ \E c \in Controllers :
       /\ n <= c.capacity
       /\ Does("fill", <<c.capacity, n, x>>, assign_copies_to(this, c, n, x))

AssignRange == \E items \in Ranges :
  \/ /\ Len(items) <= MaxCapacity
     /\ Does("range", <<Len(items), items>>, assign_range(this, items))
  \/ \E c \in Controllers :
       \/ Does("range", <<c.capacity, items>>, assign_forward(this, c, items))
       \/ Does("range", <<c.capacity, items>>, assign_input(this, c, items))

Next ==
  \/ Push \/ Pop
  \/ InsertItem \/ InsertCopies \/ InsertRange
  \/ EraseItem \/ EraseRange \/ Clear
  \/ Rotate \/ Linearize
  \/ SetCapacity \/ Resize
  \/ ConstructCopies \/ ConstructRange \/ Copy
  \/ AssignCopies \/ AssignRange

Spec == Init /\ [][Next]_vars
=============================================================================
