------------------------ MODULE CircularBufferClient ------------------------
(***************************************************************************)
(* A circular buffer and a program that calls its member functions in any  *)
(* order, with any arguments that their preconditions allow.               *)
(***************************************************************************)
EXTENDS CircularBuffer, TLC

CONSTANT MaxCapacity      \* bound

ASSUME CircularBufferAssumption == MaxCapacity \in Nat /\ NONE \notin Values

VARIABLES
  cb,         \* the buffer
  call,       \* history: the last operation, with its arguments
  result      \* history: what it returned; 0 if nothing

vars == <<cb, call, result>>

Capacities == 0 .. MaxCapacity
Counts == 0 .. MaxCapacity + 1
Ranges == SeqOf(Values, MaxCapacity + 1)

Positions == 0 .. size(cb)
Elems == 0 .. size(cb) - 1
Iter(k) == Plus(cb, begin(cb), k)

Returns(op, args, new, ret) ==
  /\ call' = [op |-> op, args |-> args]
  /\ cb' = new
  /\ result' = ret

Does(op, args, new) == Returns(op, args, new, 0)
Gives(op, args, new) == Returns(op, args, new.b, Index(new.b, new.it))

\* circular_buffer(), circular_buffer(capacity)
Init ==
  /\ \E c \in Capacities : cb = Allocated(c)
  /\ call = [op |-> "circular_buffer", args |-> << >>]
  /\ result = 0

-----------------------------------------------------------------------------

Push == \E x \in Values :
  \/ Does("push_back", <<x>>, push_back(cb, x))
  \/ Does("push_front", <<x>>, push_front(cb, x))

Pop ==
  /\ ~empty(cb)
  /\ \/ Does("pop_back", << >>, pop_back(cb))
     \/ Does("pop_front", << >>, pop_front(cb))

InsertItem == \E k \in Positions, x \in Values :
  \/ Gives("insert", <<k, x>>, insert(cb, Iter(k), x))
  \/ Gives("rinsert", <<k, x>>, rinsert(cb, Iter(k), x))

InsertCopies == \E k \in Positions, n \in Counts, x \in Values :
  \/ Does("insert_n", <<k, n, x>>, insert_copies(cb, Iter(k), n, x))
  \/ Does("rinsert_n", <<k, n, x>>, rinsert_n(cb, Iter(k), Copies(n, x)))

InsertRange == \E k \in Positions, items \in Ranges :
  \/ Does("insert_range", <<k, items>>, insert_forward(cb, Iter(k), items))
  \/ Does("insert_range", <<k, items>>, insert_input(cb, Iter(k), items))
  \/ Does("rinsert_range", <<k, items>>, rinsert_n(cb, Iter(k), items))
  \/ Does("rinsert_range", <<k, items>>, rinsert_input(cb, Iter(k), items))

EraseItem == \E k \in Elems :
  \/ Gives("erase", <<k, k + 1>>, erase(cb, Iter(k)))
  \/ Gives("rerase", <<k, k + 1>>, rerase(cb, Iter(k)))

EraseRange == \E j, k \in Positions :
  /\ j <= k
  /\ \/ Gives("erase", <<j, k>>, erase_range(cb, Iter(j), Iter(k)))
     \/ Gives("rerase", <<j, k>>, rerase_range(cb, Iter(j), Iter(k)))

EraseEnds == \E n \in Positions :
  \/ Does("erase_begin", <<n>>, erase_begin(cb, n))
  \/ Does("erase_end", <<n>>, erase_end(cb, n))

Clear == Does("clear", << >>, clear(cb))

Rotate == \E k \in Elems : Does("rotate", <<k>>, rotate(cb, Iter(k)))

Linearize ==
  LET new == linearize(cb)
  IN  Returns("linearize", << >>, new.b, Array(new.b, new.p, size(new.b)))

SetCapacity == \E c \in Capacities :
  \/ Does("set_capacity", <<c>>, set_capacity(cb, c))
  \/ Does("rset_capacity", <<c>>, rset_capacity(cb, c))

Resize == \E n \in Capacities, x \in Values :
  \/ Does("resize", <<n, x>>, resize(cb, n, x))
  \/ Does("rresize", <<n, x>>, rresize(cb, n, x))

\* The constructors with n copies of an item or a range.  They do not look at the
\* old object, so it is enough to let them replace one without a capacity.
Construct(op, args, new) == capacity(cb) = 0 /\ Does(op, args, new)

ConstructCopies == \E n \in Capacities, x \in Values :
  \/ Construct("fill", <<n, n, x>>, filled(n, x))
  \/ \E c \in n .. MaxCapacity : Construct("fill", <<c, n, x>>, filled_to(c, n, x))

ConstructRange == \E items \in Ranges :
  \/ /\ Len(items) <= MaxCapacity
     /\ Construct("range", <<Len(items), items>>, initialize_range(items))
  \/ \E c \in Capacities :
       \/ Construct("range", <<c, items>>, initialize_forward(c, items))
       \/ Construct("range", <<c, items>>, initialize_input(c, items))

\* The copy constructor and operator=.
Copy ==
  \/ Does("copy", << >>, copied(cb))
  \/ Does("copy", << >>, assigned(cb))

\* assign()
AssignCopies == \E n \in Capacities, x \in Values : \E c \in n .. MaxCapacity :
  Does("fill", <<c, n, x>>, assign_n(cb, c, Copies(n, x)))

AssignRange == \E items \in Ranges :
  \/ /\ Len(items) <= MaxCapacity
     /\ Does("range", <<Len(items), items>>, assign_range(cb, items))
  \/ \E c \in Capacities :
       \/ Does("range", <<c, items>>, assign_forward(cb, c, items))
       \/ Does("range", <<c, items>>, assign_input(cb, c, items))

Next ==
  \/ Push \/ Pop
  \/ InsertItem \/ InsertCopies \/ InsertRange
  \/ EraseItem \/ EraseRange \/ EraseEnds \/ Clear
  \/ Rotate \/ Linearize
  \/ SetCapacity \/ Resize
  \/ ConstructCopies \/ ConstructRange \/ Copy
  \/ AssignCopies \/ AssignRange

Spec == Init /\ [][Next]_vars

=============================================================================
