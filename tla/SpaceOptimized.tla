--------------------------- MODULE SpaceOptimized ---------------------------
(***************************************************************************)
(* boost::circular_buffer_space_optimized<T>: a circular buffer whose      *)
(* array grows and shrinks with its content, between the minimum and the   *)
(* capacity of its capacity controller.  It is a pair of the circular      *)
(* buffer it inherits from, b, and the controller, ctrl; CB!f is what the  *)
(* code calls circular_buffer<T, Alloc>::f.                                *)
(*                                                                         *)
(* An iterator does not survive a change of the array: operations take the *)
(* index of the element and come back to it.                               *)
(***************************************************************************)
EXTENDS Integers, SequencesExt

CONSTANTS Values, NONE

CB == INSTANCE CircularBuffer

begin(s) == CB!begin(s.b)
end(s) == CB!null
size(s) == CB!size(s.b)
capacity(s) == s.ctrl.capacity
internal_capacity(s) == CB!capacity(s.b)

At(s, index) == CB!Plus(s.b, begin(s), index)
WithArray(s, c) == [s EXCEPT !.b = CB!set_capacity(@, c)]

-----------------------------------------------------------------------------
(* Control of the array's capacity *)

\* At least a fifth is kept in reserve, within the capacity.
ensure_reserve(s, new_capacity, buffer_size) ==
  LET roomy == IF buffer_size + new_capacity \div 5 >= new_capacity
               THEN 2 * new_capacity ELSE new_capacity
  IN  Min({roomy, capacity(s)})

\* c doubled until n elements fit.
Doubled(c, n) == Min({m \in {c * 2^k : k \in 0 .. n} : m >= n})

check_low_capacity(s, n) ==
  LET new_size == size(s) + n
      new_capacity == Doubled(Max({1, internal_capacity(s)}), new_size)
  IN  IF new_size <= internal_capacity(s) THEN s
      ELSE WithArray(s, ensure_reserve(s, new_capacity, new_size))

\* Fault: the last halving goes past the minimum.
Halved_PastMinimum(s, c) ==
  LET half[k \in 0 .. c + 1] == c \div 2^k
      AtMinimum(k) == k > 0 /\ half[k] <= s.ctrl.min_capacity
  IN  half[Min({k \in 0 .. c + 1 : AtMinimum(k) \/ half[k] \div 3 < size(s)})]

\* c halved while no more than a third of it is used, but not below the minimum.
Halved(s, c) ==
  LET half[k \in 0 .. c + 1] == c \div 2^k
      AtMinimum(k) == k > 0 /\ half[k] <= s.ctrl.min_capacity
      last == Min({k \in 0 .. c + 1 : AtMinimum(k) \/ half[k] \div 3 < size(s)})
  IN  IF AtMinimum(last) THEN s.ctrl.min_capacity ELSE half[last]

check_high_capacity(s) ==
  WithArray(s, ensure_reserve(s, Halved(s, internal_capacity(s)), size(s)))

adjust_min_capacity(s) ==
  IF s.ctrl.min_capacity > internal_capacity(s)
  THEN WithArray(s, s.ctrl.min_capacity)
  ELSE check_high_capacity(s)

-----------------------------------------------------------------------------
(* Elements *)

push_back(s, x) == [check_low_capacity(s, 1) EXCEPT !.b = CB!push_back(@, x)]
push_front(s, x) == [check_low_capacity(s, 1) EXCEPT !.b = CB!push_front(@, x)]
pop_back(s) == check_high_capacity([s EXCEPT !.b = CB!pop_back(@)])
pop_front(s) == check_high_capacity([s EXCEPT !.b = CB!pop_front(@)])

\* What an operation of the circular buffer returns, with the controller.
Returned(s, new) == [it |-> new.it, s |-> [s EXCEPT !.b = new.b]]

insert(s, index, x) ==
  LET low == check_low_capacity(s, 1)
  IN  Returned(low, CB!insert(low.b, At(low, index), x))

insert_copies(s, index, n, x) ==
  LET low == check_low_capacity(s, n)
  IN  [low EXCEPT !.b = CB!insert_copies(@, At(low, index), n, x)]

insert_range(s, index, items) ==
  LET low == check_low_capacity(s, Len(items))
  IN  [low EXCEPT !.b = CB!insert_forward(@, At(low, index), items)]

rinsert(s, index, x) ==
  LET low == check_low_capacity(s, 1)
  IN  Returned(low, CB!rinsert(low.b, At(low, index), x))

rinsert_copies(s, index, n, x) ==
  LET low == check_low_capacity(s, n)
  IN  [low EXCEPT !.b = CB!rinsert_n(@, At(low, index), CB!Copies(n, x))]

rinsert_range(s, index, items) ==
  LET low == check_low_capacity(s, Len(items))
  IN  [low EXCEPT !.b = CB!rinsert_n(@, At(low, index), items)]

\* An erasure's result, found again in an array that may be smaller.
Shrunk(s, new) ==
  LET high == check_high_capacity([s EXCEPT !.b = new.b])
  IN  [it |-> At(high, CB!Index(new.b, new.it)), s |-> high]

erase(s, it) == Shrunk(s, CB!erase(s.b, it))
erase_range(s, from, to) == Shrunk(s, CB!erase_range(s.b, from, to))
rerase(s, it) == Shrunk(s, CB!rerase(s.b, it))
rerase_range(s, from, to) == Shrunk(s, CB!rerase_range(s.b, from, to))
clear(s) == erase_range(s, begin(s), end(s)).s

-----------------------------------------------------------------------------
(* Capacity and size *)

set_capacity(s, ctrl) ==
  LET last == CB!Minus(s.b, end(s), size(s) - ctrl.capacity)
  IN  adjust_min_capacity(
        [b |-> IF ctrl.capacity < size(s) THEN CB!erase_range(s.b, last, end(s)).b
                                          ELSE s.b,
         ctrl |-> ctrl])

rset_capacity(s, ctrl) ==
  LET first == At(s, size(s) - ctrl.capacity)
  IN  adjust_min_capacity(
        [b |-> IF ctrl.capacity < size(s) THEN CB!rerase_range(s.b, begin(s), first).b
                                          ELSE s.b,
         ctrl |-> ctrl])

Grown(s, n) == [s EXCEPT !.ctrl.capacity = Max({@, n})]

resize(s, n, x) ==
  IF n > size(s) THEN insert_copies(Grown(s, n), size(s), n - size(s), x)
  ELSE erase_range(s, CB!Minus(s.b, end(s), size(s) - n), end(s)).s

rresize(s, n, x) ==
  IF n > size(s) THEN rinsert_copies(Grown(s, n), 0, n - size(s), x)
  ELSE rerase_range(s, begin(s), CB!Minus(s.b, end(s), n)).s

-----------------------------------------------------------------------------
(* Constructors and assignments *)

\* capacity_control(buffer_capacity, min_buffer_capacity)
Control(c, min) == [capacity |-> c, min_capacity |-> min]

Made(b, ctrl) == [b |-> b, ctrl |-> ctrl]

init_capacity(ctrl, n) == Max({ctrl.min_capacity, n})
init_capacity_forward(ctrl, items) ==
  Max({ctrl.min_capacity, Min({ctrl.capacity, Len(items)})})

Allocated(ctrl) == Made(CB!Allocated(ctrl.min_capacity), ctrl)
filled(ctrl, x) == Made(CB!filled(ctrl.capacity, x), ctrl)
filled_to(ctrl, n, x) == Made(CB!filled_to(init_capacity(ctrl, n), n, x), ctrl)
copied(s) == Made(CB!initialize_range(CB!Elements(s.b, begin(s), end(s))), s.ctrl)
made_of(items) == Made(CB!initialize_range(items), Control(Len(items), 0))
made_of_forward(ctrl, items) ==
  Made(CB!initialize_forward(init_capacity_forward(ctrl, items), items), ctrl)

\* Input iterators are read into an array of full capacity, which is reduced.
made_of_input(ctrl, items) ==
  LET s == Made(CB!initialize_input(ctrl.capacity, items), ctrl)
  IN  WithArray(s, Max({ctrl.min_capacity, size(s)}))

assigned(s, from) ==
  Made(CB!assign_range(s.b, CB!Elements(from.b, begin(from), end(from))), from.ctrl)
assign_copies(s, n, x) == Made(CB!assign_n(s.b, n, CB!Copies(n, x)), Control(n, 0))
assign_copies_to(s, ctrl, n, x) ==
  Made(CB!assign_n(s.b, Max({ctrl.min_capacity, n}), CB!Copies(n, x)), ctrl)
assign_range(s, items) ==
  LET b == CB!assign_range(s.b, items)
  IN  Made(b, Control(CB!capacity(b), 0))
assign_forward(s, ctrl, items) ==
  Made(CB!assign_forward(s.b, ctrl.capacity, items), ctrl)
assign_input(s, ctrl, items) ==
  Made(CB!assign_input(s.b, ctrl.capacity, items), ctrl)
=============================================================================
