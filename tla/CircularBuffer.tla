--------------------------- MODULE CircularBuffer ---------------------------
(***************************************************************************)
(* boost::circular_buffer<T> for a scalar T, such as the Node pointers of  *)
(* the garbage collector's lists: the representation and what each member  *)
(* function does to it.  Constructing an item and assigning to one are     *)
(* both a store, destroying one does nothing, and copying never throws, so *)
(* the catch blocks are not reached.  A build without NDEBUG also keeps a  *)
(* registry of the iterators and destroys items one by one, which leaves   *)
(* the same lists.                                                         *)
(*                                                                         *)
(* Pointers into the array are indices from m_buff, which is 0; m_end is   *)
(* the capacity.  Loops over the array are folds of their single stores,   *)
(* in the order of the code.  A function that also returns an iterator     *)
(* gives a record of both.                                                 *)
(***************************************************************************)
EXTENDS Integers, SequencesExt

CONSTANTS
  Values,     \* T
  NONE        \* what is in a cell before the first store

null == -1    \* the pointer 0: an iterator with it is end()

capacity(b) == b.m_end
size(b) == b.m_size
empty(b) == size(b) = 0
full(b) == capacity(b) = size(b)
reserve(b) == capacity(b) - size(b)

increment(b, p) == IF p + 1 = b.m_end THEN 0 ELSE p + 1
decrement(b, p) == (IF p = 0 THEN b.m_end ELSE p) - 1
add(b, p, n) == p + (IF n < b.m_end - p THEN n ELSE n - capacity(b))

sub(b, p, n) == p - (IF n > p THEN n - capacity(b) ELSE n)
map_pointer(b, p) == IF p = null THEN b.m_last ELSE p

-----------------------------------------------------------------------------
(* Iterators and observers *)

begin(b) == IF empty(b) THEN null ELSE b.m_first

\* linearize_pointer(): the index of the element an iterator is at.
Index(b, it) ==
  CASE it = null -> size(b)
    [] it # null /\ it < b.m_first -> it + (b.m_end - b.m_first)
    [] OTHER -> it - b.m_first

OrEnd(b, p) == IF p = b.m_last THEN null ELSE p
Advanced(b, it) == OrEnd(b, increment(b, it))
Plus(b, it, n) == IF n = 0 THEN it ELSE OrEnd(b, add(b, it, n))
Minus(b, it, n) == IF n = 0 THEN it ELSE sub(b, map_pointer(b, it), n)

\* operator --
Retreated(b, it) == decrement(b, map_pointer(b, it))

Distance(b, from, to) == Index(b, to) - Index(b, from)

\* The elements from one iterator to another, and all of them from the end.
Elements(b, from, to) ==
  LET n == Distance(b, from, to)
      it[i \in 1 .. n] == IF i = 1 THEN from ELSE Advanced(b, it[i - 1])
  IN  [i \in 1 .. n |-> b.cells[it[i]]]

Backwards(b) ==
  LET it[i \in 1 .. size(b)] == Retreated(b, IF i = 1 THEN null ELSE it[i - 1])
  IN  [i \in 1 .. size(b) |-> b.cells[it[i]]]

at(b, i) == b.cells[add(b, b.m_first, i)]
front(b) == b.cells[b.m_first]
back(b) == b.cells[(IF b.m_last = 0 THEN b.m_end ELSE b.m_last) - 1]

Array(b, p, n) == [i \in 1 .. n |-> b.cells[p + i - 1]]
Wrapped(b) == b.m_last <= b.m_first /\ ~empty(b)
array_one(b) ==
  Array(b, b.m_first, (IF Wrapped(b) THEN b.m_end ELSE b.m_last) - b.m_first)
array_two(b) == Array(b, 0, IF Wrapped(b) THEN b.m_last ELSE 0)
is_linearized(b) == b.m_first < b.m_last \/ b.m_last = 0

-----------------------------------------------------------------------------
(* Loops over the array *)

\* construct(), replace(), construct_or_replace()
Store(b, p, x) == [b EXCEPT !.cells[p] = x]

\* The items one after the other, from cell p on, around the end.
StoreAll(b, p, items) ==
  FoldLeftDomain(LAMBDA new, i : Store(new, add(b, p, i - 1), items[i]), b, items)

\* How often a loop increments p until it is q.
Steps(b, p, q) == (q - p) % capacity(b)

\* n elements, the i-th from cell From(i) to cell To(i).
Move(b, n, From(_), To(_)) ==
  FoldLeft(LAMBDA new, i : Store(new, To(i), new.cells[From(i)]),
           b, [i \in 1 .. n |-> i])

\* The n elements before q, the last one first, m cells towards the end.
MoveBack(b, q, n, m) ==
  Move(b, n, LAMBDA i : sub(b, q, i), LAMBDA i : sub(b, add(b, q, m - 1), i - 1))

\* The n elements from p on, the first one first, m cells towards the front.
MoveForward(b, p, n, m) ==
  Move(b, n, LAMBDA i : add(b, p, i - 1), LAMBDA i : add(b, sub(b, p, m), i - 1))

-----------------------------------------------------------------------------
(* Construction and capacity *)

\* initialize_buffer()
Allocated(c) ==
  [cells |-> [p \in 0 .. c - 1 |-> NONE], m_end |-> c,
   m_first |-> 0, m_last |-> 0, m_size |-> 0]

\* The items at the start of a new array of capacity c.
reset(c, items) ==
  [StoreAll(Allocated(c), 0, items) EXCEPT
     !.m_size = Len(items),
     !.m_last = IF Len(items) = c THEN 0 ELSE Len(items)]

Copies(n, x) == [i \in 1 .. n |-> x]

\* circular_buffer(n, item), which is full, and (capacity, n, item)
filled(n, x) == [StoreAll(Allocated(n), 0, Copies(n, x)) EXCEPT !.m_size = n]
filled_to(c, n, x) == reset(c, Copies(n, x))

\* The copy constructor, and operator= for another buffer.
copied(b) == reset(capacity(b), Elements(b, begin(b), null))
assigned(from) == reset(capacity(from), Elements(from, begin(from), null))

\* What std::advance(first, distance - c) leaves of a range.
LastOf(c, items) ==
  SubSeq(items, 1 + (IF Len(items) > c THEN Len(items) - c ELSE 0), Len(items))

set_capacity(b, c) ==
  IF c = capacity(b) THEN b
  ELSE reset(c, Elements(b, begin(b), Plus(b, begin(b), Min({c, size(b)}))))

rset_capacity(b, c) ==
  IF c = capacity(b) THEN b
  ELSE reset(c, Elements(b, Minus(b, null, Min({c, size(b)})), null))

destroy_content(b) == [b EXCEPT !.m_first = add(b, b.m_first, size(b))]
clear(b) == [destroy_content(b) EXCEPT !.m_size = 0]

\* Fault: the array is used again with the items behind the old ones.
assign_n_KeepsFirst(b, c, items) ==
  LET new == IF c = capacity(b) THEN destroy_content(b) ELSE Allocated(c)
  IN  [StoreAll(new, new.m_first, items) EXCEPT
         !.m_size = Len(items),
         !.m_first = 0,
         !.m_last = add(new, 0, Len(items))]

assign_n(b, c, items) ==
  LET new == IF c = capacity(b) THEN destroy_content(b) ELSE Allocated(c)
  IN  [StoreAll(new, 0, items) EXCEPT
         !.m_size = Len(items),
         !.m_first = 0,
         !.m_last = add(new, 0, Len(items))]

-----------------------------------------------------------------------------
(* One item at one of the ends *)

push_back(b, x) ==
  CASE full(b) /\ empty(b) -> b
    [] full(b) /\ ~empty(b) ->
         LET last == increment(b, b.m_last)
         IN  [Store(b, b.m_last, x) EXCEPT !.m_last = last, !.m_first = last]
    [] ~full(b) ->
         [Store(b, b.m_last, x) EXCEPT !.m_last = increment(b, @), !.m_size = @ + 1]

push_front(b, x) ==
  IF full(b) /\ empty(b) THEN b
  ELSE LET p == decrement(b, b.m_first)
           new == [Store(b, p, x) EXCEPT !.m_first = p]
       IN  IF full(b) THEN [new EXCEPT !.m_last = p] ELSE [new EXCEPT !.m_size = @ + 1]

pop_back(b) == [b EXCEPT !.m_last = decrement(b, @), !.m_size = @ - 1]
pop_front(b) == [b EXCEPT !.m_first = increment(b, @), !.m_size = @ - 1]

\* The constructors from a capacity and a range: forward iterators are advanced
\* to the items that fit, input iterators are read to the end, each item as in
\* push_back().
initialize_forward(c, items) == reset(c, LastOf(c, items))
initialize_input(c, items) == FoldLeft(push_back, Allocated(c), items)

\* Without a capacity, there is room for the range.
initialize_range(items) == initialize_forward(Len(items), items)

-----------------------------------------------------------------------------
(* insert() *)

insert_item(b, it, x) ==
  LET p == map_pointer(b, it)
      n == IF it = null THEN 0 ELSE Steps(b, p, b.m_last)
      last == increment(b, b.m_last)
      new == [Store(MoveBack(b, b.m_last, n, 1), p, x) EXCEPT !.m_last = last]
  IN  [it |-> p,
       b |-> IF full(b) THEN [new EXCEPT !.m_first = last]
                        ELSE [new EXCEPT !.m_size = @ + 1]]

insert(b, it, x) ==
  IF full(b) /\ it = begin(b) THEN [it |-> it, b |-> b] ELSE insert_item(b, it, x)

insert_n(b, it, items) ==
  LET n == Len(items)
      construct == Min({reserve(b), n})
      opened == IF it = null THEN b
                ELSE MoveBack(b, b.m_last, Steps(b, it, b.m_last), n)
  IN  [StoreAll(opened, map_pointer(b, it), items) EXCEPT
         !.m_last = add(b, @, n),
         !.m_first = add(b, @, n - construct),
         !.m_size = @ + construct]

\* copy: as many new items as can be in front of the elements behind it.
Room(b, it) == capacity(b) - Distance(b, it, null)

insert_copies(b, it, n, x) ==
  IF n = 0 \/ Room(b, it) = 0 THEN b
  ELSE insert_n(b, it, Copies(Min({n, Room(b, it)}), x))

\* Fault: of too many items the first are inserted, as with rinsert().
insert_forward_First(b, it, items) ==
  IF items = << >> \/ Room(b, it) = 0 THEN b
  ELSE insert_n(b, it, SubSeq(items, 1, Min({Len(items), Room(b, it)})))

insert_forward(b, it, items) ==
  IF items = << >> \/ Room(b, it) = 0 THEN b
  ELSE insert_n(b, it, LastOf(Room(b, it), items))

insert_input(b, it, items) ==
  IF full(b) /\ it = begin(b) THEN b
  ELSE LET One(at_, x) == LET new == insert_item(at_.b, at_.it, x)
                          IN  [it |-> Advanced(new.b, new.it), b |-> new.b]
       IN  FoldLeft(One, [it |-> it, b |-> b], items).b

\* assign() of a range: without a capacity, and with one, from forward or input
\* iterators.
assign_range(b, items) == assign_n(b, Len(items), items)
assign_forward(b, c, items) == assign_n(b, c, LastOf(c, items))
assign_input(b, c, items) ==
  IF c = capacity(b) THEN insert_input(clear(b), begin(clear(b)), items)
                     ELSE initialize_input(c, items)

-----------------------------------------------------------------------------
(* rinsert() *)

rinsert(b, it, x) ==
  LET p == IF it = begin(b) THEN b.m_first ELSE map_pointer(b, it)
      first == decrement(b, b.m_first)
      opened == MoveForward(b, b.m_first, Steps(b, b.m_first, p), 1)
      new == [Store(opened, decrement(b, p), x) EXCEPT !.m_first = first]
  IN  IF full(b) /\ it = null THEN [it |-> null, b |-> b]
      ELSE [it |-> decrement(b, p),
            b |-> IF full(b) THEN [new EXCEPT !.m_last = first]
                             ELSE [new EXCEPT !.m_size = @ + 1]]

rinsert_n(b, it, items) ==
  LET room == capacity(b) - Index(b, it)
      n == Min({room, Len(items)})
      construct == Min({reserve(b), n})
      k == IF it = begin(b) THEN 0 ELSE Steps(b, b.m_first, map_pointer(b, it))
      opened == MoveForward(b, b.m_first, k, n)
  IN  IF n = 0 THEN b
      ELSE [StoreAll(opened, add(b, sub(b, b.m_first, n), k), SubSeq(items, 1, n)) EXCEPT
              !.m_first = sub(b, @, n),
              !.m_last = sub(b, @, n - construct),
              !.m_size = @ + construct]

\* The loop ends when rinsert() gives end(), because the buffer is full; it
\* would do the same for all further items.
rinsert_input(b, it, items) ==
  LET One(at_, x) == LET new == rinsert(at_.b, at_.it, x)
                     IN  [it |-> IF new.it = null THEN null ELSE Advanced(new.b, new.it),
                          b |-> new.b]
  IN  FoldLeft(One, [it |-> it, b |-> b], items).b

-----------------------------------------------------------------------------
(* erase() and rerase() *)

erase(b, it) ==
  LET last == decrement(b, b.m_last)
      next == increment(b, it)
      closed == MoveForward(b, next, Steps(b, next, b.m_last), 1)
  IN  [it |-> IF it = last THEN null ELSE it,
       b |-> [closed EXCEPT !.m_last = last, !.m_size = @ - 1]]

\* Fault: the gap is closed from the end instead of the beginning.
rerase_FromTheEnd(b, it) ==
  LET new == erase(b, it).b
  IN  [it |-> IF it = b.m_first THEN begin(new)
              ELSE Plus(new, begin(new), Steps(b, b.m_first, it) - 1), b |-> new]

rerase(b, it) ==
  LET n == Steps(b, b.m_first, it)
      new == [MoveBack(b, it, n, 1) EXCEPT
                !.m_first = increment(b, @), !.m_size = @ - 1]
  IN  [it |-> IF n = 0 THEN begin(new) ELSE it, b |-> new]

\* How often a loop that tests after its step increments p until it is q.
StepsDo(b, p, q) == ((q - p - 1) % capacity(b)) + 1

erase_range(b, from, to) ==
  LET behind == Distance(b, to, null)
      gone == Distance(b, from, to)
      first == add(b, from, behind)
      new == [MoveForward(b, to, behind, gone) EXCEPT
                !.m_last = first, !.m_size = @ - StepsDo(b, first, b.m_last)]
  IN  IF from = to THEN [it |-> from, b |-> b]
      ELSE [it |-> OrEnd(new, from), b |-> new]

rerase_range(b, from, to) ==
  LET last == map_pointer(b, to)
      before == Steps(b, b.m_first, from)
      gone == Distance(b, from, to)
      p == sub(b, last, before)
      new == [MoveBack(b, from, before, gone) EXCEPT
                !.m_first = p, !.m_size = @ - StepsDo(b, b.m_first, p)]
  IN  IF from = to THEN [it |-> from, b |-> b]
      ELSE [it |-> IF p = last THEN begin(new) ELSE decrement(b, last), b |-> new]

erase_begin(b, n) == [b EXCEPT !.m_first = add(b, @, n), !.m_size = @ - n]
erase_end(b, n) == [b EXCEPT !.m_last = sub(b, @, n), !.m_size = @ - n]

-----------------------------------------------------------------------------
(* rotate() and linearize() *)

Repeat(n, Op(_), b) == FoldLeft(LAMBDA new, i : Op(new), b, [i \in 1 .. n |-> i])

rotate(b, it) ==
  LET n == Index(b, it)
      m == size(b) - n
      ToFront(c) == pop_back(push_front(c, back(c)))
      ToBack(c) == pop_front(push_back(c, front(c)))
  IN  CASE full(b) -> [b EXCEPT !.m_first = it, !.m_last = it]
        [] ~full(b) /\ m < n -> Repeat(m, ToFront, b)
        [] ~full(b) /\ m >= n -> Repeat(n, ToBack, b)

\* As it is written; cells below m_first are not seen when m_first < m_last.
is_uninitialized(b, p) == p >= b.m_last /\ (b.m_first < b.m_last \/ p < b.m_first)

\* A step of the two loops of linearize(): leave or enter the inner one, or copy
\* or exchange one item in it.
LinearizeStep(l) ==
  LET b == l.b
      there == b.cells[l.src]
      here == b.cells[l.dest]
      kept == Store(b, l.dest, there)
      Leave(first) == [l EXCEPT !.inner = FALSE, !.first = first, !.src = first]
  IN  CASE ~l.inner -> [l EXCEPT !.inner = l.dest < l.src, !.ii = 0]
        [] l.inner /\ l.src >= b.m_end -> Leave(l.first)
        [] l.inner /\ l.src < b.m_end /\ l.moved = size(b) -> Leave(l.dest)
        [] l.inner /\ l.src < b.m_end /\ l.moved # size(b) /\ l.dest = l.first ->
             Leave(l.first + l.ii)
        [] OTHER ->
             [l EXCEPT !.b = IF is_uninitialized(b, l.dest) THEN kept
                             ELSE Store(kept, l.src, here),
                       !.src = @ + 1, !.dest = @ + 1, !.moved = @ + 1, !.ii = @ + 1]

\* A pointer to the elements, all in one piece.  An item is moved once, and the
\* loops are left and entered again at most as often.
linearize(b) ==
  LET l == [b |-> b, src |-> b.m_first, dest |-> 0, first |-> b.m_first,
            moved |-> 0, ii |-> 0, inner |-> FALSE]
      done == Repeat(3 * size(b) + 3, LinearizeStep, l).b
  IN  IF empty(b) \/ is_linearized(b) THEN [p |-> b.m_first, b |-> b]
      ELSE [p |-> 0,
            b |-> [done EXCEPT !.m_first = 0, !.m_last = add(b, 0, size(b))]]

-----------------------------------------------------------------------------
(* resize() and rresize() *)

\* Room for n elements, if the buffer has to grow.
Grown(b, n) == IF n > capacity(b) THEN set_capacity(b, n) ELSE b

resize(b, n, x) ==
  IF n > size(b) THEN insert_copies(Grown(b, n), null, n - size(b), x)
  ELSE erase_range(b, Minus(b, null, size(b) - n), null).b

rresize(b, n, x) ==
  IF n > size(b)
  THEN LET new == Grown(b, n)
       IN  rinsert_n(new, begin(new), Copies(n - size(b), x))
  ELSE rerase_range(b, begin(b), Minus(b, null, n)).b

-----------------------------------------------------------------------------
(* The class invariant *)

\* What the observers see of it: operator[] of every index.
Content(b) == [i \in 1 .. size(b) |-> at(b, i - 1)]

\* The elements are the m_size cells from m_first on, around the end, to m_last,
\* and all of them have been stored; whoever goes other ways than operator[]
\* sees the same.
WellFormed(b) ==
  /\ {b.m_first, b.m_last} \subseteq (IF capacity(b) = 0 THEN {0} ELSE DOMAIN b.cells)
  /\ size(b) \in 0 .. capacity(b)
  /\ b.m_last = add(b, b.m_first, size(b))
  /\ Content(b) \in Seq(Values)
  /\ array_one(b) \o array_two(b) = Content(b)
  /\ Elements(b, begin(b), null) = Content(b)
  /\ Backwards(b) = Reverse(Content(b))
  /\ ~empty(b) => front(b) = Head(Content(b)) /\ back(b) = Last(Content(b))
=============================================================================
