---------------------------- MODULE BoundedList -----------------------------
(***************************************************************************)
(* What boost::circular_buffer promises: a list that holds as many items   *)
(* as its capacity.  What is inserted beyond that overwrites items at the  *)
(* front; the operations with an r in front overwrite items at the back.   *)
(*                                                                         *)
(* Positions are indices; an iterator that is returned is the index of the *)
(* element it is at, or the length of the list for end().                  *)
(***************************************************************************)
EXTENDS Integers, SequencesExt

VARIABLES
  content,    \* the items, front() first
  limit,      \* capacity()
  call,       \* history: the last operation, with its arguments
  result      \* history: what it returned; 0 if nothing

vars == <<content, limit, call, result>>

FirstN(s, n) == SubSeq(s, 1, Min({n, Len(s)}))
LastN(s, n) == SubSeq(s, Len(s) - Min({n, Len(s)}) + 1, Len(s))
Copies(n, x) == [i \in 1 .. n |-> x]

\* The list is cut open before index k, or loses the elements from j to k - 1.
Opened(k, items) == SubSeq(content, 1, k) \o items \o SubSeq(content, k + 1, Len(content))
Without(j, k) == SubSeq(content, 1, j) \o SubSeq(content, k + 1, Len(content))

\* An operation of this name has left the list new.
Did(op, new, ret) ==
  /\ call'.op = op
  /\ content' = new
  /\ result' = ret

Kept == limit' = limit
Old == Len(content)
A == call'.args

-----------------------------------------------------------------------------

PushPop ==
  \/ Did("push_back", LastN(Append(content, A[1]), limit), 0)
  \/ Did("push_front", FirstN(<<A[1]>> \o content, limit), 0)
  \/ Did("pop_back", FirstN(content, Old - 1), 0)
  \/ Did("pop_front", LastN(content, Old - 1), 0)

\* What is returned is where the new item is, or the near end of a full list.
Inserts ==
  \/ Did("insert", LastN(Opened(A[1], <<A[2]>>), limit),
         IF Old = limit THEN Max({A[1] - 1, 0}) ELSE A[1])
  \/ Did("insert_n", LastN(Opened(A[1], Copies(A[2], A[3])), limit), 0)
  \/ Did("insert_range", LastN(Opened(A[1], A[2]), limit), 0)
  \/ Did("rinsert", FirstN(Opened(A[1], <<A[2]>>), limit), A[1])
  \/ Did("rinsert_n", FirstN(Opened(A[1], Copies(A[2], A[3])), limit), 0)
  \/ Did("rinsert_range", FirstN(Opened(A[1], A[2]), limit), 0)

\* erase() returns the element behind what is gone, rerase() the one before.
Erases ==
  \/ Did("erase", Without(A[1], A[2]), A[1])
  \/ Did("rerase", Without(A[1], A[2]),
         IF A[1] = A[2] THEN A[1] ELSE Max({A[1] - 1, 0}))
  \/ Did("erase_begin", LastN(content, Old - A[1]), 0)
  \/ Did("erase_end", FirstN(content, Old - A[1]), 0)
  \/ Did("clear", << >>, 0)

Arrangements ==
  \/ Did("rotate", SubSeq(content, A[1] + 1, Old) \o SubSeq(content, 1, A[1]), 0)
  \/ Did("linearize", content, content)

Capacities ==
  \/ Did("set_capacity", FirstN(content, A[1]), 0) /\ limit' = A[1]
  \/ Did("rset_capacity", LastN(content, A[1]), 0) /\ limit' = A[1]
  \/ Did("resize", FirstN(content \o Copies(A[1] - Old, A[2]), A[1]), 0)
     /\ limit' = Max({limit, A[1]})
  \/ Did("rresize", LastN(Copies(A[1] - Old, A[2]) \o content, A[1]), 0)
     /\ limit' = Max({limit, A[1]})

\* A new object, a copy, or another content for this one.
Assignments ==
  \/ Did("fill", Copies(A[2], A[3]), 0) /\ limit' = A[1]
  \/ Did("range", LastN(A[2], A[1]), 0) /\ limit' = A[1]
  \/ Did("copy", content, 0) /\ Kept

Next ==
  \/ (PushPop \/ Inserts \/ Erases \/ Arrangements) /\ Kept
  \/ Capacities
  \/ Assignments

Spec == content = << >> /\ [][Next]_vars
=============================================================================
