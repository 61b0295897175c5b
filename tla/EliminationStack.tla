-------------------------- MODULE EliminationStack --------------------------
(***************************************************************************)
(* The elimination stack of project3/Elimination.cpp: a push or pop that   *)
(* does not get through to the stack visits the elimination array, to meet *)
(* another one there.  The array is the one that Rendezvous promises and   *)
(* Exchanger implements: what counts is who meets whom.  It is drawn from  *)
(* 0, ..., maxrange, as in the code, and the last of these lies behind the *)
(* array; the word there is taken to begin as that of a slot does.         *)
(*                                                                         *)
(* Nodes that have been popped are not used again in testone, so that the  *)
(* next of a node that is or was on the stack is never written.            *)
(***************************************************************************)
EXTENDS LinkedStack

CONSTANTS
  MaxRange,   \* the range of EliminationArray (100)
  IntSpan     \* the number of values of an int (2^32)

ASSUME EliminationAssumption == MaxRange \in Nat /\ IntSpan \in Nat \ {0, 1, 2}

VARIABLES
  cur,        \* n, in trypush() and trypop()
  range,      \* range, in push() and pop(), 2 outside
  slot        \* the exchanger that visit() has drawn, or the word behind all

elimVars == <<cur, range, slot>>

OpPoints == {"pushcas", "trypop", "popnext", "draw", "visiting"}

\* EliminationStack(): backoff(new EliminationArray(100)), head(new Node())
StackInit ==
  /\ LinkInit
  /\ cur = [a \in Actors |-> NULL]
  /\ range = [a \in Actors |-> 2]
  /\ slot = [a \in Actors |-> 0]

Doubled(a) == (2 * range[a]) % IntSpan
Assign(f, a, v) == f' = [f EXCEPT ![a] = v]

-----------------------------------------------------------------------------
(* push() *)

\* n = head->next; node->next = n; nobody else knows node.
PushLink(a) ==
  /\ StackStep(a, "push", "pushcas")
  /\ Assign(cur, a, head)
  /\ next' = [next EXCEPT ![node[a]] = head]
  /\ UNCHANGED <<head, free, contents, range, slot>>

\* __sync_bool_compare_and_swap(&head->next, n, node)
PushSwap(a) ==
  /\ head = cur[a]
  /\ PushReturns(a, "pushcas")
  /\ head' = node[a]
  /\ contents' = <<node[a]>> \o contents
  /\ Assign(cur, a, NULL)
  /\ Assign(range, a, 2)
  /\ UNCHANGED <<next, free, slot>>

\* Fault: the result of the compare-and-swap is not looked at.
PushFails_Returns(a) ==
  /\ head # cur[a]
  /\ PushReturns(a, "pushcas")
  /\ Assign(cur, a, NULL)
  /\ Assign(range, a, 2)
  /\ UNCHANGED <<linkVars, slot>>

PushFails(a) ==
  /\ head # cur[a]
  /\ StackStep(a, "pushcas", "draw")
  /\ Assign(cur, a, NULL)
  /\ UNCHANGED <<linkVars, range, slot>>

-----------------------------------------------------------------------------
(* pop() *)

\* Nothing on the stack right now...
PopEmpty(a) ==
  /\ head = NULL
  /\ PopReturns(a, "pop", NULL)
  /\ UNCHANGED <<linkVars, elimVars>>

PopTry(a) ==
  /\ head # NULL
  /\ StackStep(a, "pop", "trypop")
  /\ UNCHANGED <<linkVars, elimVars>>

\* trypop() gives up only if the stack is empty.
PopRead(a) ==
  /\ StackStep(a, "trypop", IF head = NULL THEN "draw" ELSE "popnext")
  /\ Assign(cur, a, head)
  /\ UNCHANGED <<linkVars, range, slot>>

\* Fault: the node is taken without a look at whether it is still the first.
PopSwap_PlainStore(a) ==
  /\ PopReturns(a, "popnext", cur[a])
  /\ head' = next[cur[a]]
  /\ contents' = SelectSeq(contents, LAMBDA n : n # cur[a])
  /\ Assign(cur, a, NULL)
  /\ Assign(range, a, 2)
  /\ UNCHANGED <<next, free, slot>>

\* __sync_bool_compare_and_swap(&head->next, n, n->next)
PopSwap(a) ==
  /\ head = cur[a]
  /\ PopReturns(a, "popnext", cur[a])
  /\ head' = next[cur[a]]
  /\ contents' = Tail(contents)
  /\ Assign(cur, a, NULL)
  /\ Assign(range, a, 2)
  /\ UNCHANGED <<next, free, slot>>

PopFails(a) ==
  /\ head # cur[a]
  /\ StackStep(a, "popnext", "trypop")
  /\ Assign(cur, a, NULL)
  /\ UNCHANGED <<linkVars, range, slot>>

-----------------------------------------------------------------------------
(* visit() *)

\* Fault: the range is not cut to maxrange.
Draw_NoMin(a) ==
  /\ StackStep(a, "draw", "visiting")
  /\ \E s \in 0 .. range[a] : Assign(slot, a, s)
  /\ UNCHANGED <<linkVars, cur, range>>

\* int_distribution_type dist(0, min(range, maxrange))
Draw(a) ==
  /\ StackStep(a, "draw", "visiting")
  /\ \E s \in 0 .. MaxRange : s <= range[a] /\ Assign(slot, a, s)
  /\ UNCHANGED <<linkVars, cur, range>>

\* Back in push() or pop(), visit() having returned other: a push is done when
\* it gets NULL, a pop when it does not.  Each goes on otherwise.
After(a, other) ==
  CASE node[a] # NULL /\ other = NULL -> "pushed"
    [] node[a] # NULL /\ other # NULL -> "push"
    [] node[a] = NULL /\ other = NULL -> "trypop"
    [] node[a] = NULL /\ other # NULL -> "popped"

RangeAfter(a, other) ==
  IF After(a, other) \in {"push", "trypop"} THEN Doubled(a) ELSE 2

\* Two threads meet: each gets the node of the other, or NULL from a pop.
Meet(a, b) ==
  /\ Running
  /\ pc[a] = "visiting" /\ pc[b] = "visiting" /\ slot[a] = slot[b]
  /\ a # b
  /\ pc' = [pc EXCEPT ![a] = After(a, node[b]), ![b] = After(b, node[a])]
  /\ node' = [node EXCEPT ![a] = node[b], ![b] = node[a]]
  /\ range' = [range EXCEPT ![a] = RangeAfter(a, node[b]),
                            ![b] = RangeAfter(b, node[a])]
  /\ slot' = [slot EXCEPT ![a] = 0, ![b] = 0]
  /\ UNCHANGED <<countVars, linkVars, cur>>

\* Nobody has come: visit() returns the node it was called with.
MeetNobody(a) ==
  /\ StackStep(a, "visiting", After(a, node[a]))
  /\ Assign(range, a, Doubled(a))
  /\ Assign(slot, a, 0)
  /\ UNCHANGED <<linkVars, cur>>

-----------------------------------------------------------------------------

Push(a) == PushLink(a) \/ PushSwap(a) \/ PushFails(a)
Pop(a) == PopEmpty(a) \/ PopTry(a) \/ PopRead(a) \/ PopSwap(a) \/ PopFails(a)
Visit(a) == Draw(a) \/ MeetNobody(a)

\* The operation that each point of a thread is in.
OpPoint(a) ==
  CASE pc[a] = "pushcas" -> "push"
    [] pc[a] \in {"trypop", "popnext"} -> "pop"
    [] pc[a] \in {"draw", "visiting"} -> IF node[a] = NULL THEN "pop" ELSE "push"
    [] OTHER -> pc[a]
=============================================================================
