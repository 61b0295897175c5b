--------------------------- MODULE LockFreeStack ----------------------------
(***************************************************************************)
(* The lock-free stack of project3/LockFreeStack.cpp: push() and pop() of  *)
(* an actor, one step per access to shared memory.  What the actor does    *)
(* between its calls is the business of the modules that EXTEND this one.  *)
(*                                                                         *)
(* head is head->next of the code, whose head is a dummy node.             *)
(***************************************************************************)
EXTENDS LinkedStack

CONSTANT LimitModulus     \* 1023 in backoff()

ASSUME LockFreeStackAssumption == LimitModulus \in Nat \ {0}

VARIABLES
  cur,      \* n, in trypush() and trypop() of each actor
  nxt,      \* n->next, as trypop() read it
  limit,    \* LockFreeStack::limit, which backoff() shares among all threads
  lim       \* the register limit goes through

stackVars == <<head, next, free, contents, cur, nxt, limit, lim>>
regVars == <<cur, nxt, limit, lim>>

OpPoints == {"pushlink", "pushcas", "backoff", "widen",
             "popread", "popnext", "popcas"}

\* LockFreeStack::LockFreeStack()
StackInit ==
  /\ LinkInit
  /\ cur = [a \in Actors |-> NULL]
  /\ nxt = [a \in Actors |-> NULL]
  /\ limit = 1
  /\ lim = [a \in Actors |-> 0]

-----------------------------------------------------------------------------
(* push(): while(!trypush(node)) backoff(); *)

\* Node *n = head->next;
PushRead(a) ==
  /\ StackStep(a, "push", "pushlink")
  /\ cur' = [cur EXCEPT ![a] = head]
  /\ UNCHANGED <<linkVars, nxt, limit, lim>>

\* node->next = n;
PushLink(a) ==
  /\ StackStep(a, "pushlink", "pushcas")
  /\ next' = [next EXCEPT ![node[a]] = cur[a]]
  /\ UNCHANGED <<head, free, contents, regVars>>

\* __sync_bool_compare_and_swap(&head->next, n, node)
PushSwap(a) ==
  /\ head = cur[a]
  /\ PushReturns(a, "pushcas")
  /\ head' = node[a]
  /\ contents' = <<node[a]>> \o contents
  /\ cur' = [cur EXCEPT ![a] = NULL]
  /\ UNCHANGED <<next, free, nxt, limit, lim>>

PushFail(a) ==
  /\ head # cur[a]
  /\ StackStep(a, "pushcas", "backoff")
  /\ cur' = [cur EXCEPT ![a] = NULL]
  /\ UNCHANGED <<linkVars, nxt, limit, lim>>

\* backoff() sleeps for a time drawn from 1..limit, then doubles limit: one
\* load and one store, between which other threads may do the same.
LoadLimit(a) ==
  /\ StackStep(a, "backoff", "widen")
  /\ lim' = [lim EXCEPT ![a] = limit]
  /\ UNCHANGED <<linkVars, cur, nxt, limit>>

\* Fault: one less, so that a power of two times two can be zero.
StoreLimit_PowerOfTwo(a) ==
  /\ StackStep(a, "widen", "push")
  /\ limit' = (2 * lim[a]) % (LimitModulus - 1)
  /\ lim' = [lim EXCEPT ![a] = 0]
  /\ UNCHANGED <<linkVars, cur, nxt>>

StoreLimit(a) ==
  /\ StackStep(a, "widen", "push")
  /\ limit' = (2 * lim[a]) % LimitModulus
  /\ lim' = [lim EXCEPT ![a] = 0]
  /\ UNCHANGED <<linkVars, cur, nxt>>

-----------------------------------------------------------------------------
(* pop(): while(head->next != NULL && (n = trypop()) == NULL); *)

\* head->next == NULL: nothing to pop.
PopEmpty(a) ==
  /\ head = NULL
  /\ PopReturns(a, "pop", NULL)
  /\ UNCHANGED stackVars

PopTry(a) ==
  /\ head # NULL
  /\ StackStep(a, "pop", "popread")
  /\ UNCHANGED stackVars

\* Fault: trypop() does not give up.
PopRead_NoBreak(a) ==
  /\ StackStep(a, "popread", IF head = NULL THEN "popread" ELSE "popnext")
  /\ cur' = [cur EXCEPT ![a] = head]
  /\ UNCHANGED <<linkVars, nxt, limit, lim>>

\* n = head->next; trypop() gives up if that is NULL, and pop() looks again.
PopRead(a) ==
  /\ StackStep(a, "popread", IF head = NULL THEN "pop" ELSE "popnext")
  /\ cur' = [cur EXCEPT ![a] = head]
  /\ UNCHANGED <<linkVars, nxt, limit, lim>>

\* n->next: nothing keeps n on the stack, or alive, until here.
PopNext(a) ==
  /\ StackStep(a, "popnext", "popcas")
  /\ nxt' = [nxt EXCEPT ![a] = next[cur[a]]]
  /\ UNCHANGED <<linkVars, cur, limit, lim>>

\* __sync_bool_compare_and_swap(&head->next, n, n->next)
PopSwap(a) ==
  /\ head = cur[a]
  /\ PopReturns(a, "popcas", cur[a])
  /\ head' = nxt[a]
  /\ contents' = SubSeq(contents, 2, Len(contents))
  /\ cur' = [cur EXCEPT ![a] = NULL]
  /\ nxt' = [nxt EXCEPT ![a] = NULL]
  /\ UNCHANGED <<next, free, limit, lim>>

PopFail(a) ==
  /\ head # cur[a]
  /\ StackStep(a, "popcas", "popread")
  /\ cur' = [cur EXCEPT ![a] = NULL]
  /\ nxt' = [nxt EXCEPT ![a] = NULL]
  /\ UNCHANGED <<linkVars, limit, lim>>

Push(a) ==
  \/ PushRead(a) \/ PushLink(a) \/ PushSwap(a) \/ PushFail(a)
  \/ LoadLimit(a) \/ StoreLimit(a)

Pop(a) ==
  \/ PopEmpty(a) \/ PopTry(a) \/ PopRead(a) \/ PopNext(a)
  \/ PopSwap(a) \/ PopFail(a)

-----------------------------------------------------------------------------

StackTypeOK ==
  /\ LinkTypeOK
  /\ cur \in [Actors -> Nodes \cup {NULL}]
  /\ nxt \in [Actors -> Nodes \cup {NULL}]
  /\ limit \in Nat
  /\ lim \in [Actors -> Nat]

\* "1 <= limit <= 512" (LockFreeStack.cpp:57), however the loads and stores of
\* the threads interleave: a limit of zero would stay zero.
LimitRange == 1 <= limit /\ 2 * limit <= LimitModulus + 1

\* No A-B-A: when the swap of trypop() is going to succeed because the node it
\* read is on top of the stack, what it read as the node's successor still is.
NoABA ==
  \A a \in Actors :
    pc[a] = "popcas" /\ head = cur[a] => nxt[a] = next[cur[a]]

\* The point of the abstract stack's program an actor is at.
OpPoint(p) ==
  CASE p \in {"pushlink", "pushcas", "backoff", "widen"} -> "push"
    [] p \in {"popread", "popnext", "popcas"} -> "pop"
    [] OTHER -> p
=============================================================================
