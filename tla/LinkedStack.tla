---------------------------- MODULE LinkedStack -----------------------------
(***************************************************************************)
(* What the stacks of project3 have in common: nodes of the heap (Node.h)  *)
(* linked through next, starting at the stack's head.  For LockStack that  *)
(* is its member head; the lock-free stacks have a dummy node, and it is   *)
(* head->next.                                                             *)
(***************************************************************************)
EXTENDS StackTest, Sequences

VARIABLES
  head,        \* the first node, or NULL
  next,        \* Node::next
  free,        \* the addresses that new may return
  contents     \* history: the nodes that are on the stack, the top first

linkVars == <<head, next, free, contents>>

LinkInit ==
  /\ head = NULL
  /\ next = [n \in Nodes |-> NULL]
  /\ free = Nodes
  /\ contents = << >>

\* n = new Node(data), and push it.
New(t, n) ==
  /\ n \in free
  /\ BeginPush(t, n)
  /\ free' = free \ {n}
  /\ next' = [next EXCEPT ![n] = NULL]
  /\ UNCHANGED <<head, contents>>

\* main's loop over what is left deletes each node.
DeleteLeftover ==
  /\ CountLeftover
  /\ free' = free \cup {node[Main]}
  /\ UNCHANGED <<head, next, contents>>

-----------------------------------------------------------------------------

LinkTypeOK ==
  /\ head \in Nodes \cup {NULL}
  /\ next \in [Nodes -> Nodes \cup {NULL}]
  /\ free \in SUBSET Nodes
  /\ contents \in Seq(Nodes)
=============================================================================
