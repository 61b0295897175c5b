----------------------------- MODULE Rendezvous -----------------------------
(***************************************************************************)
(* What visit() of the elimination array promises: a thread comes with a   *)
(* node or with NULL; either it meets exactly one other thread, and each   *)
(* of the two leaves with what the other one brought, or it leaves with    *)
(* what it brought itself.                                                 *)
(***************************************************************************)
EXTENDS Naturals

CONSTANTS
  Threads,
  Nodes,
  NULL        \* what a thread that pops brings

VARIABLES
  at,         \* where each thread is: outside, inside, or about to leave
  brought,    \* the argument of visit()
  leaving     \* what visit() is going to return

vars == <<at, brought, leaving>>

Init ==
  /\ at = [t \in Threads |-> "outside"]
  /\ brought = [t \in Threads |-> NULL]
  /\ leaving = [t \in Threads |-> NULL]

\* A node is in the hands of one thread.
Visit(t) ==
  /\ at[t] = "outside"
  /\ \E n \in Nodes \cup {NULL} :
       /\ n # NULL => \A u \in Threads : n \notin {brought[u], leaving[u]}
       /\ brought' = [brought EXCEPT ![t] = n]
  /\ at' = [at EXCEPT ![t] = "inside"]
  /\ UNCHANGED leaving

Meet(t, u) ==
  /\ t # u
  /\ at[t] = "inside" /\ at[u] = "inside"
  /\ at' = [at EXCEPT ![t] = "leaving", ![u] = "leaving"]
  /\ leaving' = [leaving EXCEPT ![t] = brought[u], ![u] = brought[t]]
  /\ brought' = [brought EXCEPT ![t] = NULL, ![u] = NULL]

MeetNobody(t) ==
  /\ at[t] = "inside"
  /\ at' = [at EXCEPT ![t] = "leaving"]
  /\ leaving' = [leaving EXCEPT ![t] = brought[t]]
  /\ brought' = [brought EXCEPT ![t] = NULL]

Leave(t) ==
  /\ at[t] = "leaving"
  /\ at' = [at EXCEPT ![t] = "outside"]
  /\ leaving' = [leaving EXCEPT ![t] = NULL]
  /\ UNCHANGED brought

Next ==
  \/ \E t \in Threads : Visit(t) \/ MeetNobody(t) \/ Leave(t)
  \/ \E t, u \in Threads : Meet(t, u)

Spec == Init /\ [][Next]_vars
=============================================================================
