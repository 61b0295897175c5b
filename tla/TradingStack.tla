---------------------------- MODULE TradingStack ----------------------------
(***************************************************************************)
(* What the elimination stack promises, in the harness of testone: the     *)
(* abstract stack, on which two operations may also meet.                  *)
(*                                                                         *)
(* A push that meets a pop hands its node over, which is as good as a push *)
(* with a pop right after it.  Two pushes that meet exchange their nodes   *)
(* and go on: the first of them that returns may have pushed the other's   *)
(* node, while its own is not on the stack yet.                            *)
(***************************************************************************)
EXTENDS LifoStack, TestOne

allVars == <<vars, reg>>

InitOne == Init /\ OneInit

HandOver(t, u) ==
  /\ Running
  /\ pc[t] = "push" /\ pc[u] = "pop"
  /\ pc' = [pc EXCEPT ![t] = "pushed", ![u] = "popped"]
  /\ node' = [node EXCEPT ![t] = NULL, ![u] = node[t]]
  /\ UNCHANGED <<countVars, contents>>

SwapNodes(t, u) ==
  /\ Running
  /\ pc[t] = "push" /\ pc[u] = "push"
  /\ node' = [node EXCEPT ![t] = node[u], ![u] = node[t]]
  /\ UNCHANGED <<pc, countVars, contents>>

NextOne ==
  \/ MainThread /\ UNCHANGED reg
  \/ \E t \in Workers :
       \/ OneWorkerStep(t) /\ UNCHANGED contents
       \/ (Allocate(t) \/ Push(t) \/ Pop(t)) /\ UNCHANGED reg
  \/ \E t, u \in Workers : (HandOver(t, u) \/ SwapNodes(t, u)) /\ UNCHANGED reg
  \/ Exited /\ UNCHANGED allVars

SpecOne == InitOne /\ [][NextOne]_allVars
=============================================================================
