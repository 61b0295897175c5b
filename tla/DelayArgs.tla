----------------------------- MODULE DelayArgs ------------------------------
(***************************************************************************)
(* The options of BackoffLock in common_args (project2/common.h), as       *)
(* parse_args() leaves them.                                               *)
(***************************************************************************)
EXTENDS Naturals

CONSTANTS
  MinDelay,    \* carg->minDelay
  MaxDelay,    \* carg->maxDelay
  UIntSpan     \* the number of values of a uint32_t (2^32)

\* Both are given as uint32_t, and parse_args() makes maxDelay at least
\* minDelay.
ASSUME DelayAssumption ==
  /\ MinDelay \in Nat /\ MaxDelay \in Nat /\ UIntSpan \in Nat
  /\ MinDelay <= MaxDelay /\ MaxDelay < UIntSpan
=============================================================================
