------------------------------ MODULE Programs ------------------------------
(***************************************************************************)
(* The four programs of project1 and second_test of project2, one of which *)
(* is run: they share nothing but the questions asked of them.             *)
(***************************************************************************)
EXTENDS SharedCounter, ProducerConsumer

CONSTANTS
  NumTesters,   \* carg->num_threads of second_test
  NSEC_SEC, MaxElapsed, MaxRounds

ASSUME ProgramsAssumption ==
  /\ NumTesters \in Nat \ {0}
  /\ NSEC_SEC \in Nat \ {0}

VARIABLES tester, lock1, lock2, tcounters, tnsecs, owner, reg, elapsed, setback, retval

Second == INSTANCE SecondTest WITH NumThreads <- NumTesters, pc <- tester

\* What second_test has besides main, created and counter.
testerVars ==
  <<tester, lock1, lock2, tcounters, tnsecs, owner, reg, elapsed, setback, retval>>

programVars == <<counterVars, queueVars, testerVars>>

\* The argument -t of part3: lock, lockfree, or both one after the other.
QueueTypes == {<<"lock">>, <<"lockfree">>, <<"lock", "lockfree">>}

ProgramInit ==
  /\ Second!TestInit
  /\ \/ \E p \in Parts \cup {"second_test"} : CounterInit(p) /\ QueueInit(<< >>)
     \/ \E kinds \in QueueTypes : CounterInit("part3") /\ QueueInit(kinds)

Part12 == part \in Parts /\ UNCHANGED <<queueVars, testerVars>>
Part3 == part = "part3" /\ UNCHANGED <<counterVars, testerVars>>
SecondTest ==
  /\ part = "second_test"
  /\ UNCHANGED <<part, i, local, loaded, M, queueVars>>

Ended ==
  IF part = "part3" THEN todo = << >> /\ q = NONE
                    ELSE main \in {"exit", "failed"}

ProgramNext ==
  \/ CounterNext /\ Part12
  \/ QueueNext /\ Part3
  \/ Second!TestNext /\ SecondTest
  \/ Ended /\ UNCHANGED programVars

ProgramSpec == ProgramInit /\ [][ProgramNext]_programVars

\* Every thread is scheduled again and again, and time goes on.  Nobody has to be
\* given a mutex ahead of others: each thread locks it a bounded number of times.
FairProgramSpec ==
  /\ ProgramSpec
  /\ WF_programVars(CounterMain /\ Part12)
  /\ \A t \in CounterThreads : WF_programVars(CounterWorker(t) /\ Part12)
  /\ WF_programVars(QueueMain /\ Part3)
  /\ \A r \in Roles : WF_programVars(QueueThread(r) /\ Part3)
  /\ WF_programVars(Second!TestMain /\ SecondTest)
  /\ WF_programVars(Second!Tick /\ SecondTest)
  /\ \A t \in Second!Testers : WF_programVars(Second!Tester(t) /\ SecondTest)

-----------------------------------------------------------------------------

\* second_test's own check succeeds, and its sums of waiting times are possible.
TalliesAgree == part = "second_test" => Second!TalliesAgree

\* No increment, signal or item is waited for in vain: whichever the program,
\* it comes to its end.
ProgramEnds == <>Ended
=============================================================================
