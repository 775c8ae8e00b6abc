---------------------------- MODULE MCMpmcQueue ----------------------------
(* TLC instances of MpmcQueue.                                              *)
EXTENDS MpmcBlocks, TLC

\* Threads of one kind are interchangeable (safety runs only).
Symmetry == Permutations(Producers) \cup Permutations(Consumers)

\* Producers run; consumers may stop anywhere, for ever.
SpecProducersRun == Spec /\ \A p \in Producers : PushFairness(p)

\* One consumer runs; every other thread may stop anywhere, for ever.
Running == CHOOSE c \in Consumers : TRUE
SpecOneConsumer == Spec /\ PopFairness(Running)
PopReturnsAlone == PopReturns(Running)
=============================================================================
