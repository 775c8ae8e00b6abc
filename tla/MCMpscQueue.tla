---------------------------- MODULE MCMpscQueue ----------------------------
(* TLC instances of MpscQueue.                                              *)
EXTENDS MpscQueue, TLC

\* Producers are interchangeable.
Symmetry == Permutations(Producers)
=============================================================================
