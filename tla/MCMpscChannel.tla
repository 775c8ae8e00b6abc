---------------------------- MODULE MCMpscChannel ----------------------------
(* TLC instances of MpscChannel.                                            *)
EXTENDS MpscChannel

\* Senders are interchangeable.
Symmetry == Permutations(Senders)
=============================================================================
