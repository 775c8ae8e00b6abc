------------------------------ MODULE MCChannel ------------------------------
(* TLC instances of Channel.                                                *)
EXTENDS ChannelWakeups

\* Tasks of one side are interchangeable (safety runs only).
Symmetry == Permutations(Senders) \cup Permutations(Receivers)

\* Every task has cloned its handle and keeps it; only futures, no close.
NextFutures == \E t \in Tasks : StartFuture(t) \/ Poll(t) \/ Cancel(t) \/ Step(t)
SpecFutures == New(Tasks) /\ [][NextFutures]_vars
\* ... with every thread and every executor running.
FairFutures == SpecFutures /\ Fairness
=============================================================================
