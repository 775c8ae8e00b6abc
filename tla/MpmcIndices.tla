----------------------------- MODULE MpmcIndices -----------------------------
(***************************************************************************)
(* The inductive invariant of the two indices of the shared-consumer queue *)
(* (MpmcQueue): who may move them, and what a claim of a position excludes.*)
(* It speaks of positions only; blocks play no part in it.                 *)
(***************************************************************************)
EXTENDS MpmcQueue

UnboundedPCs == {"fa_load", "fa_add", "cas_load", "cas"}
BoundedPCs   == {"cap_load", "cap", "cap_head", "cap_store", "cap_cas"}

\* The claim loop a producer is in fits the queue.
ModeInv ==
    \A p \in Producers :
        /\ ppc[p] \in UnboundedPCs => Capacity = UNBOUNDED
        /\ ppc[p] \in BoundedPCs   => Capacity # UNBOUNDED

\* A claimed position is a value position below the tail, and one producer's.
ClaimInv ==
    /\ \A p \in Producers :
         /\ ppos[p] <= tail
         /\ ppc[p] \in ClaimedPCs => ppos[p] < tail /\ ~IsSentinel(ppos[p])
         /\ ppc[p] \in {"cap_head", "cap_store", "cap_cas"} =>
              ~IsSentinel(ppos[p])
    /\ \A p, q \in Producers :
         (p # q /\ ppc[p] \in ClaimedPCs /\ ppc[q] \in ClaimedPCs)
            => ppos[p] # ppos[q]

\* A consumer that has taken the last slot and has not moved the head yet.
Moving(c) == \/ cpc[c] \in {"next", "advance"}
             \/ cpc[c] = "read" /\ IsLastSlot(cpos[c])

\* A taken position is a value position below the head, and one consumer's;
\* while a consumer moves the head, the head rests on the sentinel.
TakeInv ==
    /\ \A c \in Consumers :
         /\ cpos[c] <= head
         /\ cpc[c] \in {"slot", "cas", "recheck"} => ~IsSentinel(cpos[c])
         /\ cpc[c] \in TakenPCs => cpos[c] < head
         /\ cpc[c] \in {"next", "advance"} => IsLastSlot(cpos[c])
         /\ Moving(c) => head = cpos[c] + 1
    /\ \A c, d \in Consumers :
         (c # d /\ cpc[c] \in TakenPCs /\ cpc[d] \in TakenPCs)
            => cpos[c] # cpos[d]

\* Every head a producer goes by is an old one, so that a capacity check that
\* passed still holds when the CAS succeeds.
CapInv ==
    /\ cached <= head
    /\ \A p \in Producers :
         /\ phead[p] <= head
         /\ ppc[p] \in {"cap_store", "cap_cas"} =>
              ItemsBetween(head, ppos[p]) < Capacity
    /\ CapacityHeld

IndexInv == IndexTypeOK /\ ModeInv /\ ClaimInv /\ TakeInv /\ CapInv
=============================================================================
