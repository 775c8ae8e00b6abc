----------------------------- MODULE MpscWakeups -----------------------------
(***************************************************************************)
(* The inductive invariant of the channel with one exclusive receiver      *)
(* (MpscChannel): that of Channel (ChannelWakeups) with the places of a    *)
(* batch receive, how far a batch receive has come, and who looks after    *)
(* the slots a batch has freed.                                            *)
(***************************************************************************)
EXTENDS MpscChannel, ChannelWakeups

\* Where a receiver can be that has taken values it has yet to return.
FullHandedPCs == BatchPCs \cup {"idle", "sample", "finish", "notify", "wake",
                                "unregister", "forward"}

\* Only the receiver is ever in a batch receive; what it has taken, it has taken
\* from batches, from an awaited receive that is ending, or before both.
BatchInv ==
    /\ moving = NoTask
    /\ left \in Nat /\ left <= MaxBatch /\ got \in BOOLEAN
    /\ burst \in Nat /\ burst <= MaxBatch
    /\ got => left > 0
    /\ \A s \in Senders : pc[s] \notin BatchPCs /\ op[s] # "many" /\ back[s] # "batch"
    /\ \A r \in Receivers :
         /\ pc[r] \in BatchPCs => op[r] = "many"
         /\ op[r] = "many" =>
              pc[r] \in BatchPCs \/ (pc[r] = "wake" /\ back[r] \in {"idle", "batch"})
         /\ back[r] = "batch" => pc[r] = "wake" /\ op[r] = "many"
         /\ left > 0 => op[r] \notin {"close", "drop"}
         /\ got => pc[r] \in FullHandedPCs
         /\ pc[r] \in {"freed", "notify_many"} => Bounded /\ burst > 0
         /\ ahead[r] # 0 =>
              /\ pc[r] \in {"pop", "state", "indices", "claims", "busy"}
              /\ op[r] = "retry"

\* Senders that sleep and can be notified.
Sleepers == {b \in Senders : SleepsListed(b)}

\* Senders that will pass on the wake-up they absorbed, unless they find the
\* channel full.
Forwarders == {s \in Absorbed : pc[s] # "pending"}

\* Senders that the receiver is about to wake.
Pledged == IF \E r \in Receivers : pc[r] = "notify_many" THEN burst ELSE 0

\* Every sleeper is going to be woken.
Covered == Cardinality(Sleepers) <= Cardinality(Forwarders) + Pledged

\* Slots of the last batch that the sleeper b may still be woken for.
Owed(b) ==
    IF \E r \in Receivers : \/ pc[r] = "freed" /\ b \in known[r]
                            \/ pc[r] = "notify_many"
    THEN burst ELSE 0

\* While there is room and somebody sleeps, as many look for room, or will notify
\* one who does, as there are free slots; or as many as there are sleepers.
BatchSlotInv ==
    Bounded /\ ~closed /\ Len(items) < Capacity =>
      /\ \/ Covered
         \/ \A b \in Sleepers : Capacity - Len(items) <= Watchers(b) + Owed(b)
      /\ \A r \in Receivers : pc[r] = "freed" => Sleepers \subseteq known[r]
=============================================================================
