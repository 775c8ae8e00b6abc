---------------------------- MODULE ChannelWakeups ----------------------------
(***************************************************************************)
(* The inductive invariant of the channel layer (Channel): where a task    *)
(* can be in which operation, who holds handles, whose the waiter entries  *)
(* are, why nobody who sleeps is forgotten, and who watches free slots.    *)
(***************************************************************************)
EXTENDS Channel

\* A batch receive (MpscChannel) included.
BatchPCs == {"batch", "freed", "notify_many"}
Typed == Types(BatchPCs, {"many"}, {"batch"})

\* Where an attempt of an operation is, until it ends or fails.
AttemptPCs == {"check", "claim", "sample", "publish",
               "pop", "finish", "state", "indices", "notify"}

ClosePCs == {"swap", "wake_receivers", "wake_senders"}

\* Which operation a task is in, and what its waiter_id says.
OperationInv ==
    \A t \in Tasks :
        /\ pc[t] \in AttemptPCs => op[t] \in {"try", "first", "retry"}
        /\ pc[t] = "register" => op[t] = "first"
        /\ pc[t] \in {"parking", "claims", "busy"} => op[t] = "retry"
        /\ pc[t] \in ClosePCs => op[t] \in {"close", "drop"}
        /\ op[t] = "drop" =>
             \/ pc[t] \in ClosePCs
             \/ pc[t] = "wake" /\ back[t] \in {"wake_senders", "gone"}
        /\ pc[t] = "wake" =>
             /\ back[t] = "gone" => op[t] = "drop"
             /\ back[t] = "wake_senders" => op[t] \in {"close", "drop"}
        /\ id[t] =>
             /\ pc[t] \notin {"idle", "gone", "forward"}
             /\ op[t] \in {"none", "retry", "cancel"}
             /\ pc[t] = "wake" => back[t] = "unregister"

\* The tasks of a side that hold a handle they are not dropping.
Holders(side) ==
    {t \in Tasks : Own(t) = side /\ pc[t] # "gone" /\ op[t] # "drop"}

HolderInv ==
    \A side \in Sides : /\ IsFiniteSet(Holders(side))
                        /\ handles[side] = Cardinality(Holders(side))

Listed(t) == t \in ToSet(parked[Own(t)])

\* Each list is of tasks of its side, once each, and what a claim or a pop
\* remembers of the other side is in its list.
EntryInv ==
    /\ \A side \in Sides : IsInjective(parked[side])
    /\ \A t \in Tasks : /\ Listed(t) => id[t]
                        /\ t \notin ToSet(parked[Other(t)])
                        /\ known[t] \subseteq ToSet(parked[Other(t)])

\* From a registration to the end of that poll, unless the retry succeeds.
Retrying(t) ==
    \/ pc[t] \in {"parking", "claims", "busy", "pending"}
    \/ /\ pc[t] \in {"check", "claim", "pop", "state", "indices"}
       /\ op[t] = "retry"

\* Who is no longer listed has been woken or is about to be.
WakeInv ==
    \A t \in Tasks :
        /\ IsFiniteSet(targets[t])
        /\ targets[t] # {} => pc[t] = "wake"
        /\ Retrying(t) =>
             Listed(t) \/ woken[t] \/ \E u \in Tasks : t \in targets[u]

\* It may go to sleep, or sleeps, without having seen the newest value.
Exposed(r) ==
    /\ Listed(r) /\ ~woken[r]
    /\ \/ pc[r] = "pending"
       \/ /\ pc[r] \in {"pop", "state", "indices", "claims", "busy"}
          /\ op[r] = "retry" /\ ahead[r] < Len(items)

\* It is going to notify a receiver, if one is still listed.
Announcing(s) ==
    \/ pc[s] = "sample" /\ known[s] # {}
    \/ pc[s] = "publish" /\ wake[s]
    \/ pc[s] = "notify"

\* A value is looked after: by a receiver that will look for it, or by a sender
\* that will wake one.
ServeInv ==
    /\ Receivers # {}
    /\ items # <<>> => \/ \E r \in Receivers : ~Exposed(r)
                       \/ \E s \in Senders : Announcing(s)

\* It will not look at `closed` again before it sleeps.
Deaf(t) ==
    \/ pc[t] \in {"pending", "claims"}
    \/ pc[t] = "claim" /\ op[t] = "retry"

\* It is closing the channel and has yet to drain the list of this side.
Draining(c, side) ==
    \/ pc[c] = "wake_receivers"
    \/ side = "send" /\ \/ pc[c] = "wake_senders"
                        \/ pc[c] = "wake" /\ back[c] = "wake_senders"

CloseInv ==
    closed => \A t \in Tasks : Deaf(t) /\ Listed(t) /\ ~woken[t] =>
                 \E c \in Tasks : Draining(c, Own(t))

Bounded == Capacity # UNBOUNDED

\* Only a bounded channel makes a sender wait, and only a close ends its retry
\* without a success.
WaitInv ==
    \A s \in Senders : /\ pc[s] = "discard" => closed
                       /\ ~Bounded => ~id[s] /\ pc[s] # "register"

\* Senders that are going to look for room.
Attempting == {s \in Senders : pc[s] \in {"check", "claim"}}

\* Senders that were taken out of the list, and will look for room or pass the
\* wake-up on.
Absorbed == {s \in Senders : (id[s] /\ ~Listed(s)) \/ pc[s] = "forward"}

\* Receivers that took a value and are going to notify a sender, if the sleeper
\* b is still listed.
Owes(r, b) ==
    \/ pc[r] = "sample" /\ b \in known[r]
    \/ pc[r] = "finish" /\ wake[r]
    \/ pc[r] = "notify"

Owing(b) == {r \in Receivers : Owes(r, b)}

SleepsListed(b) == pc[b] = "pending" /\ Listed(b)

\* How many look after free slots, for all that the sleeper b can tell.
Watchers(b) == Cardinality(Attempting) + Cardinality(Absorbed)
                 + Cardinality(Owing(b))

\* For each free slot but those spare[b], which somebody else looks after, there
\* is a sender that will look for one, or a receiver that will notify one.
SlotsWatched(spare) ==
    Bounded /\ ~closed =>
      \A b \in Senders :
        SleepsListed(b) => Capacity - Len(items) <= Watchers(b) + spare[b]

\* No listed sender sleeps beside a free slot that is nobody's.
SlotInv == SlotsWatched([b \in Senders |-> 0])

WakeupInv == /\ Typed /\ OperationInv /\ HolderInv /\ EntryInv /\ WakeInv
             /\ ServeInv /\ CloseInv
=============================================================================
