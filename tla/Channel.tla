------------------------------- MODULE Channel -------------------------------
(***************************************************************************)
(* The channel layer of src/src/lib.rs over its queue: the waiter lists,   *)
(* try_send and try_recv, the futures Send and Recv with their polls,      *)
(* wake-ups and cancellation, close, and the handle counts.                *)
(*                                                                         *)
(* The queue is the one MpmcQueue implements, seen as a FIFO: a push       *)
(* claims a place, samples the waiting count, then publishes; a pop takes  *)
(* the front if it is published.  A task is one thread of control with at  *)
(* most one handle and one future; `woken` is the wake flag its executor   *)
(* keeps.  A section under a waiter-list lock is one step: the count       *)
(* beside the list is its length whenever another thread can look.         *)
(***************************************************************************)
EXTENDS Integers, FiniteSets, SequencesExt

CONSTANTS
    Senders, Receivers,  \* tasks that send, tasks that receive
    Capacity,            \* bound of the channel, or UNBOUNDED
    SNOOZE_LIMIT,        \* bounded snoozes before a poll yields
    MaxItems             \* no unbounded send begins at this length (model bound)

UNBOUNDED == -1
Ready  == "ready"   \* a published value; a claimed place carries its sender
NoTask == "nobody"

Tasks == Senders \cup Receivers
Sides == {"send", "recv"}

ASSUME ChannelAssumption ==
    /\ Capacity \in (Nat \ {0}) \cup {UNBOUNDED}
    /\ SNOOZE_LIMIT \in Nat /\ MaxItems \in Nat
    /\ Senders \cap Receivers = {} /\ Tasks \cap {Ready, NoTask} = {}

VARIABLES
    items,      \* the queue: Ready, or the sender that has yet to publish
    moving,     \* the receiver that is moving the head to the next block
    closed,     \* flags.closed
    handles,    \* flags.senders and flags.receivers
    parked,     \* send_waiters and recv_waiters
    pc,         \* where a task is
    op,         \* "try", "first" or "retry" attempt; "cancel", "close", "drop"
    id,         \* the future holds a waiter_id
    known,      \* history: tasks parked before its claim whose entry still waits
    wake,       \* what the queue operation sampled
    targets,    \* wakers taken out of a list and not yet called
    back,       \* where to go on after calling them
    woken,      \* the executor has to poll the task
    ahead,      \* Recv::poll: claims below its tail snapshot, not yet taken
    snoozes,    \* Recv::poll: budget spent
    undrained   \* history: values claimed before the close, not yet taken

queueVars == <<items, moving, undrained>>
flagVars  == <<closed, handles>>
sampleVars == <<known, wake>>
taskVars  == <<pc, op, id, sampleVars, targets, back, woken, ahead, snoozes>>
vars == <<queueVars, flagVars, parked, taskVars>>

Own(t)   == IF t \in Senders THEN "send" ELSE "recv"
Other(t) == IF t \in Senders THEN "recv" ELSE "send"

\* Inner::new, with the tasks that hold a handle.
New(holders) ==
    /\ items = <<>> /\ moving = NoTask /\ undrained = 0
    /\ closed = FALSE
    /\ handles = [send |-> Cardinality(holders \cap Senders),
                  recv |-> Cardinality(holders \cap Receivers)]
    /\ parked = [side \in Sides |-> <<>>]
    /\ pc = [t \in Tasks |-> IF t \in holders THEN "idle" ELSE "gone"]
    /\ op = [t \in Tasks |-> "none"]
    /\ id = [t \in Tasks |-> FALSE]
    /\ known = [t \in Tasks |-> {}]
    /\ wake = [t \in Tasks |-> FALSE]
    /\ targets = [t \in Tasks |-> {}]
    /\ back = [t \in Tasks |-> "idle"]
    /\ woken = [t \in Tasks |-> FALSE]
    /\ ahead = [r \in Receivers |-> 0]
    /\ snoozes = [r \in Receivers |-> 0]

\* One handle of each kind; further tasks clone theirs.
Init == \E s \in Senders, r \in Receivers : New({s, r})

\* `kind` is what the task does from here on, nothing if it is at rest.
GoAs(t, from, to, kind) ==
    /\ pc[t] = from
    /\ pc' = [pc EXCEPT ![t] = to]
    /\ op' = [op EXCEPT ![t] = IF to \in {"idle", "gone", "pending"} THEN "none"
                               ELSE kind]

Go(t, from, to) == GoAs(t, from, to, op[t])

Waiting(side) == parked[side] # <<>>

\* The list of one side changes: an entry that leaves is nobody's to be seen.
SetParked(side, list) ==
    /\ parked' = [parked EXCEPT ![side] = list]
    /\ known' = [t \in Tasks |->
                   IF Other(t) = side THEN known[t] \cap ToSet(list) ELSE known[t]]

\* The waiters that have done their parking operation on the index.
Parked(side) == {t \in ToSet(parked[side]) : pc[t] # "parking"}

\* What the Relaxed load of the waiting count after a claim can tell: it sees
\* every waiter that had parked before the claim and still waits; otherwise it
\* may be old, or count one that has yet to park (shown in ParkingOrder).
MaySee(t) == IF known[t] # {} THEN {TRUE} ELSE BOOLEAN

\* After a closed verdict, and after a success: a retry has an entry to take
\* back, and only a success passes on a wake-up it may have absorbed.
AfterClosed(t)  == IF op[t] = "retry" THEN "discard" ELSE "idle"
AfterSuccess(t) == IF op[t] = "retry" THEN "unregister" ELSE "idle"

Attempt(t) == IF t \in Senders THEN "check" ELSE "pop"

----------------------------------------------------------------------------
(* What a task can begin.                                                   *)

beginFrame == <<queueVars, closed, wake, targets, back, ahead, snoozes>>

RoomInModel(t) ==
    t \in Senders /\ Capacity = UNBOUNDED => Len(items) < MaxItems

StartTry(t) ==
    /\ GoAs(t, "idle", Attempt(t), "try")
    /\ RoomInModel(t)
    /\ UNCHANGED <<handles, parked, known, id, woken, beginFrame>>

\* send or recv: a future, which its task is going to poll.
StartFuture(t) ==
    /\ Go(t, "idle", "pending")
    /\ RoomInModel(t)
    /\ woken' = [woken EXCEPT ![t] = TRUE]
    /\ UNCHANGED <<handles, parked, known, id, beginFrame>>

\* Mutant: a poll leaves the entry of the last one in the list.
PollKeepsEntry(t) ==
    /\ GoAs(t, "pending", Attempt(t), "first")
    /\ woken' = [woken EXCEPT ![t] = FALSE]
    /\ id' = [id EXCEPT ![t] = FALSE]
    /\ UNCHANGED <<handles, parked, known, beginFrame>>

\* A poll, woken or not, begins with unregister(false).
Poll(t) ==
    /\ GoAs(t, "pending", Attempt(t), "first")
    /\ woken' = [woken EXCEPT ![t] = FALSE]
    /\ id' = [id EXCEPT ![t] = FALSE]
    /\ SetParked(Own(t), RemoveFirst(parked[Own(t)], t))
    /\ UNCHANGED <<handles, beginFrame>>

\* Dropping a pending future: unregister(true) if it ever registered.
Cancel(t) ==
    /\ GoAs(t, "pending", IF id[t] THEN "unregister" ELSE "idle", "cancel")
    /\ woken' = [woken EXCEPT ![t] = FALSE]
    /\ UNCHANGED <<handles, parked, known, id, beginFrame>>

StartClose(t) ==
    /\ GoAs(t, "idle", "swap", "close")
    /\ UNCHANGED <<handles, parked, known, id, woken, beginFrame>>

\* Mutant: a clone is not counted.
CloneUncounted(t) ==
    /\ handles[Own(t)] > 0
    /\ Go(t, "gone", "idle")
    /\ UNCHANGED <<handles, parked, known, id, woken, beginFrame>>

\* Clone of a handle some task holds.
Clone(t) ==
    /\ handles[Own(t)] > 0
    /\ Go(t, "gone", "idle")
    /\ handles' = [handles EXCEPT ![Own(t)] = @ + 1]
    /\ UNCHANGED <<parked, known, id, woken, beginFrame>>

\* Mutant: the last handle goes without closing.
DropHandleSilently(t) ==
    /\ GoAs(t, "idle", "gone", "drop")
    /\ handles' = [handles EXCEPT ![Own(t)] = @ - 1]
    /\ UNCHANGED <<parked, known, id, woken, beginFrame>>

\* Drop of a handle: the last one of its side closes.
DropHandle(t) ==
    /\ GoAs(t, "idle", IF handles[Own(t)] = 1 THEN "swap" ELSE "gone", "drop")
    /\ handles' = [handles EXCEPT ![Own(t)] = @ - 1]
    /\ UNCHANGED <<parked, known, id, woken, beginFrame>>

----------------------------------------------------------------------------
(* Inner::try_send.                                                         *)

sendFrame == <<moving, undrained, flagVars, parked, id, targets, back,
               woken, ahead, snoozes>>

CheckClosed(s) ==
    /\ Go(s, "check", IF closed THEN AfterClosed(s) ELSE "claim")
    /\ UNCHANGED <<items, sampleVars, sendFrame>>

HasRoom == Capacity = UNBOUNDED \/ Len(items) < Capacity

\* push reports Full: the first attempt of a poll goes on to register, the
\* second leaves the future pending.
ReportFull(s) ==
    /\ ~HasRoom
    /\ Go(s, "claim", CASE op[s] = "try"   -> "idle"
                        [] op[s] = "first" -> "register"
                        [] OTHER           -> "pending")
    /\ UNCHANGED <<items, sampleVars, sendFrame>>

Claim(s) ==
    /\ HasRoom
    /\ Go(s, "claim", "sample")
    /\ items' = Append(items, s)
    /\ known' = [known EXCEPT ![s] = Parked("recv")]
    /\ UNCHANGED <<wake, sendFrame>>

SampleReceivers(s) ==
    /\ s \in Senders
    /\ Go(s, "sample", "publish")
    /\ \E seen \in MaySee(s) : wake' = [wake EXCEPT ![s] = seen]
    /\ known' = [known EXCEPT ![s] = {}]
    /\ UNCHANGED <<items, sendFrame>>

Publish(s) ==
    /\ Go(s, "publish", IF wake[s] THEN "notify" ELSE AfterSuccess(s))
    /\ items' = [i \in DOMAIN items |-> IF items[i] = s THEN Ready ELSE items[i]]
    /\ wake' = [wake EXCEPT ![s] = FALSE]
    /\ UNCHANGED <<known, sendFrame>>

----------------------------------------------------------------------------
(* Inner::try_recv_nonblocking and what its callers do with the outcome.    *)

recvFrame == <<flagVars, parked, id, targets, back>>

FrontReady == moving = NoTask /\ items # <<>> /\ Head(items) = Ready

\* Queue::pop takes the front, which may be the last slot of its block.
Take(r) ==
    /\ FrontReady
    /\ Go(r, "pop", IF Capacity = UNBOUNDED THEN "finish" ELSE "sample")
    /\ items' = Tail(items)
    /\ moving' \in {NoTask, r}
    /\ undrained' = IF undrained > 0 THEN undrained - 1 ELSE 0
    /\ ahead' = [q \in Receivers |->
                   IF q # r /\ ahead[q] > 0 THEN ahead[q] - 1 ELSE 0]
    /\ snoozes' = [snoozes EXCEPT ![r] = 0]
    /\ known' = [known EXCEPT ![r] = IF Capacity = UNBOUNDED THEN {}
                                     ELSE Parked("send")]
    /\ UNCHANGED <<wake, woken, recvFrame>>

\* Mutant: senders are never looked for.
SampleSendersNever(r) ==
    /\ r \in Receivers
    /\ Go(r, "sample", "finish")
    /\ known' = [known EXCEPT ![r] = {}]
    /\ UNCHANGED <<queueVars, wake, woken, ahead, snoozes, recvFrame>>

SampleSenders(r) ==
    /\ r \in Receivers
    /\ Go(r, "sample", "finish")
    /\ \E seen \in MaySee(r) : wake' = [wake EXCEPT ![r] = seen]
    /\ known' = [known EXCEPT ![r] = {}]
    /\ UNCHANGED <<queueVars, woken, ahead, snoozes, recvFrame>>

\* The value is read and the head moved; wake a sender if one was seen.
FinishPop(r) ==
    /\ Go(r, "finish", IF wake[r] THEN "notify" ELSE AfterSuccess(r))
    /\ moving' = IF moving = r THEN NoTask ELSE moving
    /\ wake' = [wake EXCEPT ![r] = FALSE]
    /\ UNCHANGED <<items, undrained, known, woken, ahead, snoozes, recvFrame>>

\* Nothing published at the head, or the head is being moved.
PopNone(r) ==
    /\ ~FrontReady
    /\ Go(r, "pop", "state")
    /\ UNCHANGED <<queueVars, sampleVars, woken, ahead, snoozes, recvFrame>>

\* recv_state_when_empty, first load: Empty if the channel is open.
LoadClosed(r) ==
    /\ Go(r, "state", IF closed THEN "indices"
                      ELSE CASE op[r] = "try"   -> "idle"
                             [] op[r] = "first" -> "register"
                             [] OTHER           -> "claims")
    /\ UNCHANGED <<queueVars, sampleVars, woken, ahead, snoozes, recvFrame>>

ForgetSnapshot(r) == /\ ahead' = [ahead EXCEPT ![r] = 0]
                     /\ snoozes' = [snoozes EXCEPT ![r] = 0]

\* Mutant: closed is enough for the final verdict.
CheckIndicesNever(r) ==
    /\ Go(r, "indices", AfterClosed(r)) /\ ForgetSnapshot(r)
    /\ UNCHANGED <<queueVars, sampleVars, woken, recvFrame>>

\* ... and then is_empty_seqcst: Closed ...
CheckIndices(r) ==
    /\ items = <<>>
    /\ Go(r, "indices", AfterClosed(r)) /\ ForgetSnapshot(r)
    /\ UNCHANGED <<queueVars, sampleVars, woken, recvFrame>>

\* ... or Busy: try_recv snoozes and tries again, a poll goes on.
FindBusy(r) ==
    /\ items # <<>>
    /\ Go(r, "indices", CASE op[r] = "try"   -> "pop"
                          [] op[r] = "first" -> "register"
                          [] OTHER           -> "busy")
    /\ UNCHANGED <<queueVars, sampleVars, woken, ahead, snoozes, recvFrame>>

----------------------------------------------------------------------------
(* The registered half of a poll.                                           *)

\* WaiterList::register.
Register(t) ==
    /\ GoAs(t, "register", "parking", "retry")
    /\ SetParked(Own(t), Append(parked[Own(t)], t))
    /\ id' = [id EXCEPT ![t] = TRUE]
    /\ UNCHANGED <<queueVars, flagVars, wake, targets, back, woken, ahead,
                   snoozes>>

\* sender_parking.
ParkSender(s) ==
    /\ s \in Senders
    /\ Go(s, "parking", "check")
    /\ UNCHANGED <<queueVars, sampleVars, flagVars, parked, id, targets, back,
                   woken, ahead, snoozes>>

\* receiver_parking returns the live tail.
TakeSnapshot(r) ==
    /\ r \in Receivers
    /\ Go(r, "parking", "pop")
    /\ ahead' = [ahead EXCEPT ![r] = Len(items)]
    /\ UNCHANGED <<queueVars, sampleVars, woken, snoozes, recvFrame>>

\* Mutant: claims that were there before the registration are not waited for.
CheckClaimsNever(r) ==
    /\ Go(r, "claims", "pending") /\ ForgetSnapshot(r)
    /\ UNCHANGED <<queueVars, sampleVars, woken, recvFrame>>

\* claims_below(tail): none, so the poll is Pending ...
CheckClaims(r) ==
    /\ ahead[r] = 0
    /\ Go(r, "claims", "pending") /\ ForgetSnapshot(r)
    /\ UNCHANGED <<queueVars, sampleVars, woken, recvFrame>>

\* ... or there are.
FindClaims(r) ==
    /\ ahead[r] > 0
    /\ Go(r, "claims", "busy")
    /\ UNCHANGED <<queueVars, sampleVars, woken, ahead, snoozes, recvFrame>>

Snooze(r) ==
    /\ snoozes[r] < SNOOZE_LIMIT
    /\ Go(r, "busy", "pop")
    /\ snoozes' = [snoozes EXCEPT ![r] = @ + 1]
    /\ UNCHANGED <<queueVars, sampleVars, woken, ahead, recvFrame>>

\* Mutant: the poll is pending and nobody is asked to poll again.
YieldAsleep(r) ==
    /\ snoozes[r] >= SNOOZE_LIMIT
    /\ Go(r, "busy", "pending") /\ ForgetSnapshot(r)
    /\ UNCHANGED <<queueVars, sampleVars, woken, recvFrame>>

\* wake_by_ref and Pending: the executor gets its thread back.
Yield(r) ==
    /\ snoozes[r] >= SNOOZE_LIMIT
    /\ Go(r, "busy", "pending") /\ ForgetSnapshot(r)
    /\ woken' = [woken EXCEPT ![r] = TRUE]
    /\ UNCHANGED <<queueVars, sampleVars, recvFrame>>

----------------------------------------------------------------------------
(* WaiterList: unregister and the notifications.                            *)

listFrame == <<queueVars, closed, handles, wake, ahead, snoozes>>

\* unregister(false).
Discard(t) ==
    /\ Go(t, "discard", "idle")
    /\ SetParked(Own(t), RemoveFirst(parked[Own(t)], t))
    /\ id' = [id EXCEPT ![t] = FALSE]
    /\ UNCHANGED <<targets, back, woken, listFrame>>

\* Mutant: an absorbed wake-up is kept.
UnregisterSilently(t) ==
    /\ Go(t, "unregister", "idle")
    /\ SetParked(Own(t), RemoveFirst(parked[Own(t)], t))
    /\ id' = [id EXCEPT ![t] = FALSE]
    /\ UNCHANGED <<targets, back, woken, listFrame>>

\* unregister(true): if a notification already took the entry, pass it on.
Unregister(t) ==
    /\ Go(t, "unregister", IF Contains(parked[Own(t)], t) THEN "idle"
                           ELSE "forward")
    /\ SetParked(Own(t), RemoveFirst(parked[Own(t)], t))
    /\ id' = [id EXCEPT ![t] = FALSE]
    /\ UNCHANGED <<targets, back, woken, listFrame>>

\* Under the lock, take these wakers out; call them after it is released.
TakeOut(t, from, side, wakers, then) ==
    /\ Go(t, from, IF Waiting(side) THEN "wake" ELSE then)
    /\ targets' = [targets EXCEPT ![t] = wakers]
    /\ back' = [back EXCEPT ![t] = IF Waiting(side) THEN then ELSE "idle"]
    /\ UNCHANGED <<id, woken, listFrame>>

NotifyOne(t, from, side, then) ==
    /\ TakeOut(t, from, side, IF Waiting(side) THEN {Head(parked[side])} ELSE {},
               then)
    /\ SetParked(side, IF Waiting(side) THEN Tail(parked[side]) ELSE <<>>)

NotifyAll(t, from, side, then) ==
    /\ TakeOut(t, from, side, ToSet(parked[side]), then)
    /\ SetParked(side, <<>>)

Notify(t)  == NotifyOne(t, "notify", Other(t), AfterSuccess(t))
Forward(t) == NotifyOne(t, "forward", Own(t), "idle")

\* waker.wake(): the executor will poll the task if it has a future.
Wake(t) ==
    /\ \E w \in targets[t] :
         /\ woken' = [woken EXCEPT ![w] = pc[w] \notin {"idle", "gone"}]
         /\ targets' = [targets EXCEPT ![t] = @ \ {w}]
    /\ LET last == Cardinality(targets[t]) = 1
       IN /\ Go(t, "wake", IF last THEN back[t] ELSE "wake")
          /\ back' = IF last THEN [back EXCEPT ![t] = "idle"] ELSE back
    /\ UNCHANGED <<parked, known, id, listFrame>>

----------------------------------------------------------------------------
(* Inner::close.                                                            *)

AfterClose(t) == IF op[t] = "drop" THEN "gone" ELSE "idle"

\* The swap: only the first close goes on to wake the waiters.
SwapClosed(t) ==
    /\ Go(t, "swap", IF closed THEN AfterClose(t) ELSE "wake_receivers")
    /\ closed' = TRUE
    /\ undrained' = IF closed THEN undrained ELSE Len(items)
    /\ UNCHANGED <<items, moving, handles, parked, id, sampleVars, targets,
                   back, woken, ahead, snoozes>>

WakeReceivers(t) == NotifyAll(t, "wake_receivers", "recv", "wake_senders")

\* Mutant: the senders sleep on.
WakeSendersNever(t) ==
    /\ Go(t, "wake_senders", AfterClose(t))
    /\ UNCHANGED <<parked, known, targets, back, id, woken, listFrame>>

WakeSenders(t) == NotifyAll(t, "wake_senders", "send", AfterClose(t))

----------------------------------------------------------------------------
Begin(t) == \/ StartTry(t) \/ StartFuture(t) \/ Poll(t) \/ Cancel(t)
            \/ StartClose(t) \/ Clone(t) \/ DropHandle(t)

SendStep(s) == \/ CheckClosed(s) \/ ReportFull(s) \/ Claim(s)
               \/ SampleReceivers(s) \/ Publish(s) \/ ParkSender(s)

RecvStep(r) == \/ Take(r) \/ SampleSenders(r) \/ FinishPop(r) \/ PopNone(r)
               \/ LoadClosed(r) \/ CheckIndices(r) \/ FindBusy(r)
               \/ TakeSnapshot(r) \/ CheckClaims(r) \/ FindClaims(r)
               \/ Snooze(r) \/ Yield(r)

ListStep(t) == \/ Register(t) \/ Discard(t) \/ Unregister(t) \/ Notify(t)
               \/ Forward(t) \/ Wake(t) \/ SwapClosed(t) \/ WakeReceivers(t)
               \/ WakeSenders(t)

Step(t) == \/ t \in Senders /\ SendStep(t)
           \/ t \in Receivers /\ RecvStep(t)
           \/ ListStep(t)

Next == \E t \in Tasks : Begin(t) \/ Step(t)

Spec == Init /\ [][Next]_vars

----------------------------------------------------------------------------
(* Properties.                                                              *)

\* The steps of an attempt, of an operation's end and of a close.
SendPCs == {"check", "claim", "sample", "publish", "parking"}
RecvPCs == {"pop", "sample", "finish", "state", "indices", "parking", "claims",
            "busy"}
ListPCs == {"register", "discard", "unregister", "notify", "forward", "wake",
            "swap", "wake_receivers", "wake_senders"}

\* What every word and local is, with further places, operations and places to
\* go back to.
Types(pcs, ops, backs) ==
    /\ items \in Seq(Senders \cup {Ready}) /\ undrained \in 0..Len(items)
    /\ moving \in Receivers \cup {NoTask}
    /\ closed \in BOOLEAN
    /\ handles \in [Sides -> Nat]
    /\ parked \in [Sides -> Seq(Tasks)]
    /\ pc \in [Tasks -> {"gone", "idle", "pending"} \cup SendPCs \cup RecvPCs
                          \cup ListPCs \cup pcs]
    /\ op \in [Tasks -> {"none", "try", "first", "retry", "cancel", "close",
                          "drop"} \cup ops]
    /\ id \in [Tasks -> BOOLEAN] /\ wake \in [Tasks -> BOOLEAN]
    /\ known \in [Tasks -> SUBSET Tasks]
    /\ targets \in [Tasks -> SUBSET Tasks]
    /\ back \in [Tasks -> {"idle", "gone", "unregister", "wake_senders"}
                            \cup backs]
    /\ woken \in [Tasks -> BOOLEAN]
    /\ ahead \in [Receivers -> 0..Len(items)]
    /\ snoozes \in [Receivers -> 0..SNOOZE_LIMIT]

\* Types, of the channel with shared receivers.
TypeOK == Types({}, {}, {})

\* A task has one waiter entry at most, in the list of its side, and only
\* while its future holds the entry's id: no completed, cancelled or newly
\* polled future leaves an entry behind that could absorb a notification
\* (lib.rs:260-285, 754-757, 833-835).
EntriesAreOwned ==
    /\ \A side \in Sides : IsInjective(parked[side])
    /\ \A t \in Tasks :
         /\ Contains(parked[Own(t)], t) => id[t]
         /\ ~Contains(parked[Other(t)], t)
         /\ pc[t] \in {"idle", "gone"} => ~id[t]

Asleep(t) == pc[t] = "pending" /\ ~woken[t]

\* Every thread has finished its call, and every task that was woken has
\* been polled.
EveryoneRests == \A t \in Tasks : pc[t] \in {"idle", "gone"} \/ Asleep(t)

\* No send is left asleep beside free room: a wake-up for a slot that went to
\* a future which completed or was cancelled has been passed on
\* (lib.rs:256-285, 754-757, 781-788, queue.rs:58-73).
SendersServed ==
    EveryoneRests /\ (\E s \in Senders : Asleep(s)) => ~HasRoom

\* No receive is left asleep beside a value.  This is what the sleep/wake
\* hand-off is meant to guarantee (queue.rs:58-62, CHANGELOG.md:13-14); the
\* code does not, see README.md.
ReceiversServed ==
    EveryoneRests /\ (\E r \in Receivers : Asleep(r)) => items = <<>>

\* What the code does guarantee: the receivers are never all asleep beside a
\* value, so a value is left waiting only while some receiver is between two
\* receives.  A single receiver never misses one (lib.rs:831-885).
SomeReceiverServed ==
    EveryoneRests /\ (\A r \in Receivers : Asleep(r)) => items = <<>>

\* Nobody sleeps through a close, however it races with registrations
\* (lib.rs:371-381, 435-447, 773-797).
CloseWakesAll == EveryoneRests /\ closed => \A t \in Tasks : ~Asleep(t)

\* A receive reports Closed only when every value claimed before the close
\* has been received, although it loads `closed` and the indices one after
\* the other (lib.rs:376-380, 434-447, queue.rs:82-85).
ClosedMeansDrained ==
    [][\A r \in Receivers :
         (pc[r] = "indices" /\ pc'[r] \in {"idle", "discard"}) => undrained = 0]_vars

\* The channel is closed, or being closed, once a side has no handle left,
\* in whatever order handles are cloned and dropped (lib.rs:480-514).
LastHandleCloses ==
    (\E side \in Sides : handles[side] = 0)
        => closed \/ \E t \in Tasks : pc[t] = "swap"

----------------------------------------------------------------------------
(* Liveness.                                                                *)

\* Inside a call or a poll.
Running(t) == pc[t] \notin {"gone", "idle", "pending"}

\* Threads run on through their calls, and executors poll what was woken.
\* Nobody has to begin a call, and no future has to be polled unwoken.
Fairness == \A t \in Tasks : WF_vars(Step(t)) /\ WF_vars(woken[t] /\ Poll(t))

InFuture(t) ==
    \/ pc[t] = "pending"
    \/ Running(t) /\ op[t] \in {"first", "retry"}

\* When every receiver waits and there is a value, the value does not stay and
\* they do not all go on waiting: a poll that yields comes back
\* (lib.rs:874-882).
ReceiversGoOn ==
    (\A r \in Receivers : InFuture(r)) /\ items # <<>>
        ~> items = <<>> \/ \E r \in Receivers : ~InFuture(r)

\* A send does not wait for ever while there is room (lib.rs:769-779).
SendersGoOn ==
    \A s \in Senders :
        InFuture(s) /\ HasRoom ~> ~InFuture(s) \/ ~HasRoom
=============================================================================
