----------------------------- MODULE ParkingOrder -----------------------------
(***************************************************************************)
(* The memory ordering of the sleep/wake hand-off (src/src/queue.rs:58-80, *)
(* src/src/lib.rs:207-316): one index of the queue, the waiter list of the *)
(* threads that park on it, and the count beside the list, which the       *)
(* threads that move the index load Relaxed.                               *)
(*                                                                         *)
(* A Relaxed or Acquire load may return an old value.  The count is kept   *)
(* as its modification order, and each thread has a view: the oldest       *)
(* message of it the thread may still read.  Synchronisation joins views:  *)
(* the list lock carries one, and so does the index, whose read-modify-    *)
(* write operations all read the last message (one release sequence).      *)
(* Nothing else is assumed to order the threads.                           *)
(*                                                                         *)
(* Instances: tail.index with receivers parking and senders moving it, and *)
(* head.index with senders parking and receivers moving it.                *)
(***************************************************************************)
EXTENDS Naturals, FiniteSets, SequencesExt

CONSTANTS
    Sleepers,   \* tasks that register and park
    Movers,     \* threads that move the index
    Closer,     \* the thread that closes the channel
    MaxChanges  \* the count changes this often at most (model bound)

Threads == Sleepers \cup Movers \cup {Closer}
Nobody  == "nobody"

ASSUME ParkingAssumption ==
    /\ Sleepers \cap Movers = {} /\ Closer \notin Sleepers \cup Movers
    /\ Nobody \notin Threads /\ MaxChanges \in Nat \ {0}

VARIABLES
    count,      \* waiting_receivers or waiting_senders: its modification order
    list,       \* the waiter list
    lock,       \* who holds it across steps
    lockView,   \* the view its last holder left
    indexView,  \* the view the last message of the index carries
    view,       \* [Threads -> the oldest message of `count` it may read]
    pc,         \* where a thread is
    loaded,     \* [Movers -> what the load of the count returned]
    known       \* history: [Movers -> still listed entries that parked before it]

vars == <<count, list, lock, lockView, indexView, view, pc, loaded, known>>

Init ==
    /\ count = <<0>> /\ list = <<>> /\ lock = Nobody
    /\ lockView = 1 /\ indexView = 1
    /\ view = [t \in Threads |-> 1]
    /\ pc = [t \in Threads |-> "idle"]
    /\ loaded = [m \in Movers |-> 0]
    /\ known = [m \in Movers |-> {}]

Go(t, from, to) == pc[t] = from /\ pc' = [pc EXCEPT ![t] = to]

Join(a, b) == IF a < b THEN b ELSE a

Count == Last(count)

----------------------------------------------------------------------------
(* Sections under the list lock.                                            *)

\* One section that changes the list and with it the count.
Section(t, newList, newCount) ==
    /\ lock = Nobody /\ Len(count) < MaxChanges
    /\ list' = newList
    /\ count' = Append(count, newCount)
    /\ view' = [view EXCEPT ![t] = Len(count')]
    /\ lockView' = Len(count')
    /\ known' = [m \in Movers |-> known[m] \cap ToSet(newList)]
    /\ UNCHANGED <<lock, indexView>>

\* One that finds nothing to change.
LookOnly(t) ==
    /\ lock = Nobody
    /\ view' = [view EXCEPT ![t] = Join(@, lockView)]
    /\ lockView' = view'[t]
    /\ UNCHANGED <<count, list, lock, indexView, known>>

\* register.
Register(s) ==
    /\ Go(s, "idle", "parking")
    /\ Section(s, Append(list, s), Count + 1)
    /\ UNCHANGED loaded

\* Mutant: the entry is removed and still counted.
Remove1Uncounted(s, from, to) ==
    /\ Contains(list, s)
    /\ Go(s, from, to)
    /\ Section(s, RemoveFirst(list, s), Count)
    /\ UNCHANGED loaded

\* unregister that finds the entry.
Remove1(s, from, to) ==
    /\ Contains(list, s)
    /\ Go(s, from, to)
    /\ Section(s, RemoveFirst(list, s), Count - 1)
    /\ UNCHANGED loaded

\* notify_one, and notify_many with its limit.
Notify(t, limit, from, to) ==
    /\ Go(t, from, to)
    /\ IF list = <<>> THEN LookOnly(t)
       ELSE LET n == IF Len(list) < limit THEN Len(list) ELSE limit
            IN Section(t, SubSeq(list, n + 1, Len(list)), Count - n)

----------------------------------------------------------------------------
(* A task that goes to sleep.                                               *)

\* receiver_parking or sender_parking: fetch_add(0, AcqRel) on the index.
Park(s) ==
    /\ Go(s, "parking", "recheck")
    /\ view' = [view EXCEPT ![s] = Join(@, indexView)]
    /\ indexView' = view'[s]
    /\ UNCHANGED <<count, list, lock, lockView, loaded, known>>

\* The second attempt: it fails and the future is pending, or it succeeds or
\* finds the channel closed and takes the entry back.
Recheck(s) ==
    /\ \/ Go(s, "recheck", "asleep")
       \/ Go(s, "recheck", "forwarding")
       \/ Go(s, "recheck", "discard")
    /\ UNCHANGED <<count, list, lock, lockView, indexView, view, loaded, known>>

\* A new poll discards the entry; dropping the future forwards.
Wake(s) ==
    /\ \/ Go(s, "asleep", "discard") \/ Go(s, "asleep", "forwarding")
    /\ UNCHANGED <<count, list, lock, lockView, indexView, view, loaded, known>>

\* unregister(false): an Acquire load of a zero count, and no lock.
Shortcut(s) ==
    /\ \E i \in view[s]..Len(count) :
         /\ count[i] = 0
         /\ view' = [view EXCEPT ![s] = i]
    /\ Go(s, "discard", "idle")
    /\ UNCHANGED <<count, list, lock, lockView, indexView, loaded, known>>

\* ... or a count that is not zero, and then the lock.
Discard(s) ==
    /\ \E i \in view[s]..Len(count) : count[i] # 0
    /\ \/ Remove1(s, "discard", "idle")
       \/ /\ ~Contains(list, s) /\ Go(s, "discard", "idle")
          /\ LookOnly(s) /\ UNCHANGED loaded

\* unregister(true): an entry that is gone was notified, so pass that on.
Forward(s) ==
    \/ Remove1(s, "forwarding", "idle")
    \/ /\ ~Contains(list, s) /\ Go(s, "forwarding", "notify")
       /\ LookOnly(s) /\ UNCHANGED loaded

Sleeper(s) ==
    \/ Register(s) \/ Park(s) \/ Recheck(s) \/ Wake(s) \/ Shortcut(s)
    \/ Discard(s) \/ Forward(s)
    \/ Notify(s, 1, "notify", "idle") /\ UNCHANGED loaded

----------------------------------------------------------------------------
(* A thread that moves the index: push, pop, pop_single, finish_block.      *)

\* Parked in the index's modification order, and in a list nobody drains.
Parked ==
    {s \in ToSet(list) : lock = Nobody /\ pc[s] \notin {"idle", "parking"}}

\* An AcqRel read-modify-write of the index: claim, or skip of a sentinel.
ReadModifyWrite(m) ==
    /\ view' = [view EXCEPT ![m] = Join(@, indexView)]
    /\ indexView' = view'[m]

Claim(m) ==
    /\ \/ Go(m, "idle", "sample")
       \/ Go(m, "idle", "idle")
    /\ ReadModifyWrite(m)
    /\ known' = [known EXCEPT ![m] = IF pc'[m] = "sample" THEN Parked ELSE {}]
    /\ UNCHANGED <<count, list, lock, lockView, loaded>>

\* The Relaxed load of the count.
Sample(m) ==
    /\ \E i \in view[m]..Len(count) :
         /\ loaded' = [loaded EXCEPT ![m] = count[i]]
         /\ view' = [view EXCEPT ![m] = i]
    /\ \/ Go(m, "sample", "moved")
       \/ Go(m, "sample", "transition")
    /\ known' = [known EXCEPT ![m] = {}]
    /\ UNCHANGED <<count, list, lock, lockView, indexView>>

\* Mutant: the head is moved over the sentinel by a plain store.
TransitionByStore(m) ==
    /\ Go(m, "transition", "moved")
    /\ indexView' = view[m]
    /\ UNCHANGED <<count, list, lock, lockView, view, loaded, known>>

\* finish_block: head.index.swap(head + 2, AcqRel).
Transition(m) ==
    /\ Go(m, "transition", "moved")
    /\ ReadModifyWrite(m)
    /\ UNCHANGED <<count, list, lock, lockView, loaded, known>>

\* If the count was not zero: notify_one, or after a batch notify_many with
\* the count as a bound.
Finish(m) ==
    \/ /\ \E limit \in 1..loaded[m] : Notify(m, limit, "moved", "idle")
       /\ loaded' = [loaded EXCEPT ![m] = 0]
    \/ /\ loaded[m] = 0 /\ Go(m, "moved", "idle")
       /\ UNCHANGED <<count, list, lock, lockView, indexView, view, loaded,
                      known>>

Mover(m) == Claim(m) \/ Sample(m) \/ Transition(m) \/ Finish(m)

----------------------------------------------------------------------------
(* close: notify_all stores zero, then drains the list, under the lock.     *)

\* Mutant: the zero is stored before the lock is taken.
StoreZeroUnlocked ==
    /\ Go(Closer, "idle", "drain")
    /\ Len(count) < MaxChanges
    /\ count' = Append(count, 0)
    /\ view' = [view EXCEPT ![Closer] = Len(count')]
    /\ known' = [m \in Movers |-> {}]
    /\ UNCHANGED <<list, lock, lockView, indexView, loaded>>

StoreZero ==
    /\ Go(Closer, "idle", "drain")
    /\ lock = Nobody /\ Len(count) < MaxChanges
    /\ lock' = Closer
    /\ count' = Append(count, 0)
    /\ view' = [view EXCEPT ![Closer] = Len(count')]
    /\ known' = [m \in Movers |-> {}]
    /\ UNCHANGED <<list, lockView, indexView, loaded>>

Drain ==
    /\ Go(Closer, "drain", "closed")
    /\ lock' = Nobody /\ lockView' = view[Closer]
    /\ list' = <<>>
    /\ UNCHANGED <<count, indexView, view, loaded, known>>

Next == \/ \E s \in Sleepers : Sleeper(s)
        \/ \E m \in Movers : Mover(m)
        \/ StoreZero \/ Drain

Spec == Init /\ [][Next]_vars

----------------------------------------------------------------------------
(* Properties.                                                              *)

\* The count is the length of the list whenever the lock is free
\* (lib.rs:207-208).
CountIsLength == lock = Nobody => Count = Len(list)

TypeOK ==
    /\ count \in Seq(Nat)
    /\ lockView \in 1..Len(count) /\ indexView \in 1..Len(count)
    /\ view \in [Threads -> 1..Len(count)]
    /\ CountIsLength

\* A thread whose claim follows a parking operation in the modification
\* order of the index loads a count that includes that waiter, if it still
\* waits: of k waiters, no load returns less than k, Relaxed as it is and
\* whatever moved the index in between (queue.rs:58-73, 548-556, 951-954).
WaitersAreCounted ==
    [][\A m \in Movers :
         (pc[m] = "sample" /\ pc'[m] # "sample")
            => loaded'[m] >= Cardinality(known[m])]_vars

\* No poll leaves an entry behind: when the shortcut of unregister(false)
\* reads zero without the lock, the entry is gone, or about to be drained
\* (lib.rs:266-273).
NoStaleEntry ==
    /\ lock = Nobody => \A s \in Sleepers : pc[s] = "idle" => ~Contains(list, s)
    /\ IsInjective(list)

----------------------------------------------------------------------------
(* Why they hold: an inductive invariant.                                   *)

\* Entries that registered no later than message i of the count, or whose
\* task has read it since.
RegisteredBy(i) == {s \in ToSet(list) : view[s] <= i}

\* Every message of the count that a thread may still read counts the waiters
\* registered by then that still wait.
CountInv ==
    lock = Nobody => \A i \in 1..Len(count) :
                       count[i] >= Cardinality(RegisteredBy(i))

\* The index passes on what a parked waiter knows, and a claim took it over.
ViewInv ==
    /\ \A s \in ToSet(list) :
         pc[s] \notin {"idle", "parking"} => view[s] <= indexView
    /\ \A m \in Movers : \A s \in known[m] :
         s \in ToSet(list) /\ pc[s] # "parking" /\ view[s] <= view[m]

\* Only close holds the lock across steps, and nobody is known while it does.
LockInv ==
    /\ lock \in {Nobody, Closer}
    /\ lock = Closer <=> pc[Closer] = "drain"
    /\ lock = Closer => Count = 0 /\ \A m \in Movers : known[m] = {}

\* A dropped future notifies another waiter only when its own entry is gone.
ForwardInv ==
    lock = Nobody => \A s \in Sleepers : pc[s] = "notify" => s \notin ToSet(list)

Places == {"idle", "parking", "recheck", "asleep", "discard", "forwarding",
           "notify", "sample", "transition", "moved", "drain", "closed"}

ParkingInv ==
    /\ TypeOK /\ NoStaleEntry /\ CountInv /\ ViewInv /\ LockInv /\ ForwardInv
    /\ list \in Seq(Sleepers)
    /\ pc \in [Threads -> Places]
    /\ loaded \in [Movers -> Nat] /\ known \in [Movers -> SUBSET Sleepers]
=============================================================================
