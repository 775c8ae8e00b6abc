# rapidfire in TLA+

A specification of the rapidfire channels: the block queue of
`src/src/queue.rs`, the channel layer and the futures of `src/src/lib.rs`, and
the exclusive receiver of `src/src/mpsc.rs`, model-checked with TLC. The queue
with either consumer, the channel with either receiver and the memory ordering of
parking are also proved with TLAPS. Line numbers below and in the modules are those of these files.

Contents: [1 The system](#1-the-system), [2 Modules](#2-modules),
[3 Runs](#3-runs-what-is-checked), [4 Findings](#4-findings),
[5 Proofs](#5-proofs), [6 What is abstracted](#6-what-is-abstracted-and-why),
[7 What is not modelled](#7-what-is-not-modelled), [8 Plan](#8-plan).

## 1 The system

rapidfire is a multi-producer channel: `unbounded`/`bounded` return a `Sender`
and a `Receiver`, both cloneable; `mpsc` offers the same with one receiver that
cannot be cloned. All of it rests on one lock-free queue and two lists of
wakers.

| Component | State | Operations | What makes it correct |
|---|---|---|---|
| Positions (queue.rs:104-133) | none | offset, lap, sentinel test, tag, `items_between` | counts values and never sentinels |
| Queue, producers (queue.rs:477-774) | `tail.index`, `tail.block`, `tail.cached`, `tail.contended`; per block `start`, `next`, `prev`, `slots[].state/value`; the pool | `push` = claim (fetch_add, CAS or capacity check) → find block → install the next one if on a last slot → write → publish | a claim is one producer's; it writes the slot of its own lap; capacity is exact; a push waits for no consumer |
| Queue, shared consumers (queue.rs:784-852, 969-996) | `head.index`, `head.block`, per block `read_marks` | `pop`, `finish_block` (move the head, retire or recycle the block) | values leave in claim order, once each; no slot is rewritten under a reader; a pop never waits for another thread |
| Block pool (queue.rs:346-352, 477-528) | `spare`, `ready`, `retired` | take, recycle | no block lost, none used twice |
| Observers (queue.rs:439-469) | none | `len`, `is_empty_seqcst`, `claims_below` | verdicts from two separate loads |
| Drop for Queue (queue.rs:1043-1085) | none | | drops exactly the unread values |
| Waiter lists (lib.rs:207-340) | list of (id, waker), a count in `Flags` | `register`, `unregister`, `notify_one`, `notify_all`, `notify_many` | an entry belongs to a live future; a wake-up is not lost |
| Channel (lib.rs:349-514) | `closed`, handle counts | `try_send`, `try_recv`, `close`, clone, drop | `Closed` only when drained; the last handle closes |
| Futures `Send`, `Recv` (lib.rs:718-886) | `waiter_id` | poll, cancellation | nobody sleeps beside what it waits for |
| Exclusive consumer (queue.rs:855-960) | head words | `pop_single`, `pop_single_batch`, `recycle_single` | each value received or dropped once, whatever fails in between; the head never rests on a sentinel |
| Exclusive receiver (mpsc.rs) | the buffer and count of `recv_many` | `try_recv`, `recv`, `recv_many`, with `notify_many` | a batch wakes as many senders as it freed slots for; only the first value is awaited |
| Parking (queue.rs:58-80) | the waiting counts, read without the lock | `receiver_parking`, `sender_parking` | a Relaxed load of the count after an RMW of the index sees who parked on that index before |

How they interact. A sender pushes; between its claim and its publication the
queue loads the count of waiting receivers, and `try_send` then wakes one if it
was not zero. A receiver pops; on a bounded channel the queue loads the count of
waiting senders between the claim of the front and the end of the pop. A task
that finds nothing registers in its list, performs an RMW on the *other* side's
index ("parking"), and tries again. A receiver also compares the head with the
tail its parking returned: claims below it were made by producers that did not
see it, so it may not sleep on them; it spins a little, then wakes itself and
returns `Pending`. Close swaps a flag and wakes both lists.

What is hard here: every access above is interleaved with those of other
threads; threads are paused between a claim and its completion; blocks are
reused while stale pointers to them exist; the indices step over sentinels; a
wake-up can be absorbed by a future that no longer needs it. There is no
persistence, no network and no timeout in the code. `PROJECT.json` lists the
hazards one by one with the properties that watch them.

## 2 Modules

| Module | Kind | Models |
|---|---|---|
| `Positions` | operators | position arithmetic; `ValuePositions` is the reference definition of what `items_between` counts |
| `QueueIndices` | component | `len`, `is_empty_seqcst` over moving indices |
| `BlockQueue` | component | the queue's shared words, `Init`, the producer side, `take_block`, `recycle`, `Drop`, and the properties both consumer sides share |
| `MpmcQueue` | component | the shared consumer side; EXTENDS `BlockQueue` |
| `MpscQueue` | component | the exclusive consumer side; EXTENDS `BlockQueue` |
| `FifoQueue` | abstract specification | what the queue promises |
| `Channel` | component | waiter lists, channel operations, futures, over a queue seen as `FifoQueue` promises it |
| `MpscChannel` | component | the exclusive receiver and `recv_many`; EXTENDS `Channel` |
| `ParkingOrder` | component | the memory ordering of the waiting count: one index, one list, loads that may return old values |
| `MpmcIndices`, `MpmcBlocks` | invariants | the inductive invariants of the shared queue: its indices; its blocks, slots and pool; that nothing is lost |
| `MpscBlocks` | invariant | the queue of the exclusive consumer seen as the shared one, and how far a batch has come |
| `ChannelWakeups` | invariant | the inductive invariant of the channel: entries, wake-ups, close, free slots |
| `MpscWakeups` | invariant | the same with the exclusive receiver: how far a batch receive has come, and who looks after the slots it freed |
| `PositionsTheorems`, `WaiterListTheorems` | proofs | lemmas about position arithmetic, counting and recursive functions, and about waiter lists as sequences |
| `QueueIndicesTheorems` | proofs | the observers |
| `MpmcTheorems` | proofs | the shared queue: indices; blocks; refinement of `FifoQueue`; no value and no block is lost |
| `MpscTheorems` | proofs | the queue of the exclusive consumer |
| `ChannelTheorems` | proofs | the channel |
| `MpscChannelTheorems` | proofs | the channel with the exclusive receiver |
| `ParkingTheorems` | proofs | the ordering of parking |
| `MCQueueIndices`, `MCMpmcQueue`, `MCMpscQueue`, `MCChannel`, `MCMpscChannel`, `MCParkingOrder` | instances | symmetry sets, fair specifications |
| `MCTailBlock` | instance | one schedule of `MpmcQueue` (section 4) |

### The queue (`BlockQueue`, `MpmcQueue`)

One TLA+ variable per shared word (`tail`, `tailBlock`, `cached`, `contended`,
`head`, `headBlock`, and arrays over blocks) and one program counter per thread
with the locals that survive a step (`ppos` is `tail` of the claim loops,
`cpos` is `head` of `pop`, `pblk`/`cblk` the block pointer). One step is one
access to a shared word. The actions follow the code from top to bottom:

- claims: `LoadTail`, `FetchAdd` (`claim_fetch_add`), `CasClaim`/`CasFail`
  (`claim_cas`), `SkipSentinel`, `CheckCached`, `ReadHead`/`ReturnFull`,
  `StoreCached`, `CapClaim`/`CapFail` (`claim_bounded`). A weak CAS may fail
  spuriously.
- the block: `LoadTailBlock`, `FastCheck`, `WalkCheck`, `FollowPrev`
  (`find_block`, `find_block_slow`).
- a last slot: `TakeSpare`, `TakeReady`, `TakeRetired`, `Allocate`,
  `ResetTaken`, `Link`, `SetStart`, `SetNext`, `SetTailBlock` (`install_next`).
- `WriteValue`, `Publish`.
- `pop`: `StartPop`, `LoadHeadBlock`, `PollSentinel`/`GiveUpOnSentinel`,
  `CheckSlot`, `ReturnNone`/`LookAgain`, `ClaimHead`/`ClaimFail`, `ReadValue`,
  `MarkRead`.
- `finish_block`: `MoveHeadBlock`, `MoveHeadIndex`, `CheckReaders`, `Retire`,
  `Reset`, `Recycle`, `RecycleSlow`.

`FifoQueue` is implemented under this mapping: the abstract `items` are the value
positions between head and tail, `ready` when some block serves that lap with
the written tag; the value in `taken` is the position a consumer claimed until
it has read the slot, and from then on *what it actually read*, so that reading
a wrong value is not a step of the abstract queue.

### The exclusive consumer (`MpscQueue`)

It shares every word and the producer side with `MpmcQueue`, and replaces the
consumer's actions. `pop_single` is a batch of one, so both functions are one
sequence: `Start` (the loads of the head, the first slot, the length of the batch;
nobody else moves the head, so these are one step), `ReadValue` per value with
`CheckMore` between, then `Release`, or `MoveHeadBlock`, `MoveHeadIndex`,
`RecycleSingle` after a last slot. `ReturnNothing` is a call that finds nothing or
whose buffer cannot grow. `received` is a history variable: the values moved out,
each as *what was read*. In the mapping to `FifoQueue` a value leaves the
abstract queue when it is moved out, before its slot is released.

### The channel (`Channel`)

A task has a handle and at most one future. `pc` is its place in `try_send`,
`try_recv`, a poll, a notification, or close; `op` says which attempt it is in:
`try` (the non-blocking call), `first` (a poll's attempt before it registers),
`retry` (after). This decides what a verdict leads to, exactly as the two polls
do: Full/Empty leads to `Register` in a first attempt and to `Pending` in a
retry; success leads to `unregister(true)` only after a retry; Closed to
`unregister(false)`.

- Send: `CheckClosed`, `Claim` or `ReportFull`, `SampleReceivers`, `Publish`,
  `Notify`.
- Receive: `Take`, `SampleSenders`, `FinishPop`, `Notify`; or `PopNone`,
  `LoadClosed`, `CheckIndices`/`FindBusy`, `TakeSnapshot`, `CheckClaims`/
  `FindClaims`, `Snooze`, `Yield`.
- Lists: `Register`, `Discard` (`unregister(false)`), `Unregister`, `Forward`,
  `NotifyOne`, `NotifyAll`; then `Wake`, one waker per step, outside the lock.
- Ends: `Cancel`, `Clone`, `DropHandle`, `StartClose`, `SwapClosed`,
  `WakeReceivers`, `WakeSenders`.

The load of a waiting count after a claim is Relaxed, and its outcome is chosen
accordingly: it is TRUE if a waiter had parked before the claim and is still
listed at the load (`known`), and otherwise it may be either, since the load may be old
or count a task that is still parking (`MaySee`). `ParkingOrder` shows that this
is what the orderings of the code guarantee.

`woken` is the flag the executor keeps for a task. `Poll` is allowed whether it
is set or not: a future may be polled spuriously, for instance by `select!`.

### The exclusive receiver (`MpscChannel`)

The senders, the lists, close and the protocol of `recv` are `Channel`'s;
`SingleStep` lists which. The receiver is one task. `recv_many` is `left` (values it
may still take), `got` (it has one) and `burst` (slots the last batch freed, then
wake-ups owed for them): `StartMany`; batches of `TakeBatch`, `SampleBatch`,
`NotifyMany`; `EndOfBatch`, which returns if something was taken and otherwise enters
the awaited `recv`; `Resume` when that has returned; `CancelMany` drops the future;
`Unwind` is the failure of `buffer.reserve`. How many of the published values a batch
takes is open: it stops at the end of a block, wherever that is.

### Parking (`ParkingOrder`)

`count` is the modification order of a waiting count; a thread's `view` is the oldest
message of it that the thread may still read. A load picks any message from there on.
The lock hands its holder's view to the next; an RMW of the index reads the last
message of the index and joins its view (`indexView`), which is the release
sequence of queue.rs:64-73; a plain store would replace it. `Sleeper` is a task
that registers, parks, looks again and leaves by discarding its entry or forwarding;
`Mover` is a thread that claims, samples, perhaps moves the head over a sentinel,
and notifies; `StoreZero` and `Drain` are the two halves of `notify_all`. The
module stands for both sides: the tail with receivers parking, the head with senders
parking (only there `Transition` occurs).

## 3 Runs: what is checked

| Run | Instance | Checks |
|---|---|---|
| `indices` | capacity 5, 14 positions (three laps of 4) | `ItemsBetweenCounts`, `LengthIsSafe`, `EmptyIsExact` |
| `mpmc_race` | 2 producers, 2 consumers, unbounded, pushes begin at positions 0 to 5 | `TypeOK`, `PairIsCoherent`, `NextIsLinked`, `WalkStaysOnChain`, `WritesOwnSlot`, `HeadStepsOverPublished` |
| `mpmc_reuse` | 1 producer, 2 consumers, unbounded, pushes begin at 0 to 10, 5 blocks; for `PopReturnsAlone` one consumer runs and every other thread may stop | `DataRaceFree`, `ClaimedValueStays`, `EveryBlockHasOneOwner`, `DropsTheUnread`, `PopReturnsAlone` |
| `mpmc_bounded` | 2 producers, 2 consumers, capacity 2, pushes begin at 0 to 4 | `CapacityHeld`, `FullVerdictIsExact`, `ImplementsFifo` |
| `mpmc_progress` | 2 producers run, 1 consumer may stop; pushes begin at 0 to 6 | `PushReturns`; `QueueDrains` if the consumer runs |
| `mpsc_queue` | 2 producers, the exclusive consumer, capacity 3, pushes begin at 0 to 8 | `TypeOK`, `HeadServesItsBlock`, `EachValueOnce`, `EveryBlockHasOneOwner`, `ImplementsFifo` |
| `channel_close` | 2 senders, 1 receiver, capacity 1, every operation | `TypeOK`, `EntriesAreOwned`, `SendersServed`, `CloseWakesAll`, `LastHandleCloses`, `ClosedMeansDrained` |
| `channel_progress` | 1 sender, 2 receivers, capacity 1, futures only, fair | `SomeReceiverServed`, `ReceiversGoOn`, `SendersGoOn` |
| `mpsc_channel` | 2 senders, the exclusive receiver, capacity 2, batches of 1 and 2, every operation | `MpscTypeOK`, `SendersServed`, `ReceiversServed`, `AwaitsOnlyFirst` |
| `parking_order` | 2 tasks that park, 2 threads that move the index, a close; at most 6 values of the count | `TypeOK`, `NoStaleEntry`, `WaitersAreCounted` |
| `channel_stranded` | 2 senders, 2 receivers, unbounded, futures only | `ReceiversServed`, **violated**: section 4 |
| `mpmc_tail_block` | one schedule of 7 producers and 1 consumer, unbounded | `TailBlockInUse`, **violated**: section 4 |

Every property of a passing run comes with a mutant in `PROJECT.json`: a
plausible bug in one definition (marked "Mutant:" in the modules) with which the
run finds the property violated.

### Bounds, and why they are enough

- `LAP = 4` is the code's own small block (`LAP_SHIFT = 2` in its loom and
  small-block builds): three values and a sentinel. Every branch on an offset
  (first, inner, last slot, sentinel) occurs; a larger block only adds inner
  slots. The theorems hold for `LAP` 4 and 64.
- `PushLimit`: no push *begins* at that tail or later. 5 to 7 positions let
  several threads be in and around one or two block transitions; 11 positions in
  `mpmc_reuse` are three laps, so that blocks are retired, reused, and reused
  again from every part of the pool while a reader of the first lap is still
  paused; 9 in `mpsc_queue` bring a recycled block back into the chain, where the
  batch loop meets its old tags.
- `MaxBlocks` is what the allocator can hand out; it is large enough that no run
  is stopped by it (a producer is never left without a block).
- `CONTENTION_WINDOW = 1` (64 in the code): one clean CAS claim brings the
  queue back to fetch_add, so both modes and both switches occur in a few steps.
- `SNOOZE_LIMIT` 0 or 1: bounded waits of both outcomes. (The code's budget is
  larger; a poll that waits longer only stutters.)
- `Capacity = 1` for the channel makes Full, Empty and both kinds of sleepers
  occur with three tasks; `MaxItems = 2` bounds the unbounded channel to two
  values, enough for a value claimed before a registration and one after (only
  `channel_stranded` is unbounded). The invariants of `channel_close` and
  `SomeReceiverServed` are proved for any number of tasks and any capacity.
- `Capacity = 2` and `MaxBatch = 2` in `mpsc_channel` let one batch free two slots
  while two senders sleep: the least that tells one wake-up from two. Capacity 3
  in `mpsc_queue` lets a batch fill a whole block.
- `MaxChanges = 6` in `parking_order` (the initial zero and five changes) lets both
  tasks register and leave and one register again, or a close come among them:
  enough for a load to find old zeros and old counts before and after each.
- `mpmc_tail_block` is a single schedule and not a search: seven pushes at once are
  out of a search's reach.
- Symmetry is used in safety runs only.

### Fairness

- `SpecProducersRun`: weak fairness of each producer's next step inside a push,
  strong fairness of `CapClaim`, because a weak CAS does not fail spuriously for
  ever. Nothing is assumed of consumers: they may be pre-empted for ever
  anywhere, which is what "a push never waits for a consumer" is about. No
  producer has to begin a push.
- `SpecOneConsumer`: the same for one consumer, nothing of anyone else.
  A CAS loses only to another thread's success, and the bounded number of pushes
  bounds those; with an endless supply of competitors the code is lock-free and
  not wait-free, and no more is claimed.
- `QueueDrains` has its fairness in its antecedent, `ConsumersRun`: each consumer takes
  its next step, begins pops again and again, and its CAS does not fail spuriously
  for ever.
- `FairFutures`: threads run on through their calls, executors poll a future that
  was woken. Nobody has to begin an operation, and no future has to be polled
  without a wake-up: that is what makes the wake-ups matter.

## 4 Findings

### A wake-up that is lost

`ReceiversServed` states what the sleep/wake hand-off is for: when every thread
is at rest, no receiver sleeps beside a value. The code does not guarantee it
with two receivers. Run `channel_stranded` finds (`r1`, `r2` receive, `s1`, `s2`
send):

1. `s1` claims a place for A and sees no waiting receiver.
2. `r1` registers, sees A claimed below its snapshot, spends its snoozes, wakes
   itself and returns `Pending` (lib.rs:877-883). Its entry stays in the list.
3. `r2` registers behind it and finds nothing published.
4. `s1` publishes A and wakes nobody: it sampled zero.
5. `s2` sends B; it saw two waiters, and `notify_one` takes the oldest, `r1`.
6. `r1`, polled because it woke itself, discards its registration with
   `unregister(false)` (lib.rs:835). The entry is already gone, and nothing is
   forwarded. Its first attempt takes A, and the receive completes.
7. `r2`'s snapshot covers A only, and A is gone: `claims_below` is false, and
   `r2` sleeps.

B is in the channel, `r2` sleeps, and the wake-up for B was spent on a receive
that took A. `r2` is served by the next send, by close, or when `r1`'s task
receives again; if neither happens it waits for ever. `CHANGELOG.md:13-14`
describes this very race ("a completing operation could absorb a later
notification and strand another waiter") as fixed. The comment at lib.rs:833-834
covers the poll that still finds its entry; the one whose entry was taken by a
*later* value's notification and which completes in its first attempt is not
covered. (With more than one slot the same happens on a bounded channel when
the head is between two blocks.)

What holds, and is checked in its place: `SomeReceiverServed`, the receivers are
never *all* asleep beside a value, hence a single receiver never misses one
(`channel_progress`), `ReceiversGoOn`, and for senders, who never wake
themselves, the full `SendersServed`. The two safety properties are also proved.

### A tail pointer that is put back

The comment of `finish_block` (queue.rs:970-972) says of a block that has been
left: "The installing producer linked `next` before writing this slot, and it
published `tail.block = next` too, so nobody will look for this block once it is
recycled." The installer of a lap publishes in three stores: `start` of the new
block, `next` of the old one, `tail.block` (`SetStart`, `SetNext`,
`SetTailBlock`). A producer that loaded `tail.block` long ago may hold a block that
has been recycled since and is now the one being installed: `find_block` accepts it
by its `start` (queue.rs:688-692) as soon as that is stored. If it owns the last
slot of that lap, it installs the following lap and stores `tail.block`, and then
the slow installer stores `tail.block` back to its own block. No push stores it
again before the next last slot. Consumers drain that block and recycle it, and
from then on every push that starts at `tail.block` finds a pooled block and waits
in `find_block_slow` for a `start` that never comes.

Run `mpmc_tail_block` follows one such schedule (`MCTailBlock`) with blocks of
three values. It takes seven pushes at once, in general 2 * BLOCK_CAP + 1: one
with the old pointer and two blocks of claims between. The safety of the queue does
not depend on `tail.block`: the proofs of section 5 hold with it. What is lost is
that a push returns, which `PushReturns` checks for two producers.

## 5 Proofs

TLAPS checks the theorems for every number of threads and tasks, every capacity,
every `CONTENTION_WINDOW`, `SNOOZE_LIMIT`, `MaxBlocks` and `PushLimit`, and both
block sizes (`LAP` 4 and 64), from the ASSUMEs in the modules: `LapAssumption`,
`CapacityAssumption`, `WindowAssumption`, `BoundsAssumption`, `SnoozeAssumption`,
`IndicesAssumption`, `ChannelAssumption`, `ParkingAssumption`. Nothing else is
assumed; `ExclusiveAssumption`, one consumer and batches of at least one value,
and `MpscAssumption`, one receiver and a limit of at least one, are of `MpscTheorems`
and `MpscChannelTheorems` only. Each theorem names the property it states.

### Helpers

`PositionsTheorems`: a sentinel adds nothing to `ItemsBetween`, a claim one at most,
an older head or a newer tail counts more; `PositionsBetween` lists the value
positions of an interval in order, and the place of a position in that list is the
number of value positions before it. It also has what stands in for induction:
`SmallestOf` (a set of naturals that is not empty has a least member), `CountUp` (a set
with 0 and the successor of each member has every natural), both from the well-foundedness
of `<`, and `RecursionExists` (a recursive function of the form the properties use
is what its definition says). With them, facts about the recursive
*functions* of the properties, which walk a chain of blocks, can be proved for every
length of the walk. `WaiterListTheorems`: what `Append`, `Tail`,
`RemoveFirst` and a cut do to a list in which nobody is listed twice, and to the
set of its entries.

### Observers (`QueueIndicesTheorems`)

`CountIsExact`: `items_between` counts the value positions between two indices, any
number of laps apart; by invariance over the steps of the indices, since a
`Cardinality` cannot be computed by induction here. `EmptyVerdict`, `LengthVerdict`:
the head that was seen is not ahead of the head, and an older head counts more.

### The queue's indices (`MpmcTheorems`)

`CapacityHeld` is not inductive: a producer claims on the strength of a head it
read long ago. `IndexInv` (`MpmcIndices`) adds what makes the check still good at
the CAS:

- `CapInv`: every head a producer goes by (`cached`, `phead`) is at most the real
  one, so that a stale head can only make the queue look fuller than it is; and
  from the check to the CAS the room it found for the position it expects stays,
  since the head only moves on and a CAS that succeeds proves the tail did not;
- `ClaimInv`: claimed positions are value positions below the tail, one
  producer's each;
- `TakeInv`: taken positions are value positions below the head, one consumer's
  each, and while a consumer moves the head over a sentinel the head rests
  there, which is what makes `swap(head + 2)` a step by one from where it is;
- `ModeInv` and the types of the indices and program counters.

`IndexInvariant` is `Spec => []IndexInv`; `CapacityIsHeld`, `ExclusiveClaims`,
`FullVerdict` and `HeadStepsByOne` follow from it.

### The queue's blocks (`MpmcTheorems`)

`BlockInvariant` is `Spec => [](IndexInv /\ BlockInv)`. The parts of `BlockInv`
(`MpmcBlocks`) are none of them inductive alone:

- `LapInv`: a block serves no lap or one that has *begun*, meaning that the owner of
  the last slot of the lap before has stored `start`; no two blocks serve one lap.
- `HeadInv`: the head is at most one ahead of the tail, and never past a slot that
  is claimed and not published; `head.block` serves the head's lap, or the next one
  while a consumer is between its two stores.
- `TagInv`: a tag that is not zero, in whatever block and however old, stands for
  one position whose push is over, and if the block serves that lap, the value is
  that position's. This is why tags are never reset.
- `ChainInv`: the live blocks are linked back, each to the lap before, and on, from
  each whose last slot is written or about to be.
- `FindInv`: a producer that has found its block has the one of its lap; one that
  goes back holds a later one.
- `ReadInv`: a consumer that has claimed is in the block of its position, unmarked,
  until it has marked it; a block is reset only when its readers are done.
- `PoolInv` and `OwnerInv`: a block that can be reused serves no lap, or one the
  head has left, and is in one place or one thread's hand.
- `PointerInv`: where pointers are not null.

Nothing is said of `tail.block` but its type, and nothing could be: section 4. A
producer's search is right because of the `start` it checks, wherever it began.

From it follow `TypesHold`, `PairCoherence`, `NextBlockLinked`, `WalkStays`,
`SlotOwnership`, `ClaimedValue`, `NoDataRace`, `HeadOrder` and `NoBlockShared`. For
`NoDataRace`: a reader is in the block of its lap and its slot is unmarked, so the
block is not reset; two blocks do not serve one lap, so a writer in this block is at
another position of the lap, hence in another slot.

### Refinement (`MpmcTheorems`)

`Refinement` is `Spec => ImplementsFifo`, the step theorem and the initial states
included. The abstract `items` are a sequence, and the queue has none, so the proof
counts: `ValuesBelow(n)` is the number of value positions below `n`; item `i` is
the `i`th value position at or after the head. A claim appends because the value
positions of `[head, tail + 1)` are those of `[head, tail)` and the new one; a claim
of the head takes the first. `FetchAdd`, `CasClaim` and `CapClaim` of a value
position are the abstract `Claim`, the store of the tag is `Publish`, `ClaimHead`
is `Take`, and `Return` is the step that ends a pop. All other steps stutter: they
keep the two counts, and they leave published what is published. Only `SetStart`
and `Reset` can touch the latter; the first begins a lap in which nothing is
written, by `TagInv`, and the second ends one the head has left. `ValueInvariant`,
that what a consumer moves out is the value of the position it claimed, makes the
read of the slot a stutter. `ImplementsFifo` is a safety statement; `QueueDrains` and
the other liveness properties are not part of it.

### Nothing is lost (`MpmcTheorems`)

`BlockInv` says that nothing is used twice; it would hold of a queue that forgets
blocks. `NothingLost` is `Spec => [](MpmcInv /\ KeepInv)`; `KeepInv` adds the converse:

- `SentinelInv`: a head that rests on a sentinel is being moved by somebody;
- `WrittenInv`: a claimed position that nobody has taken is published, or still its
  producer's;
- `LinkInv`: a live block is the `next` of the one before, unless its installer has
  yet to link it, and it leads to nothing else;
- `PlaceInv`: a block the allocator has handed out is live, in the pool, or in one
  thread's hands.

`DropIsComplete`: at rest there is no producer and nobody moves the head, so that every
value position from the head to the tail is published, and each live block is linked to
the next. `DropFollowsLaps` shows, position by position, that Drop's walk is then in the
block that serves its lap. `ChainIsPath` turns the reference definition of the
chain into a walk, `PathClimbs` shows that the walk meets the laps in order and so ends,
and `LiveIsChained` goes back from any live block, by the least lap not reached, to the
block its chain begins with. `BlockOwnership` follows.

The chain of the head is not all there is. Of two installers the later one may link first:
its block is then reached from a block that nothing links to yet. In
the schedule of section 4 this happens, and a statement of `EveryBlockHasOneOwner`
that knows only the chain of the head is false there. The property
therefore gives a late installer the chain that hangs on its block, which is what the
code does: the chain becomes the head's when the installer stores `next`.

### The exclusive consumer (`MpscBlocks`, `MpscTheorems`)

The two consumers share blocks, producers and `finish_block`, and so do the proofs. An
INSTANCE of `MpmcTheorems` with the words replaced by what they stand for
(`SharedCpc`, `UnreadFrom`, ...) gives its lemmas about *this* queue. There are two such
views, since the exclusive consumer leaves the head behind while it moves values
out. In `M` the head is at the first unread value: the blocks look as they do in the
shared queue, and what `BlockInv` and `KeepInv` say can be used as it is. In `I` the
head is the word `head.index` itself, with an idle consumer: this is what producers
compare with the capacity, and `IndexInv` of it says that a slot is handed out again
only after its release. `SharedIndices` leads from one to the other.

`SingleInv` is `IndexInv` in `I`, `BlockInv` and `KeepInv` in `M`, and

- `BatchInv`: a batch starts at the head, stays in `head.block` and reads only what
  is published; the consumer is past a last slot when it moves the head, and the head
  never rests on a sentinel between two calls;
- `ReceivedInv`: what has been moved out is every value position before the first
  unread one, in order.

Producers do in both views what they do in the shared queue. A value that is read is taken
in one step (`TakesAtOnce`); release, and the loads that begin a batch, are stutters;
moving the head over the sentinel is the same code; and the block is reset without
a look at its readers (`ResetsBlock`), which is right because there is nobody who could have
been one: there is no mark and no other consumer. The lemmas of `MpmcTheorems` about
these steps are stated for a step given by its effect, so that either consumer can
use them.

From `SingleInvariant` follow `SingleTypes`, `HeadServed`, `SingleBlockOwnership`,
`SingleCapacity`, `SingleSlotOwnership` and `ValuesOnce`. `SingleTypes` is about every
word and local, the producers' included. `ValuesOnce`: outside a batch the first unread
value is at the head, so that what has been moved out is what lies below it; at rest
Drop finds from the head on what it would find from there, so that received and dropped
values together are every value once. A call can unwind only before it moves a value
out, because the buffer grows before the loop (queue.rs:931-933): that is `ReturnNothing`,
which changes nothing, and the mutant `CheckMoreMayPanic`, in which it may happen later,
violates `EachValueOnce`. `SingleRefinement` is the refinement of `FifoQueue`; a value
leaves the abstract queue when it is moved out, and `Release` and `MoveHeadIndex` are
stutters.

### The channel (`ChannelTheorems`)

`WakeupInvariant` is `Spec => []WakeupInv`, with the parts (`ChannelWakeups`):

- `OperationInv`: which operation a task can be in where, and that `waiter_id` is
  set only in a poll, in a wait, or on the way to `unregister(true)`;
- `HolderInv`: a side's count is the number of its tasks that hold a handle;
- `EntryInv`: each list has its side's tasks, once each, and only those whose future
  holds an id;
- `WakeInv`: a task that registered and is not listed has been woken or is among the
  wakers somebody is about to call;
- `ServeInv`: while there is a value, some receiver has not yet looked past it or
  some sender is going to notify. It is about the *last* look: a receiver is
  `Exposed` only if it may go to sleep without having seen the newest value;
- `CloseInv`: once the channel is closed, a listed task that will not look at
  `closed` again is in a list that somebody is about to drain.

`TypesHold`, `EntryOwnership`, `ReceiverNotForgotten` and `CloseIsHeard` follow.

`SlotInvariant` adds `SlotInv`, which has to count where `ServeInv` could do with
one: two free slots and one wake-up strand a second sender. For a listed sender `b`
that sleeps, the free slots are at most as many as the senders that are about to look
for room (`Attempting`), those that were taken out of the list and will either look
or pass the wake-up on (`Absorbed`), and the receivers that took a value and will
notify (`Owing(b)`) together. A claim takes a slot and an attempt; a notification
turns a debt into an absorbed wake-up; a poll turns that into an attempt; a dropped
future passes it to the next entry; a receive adds a slot and a debt, which is safe
because the sample that follows must count `b`, who had parked before. At rest all
three sets are empty: `SenderNotForgotten`.

`LastHandle` and `ClosedVerdict` follow the flags and the length of the queue:
counts never grow from zero (`Clone` needs a handle), only a task at the swap can be
between the last decrement and the close; and `undrained`, the values claimed before
the close and not yet taken, is at most the length of the queue, so the empty queue
of `CheckIndices` means that it is zero.

The wake-up theorems rest on what `MaySee` says of a sample: it cannot miss a task
that had parked before the claim and still waits. That is the subject of the next
proof. The others hold whatever a sample returns.

### The exclusive receiver (`MpscWakeups`, `MpscChannelTheorems`)

The senders' steps, and the receiver's outside its batches, are steps of `Channel`, so
the lemmas of `ChannelTheorems` are used for them. They are stated from `Typed`, which
allows the places of a batch too, and with `SlotsWatched(spare)`, `SlotInv` with some
slots set apart that somebody else looks after. A step of a batch is new: it takes
several values, or wakes several senders in one section under the lock.
`MpscInvariant` is `MpscSpec => []MpscInv`: `WakeupInv`, and

- `BatchInv`: only the receiver is in a batch, where it is and what it has taken. A
  receive that waits has taken nothing (`OnlyFirstIsAwaited`), and the debt `burst` is
  positive and within the limit while it is owed;
- `BatchSlotInv`: while an open channel has room, *either* every sleeper is `Covered`,
  by an absorbed wake-up that will be used or passed on (`Forwarders`) or by one that
  `notify_many` is about to give (`Pledged`), *or* for each sleeper there are as many
  watchers as free slots, the slots `Owed` from the last batch counted as watched. And
  all who sleep after a batch were there to be counted by its one sample.

`SlotInv` does not hold here. The sample of a batch may be lower than the number of
freed slots; then `notify_many` wakes as many as it counted, the rest of the slots are
nobody's, and that is right only because nobody else slept. So the first alternative
takes over at the sample, and must survive what comes next: a sleeper that is woken
leaves the sleepers with a wake-up in hand; a dropped future passes its wake-up to
another sleeper and both counts shrink; a sender that parks must have found the channel full.
A sample that is not lower than the batch keeps the second alternative, and each
wake-up then turns a slot of the debt into an absorbed one.

`SendersServedAfterBatches` follows as `SenderNotForgotten` does: at rest nobody
forwards, pledges, owes or watches. `ReceiverServed` is stronger than what holds of
shared receivers, for which section 4 shows a counterexample: with one receiver, "not
all are asleep beside a value" is "the receiver is not". `MpscTypesHold` types every word
and local of `Channel` (`Types`, with the places of a batch) and the counters of
`recv_many`. `MpscCloseIsHeard`, `MpscEntryOwnership`, `MpscClosedVerdict` and
`MpscLastHandle` say for this receiver what the theorems above say of the channel.

### Parking (`ParkingTheorems`)

`ParkingInvariant` speaks of every message of the waiting count at once.
`RegisteredBy(i)` are the listed tasks whose view is message `i` or an earlier one.
`CountInv`: while the lock is free, message `i` is no less than their number; an older
message may be too high or may miss a task, but not one whose view is that old.
`ViewInv`: the index passes on at least the view of every listed task that has
parked, and a mover that claimed after it has that view, so it can only read
messages that count the task. `LockInv`: only close holds the lock across steps, with
a zero count and with nobody known. `ForwardInv`: who forwards a notification has no
entry of its own. `TypesHold`, `NoEntryLeftBehind` and `CountCoversWaiters` follow,
the last being what `MaySee` assumes.

### Only model-checked

- All liveness (`PushReturns`, `PopReturnsAlone`, `QueueDrains`, `ReceiversGoOn`,
  `SendersGoOn`): TLAPS has no rules for fairness that fit here.
- The two findings of section 4: `ReceiversServed` of shared receivers and
  `TailBlockInUse` are false, which a run shows.
- That the queue in `Channel` behaves like `MpmcQueue` or `MpscQueue`: it is written
  from what `FifoQueue` promises (section 6), and no theorem composes the two.

## 6 What is abstracted, and why

- *Sequential consistency.* Steps interleave in one order. The code's Acquire,
  Release and Relaxed accesses are weaker; the one argument that hangs on a
  release sequence (queue.rs:58-80) is made in `ParkingOrder`, which orders only what
  the lock and the index order, and its outcome is what `Channel` and `MpscChannel`
  assume of their samples. There the *index* is still one step: what a thread
  reads after its own RMW of an index is as fresh as the RMW.
  Accesses merged into one step are those no other thread can tell apart:
  stores to a block before its `start` is set, the scan of the read marks (marks
  are only added meanwhile), the hint `contended` with the claim it belongs to
  (each store is a level its own load allows, whatever is interleaved), a section
  under the pool lock or a waiter-list lock.
- *Values* are the positions their pushes claim; the queue never looks at them.
  In `Channel`, an item is `Ready` or the sender that has claimed and not
  published it, since the wake-up protocol depends on nothing else.
- *Pool lists* are sets: which block is taken is left open (the code pops the
  last, or the first one without readers).
- *Indices* are natural numbers. 64-bit indices wrap after 2^64 operations; the
  wrap is not modelled. `UNBOUNDED` and `POOLED` (both `usize::MAX`) are -1, a
  value no position or capacity has.
- *Back-off* delays and is left out, except the bounded waits that change what
  happens next (`SNOOZE_LIMIT`).
- *The queue inside `Channel`* is the FIFO that `ImplementsFifo` establishes, with
  two facts kept: a place is claimed before it is published, and a pop that takes
  the last slot of a block makes other pops return `None` until it has moved the
  head (`moving`, chosen freely at each `Take`, so for every block size). The two
  loads of `is_empty_seqcst` are one step: `EmptyIsExact` shows that "empty" is
  true at the second load, and a "not empty" is true at some moment between
  the two.
- *Recv's snapshot* is kept as `ahead`, the number of claims below it that are
  not yet taken: `claims_below` is `ahead > 0`. `undrained` is a history variable.
- *Waiter counts* equal the length of their list whenever a step can look
  (lib.rs:207-208), except in `ParkingOrder`, where it is a word of its own. The
  lock-free exit of `unregister(false)` on a zero count has the outcome of the
  locked path, no entry and nothing forwarded: this is `NoStaleEntry` there.
- *Unbounded exclusive receivers* store head.index plainly (queue.rs:884, 950): no
  sender ever parks on that index, so nothing is lost, and `ParkingOrder` has no
  such mover.
- *notify_many* takes as many entries as it was told or as there are, in one section
  under the lock; the allocation of its list of wakers comes before any change.
- *Wakers* are tasks; `will_wake` and waker cloning are left out.
- *Clone* adds a handle to a task that has none, as long as some task holds one.
- *Deadlock* is not checked in the channel runs: all handles may be dropped, after
  which nothing can happen. It is checked in the queue runs.

## 7 What is not modelled

Error types, `Debug`, `debug_dump` and the accessors change no state. `sync.rs`
renames library types. A panic of a waker or of a value's destructor is not
modelled, nor is `mem::forget` of a pending future. Of the allocator, only the
failure to grow the buffer before a batch is (queue.rs:933), not the one after an
awaited receive, which drops the value it was to store (mpsc.rs:119). Benchmarks,
examples and tests were read for what they expect and are not part of the system.

## 8 Plan

Done: every component of section 2 with its runs, and the proofs of section 5: every
safety property of a passing run is a theorem.

Left:

1. Liveness by hand, from the invariants: a variant for `PushReturns` is the number of
   positions between the tail and `PushLimit`.
2. `Channel` over `MpmcQueue` itself in place of the FIFO it implements.
