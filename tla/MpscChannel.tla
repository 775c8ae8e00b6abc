----------------------------- MODULE MpscChannel -----------------------------
(***************************************************************************)
(* The channel with one exclusive receiver (src/src/mpsc.rs): the senders, *)
(* the lists, close and the protocol of recv are those of Channel;         *)
(* recv_many receives in batches, frees several slots with one update of   *)
(* the head and wakes several senders at once (notify_many in lib.rs).     *)
(***************************************************************************)
EXTENDS Channel

CONSTANT MaxBatch  \* largest limit given to recv_many (model bound)

ASSUME MpscAssumption ==
    MaxBatch \in Nat \ {0} /\ IsFiniteSet(Receivers) /\ Cardinality(Receivers) = 1

VARIABLES
    left,   \* recv_many: values it may still take; 0 outside
    got,    \* recv_many: it has taken a value
    burst   \* slots the last batch freed, then senders to be woken for them

manyVars  == <<left, got, burst>>
mpscVars  == <<vars, manyVars>>

\* mpsc::bounded and mpsc::unbounded; further senders clone theirs.
MpscInit == Init /\ left = 0 /\ got = FALSE /\ burst = 0

\* Unchanged by a batch receive.
manyFrame == <<flagVars, parked, moving, id, wake, woken, ahead, snoozes>>

----------------------------------------------------------------------------
(* recv_many.                                                               *)

\* The first poll of the future begins with a batch.
StartMany(r) ==
    /\ GoAs(r, "idle", "batch", "many")
    /\ left = 0
    /\ left' \in 1..MaxBatch
    /\ got' = FALSE
    /\ UNCHANGED <<items, undrained, targets, back, burst, known, manyFrame>>

\* The prefix of the queue that is published.
ReadyCount ==
    CHOOSE n \in 0..Len(items) :
        /\ \A i \in 1..n : items[i] = Ready
        /\ n < Len(items) => items[n + 1] # Ready

AfterBatch == IF left' = 0 THEN "idle" ELSE "batch"

\* Mutant: a later batch is not cut by what earlier ones took.
TakeBatchOverLimit(r) ==
    \E n \in 1..ReadyCount :
        /\ left' = left - n
        /\ Go(r, "batch", IF Capacity = UNBOUNDED THEN AfterBatch ELSE "freed")
        /\ got' = (left' > 0)
        /\ burst' = IF Capacity = UNBOUNDED THEN 0 ELSE n
        /\ items' = SubSeq(items, n + 1, Len(items))
        /\ undrained' = IF undrained > n THEN undrained - n ELSE 0
        /\ known' = [known EXCEPT ![r] = IF Capacity = UNBOUNDED THEN {}
                                         ELSE Parked("send")]
        /\ UNCHANGED <<targets, back, manyFrame>>

\* pop_single_batch: a prefix of the published values, cut by the limit, by
\* the end of the block, or where the next slot was not yet published.
TakeBatch(r) ==
    \E n \in 1..ReadyCount :
        /\ n <= left
        /\ left' = left - n
        /\ Go(r, "batch", IF Capacity = UNBOUNDED THEN AfterBatch ELSE "freed")
        /\ got' = (left' > 0)
        /\ burst' = IF Capacity = UNBOUNDED THEN 0 ELSE n
        /\ items' = SubSeq(items, n + 1, Len(items))
        /\ undrained' = IF undrained > n THEN undrained - n ELSE 0
        /\ known' = [known EXCEPT ![r] = IF Capacity = UNBOUNDED THEN {}
                                         ELSE Parked("send")]
        /\ UNCHANGED <<targets, back, manyFrame>>

\* The load of the waiting count, once for the whole batch: it counts every
\* waiter that had parked before, and may be too high (see MaySee).
SampleBatch(r) ==
    \E wakes \in 0..burst :
        /\ wakes = burst \/ wakes >= Cardinality(known[r])
        /\ left' = left
        /\ Go(r, "freed", IF wakes > 0 THEN "notify_many" ELSE AfterBatch)
        /\ burst' = wakes
        /\ known' = [known EXCEPT ![r] = {}]
        /\ UNCHANGED <<items, undrained, targets, back, got, manyFrame>>

\* Mutant: one sender is woken for the whole batch.
NotifyManyOne(r) ==
    /\ left' = left /\ burst' = 0
    /\ NotifyOne(r, "notify_many", "send", AfterBatch)
    /\ UNCHANGED got

\* notify_many: as many senders as were counted, if they still wait.
NotifyMany(r) ==
    LET n == IF Len(parked["send"]) < burst THEN Len(parked["send"]) ELSE burst
    IN /\ left' = left /\ burst' = 0
       /\ TakeOut(r, "notify_many", "send",
                  ToSet(SubSeq(parked["send"], 1, n)), AfterBatch)
       /\ SetParked("send", SubSeq(parked["send"], n + 1, Len(parked["send"])))
       /\ UNCHANGED got

\* Mutant: a batch that comes up short awaits more.
EndOfBatchAwaits(r) ==
    /\ ~FrontReady
    /\ GoAs(r, "batch", "pop", "first")
    /\ UNCHANGED <<items, undrained, targets, back, manyVars, known, manyFrame>>

\* Nothing is ready: await the first value, or return with what there is.
EndOfBatch(r) ==
    /\ ~FrontReady
    /\ IF got THEN GoAs(r, "batch", "idle", "none") /\ left' = 0
              ELSE GoAs(r, "batch", "pop", "first") /\ UNCHANGED left
    /\ got' = FALSE
    /\ UNCHANGED <<items, undrained, targets, back, burst, known, manyFrame>>

\* The buffer cannot grow: recv_many unwinds, nothing of this batch is taken.
Unwind(r) ==
    /\ FrontReady
    /\ Go(r, "batch", "idle")
    /\ left' = 0 /\ got' = FALSE
    /\ UNCHANGED <<items, undrained, targets, back, burst, known, manyFrame>>

\* The awaited receive has returned: go on in batches, or report Closed.
Resume(r) ==
    /\ left > 0
    /\ IF got THEN GoAs(r, "idle", "batch", "many") /\ UNCHANGED left
              ELSE GoAs(r, "idle", "idle", "none") /\ left' = 0
    /\ UNCHANGED <<items, undrained, targets, back, got, burst, known,
                   manyFrame>>

----------------------------------------------------------------------------
(* try_recv and recv, alone or inside recv_many.                            *)

\* pop_single: nobody can meet the head half-moved.
TakeOne(r) ==
    /\ Take(r) /\ moving' = NoTask
    /\ left' = IF left > 0 THEN left - 1 ELSE 0
    /\ got' = (left > 1)
    /\ UNCHANGED burst

\* Dropping the future drops the receive it awaits.
CancelMany(r) == Cancel(r) /\ left' = 0 /\ UNCHANGED <<got, burst>>

\* Everything else is as in Channel, except that the receiver has no Clone.
\* A new operation needs the last one to be over.
SingleStep(r) ==
    /\ \/ left = 0 /\ (StartTry(r) \/ StartFuture(r) \/ StartClose(r)
                       \/ DropHandle(r))
       \/ Poll(r) \/ SampleSenders(r) \/ FinishPop(r) \/ PopNone(r)
       \/ LoadClosed(r) \/ CheckIndices(r) \/ FindBusy(r) \/ TakeSnapshot(r)
       \/ CheckClaims(r) \/ FindClaims(r) \/ Snooze(r) \/ Yield(r)
       \/ ListStep(r)
    /\ UNCHANGED manyVars

ReceiverStep(r) ==
    \/ StartMany(r) \/ TakeBatch(r) \/ SampleBatch(r) \/ NotifyMany(r)
    \/ EndOfBatch(r) \/ Unwind(r) \/ Resume(r) \/ TakeOne(r) \/ CancelMany(r)
    \/ SingleStep(r)

MpscNext ==
    \/ \E s \in Senders : (Begin(s) \/ Step(s)) /\ UNCHANGED manyVars
    \/ \E r \in Receivers : ReceiverStep(r)

MpscSpec == MpscInit /\ [][MpscNext]_mpscVars

----------------------------------------------------------------------------
(* Properties.  SendersServed, ReceiversServed, CloseWakesAll and           *)
(* ClosedMeansDrained are those of Channel.                                 *)

\* Types: the words and locals of Channel, with the places of a batch receive,
\* and what a recv_many keeps.
MpscTypeOK ==
    /\ Types({"batch", "freed", "notify_many"}, {"many"}, {"batch"})
    /\ left \in 0..MaxBatch /\ got \in BOOLEAN
    /\ burst \in 0..MaxBatch
    /\ got => left > 0
    /\ moving = NoTask
    /\ \A r \in Receivers :
         pc[r] \in {"batch", "freed", "notify_many"} => op[r] = "many"

\* A recv_many that has taken a value never waits: only the first is awaited,
\* so dropping a pending future loses nothing (mpsc.rs:103-108).
AwaitsOnlyFirst ==
    \A r \in Receivers : pc[r] = "pending" /\ left > 0 => ~got
=============================================================================
