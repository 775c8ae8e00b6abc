------------------------------ MODULE FifoQueue ------------------------------
(***************************************************************************)
(* What the queue of src/src/queue.rs promises: a bounded or unbounded     *)
(* first-in first-out queue in which a push takes its place when it claims *)
(* it, becomes receivable when it is published, and leaves from the front  *)
(* only, to one receiver.                                                  *)
(***************************************************************************)
EXTENDS Integers, Sequences

CONSTANTS Producers, Consumers, Capacity, UNBOUNDED, Values, NoValue

VARIABLES
    items,    \* claimed places in order: [val |-> value, ready |-> published]
    sending,  \* the value of each push that has its place but is unpublished
    taken     \* the value each receive has taken and not yet returned

vars == <<items, sending, taken>>

Init == /\ items = <<>>
        /\ sending = [p \in Producers |-> NoValue]
        /\ taken = [c \in Consumers |-> NoValue]

Claim(p, v) ==
    /\ v \in Values
    /\ sending[p] = NoValue
    /\ Capacity # UNBOUNDED => Len(items) < Capacity
    /\ items' = Append(items, [val |-> v, ready |-> FALSE])
    /\ sending' = [sending EXCEPT ![p] = v]
    /\ UNCHANGED taken

Publish(p) ==
    /\ sending[p] # NoValue
    /\ items' = [i \in DOMAIN items |->
                   IF items[i].val = sending[p]
                   THEN [val |-> sending[p], ready |-> TRUE] ELSE items[i]]
    /\ sending' = [sending EXCEPT ![p] = NoValue]
    /\ UNCHANGED taken

Take(c) ==
    /\ taken[c] = NoValue
    /\ items # <<>> /\ Head(items).ready
    /\ taken' = [taken EXCEPT ![c] = Head(items).val]
    /\ items' = Tail(items)
    /\ UNCHANGED sending

Return(c) ==
    /\ taken[c] # NoValue
    /\ taken' = [taken EXCEPT ![c] = NoValue]
    /\ UNCHANGED <<items, sending>>

\* A producer chooses the value it pushes: what it sends after the step.
Next == \/ \E p \in Producers : Publish(p) \/ Claim(p, sending'[p])
        \/ \E c \in Consumers : Take(c) \/ Return(c)

Spec == Init /\ [][Next]_vars
=============================================================================
