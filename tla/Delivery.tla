------------------------------- MODULE Delivery -------------------------------
(***************************************************************************)
(* What an emitter that retries promises of the batches it is given,       *)
(* whatever queues it keeps them in: a batch is in one place, it is sent   *)
(* only while it is held, a retry is of the oldest batch that waits for    *)
(* one, a batch is tried a bounded number of times, and the batches given  *)
(* up for lack of room are the oldest.                                     *)
(***************************************************************************)
EXTENDS Naturals

CONSTANTS
    MaxTries,   \* attempts a batch is worth
    MaxBatches  \* bound on the batches handed over

VARIABLES
    state,      \* of each batch
    tries       \* attempts made for it

vars == <<state, tries>>

Ids     == 1..MaxBatches
Held    == {i \in Ids : state[i] = "held"}
Waiting == {i \in Held : tries[i] > 0}

Init == state = [i \in Ids |-> "none"] /\ tries = [i \in Ids |-> 0]

(* Batches are handed over in order, one at a time.                        *)
Accept(i) ==
    /\ state[i] = "none" /\ \A j \in 1..(i - 1) : state[j] # "none"
    /\ Held \subseteq Waiting
    /\ state' = [state EXCEPT ![i] = "held"]
    /\ UNCHANGED tries

Try(i) ==
    /\ i \in Held /\ tries[i] < MaxTries
    /\ i \in Waiting => \A j \in Waiting : i <= j
    /\ tries' = [tries EXCEPT ![i] = @ + 1]

Deliver(i) == Try(i) /\ state' = [state EXCEPT ![i] = "delivered"]

GiveUp(i) == Try(i) /\ state' = [state EXCEPT ![i] = "dropped"]

(* The batch goes on waiting, or makes the queue too long, and the oldest  *)
(* batches up to some number leave it.                                     *)
Keep(i, upTo) ==
    /\ Try(i) /\ tries'[i] < MaxTries
    /\ state' = [j \in Ids |-> IF j \in Waiting \union {i} /\ j <= upTo
                               THEN "dropped" ELSE state[j]]

(* The process ends.                                                       *)
Lose ==
    /\ state' = [i \in Ids |-> IF i \in Held THEN "dropped" ELSE state[i]]
    /\ UNCHANGED tries

Next ==
    \/ \E i \in Ids : Accept(i) \/ Deliver(i) \/ GiveUp(i)
    \/ \E i \in Ids, upTo \in 0..MaxBatches : Keep(i, upTo)
    \/ Lose

Spec == Init /\ [][Next]_vars
=============================================================================
