----------------------------- MODULE HttpEmitter -----------------------------
(***************************************************************************)
(* HttpBatchingEmitter (packages/sdk-py/dunetrace/emitters.py): the POST   *)
(* of a batch, the in-memory retry queue, and the drain thread of          *)
(* client.py that drives both.                                             *)
(*                                                                         *)
(* The drain thread calls ship() with a drained batch, or retry_pending()  *)
(* when the buffer is empty; both first resend the queued batches that are *)
(* due.  The clock is abstracted: an entry is due or not, and a backoff    *)
(* (jittered, floored at Retry-After, capped) elapses at any moment.       *)
(***************************************************************************)
EXTENDS Naturals, FiniteSets, Sequences, SequencesExt

CONSTANTS
    MaxRetries,        \* max_retries, 0 disables the queue
    MaxQueuedEvents,   \* max_queued_events
    BatchSizes,        \* the sizes a drained batch may have
    MaxBatches,        \* bound on the batches drained
    NilBatch            \* "no batch": retry_pending, or an empty hand

VARIABLES
    stage,         \* of the drain loop: run, stopping, drained, last, exited
    mode,          \* where the drain thread is in the emitter
    incoming,      \* the batch ship() was called with
    hand,          \* the batch popped for a resend
    queue,         \* _queue
    queuedEvents,  \* _queued_events
    delegated,     \* _retry_delegated
    batches,       \* batches drained so far; they are numbered from 1
    fate,          \* what became of each
    sent           \* how often each was POSTed

thread  == <<stage, mode, incoming, hand>>
held    == <<queue, queuedEvents>>
vars    == <<thread, held, delegated, batches, fate, sent>>

Ids     == 1..MaxBatches
Batch   == [id: Ids, size: BatchSizes, attempts: 0..MaxRetries, due: BOOLEAN]
Stages  == {"run", "stopping", "drained", "last", "exited"}
Modes   == {"idle", "retry", "resend", "post"}
Settled == {"delivered", "rejected", "exhausted", "evicted", "handedBack",
            "lost"}

ASSUME EmitterAssumption ==
    /\ MaxRetries \in Nat
    /\ MaxQueuedEvents \in Nat
    /\ BatchSizes \subseteq Nat \ {0}
    /\ MaxBatches \in Nat
    /\ NilBatch \notin Batch

(* 2xx; a 5xx, 429, 408, a connection error or a timeout (of a batch the   *)
(* server may have stored all the same); any other status.                 *)
Outcomes == {"ok", "transient", "refused"}

Init ==
    /\ stage = "run" /\ mode = "idle"
    /\ incoming = NilBatch /\ hand = NilBatch
    /\ queue = <<>> /\ queuedEvents = 0
    /\ delegated = FALSE
    /\ batches = 0
    /\ fate = [i \in Ids |-> "none"]
    /\ sent = [i \in Ids |-> 0]

Events(q) == FoldLeft(LAMBDA n, b : n + b.size, 0, q)
-----------------------------------------------------------------------------
(* The drain loop.                                                         *)

Drain(size, next) ==
    /\ mode = "idle" /\ batches < MaxBatches
    /\ batches' = batches + 1
    /\ incoming' = [id |-> batches', size |-> size, attempts |-> 0, due |-> FALSE]
    /\ fate' = [fate EXCEPT ![batches'] = "held"]
    /\ mode' = "retry" /\ stage' = next
    /\ UNCHANGED <<hand, held, delegated, sent>>

ShipBatch(size) == stage = "run" /\ Drain(size, "run")

(* The buffer was empty: retry_pending.                                    *)
IdleTurn ==
    /\ stage = "run" /\ mode = "idle"
    /\ mode' = "retry"
    /\ UNCHANGED <<stage, incoming, hand, held, delegated, batches, fate,
                   sent>>

(* shutdown() may be called at any moment; the loop sees it between turns. *)
Stop ==
    /\ stage = "run" /\ stage' = "stopping"
    /\ UNCHANGED <<mode, incoming, hand, held, delegated, batches, fate,
                   sent>>

FinalShip(size) == stage = "stopping" /\ Drain(size, "drained")

FinalRetry ==
    /\ stage \in {"stopping", "drained"} /\ mode = "idle"
    /\ stage' = "last" /\ mode' = "retry"
    /\ UNCHANGED <<incoming, hand, held, delegated, batches, fate, sent>>

(* The process ends, by shutdown's timeout, a kill or after the final      *)
(* retry: what is still held is gone.                                      *)
Exit ==
    /\ stage # "exited" /\ stage' = "exited" /\ mode' = "idle"
    /\ incoming' = NilBatch /\ hand' = NilBatch
    /\ queue' = <<>> /\ queuedEvents' = 0
    /\ fate' = [i \in Ids |-> IF fate[i] = "held" THEN "lost" ELSE fate[i]]
    /\ UNCHANGED <<delegated, batches, sent>>
-----------------------------------------------------------------------------
(* ship, retry_pending, _retry_due.                                        *)

(* Mutant: the last batch of the queue is never found due.                 *)
HeadDue_NotTheLast == Len(queue) > 1 /\ Head(queue).due

HeadDue == queue # <<>> /\ Head(queue).due

RetryHead ==
    /\ mode = "retry" /\ HeadDue
    /\ hand' = Head(queue) /\ queue' = Tail(queue)
    /\ queuedEvents' = queuedEvents - Head(queue).size
    /\ mode' = "resend"
    /\ UNCHANGED <<stage, incoming, delegated, batches, fate, sent>>

(* _retry_due returns: ship() goes on to post its batch.                   *)
AfterRetry == IF incoming = NilBatch THEN "idle" ELSE "post"

RetryDone ==
    /\ mode = "retry" /\ ~HeadDue
    /\ mode' = AfterRetry
    /\ UNCHANGED <<stage, incoming, hand, held, delegated, batches, fate,
                   sent>>

Post(id) == sent' = [sent EXCEPT ![id] = @ + 1]

(* _evict_if_over_bound: how many batches leave the front, until the rest  *)
(* fits or none is left.                                                   *)
Evictions(q, events) ==
    LET fits(k) == \/ k = Len(q)
                   \/ events - Events(SubSeq(q, 1, k)) =< MaxQueuedEvents
    IN  CHOOSE n \in 0..Len(q) : fits(n) /\ \A k \in 0..(n - 1) : ~fits(k)

Failed(b) == [b EXCEPT !.attempts = @ + 1, !.due = FALSE]

Requeued(q, b, fromQueue) == IF fromQueue THEN <<b>> \o q ELSE Append(q, b)

GivesUp(attempts) == attempts > MaxRetries

AfterFailure(b, outcome, fromQueue) ==
    IF outcome = "refused" THEN "rejected"
    ELSE IF delegated /\ ~fromQueue THEN "handedBack"
    ELSE IF GivesUp(b.attempts + 1) THEN "exhausted"
    ELSE "held"

(* Mutant: a batch is put back although another layer, or nobody, has it.  *)
OnFailure_QueuesToo(b, outcome, fromQueue) ==
    /\ queue' = Requeued(queue, Failed(b), fromQueue)
    /\ queuedEvents' = queuedEvents + b.size
    /\ fate' = [fate EXCEPT ![b.id] = AfterFailure(b, outcome, fromQueue)]

(* _on_failure for a batch whose attempt failed.                           *)
OnFailure(b, outcome, fromQueue) ==
    LET grown  == Requeued(queue, Failed(b), fromQueue)
        events == queuedEvents + b.size
        n      == Evictions(grown, events)
        end    == AfterFailure(b, outcome, fromQueue)
    IN  IF end # "held"
        THEN fate' = [fate EXCEPT ![b.id] = end] /\ UNCHANGED held
        ELSE /\ queue' = SubSeq(grown, n + 1, Len(grown))
             /\ queuedEvents' = events - Events(SubSeq(grown, 1, n))
             /\ fate' = [i \in Ids |->
                    IF \E k \in 1..n : grown[k].id = i THEN "evicted"
                    ELSE fate[i]]

(* One resend: a success goes on with the next due batch, a failure ends   *)
(* the round.                                                              *)
Resent(outcome) ==
    /\ mode = "resend" /\ hand' = NilBatch
    /\ Post(hand.id)
    /\ \/ /\ outcome = "ok" /\ mode' = "retry"
          /\ fate' = [fate EXCEPT ![hand.id] = "delivered"]
          /\ UNCHANGED held
       \/ /\ outcome # "ok" /\ mode' = AfterRetry
          /\ OnFailure(hand, outcome, TRUE)
    /\ UNCHANGED <<stage, incoming, delegated, batches>>

Posted(outcome) ==
    /\ mode = "post" /\ mode' = "idle" /\ incoming' = NilBatch
    /\ Post(incoming.id)
    /\ \/ /\ outcome = "ok"
          /\ fate' = [fate EXCEPT ![incoming.id] = "delivered"]
          /\ UNCHANGED held
       \/ /\ outcome # "ok"
          /\ OnFailure(incoming, outcome, FALSE)
    /\ UNCHANGED <<stage, hand, delegated, batches>>

BackoffElapsed(k) ==
    /\ ~queue[k].due
    /\ queue' = [queue EXCEPT ![k].due = TRUE]
    /\ UNCHANGED <<thread, queuedEvents, delegated, batches, fate, sent>>

(* A DurableRetryEmitter is wrapped around this emitter.                   *)
DisableRetry ==
    /\ ~delegated /\ delegated' = TRUE
    /\ UNCHANGED <<thread, held, batches, fate, sent>>
-----------------------------------------------------------------------------
DrainThread ==
    \/ IdleTurn \/ FinalRetry \/ RetryHead \/ RetryDone
    \/ \E outcome \in Outcomes : Resent(outcome) \/ Posted(outcome)

Next ==
    \/ DrainThread
    \/ \E size \in BatchSizes : ShipBatch(size) \/ FinalShip(size)
    \/ Stop \/ Exit \/ DisableRetry
    \/ \E k \in 1..Len(queue) : BackoffElapsed(k)

(* The thread loops (every wait of it is bounded by flush_interval), each  *)
(* POST ends within its timeout, and every backoff is capped.              *)
Fairness ==
    /\ WF_vars(DrainThread)
    /\ \A k \in 1..MaxBatches :
           WF_vars(k =< Len(queue) /\ BackoffElapsed(k))

Spec == Init /\ [][Next]_vars /\ Fairness
-----------------------------------------------------------------------------
HttpTypeOK ==
    /\ stage \in Stages /\ mode \in Modes
    /\ incoming \in Batch \cup {NilBatch}
    /\ hand \in Batch \cup {NilBatch}
    /\ queue \in Seq(Batch) /\ queuedEvents \in Nat
    /\ delegated \in BOOLEAN
    /\ batches \in 0..MaxBatches
    /\ fate \in [Ids -> {"none", "held"} \cup Settled]
    /\ sent \in [Ids -> Nat]

(* The counter that decides eviction counts exactly the queued events, and *)
(* the queue is within max_queued_events whenever the lock is free.        *)
QueuedEventsExact ==
    /\ queuedEvents = Events(queue)
    /\ queuedEvents =< MaxQueuedEvents

(* A failed resend goes back to the front, a failed first attempt to the   *)
(* back: the queue stays in drain order, and what is being resent is older *)
(* than everything queued.                                                 *)
OldestFirst ==
    /\ \A j, k \in 1..Len(queue) : j < k => queue[j].id < queue[k].id
    /\ hand # NilBatch => \A k \in 1..Len(queue) : hand.id < queue[k].id

(* The emitter is an implementation of Delivery: whichever of the places   *)
(* a batch is in - queued, in the hand of a resend, about to be posted -   *)
(* it is held once, settled once and never posted after that ("exactly one *)
(* layer may re-send a failed batch").                                     *)
StateOf(i) ==
    IF fate[i] \in {"none", "held", "delivered"} THEN fate[i] ELSE "dropped"

Promise == INSTANCE Delivery
    WITH MaxTries <- MaxRetries + 1, tries <- sent,
         state <- [i \in Ids |-> StateOf(i)]

ImplementsDelivery == Promise!Spec

(* While the loop runs, every batch it took is eventually accepted or      *)
(* dropped: an outage does not leave one queued for ever.                  *)
HeldSettles ==
    \A i \in Ids : fate[i] = "held" ~> (fate[i] # "held" \/ stage # "run")

(* "With the default emitter, a failed batch is dropped - no retry, no     *)
(* persistence" (docs/architecture.md).                                    *)
FailedBatchDropped == \A i \in Ids : sent[i] =< 1
=============================================================================
