-------------------------- MODULE HttpEmitterProofs --------------------------
(* Proofs about module HttpEmitter: the in-memory retry queue implements   *)
(* Delivery, for any number and sizes of batches, any max_retries and      *)
(* max_queued_events, whatever the server answers and whenever the process *)
(* stops or a wrapper takes retries over.                                  *)
EXTENDS HttpEmitter, WellFoundedInduction, TLAPS

(* The parts of the types the argument needs.                              *)
EmitterTypes ==
    /\ mode \in Modes
    /\ incoming \in Batch \cup {NilBatch}
    /\ hand \in Batch \cup {NilBatch}
    /\ queue \in Seq(Batch)
    /\ batches \in 0..MaxBatches
    /\ fate \in [Ids -> {"none", "held"} \cup Settled]
    /\ sent \in [Ids -> Nat]

(* A batch that waits for a retry: what it counts is what was posted.      *)
Waits(b) == fate[b.id] = "held" /\ sent[b.id] = b.attempts /\ b.attempts > 0

(* A batch that ship() has still to post.                                  *)
Fresh(b) ==
    fate[b.id] = "held" /\ sent[b.id] = 0 /\ b.attempts = 0 /\ b.id = batches

Sorted(q) == \A j, k \in 1..Len(q) : j < k => q[j].id < q[k].id

InQueue(i) == \E k \in 1..Len(queue) : queue[k].id = i

QueueSound == Sorted(queue) /\ \A k \in 1..Len(queue) : Waits(queue[k])

HandSound ==
    /\ hand # NilBatch <=> mode = "resend"
    /\ hand # NilBatch =>
           Waits(hand) /\ \A k \in 1..Len(queue) : hand.id < queue[k].id

IncomingSound ==
    /\ mode = "post" => incoming # NilBatch
    /\ mode = "idle" => incoming = NilBatch
    /\ incoming # NilBatch => Fresh(incoming)

(* A batch the emitter has is in one of three places.                      *)
Placed(i) ==
    \/ InQueue(i)
    \/ hand # NilBatch /\ hand.id = i
    \/ incoming # NilBatch /\ incoming.id = i

BatchSound(i) ==
    /\ fate[i] = "none" <=> i > batches
    /\ i > batches => sent[i] = 0
    /\ fate[i] = "held" => Placed(i)

EmitterInv ==
    /\ EmitterTypes
    /\ QueueSound /\ HandSound /\ IncomingSound
    /\ \A i \in Ids : BatchSound(i)
-----------------------------------------------------------------------------
LEMMA SmallestNumber ==
    ASSUME NEW S \in SUBSET Nat, S # {}
    PROVE  \E m \in S : \A i \in S : m <= i
<1> DEFINE R == OpToRel(<, Nat)
<1>1. IsWellFoundedOn(R, Nat)
    BY NatLessThanWellFounded
<1>2. \A i, j \in Nat : <<i, j>> \in R <=> i < j
    BY DEF OpToRel
<1> HIDE DEF R
<1>3. PICK m \in S : \A i \in S : ~(<<i, m>> \in R)
    BY <1>1, WFMin
<1>4. \A i \in S : ~(i < m)
    BY <1>2, <1>3
<1> QED BY <1>4

(* Sequences of batches.                                                   *)
LEMMA EvictionsIndex ==
    ASSUME NEW q \in Seq(Batch), NEW events
    PROVE  Evictions(q, events) \in 0..Len(q)
<1> DEFINE enough(k) == \/ k = Len(q)
                        \/ events - Events(SubSeq(q, 1, k)) =< MaxQueuedEvents
           S == {k \in 0..Len(q) : enough(k)}
<1>1. Len(q) \in Nat /\ Len(q) \in S /\ S \in SUBSET Nat
    OBVIOUS
<1>2. PICK n \in S : \A i \in S : n <= i
    <2> HIDE DEF S
    <2> QED BY <1>1, SmallestNumber
<1>3. n \in 0..Len(q) /\ enough(n) /\ \A k \in 0..(n - 1) : ~enough(k)
    <2>1. ASSUME NEW k \in 0..(n - 1), enough(k) PROVE FALSE
        <3>1. k \in S /\ ~(n <= k)
            BY <1>1, <1>2, <2>1
        <3> QED BY <1>2, <3>1
    <2> QED BY <1>2, <2>1
<1> HIDE DEF enough, S
<1>4. \E m \in 0..Len(q) : enough(m) /\ \A k \in 0..(m - 1) : ~enough(k)
    BY <1>3
<1>5. Evictions(q, events) = CHOOSE m \in 0..Len(q) : enough(m) /\ \A k \in 0..(m - 1) : ~enough(k)
    BY DEF Evictions, enough
<1> QED BY <1>4, <1>5

(* A batch is put back at the end its age calls for.                       *)
LEMMA RequeuedSorted ==
    ASSUME NEW q \in Seq(Batch), Sorted(q), NEW b \in Batch, NEW front \in BOOLEAN,
           \A k \in 1..Len(q) : IF front THEN b.id < q[k].id ELSE q[k].id < b.id
    PROVE  LET g == Requeued(q, b, front) IN
           /\ g \in Seq(Batch) /\ Sorted(g)
           /\ \A k \in 1..Len(g) : g[k] = b \/ \E j \in 1..Len(q) : g[k] = q[j]
           /\ \A j \in 1..Len(q) : \E k \in 1..Len(g) : g[k] = q[j]
           /\ \E k \in 1..Len(g) : g[k] = b
<1> DEFINE g == Requeued(q, b, front)
<1>1. Len(q) \in Nat /\ \A k \in 1..Len(q) : q[k] \in Batch
    OBVIOUS
<1>2. \A x \in Batch : x.id \in Int
    BY EmitterAssumption DEF Batch, Ids
<1>3. CASE front
    <2>1. /\ g \in Seq(Batch) /\ Len(g) = Len(q) + 1 /\ g[1] = b
          /\ \A k \in 2..Len(g) : g[k] = q[k - 1]
        BY <1>1, <1>3 DEF Requeued
    <2> HIDE DEF g
    <2>2. Sorted(g)
        <3> SUFFICES ASSUME NEW j \in 1..Len(g), NEW k \in 1..Len(g), j < k
                     PROVE  g[j].id < g[k].id
            BY DEF Sorted
        <3>1. g[k] = q[k - 1] /\ k - 1 \in 1..Len(q)
            BY <1>1, <2>1
        <3>2. CASE j = 1
            BY <1>3, <2>1, <3>1, <3>2
        <3>3. CASE j # 1
            <4>1. g[j] = q[j - 1] /\ j - 1 \in 1..Len(q) /\ j - 1 < k - 1
                BY <1>1, <2>1, <3>3
            <4> QED BY <3>1, <4>1 DEF Sorted
        <3> QED BY <3>2, <3>3
    <2>3. \A k \in 1..Len(g) : g[k] = b \/ \E j \in 1..Len(q) : g[k] = q[j]
        <3> SUFFICES ASSUME NEW k \in 1..Len(g), k # 1
                     PROVE  \E j \in 1..Len(q) : g[k] = q[j]
            BY <2>1
        <3> QED BY <1>1, <2>1
    <2>4. ASSUME NEW j \in 1..Len(q) PROVE \E k \in 1..Len(g) : g[k] = q[j]
        <3>1. j + 1 \in 2..Len(g) /\ j + 1 \in 1..Len(g) /\ (j + 1) - 1 = j
            BY <1>1, <2>1
        <3>2. g[j + 1] = q[(j + 1) - 1]
            BY <2>1, <3>1
        <3> QED BY <3>1, <3>2
    <2> QED BY <1>1, <2>1, <2>2, <2>3, <2>4 DEF g
<1>4. CASE ~front
    <2>1. /\ g \in Seq(Batch) /\ Len(g) = Len(q) + 1 /\ g[Len(g)] = b
          /\ \A k \in 1..Len(q) : g[k] = q[k]
        BY <1>1, <1>4 DEF Requeued
    <2> HIDE DEF g
    <2>2. Sorted(g)
        <3> SUFFICES ASSUME NEW j \in 1..Len(g), NEW k \in 1..Len(g), j < k
                     PROVE  g[j].id < g[k].id
            BY DEF Sorted
        <3>1. g[j] = q[j] /\ j \in 1..Len(q)
            BY <1>1, <2>1
        <3>2. CASE k = Len(g)
            BY <1>4, <2>1, <3>1, <3>2
        <3>3. CASE k # Len(g)
            <4>1. g[k] = q[k] /\ k \in 1..Len(q)
                BY <1>1, <2>1, <3>3
            <4> QED BY <3>1, <4>1 DEF Sorted
        <3> QED BY <3>2, <3>3
    <2>3. \A k \in 1..Len(g) : g[k] = b \/ \E j \in 1..Len(q) : g[k] = q[j]
        <3> SUFFICES ASSUME NEW k \in 1..Len(g), k # Len(g)
                     PROVE  \E j \in 1..Len(q) : g[k] = q[j]
            BY <2>1
        <3> QED BY <1>1, <2>1
    <2>4. \A j \in 1..Len(q) : j \in 1..Len(g) /\ g[j] = q[j]
        BY <1>1, <2>1
    <2>5. Len(g) \in 1..Len(g)
        BY <1>1, <2>1
    <2> QED BY <2>1, <2>2, <2>3, <2>4, <2>5 DEF g
<1> QED BY <1>3, <1>4

(* What is left of a queue when its n oldest batches go.                   *)
LEMMA CutSorted ==
    ASSUME NEW g \in Seq(Batch), Sorted(g), NEW n \in 0..Len(g)
    PROVE  LET w == SubSeq(g, n + 1, Len(g)) IN
           /\ w \in Seq(Batch) /\ Sorted(w)
           /\ \A k \in 1..Len(w) : \E j \in (n + 1)..Len(g) : w[k] = g[j]
           /\ \A j \in (n + 1)..Len(g) : \E k \in 1..Len(w) : w[k] = g[j]
<1> DEFINE w == SubSeq(g, n + 1, Len(g))
<1>1. Len(g) \in Nat /\ n \in Nat /\ n <= Len(g)
    OBVIOUS
<1>2. w \in Seq(Batch) /\ Len(w) = Len(g) - n /\ \A k \in 1..Len(w) : w[k] = g[k + n]
    BY <1>1
<1> HIDE DEF w
<1>3. Sorted(w)
    <2> SUFFICES ASSUME NEW j \in 1..Len(w), NEW k \in 1..Len(w), j < k
                 PROVE  w[j].id < w[k].id
        BY DEF Sorted
    <2>1. j + n \in 1..Len(g) /\ k + n \in 1..Len(g) /\ j + n < k + n
        BY <1>1, <1>2
    <2> QED BY <1>2, <2>1 DEF Sorted
<1>4. ASSUME NEW k \in 1..Len(w) PROVE \E j \in (n + 1)..Len(g) : w[k] = g[j]
    <2>1. k + n \in (n + 1)..Len(g)
        BY <1>1, <1>2
    <2> QED BY <1>2, <2>1
<1>5. ASSUME NEW j \in (n + 1)..Len(g) PROVE \E k \in 1..Len(w) : w[k] = g[j]
    <2>1. j - n \in 1..Len(w) /\ (j - n) + n = j
        BY <1>1, <1>2
    <2> QED BY <1>2, <2>1
<1> QED BY <1>2, <1>3, <1>4, <1>5 DEF w

LEMMA FailedBatch ==
    ASSUME NEW b \in Batch, ~GivesUp(b.attempts + 1)
    PROVE  /\ Failed(b) \in Batch
           /\ Failed(b).id = b.id /\ Failed(b).attempts = b.attempts + 1
<1>1. /\ b.id \in Ids /\ b.size \in BatchSizes /\ b.attempts \in 0..MaxRetries
      /\ b.attempts + 1 \in 0..MaxRetries
    BY EmitterAssumption DEF Batch, GivesUp
<1> DEFINE c == [b EXCEPT !.attempts = b.attempts + 1]
<1>2. /\ c \in Batch /\ c.id = b.id /\ c.attempts = b.attempts + 1
    BY <1>1 DEF Batch
<1>3. Failed(b) = [c EXCEPT !.due = FALSE]
    BY DEF Failed, Batch
<1> HIDE DEF c
<1> QED BY <1>2, <1>3 DEF Batch
-----------------------------------------------------------------------------
(* The invariant.                                                          *)
LEMMA BatchFields ==
    ASSUME NEW b \in Batch
    PROVE  /\ b.id \in Ids /\ b.id \in Nat
           /\ b.attempts \in Nat /\ b.attempts <= MaxRetries /\ b # NilBatch
BY EmitterAssumption DEF Batch, Ids

LEMMA DueBatch ==
    ASSUME NEW b \in Batch
    PROVE  LET c == [b EXCEPT !.due = TRUE] IN
           c \in Batch /\ c.id = b.id /\ c.attempts = b.attempts
BY DEF Batch

LEMMA InitEstablishes == Init => EmitterInv
<1> SUFFICES ASSUME Init PROVE EmitterInv
    OBVIOUS
<1>1. EmitterTypes
    BY EmitterAssumption DEF Init, EmitterTypes, Modes, Ids
<1>2. queue = <<>> /\ Len(queue) = 0 /\ batches = 0
    BY DEF Init
<1>3. QueueSound /\ HandSound /\ IncomingSound
    BY <1>2 DEF Init, QueueSound, HandSound, IncomingSound, Sorted
<1>4. \A i \in Ids : BatchSound(i)
    BY <1>2, EmitterAssumption DEF Init, BatchSound, Ids
<1> QED BY <1>1, <1>3, <1>4 DEF EmitterInv

(* A step that moves no batch.                                             *)
LEMMA RestKeeps ==
    ASSUME EmitterInv,
           incoming' = incoming, hand' = hand, queue' = queue,
           batches' = batches, fate' = fate, sent' = sent,
           mode' \in Modes, mode' = "resend" <=> mode = "resend",
           mode' = "post" => incoming # NilBatch,
           mode' = "idle" => incoming = NilBatch
    PROVE  EmitterInv'
<1>1. EmitterTypes'
    BY DEF EmitterInv, EmitterTypes
<1>2. QueueSound' /\ HandSound' /\ IncomingSound'
    BY DEF EmitterInv, QueueSound, HandSound, IncomingSound, Waits, Fresh
<1>3. \A i \in Ids : BatchSound(i)'
    BY DEF EmitterInv, BatchSound, Placed, InQueue
<1> QED BY <1>1, <1>2, <1>3 DEF EmitterInv

LEMMA DrainKeeps ==
    ASSUME EmitterInv, NEW size \in BatchSizes, NEW next, Drain(size, next)
    PROVE  EmitterInv'
<1> DEFINE b == [id |-> batches + 1, size |-> size, attempts |-> 0, due |-> FALSE]
<1>1. /\ batches \in Nat /\ batches + 1 \in Ids /\ batches' = batches + 1
      /\ incoming = NilBatch /\ mode = "idle" /\ mode' = "retry"
      /\ hand' = hand /\ queue' = queue /\ sent' = sent
    BY EmitterAssumption DEF Drain, EmitterInv, EmitterTypes, IncomingSound, Ids, held
<1>2. b \in Batch /\ b.id = batches + 1 /\ b.attempts = 0 /\ b # NilBatch /\ incoming' = b
    <2>1. 0 \in 0..MaxRetries
        BY EmitterAssumption
    <2>2. b \in Batch
        BY <1>1, <2>1 DEF Batch
    <2>3. incoming' = b
        BY <1>1 DEF Drain
    <2> QED BY <2>2, <2>3, BatchFields
<1> HIDE DEF b
<1>3. fate' = [fate EXCEPT ![batches + 1] = "held"]
    BY <1>1 DEF Drain
<1>4. EmitterTypes'
    BY <1>1, <1>2, <1>3, EmitterAssumption DEF EmitterInv, EmitterTypes, Modes, Ids
<1>5. fate[batches + 1] = "none" /\ sent[batches + 1] = 0
    BY <1>1 DEF EmitterInv, BatchSound
<1>6. ASSUME NEW c \in Batch, Waits(c) PROVE Waits(c)'
    <2>1. c.id # batches + 1
        BY <1>5, <1>6 DEF Waits
    <2> QED BY <1>1, <1>3, <1>6, <2>1, BatchFields DEF EmitterInv, EmitterTypes, Waits
<1>7. QueueSound'
    BY <1>1, <1>6 DEF EmitterInv, EmitterTypes, QueueSound
<1>8. HandSound'
    BY <1>1, <1>6 DEF EmitterInv, EmitterTypes, HandSound
<1>9. IncomingSound'
    BY <1>1, <1>2, <1>3, <1>5 DEF EmitterInv, EmitterTypes, IncomingSound, Fresh
<1>10. ASSUME NEW i \in Ids PROVE BatchSound(i)'
    <2>1. BatchSound(i) /\ i \in Nat
        BY EmitterAssumption DEF EmitterInv, Ids
    <2>2. Placed(i) \/ i = batches + 1 => Placed(i)'
        BY <1>1, <1>2 DEF Placed, InQueue
    <2> QED BY <1>1, <1>3, <2>1, <2>2 DEF BatchSound, EmitterInv, EmitterTypes
<1> QED BY <1>4, <1>7, <1>8, <1>9, <1>10 DEF EmitterInv

LEMMA ExitKeeps == ASSUME EmitterInv, Exit PROVE EmitterInv'
<1>1. /\ mode' = "idle" /\ incoming' = NilBatch /\ hand' = NilBatch
      /\ queue' = <<>> /\ Len(<<>>) = 0 /\ batches' = batches /\ sent' = sent
      /\ fate' = [i \in Ids |-> IF fate[i] = "held" THEN "lost" ELSE fate[i]]
    BY DEF Exit
<1>2. EmitterTypes'
    BY <1>1 DEF EmitterInv, EmitterTypes, Modes, Settled
<1>3. QueueSound' /\ HandSound' /\ IncomingSound'
    BY <1>1 DEF QueueSound, Sorted, HandSound, IncomingSound
<1>4. \A i \in Ids : BatchSound(i)'
    BY <1>1 DEF EmitterInv, BatchSound
<1> QED BY <1>2, <1>3, <1>4 DEF EmitterInv

LEMMA RetryHeadKeeps == ASSUME EmitterInv, RetryHead PROVE EmitterInv'
<1> PICK b : b = Head(queue)
    OBVIOUS
<1>1. /\ queue \in Seq(Batch) /\ queue # <<>> /\ Len(queue) \in Nat
      /\ mode = "retry" /\ mode' = "resend" /\ hand = NilBatch
      /\ incoming' = incoming /\ batches' = batches /\ fate' = fate /\ sent' = sent
      /\ hand' = b /\ queue' = Tail(queue)
    BY DEF RetryHead, HeadDue, EmitterInv, EmitterTypes, HandSound
<1>2. /\ Len(queue) > 0 /\ b = queue[1] /\ b \in Batch
      /\ queue' \in Seq(Batch) /\ Len(queue') = Len(queue) - 1
      /\ \A k \in 1..Len(queue') : queue'[k] = queue[k + 1]
    BY <1>1
<1>3. b # NilBatch
    BY <1>2, BatchFields
<1>4. EmitterTypes'
    BY <1>1, <1>2 DEF EmitterInv, EmitterTypes, Modes
<1>5. ASSUME NEW c PROVE Waits(c) => Waits(c)'
    BY <1>1 DEF Waits
<1>6. \A k \in 1..Len(queue') : k + 1 \in 1..Len(queue)
    BY <1>1, <1>2
<1>7. QueueSound'
    <2>1. Sorted(queue')
        <3> SUFFICES ASSUME NEW j \in 1..Len(queue'), NEW k \in 1..Len(queue'), j < k
                     PROVE  queue'[j].id < queue'[k].id
            BY DEF Sorted
        <3>1. j + 1 \in 1..Len(queue) /\ k + 1 \in 1..Len(queue) /\ j + 1 < k + 1
            BY <1>6, <1>2
        <3> QED BY <1>2, <3>1 DEF EmitterInv, QueueSound, Sorted
    <2> QED BY <1>2, <1>5, <1>6, <2>1 DEF EmitterInv, QueueSound
<1>8. HandSound'
    <2>1. 1 \in 1..Len(queue)
        BY <1>1, <1>2
    <2>2. Waits(b)'
        BY <1>2, <1>5, <2>1 DEF EmitterInv, QueueSound
    <2>3. ASSUME NEW k \in 1..Len(queue') PROVE b.id < queue'[k].id
        <3>1. k + 1 \in 1..Len(queue) /\ 1 < k + 1
            BY <1>2, <1>6
        <3> QED BY <1>2, <2>1, <3>1 DEF EmitterInv, QueueSound, Sorted
    <2> QED BY <1>1, <1>3, <2>2, <2>3 DEF HandSound
<1>9. IncomingSound'
    BY <1>1 DEF EmitterInv, IncomingSound, Fresh
<1>10. ASSUME NEW i \in Ids PROVE BatchSound(i)'
    <2>1. ASSUME NEW k \in 1..Len(queue), k # 1
          PROVE  \E j \in 1..Len(queue') : queue'[j] = queue[k]
        <3>1. k - 1 \in 1..Len(queue') /\ (k - 1) + 1 = k
            BY <1>1, <1>2, <2>1
        <3> QED BY <1>2, <3>1
    <2>2. InQueue(i) => InQueue(i)' \/ b.id = i
        BY <1>2, <2>1 DEF InQueue
    <2>3. Placed(i) => Placed(i)'
        BY <1>1, <1>3, <2>2 DEF Placed
    <2> QED BY <1>1, <2>3 DEF EmitterInv, BatchSound
<1> QED BY <1>4, <1>7, <1>8, <1>9, <1>10 DEF EmitterInv

LEMMA BackoffElapsedKeeps ==
    ASSUME EmitterInv, NEW n \in 1..Len(queue), BackoffElapsed(n)
    PROVE  EmitterInv'
<1>1. /\ queue \in Seq(Batch) /\ mode' = mode /\ incoming' = incoming /\ hand' = hand
      /\ batches' = batches /\ fate' = fate /\ sent' = sent
      /\ queue' = [queue EXCEPT ![n].due = TRUE]
    BY DEF BackoffElapsed, EmitterInv, EmitterTypes, thread
<1>2. /\ queue' \in Seq(Batch) /\ Len(queue') = Len(queue)
      /\ \A k \in 1..Len(queue) : /\ queue'[k].id = queue[k].id
                                  /\ queue'[k].attempts = queue[k].attempts
    <2> PICK b : b = [queue[n] EXCEPT !.due = TRUE]
        OBVIOUS
    <2>1. b \in Batch /\ b.id = queue[n].id /\ b.attempts = queue[n].attempts
        BY <1>1, DueBatch
    <2>2. queue' = [queue EXCEPT ![n] = b]
        BY <1>1
    <2> QED BY <1>1, <2>1, <2>2
<1>3. EmitterTypes'
    BY <1>1, <1>2 DEF EmitterInv, EmitterTypes
<1>4. QueueSound' /\ HandSound' /\ IncomingSound'
    BY <1>1, <1>2 DEF EmitterInv, QueueSound, HandSound, IncomingSound, Waits, Fresh, Sorted
<1>5. \A i \in Ids : BatchSound(i)'
    BY <1>1, <1>2 DEF EmitterInv, BatchSound, Placed, InQueue
<1> QED BY <1>3, <1>4, <1>5 DEF EmitterInv
-----------------------------------------------------------------------------
(* An attempt: the batch b leaves the hand, or is the one just drained.    *)
Leaves(b) ==
    /\ b # NilBatch
    /\ sent' = [sent EXCEPT ![b.id] = @ + 1]
    /\ batches' = batches
    /\ \/ /\ b = hand /\ mode = "resend"
          /\ hand' = NilBatch /\ incoming' = incoming
          /\ mode' \in {"retry", AfterRetry}
       \/ /\ b = incoming /\ mode = "post"
          /\ incoming' = NilBatch /\ hand' = hand
          /\ mode' = "idle"

(* It is held, it is younger than the queue or older, and the other batch  *)
(* that is not queued is another one.                                      *)
LEMMA LeavingBatch ==
    ASSUME EmitterInv, NEW b, Leaves(b)
    PROVE  /\ b \in Batch /\ b.id \in Ids
           /\ fate[b.id] = "held" /\ sent[b.id] = b.attempts
           /\ b = hand => \A k \in 1..Len(queue) : b.id < queue[k].id
           /\ b # hand => b = incoming /\ hand = NilBatch
           /\ b # hand => \A k \in 1..Len(queue) : queue[k].id < b.id
           /\ b = hand => b.attempts > 0
           /\ b # hand => b.attempts = 0
           /\ hand' = NilBatch
           /\ incoming' # NilBatch => incoming' = incoming /\ incoming.id # b.id
           /\ \A k \in 1..Len(queue) : Waits(queue[k]) /\ queue[k].id # b.id
           /\ \A i \in Ids : fate[i] = "held" =>
                  InQueue(i) \/ i = b.id \/ (incoming' # NilBatch /\ incoming.id = i)
<1>1. b \in Batch /\ b.id \in Ids
    BY BatchFields DEF Leaves, EmitterInv, EmitterTypes
<1>2. Len(queue) \in Nat /\ \A k \in 1..Len(queue) : queue[k] \in Batch
    BY DEF EmitterInv, EmitterTypes
<1>3. \A k \in 1..Len(queue) : Waits(queue[k])
    BY DEF EmitterInv, QueueSound
<1>4. \A k \in 1..Len(queue) : queue[k].id \in Nat /\ queue[k].id <= batches
    <2> SUFFICES ASSUME NEW k \in 1..Len(queue)
                 PROVE  queue[k].id \in Nat /\ queue[k].id <= batches
        OBVIOUS
    <2>1. queue[k].id \in Ids /\ queue[k].id \in Nat /\ fate[queue[k].id] = "held"
        BY <1>2, <1>3, BatchFields DEF Waits
    <2> QED BY <2>1, EmitterAssumption DEF EmitterInv, EmitterTypes, BatchSound
<1>5. CASE b = hand
    <2>1. mode = "resend" /\ hand' = NilBatch /\ incoming' = incoming
        BY <1>5 DEF Leaves, EmitterInv, HandSound
    <2>2. Waits(b) /\ \A k \in 1..Len(queue) : b.id < queue[k].id
        BY <1>5 DEF Leaves, EmitterInv, HandSound
    <2>3. incoming # NilBatch => incoming.id # b.id
        BY <2>2 DEF EmitterInv, IncomingSound, Fresh, Waits
    <2>4. \A k \in 1..Len(queue) : queue[k].id # b.id
        BY <1>1, <1>4, <2>2, BatchFields
    <2>5. \A i \in Ids : fate[i] = "held" =>
              InQueue(i) \/ i = b.id \/ (incoming' # NilBatch /\ incoming.id = i)
        BY <1>5, <2>1 DEF EmitterInv, BatchSound, Placed
    <2> QED BY <1>1, <1>3, <1>5, <2>1, <2>2, <2>3, <2>4, <2>5 DEF Waits
<1>6. CASE b # hand
    <2>1. b = incoming /\ mode = "post" /\ hand = NilBatch /\ hand' = NilBatch /\ incoming' = NilBatch
        BY <1>6 DEF Leaves, EmitterInv, HandSound
    <2>2. Fresh(b)
        BY <2>1 DEF Leaves, EmitterInv, IncomingSound
    <2>3. \A k \in 1..Len(queue) : queue[k].id < b.id /\ queue[k].id # b.id
        <3> SUFFICES ASSUME NEW k \in 1..Len(queue)
                     PROVE  queue[k].id < b.id /\ queue[k].id # b.id
            OBVIOUS
        <3>1. queue[k].id # b.id
            BY <1>3, <2>2 DEF Fresh, Waits
        <3> QED BY <1>4, <2>2, <3>1, EmitterAssumption DEF Fresh, EmitterInv, EmitterTypes
    <2>4. \A i \in Ids : fate[i] = "held" => InQueue(i) \/ i = b.id
        BY <2>1 DEF EmitterInv, BatchSound, Placed
    <2> QED BY <1>1, <1>3, <1>6, <2>1, <2>2, <2>3, <2>4 DEF Fresh
<1> QED BY <1>5, <1>6

(* What an attempt leaves of hand and incoming.                            *)
LEMMA AttemptPlaces ==
    ASSUME EmitterInv, NEW b, Leaves(b),
           \A i \in Ids : i # b.id /\ fate[i] = "held" /\ sent[i] = 0 => fate'[i] = "held"
    PROVE  /\ mode' \in Modes /\ batches' \in 0..MaxBatches
           /\ incoming' \in Batch \cup {NilBatch} /\ hand' \in Batch \cup {NilBatch}
           /\ sent' \in [Ids -> Nat]
           /\ HandSound' /\ IncomingSound'
<1>1. /\ b \in Batch /\ b.id \in Ids /\ hand' = NilBatch
      /\ incoming' # NilBatch => incoming' = incoming /\ incoming.id # b.id
    BY LeavingBatch
<1>2. /\ incoming \in Batch \cup {NilBatch} /\ sent \in [Ids -> Nat] /\ batches' = batches
      /\ sent' = [sent EXCEPT ![b.id] = @ + 1] /\ batches \in 0..MaxBatches
    BY DEF Leaves, EmitterInv, EmitterTypes
<1>3. mode' \in Modes \ {"resend"} /\ (mode' = "post" => incoming' # NilBatch)
                               /\ (mode' = "idle" => incoming' = NilBatch)
    BY DEF Leaves, AfterRetry, Modes
<1>4. HandSound'
    BY <1>1, <1>3 DEF HandSound
<1>5. IncomingSound'
    <2> SUFFICES ASSUME incoming' # NilBatch PROVE Fresh(incoming)'
        BY <1>3 DEF IncomingSound
    <2>1. Fresh(incoming) /\ incoming.id \in Ids /\ incoming.id # b.id /\ incoming' = incoming
        BY <1>1, <1>2, BatchFields DEF EmitterInv, IncomingSound
    <2> QED BY <1>2, <2>1 DEF Fresh
<1>6. sent' \in [Ids -> Nat]
    BY <1>1, <1>2
<1> QED BY <1>1, <1>2, <1>3, <1>4, <1>5, <1>6

(* A batch that is delivered or given up.                                  *)
LEMMA SettledKeeps ==
    ASSUME EmitterInv, NEW b, Leaves(b), queue' = queue,
           NEW end \in Settled, fate' = [fate EXCEPT ![b.id] = end]
    PROVE  EmitterInv'
<1>1. /\ b \in Batch /\ b.id \in Ids /\ hand' = NilBatch
      /\ incoming' # NilBatch => incoming' = incoming /\ incoming.id # b.id
      /\ \A k \in 1..Len(queue) : Waits(queue[k]) /\ queue[k].id # b.id
      /\ \A i \in Ids : fate[i] = "held" =>
             InQueue(i) \/ i = b.id \/ (incoming' # NilBatch /\ incoming.id = i)
      /\ fate[b.id] = "held"
    BY LeavingBatch
<1>2. /\ sent' = [sent EXCEPT ![b.id] = @ + 1] /\ batches' = batches
      /\ queue \in Seq(Batch) /\ fate \in [Ids -> {"none", "held"} \cup Settled]
      /\ sent \in [Ids -> Nat] /\ end \notin {"none", "held"}
    BY DEF Leaves, EmitterInv, EmitterTypes, Settled
<1>3. EmitterTypes' /\ HandSound' /\ IncomingSound'
    <2>1. \A i \in Ids : i # b.id /\ fate[i] = "held" /\ sent[i] = 0 => fate'[i] = "held"
        BY <1>1, <1>2
    <2> QED BY <1>1, <1>2, <2>1, AttemptPlaces DEF EmitterTypes
<1>4. QueueSound'
    <2>1. ASSUME NEW k \in 1..Len(queue) PROVE Waits(queue[k])'
        <3>1. queue[k].id \in Ids /\ queue[k].id # b.id /\ Waits(queue[k])
            BY <1>1, <1>2, BatchFields
        <3> QED BY <1>2, <3>1 DEF Waits
    <2> QED BY <1>2, <2>1 DEF EmitterInv, QueueSound
<1>5. ASSUME NEW i \in Ids PROVE BatchSound(i)'
    <2>1. CASE i = b.id
        BY <1>1, <1>2, <2>1 DEF EmitterInv, BatchSound
    <2>2. CASE i # b.id
        <3>1. fate[i] = "held" => Placed(i)'
            BY <1>1, <2>2 DEF Placed, InQueue
        <3> QED BY <1>1, <1>2, <2>2, <3>1 DEF EmitterInv, BatchSound
    <2> QED BY <2>1, <2>2
<1> QED BY <1>3, <1>4, <1>5 DEF EmitterInv

(* A failed batch is put back, and the queue loses its oldest batches, up  *)
(* to number last.                                                         *)
PutBack(b, last) ==
    /\ b.attempts + 1 <= MaxRetries
    /\ queue' \in Seq(Batch) /\ Sorted(queue')
    /\ \A k \in 1..Len(queue') :
           /\ queue'[k].id > last
           /\ \/ queue'[k].id = b.id /\ queue'[k].attempts = b.attempts + 1
              \/ \E j \in 1..Len(queue) : queue'[k] = queue[j]
    /\ \A i \in Ids : i > last /\ (i = b.id \/ InQueue(i)) =>
           \E k \in 1..Len(queue') : queue'[k].id = i
    /\ fate' = [i \in Ids |-> IF i <= last /\ (i = b.id \/ InQueue(i))
                              THEN "evicted" ELSE fate[i]]

LEMMA FailureEffect ==
    ASSUME EmitterInv, NEW b, Leaves(b), NEW outcome, outcome # "ok",
           NEW front \in BOOLEAN, front <=> b = hand, OnFailure(b, outcome, front)
    PROVE  \/ /\ queue' = queue
              /\ fate' = [fate EXCEPT ![b.id] = AfterFailure(b, outcome, front)]
              /\ AfterFailure(b, outcome, front) \in Settled \ {"delivered"}
           \/ \E last \in 0..MaxBatches : PutBack(b, last)
<1> DEFINE end    == AfterFailure(b, outcome, front)
           f      == Failed(b)
           g      == Requeued(queue, f, front)
           n      == Evictions(g, queuedEvents + b.size)
           last   == IF n = 0 THEN 0 ELSE g[n].id
<1>1. b \in Batch /\ queue \in Seq(Batch) /\ Len(queue) \in Nat
    BY LeavingBatch DEF EmitterInv, EmitterTypes
<1>2. CASE end # "held"
    <2>1. fate' = [fate EXCEPT ![b.id] = end] /\ queue' = queue
        BY <1>2 DEF OnFailure, held
    <2>2. end \in Settled \ {"delivered"}
        BY <1>2 DEF AfterFailure, Settled
    <2> QED BY <2>1, <2>2
<1>3. CASE end = "held"
    <2>1. ~GivesUp(b.attempts + 1)
        BY <1>3 DEF AfterFailure
    <2>2. f \in Batch /\ f.id = b.id /\ f.attempts = b.attempts + 1
        BY <1>1, <2>1, FailedBatch
    <2>3. queue' = SubSeq(g, n + 1, Len(g))
        BY <1>3 DEF OnFailure
    <2>4. fate' = [i \in Ids |-> IF \E k \in 1..n : g[k].id = i THEN "evicted" ELSE fate[i]]
        BY <1>3 DEF OnFailure
    <2> HIDE DEF end, f
    <2>5. \A k \in 1..Len(queue) : IF front THEN f.id < queue[k].id ELSE queue[k].id < f.id
        BY <2>2, LeavingBatch
    <2>6. /\ g \in Seq(Batch) /\ Sorted(g)
          /\ \A k \in 1..Len(g) : g[k] = f \/ \E j \in 1..Len(queue) : g[k] = queue[j]
          /\ \A j \in 1..Len(queue) : \E k \in 1..Len(g) : g[k] = queue[j]
          /\ \E k \in 1..Len(g) : g[k] = f
        BY <1>1, <2>2, <2>5, RequeuedSorted DEF EmitterInv, QueueSound
    <2> HIDE DEF g
    <2>7. n \in 0..Len(g)
        BY <2>6, EvictionsIndex
    <2> HIDE DEF n
    <2>8. /\ Len(g) \in Nat /\ n \in Nat /\ n <= Len(g)
          /\ \A k \in 1..Len(g) : g[k] \in Batch /\ g[k].id \in Ids /\ g[k].id \in Nat
        BY <2>6, <2>7, BatchFields
    <2>9. last \in 0..MaxBatches
        BY <2>8, EmitterAssumption DEF Ids
    <2>10. /\ \A k \in 1..n : g[k].id <= last
           /\ \A k \in (n + 1)..Len(g) : g[k].id > last
        <3>1. ASSUME NEW k \in 1..n PROVE g[k].id <= last
            <4>1. n # 0 /\ k \in 1..Len(g) /\ n \in 1..Len(g) /\ last = g[n].id
                BY <2>8
            <4> QED BY <2>6, <2>8, <4>1 DEF Sorted
        <3>2. ASSUME NEW k \in (n + 1)..Len(g) PROVE g[k].id > last
            <4>1. k \in 1..Len(g)
                BY <2>8
            <4>2. CASE n = 0
                BY <2>8, <4>1, <4>2 DEF Ids
            <4>3. CASE n # 0
                <5>1. n \in 1..Len(g) /\ n < k /\ last = g[n].id
                    BY <2>8, <4>3
                <5> QED BY <2>6, <2>8, <4>1, <5>1 DEF Sorted
            <4> QED BY <4>2, <4>3
        <3> QED BY <3>1, <3>2
    <2> HIDE DEF last
    <2>11. /\ queue' \in Seq(Batch) /\ Sorted(queue')
           /\ \A k \in 1..Len(queue') : \E j \in (n + 1)..Len(g) : queue'[k] = g[j]
           /\ \A j \in (n + 1)..Len(g) : \E k \in 1..Len(queue') : queue'[k] = g[j]
        BY <2>3, <2>6, <2>7, CutSorted
    <2>12. ASSUME NEW i \in Ids
           PROVE  (i = b.id \/ InQueue(i)) <=> \E k \in 1..Len(g) : g[k].id = i
        BY <2>2, <2>6 DEF InQueue
    <2>13. ASSUME NEW k \in 1..Len(queue')
           PROVE  /\ queue'[k].id > last
                  /\ \/ queue'[k].id = b.id /\ queue'[k].attempts = b.attempts + 1
                     \/ \E j \in 1..Len(queue) : queue'[k] = queue[j]
        <3>1. PICK j \in (n + 1)..Len(g) : queue'[k] = g[j]
            BY <2>11
        <3>2. j \in 1..Len(g)
            BY <2>8
        <3> QED BY <2>2, <2>6, <2>10, <3>1, <3>2
    <2>14. ASSUME NEW i \in Ids, i > last, i = b.id \/ InQueue(i)
           PROVE  \E k \in 1..Len(queue') : queue'[k].id = i
        <3>1. PICK j \in 1..Len(g) : g[j].id = i
            BY <2>12, <2>14
        <3>2. j \in (n + 1)..Len(g)
            <4>1. ~(j <= n)
                <5> SUFFICES ASSUME j <= n PROVE FALSE
                    OBVIOUS
                <5>1. j \in 1..n
                    BY <2>8
                <5>2. i <= last
                    BY <2>10, <3>1, <5>1
                <5> QED BY <2>9, <2>14, <5>2, EmitterAssumption DEF Ids
            <4> QED BY <2>8, <4>1
        <3> QED BY <2>11, <3>1, <3>2
    <2>15. ASSUME NEW i \in Ids
           PROVE  (\E k \in 1..n : g[k].id = i) <=> (i <= last /\ (i = b.id \/ InQueue(i)))
        <3>1. ASSUME NEW k \in 1..n, g[k].id = i
              PROVE  i <= last /\ \E j \in 1..Len(g) : g[j].id = i
            <4>1. k \in 1..Len(g)
                BY <2>8
            <4> QED BY <2>10, <3>1, <4>1
        <3>2. ASSUME i <= last, NEW k \in 1..Len(g), g[k].id = i PROVE k \in 1..n
            <4>1. ~(k \in (n + 1)..Len(g))
                BY <2>8, <2>9, <2>10, <3>2
            <4> QED BY <2>8, <4>1
        <3> QED BY <2>12, <3>1, <3>2
    <2>16. fate' = [i \in Ids |-> IF i <= last /\ (i = b.id \/ InQueue(i))
                                  THEN "evicted" ELSE fate[i]]
        BY <2>4, <2>15
    <2>17. b.attempts + 1 <= MaxRetries
        BY <2>1, <1>1, BatchFields, EmitterAssumption DEF GivesUp
    <2>18. PutBack(b, last)
        BY <2>11, <2>13, <2>14, <2>16, <2>17 DEF PutBack
    <2> QED BY <2>9, <2>18
<1> QED BY <1>2, <1>3

LEMMA PutBackKeeps ==
    ASSUME EmitterInv, NEW b, Leaves(b), NEW last \in 0..MaxBatches, PutBack(b, last)
    PROVE  EmitterInv'
<1>1. /\ b \in Batch /\ b.id \in Ids /\ hand' = NilBatch
      /\ incoming' # NilBatch => incoming' = incoming /\ incoming.id # b.id
      /\ \A k \in 1..Len(queue) : Waits(queue[k]) /\ queue[k].id # b.id
      /\ \A i \in Ids : fate[i] = "held" =>
             InQueue(i) \/ i = b.id \/ (incoming' # NilBatch /\ incoming.id = i)
      /\ fate[b.id] = "held" /\ sent[b.id] = b.attempts /\ b.attempts \in Nat
    BY LeavingBatch, BatchFields
<1>2. /\ sent' = [sent EXCEPT ![b.id] = @ + 1] /\ batches' = batches
      /\ queue \in Seq(Batch) /\ fate \in [Ids -> {"none", "held"} \cup Settled]
      /\ sent \in [Ids -> Nat] /\ batches \in Nat
    BY EmitterAssumption DEF Leaves, EmitterInv, EmitterTypes
<1>3. /\ queue' \in Seq(Batch) /\ Sorted(queue')
      /\ fate' = [i \in Ids |-> IF i <= last /\ (i = b.id \/ InQueue(i))
                                THEN "evicted" ELSE fate[i]]
    BY DEF PutBack
<1>4. \A i \in Ids : fate[i] = "held" /\ sent[i] = 0 => ~InQueue(i)
    BY <1>1 DEF InQueue, Waits
<1>5. EmitterTypes' /\ HandSound' /\ IncomingSound'
    <2>1. \A i \in Ids : i # b.id /\ fate[i] = "held" /\ sent[i] = 0 => fate'[i] = "held"
        BY <1>3, <1>4
    <2>2. fate' \in [Ids -> {"none", "held"} \cup Settled]
        BY <1>2, <1>3 DEF Settled
    <2> QED BY <1>3, <2>1, <2>2, AttemptPlaces DEF EmitterTypes
<1>6. QueueSound'
    <2>1. ASSUME NEW k \in 1..Len(queue')
          PROVE  /\ fate'[queue'[k].id] = "held" /\ sent'[queue'[k].id] = queue'[k].attempts
                 /\ queue'[k].attempts > 0
        <3> DEFINE c == queue'[k]
        <3>1. c \in Batch /\ c.id \in Ids /\ c.id > last /\ c.id \in Nat
            BY <1>3, BatchFields DEF PutBack
        <3>2. fate'[c.id] = fate[c.id]
            BY <1>3, <3>1
        <3>3. CASE c.id = b.id /\ c.attempts = b.attempts + 1
            BY <1>1, <1>2, <3>2, <3>3
        <3>4. CASE \E j \in 1..Len(queue) : c = queue[j]
            <4> PICK j \in 1..Len(queue) : c = queue[j]
                BY <3>4
            <4>1. c.id # b.id /\ fate[c.id] = "held" /\ sent[c.id] = c.attempts /\ c.attempts > 0
                BY <1>1 DEF Waits
            <4> QED BY <1>1, <1>2, <3>1, <3>2, <4>1
        <3> QED BY <3>3, <3>4 DEF PutBack
    <2> QED BY <1>3, <2>1 DEF QueueSound, Waits
<1>7. ASSUME NEW i \in Ids PROVE BatchSound(i)'
    <2>1. i > last /\ (i = b.id \/ InQueue(i)) => InQueue(i)'
        BY DEF PutBack, InQueue
    <2>2. fate'[i] = "held" => Placed(i)'
        <3> SUFFICES ASSUME fate'[i] = "held" PROVE Placed(i)'
            OBVIOUS
        <3>1. fate[i] = "held" /\ ~(i <= last /\ (i = b.id \/ InQueue(i)))
            BY <1>3
        <3>2. CASE i = b.id \/ InQueue(i)
            BY <2>1, <3>1, <3>2 DEF Placed, Ids
        <3>3. CASE ~(i = b.id \/ InQueue(i))
            BY <1>1, <3>1, <3>3 DEF Placed
        <3> QED BY <3>2, <3>3
    <2>3. fate'[i] = "none" <=> fate[i] = "none"
        <3>1. i = b.id \/ InQueue(i) => fate[i] = "held"
            BY <1>1 DEF InQueue, Waits
        <3> QED BY <1>3, <3>1
    <2>4. i > batches => sent'[i] = 0
        <3>1. i > batches => i # b.id
            BY <1>1 DEF EmitterInv, BatchSound
        <3> QED BY <1>2, <3>1 DEF EmitterInv, BatchSound
    <2> QED BY <1>2, <2>2, <2>3, <2>4 DEF EmitterInv, BatchSound
<1> QED BY <1>5, <1>6, <1>7 DEF EmitterInv

LEMMA AttemptStep ==
    ASSUME EmitterInv, NEW outcome \in Outcomes, Resent(outcome) \/ Posted(outcome)
    PROVE  \E b : /\ Leaves(b)
                  /\ \/ /\ queue' = queue
                        /\ \E end \in Settled : fate' = [fate EXCEPT ![b.id] = end]
                     \/ \E last \in 0..MaxBatches : PutBack(b, last)
<1>1. CASE Resent(outcome)
    <2>1. Leaves(hand) /\ mode = "resend"
        BY <1>1 DEF Resent, Post, Leaves, EmitterInv, HandSound
    <2>2. CASE outcome = "ok"
        <3>1. queue' = queue /\ fate' = [fate EXCEPT ![hand.id] = "delivered"]
            BY <1>1, <2>2 DEF Resent, held
        <3> QED BY <2>1, <3>1 DEF Settled
    <2>3. CASE outcome # "ok"
        <3>1. OnFailure(hand, outcome, TRUE)
            BY <1>1, <2>3 DEF Resent
        <3> QED BY <2>1, <2>3, <3>1, FailureEffect
    <2> QED BY <2>2, <2>3
<1>2. CASE Posted(outcome)
    <2>1. Leaves(incoming) /\ mode = "post"
        BY <1>2 DEF Posted, Post, Leaves, EmitterInv, IncomingSound
    <2>2. incoming # hand
        BY <2>1 DEF Leaves, EmitterInv, HandSound
    <2>3. CASE outcome = "ok"
        <3>1. queue' = queue /\ fate' = [fate EXCEPT ![incoming.id] = "delivered"]
            BY <1>2, <2>3 DEF Posted, held
        <3> QED BY <2>1, <3>1 DEF Settled
    <2>4. CASE outcome # "ok"
        <3>1. OnFailure(incoming, outcome, FALSE)
            BY <1>2, <2>4 DEF Posted
        <3> QED BY <2>1, <2>2, <2>4, <3>1, FailureEffect
    <2> QED BY <2>3, <2>4
<1> QED BY <1>1, <1>2

(* The steps that move no batch.                                           *)
Idling ==
    \/ IdleTurn \/ FinalRetry \/ RetryDone \/ Stop \/ DisableRetry

LEMMA IdlingKeeps == ASSUME EmitterInv, Idling PROVE EmitterInv'
<1>1. /\ incoming' = incoming /\ hand' = hand /\ queue' = queue
      /\ batches' = batches /\ fate' = fate /\ sent' = sent
    BY DEF Idling, IdleTurn, FinalRetry, RetryDone, Stop, DisableRetry, held, thread
<1>2. /\ mode' \in Modes /\ (mode' = "resend" <=> mode = "resend")
      /\ (mode' = "post" => incoming # NilBatch) /\ (mode' = "idle" => incoming = NilBatch)
    BY DEF Idling, IdleTurn, FinalRetry, RetryDone, Stop, DisableRetry, AfterRetry, thread,
           Modes, EmitterInv, EmitterTypes, IncomingSound
<1> QED BY <1>1, <1>2, RestKeeps

LEMMA StepSplits ==
    ASSUME Next
    PROVE  \/ Idling \/ RetryHead \/ Exit
           \/ \E outcome \in Outcomes : Resent(outcome) \/ Posted(outcome)
           \/ \E size \in BatchSizes, next \in Stages : Drain(size, next)
           \/ \E k \in 1..Len(queue) : BackoffElapsed(k)
BY DEF Next, DrainThread, Idling, ShipBatch, FinalShip, Stages

LEMMA StepKeeps == EmitterInv /\ [Next]_vars => EmitterInv'
<1> SUFFICES ASSUME EmitterInv, [Next]_vars PROVE EmitterInv'
    OBVIOUS
<1>1. CASE UNCHANGED vars
    BY <1>1, RestKeeps DEF vars, thread, held, EmitterInv, EmitterTypes, IncomingSound
<1>2. CASE Next
    <2>1. ASSUME NEW outcome \in Outcomes, Resent(outcome) \/ Posted(outcome)
          PROVE  EmitterInv'
        BY <2>1, AttemptStep, SettledKeeps, PutBackKeeps
    <2> QED BY <1>2, <2>1, StepSplits, IdlingKeeps, RetryHeadKeeps, ExitKeeps, DrainKeeps,
               BackoffElapsedKeeps
<1> QED BY <1>1, <1>2

(* A batch the emitter has is in one place, with a count of exactly the    *)
(* attempts that were made for it, and the queue is in drain order.        *)
THEOREM EmitterInvariant == Spec => []EmitterInv
BY InitEstablishes, StepKeeps, PTL DEF Spec
-----------------------------------------------------------------------------
(* The refinement.                                                         *)
LEMMA StateUnseen ==
    ASSUME fate' = fate, sent' = sent PROVE UNCHANGED Promise!vars
BY DEF Promise!vars, StateOf

LEMMA DrainSimulates ==
    ASSUME EmitterInv, NEW size \in BatchSizes, NEW next, Drain(size, next)
    PROVE  Promise!Next
<1> DEFINE new == batches + 1
<1>1. /\ new \in Ids /\ batches' = new /\ batches \in Nat /\ incoming = NilBatch /\ hand = NilBatch
      /\ sent' = sent /\ fate' = [fate EXCEPT ![new] = "held"]
      /\ fate \in [Ids -> {"none", "held"} \cup Settled]
    BY EmitterAssumption
    DEF Drain, EmitterInv, EmitterTypes, IncomingSound, HandSound, Ids
<1> HIDE DEF new
<1>2. \A i \in Ids : fate[i] = "none" <=> i >= new
    BY <1>1, EmitterAssumption DEF EmitterInv, BatchSound, Ids, new
<1>3. \A i \in Ids : fate[i] = "held" => sent[i] > 0
    <2> SUFFICES ASSUME NEW i \in Ids, fate[i] = "held" PROVE sent[i] > 0
        OBVIOUS
    <2>1. InQueue(i)
        BY <1>1 DEF EmitterInv, BatchSound, Placed
    <2> QED BY <2>1 DEF InQueue, EmitterInv, QueueSound, Waits
<1>4. /\ StateOf(new) = "none"
      /\ \A j \in 1..(new - 1) : j \in Ids /\ StateOf(j) # "none"
    BY <1>1, <1>2, EmitterAssumption DEF StateOf, Ids
<1>5. Promise!Held \subseteq Promise!Waiting
    BY <1>3 DEF Promise!Held, Promise!Waiting, Promise!Ids, StateOf, Ids
<1>6. [i \in Ids |-> StateOf(i)]' = [[i \in Ids |-> StateOf(i)] EXCEPT ![new] = "held"]
    BY <1>1 DEF StateOf
<1>7. Promise!Accept(new)
    BY <1>1, <1>4, <1>5, <1>6 DEF Promise!Accept
<1> QED BY <1>1, <1>7 DEF Promise!Next, Promise!Ids, Ids

LEMMA ExitSimulates == ASSUME EmitterInv, Exit PROVE Promise!Next
<1>1. /\ sent' = sent
      /\ fate' = [i \in Ids |-> IF fate[i] = "held" THEN "lost" ELSE fate[i]]
    BY DEF Exit
<1>2. [i \in Ids |-> StateOf(i)]' =
          [i \in Ids |-> IF i \in Promise!Held THEN "dropped" ELSE StateOf(i)]
    BY <1>1 DEF Promise!Held, Promise!Ids, StateOf, Ids
<1> QED BY <1>1, <1>2 DEF Promise!Next, Promise!Lose, Promise!Ids, Ids

(* An attempt is for a batch that is held, the oldest of those that wait   *)
(* or one that did not, and is one of the tries a batch is worth.          *)
LEMMA AttemptIsTry ==
    ASSUME EmitterInv, NEW b, Leaves(b) PROVE Promise!Try(b.id)
<1>1. /\ b \in Batch /\ b.id \in Ids /\ b.id \in Nat /\ b.attempts \in Nat
      /\ b.attempts <= MaxRetries
      /\ fate[b.id] = "held" /\ sent[b.id] = b.attempts
      /\ b = hand => \A k \in 1..Len(queue) : b.id < queue[k].id
      /\ b # hand => b.attempts = 0
      /\ b = hand => b.attempts > 0
      /\ incoming' # NilBatch => incoming' = incoming
      /\ \A i \in Ids : fate[i] = "held" =>
             InQueue(i) \/ i = b.id \/ (incoming' # NilBatch /\ incoming.id = i)
    BY LeavingBatch, BatchFields
<1>2. ASSUME NEW j \in Promise!Waiting, b.id \in Promise!Waiting PROVE b.id <= j
    <2>1. j \in Ids /\ fate[j] = "held" /\ sent[j] > 0 /\ j \in Nat /\ b.attempts > 0
        BY <1>1, <1>2, EmitterAssumption DEF Promise!Waiting, Promise!Held, Promise!Ids, StateOf, Ids
    <2>2. incoming' # NilBatch => incoming.id # j
        BY <1>1, <2>1 DEF EmitterInv, IncomingSound, Fresh
    <2>3. InQueue(j) \/ j = b.id
        BY <1>1, <2>1, <2>2
    <2> QED BY <1>1, <2>1, <2>3 DEF InQueue
<1>3. b.id \in Promise!Held /\ sent[b.id] < MaxRetries + 1
    BY <1>1, EmitterAssumption DEF Promise!Held, Promise!Ids, StateOf, Ids
<1>4. sent' = [sent EXCEPT ![b.id] = @ + 1]
    BY DEF Leaves
<1> QED BY <1>2, <1>3, <1>4 DEF Promise!Try

LEMMA AttemptSimulates ==
    ASSUME EmitterInv, NEW outcome \in Outcomes, Resent(outcome) \/ Posted(outcome)
    PROVE  Promise!Next
<1>1. PICK b : /\ Leaves(b)
               /\ \/ /\ queue' = queue
                     /\ \E end \in Settled : fate' = [fate EXCEPT ![b.id] = end]
                  \/ \E last \in 0..MaxBatches : PutBack(b, last)
    BY AttemptStep
<1>2. /\ b \in Batch /\ b.id \in Ids /\ Promise!Try(b.id)
      /\ fate \in [Ids -> {"none", "held"} \cup Settled] /\ fate[b.id] = "held"
      /\ sent[b.id] = b.attempts /\ sent \in [Ids -> Nat]
    BY <1>1, LeavingBatch, AttemptIsTry DEF EmitterInv, EmitterTypes
<1>3. ASSUME NEW end \in Settled, fate' = [fate EXCEPT ![b.id] = end]
      PROVE  Promise!Next
    <2> DEFINE s == IF end = "delivered" THEN "delivered" ELSE "dropped"
    <2>1. [i \in Ids |-> StateOf(i)]' = [[i \in Ids |-> StateOf(i)] EXCEPT ![b.id] = s]
        BY <1>2, <1>3 DEF StateOf, Settled
    <2>2. Promise!Deliver(b.id) \/ Promise!GiveUp(b.id)
        BY <1>2, <2>1 DEF Promise!Deliver, Promise!GiveUp
    <2> QED BY <1>2, <2>2 DEF Promise!Next, Promise!Ids, Ids
<1>4. ASSUME NEW last \in 0..MaxBatches, PutBack(b, last) PROVE Promise!Next
    <2>1. sent'[b.id] < MaxRetries + 1
        BY <1>1, <1>2, <1>4, BatchFields, EmitterAssumption DEF Leaves, PutBack
    <2>2. ASSUME NEW j \in Ids
          PROVE  j \in Promise!Waiting \union {b.id} <=> j = b.id \/ InQueue(j)
        <3>1. InQueue(j) => fate[j] = "held" /\ sent[j] > 0
            BY DEF InQueue, EmitterInv, QueueSound, Waits
        <3>2. ASSUME fate[j] = "held", sent[j] > 0, j # b.id PROVE InQueue(j)
            <4>1. /\ InQueue(j) \/ j = b.id \/ (incoming' # NilBatch /\ incoming.id = j)
                  /\ incoming' # NilBatch => incoming' = incoming
                BY <1>1, <3>2, LeavingBatch
            <4> QED BY <3>2, <4>1 DEF EmitterInv, IncomingSound, Fresh
        <3> QED BY <3>1, <3>2 DEF Promise!Waiting, Promise!Held, Promise!Ids, StateOf, Ids
    <2>3. fate' = [i \in Ids |-> IF i <= last /\ (i = b.id \/ InQueue(i))
                                 THEN "evicted" ELSE fate[i]]
        BY <1>4 DEF PutBack
    <2>4. [i \in Ids |-> StateOf(i)]' =
              [j \in Ids |-> IF j \in Promise!Waiting \union {b.id} /\ j <= last
                             THEN "dropped" ELSE StateOf(j)]
        BY <2>2, <2>3 DEF StateOf
    <2>5. Promise!Keep(b.id, last)
        BY <1>2, <2>1, <2>4 DEF Promise!Keep, Promise!Ids, Ids
    <2> QED BY <1>2, <2>5 DEF Promise!Next, Promise!Ids, Ids
<1> QED BY <1>1, <1>3, <1>4

(* The retry queue keeps Delivery's promise: a batch is held in one place, *)
(* sent only while it is held, retried oldest first and a bounded number   *)
(* of times, and the batches given up for lack of room are the oldest.     *)
THEOREM DeliveryImplemented == Spec => ImplementsDelivery
<1>1. Init => Promise!Init
    BY DEF Init, Promise!Init, Promise!Ids, StateOf, Ids
<1>2. EmitterInv /\ [Next]_vars => [Promise!Next]_Promise!vars
    <2> SUFFICES ASSUME EmitterInv, [Next]_vars PROVE Promise!Next \/ UNCHANGED Promise!vars
        OBVIOUS
    <2>1. CASE UNCHANGED vars
        BY <2>1, StateUnseen DEF vars
    <2>2. CASE Idling \/ RetryHead \/ \E k \in 1..Len(queue) : BackoffElapsed(k)
        BY <2>2, StateUnseen
        DEF Idling, IdleTurn, FinalRetry, RetryDone, Stop, DisableRetry, RetryHead, BackoffElapsed
    <2> QED BY <2>1, <2>2, StepSplits, DrainSimulates, ExitSimulates, AttemptSimulates
<1> QED BY <1>1, <1>2, EmitterInvariant, PTL DEF Spec, ImplementsDelivery, Promise!Spec
=============================================================================
