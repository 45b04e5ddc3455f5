---------------------------- MODULE IngestPersist ----------------------------
(***************************************************************************)
(* POST /v1/ingest (services/ingest: routers/ingest.py, db/postgres.py)    *)
(* and the SDK that re-sends a batch until it is acknowledged.             *)
(*                                                                         *)
(* A request's handler is a coroutine: it looks the API key up, inserts    *)
(* the policy evaluations, reads which event ids are stored, inserts the   *)
(* others and, when it wrote fewer rows than it was sent, asks whether the *)
(* batch is stored already.  Each step is a database round trip of its     *)
(* own, in no transaction with the others.  The SDK stops waiting after    *)
(* its 5 s timeout, while the handler runs on; it drops a batch that is    *)
(* answered with 401.  A batch is always re-sent whole, so its events are  *)
(* stored together and counted as copies of the batch.                     *)
(***************************************************************************)
EXTENDS Naturals, FiniteSets

CONSTANTS
    Batches,
    HasIds,      \* the batches whose events carry an event_id (newer SDKs)
    HasEvents,   \* those with events of runs in them
    HasEvals,    \* those with policy.evaluated records in them
    KeyLookedUp, \* those whose API key is looked up: neither a trusted
                 \* gateway's nor, in development, a dt_dev_ key's
    Slots,       \* the handlers that can run at a time for one batch
    NoSlot,      \* the SDK waits for no handler
    MaxFaults    \* bound on timeouts, crashes and changes of the database

ASSUME IngestAssumption ==
    /\ HasIds \subseteq HasEvents /\ HasEvents \cup HasEvals = Batches
    /\ KeyLookedUp \subseteq Batches
    /\ NoSlot \notin Slots
    /\ MaxFaults \in Nat

VARIABLES
    client,      \* "hold" (to be sent), "wait", "done" or "dropped"
    current,     \* the handler the SDK is waiting for
    at,          \* where each handler is
    already,     \* the handler found the batch's ids stored
    stored,      \* copies of the batch in events
    evals,       \* copies of its records in policy_evaluations
    overlapped,  \* batches that ever had two handlers at work
    db,          \* "up" or "down"
    faults

sdk  == <<client, current>>
vars == <<client, current, at, already, stored, evals, overlapped, db, faults>>

Handlers == Batches \X Slots
Places   == {"none", "auth", "evals", "check", "insert", "verify", "202", "401", "503"}

(* Some of the batches may have been acknowledged before.                  *)
Init ==
    /\ client \in [Batches -> {"hold", "done"}]
    /\ current = [b \in Batches |-> NoSlot]
    /\ at = [h \in Handlers |-> "none"]
    /\ already = [h \in Handlers |-> FALSE]
    /\ stored = [b \in Batches |-> IF client[b] = "done" /\ b \in HasEvents THEN 1 ELSE 0]
    /\ evals = [b \in Batches |-> 0]
    /\ overlapped = {}
    /\ db \in {"up", "down"}
    /\ faults = 0

Goto(h, place) == at' = [at EXCEPT ![h] = place]
-----------------------------------------------------------------------------
(* The SDK.                                                                *)

(* _persist.                                                               *)
Begin(b) == IF b \in HasEvals THEN "evals" ELSE "check"

Send(b, s) ==
    /\ client[b] = "hold" /\ at[<<b, s>>] = "none"
    /\ client' = [client EXCEPT ![b] = "wait"]
    /\ current' = [current EXCEPT ![b] = s]
    /\ Goto(<<b, s>>, IF b \in KeyLookedUp THEN "auth" ELSE Begin(b))
    /\ already' = [already EXCEPT ![<<b, s>>] = FALSE]
    /\ overlapped' = IF \E t \in Slots : at[<<b, t>>] # "none"
                     THEN overlapped \cup {b} ELSE overlapped
    /\ UNCHANGED <<stored, evals, db, faults>>

(* A read timeout, or an answer that was lost: retryable.                  *)
ClientTimeout(b) ==
    /\ client[b] = "wait" /\ faults < MaxFaults
    /\ faults' = faults + 1
    /\ client' = [client EXCEPT ![b] = "hold"]
    /\ current' = [current EXCEPT ![b] = NoSlot]
    /\ UNCHANGED <<at, already, stored, evals, overlapped, db>>
-----------------------------------------------------------------------------
(* The handler.                                                            *)

(* verify_api_key of a key that is valid: an error of the database reads   *)
(* like a key nobody knows.                                                *)
Authenticate(h) ==
    /\ at[h] = "auth"
    /\ Goto(h, IF db = "up" THEN Begin(h[1]) ELSE "401")
    /\ UNCHANGED <<sdk, already, stored, evals, overlapped, db, faults>>

(* Best-effort: a failure is logged and the handler goes on, or is through *)
(* when there are no events.  There is no deduplication.                   *)
InsertEvals(h) ==
    /\ at[h] = "evals" /\ Goto(h, IF h[1] \in HasEvents THEN "check" ELSE "202")
    /\ evals' = IF db = "up" THEN [evals EXCEPT ![h[1]] = @ + 1] ELSE evals
    /\ UNCHANGED <<sdk, already, stored, overlapped, db, faults>>

(* Mutant: the stored ids are not looked at.                               *)
Check_NoDedup(h) ==
    /\ at[h] = "check" /\ Goto(h, IF db = "up" THEN "insert" ELSE "verify")
    /\ UNCHANGED <<sdk, already, stored, evals, overlapped, db, faults>>

Check(h) ==
    /\ at[h] = "check"
    /\ \/ /\ db = "up" /\ Goto(h, "insert")
          /\ already' = [already EXCEPT ![h] = h[1] \in HasIds /\ stored[h[1]] > 0]
       \/ db = "down" /\ Goto(h, "verify") /\ UNCHANGED already
    /\ UNCHANGED <<sdk, stored, evals, overlapped, db, faults>>

(* executemany commits all rows or none.                                   *)
Insert(h) ==
    /\ at[h] = "insert" /\ ~already[h] /\ db = "up"
    /\ stored' = [stored EXCEPT ![h[1]] = @ + 1]
    /\ Goto(h, "202")
    /\ UNCHANGED <<sdk, already, evals, overlapped, db, faults>>

(* Nothing left to insert, or an exception: insert_events returns 0.       *)
InsertNothing(h) ==
    /\ at[h] = "insert" /\ (already[h] \/ db = "down")
    /\ Goto(h, "verify")
    /\ UNCHANGED <<sdk, already, stored, evals, overlapped, db, faults>>

(* The commit went through and the connection broke: 0 all the same.       *)
InsertUnconfirmed(h) ==
    /\ at[h] = "insert" /\ ~already[h] /\ faults < MaxFaults
    /\ faults' = faults + 1
    /\ stored' = [stored EXCEPT ![h[1]] = @ + 1]
    /\ Goto(h, "verify")
    /\ UNCHANGED <<sdk, already, evals, overlapped, db>>

(* Mutant: fails open.                                                     *)
AlreadyDurable_FailsOpen(b) == b \in HasIds /\ (db = "up" => stored[b] > 0)

(* Mutant: only what this request wrote counts.                            *)
AlreadyDurable_Never(b) == FALSE

(* _batch_already_durable: fails closed.                                   *)
AlreadyDurable(b) == b \in HasIds /\ db = "up" /\ stored[b] > 0

Verify(h) ==
    /\ at[h] = "verify"
    /\ Goto(h, IF AlreadyDurable(h[1]) THEN "202" ELSE "503")
    /\ UNCHANGED <<sdk, already, stored, evals, overlapped, db, faults>>

(* What the SDK does with the batch: only 401 is not worth a retry.        *)
Outcome(answer) ==
    CASE answer = "202" -> "done" [] answer = "401" -> "dropped" [] OTHER -> "hold"

(* The answer, if the SDK still waits for it.                              *)
Reply(h) ==
    /\ at[h] \in {"202", "401", "503"} /\ Goto(h, "none")
    /\ IF client[h[1]] = "wait" /\ current[h[1]] = h[2]
       THEN /\ client' = [client EXCEPT ![h[1]] = Outcome(at[h])]
            /\ current' = [current EXCEPT ![h[1]] = NoSlot]
       ELSE UNCHANGED sdk
    /\ UNCHANGED <<already, stored, evals, overlapped, db, faults>>
-----------------------------------------------------------------------------
(* The service is restarted: every handler is gone, every SDK that waited  *)
(* gets a reset connection.                                                *)
Crash ==
    /\ faults < MaxFaults /\ faults' = faults + 1
    /\ at' = [h \in Handlers |-> "none"]
    /\ client' = [b \in Batches |-> IF client[b] = "wait" THEN "hold" ELSE client[b]]
    /\ current' = [b \in Batches |-> NoSlot]
    /\ UNCHANGED <<already, stored, evals, overlapped, db>>

DatabaseChanges ==
    /\ faults < MaxFaults /\ faults' = faults + 1
    /\ db' = IF db = "up" THEN "down" ELSE "up"
    /\ UNCHANGED <<sdk, at, already, stored, evals, overlapped>>

Handle(h) ==
    \/ Authenticate(h) \/ InsertEvals(h) \/ Check(h) \/ Insert(h) \/ InsertNothing(h)
    \/ Verify(h) \/ Reply(h)

Next ==
    \/ \E b \in Batches : ClientTimeout(b) \/ \E s \in Slots : Send(b, s)
    \/ \E h \in Handlers : Handle(h) \/ InsertUnconfirmed(h)
    \/ Crash \/ DatabaseChanges

(* Handlers run and the durable queue never stops re-sending.              *)
Fairness ==
    /\ \A h \in Handlers : WF_vars(Handle(h))
    /\ \A b \in Batches : WF_vars(\E s \in Slots : Send(b, s))

Spec == Init /\ [][Next]_vars /\ Fairness
-----------------------------------------------------------------------------
(* Beside the types: an SDK waits exactly while a handler is at work for   *)
(* it, or it would wait for its whole timeout.                             *)
IngestTypeOK ==
    /\ client \in [Batches -> {"hold", "wait", "done", "dropped"}]
    /\ current \in [Batches -> Slots \cup {NoSlot}]
    /\ at \in [Handlers -> Places]
    /\ already \in [Handlers -> BOOLEAN]
    /\ stored \in [Batches -> Nat] /\ evals \in [Batches -> Nat]
    /\ overlapped \subseteq Batches
    /\ db \in {"up", "down"} /\ faults \in 0..MaxFaults
    /\ \A b \in Batches :
           IF client[b] = "wait"
           THEN current[b] \in Slots /\ at[<<b, current[b]>>] # "none"
           ELSE current[b] = NoSlot

(* "202 is a promise: the batch is committed before the response is sent." *)
(* Whatever fails, a batch of events that is answered with 202, in flight  *)
(* or received, is stored; and an SDK lets go of a batch that is not only  *)
(* when its key had to be looked up.                                       *)
PromiseKept ==
    /\ \A b \in HasEvents :
          client[b] = "done" \/ (\E s \in Slots : at[<<b, s>>] = "202") => stored[b] > 0
    /\ \A b \in HasEvents \ KeyLookedUp : client[b] = "dropped" => stored[b] > 0

(* The deduplication by event_id holds against lost answers, outages and   *)
(* crashes: a second copy needs two handlers of the batch at work at once. *)
OneCopyUnlessOverlapped ==
    \A b \in HasIds \ overlapped : stored[b] =< 1

Settled(b) == {"done"} \cup (IF b \in KeyLookedUp THEN {"dropped"} ELSE {})

(* A batch that is stored already, or can be, is not refused for ever,     *)
(* which would wedge everything queued behind it: in the end it is         *)
(* acknowledged, or dropped because its key could not be looked up.        *)
BatchAccepted ==
    \A b \in Batches :
        <>[](db = "up") => <>(client[b] \in Settled(b))

(* The docstring of ingest: "a batch that cannot be written comes back as  *)
(* 503 + Retry-After, and the SDK keeps (and re-sends) it".                *)
UnwrittenKept == \A b \in HasEvents : client[b] = "dropped" => stored[b] > 0

(* "Drop events whose client-generated event_id was already ingested":     *)
(* "sequential retries from one SDK don't race" (db/postgres.py).          *)
StoredOnce == \A b \in HasIds : stored[b] =< 1
=============================================================================
