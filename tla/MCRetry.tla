------------------------------- MODULE MCRetry -------------------------------
(* The two emitters that retry, side by side: the initial state says        *)
(* whether the behaviour is one of the queue in memory (HttpEmitter, whose  *)
(* constants the cfg gives), or of the durable queue of a process that has  *)
(* the file to itself.                                                      *)
EXTENDS HttpEmitter

VARIABLES
    machine,
    pc, dbOk, due, given, rows, deleted, lock, disk, made, owner, size, end, gone,
    received, backend, faults

durable   == <<pc, dbOk, due, given, rows, deleted, lock, disk, made, owner, size, end,
               gone, received, backend, faults>>
retryVars == <<machine, vars, durable>>

(* Outages, a crash, a restart, a file that may be unwritable.              *)
Own == INSTANCE DurableQueue
    WITH Procs <- {"p"}, NewSchema <- {}, Unwritable <- {"p"}, Free <- "free",
         MaxBatches <- 3, Sizes <- {1, 2}, MaxQueueEvents <- 2, MaxQueueBytes <- 3,
         MaxPerRetry <- 2, MaxReceived <- 4, MaxCrashes <- 1, MaxFailures <- 1,
         incoming <- given, batches <- made, fate <- end

ASSUME Own!QueueAssumption

(* The machine that does not run rests in one of its initial states.        *)
RetryInit ==
    /\ machine \in {"http", "durable"}
    /\ Init /\ Own!QueueInit
    /\ machine = "http" => dbOk["p"] /\ backend = "up"

RetryNext ==
    \/ machine = "http"    /\ Next /\ UNCHANGED <<machine, durable>>
    \/ machine = "durable" /\ Own!QueueNext  /\ UNCHANGED <<machine, vars>>

(* The fairness of each specification, for the machine that runs.           *)
RetryFairness ==
    /\ WF_vars(machine = "http" /\ DrainThread)
    /\ \A k \in 1..MaxBatches :
           WF_vars(machine = "http" /\ k <= Len(queue) /\ BackoffElapsed(k))
    /\ WF_durable(machine = "durable" /\ Own!DrainThread("p"))
    /\ WF_durable(machine = "durable" /\ Own!Elapse("p"))
    /\ WF_durable(machine = "durable" /\ Own!Restart("p"))

RetrySpec == RetryInit /\ [][RetryNext]_retryVars /\ RetryFairness

(* Of the durable queue, as its module states them; ImplementsDelivery and  *)
(* HeldSettles are HttpEmitter's own.                                       *)
DuplicateNeedsFault == Own!DuplicateNeedsFault
BacklogDrains       == Own!BacklogDrains
=============================================================================
