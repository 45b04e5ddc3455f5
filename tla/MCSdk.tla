------------------------------- MODULE MCSdk --------------------------------
(* The buffers and the shared queue file of the SDKs, side by side: the      *)
(* buffer under arbitrary callers, agent threads over it, two processes of   *)
(* different builds on one queue file, and the TypeScript SDK.               *)
EXTENDS SdkRuns, DurableQueue, TLC

VARIABLES
    machine,      \* the machine that runs
    buffer, run, tsEmitted, reported, tasks, queue, tsDue, arrived, refused, stage, late,
    tsFaults, intervals

tsVars  == <<buffer, run, tsEmitted, reported, tasks, queue, tsDue, arrived, refused, stage,
             late, tsFaults, intervals>>
allVars == <<machine, sdkVars, queueVars, tsVars>>

(* One drop record only, and arbitrary callers.                              *)
Small == INSTANCE RingBuffer WITH MaxShedRuns <- 1, MaxPushes <- 4

(* Two runs, a durable queue of two batches, two ships at once, one fault.    *)
Ts == INSTANCE TsSdk
    WITH Runs <- {"a", "b"}, DrainSize <- 1, Durable <- TRUE, MaxQueue <- 2, RoundSize <- 2,
         MaxEvents <- 2, MaxTasks <- 2, MaxFaults <- 1, MaxIntervals <- 1, emitted <- tsEmitted,
         due <- tsDue, faults <- tsFaults

ASSUME Ts!TsBufferAssumption /\ Ts!TsSdkAssumption

(* The machine that does not run rests in one of its initial states.         *)
GroupInit ==
    /\ machine \in {"buffer", "runs", "file", "ts"}
    /\ SdkInit
    /\ QueueInit
    /\ Ts!Init
    /\ machine # "file" => backend = "up"

GroupNext ==
    \/ machine = "buffer" /\ Small!Next /\ UNCHANGED <<machine, runVars, queueVars, tsVars>>
    \/ machine = "runs" /\ SdkNext   /\ UNCHANGED <<machine, queueVars, tsVars>>
    \/ machine = "file" /\ QueueNext /\ UNCHANGED <<machine, sdkVars, tsVars>>
    \/ machine = "ts"   /\ Ts!Next   /\ UNCHANGED <<machine, sdkVars, queueVars>>

GroupSpec == GroupInit /\ [][GroupNext]_allVars

(* The property of the instance, as its module states it.                    *)
TsRunsAccounted == Ts!TsRunsAccounted

RunSymmetry == Permutations(Runs)
=============================================================================
