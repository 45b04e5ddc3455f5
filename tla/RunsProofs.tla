----------------------------- MODULE RunsProofs -----------------------------
(* Proofs about the detector's and the alert worker's handling of a run.   *)
(*                                                                         *)
(* RunProcessing: a run is signalled at most once for each type, and       *)
(* completely, for any runs and types, any concurrency and any number of   *)
(* late events, failures and crashes.                                      *)
(*                                                                         *)
(* Alerts, for any signals, groups, replicas and timeouts: a signal is     *)
(* sent again only after a poll died, provided that a poll ends before its *)
(* claims expire; and no group is alerted twice within its window while    *)
(* polls neither overlap nor fail.                                         *)
EXTENDS RunProcessing, Alerts, FiniteSetTheorems, TLAPS

Job == [found: SUBSET Types, existing: SUBSET Types, todo: SUBSET Types,
        seen: Nat, reprocess: BOOLEAN, incomplete: BOOLEAN]

(* The parts of the types the argument needs.                              *)
RunTypes ==
    /\ fires \in [Runs -> SUBSET Types] /\ count \in [Runs -> Nat]
    /\ processed \in [Runs -> [done: BOOLEAN, count: Nat, failed: BOOLEAN]]
    /\ signals \in [Runs -> [Types -> Nat]]
    /\ pc \in [Runs -> Places] /\ job \in [Runs -> Job]

Signalled(r, t) == signals[r][t] > 0

(* What an attempt still has to write is not there yet, everything else it *)
(* found is, and it found what the run fires unless events came later.     *)
AttemptSound(r) ==
    /\ pc[r] = "write" => \A t \in job[r].todo : ~ Signalled(r, t)
    /\ pc[r] # "idle" =>
          /\ job[r].seen <= count[r]
          /\ job[r].seen = count[r] => job[r].found = fires[r]
          /\ \A t \in job[r].found :
                Signalled(r, t) \/ (pc[r] = "write" /\ t \in job[r].todo)

(* What is marked as processed was read no later than it is stored, and is *)
(* signalled in full if nothing was stored since.                          *)
MarkSound(r) ==
    /\ processed[r].count <= count[r]
    /\ /\ processed[r].done /\ ~ processed[r].failed
       /\ processed[r].count = count[r]
       => \A t \in fires[r] : Signalled(r, t)

OneEach(r) == \A t \in Types : signals[r][t] <= 1

Sound(r) == AttemptSound(r) /\ MarkSound(r) /\ OneEach(r)

RunsInv == RunTypes /\ \A r \in Runs : Sound(r)
-----------------------------------------------------------------------------
LEMMA RunsInitEstablishes == Init => RunsInv
<1> SUFFICES ASSUME Init PROVE RunsInv
    OBVIOUS
<1>1. RunTypes
    BY DEF Init, RunTypes, NoJob, Job, Places
<1>2. ASSUME NEW r \in Runs PROVE Sound(r)
    BY <1>2 DEF Init, Sound, AttemptSound, MarkSound, OneEach, Signalled
<1> QED BY <1>1, <1>2 DEF RunsInv

LEMMA NoJobTyped == NoJob \in Job
BY DEF NoJob, Job

(* A step that touches at most one run.                                    *)
LEMMA OneRunSteps ==
    ASSUME RunsInv, NEW r, RunTypes', r \in Runs => Sound(r)',
           \A s \in Runs \ {r} :
               /\ fires'[s] = fires[s] /\ count'[s] = count[s]
               /\ processed'[s] = processed[s] /\ signals'[s] = signals[s]
               /\ pc'[s] = pc[s] /\ job'[s] = job[s]
    PROVE  RunsInv'
<1>1. ASSUME NEW s \in Runs \ {r} PROVE Sound(s)'
    BY <1>1 DEF RunsInv, Sound, AttemptSound, MarkSound, OneEach, Signalled
<1> QED BY <1>1 DEF RunsInv

LEMMA RunsRestKeeps ==
    ASSUME RunsInv, UNCHANGED <<fires, count, processed, signals, pc, job>>
    PROVE  RunsInv'
BY DEF RunsInv, RunTypes, Sound, AttemptSound, MarkSound, OneEach, Signalled

(* The attempt of a run goes on to a later place, or is over.              *)
LEMMA LeavingKeeps ==
    ASSUME RunsInv, NEW r \in Runs, NEW place \in Places \ {"write"},
           UNCHANGED <<fires, count, processed, signals>>, Goto(r, place),
           \/ place = "idle" /\ job' = [job EXCEPT ![r] = NoJob]
           \/ UNCHANGED job /\ pc[r] # "idle" /\ (pc[r] = "write" => job[r].todo = {})
    PROVE  RunsInv'
<1>1. RunTypes'
    BY NoJobTyped DEF RunsInv, RunTypes, Goto
<1>2. pc'[r] = place /\ \A s \in Runs \ {r} : pc'[s] = pc[s] /\ job'[s] = job[s]
    BY DEF RunsInv, RunTypes, Goto
<1>3. Sound(r)'
    BY <1>2 DEF RunsInv, Sound, AttemptSound, MarkSound, OneEach, Signalled
<1> QED BY <1>1, <1>2, <1>3, OneRunSteps

LEMMA LateEventKeeps ==
    ASSUME RunsInv, NEW r \in Runs, LateEvent(r)
    PROVE  RunsInv'
<1>1. PICK S \in SUBSET Types : fires' = [fires EXCEPT ![r] = S]
    BY DEF LateEvent
<1>2. /\ count' = [count EXCEPT ![r] = @ + 1]
      /\ UNCHANGED <<processed, signals, pc, job>>
    BY DEF LateEvent, tables
<1>3. RunTypes'
    BY <1>1, <1>2 DEF RunsInv, RunTypes
<1>4. count[r] \in Nat /\ job[r].seen \in Nat /\ processed[r].count \in Nat
    BY DEF RunsInv, RunTypes, Job
<1>5. count'[r] = count[r] + 1
    BY <1>2 DEF RunsInv, RunTypes
<1>6. Sound(r)'
    BY <1>2, <1>4, <1>5 DEF RunsInv, Sound, AttemptSound, MarkSound, OneEach, Signalled
<1> QED BY <1>1, <1>2, <1>3, <1>6, OneRunSteps DEF RunsInv, RunTypes

(* What is to be written is what the run fires and has no signal of.       *)
LEMMA BeginKeeps ==
    ASSUME RunsInv, NEW r \in Runs, Begin(r)
    PROVE  RunsInv'
<1> DEFINE new == [found |-> fires[r], existing |-> Existing(r),
                   todo |-> fires[r] \ Existing(r), seen |-> count[r],
                   reprocess |-> processed[r].done,
                   incomplete |-> terminal[r] = "cut"]
<1>1. /\ job' = [job EXCEPT ![r] = new] /\ pc' = [pc EXCEPT ![r] = "write"]
      /\ UNCHANGED <<fires, count, processed, signals>>
    BY DEF Begin, Goto, input, tables
<1>2. new \in Job
    BY DEF RunsInv, RunTypes, Existing, Job
<1>3. RunTypes'
    BY <1>1, <1>2 DEF RunsInv, RunTypes, Places
<1>4. /\ job'[r].found = fires[r] /\ job'[r].seen = count[r]
      /\ job'[r].todo = fires[r] \ Existing(r) /\ pc'[r] = "write"
    BY <1>1 DEF RunsInv, RunTypes
<1>5. \A t \in fires[r] : t \in Existing(r) <=> Signalled(r, t)
    BY DEF Existing, Signalled, RunsInv, RunTypes
<1>6. Sound(r)'
    BY <1>1, <1>4, <1>5 DEF RunsInv, RunTypes, Sound, AttemptSound, MarkSound, OneEach, Signalled
<1> QED BY <1>1, <1>3, <1>6, OneRunSteps DEF RunsInv, RunTypes

LEMMA WriteSignalKeeps ==
    ASSUME RunsInv, NEW r \in Runs, NEW t \in Types, WriteSignal(r, t)
    PROVE  RunsInv'
<1>1. /\ signals' = [s \in Runs |-> [u \in Types |->
              IF s = r /\ u = t THEN signals[s][u] + 1 ELSE signals[s][u]]]
      /\ job' = [s \in Runs |->
              IF s = r THEN [job[s] EXCEPT !.todo = @ \ {t}] ELSE job[s]]
      /\ UNCHANGED <<fires, count, processed, pc>>
    BY DEF WriteSignal, RunsInv, RunTypes, input
<1>2. job[r] \in Job /\ \A u \in Types : signals[r][u] \in Nat
    BY DEF RunsInv, RunTypes
<1>3. [job[r] EXCEPT !.todo = @ \ {t}] \in Job
    BY <1>2 DEF Job
<1>4. RunTypes'
    <2>1. signals' \in [Runs -> [Types -> Nat]]
        BY <1>1, <1>2 DEF RunsInv, RunTypes
    <2>2. job' \in [Runs -> Job]
        BY <1>1, <1>3 DEF RunsInv, RunTypes
    <2> QED BY <1>1, <2>1, <2>2 DEF RunsInv, RunTypes
<1>5. /\ job'[r].found = job[r].found /\ job'[r].seen = job[r].seen
      /\ job'[r].todo = job[r].todo \ {t} /\ job[r].found \subseteq Types
      /\ job[r].todo \subseteq Types
    BY <1>1, <1>2 DEF Job
<1>6. signals[r][t] = 0
    BY <1>2 DEF WriteSignal, RunsInv, Sound, AttemptSound, Signalled
<1>7. \A u \in Types : signals'[r][u] = IF u = t THEN 1 ELSE signals[r][u]
    BY <1>1, <1>6
<1>8. OneEach(r)'
    BY <1>7 DEF RunsInv, Sound, OneEach
<1>9. MarkSound(r)'
    BY <1>1, <1>7 DEF RunsInv, RunTypes, Sound, MarkSound, Signalled
<1>10. AttemptSound(r)'
    <2>1. pc'[r] = "write" /\ pc[r] = "write" /\ count' = count /\ fires' = fires
        BY <1>1 DEF WriteSignal
    <2>2. \A u \in job'[r].todo : ~ Signalled(r, u)'
        BY <1>5, <1>7, <2>1 DEF RunsInv, Sound, AttemptSound, Signalled
    <2>3. \A u \in job'[r].found : Signalled(r, u)' \/ u \in job'[r].todo
        BY <1>5, <1>7, <2>1 DEF RunsInv, Sound, AttemptSound, Signalled
    <2> QED BY <1>5, <2>1, <2>2, <2>3 DEF RunsInv, Sound, AttemptSound
<1>11. Sound(r)'
    BY <1>8, <1>9, <1>10 DEF Sound
<1>12. \A s \in Runs \ {r} : signals'[s] = signals[s] /\ job'[s] = job[s]
    <2>1. signals' = [signals EXCEPT ![r][t] = @ + 1]
        BY DEF WriteSignal
    <2> QED BY <1>1, <2>1 DEF RunsInv, RunTypes
<1> QED BY <1>1, <1>4, <1>11, <1>12, OneRunSteps

(* A run is marked after everything it found was written; a run that is    *)
(* given up is marked as failed.                                           *)
LEMMA MarkKeeps ==
    ASSUME RunsInv, NEW r \in Runs, MarkProcessed(r)
    PROVE  RunsInv'
<1>1. /\ processed' = [processed EXCEPT ![r] =
              [done |-> TRUE, count |-> job[r].seen, failed |-> FALSE]]
      /\ pc' = [pc EXCEPT ![r] = "clear"] /\ pc[r] = "mark"
      /\ UNCHANGED <<fires, count, signals, job>>
    BY DEF MarkProcessed, Record, Goto, input
<1>2. job[r].seen \in Nat
    BY DEF RunsInv, RunTypes, Job
<1>3. RunTypes'
    BY <1>1, <1>2 DEF RunsInv, RunTypes, Places
<1>4. pc'[r] = "clear" /\ processed'[r] = [done |-> TRUE, count |-> job[r].seen, failed |-> FALSE]
    BY <1>1 DEF RunsInv, RunTypes
<1>5. Sound(r)'
    BY <1>1, <1>4 DEF RunsInv, Sound, AttemptSound, MarkSound, OneEach, Signalled
<1>6. ASSUME NEW s \in Runs \ {r}
      PROVE  /\ fires'[s] = fires[s] /\ count'[s] = count[s]
             /\ processed'[s] = processed[s] /\ signals'[s] = signals[s]
             /\ pc'[s] = pc[s] /\ job'[s] = job[s]
    BY <1>1 DEF RunsInv, RunTypes
<1> QED BY <1>3, <1>5, <1>6, OneRunSteps

LEMMA HandleFailureKeeps ==
    ASSUME RunsInv, NEW r \in Runs, HandleFailure(r)
    PROVE  RunsInv'
<1>1. /\ pc' = [pc EXCEPT ![r] = "idle"] /\ job' = [job EXCEPT ![r] = NoJob]
      /\ pc[r] # "idle" /\ UNCHANGED <<fires, count, signals>>
      /\ \/ UNCHANGED processed
         \/ processed' = [processed EXCEPT ![r] =
                [done |-> TRUE, count |-> job[r].seen, failed |-> TRUE]]
    BY DEF HandleFailure, Leave, Goto, Record, input
<1>2. job[r].seen \in Nat
    BY DEF RunsInv, RunTypes, Job
<1>3. RunTypes'
    <2>1. processed' \in [Runs -> [done: BOOLEAN, count: Nat, failed: BOOLEAN]]
        <3>1. CASE UNCHANGED processed
            BY <3>1 DEF RunsInv, RunTypes
        <3>2. CASE processed' = [processed EXCEPT ![r] =
                      [done |-> TRUE, count |-> job[r].seen, failed |-> TRUE]]
            BY <1>2, <3>2 DEF RunsInv, RunTypes
        <3> QED BY <1>1, <3>1, <3>2
    <2> QED BY <1>1, <2>1, NoJobTyped DEF RunsInv, RunTypes, Places
<1>4. /\ pc'[r] = "idle"
      /\ \/ processed'[r] = processed[r]
         \/ processed'[r] = [done |-> TRUE, count |-> job[r].seen, failed |-> TRUE]
    BY <1>1 DEF RunsInv, RunTypes
<1>5. Sound(r)'
    BY <1>1, <1>4 DEF RunsInv, Sound, AttemptSound, MarkSound, OneEach, Signalled
<1>6. ASSUME NEW s \in Runs \ {r}
      PROVE  /\ fires'[s] = fires[s] /\ count'[s] = count[s]
             /\ processed'[s] = processed[s] /\ signals'[s] = signals[s]
             /\ pc'[s] = pc[s] /\ job'[s] = job[s]
    BY <1>1 DEF RunsInv, RunTypes
<1> QED BY <1>3, <1>5, <1>6, OneRunSteps

LEMMA CrashKeeps ==
    ASSUME RunsInv, Crash
    PROVE  RunsInv'
<1>1. /\ pc' = [r \in Runs |-> "idle"] /\ job' = [r \in Runs |-> NoJob]
      /\ UNCHANGED <<fires, count, processed, signals>>
    BY DEF Crash, input, tables
<1>2. RunTypes'
    BY <1>1 DEF RunsInv, RunTypes, NoJob, Job, Places
<1>3. ASSUME NEW r \in Runs PROVE Sound(r)'
    BY <1>1, <1>3 DEF RunsInv, Sound, AttemptSound, MarkSound, OneEach, Signalled
<1> QED BY <1>2, <1>3 DEF RunsInv
-----------------------------------------------------------------------------
LEMMA RunsStepKeeps == RunsInv /\ [Next]_vars => RunsInv'
<1> SUFFICES ASSUME RunsInv, [Next]_vars PROVE RunsInv'
    OBVIOUS
<1>1. ASSUME NEW r \in Runs, Begin(r) \/ LateEvent(r) \/ MarkProcessed(r) \/ HandleFailure(r)
      PROVE  RunsInv'
    BY <1>1, BeginKeeps, LateEventKeeps, MarkKeeps, HandleFailureKeeps
<1>2. ASSUME NEW r \in Runs, NEW t \in Types, WriteSignal(r, t) PROVE RunsInv'
    BY <1>2, WriteSignalKeeps
<1>3. ASSUME NEW r \in Runs, UpsertFired(r) PROVE RunsInv'
    <2>1. /\ UNCHANGED <<fires, count, processed, signals, job>> /\ Goto(r, "clean")
          /\ pc[r] = "write" /\ job[r].todo = {}
        BY <1>3 DEF UpsertFired, SignalsWritten, input
    <2> QED BY <2>1, LeavingKeeps DEF Places
<1>4. ASSUME NEW r \in Runs, AdvanceClean(r) PROVE RunsInv'
    <2>1. /\ UNCHANGED <<fires, count, processed, signals, job>> /\ Goto(r, "side")
          /\ pc[r] = "clean"
        BY <1>4 DEF AdvanceClean, input
    <2> QED BY <2>1, LeavingKeeps DEF Places
<1>5. ASSUME NEW r \in Runs, IssuesFail(r) PROVE RunsInv'
    <2>1. /\ UNCHANGED <<fires, count, processed, signals, job>> /\ Goto(r, "side")
          /\ pc[r] = "clean" \/ (pc[r] = "write" /\ job[r].todo = {})
        BY <1>5 DEF IssuesFail, SignalsWritten, input, tables
    <2> QED BY <2>1, LeavingKeeps DEF Places
<1>6. ASSUME NEW r \in Runs, NEW g \in BOOLEAN, NEW e \in BOOLEAN, SideSteps(r, g, e)
      PROVE  RunsInv'
    <2>1. /\ UNCHANGED <<fires, count, processed, signals, job>> /\ Goto(r, "mark")
          /\ pc[r] = "side"
        BY <1>6 DEF SideSteps, input
    <2> QED BY <2>1, LeavingKeeps DEF Places
<1>7. ASSUME NEW r \in Runs, Finish(r) \/ Escape(r) PROVE RunsInv'
    <2>1. /\ UNCHANGED <<fires, count, processed, signals>> /\ Goto(r, "idle")
          /\ job' = [job EXCEPT ![r] = NoJob]
        BY <1>7 DEF Finish, Escape, Leave, input
    <2> QED BY <2>1, LeavingKeeps DEF Places
<1>8. CASE Crash
    BY <1>8, CrashKeeps
<1>9. ASSUME NEW t \in Types, ResolveManually(t) PROVE RunsInv'
    BY <1>9, RunsRestKeeps DEF ResolveManually, input
<1>10. CASE UNCHANGED vars
    BY <1>10, RunsRestKeeps DEF vars, input, tables
<1> QED BY <1>1, <1>2, <1>3, <1>4, <1>5, <1>6, <1>7, <1>8, <1>9, <1>10 DEF Next

(* The strengthened invariant holds in every reachable state.              *)
THEOREM RunsInvariant == Spec => []RunsInv
BY RunsInitEstablishes, RunsStepKeeps, PTL DEF Spec

(* No run has two signals of one type: process_run writes the types it did *)
(* not find in fetch_existing_signal_types when the attempt began.         *)
THEOREM OneSignalHolds == Spec => []OneSignalPerType
<1>1. RunsInv => OneSignalPerType
    BY DEF RunsInv, Sound, OneEach, OneSignalPerType
<1> QED BY <1>1, RunsInvariant, PTL

(* A run that rests as processed, and was not given up, has a signal of    *)
(* every type its events give rise to, the late ones included:             *)
(* mark_run_processed records the count of the events the attempt read.    *)
THEOREM DetectionCompleteHolds == Spec => []DetectionComplete
<1>1. RunsInv => DetectionComplete
    <2> SUFFICES ASSUME RunsInv, NEW r \in Runs, Rests(r), ~ processed[r].failed,
                        terminal[r] # "none" \/ count[r] = processed[r].count,
                        NEW t \in fires[r]
                 PROVE  signals[r][t] > 0
        BY DEF DetectionComplete
    <2>1. count[r] = processed[r].count \/ ~ (count[r] > processed[r].count)
        BY DEF Rests, Pending
    <2>2. processed[r].count <= count[r] /\ count[r] \in Nat /\ processed[r].count \in Nat
        BY DEF RunsInv, RunTypes, Sound, MarkSound
    <2>3. processed[r].count = count[r]
        BY <2>1, <2>2
    <2>4. processed[r].done
        BY DEF Rests
    <2> QED BY <2>3, <2>4 DEF RunsInv, Sound, MarkSound, Signalled
<1> QED BY <1>1, RunsInvariant, PTL
-----------------------------------------------------------------------------
(* The counts of an issue.  A run is due for a type from the moment its    *)
(* signal may be written until upsert_fired_issues counts it.              *)
Due(r, t) == pc[r] = "write" /\ t \in Fired(r)

Counted(t) == {r \in SignalledRuns(t) : ~ Due(r, t)}

IssueTypes ==
    /\ held \in [Runs -> SUBSET Types]
    /\ issues \in [Types -> [status: Statuses, affected: Nat, clean: Nat]]
    /\ cleanRuns \in [Types -> SUBSET Runs]

(* What an attempt has to write is new, and what it wrote of a run it      *)
(* takes for whole is live.                                                *)
TodoNew(r) ==
    pc[r] = "write" =>
        /\ job[r].todo \subseteq job[r].found \ job[r].existing
        /\ job[r].incomplete \/ held[r] \cap (job[r].found \ job[r].existing) \subseteq job[r].todo

(* The signal is there, and not held in shadow.                            *)
LiveRow(r, t) == Signalled(r, t) /\ t \notin held[r]

(* An issue counts runs that carry its signal, and there is none of a type *)
(* in shadow.                                                              *)
AffectedSound(t) ==
    /\ issues[t].affected <= Cardinality(Counted(t))
    /\ ~ failed /\ t \in Live => issues[t].affected = Cardinality(Counted(t))
    /\ t \notin Live => issues[t].status = "none" /\ cleanRuns[t] = {}

(* While nothing failed, the first attempt at a run that is not processed  *)
(* found no signal of it, and is under way as long as there is one.        *)
FirstAttempt(r) ==
    /\ pc[r] = "clear" => processed[r].done
    /\ pc[r] \in {"write", "clean"} /\ ~ job[r].reprocess => ~ processed[r].done
    /\ ~ processed[r].done =>
          \A t \in Types : Signalled(r, t) => pc[r] # "idle" /\ t \in job[r].found
    /\ ~ processed[r].done /\ pc[r] # "idle" =>
          ~ job[r].reprocess /\ job[r].existing = {}

(* A run counted as clean is past that step, by an attempt that took it    *)
(* for whole, and if it carries a live signal by now it is about to reset  *)
(* the count.                                                              *)
CleanSound(t) ==
    /\ issues[t].clean = Cardinality(cleanRuns[t])
    /\ \A r \in cleanRuns[t] :
          /\ processed[r].done \/ (pc[r] \in {"side", "mark"} /\ ~ job[r].incomplete)
          /\ LiveRow(r, t) => Due(r, t)

CalmSound == ~ failed => /\ \A r \in Runs : FirstAttempt(r)
                    /\ \A t \in Types : CleanSound(t)

CountInv ==
    /\ IssueTypes /\ CalmSound
    /\ \A r \in Runs : TodoNew(r)
    /\ \A t \in Types : AffectedSound(t)

LEMMA CountedFinite ==
    ASSUME NEW t \in Types
    PROVE  IsFiniteSet(Counted(t)) /\ Cardinality(Counted(t)) \in Nat
<1>1. IsFiniteSet(Runs)
    BY ProcessingAssumption
<1>2. Counted(t) \subseteq Runs
    BY DEF Counted, SignalledRuns
<1> QED BY <1>1, <1>2, FS_Subset, FS_CardinalityType

LEMMA CountInit == Init => CountInv
<1> SUFFICES ASSUME Init PROVE CountInv
    OBVIOUS
<1>1. IssueTypes
    BY ProcessingAssumption DEF Init, IssueTypes, Statuses
<1>2. ASSUME NEW r \in Runs PROVE TodoNew(r) /\ FirstAttempt(r)
    BY <1>2 DEF Init, TodoNew, FirstAttempt, Signalled
<1>3. ASSUME NEW t \in Types PROVE AffectedSound(t) /\ CleanSound(t)
    <2>1. Counted(t) = {} /\ cleanRuns[t] = {}
        BY <1>3 DEF Init, Counted, SignalledRuns
    <2>2. issues[t] = [status |-> "none", affected |-> 0, clean |-> 0]
        BY <1>3 DEF Init
    <2> QED BY <2>1, <2>2, FS_EmptySet DEF AffectedSound, CleanSound
<1> QED BY <1>1, <1>2, <1>3 DEF CountInv, CalmSound

LEMMA CountsRest ==
    ASSUME CountInv,
           UNCHANGED <<pc, job, signals, held, issues, cleanRuns, processed, failed>>
    PROVE  CountInv'
<1>1. \A t \in Types : Counted(t)' = Counted(t)
    BY DEF Counted, SignalledRuns, Due, Fired
<1>2. \A r \in Runs, t \in Types : Due(r, t)' = Due(r, t)
    BY DEF Due, Fired
<1>3. IssueTypes' /\ (\A r \in Runs : TodoNew(r)')
    BY DEF CountInv, IssueTypes, TodoNew
<1>4. \A t \in Types : AffectedSound(t)'
    BY <1>1 DEF CountInv, AffectedSound
<1>5. CalmSound'
    BY <1>2 DEF CountInv, IssueTypes, CalmSound, FirstAttempt, CleanSound, Signalled, LiveRow
<1> QED BY <1>3, <1>4, <1>5 DEF CountInv

(* A failed write or a crash: nothing is counted, and who was about to be  *)
(* counted no longer is.                                                   *)
LEMMA CountsAfterFault ==
    ASSUME CountInv, UNCHANGED <<signals, held, issues, cleanRuns>>, failed' = TRUE,
           \A s \in Runs : pc'[s] # "write" \/ (pc'[s] = pc[s] /\ job'[s] = job[s])
    PROVE  CountInv'
<1>1. IssueTypes' /\ CalmSound'
    BY DEF CountInv, IssueTypes, CalmSound
<1>2. ASSUME NEW s \in Runs PROVE TodoNew(s)'
    BY DEF CountInv, TodoNew
<1>3. ASSUME NEW t \in Types PROVE AffectedSound(t)'
    <2>1. Counted(t) \subseteq Counted(t)'
        BY DEF Counted, SignalledRuns, Due, Fired
    <2>2. IsFiniteSet(Counted(t)')
        <3>1. Counted(t)' \subseteq Runs
            BY DEF Counted, SignalledRuns
        <3> QED BY <3>1, ProcessingAssumption, FS_Subset
    <2>3. Cardinality(Counted(t)) <= Cardinality(Counted(t)')
        BY <2>1, <2>2, FS_Subset
    <2>4. Cardinality(Counted(t)) \in Nat /\ Cardinality(Counted(t)') \in Nat
        BY <2>2, CountedFinite, FS_CardinalityType
    <2>5. issues[t].affected \in Nat
        BY DEF CountInv, IssueTypes
    <2> QED BY <2>3, <2>4, <2>5 DEF CountInv, AffectedSound
<1> QED BY <1>1, <1>2, <1>3 DEF CountInv

(* An attempt begins: what it finds to write has no signal yet.            *)
LEMMA CountsBegin ==
    ASSUME RunsInv, CountInv, NEW r \in Runs, Begin(r)
    PROVE  CountInv'
<1>1. /\ pc[r] = "idle" /\ pc'[r] = "write"
      /\ \A s \in Runs \ {r} : pc'[s] = pc[s] /\ job'[s] = job[s]
      /\ job'[r].found = fires[r] /\ job'[r].existing = Existing(r)
      /\ job'[r].todo = fires[r] \ Existing(r) /\ job'[r].reprocess = processed[r].done
      /\ UNCHANGED <<signals, held, issues, cleanRuns, processed, failed>>
    BY DEF Begin, Goto, input, tables, RunsInv, RunTypes
<1>2. \A t \in Types : Signalled(r, t) <=> t \in Existing(r)
    BY DEF Signalled, Existing
<1>3. \A s \in Runs, t \in Types : Signalled(s, t) => (Due(s, t)' <=> Due(s, t))
    BY <1>1, <1>2 DEF Due, Fired
<1>4. \A t \in Types : Counted(t)' = Counted(t)
    BY <1>1, <1>3 DEF Counted, SignalledRuns, Signalled
<1>5. IssueTypes' /\ (\A s \in Runs : TodoNew(s)')
    BY <1>1 DEF CountInv, IssueTypes, TodoNew
<1>6. \A t \in Types : AffectedSound(t)'
    BY <1>1, <1>4 DEF CountInv, AffectedSound
<1>7. ASSUME ~ failed, NEW s \in Runs PROVE FirstAttempt(s)'
    <2>1. CASE s = r
        BY <1>1, <1>2, <1>7, <2>1 DEF CountInv, CalmSound, FirstAttempt, Signalled, Existing
    <2>2. CASE s # r
        BY <1>1, <1>7, <2>2 DEF CountInv, CalmSound, FirstAttempt, Signalled
    <2> QED BY <2>1, <2>2
<1>8. ASSUME ~ failed, NEW t \in Types PROVE CleanSound(t)'
    <2>1. \A s \in cleanRuns[t] : s \in Runs
        BY DEF CountInv, IssueTypes
    <2> QED BY <1>1, <1>3, <1>8, <2>1 DEF CountInv, CalmSound, CleanSound, Signalled, LiveRow
<1> QED BY <1>1, <1>5, <1>6, <1>7, <1>8 DEF CountInv, CalmSound

(* A signal is written: its run is due unless the type is in shadow or the *)
(* run is taken for incomplete.                                            *)
LEMMA CountsWrite ==
    ASSUME RunsInv, CountInv, NEW r \in Runs, NEW t \in Types, WriteSignal(r, t)
    PROVE  CountInv'
<1>1. /\ pc[r] = "write" /\ t \in job[r].todo
      /\ job'[r].found = job[r].found /\ job'[r].existing = job[r].existing
      /\ job'[r].todo = job[r].todo \ {t} /\ job'[r].reprocess = job[r].reprocess
      /\ job'[r].incomplete = job[r].incomplete
      /\ \A s \in Runs \ {r} : job'[s] = job[s]
      /\ UNCHANGED <<pc, issues, cleanRuns, processed, failed>>
    BY DEF WriteSignal, input, RunsInv, RunTypes, Job
<1>2. \A s \in Runs, u \in Types :
          Signalled(s, u)' <=> Signalled(s, u) \/ (s = r /\ u = t)
    BY DEF WriteSignal, Signalled, RunsInv, RunTypes
<1>3. /\ held'[r] = IF job[r].incomplete THEN held[r] \cup {t} ELSE held[r] \ {t}
      /\ \A s \in Runs \ {r} : held'[s] = held[s]
      /\ held' \in [Runs -> SUBSET Types]
    <2>1. held' = [held EXCEPT ![r] =
                      IF job[r].incomplete THEN held[r] \cup {t} ELSE held[r] \ {t}]
        BY DEF WriteSignal
    <2>2. held \in [Runs -> SUBSET Types]
        BY DEF CountInv, IssueTypes
    <2>3. (IF job[r].incomplete THEN held[r] \cup {t} ELSE held[r] \ {t}) \in SUBSET Types
        BY <2>2
    <2> QED BY <2>1, <2>2, <2>3
<1>4. ~ Signalled(r, t)
    BY <1>1 DEF RunsInv, Sound, AttemptSound
<1>5. \A s \in Runs, u \in Types :
          LiveRow(s, u)' <=> LiveRow(s, u) \/ (s = r /\ u = t /\ ~ job[r].incomplete)
    <2> SUFFICES ASSUME NEW s \in Runs, NEW u \in Types
                 PROVE  LiveRow(s, u)' <=>
                            LiveRow(s, u) \/ (s = r /\ u = t /\ ~ job[r].incomplete)
        OBVIOUS
    <2>1. CASE s # r
        BY <1>2, <1>3, <2>1 DEF LiveRow
    <2>2. CASE s = r /\ u # t
        BY <1>2, <1>3, <2>2 DEF LiveRow
    <2>3. CASE s = r /\ u = t
        BY <1>2, <1>3, <1>4, <2>3 DEF LiveRow
    <2> QED BY <2>1, <2>2, <2>3
<1>6. \A s \in Runs, u \in Types : Due(s, u)' <=> Due(s, u)
    BY <1>1 DEF Due, Fired
<1>7. t \in job[r].found /\ t \notin job[r].existing
    BY <1>1 DEF CountInv, TodoNew
<1>8. Due(r, t) <=> ~ job[r].incomplete /\ t \in Live
    BY <1>1, <1>7 DEF Due, Fired
<1>9. IssueTypes' /\ (\A s \in Runs : TodoNew(s)')
    <2>1. ASSUME NEW s \in Runs, s # r PROVE TodoNew(s)'
        BY <1>1, <1>3, <2>1 DEF CountInv, TodoNew
    <2>2. TodoNew(r)'
        <3>1. held'[r] \cap (job[r].found \ job[r].existing) \subseteq job[r].todo \ {t}
              \/ job[r].incomplete
            BY <1>1, <1>3 DEF CountInv, TodoNew
        <3>2. job[r].todo \ {t} \subseteq job[r].found \ job[r].existing
            BY <1>1 DEF CountInv, TodoNew
        <3> QED BY <1>1, <3>1, <3>2 DEF TodoNew
    <2> QED BY <1>1, <1>3, <2>1, <2>2 DEF CountInv, IssueTypes
<1>10. ASSUME NEW u \in Types PROVE AffectedSound(u)'
    <2>1. CASE u # t \/ Due(r, t) \/ job[r].incomplete
        <3>1. Counted(u)' = Counted(u)
            BY <1>6, <1>5, <2>1 DEF Counted, SignalledRuns, Signalled, LiveRow
        <3> QED BY <1>1, <3>1 DEF CountInv, AffectedSound
    <2>2. CASE u = t /\ t \notin Live
        <3>1. Counted(u) \subseteq Counted(u)' /\ Counted(u)' \subseteq Runs
            BY <1>6, <1>5 DEF Counted, SignalledRuns, Signalled, LiveRow
        <3>2. /\ Cardinality(Counted(u)) <= Cardinality(Counted(u)')
              /\ Cardinality(Counted(u)') \in Nat
            BY <3>1, ProcessingAssumption, FS_Subset, FS_CardinalityType
        <3>3. issues[u].affected \in Nat /\ Cardinality(Counted(u)) \in Nat
            BY CountedFinite DEF CountInv, IssueTypes
        <3> QED BY <1>1, <2>2, <3>2, <3>3 DEF CountInv, AffectedSound
    <2> QED BY <1>8, <2>1, <2>2
<1>11. ASSUME ~ failed, NEW s \in Runs PROVE FirstAttempt(s)'
    BY <1>1, <1>2, <1>7, <1>11 DEF CountInv, CalmSound, FirstAttempt
<1>12. ASSUME ~ failed, NEW u \in Types PROVE CleanSound(u)'
    <2>1. cleanRuns[u] \subseteq Runs /\ (cleanRuns[u] # {} => u \in Live)
        BY <1>12 DEF CountInv, IssueTypes, AffectedSound
    <2>2. \A s \in cleanRuns[u] : LiveRow(s, u)' => Due(s, u)'
        BY <1>6, <1>8, <1>12, <1>5, <2>1 DEF CountInv, CalmSound, CleanSound
    <2> QED BY <1>1, <1>12, <2>1, <2>2 DEF CountInv, CalmSound, CleanSound
<1> QED BY <1>1, <1>9, <1>10, <1>11, <1>12 DEF CountInv, CalmSound

LEMMA OpenedCounts ==
    ASSUME NEW i
    PROVE  Opened(i).affected = i.affected + 1 /\ Opened(i).clean = 0
<1>1. PICK st : st = CASE i.status = "none"     -> "open"
                       [] i.status = "resolved" -> "reopened"
                       [] OTHER                 -> i.status
    OBVIOUS
<1>2. Opened(i) = [status |-> st, affected |-> i.affected + 1, clean |-> 0]
    BY <1>1 DEF Opened
<1> QED BY <1>2

(* Everything a run found is written when it is counted, and no longer due *)
(* afterwards.                                                             *)
LEMMA CountsUpsert ==
    ASSUME RunsInv, CountInv, NEW r \in Runs, UpsertFired(r)
    PROVE  CountInv'
<1>1. /\ pc[r] = "write" /\ job[r].todo = {} /\ pc'[r] = "clean"
      /\ \A s \in Runs \ {r} : pc'[s] = pc[s]
      /\ UNCHANGED <<signals, held, job, processed, failed>>
    BY DEF UpsertFired, SignalsWritten, Goto, input, RunsInv, RunTypes
<1>2. \A t \in Types : Due(r, t) <=> t \in Fired(r)
    BY <1>1 DEF Due
<1>3. \A t \in Fired(r) : t \in Types /\ t \in Live /\ LiveRow(r, t)
    BY <1>1, ProcessingAssumption
       DEF Fired, RunsInv, Sound, AttemptSound, CountInv, TodoNew, LiveRow
<1>4. \A s \in Runs, t \in Types : Due(s, t)' <=> Due(s, t) /\ s # r
    BY <1>1 DEF Due, Fired
<1>5. \A t \in Types :
          /\ t \in Fired(r) => issues'[t] = Opened(issues[t]) /\ cleanRuns'[t] = {}
          /\ t \notin Fired(r) => issues'[t] = issues[t] /\ cleanRuns'[t] = cleanRuns[t]
    BY DEF UpsertFired
<1>6. \A t \in Types : Opened(issues[t]) \in [status: Statuses, affected: Nat, clean: Nat]
    BY DEF Opened, CountInv, IssueTypes, Statuses
<1>7. IssueTypes'
    <2>1. issues' \in [Types -> [status: Statuses, affected: Nat, clean: Nat]]
        BY <1>6 DEF UpsertFired, CountInv, IssueTypes
    <2>2. cleanRuns' \in [Types -> SUBSET Runs]
        BY DEF UpsertFired, CountInv, IssueTypes
    <2> QED BY <1>1, <2>1, <2>2 DEF CountInv, IssueTypes
<1>8. \A s \in Runs : TodoNew(s)'
    BY <1>1 DEF CountInv, TodoNew
<1>9. ASSUME NEW t \in Types PROVE AffectedSound(t)'
    <2>1. CASE t \in Fired(r)
        <3>1. Counted(t)' = Counted(t) \cup {r} /\ r \notin Counted(t)
            BY <1>1, <1>2, <1>3, <1>4, <2>1 DEF Counted, SignalledRuns, Signalled, LiveRow
        <3>2. Cardinality(Counted(t)') = Cardinality(Counted(t)) + 1
            BY <3>1, CountedFinite, FS_AddElement
        <3>3. issues'[t].affected = issues[t].affected + 1
            BY <1>5, <2>1, OpenedCounts
        <3>4. issues[t].affected \in Nat /\ Cardinality(Counted(t)) \in Nat
            BY CountedFinite DEF CountInv, IssueTypes
        <3> QED BY <1>1, <1>3, <2>1, <3>2, <3>3, <3>4 DEF CountInv, AffectedSound
    <2>2. CASE t \notin Fired(r)
        <3>1. Counted(t)' = Counted(t)
            BY <1>1, <1>2, <1>4, <2>2 DEF Counted, SignalledRuns
        <3> QED BY <1>1, <1>5, <2>2, <3>1 DEF CountInv, AffectedSound
    <2> QED BY <2>1, <2>2
<1>10. ASSUME ~ failed, NEW s \in Runs PROVE FirstAttempt(s)'
    <2>1. pc'[s] = pc[s] \/ (pc[s] = "write" /\ pc'[s] = "clean")
        BY <1>1
    <2> QED BY <1>1, <1>10, <2>1 DEF CountInv, CalmSound, FirstAttempt, Signalled
<1>11. ASSUME ~ failed, NEW t \in Types PROVE CleanSound(t)'
    <2>1. CASE t \in Fired(r)
        BY <1>5, <2>1, OpenedCounts, FS_EmptySet DEF CleanSound
    <2>2. CASE t \notin Fired(r)
        <3>1. cleanRuns[t] \subseteq Runs
            BY DEF CountInv, IssueTypes
        <3>2. \A s \in cleanRuns[t] :
                  /\ \/ processed'[s].done
                     \/ pc'[s] \in {"side", "mark"} /\ ~ job'[s].incomplete
                  /\ LiveRow(s, t)' => Due(s, t)'
            BY <1>1, <1>2, <1>4, <1>11, <2>2, <3>1
               DEF CountInv, CalmSound, CleanSound, Signalled, LiveRow
        <3> QED BY <1>5, <1>11, <2>2, <3>2 DEF CountInv, CalmSound, CleanSound
    <2> QED BY <2>1, <2>2
<1> QED BY <1>1, <1>7, <1>8, <1>9, <1>10, <1>11 DEF CountInv, CalmSound

LEMMA CleanerCounts ==
    ASSUME NEW i \in [status: Statuses, affected: Nat, clean: Nat]
    PROVE  /\ Cleaner(i) \in [status: Statuses, affected: Nat, clean: Nat]
           /\ Cleaner(i).affected = i.affected
           /\ Cleaner(i).clean = i.clean + 1
<1>1. PICK st \in Statuses :
          st = IF i.clean + 1 >= Threshold THEN "resolved" ELSE i.status
    BY DEF Statuses
<1>2. Cleaner(i) = [i EXCEPT !.clean = i.clean + 1, !.status = st]
    BY <1>1 DEF Cleaner
<1>3. i.clean + 1 \in Nat /\ i.affected \in Nat
    OBVIOUS
<1> QED BY <1>1, <1>2, <1>3

(* A run is counted as clean on its first attempt only, of types it has no *)
(* signal of.                                                              *)
LEMMA CountsAdvance ==
    ASSUME RunsInv, CountInv, NEW r \in Runs, AdvanceClean(r)
    PROVE  CountInv'
<1>1. /\ pc[r] = "clean" /\ pc'[r] = "side"
      /\ \A s \in Runs \ {r} : pc'[s] = pc[s]
      /\ UNCHANGED <<signals, held, job, processed, failed>>
    BY DEF AdvanceClean, Goto, input, RunsInv, RunTypes
<1>2. \A t \in CleanOf(r) :
          /\ t \in Types /\ t \in Live /\ ~ job[r].incomplete /\ ~ job[r].reprocess
          /\ t \in job[r].found => t \in job[r].existing
    BY DEF CleanOf, IsOpen, Fired, CountInv, AffectedSound
<1>3. \A t \in Types :
          /\ t \in CleanOf(r) => /\ issues'[t] = Cleaner(issues[t])
                                 /\ cleanRuns'[t] = cleanRuns[t] \cup {r}
          /\ t \notin CleanOf(r) => issues'[t] = issues[t] /\ cleanRuns'[t] = cleanRuns[t]
    BY DEF AdvanceClean
<1>4. \A s \in Runs, t \in Types : Due(s, t)' <=> Due(s, t)
    BY <1>1 DEF Due, Fired
<1>5. \A t \in Types : /\ Cleaner(issues[t]) \in [status: Statuses, affected: Nat, clean: Nat]
                       /\ Cleaner(issues[t]).affected = issues[t].affected
                       /\ Cleaner(issues[t]).clean = issues[t].clean + 1
    BY CleanerCounts DEF CountInv, IssueTypes
<1>6. IssueTypes'
    <2>1. issues' \in [Types -> [status: Statuses, affected: Nat, clean: Nat]]
        BY <1>5 DEF AdvanceClean, CountInv, IssueTypes
    <2>2. cleanRuns' \in [Types -> SUBSET Runs]
        BY DEF AdvanceClean, CountInv, IssueTypes
    <2> QED BY <1>1, <2>1, <2>2 DEF CountInv, IssueTypes
<1>7. \A s \in Runs : TodoNew(s)'
    BY <1>1 DEF CountInv, TodoNew
<1>8. ASSUME NEW t \in Types PROVE AffectedSound(t)'
    <2>1. Counted(t)' = Counted(t)
        BY <1>1, <1>4 DEF Counted, SignalledRuns
    <2> QED BY <1>1, <1>2, <1>3, <1>5, <2>1 DEF CountInv, AffectedSound
<1>9. ASSUME ~ failed, NEW s \in Runs PROVE FirstAttempt(s)'
    <2>1. pc'[s] = pc[s] \/ (pc[s] = "clean" /\ pc'[s] = "side")
        BY <1>1
    <2> QED BY <1>1, <1>9, <2>1 DEF CountInv, CalmSound, FirstAttempt, Signalled
<1>10. ASSUME ~ failed, NEW t \in Types PROVE CleanSound(t)'
    <2>1. cleanRuns[t] \subseteq Runs /\ IsFiniteSet(cleanRuns[t])
        BY ProcessingAssumption, FS_Subset DEF CountInv, IssueTypes
    <2>2. \A s \in cleanRuns[t] :
              /\ \/ processed'[s].done
                 \/ pc'[s] \in {"side", "mark"} /\ ~ job'[s].incomplete
              /\ LiveRow(s, t)' => Due(s, t)'
        BY <1>1, <1>4, <1>10, <2>1 DEF CountInv, CalmSound, CleanSound, Signalled, LiveRow
    <2>3. CASE t \in CleanOf(r)
        <3>1. ~ processed[r].done
            BY <1>1, <1>2, <1>10, <2>3 DEF CountInv, CalmSound, FirstAttempt
        <3>2. r \notin cleanRuns[t]
            BY <1>1, <1>10, <3>1 DEF CountInv, CalmSound, CleanSound
        <3>3. ~ Signalled(r, t)
            BY <1>1, <1>2, <1>10, <2>3, <3>1 DEF CountInv, CalmSound, FirstAttempt
        <3>4. Cardinality(cleanRuns'[t]) = Cardinality(cleanRuns[t]) + 1
            BY <1>3, <2>1, <2>3, <3>2, FS_AddElement
        <3>5. ~ LiveRow(r, t)' /\ ~ job'[r].incomplete /\ pc'[r] = "side"
            BY <1>1, <1>2, <2>3, <3>3 DEF Signalled, LiveRow
        <3>6. issues'[t].clean = Cardinality(cleanRuns'[t])
            BY <1>3, <1>5, <1>10, <2>3, <3>4 DEF CountInv, CalmSound, CleanSound
        <3> QED BY <1>3, <2>2, <2>3, <3>5, <3>6 DEF CleanSound
    <2>4. CASE t \notin CleanOf(r)
        BY <1>3, <1>10, <2>2, <2>4 DEF CountInv, CalmSound, CleanSound
    <2> QED BY <2>3, <2>4
<1> QED BY <1>1, <1>6, <1>7, <1>8, <1>9, <1>10 DEF CountInv, CalmSound

(* The later places of an attempt, when nothing fails.                     *)
LEMMA CountsMove ==
    ASSUME RunsInv, CountInv, NEW r \in Runs, UNCHANGED <<signals, held, issues, cleanRuns, failed>>,
           \A s \in Runs \ {r} : /\ pc'[s] = pc[s] /\ job'[s] = job[s]
                                /\ processed'[s] = processed[s],
           \/ /\ pc[r] = "side" /\ pc'[r] = "mark"
              /\ job'[r] = job[r] /\ processed'[r] = processed[r]
           \/ /\ pc[r] = "mark" /\ pc'[r] = "clear"
              /\ job'[r] = job[r] /\ processed'[r].done
           \/ pc[r] = "clear" /\ pc'[r] = "idle" /\ processed'[r] = processed[r]
    PROVE  CountInv'
<1>1. \A s \in Runs, t \in Types : Due(s, t)' <=> Due(s, t)
    BY DEF Due, Fired
<1>2. \A t \in Types : Counted(t)' = Counted(t)
    BY <1>1 DEF Counted, SignalledRuns
<1>3. IssueTypes' /\ (\A s \in Runs : TodoNew(s)')
    BY DEF CountInv, IssueTypes, TodoNew
<1>4. \A t \in Types : AffectedSound(t)'
    BY <1>2 DEF CountInv, AffectedSound
<1>5. ASSUME ~ failed, NEW s \in Runs PROVE FirstAttempt(s)'
    BY <1>5 DEF CountInv, CalmSound, FirstAttempt, Signalled
<1>6. ASSUME ~ failed, NEW t \in Types PROVE CleanSound(t)'
    <2>1. cleanRuns[t] \subseteq Runs
        BY DEF CountInv, IssueTypes
    <2>2. ASSUME NEW s \in cleanRuns[t]
          PROVE  \/ processed'[s].done
                 \/ pc'[s] \in {"side", "mark"} /\ ~ job'[s].incomplete
        BY <1>6, <2>1, <2>2 DEF CountInv, CalmSound, CleanSound, FirstAttempt
    <2> QED BY <1>1, <1>6, <2>1, <2>2 DEF CountInv, CalmSound, CleanSound, Signalled, LiveRow
<1> QED BY <1>3, <1>4, <1>5, <1>6 DEF CountInv, CalmSound

LEMMA CountsResolve ==
    ASSUME RunsInv, CountInv, NEW t \in Types, ResolveManually(t)
    PROVE  CountInv'
<1>1. /\ issues[t].status # "none" /\ issues' = [issues EXCEPT ![t].status = "resolved"]
      /\ UNCHANGED <<pc, job, signals, held, cleanRuns, processed, failed>>
    BY DEF ResolveManually, input
<1>2. \A u \in Types : /\ issues'[u].affected = issues[u].affected
                       /\ issues'[u].clean = issues[u].clean
                       /\ u # t => issues'[u] = issues[u]
    BY <1>1 DEF CountInv, IssueTypes
<1>3. t \in Live
    BY <1>1 DEF CountInv, AffectedSound
<1>4. \A u \in Types : Counted(u)' = Counted(u)
    BY <1>1 DEF Counted, SignalledRuns, Due, Fired
<1>5. IssueTypes' /\ (\A s \in Runs : TodoNew(s)')
    BY <1>1 DEF CountInv, IssueTypes, TodoNew, Statuses
<1>6. \A u \in Types : AffectedSound(u)'
    BY <1>1, <1>2, <1>3, <1>4 DEF CountInv, AffectedSound
<1>7. CalmSound'
    <2>1. \A s \in Runs, u \in Types : Due(s, u)' <=> Due(s, u)
        BY <1>1 DEF Due, Fired
    <2>2. ~ failed => \A s \in Runs : FirstAttempt(s)'
        BY <1>1 DEF CountInv, CalmSound, FirstAttempt, Signalled
    <2>3. ~ failed => \A u \in Types : CleanSound(u)'
        BY <1>1, <1>2, <2>1 DEF CountInv, IssueTypes, CalmSound, CleanSound, Signalled, LiveRow
    <2> QED BY <1>1, <2>2, <2>3 DEF CalmSound
<1> QED BY <1>5, <1>6, <1>7 DEF CountInv

LEMMA CountStepKeeps == RunsInv /\ CountInv /\ [Next]_vars => CountInv'
<1> SUFFICES ASSUME RunsInv, CountInv, [Next]_vars PROVE CountInv'
    OBVIOUS
<1>1. ASSUME NEW r \in Runs, Begin(r) \/ UpsertFired(r) \/ AdvanceClean(r)
      PROVE  CountInv'
    BY <1>1, CountsBegin, CountsUpsert, CountsAdvance
<1>2. ASSUME NEW r \in Runs, NEW t \in Types, WriteSignal(r, t) PROVE CountInv'
    BY <1>2, CountsWrite
<1>3. ASSUME NEW r \in Runs, HandleFailure(r) \/ Escape(r) \/ IssuesFail(r) PROVE CountInv'
    <2>1. /\ UNCHANGED <<signals, held, issues, cleanRuns>> /\ failed' = TRUE
          /\ pc' = [pc EXCEPT ![r] = "idle"] \/ pc' = [pc EXCEPT ![r] = "side"]
          /\ \A s \in Runs \ {r} : job'[s] = job[s]
        BY <1>3 DEF HandleFailure, Escape, IssuesFail, Leave, Goto, Fault, input, tables,
                    RunsInv, RunTypes
    <2>2. \A s \in Runs : pc'[s] # "write" \/ (pc'[s] = pc[s] /\ job'[s] = job[s])
        BY <2>1 DEF RunsInv, RunTypes
    <2> QED BY <2>1, <2>2, CountsAfterFault
<1>4. ASSUME NEW r \in Runs, NEW g \in BOOLEAN, NEW e \in BOOLEAN, SideSteps(r, g, e)
      PROVE  CountInv'
    <2>1. /\ UNCHANGED <<signals, held, issues, cleanRuns, processed, job>>
          /\ pc[r] = "side" /\ pc' = [pc EXCEPT ![r] = "mark"]
          /\ UNCHANGED failed \/ failed' = TRUE
        BY <1>4 DEF SideSteps, Goto, Calm, Fault, input
    <2>2. pc'[r] = "mark" /\ \A s \in Runs \ {r} : pc'[s] = pc[s]
        BY <2>1 DEF RunsInv, RunTypes
    <2>3. CASE UNCHANGED failed
        BY <2>1, <2>2, <2>3, CountsMove
    <2>4. CASE failed' = TRUE
        BY <2>1, <2>2, <2>4, CountsAfterFault
    <2> QED BY <2>1, <2>3, <2>4
<1>5. ASSUME NEW r \in Runs, MarkProcessed(r) \/ Finish(r) PROVE CountInv'
    <2>1. CASE MarkProcessed(r)
        BY <2>1, CountsMove DEF MarkProcessed, Record, Goto, input, RunsInv, RunTypes
    <2>2. CASE Finish(r)
        BY <2>2, CountsMove DEF Finish, Leave, Goto, input, RunsInv, RunTypes
    <2> QED BY <1>5, <2>1, <2>2
<1>6. ASSUME NEW r \in Runs, LateEvent(r) PROVE CountInv'
    BY <1>6, CountsRest DEF LateEvent, tables
<1>7. CASE Crash
    BY <1>7, CountsAfterFault DEF Crash, Fault, input, tables
<1>8. ASSUME NEW t \in Types, ResolveManually(t) PROVE CountInv'
    BY <1>8, CountsResolve
<1>9. CASE UNCHANGED vars
    BY <1>9, CountsRest DEF vars, input, tables
<1> QED BY <1>1, <1>2, <1>3, <1>4, <1>5, <1>6, <1>7, <1>8, <1>9 DEF Next

(* The counts and what they rest on hold in every reachable state.         *)
THEOREM CountInvariant == Spec => []CountInv
BY CountInit, CountStepKeeps, RunsInvariant, PTL DEF Spec

(* An issue's affected runs are those with a live signal of it, and its    *)
(* clean runs distinct ones without that were taken for whole, whatever    *)
(* late events, the terminal of a stalled run among them, make a run be    *)
(* processed again: upsert_fired_issues is fed what this attempt wrote,    *)
(* and advance_clean_runs runs on the first attempt only.                  *)
THEOREM IssueCountsHold == Spec => []IssueCountsExact
<1>1. RunsInv /\ CountInv => AffectedRunsExact
    <2> SUFFICES ASSUME RunsInv, CountInv, NEW t \in Types
                 PROVE  /\ issues[t].affected <= Cardinality(SignalledRuns(t))
                        /\ ~ failed /\ t \in Live /\ (\A r \in Runs : pc[r] = "idle")
                           => issues[t].affected = Cardinality(SignalledRuns(t))
        BY DEF AffectedRunsExact
    <2>1. Counted(t) \subseteq SignalledRuns(t) /\ SignalledRuns(t) \subseteq Runs
        BY DEF Counted, SignalledRuns
    <2>2. /\ Cardinality(Counted(t)) <= Cardinality(SignalledRuns(t))
          /\ Cardinality(SignalledRuns(t)) \in Nat
        BY <2>1, ProcessingAssumption, FS_Subset, FS_CardinalityType
    <2>3. issues[t].affected \in Nat /\ Cardinality(Counted(t)) \in Nat
        BY CountedFinite DEF CountInv, IssueTypes
    <2>4. (\A r \in Runs : pc[r] = "idle") => Counted(t) = SignalledRuns(t)
        BY DEF Counted, SignalledRuns, Due
    <2> QED BY <2>2, <2>3, <2>4 DEF CountInv, AffectedSound
<1>2. RunsInv /\ CountInv => CleanCountExact
    <2> SUFFICES ASSUME RunsInv, CountInv, ~ failed, NEW t \in Types
                 PROVE  /\ issues[t].clean = Cardinality(cleanRuns[t])
                        /\ \A r \in cleanRuns[t] :
                              /\ processed[r].done \/ ~ job[r].incomplete
                              /\ pc[r] = "idle" => r \notin SignalledRuns(t)
        BY DEF CleanCountExact
    <2>1. \A r \in cleanRuns[t] : r \in SignalledRuns(t) <=> LiveRow(r, t)
        BY DEF CountInv, IssueTypes, SignalledRuns, LiveRow, Signalled
    <2> QED BY <2>1 DEF CountInv, CalmSound, CleanSound, Due
<1>3. RunsInv /\ CountInv => IssueCountsExact
    BY <1>1, <1>2 DEF IssueCountsExact
<1> QED BY <1>3, RunsInvariant, CountInvariant, PTL
-----------------------------------------------------------------------------
(* Alerts.                                                                 *)

(* What a deployment has to see to: a poll is over within the claim        *)
(* timeout.                                                                *)
PollsEndInTime == AlertsAssumption /\ MaxPoll <= ClaimTimeout

(* A poll's own record, given the signals that are marked: what it will    *)
(* send it has claimed, not yet marked and not yet sent.                   *)
PollRecord ==
    [at: PollPlaces, age: 0 .. MaxPoll, rows: SUBSET Signals, suppress: SUBSET Groups,
     muted: SUBSET Signals, silent: SUBSET Signals, dups: SUBSET Signals,
     work: SUBSET Signals, told: [Groups -> Nat], ok: SUBSET Signals]

PollSound(p, marked) ==
    /\ p.muted \union p.silent \union p.dups \union p.work \union p.ok \subseteq p.rows
    /\ p.at = "idle" => p.rows = {}
    /\ p.at = "decide" => p.rows \intersect marked = {}
    /\ p.at = "suppress" =>
          p.work \intersect (p.muted \union p.silent \union p.dups) = {}
    /\ p.at \in {"idle", "decide", "suppress", "release"} => p.ok = {}
    /\ p.at = "stamp" => p.ok \subseteq marked
    /\ p.work \intersect (marked \union p.ok) = {}

AlertTypes ==
    /\ claim \in [Signals -> Nat] /\ sent \in [Signals -> Nat] /\ failures \in Nat
    /\ detected \in 0 .. NumSignals
    /\ poll \in [Workers -> PollRecord]
    /\ group \in [Signals -> Groups]
    /\ dedup \in [Groups -> [age: Nat, suppressed: Nat]]

PollsSound ==
    \A w \in Workers : PollSound(poll[w], alerted)

(* No two polls have claimed the same row, because a claim is younger than *)
(* the poll that holds it.                                                 *)
ClaimsApart ==
    /\ \A v, w \in Workers : v # w => poll[v].rows \intersect poll[w].rows = {}
    /\ \A w \in Workers : \A s \in poll[w].rows : claim[s] <= poll[w].age

(* A signal that is neither marked nor about to be was sent only by polls  *)
(* that died.                                                              *)
Accounted(s) == s \in alerted \/ \E w \in Workers : s \in poll[w].ok

SentBound ==
    \A s \in Signals : /\ sent[s] <= failures + 1
                       /\ ~ Accounted(s) => sent[s] <= failures

AlertsInv == AlertTypes /\ PollsSound /\ ClaimsApart /\ SentBound
-----------------------------------------------------------------------------
LEMMA NoPollSound ==
    ASSUME PollsEndInTime, NEW marked
    PROVE  NoPoll \in PollRecord /\ PollSound(NoPoll, marked)
BY DEF PollsEndInTime, AlertsAssumption, PollRecord, PollSound, NoPoll, PollPlaces

LEMMA AlertsInitEstablishes ==
    ASSUME PollsEndInTime, AlertsInit
    PROVE  AlertsInv
<1>1. AlertTypes
    BY NoPollSound DEF PollsEndInTime, AlertsAssumption, AlertsInit, AlertTypes, Free
<1>2. \A w \in Workers : poll[w] = NoPoll
    BY DEF AlertsInit
<1>3. PollsSound
    BY <1>2, NoPollSound DEF PollsSound
<1>4. ClaimsApart
    BY <1>2 DEF ClaimsApart, NoPoll
<1>5. SentBound
    BY DEF AlertsInit, SentBound
<1> QED BY <1>1, <1>3, <1>4, <1>5 DEF AlertsInv

(* The other polls do not notice that rows which are not theirs are marked.*)
LEMMA MarkingOthers ==
    ASSUME NEW p, NEW marked, NEW S, PollSound(p, marked),
           p.rows \intersect S = {}
    PROVE  PollSound(p, marked \union S)
BY DEF PollSound

(* A step of worker w's poll that marks nothing but rows of its own.       *)
LEMMA OnePollSteps ==
    ASSUME AlertsInv, NEW w \in Workers, NEW p, NEW S,
           poll' = [poll EXCEPT ![w] = p],
           alerted' = alerted \union S, S \subseteq poll[w].rows,
           p \in PollRecord, PollSound(p, alerted')
    PROVE  /\ poll' \in [Workers -> PollRecord]
           /\ PollsSound' /\ poll'[w] = p
           /\ \A v \in Workers \ {w} : poll'[v] = poll[v]
<1>1. poll'[w] = p /\ \A v \in Workers \ {w} : poll'[v] = poll[v]
    BY DEF AlertsInv, AlertTypes
<1>2. ASSUME NEW v \in Workers \ {w} PROVE PollSound(poll[v], alerted')
    BY MarkingOthers DEF AlertsInv, PollsSound, ClaimsApart
<1>3. ASSUME NEW v \in Workers PROVE PollSound(poll[v], alerted)'
    <2>1. CASE v = w
        BY <1>1, <2>1
    <2>2. CASE v # w
        BY <1>1, <1>2, <2>2 DEF AlertsInv, PollsSound
    <2> QED BY <2>1, <2>2
<1>4. poll' \in [Workers -> PollRecord]
    BY DEF AlertsInv, AlertTypes
<1> QED BY <1>1, <1>3, <1>4 DEF PollsSound

(* A step that keeps the claims, and what the poll has claimed.            *)
LEMMA ClaimsKept ==
    ASSUME AlertsInv, NEW w \in Workers, NEW p, UNCHANGED claim,
           p.rows \in {poll[w].rows, {}}, p.age = poll[w].age \/ p.rows = {},
           poll'[w] = p, \A v \in Workers \ {w} : poll'[v] = poll[v]
    PROVE  ClaimsApart'
<1>1. \A v \in Workers : /\ poll'[v].rows = poll[v].rows \/ poll'[v].rows = {}
                         /\ poll'[v].age = poll[v].age \/ poll'[v].rows = {}
    OBVIOUS
<1> QED BY <1>1 DEF AlertsInv, ClaimsApart

(* A step that sends nothing and forgets only what is marked.              *)
LEMMA BoundKept ==
    ASSUME AlertsInv, NEW w \in Workers, NEW p, UNCHANGED <<sent, failures>>,
           alerted \subseteq alerted', poll[w].ok \subseteq p.ok \union alerted',
           poll'[w] = p, \A v \in Workers \ {w} : poll'[v] = poll[v]
    PROVE  SentBound'
<1>1. \A s \in Signals : Accounted(s) => Accounted(s)'
    BY DEF Accounted
<1> QED BY <1>1 DEF AlertsInv, SentBound
-----------------------------------------------------------------------------
(* A claimable row is held by no poll: its claim is too old for one.       *)
LEMMA ClaimKeeps ==
    ASSUME PollsEndInTime, AlertsInv, NEW w \in Workers, Claim(w)
    PROVE  AlertsInv'
<1> DEFINE R == OldestOf(Claimable)
           p == [NoPoll EXCEPT !.at = "decide", !.rows = R]
<1>1. /\ poll' = [poll EXCEPT ![w] = p] /\ alerted' = alerted \union {}
      /\ claim' = [s \in Signals |-> IF s \in R THEN 0 ELSE claim[s]]
      /\ UNCHANGED <<alerted, sent, failures>> /\ poll[w].at = "idle"
    BY DEF Claim, past
<1>2. /\ R \subseteq Claimable
      /\ \A s \in Claimable : s \notin alerted /\ claim[s] > ClaimTimeout
    BY DEF OldestOf, Claimable
<1>3. \A v \in Workers : R \intersect poll[v].rows = {}
    <2>1. ASSUME NEW v \in Workers, NEW s \in poll[v].rows PROVE s \notin R
        <3>1. /\ claim[s] <= poll[v].age /\ poll[v].age <= MaxPoll /\ s \in Signals
              /\ poll[v].age \in Nat /\ claim[s] \in Nat
            BY <2>1 DEF AlertsInv, ClaimsApart, PollsSound, PollSound, PollRecord, AlertTypes
        <3> QED BY <3>1, <1>2 DEF PollsEndInTime, AlertsAssumption
    <2> QED BY <2>1
<1> HIDE DEF R
<1>4. R \subseteq Signals
    <2>1. detected \in 0 .. NumSignals /\ NumSignals \in Nat
        BY DEF AlertsInv, AlertTypes, PollsEndInTime, AlertsAssumption
    <2>2. 1 .. detected \subseteq 1 .. NumSignals
        BY <2>1
    <2> QED BY <1>2, <2>2 DEF Claimable, Signals
<1>5. /\ p.at = "decide" /\ p.age = 0 /\ p.rows = R /\ p.muted = {} /\ p.silent = {}
      /\ p.dups = {} /\ p.work = {} /\ p.ok = {}
    BY DEF NoPoll
<1>6. p \in PollRecord
    BY <1>4, NoPollSound DEF PollRecord, PollPlaces
<1>7. PollSound(p, alerted')
    BY <1>1, <1>2, <1>4, <1>5 DEF PollSound
<1> HIDE DEF p
<1>8. /\ poll' \in [Workers -> PollRecord] /\ PollsSound'
      /\ poll'[w] = p /\ \A v \in Workers \ {w} : poll'[v] = poll[v]
    BY <1>1, <1>6, <1>7, OnePollSteps
<1>9. AlertTypes'
    BY <1>1, <1>8 DEF AlertsInv, AlertTypes, Claim
<1>10. ClaimsApart'
    <2>1. \A u, v \in Workers : u # v => poll'[u].rows \intersect poll'[v].rows = {}
        BY <1>3, <1>5, <1>8 DEF AlertsInv, ClaimsApart
    <2>2. ASSUME NEW v \in Workers, NEW s \in poll'[v].rows
          PROVE  claim'[s] <= poll'[v].age
        <3>1. CASE v = w
            BY <1>1, <1>4, <1>5, <1>8, <2>2, <3>1
        <3>2. CASE v # w
            <4>1. poll'[v] = poll[v] /\ s \notin R /\ s \in Signals
                BY <1>3, <1>8, <2>2, <3>2 DEF AlertsInv, AlertTypes, PollRecord
            <4> QED BY <1>1, <2>2, <4>1 DEF AlertsInv, ClaimsApart
        <3> QED BY <3>1, <3>2
    <2> QED BY <2>1, <2>2 DEF ClaimsApart
<1>11. poll[w].ok = {}
    BY <1>1 DEF AlertsInv, PollsSound, PollSound
<1>12. SentBound'
    BY <1>1, <1>8, <1>11, BoundKept
<1> QED BY <1>8, <1>9, <1>10, <1>12 DEF AlertsInv

(* What a poll decides: to send one claimed signal of each group that is   *)
(* neither silenced nor within its window, and the rest is neither sent    *)
(* nor lost.                                                               *)
LEMMA Decided ==
    ASSUME NEW w \in Workers, Decide(w), poll \in [Workers -> PollRecord],
           group \in [Signals -> Groups], \A g \in Groups : dedup[g].suppressed \in Nat
    PROVE  \E p \in PollRecord :
              /\ poll' = [poll EXCEPT ![w] = p]
              /\ p.at = "suppress" /\ p.age = poll[w].age /\ p.ok = poll[w].ok
              /\ p.rows = poll[w].rows
              /\ p.muted \union p.silent \union p.dups \union p.work \subseteq p.rows
              /\ p.work \intersect (p.muted \union p.silent \union p.dups) = {}
              /\ \A s \in p.work : /\ ~ WithinWindow(group[s])
                                   /\ \A t \in p.work : group[t] = group[s] => t = s
<1>1. PICK quiet \in SUBSET GroupsOf(w), best \in Picks(w) :
        LET rows       == poll[w].rows
            suppressed == {g \in GroupsOf(w) \ quiet : WithinWindow(g)}
            alerting   == GroupsOf(w) \ (quiet \union suppressed)
            work       == {best[g] : g \in alerting}
        IN  poll' = [poll EXCEPT ![w] = [@ EXCEPT
                !.at       = "suppress",
                !.suppress = suppressed,
                !.muted    = {s \in rows : group[s] \in suppressed},
                !.silent   = {s \in rows : group[s] \in quiet},
                !.dups     = {s \in rows : group[s] \in alerting} \ work,
                !.work     = work,
                !.told     = [g \in Groups |-> dedup[g].suppressed]]]
    BY Zenon DEF Decide
<1> DEFINE rows       == poll[w].rows
           suppressed == {g \in GroupsOf(w) \ quiet : WithinWindow(g)}
           alerting   == GroupsOf(w) \ (quiet \union suppressed)
           work       == {best[g] : g \in alerting}
           muted      == {s \in rows : group[s] \in suppressed}
           silent     == {s \in rows : group[s] \in quiet}
           dups       == {s \in rows : group[s] \in alerting} \ work
           told       == [g \in Groups |-> dedup[g].suppressed]
           p == [poll[w] EXCEPT !.at = "suppress", !.suppress = suppressed,
                                !.muted = muted, !.silent = silent, !.dups = dups,
                                !.work = work, !.told = told]
<1>2. poll' = [poll EXCEPT ![w] = p]
    BY <1>1
<1>3. \A g \in alerting : best[g] \in rows /\ group[best[g]] = g /\ ~ WithinWindow(g)
    BY DEF Picks
<1>4. /\ poll[w] \in PollRecord /\ rows \subseteq Signals
      /\ suppressed \subseteq Groups /\ told \in [Groups -> Nat]
    BY DEF PollRecord, GroupsOf
<1>5. \A s \in work : /\ s \in rows /\ ~ WithinWindow(group[s])
                      /\ \A t \in work : group[t] = group[s] => t = s
    BY <1>3
<1>6. /\ muted \subseteq rows /\ silent \subseteq rows /\ dups \subseteq rows
      /\ work \intersect (muted \union silent \union dups) = {}
    BY <1>3
<1> HIDE DEF suppressed, alerting, work, muted, silent, dups, told
<1>7. /\ p \in PollRecord /\ p.at = "suppress" /\ p.age = poll[w].age
      /\ p.rows = rows /\ p.muted = muted /\ p.silent = silent /\ p.dups = dups
      /\ p.work = work /\ p.ok = poll[w].ok
    BY <1>4, <1>5, <1>6 DEF PollRecord, PollPlaces
<1> HIDE DEF p
<1> QED BY <1>2, <1>5, <1>6, <1>7

LEMMA DecideKeeps ==
    ASSUME AlertsInv, NEW w \in Workers, Decide(w)
    PROVE  AlertsInv'
<1>1. PICK p \in PollRecord :
          /\ poll' = [poll EXCEPT ![w] = p]
          /\ p.at = "suppress" /\ p.age = poll[w].age /\ p.ok = poll[w].ok
          /\ p.rows = poll[w].rows
          /\ p.muted \union p.silent \union p.dups \union p.work \subseteq p.rows
          /\ p.work \intersect (p.muted \union p.silent \union p.dups) = {}
    BY Decided DEF AlertsInv, AlertTypes
<1>2. /\ alerted' = alerted \union {} /\ poll[w].at = "decide"
      /\ UNCHANGED <<group, detected, alerted, claim, dedup, sent, failures>>
    BY DEF Decide, table, past
<1>3. poll[w].rows \intersect alerted = {} /\ poll[w].ok = {}
    BY <1>2 DEF AlertsInv, PollsSound, PollSound
<1>4. PollSound(p, alerted')
    BY <1>1, <1>2, <1>3 DEF PollSound
<1>5. /\ poll' \in [Workers -> PollRecord] /\ PollsSound'
      /\ poll'[w] = p /\ \A v \in Workers \ {w} : poll'[v] = poll[v]
    BY <1>1, <1>2, <1>4, OnePollSteps
<1>6. AlertTypes'
    BY <1>2, <1>5 DEF AlertsInv, AlertTypes
<1>7. ClaimsApart'
    BY <1>1, <1>2, <1>5, ClaimsKept
<1>8. SentBound'
    BY <1>2, <1>3, <1>5, BoundKept
<1> QED BY <1>5, <1>6, <1>7, <1>8 DEF AlertsInv

(* A step that sends nothing and leaves the claims alone.                  *)
LEMMA QuietSteps ==
    ASSUME AlertsInv, NEW w \in Workers, NEW p, NEW S,
           poll' = [poll EXCEPT ![w] = p], UNCHANGED <<group, detected, claim, sent, failures>>,
           alerted' = alerted \union S, S \subseteq poll[w].rows,
           dedup' \in [Groups -> [age: Nat, suppressed: Nat]],
           p \in PollRecord, PollSound(p, alerted'),
           p.rows = poll[w].rows, p.age = poll[w].age,
           poll[w].ok \subseteq p.ok \union alerted'
    PROVE  AlertsInv'
<1>1. /\ poll' \in [Workers -> PollRecord] /\ PollsSound'
      /\ poll'[w] = p /\ \A v \in Workers \ {w} : poll'[v] = poll[v]
    BY OnePollSteps
<1>2. AlertTypes'
    BY <1>1 DEF AlertsInv, AlertTypes
<1>3. ClaimsApart'
    BY <1>1, ClaimsKept
<1>4. SentBound'
    BY <1>1, BoundKept
<1> QED BY <1>1, <1>2, <1>3, <1>4 DEF AlertsInv

LEMMA RowsCounted ==
    ASSUME AlertsAssumption, NEW w \in Workers, poll[w] \in PollRecord, NEW g
    PROVE  Cardinality(RowsOf(w, g)) \in Nat
<1>1. RowsOf(w, g) \subseteq 1 .. NumSignals
    BY DEF RowsOf, PollRecord, Signals
<1>2. IsFiniteSet(1 .. NumSignals)
    BY FS_Interval DEF AlertsAssumption
<1> QED BY <1>1, <1>2, FS_Subset, FS_CardinalityType

LEMMA IncrementKeeps ==
    ASSUME PollsEndInTime, AlertsInv, NEW w \in Workers, NEW g \in Groups,
           IncrementSuppressed(w, g)
    PROVE  AlertsInv'
<1> DEFINE p == [poll[w] EXCEPT !.suppress = @ \ {g}]
           n == Cardinality(RowsOf(w, g))
<1>1. /\ poll' = [poll EXCEPT ![w] = p] /\ alerted' = alerted \union {}
      /\ UNCHANGED <<group, detected, claim, sent, failures>> /\ poll[w] \in PollRecord
      /\ poll[w].at = "suppress"
      /\ dedup' = [dedup EXCEPT ![g].suppressed = @ + n]
    BY DEF IncrementSuppressed, past, AlertsInv, AlertTypes
<1>2. n \in Nat
    BY <1>1, RowsCounted DEF PollsEndInTime
<1> HIDE DEF n
<1>3. dedup' \in [Groups -> [age: Nat, suppressed: Nat]]
    BY <1>1, <1>2 DEF AlertsInv, AlertTypes
<1>4. /\ p \in PollRecord /\ p.at = poll[w].at /\ p.age = poll[w].age
      /\ p.rows = poll[w].rows /\ p.muted = poll[w].muted
      /\ p.silent = poll[w].silent /\ p.dups = poll[w].dups
      /\ p.work = poll[w].work /\ p.ok = poll[w].ok
    BY <1>1 DEF PollRecord
<1> HIDE DEF p
<1>5. PollSound(p, alerted')
    BY <1>1, <1>4 DEF AlertsInv, PollsSound, PollSound
<1> QED BY <1>1, <1>3, <1>4, <1>5, QuietSteps

LEMMA MarkSilentKeeps ==
    ASSUME AlertsInv, NEW w \in Workers, MarkSilent(w)
    PROVE  AlertsInv'
<1> DEFINE S == poll[w].muted \union poll[w].silent \union poll[w].dups
           place == IF poll[w].work = {} THEN "release" ELSE "send"
           p == [poll[w] EXCEPT !.at = place]
<1>1. /\ poll' = [poll EXCEPT ![w] = p] /\ alerted' = alerted \union S
      /\ UNCHANGED <<group, detected, claim, dedup, sent, failures>>
      /\ poll[w] \in PollRecord /\ poll[w].at = "suppress"
    BY DEF MarkSilent, past, AlertsInv, AlertTypes
<1>2. /\ p \in PollRecord /\ p.at = place /\ p.age = poll[w].age
      /\ p.rows = poll[w].rows /\ p.muted = poll[w].muted
      /\ p.silent = poll[w].silent /\ p.dups = poll[w].dups
      /\ p.work = poll[w].work /\ p.ok = poll[w].ok
    BY <1>1 DEF PollRecord, PollPlaces
<1> HIDE DEF p
<1>3. PollSound(p, alerted')
    BY <1>1, <1>2 DEF AlertsInv, PollsSound, PollSound
<1>4. S \subseteq poll[w].rows /\ dedup' \in [Groups -> [age: Nat, suppressed: Nat]]
    BY <1>1 DEF AlertsInv, PollsSound, PollSound, AlertTypes
<1> HIDE DEF S
<1> QED BY <1>1, <1>2, <1>3, <1>4, QuietSteps

LEMMA MarkSentKeeps ==
    ASSUME AlertsInv, NEW w \in Workers, MarkSent(w)
    PROVE  AlertsInv'
<1> DEFINE p == [poll[w] EXCEPT !.at = "stamp"]
<1>1. /\ poll' = [poll EXCEPT ![w] = p] /\ alerted' = alerted \union poll[w].ok
      /\ UNCHANGED <<group, detected, claim, dedup, sent, failures>>
      /\ poll[w] \in PollRecord /\ poll[w].work = {}
    BY DEF MarkSent, past, AlertsInv, AlertTypes
<1>2. /\ p \in PollRecord /\ p.at = "stamp" /\ p.age = poll[w].age
      /\ p.rows = poll[w].rows /\ p.muted = poll[w].muted
      /\ p.silent = poll[w].silent /\ p.dups = poll[w].dups
      /\ p.work = {} /\ p.ok = poll[w].ok
    BY <1>1 DEF PollRecord, PollPlaces
<1> HIDE DEF p
<1>3. PollSound(p, alerted')
    BY <1>1, <1>2 DEF AlertsInv, PollsSound, PollSound
<1>4. poll[w].ok \subseteq poll[w].rows /\ dedup' \in [Groups -> [age: Nat, suppressed: Nat]]
    BY <1>1 DEF AlertsInv, PollsSound, PollSound, AlertTypes
<1> QED BY <1>1, <1>2, <1>3, <1>4, QuietSteps

(* What is stamped has been marked, so that forgetting it is harmless.     *)
LEMMA RecordSentKeeps ==
    ASSUME AlertsInv, NEW w \in Workers, NEW s \in Signals, RecordSent(w, s)
    PROVE  AlertsInv'
<1> DEFINE p == [poll[w] EXCEPT !.ok = @ \ {s}]
<1>1. /\ poll' = [poll EXCEPT ![w] = p] /\ alerted' = alerted \union {}
      /\ dedup' = [dedup EXCEPT ![group[s]] = [age |-> 0, suppressed |-> 0]]
      /\ UNCHANGED <<group, detected, claim, sent, failures>>
      /\ poll[w] \in PollRecord /\ poll[w].at = "stamp"
    BY DEF RecordSent, past, AlertsInv, AlertTypes
<1>2. /\ p \in PollRecord /\ p.at = "stamp" /\ p.age = poll[w].age
      /\ p.rows = poll[w].rows /\ p.muted = poll[w].muted
      /\ p.silent = poll[w].silent /\ p.dups = poll[w].dups
      /\ p.work = poll[w].work /\ p.ok = poll[w].ok \ {s}
    BY <1>1 DEF PollRecord
<1> HIDE DEF p
<1>3. PollSound(p, alerted') /\ poll[w].ok \subseteq alerted
    BY <1>1, <1>2 DEF AlertsInv, PollsSound, PollSound
<1>4. dedup' \in [Groups -> [age: Nat, suppressed: Nat]]
    BY <1>1 DEF AlertsInv, AlertTypes
<1> QED BY <1>1, <1>2, <1>3, <1>4, QuietSteps

LEMMA DeliveryFailsKeeps ==
    ASSUME AlertsInv, NEW w \in Workers, NEW s \in Signals, DeliveryFails(w, s)
    PROVE  AlertsInv'
<1> DEFINE p == [poll[w] EXCEPT !.work = @ \ {s}]
<1>1. /\ poll' = [poll EXCEPT ![w] = p] /\ alerted' = alerted \union {}
      /\ UNCHANGED <<group, detected, alerted, claim, dedup, sent>>
      /\ failures' = failures + 1
      /\ poll[w] \in PollRecord /\ poll[w].at = "send"
    BY DEF DeliveryFails, table, past, AlertsInv, AlertTypes
<1>2. /\ p \in PollRecord /\ p.at = "send" /\ p.age = poll[w].age
      /\ p.rows = poll[w].rows /\ p.muted = poll[w].muted
      /\ p.silent = poll[w].silent /\ p.dups = poll[w].dups
      /\ p.work = poll[w].work \ {s} /\ p.ok = poll[w].ok
    BY <1>1 DEF PollRecord
<1> HIDE DEF p
<1>3. PollSound(p, alerted')
    BY <1>1, <1>2 DEF AlertsInv, PollsSound, PollSound
<1>4. /\ poll' \in [Workers -> PollRecord] /\ PollsSound'
      /\ poll'[w] = p /\ \A v \in Workers \ {w} : poll'[v] = poll[v]
    BY <1>1, <1>2, <1>3, OnePollSteps
<1>5. AlertTypes'
    BY <1>1, <1>4 DEF AlertsInv, AlertTypes
<1>6. ClaimsApart'
    BY <1>1, <1>2, <1>4, ClaimsKept
<1>7. \A x \in Signals : Accounted(x) => Accounted(x)'
    BY <1>1, <1>2, <1>4 DEF Accounted
<1>8. \A x \in Signals : sent[x] \in Nat /\ failures \in Nat
    BY DEF AlertsInv, AlertTypes
<1>9. SentBound'
    BY <1>1, <1>7, <1>8 DEF AlertsInv, SentBound
<1> QED BY <1>4, <1>5, <1>6, <1>9 DEF AlertsInv

(* What a poll is about to send is not accounted for: no other poll has    *)
(* claimed it.                                                             *)
LEMMA WorkUnaccounted ==
    ASSUME AlertsInv, NEW w \in Workers, NEW s \in poll[w].work
    PROVE  ~ Accounted(s) /\ s \in Signals
<1>1. /\ s \in poll[w].rows /\ s \notin alerted /\ s \notin poll[w].ok
      /\ poll[w] \in PollRecord
    BY DEF AlertsInv, PollsSound, PollSound, AlertTypes
<1>2. \A v \in Workers \ {w} : s \notin poll[v].ok
    BY <1>1 DEF AlertsInv, PollsSound, PollSound, ClaimsApart
<1> QED BY <1>1, <1>2 DEF Accounted, PollRecord

LEMMA DeliverKeeps ==
    ASSUME AlertsInv, NEW w \in Workers, NEW s \in Signals, Deliver(w, s)
    PROVE  AlertsInv'
<1> DEFINE p == [poll[w] EXCEPT !.work = @ \ {s}, !.ok = @ \union {s}]
<1>1. /\ poll' = [poll EXCEPT ![w] = p] /\ alerted' = alerted \union {}
      /\ UNCHANGED <<group, detected, alerted, claim, dedup, failures>>
      /\ sent' = [x \in Signals |-> IF x \in {s} THEN sent[x] + 1 ELSE sent[x]]
      /\ poll[w] \in PollRecord /\ poll[w].at = "send" /\ s \in poll[w].work
    BY DEF Deliver, Sent, table, AlertsInv, AlertTypes
<1>2. /\ p \in PollRecord /\ p.at = "send" /\ p.age = poll[w].age
      /\ p.rows = poll[w].rows /\ p.muted = poll[w].muted
      /\ p.silent = poll[w].silent /\ p.dups = poll[w].dups
      /\ p.work = poll[w].work \ {s} /\ p.ok = poll[w].ok \union {s}
    BY <1>1 DEF PollRecord
<1> HIDE DEF p
<1>3. PollSound(p, alerted')
    BY <1>1, <1>2 DEF AlertsInv, PollsSound, PollSound
<1>4. /\ poll' \in [Workers -> PollRecord] /\ PollsSound'
      /\ poll'[w] = p /\ \A v \in Workers \ {w} : poll'[v] = poll[v]
    BY <1>1, <1>2, <1>3, OnePollSteps
<1>5. AlertTypes'
    BY <1>1, <1>4 DEF AlertsInv, AlertTypes
<1>6. ClaimsApart'
    BY <1>1, <1>2, <1>4, ClaimsKept
<1>7. \A x \in Signals : Accounted(x) \/ x = s => Accounted(x)'
    BY <1>1, <1>2, <1>4 DEF Accounted
<1>8. sent[s] <= failures
    BY <1>1, WorkUnaccounted DEF AlertsInv, SentBound
<1>9. \A x \in Signals : sent[x] \in Nat /\ failures \in Nat
    BY DEF AlertsInv, AlertTypes
<1>10. SentBound'
    <2>1. ASSUME NEW x \in Signals
          PROVE  /\ sent'[x] <= failures' + 1
                 /\ ~ Accounted(x)' => sent'[x] <= failures'
        <3>1. CASE x = s
            BY <1>1, <1>7, <1>8, <1>9, <3>1
        <3>2. CASE x # s
            BY <1>1, <1>7, <3>2 DEF AlertsInv, SentBound
        <3> QED BY <3>1, <3>2
    <2> QED BY <2>1 DEF SentBound
<1> QED BY <1>4, <1>5, <1>6, <1>10 DEF AlertsInv

(* Claims are handed back of rows that no other poll holds.                *)
LEMMA ReleaseKeeps ==
    ASSUME PollsEndInTime, AlertsInv, NEW w \in Workers, ReleaseClaims(w)
    PROVE  AlertsInv'
<1> DEFINE back == poll[w].rows \ alerted
<1>1. /\ poll' = [poll EXCEPT ![w] = NoPoll] /\ alerted' = alerted \union {}
      /\ UNCHANGED <<group, detected, alerted, dedup, sent, failures>>
      /\ claim' = [s \in Signals |-> IF s \in back THEN Free ELSE claim[s]]
      /\ poll[w].ok = {}
    BY DEF ReleaseClaims, past
<1>2. NoPoll \in PollRecord /\ PollSound(NoPoll, alerted') /\ NoPoll.rows = {}
    BY NoPollSound DEF NoPoll
<1>3. /\ poll' \in [Workers -> PollRecord] /\ PollsSound'
      /\ poll'[w] = NoPoll /\ \A v \in Workers \ {w} : poll'[v] = poll[v]
    BY <1>1, <1>2, OnePollSteps
<1>4. Free \in Nat
    BY DEF Free, PollsEndInTime, AlertsAssumption
<1>5. AlertTypes'
    BY <1>1, <1>3, <1>4 DEF AlertsInv, AlertTypes
<1>6. ClaimsApart'
    <2>1. \A u, v \in Workers : u # v => poll'[u].rows \intersect poll'[v].rows = {}
        BY <1>2, <1>3 DEF AlertsInv, ClaimsApart
    <2>2. ASSUME NEW v \in Workers \ {w}, NEW s \in poll[v].rows
          PROVE  claim'[s] = claim[s]
        BY <1>1, <2>2 DEF AlertsInv, ClaimsApart, AlertTypes, PollRecord
    <2> QED BY <1>2, <1>3, <2>1, <2>2 DEF AlertsInv, ClaimsApart
<1>7. SentBound'
    BY <1>1, <1>3, BoundKept
<1> QED BY <1>3, <1>5, <1>6, <1>7 DEF AlertsInv

(* What the poll had sent, or still sends, the count of failures makes up  *)
(* for.                                                                    *)
LEMMA PollDiesKeeps ==
    ASSUME PollsEndInTime, AlertsInv, NEW w \in Workers, PollDies(w)
    PROVE  AlertsInv'
<1>1. PICK S \in SUBSET poll[w].work :
          sent' = [s \in Signals |-> IF s \in S THEN sent[s] + 1 ELSE sent[s]]
    BY DEF PollDies, Sent
<1>2. /\ poll' = [poll EXCEPT ![w] = NoPoll] /\ alerted' = alerted \union {}
      /\ UNCHANGED <<group, detected, alerted, claim, dedup>>
      /\ failures' = failures + 1
    BY DEF PollDies, table
<1>3. NoPoll \in PollRecord /\ PollSound(NoPoll, alerted') /\ NoPoll.rows = {}
    BY NoPollSound DEF NoPoll
<1>4. /\ poll' \in [Workers -> PollRecord] /\ PollsSound'
      /\ poll'[w] = NoPoll /\ \A v \in Workers \ {w} : poll'[v] = poll[v]
    BY <1>2, <1>3, OnePollSteps
<1>5. AlertTypes'
    BY <1>1, <1>2, <1>4 DEF AlertsInv, AlertTypes
<1>6. ClaimsApart'
    BY <1>2, <1>3, <1>4, ClaimsKept
<1>7. \A s \in S : sent[s] <= failures
    BY WorkUnaccounted DEF AlertsInv, SentBound
<1>8. \A s \in Signals : sent[s] \in Nat /\ failures \in Nat /\ sent[s] <= failures + 1
    BY DEF AlertsInv, AlertTypes, SentBound
<1>9. \A s \in Signals : sent'[s] <= failures'
    BY <1>1, <1>2, <1>7, <1>8
<1>10. SentBound'
    BY <1>5, <1>9 DEF AlertTypes, SentBound
<1> QED BY <1>4, <1>5, <1>6, <1>10 DEF AlertsInv

(* A claim and the poll that holds it grow old together.                   *)
LEMMA TickKeeps ==
    ASSUME PollsEndInTime, AlertsInv, Tick
    PROVE  AlertsInv'
<1>1. /\ claim' = [s \in Signals |-> Older(claim[s], Free)]
      /\ dedup' = [g \in Groups |-> [dedup[g] EXCEPT !.age = Older(@, DedupWindow)]]
      /\ poll' = [w \in Workers |-> IF poll[w].at = "idle" THEN poll[w]
                                    ELSE [poll[w] EXCEPT !.age = @ + 1]]
      /\ \A w \in Workers : poll[w].at # "idle" => poll[w].age < MaxPoll
      /\ UNCHANGED <<group, detected, alerted, sent, failures>>
    BY DEF Tick
<1>2. \A w \in Workers :
          /\ poll'[w] \in PollRecord /\ poll'[w].at = poll[w].at
          /\ poll'[w].rows = poll[w].rows /\ poll'[w].ok = poll[w].ok
          /\ poll'[w].muted = poll[w].muted /\ poll'[w].silent = poll[w].silent
          /\ poll'[w].dups = poll[w].dups /\ poll'[w].work = poll[w].work
          /\ poll'[w].age = IF poll[w].at = "idle" THEN poll[w].age ELSE poll[w].age + 1
    <2>1. MaxPoll \in Nat /\ \A w \in Workers : poll[w] \in PollRecord
        BY DEF AlertsInv, AlertTypes, PollsEndInTime, AlertsAssumption
    <2>2. ASSUME NEW q \in PollRecord, q.age < MaxPoll, NEW r,
                 r = [q EXCEPT !.age = @ + 1]
          PROVE  /\ r \in PollRecord /\ r.at = q.at /\ r.rows = q.rows /\ r.ok = q.ok
                 /\ r.muted = q.muted /\ r.silent = q.silent /\ r.dups = q.dups
                 /\ r.work = q.work /\ r.age = q.age + 1
        BY <2>1, <2>2 DEF PollRecord
    <2> QED BY <1>1, <2>1, <2>2
<1>3. \A s \in Signals : claim'[s] \in Nat /\ claim[s] \in Nat /\ claim'[s] <= claim[s] + 1
    BY <1>1 DEF AlertsInv, AlertTypes, Older
<1>4. AlertTypes'
    <2>1. \A g \in Groups : dedup'[g] \in [age: Nat, suppressed: Nat]
        <3> TAKE g \in Groups
        <3>1. /\ dedup[g] \in [age: Nat, suppressed: Nat]
              /\ dedup'[g] = [dedup[g] EXCEPT !.age = Older(dedup[g].age, DedupWindow)]
            BY <1>1 DEF AlertsInv, AlertTypes
        <3>2. Older(dedup[g].age, DedupWindow) \in Nat
            BY <3>1 DEF Older
        <3> QED BY <3>1, <3>2
    <2>2. dedup' \in [Groups -> [age: Nat, suppressed: Nat]]
        BY <1>1, <2>1
    <2>3. poll' \in [Workers -> PollRecord]
        BY <1>1, <1>2
    <2>4. claim' \in [Signals -> Nat]
        BY <1>1, <1>3
    <2> QED BY <1>1, <2>2, <2>3, <2>4 DEF AlertsInv, AlertTypes
<1>5. PollsSound'
    BY <1>1, <1>2 DEF AlertsInv, PollsSound, PollSound
<1>6. ClaimsApart'
    <2>1. ASSUME NEW w \in Workers, NEW s \in poll[w].rows
          PROVE  claim'[s] <= poll'[w].age
        <3>1. /\ s \in Signals /\ poll[w].at # "idle" /\ claim[s] <= poll[w].age
              /\ poll[w].age \in Nat
            BY <2>1 DEF AlertsInv, AlertTypes, PollRecord, PollsSound, PollSound, ClaimsApart
        <3> QED BY <1>2, <1>3, <3>1
    <2> QED BY <1>2, <2>1 DEF AlertsInv, ClaimsApart
<1>7. SentBound'
    BY <1>1, <1>2 DEF AlertsInv, SentBound, Accounted
<1> QED BY <1>4, <1>5, <1>6, <1>7 DEF AlertsInv

LEMMA AlertsRestKeeps ==
    ASSUME PollsEndInTime, AlertsInv, Detect \/ UNCHANGED alertVars
    PROVE  AlertsInv'
<1>1. /\ UNCHANGED <<group, alerted, claim, dedup, poll, sent, failures>>
      /\ detected' \in 0 .. NumSignals
    BY DEF Detect, alertVars, table, past, AlertsInv, AlertTypes, PollsEndInTime, AlertsAssumption
<1> QED BY <1>1 DEF AlertsInv, AlertTypes, PollsSound, PollSound, ClaimsApart, SentBound, Accounted
-----------------------------------------------------------------------------
LEMMA AlertsStepKeeps ==
    ASSUME PollsEndInTime, AlertsInv, [AlertsNext]_alertVars
    PROVE  AlertsInv'
<1>1. ASSUME NEW w \in Workers, Claim(w) \/ Decide(w) \/ MarkSilent(w) \/ MarkSent(w)
                                \/ ReleaseClaims(w) \/ PollDies(w)
      PROVE  AlertsInv'
    BY <1>1, ClaimKeeps, DecideKeeps, MarkSilentKeeps, MarkSentKeeps, ReleaseKeeps,
       PollDiesKeeps
<1>2. ASSUME NEW w \in Workers, NEW g \in Groups, IncrementSuppressed(w, g)
      PROVE  AlertsInv'
    BY <1>2, IncrementKeeps
<1>3. ASSUME NEW w \in Workers, NEW s \in Signals,
             Deliver(w, s) \/ RecordSent(w, s) \/ DeliveryFails(w, s)
      PROVE  AlertsInv'
    BY <1>3, DeliverKeeps, RecordSentKeeps, DeliveryFailsKeeps
<1>4. CASE Tick
    BY <1>4, TickKeeps
<1>5. CASE Detect \/ UNCHANGED alertVars
    BY <1>5, AlertsRestKeeps
<1> QED BY <1>1, <1>2, <1>3, <1>4, <1>5 DEF AlertsNext, Step

(* The strengthened invariant holds in every reachable state.              *)
THEOREM AlertsInvariant ==
    ASSUME PollsEndInTime
    PROVE  AlertsSpec => []AlertsInv
<1>1. AlertsInit => AlertsInv
    BY AlertsInitEstablishes
<1>2. AlertsInv /\ [AlertsNext]_alertVars => AlertsInv'
    BY AlertsStepKeeps
<1> QED BY <1>1, <1>2, PTL DEF AlertsSpec

(* A signal is sent once, and again only for each poll that died, however  *)
(* many replicas share the shard: claim_unalerted_signals takes no row     *)
(* whose claim is younger than CLAIM_TIMEOUT_SECS.                         *)
THEOREM SentOnceHolds ==
    ASSUME PollsEndInTime
    PROVE  AlertsSpec => []SentOnce
<1>1. AlertsInv => SentOnce
    BY DEF AlertsInv, SentBound, SentOnce, AlertTypes
<1> QED BY <1>1, AlertsInvariant, PTL
-----------------------------------------------------------------------------
(* The dedup window.  Nothing is assumed of how long a poll takes: polls   *)
(* that overlap are part of what Undisturbed excludes.                     *)

WindowTypes ==
    /\ detected \in 0 .. NumSignals /\ group \in [Signals -> Groups]
    /\ poll \in [Workers -> PollRecord]
    /\ dedup \in [Groups -> [age: 0 .. DedupWindow, suppressed: Nat]]
    /\ ago \in [Groups -> 0 .. DedupWindow]
    /\ sent \in [Signals -> Nat] /\ failures \in Nat

(* A poll has work and deliveries only once it has decided.                *)
Early(p) == p.at \in {"idle", "decide"} => p.work = {} /\ p.ok = {}

Alone == \A v, w \in Workers : poll[v].at # "idle" /\ poll[w].at # "idle" => v = w

(* The window of a group is open for as long as its last alert is recent,  *)
(* or that alert still has to be stamped.                                  *)
Awaited(g) == \E w \in Workers : \E s \in poll[w].ok : group[s] = g

WindowKept == \A g \in Groups : dedup[g].age <= ago[g] \/ Awaited(g)

(* What a poll is about to send is one signal of each group whose window   *)
(* is closed.                                                              *)
WorkReady ==
    \A w \in Workers : \A s \in poll[w].work :
        /\ ago[group[s]] = DedupWindow
        /\ \A t \in poll[w].work : group[t] = group[s] => t = s

WindowSound ==
    /\ WindowTypes
    /\ \A w \in Workers : Early(poll[w])
    /\ Undisturbed => Alone /\ WindowKept /\ WorkReady

LEMMA NoPollTyped ==
    ASSUME AlertsAssumption
    PROVE  /\ NoPoll \in PollRecord /\ Early(NoPoll)
           /\ NoPoll.at = "idle" /\ NoPoll.work = {} /\ NoPoll.ok = {}
BY DEF AlertsAssumption, PollRecord, NoPoll, Early, PollPlaces

LEMMA WindowInit ==
    ASSUME AlertsAssumption, AlertsInit
    PROVE  WindowSound
<1>1. \A w \in Workers : poll[w] = NoPoll
    BY DEF AlertsInit
<1>2. WindowTypes
    BY NoPollTyped DEF AlertsAssumption, AlertsInit, WindowTypes
<1>3. \A w \in Workers : Early(poll[w]) /\ poll[w].at = "idle" /\ poll[w].work = {}
    BY <1>1, NoPollTyped
<1>4. WindowKept
    BY DEF WindowKept, AlertsInit, AlertsAssumption
<1> QED BY <1>2, <1>3, <1>4 DEF WindowSound, Alone, WorkReady

(* A step of worker w's poll.                                              *)
OnePoll(w, p) ==
    /\ poll' = [poll EXCEPT ![w] = p] /\ p \in PollRecord /\ Early(p)
    /\ UNCHANGED <<group, detected>>
    /\ dedup' \in [Groups -> [age: 0 .. DedupWindow, suppressed: Nat]]
    /\ ago' \in [Groups -> 0 .. DedupWindow]
    /\ sent' \in [Signals -> Nat] /\ failures' \in Nat

LEMMA OnePollTyped ==
    ASSUME WindowSound, NEW w \in Workers, NEW p, OnePoll(w, p)
    PROVE  /\ WindowTypes' /\ \A v \in Workers : Early(poll'[v])
           /\ poll'[w] = p /\ \A v \in Workers \ {w} : poll'[v] = poll[v]
<1>1. poll'[w] = p /\ \A v \in Workers \ {w} : poll'[v] = poll[v]
    BY DEF WindowSound, WindowTypes, OnePoll
<1>2. poll' \in [Workers -> PollRecord]
    BY DEF WindowSound, WindowTypes, OnePoll
<1>3. WindowTypes'
    BY <1>2 DEF WindowSound, WindowTypes, OnePoll
<1>4. \A v \in Workers : Early(poll'[v])
    BY <1>1 DEF WindowSound, OnePoll
<1> QED BY <1>1, <1>3, <1>4

(* A step that raises, or that leaves things disturbed.                    *)
LEMMA DisturbedKeeps ==
    ASSUME WindowSound, NEW w \in Workers, NEW p, OnePoll(w, p), ~ Undisturbed'
    PROVE  WindowSound'
BY OnePollTyped DEF WindowSound

(* A step that sends nothing and takes no work on.                         *)
LEMMA WorkOnlyShrinks ==
    ASSUME WindowSound, NEW w \in Workers, NEW p, OnePoll(w, p), UNCHANGED ago,
           Undisturbed' => Undisturbed /\ Alone',
           p.work \subseteq poll[w].work,
           \A g \in Groups : dedup'[g].age = dedup[g].age \/ dedup'[g].age = 0,
           \A s \in poll[w].ok : s \in p.ok \/ dedup'[group[s]].age = 0
    PROVE  WindowSound'
<1>1. /\ WindowTypes' /\ \A v \in Workers : Early(poll'[v])
      /\ poll'[w] = p /\ \A v \in Workers \ {w} : poll'[v] = poll[v]
    BY OnePollTyped
<1>2. ASSUME Undisturbed'
      PROVE  WindowKept' /\ WorkReady'
    <2>1. WindowKept /\ WorkReady
        BY <1>2 DEF WindowSound
    <2>2. group' = group /\ ago' = ago
        BY DEF OnePoll
    <2>3. ASSUME NEW g \in Groups
          PROVE  dedup'[g].age <= ago'[g] \/ Awaited(g)'
        <3>1. ago[g] \in Nat /\ (dedup'[g].age = 0 => dedup'[g].age <= ago[g])
            BY DEF WindowSound, WindowTypes
        <3>2. CASE dedup[g].age <= ago[g]
            BY <2>2, <3>1, <3>2
        <3>3. CASE Awaited(g)
            <4>1. PICK v \in Workers : \E s \in poll[v].ok : group[s] = g
                BY <3>3 DEF Awaited
            <4>2. PICK s \in poll[v].ok : group[s] = g
                BY <4>1
            <4>3. CASE v = w
                BY <1>1, <2>2, <3>1, <4>2, <4>3 DEF Awaited
            <4>4. CASE v # w
                BY <1>1, <2>2, <4>2, <4>4 DEF Awaited
            <4> QED BY <4>3, <4>4
        <3> QED BY <2>1, <3>2, <3>3 DEF WindowKept
    <2>4. WorkReady'
        BY <1>1, <2>1, <2>2 DEF WorkReady
    <2> QED BY <2>3, <2>4 DEF WindowKept
<1> QED BY <1>1, <1>2 DEF WindowSound

(* A worker whose poll goes on was under way alone before.                 *)
LEMMA StaysAlone ==
    ASSUME WindowSound, NEW w \in Workers, NEW p, OnePoll(w, p),
           poll[w].at # "idle" \/ p.at = "idle"
    PROVE  Undisturbed => Alone'
<1>1. poll'[w] = p /\ \A v \in Workers \ {w} : poll'[v] = poll[v]
    BY OnePollTyped
<1> QED BY <1>1 DEF WindowSound, Alone
-----------------------------------------------------------------------------
(* Beginning a poll while another is under way is noticed.                 *)
LEMMA ClaimKeepsWindow ==
    ASSUME AlertsAssumption, WindowSound, NEW w \in Workers, Claim(w)
    PROVE  WindowSound'
<1> DEFINE R == OldestOf(Claimable)
           p == [NoPoll EXCEPT !.at = "decide", !.rows = R]
<1>1. /\ poll' = [poll EXCEPT ![w] = p]
      /\ overlapped' = (overlapped \/ \E v \in Workers \ {w} : poll[v].at # "idle")
      /\ UNCHANGED <<group, detected, dedup, ago, sent, failures>> /\ poll[w].at = "idle"
    BY DEF Claim, past
<1>2. R \subseteq Signals
    <2>1. detected \in 0 .. NumSignals /\ NumSignals \in Nat
        BY DEF WindowSound, WindowTypes, AlertsAssumption
    <2>2. 1 .. detected \subseteq 1 .. NumSignals
        BY <2>1
    <2> QED BY <2>2 DEF OldestOf, Claimable, Signals
<1> HIDE DEF R
<1>3. p \in PollRecord /\ p.at = "decide" /\ p.work = {} /\ p.ok = {}
    BY <1>2, NoPollTyped DEF PollRecord, PollPlaces, NoPoll
<1> HIDE DEF p
<1>4. OnePoll(w, p)
    BY <1>1, <1>3 DEF OnePoll, Early, WindowSound, WindowTypes
<1>5. poll[w].ok = {}
    BY <1>1 DEF WindowSound, Early
<1>6. Undisturbed' => Undisturbed /\ Alone'
    <2> SUFFICES ASSUME Undisturbed' PROVE Undisturbed /\ Alone'
        OBVIOUS
    <2>1. ~ overlapped /\ failures = 0 /\ \A v \in Workers \ {w} : poll[v].at = "idle"
        BY <1>1 DEF Undisturbed
    <2>2. \A v \in Workers \ {w} : poll'[v] = poll[v]
        BY <1>4, OnePollTyped
    <2> QED BY <2>1, <2>2 DEF Undisturbed, Alone
<1> QED BY <1>1, <1>3, <1>4, <1>5, <1>6, WorkOnlyShrinks

(* A signal is picked to be sent of a group whose window is closed, and    *)
(* nothing delivered waits to be stamped then.                             *)
LEMMA DecideKeepsWindow ==
    ASSUME AlertsAssumption, WindowSound, NEW w \in Workers, Decide(w)
    PROVE  WindowSound'
<1>1. PICK p \in PollRecord :
          /\ poll' = [poll EXCEPT ![w] = p]
          /\ p.at = "suppress" /\ p.ok = poll[w].ok /\ p.rows = poll[w].rows
          /\ p.work \subseteq p.rows
          /\ \A s \in p.work : /\ ~ WithinWindow(group[s])
                               /\ \A t \in p.work : group[t] = group[s] => t = s
    <2>1. \A g \in Groups : dedup[g].suppressed \in Nat
        BY DEF WindowSound, WindowTypes
    <2> QED BY <2>1, Decided DEF WindowSound, WindowTypes
<1>2. /\ UNCHANGED <<group, detected, dedup, ago, sent, failures, overlapped>>
      /\ poll[w].at = "decide"
    BY DEF Decide, table, past
<1>3. p.work \subseteq Signals
    BY <1>1 DEF PollRecord
<1>4. poll[w].ok = {}
    BY <1>2 DEF WindowSound, Early
<1>5. OnePoll(w, p)
    BY <1>1, <1>2 DEF OnePoll, Early, WindowSound, WindowTypes
<1>6. /\ WindowTypes' /\ \A v \in Workers : Early(poll'[v])
      /\ poll'[w] = p /\ \A v \in Workers \ {w} : poll'[v] = poll[v]
    BY <1>5, OnePollTyped
<1>7. ASSUME Undisturbed'
      PROVE  Alone' /\ WindowKept' /\ WorkReady'
    <2>1. Undisturbed /\ Alone /\ WindowKept /\ WorkReady
        BY <1>2, <1>7 DEF WindowSound, Undisturbed
    <2>2. \A v \in Workers \ {w} : poll[v].work = {} /\ poll[v].ok = {}
        BY <1>2, <2>1 DEF Alone, WindowSound, Early
    <2>3. \A g \in Groups : dedup[g].age <= ago[g]
        BY <1>4, <2>1, <2>2 DEF WindowKept, Awaited
    <2>4. \A s \in p.work : ago[group[s]] = DedupWindow
        <3> TAKE s \in p.work
        <3>1. group[s] \in Groups /\ ~ (dedup[group[s]].age < DedupWindow)
            BY <1>1, <1>3 DEF WithinWindow, WindowSound, WindowTypes
        <3>2. dedup[group[s]] \in [age: 0 .. DedupWindow, suppressed: Nat]
            BY <3>1 DEF WindowSound, WindowTypes
        <3>3. ago[group[s]] \in 0 .. DedupWindow /\ DedupWindow \in Nat
            BY <3>1 DEF WindowSound, WindowTypes, AlertsAssumption
        <3>4. dedup[group[s]].age <= ago[group[s]] /\ dedup[group[s]].age \in Nat
            BY <2>3, <3>1, <3>2
        <3> QED BY <3>1, <3>3, <3>4
    <2>5. Alone'
        BY <1>2, <1>5, <2>1, StaysAlone
    <2>6. WindowKept'
        BY <1>2, <2>3 DEF WindowKept
    <2>7. WorkReady'
        BY <1>1, <1>2, <1>6, <2>2, <2>4 DEF WorkReady
    <2> QED BY <2>5, <2>6, <2>7
<1> QED BY <1>6, <1>7 DEF WindowSound

(* These steps leave a poll's work and deliveries alone.                   *)
LEMMA MarksKeepWindow ==
    ASSUME AlertsAssumption, WindowSound, NEW w \in Workers,
           MarkSilent(w) \/ MarkSent(w) \/ \E g \in Groups : IncrementSuppressed(w, g)
    PROVE  WindowSound'
<1> DEFINE p == poll'[w]
<1>1. /\ poll[w] \in PollRecord /\ poll[w].at \notin {"idle", "decide"}
      /\ UNCHANGED <<group, detected, ago, sent, failures, overlapped>>
    <2>1. poll[w] \in PollRecord
        BY DEF WindowSound, WindowTypes
    <2>2. /\ poll[w].at \notin {"idle", "decide"}
          /\ UNCHANGED <<group, detected, ago, sent, failures, overlapped>>
        BY DEF MarkSilent, MarkSent, IncrementSuppressed, past
    <2> QED BY <2>1, <2>2
<1>2. /\ poll' = [poll EXCEPT ![w] = p] /\ p \in PollRecord
      /\ p.at \notin {"idle", "decide"} /\ p.work = poll[w].work /\ p.ok = poll[w].ok
    <2>1. CASE MarkSilent(w)
        <3> DEFINE place == IF poll[w].work = {} THEN "release" ELSE "send"
        <3>1. p = [poll[w] EXCEPT !.at = place] /\ poll' = [poll EXCEPT ![w] = p]
            BY <2>1 DEF MarkSilent, WindowSound, WindowTypes
        <3> HIDE DEF p
        <3> QED BY <1>1, <3>1 DEF PollRecord, PollPlaces
    <2>2. CASE MarkSent(w)
        <3>1. p = [poll[w] EXCEPT !.at = "stamp"] /\ poll' = [poll EXCEPT ![w] = p]
            BY <2>2 DEF MarkSent, WindowSound, WindowTypes
        <3> HIDE DEF p
        <3> QED BY <1>1, <3>1 DEF PollRecord, PollPlaces
    <2>3. ASSUME NEW g \in Groups, IncrementSuppressed(w, g)
          PROVE  /\ poll' = [poll EXCEPT ![w] = p] /\ p \in PollRecord
                 /\ p.at \notin {"idle", "decide"} /\ p.work = poll[w].work
                 /\ p.ok = poll[w].ok
        <3>1. p = [poll[w] EXCEPT !.suppress = @ \ {g}] /\ poll' = [poll EXCEPT ![w] = p]
            BY <2>3 DEF IncrementSuppressed, WindowSound, WindowTypes
        <3> HIDE DEF p
        <3> QED BY <1>1, <3>1 DEF PollRecord, PollPlaces
    <2> QED BY <2>1, <2>2, <2>3
<1> HIDE DEF p
<1>3. /\ dedup' \in [Groups -> [age: 0 .. DedupWindow, suppressed: Nat]]
      /\ \A g \in Groups : dedup'[g].age = dedup[g].age
    <2>1. ASSUME NEW g \in Groups, IncrementSuppressed(w, g)
          PROVE  /\ dedup' \in [Groups -> [age: 0 .. DedupWindow, suppressed: Nat]]
                 /\ \A h \in Groups : dedup'[h].age = dedup[h].age
        <3> DEFINE n == Cardinality(RowsOf(w, g))
        <3>1. dedup' = [dedup EXCEPT ![g].suppressed = @ + n] /\ n \in Nat
            BY <1>1, <2>1, RowsCounted DEF IncrementSuppressed
        <3> HIDE DEF n
        <3> QED BY <3>1 DEF WindowSound, WindowTypes
    <2>2. CASE MarkSilent(w) \/ MarkSent(w)
        BY <2>2 DEF MarkSilent, MarkSent, WindowSound, WindowTypes
    <2> QED BY <2>1, <2>2
<1>4. OnePoll(w, p)
    BY <1>1, <1>2, <1>3 DEF OnePoll, Early, WindowSound, WindowTypes
<1>5. Undisturbed' => Undisturbed /\ Alone'
    BY <1>1, <1>4, StaysAlone DEF Undisturbed
<1> QED BY <1>1, <1>2, <1>3, <1>4, <1>5, WorkOnlyShrinks

(* Of the groups of a poll's work one is announced, the others are not its.*)
LEMMA DeliverKeepsWindow ==
    ASSUME AlertsAssumption, WindowSound, NEW w \in Workers, NEW s \in Signals,
           Deliver(w, s)
    PROVE  WindowSound'
<1> DEFINE p == [poll[w] EXCEPT !.work = @ \ {s}, !.ok = @ \union {s}]
<1>1. /\ poll' = [poll EXCEPT ![w] = p] /\ poll[w] \in PollRecord
      /\ UNCHANGED <<group, detected, dedup, failures, overlapped>>
      /\ sent' = [x \in Signals |-> IF x \in {s} THEN sent[x] + 1 ELSE sent[x]]
      /\ ago' = [g \in Groups |-> IF \E x \in {s} : group[x] = g THEN 0 ELSE ago[g]]
      /\ poll[w].at = "send" /\ s \in poll[w].work
    BY DEF Deliver, Sent, table, WindowSound, WindowTypes
<1>2. /\ p \in PollRecord /\ p.at = "send"
      /\ p.work = poll[w].work \ {s} /\ p.ok = poll[w].ok \union {s}
    BY <1>1 DEF PollRecord
<1> HIDE DEF p
<1>3. sent' \in [Signals -> Nat]
    BY <1>1 DEF WindowSound, WindowTypes
<1>4. ago' \in [Groups -> 0 .. DedupWindow]
    BY <1>1 DEF WindowSound, WindowTypes, AlertsAssumption
<1>5. OnePoll(w, p)
    BY <1>1, <1>2, <1>3, <1>4 DEF OnePoll, Early, WindowSound, WindowTypes
<1>6. /\ WindowTypes' /\ \A v \in Workers : Early(poll'[v])
      /\ poll'[w] = p /\ \A v \in Workers \ {w} : poll'[v] = poll[v]
    BY <1>5, OnePollTyped
<1>7. ASSUME Undisturbed'
      PROVE  Alone' /\ WindowKept' /\ WorkReady'
    <2>1. Undisturbed /\ Alone /\ WindowKept /\ WorkReady
        BY <1>1, <1>7 DEF WindowSound, Undisturbed
    <2>2. \A v \in Workers \ {w} : poll[v].work = {}
        BY <1>1, <2>1 DEF Alone, WindowSound, Early
    <2>3. Alone'
        BY <1>1, <1>5, <2>1, StaysAlone
    <2>4. ASSUME NEW g \in Groups
          PROVE  dedup'[g].age <= ago'[g] \/ Awaited(g)'
        <3>1. CASE group[s] = g
            BY <1>1, <1>2, <1>6, <3>1 DEF Awaited
        <3>2. CASE group[s] # g /\ dedup[g].age <= ago[g]
            BY <1>1, <3>2
        <3>3. CASE Awaited(g)
            <4>1. PICK v \in Workers : \E x \in poll[v].ok : group[x] = g
                BY <3>3 DEF Awaited
            <4>2. PICK x \in poll[v].ok : group[x] = g
                BY <4>1
            <4>3. x \in poll'[v].ok
                BY <1>2, <1>6, <4>2
            <4> QED BY <1>1, <4>2, <4>3 DEF Awaited
        <3> QED BY <2>1, <3>1, <3>2, <3>3 DEF WindowKept
    <2>5. WorkReady'
        <3>1. ASSUME NEW v \in Workers, NEW x \in poll'[v].work
              PROVE  /\ ago'[group'[x]] = DedupWindow
                     /\ \A t \in poll'[v].work : group'[t] = group'[x] => t = x
            <4>1. v = w /\ x \in poll[w].work /\ x # s /\ poll'[v].work \subseteq poll[w].work
                BY <1>2, <1>6, <2>2, <3>1
            <4>2. group[x] # group[s] /\ ago[group[x]] = DedupWindow
                  /\ \A t \in poll[w].work : group[t] = group[x] => t = x
                BY <1>1, <2>1, <4>1 DEF WorkReady
            <4>3. group[x] \in Groups
                BY <1>1, <4>1 DEF WindowSound, WindowTypes, PollRecord
            <4> QED BY <1>1, <4>1, <4>2, <4>3
        <3> QED BY <3>1 DEF WorkReady
    <2> QED BY <2>3, <2>4, <2>5 DEF WindowKept
<1> QED BY <1>6, <1>7 DEF WindowSound

(* The window of a group opens before its delivery is forgotten.           *)
LEMMA RecordSentKeepsWindow ==
    ASSUME AlertsAssumption, WindowSound, NEW w \in Workers, NEW s \in Signals,
           RecordSent(w, s)
    PROVE  WindowSound'
<1> DEFINE p == [poll[w] EXCEPT !.ok = @ \ {s}]
<1>1. /\ poll' = [poll EXCEPT ![w] = p] /\ poll[w] \in PollRecord
      /\ dedup' = [dedup EXCEPT ![group[s]] = [age |-> 0, suppressed |-> 0]]
      /\ UNCHANGED <<group, detected, ago, sent, failures, overlapped>>
      /\ poll[w].at = "stamp" /\ group[s] \in Groups
    BY DEF RecordSent, past, WindowSound, WindowTypes
<1>2. /\ p \in PollRecord /\ p.at = "stamp"
      /\ p.work = poll[w].work /\ p.ok = poll[w].ok \ {s}
    BY <1>1 DEF PollRecord
<1> HIDE DEF p
<1>3. /\ dedup' \in [Groups -> [age: 0 .. DedupWindow, suppressed: Nat]]
      /\ dedup'[group[s]].age = 0
      /\ \A g \in Groups : dedup'[g].age = dedup[g].age \/ dedup'[g].age = 0
    BY <1>1 DEF WindowSound, WindowTypes, AlertsAssumption
<1>4. OnePoll(w, p)
    BY <1>1, <1>2, <1>3 DEF OnePoll, Early, WindowSound, WindowTypes
<1>5. Undisturbed' => Undisturbed /\ Alone'
    BY <1>1, <1>4, StaysAlone DEF Undisturbed
<1> QED BY <1>1, <1>2, <1>3, <1>4, <1>5, WorkOnlyShrinks

LEMMA ReleaseKeepsWindow ==
    ASSUME AlertsAssumption, WindowSound, NEW w \in Workers, ReleaseClaims(w)
    PROVE  WindowSound'
<1>1. /\ poll' = [poll EXCEPT ![w] = NoPoll] /\ poll[w].ok = {}
      /\ UNCHANGED <<group, detected, dedup, ago, sent, failures, overlapped>>
    BY DEF ReleaseClaims, past
<1>2. OnePoll(w, NoPoll)
    BY <1>1, NoPollTyped DEF OnePoll, WindowSound, WindowTypes
<1>3. Undisturbed' => Undisturbed /\ Alone'
    BY <1>1, <1>2, NoPollTyped, StaysAlone DEF Undisturbed
<1> QED BY <1>1, <1>2, <1>3, NoPollTyped, WorkOnlyShrinks

LEMMA FailuresKeepWindow ==
    ASSUME AlertsAssumption, WindowSound, NEW w \in Workers,
           PollDies(w) \/ \E s \in Signals : DeliveryFails(w, s)
    PROVE  WindowSound'
<1>1. /\ UNCHANGED <<group, detected, dedup>> /\ failures' = failures + 1
      /\ failures \in Nat /\ poll[w] \in PollRecord
    BY DEF PollDies, DeliveryFails, table, WindowSound, WindowTypes
<1>2. ~ Undisturbed'
    BY <1>1 DEF Undisturbed
<1>3. CASE PollDies(w)
    <2>1. PICK S \in SUBSET (IF poll[w].at = "send" THEN poll[w].work ELSE {}) : Sent(w, S)
        BY <1>3 DEF PollDies
    <2>2. sent' \in [Signals -> Nat] /\ ago' \in [Groups -> 0 .. DedupWindow]
        BY <2>1 DEF Sent, WindowSound, WindowTypes, AlertsAssumption
    <2>3. OnePoll(w, NoPoll)
        BY <1>1, <1>3, <2>2, NoPollTyped DEF PollDies, OnePoll, WindowSound, WindowTypes
    <2> QED BY <1>2, <2>3, DisturbedKeeps
<1>4. ASSUME NEW s \in Signals, DeliveryFails(w, s)
      PROVE  WindowSound'
    <2> DEFINE p == [poll[w] EXCEPT !.work = @ \ {s}]
    <2>1. /\ poll' = [poll EXCEPT ![w] = p] /\ UNCHANGED <<sent, ago>>
          /\ poll[w].at = "send"
        BY <1>4 DEF DeliveryFails, past
    <2>2. p \in PollRecord /\ p.at = "send"
        BY <1>1, <2>1 DEF PollRecord
    <2> HIDE DEF p
    <2>3. OnePoll(w, p)
        BY <1>1, <2>1, <2>2 DEF OnePoll, Early, WindowSound, WindowTypes
    <2> QED BY <1>2, <2>3, DisturbedKeeps
<1> QED BY <1>3, <1>4

(* A window and the alert that opened it grow old together.                *)
LEMMA TickKeepsWindow ==
    ASSUME AlertsAssumption, WindowSound, Tick
    PROVE  WindowSound'
<1>1. /\ dedup' = [g \in Groups |-> [dedup[g] EXCEPT !.age = Older(@, DedupWindow)]]
      /\ ago' = [g \in Groups |-> Older(ago[g], DedupWindow)]
      /\ poll' = [w \in Workers |-> IF poll[w].at = "idle" THEN poll[w]
                                    ELSE [poll[w] EXCEPT !.age = @ + 1]]
      /\ \A w \in Workers : poll[w].at # "idle" => poll[w].age < MaxPoll
      /\ UNCHANGED <<group, detected, sent, failures, overlapped>>
    BY DEF Tick
<1>2. \A w \in Workers :
          /\ poll'[w] \in PollRecord /\ poll'[w].at = poll[w].at
          /\ poll'[w].ok = poll[w].ok /\ poll'[w].work = poll[w].work
    <2>1. MaxPoll \in Nat /\ \A w \in Workers : poll[w] \in PollRecord
        BY DEF WindowSound, WindowTypes, AlertsAssumption
    <2>2. ASSUME NEW q \in PollRecord, q.age < MaxPoll, NEW r,
                 r = [q EXCEPT !.age = @ + 1]
          PROVE  r \in PollRecord /\ r.at = q.at /\ r.ok = q.ok /\ r.work = q.work
        BY <2>1, <2>2 DEF PollRecord
    <2> QED BY <1>1, <2>1, <2>2
<1>3. ASSUME NEW g \in Groups
      PROVE  /\ dedup'[g] \in [age: 0 .. DedupWindow, suppressed: Nat]
             /\ ago'[g] \in 0 .. DedupWindow
             /\ ago[g] = DedupWindow => ago'[g] = DedupWindow
             /\ dedup[g].age <= ago[g] => dedup'[g].age <= ago'[g]
    <2>1. /\ dedup[g] \in [age: 0 .. DedupWindow, suppressed: Nat]
          /\ ago[g] \in 0 .. DedupWindow /\ DedupWindow \in Nat
        BY DEF WindowSound, WindowTypes, AlertsAssumption
    <2>2. dedup'[g] = [dedup[g] EXCEPT !.age = Older(dedup[g].age, DedupWindow)]
          /\ ago'[g] = Older(ago[g], DedupWindow)
        BY <1>1
    <2>3. Older(dedup[g].age, DedupWindow) \in 0 .. DedupWindow
        BY <2>1 DEF Older
    <2>4. dedup'[g] \in [age: 0 .. DedupWindow, suppressed: Nat]
          /\ dedup'[g].age = Older(dedup[g].age, DedupWindow)
        BY <2>1, <2>2, <2>3
    <2> QED BY <2>1, <2>2, <2>4 DEF Older
<1>4. WindowTypes'
    <2>1. dedup' \in [Groups -> [age: 0 .. DedupWindow, suppressed: Nat]]
        BY <1>1, <1>3
    <2>2. ago' \in [Groups -> 0 .. DedupWindow]
        BY <1>1, <1>3
    <2>3. poll' \in [Workers -> PollRecord]
        BY <1>1, <1>2
    <2> QED BY <1>1, <2>1, <2>2, <2>3 DEF WindowSound, WindowTypes
<1>5. \A w \in Workers : Early(poll'[w])
    BY <1>2 DEF WindowSound, Early
<1>6. ASSUME Undisturbed'
      PROVE  Alone' /\ WindowKept' /\ WorkReady'
    <2>1. Alone /\ WindowKept /\ WorkReady
        BY <1>1, <1>6 DEF WindowSound, Undisturbed
    <2>2. Alone'
        BY <1>2, <2>1 DEF Alone
    <2>3. \A g \in Groups : Awaited(g) => Awaited(g)'
        BY <1>1, <1>2 DEF Awaited
    <2>4. WindowKept'
        BY <1>3, <2>1, <2>3 DEF WindowKept
    <2>5. \A w \in Workers : \A s \in poll[w].work : group[s] \in Groups
        BY DEF WindowSound, WindowTypes, PollRecord
    <2>6. \A w \in Workers : \A s \in poll[w].work : ago'[group[s]] = DedupWindow
        BY <1>3, <2>1, <2>5 DEF WorkReady
    <2>7. group' = group /\ \A w \in Workers : poll'[w].work = poll[w].work
        BY <1>1, <1>2
    <2>8. WorkReady'
        BY <2>1, <2>6, <2>7 DEF WorkReady
    <2> QED BY <2>2, <2>4, <2>8
<1> QED BY <1>4, <1>5, <1>6 DEF WindowSound

LEMMA RestKeepsWindow ==
    ASSUME AlertsAssumption, WindowSound, Detect \/ UNCHANGED alertVars
    PROVE  WindowSound'
<1>1. /\ UNCHANGED <<group, dedup, poll, ago, sent, failures, overlapped>>
      /\ detected' \in 0 .. NumSignals
    BY DEF Detect, alertVars, table, past, WindowSound, WindowTypes, AlertsAssumption
<1> QED BY <1>1 DEF WindowSound, WindowTypes, Early, Alone, WindowKept, WorkReady,
                   Awaited, Undisturbed
-----------------------------------------------------------------------------
LEMMA StepKeepsWindow ==
    ASSUME AlertsAssumption, WindowSound, [AlertsNext]_alertVars
    PROVE  WindowSound'
<1>1. ASSUME NEW w \in Workers, Claim(w) \/ Decide(w) \/ ReleaseClaims(w)
      PROVE  WindowSound'
    BY <1>1, ClaimKeepsWindow, DecideKeepsWindow, ReleaseKeepsWindow
<1>2. ASSUME NEW w \in Workers,
             MarkSilent(w) \/ MarkSent(w) \/ \E g \in Groups : IncrementSuppressed(w, g)
      PROVE  WindowSound'
    BY <1>2, MarksKeepWindow
<1>3. ASSUME NEW w \in Workers, NEW s \in Signals, Deliver(w, s) \/ RecordSent(w, s)
      PROVE  WindowSound'
    BY <1>3, DeliverKeepsWindow, RecordSentKeepsWindow
<1>4. ASSUME NEW w \in Workers, PollDies(w) \/ \E s \in Signals : DeliveryFails(w, s)
      PROVE  WindowSound'
    BY <1>4, FailuresKeepWindow
<1>5. CASE Tick
    BY <1>5, TickKeepsWindow
<1>6. CASE Detect \/ UNCHANGED alertVars
    BY <1>6, RestKeepsWindow
<1> QED BY <1>1, <1>2, <1>3, <1>4, <1>5, <1>6 DEF AlertsNext, Step

(* A group's window covers its last alert, or that alert is still to be    *)
(* stamped, and no poll has work of a group whose window is open.          *)
THEOREM WindowInvariant ==
    ASSUME AlertsAssumption
    PROVE  AlertsSpec => []WindowSound
<1>1. AlertsInit => WindowSound
    BY WindowInit
<1>2. WindowSound /\ [AlertsNext]_alertVars => WindowSound'
    BY StepKeepsWindow
<1> QED BY <1>1, <1>2, PTL DEF AlertsSpec

(* Only work is sent.                                                      *)
LEMMA OnlyWorkSent ==
    ASSUME AlertsAssumption, WindowSound, [AlertsNext]_alertVars, NEW s \in Signals,
           sent'[s] > sent[s]
    PROVE  \E w \in Workers : s \in poll[w].work
<1>1. sent[s] \in Nat
    BY DEF WindowSound, WindowTypes
<1>2. sent' # sent
    BY <1>1
<1>3. \E w \in Workers : \E S \in SUBSET poll[w].work : Sent(w, S)
    <2>1. ASSUME NEW w \in Workers,
                 Claim(w) \/ Decide(w) \/ MarkSilent(w) \/ MarkSent(w) \/ ReleaseClaims(w)
          PROVE  sent' = sent
        BY <2>1 DEF Claim, Decide, MarkSilent, MarkSent, ReleaseClaims, past
    <2>2. ASSUME NEW w \in Workers, NEW g \in Groups, IncrementSuppressed(w, g)
          PROVE  sent' = sent
        BY <2>2 DEF IncrementSuppressed, past
    <2>3. ASSUME NEW w \in Workers, NEW x \in Signals, RecordSent(w, x) \/ DeliveryFails(w, x)
          PROVE  sent' = sent
        BY <2>3 DEF RecordSent, DeliveryFails, past
    <2>4. ASSUME Detect \/ Tick \/ UNCHANGED alertVars
          PROVE  sent' = sent
        BY <2>4 DEF Detect, Tick, alertVars, past
    <2>5. ASSUME NEW w \in Workers, NEW x \in Signals, Deliver(w, x)
          PROVE  {x} \in SUBSET poll[w].work /\ Sent(w, {x})
        BY <2>5 DEF Deliver
    <2>6. ASSUME NEW w \in Workers, PollDies(w)
          PROVE  \E S \in SUBSET poll[w].work : Sent(w, S)
        <3>1. (IF poll[w].at = "send" THEN poll[w].work ELSE {}) \subseteq poll[w].work
            OBVIOUS
        <3> QED BY <2>6, <3>1 DEF PollDies
    <2> QED BY <1>2, <2>1, <2>2, <2>3, <2>4, <2>5, <2>6 DEF AlertsNext, Step
<1>4. PICK w \in Workers : \E S \in SUBSET poll[w].work : Sent(w, S)
    BY <1>3
<1>5. PICK S \in SUBSET poll[w].work : Sent(w, S)
    BY <1>4
<1>6. s \in S
    BY <1>1, <1>5 DEF Sent
<1> QED BY <1>5, <1>6

(* No group is alerted twice within its window as long as polls neither    *)
(* overlap nor fail: record_alert_sent opens the window two statements     *)
(* after the send, and is_within_dedup_window is asked only once per poll. *)
THEOREM OneAlertPerWindowHolds ==
    ASSUME AlertsAssumption
    PROVE  AlertsSpec => OneAlertPerWindow
<1> DEFINE Kept == \A s \in Signals :
              Undisturbed /\ sent'[s] > sent[s] => ago[group[s]] = DedupWindow
<1>1. WindowSound /\ [AlertsNext]_alertVars => Kept
    BY OnlyWorkSent DEF WindowSound, WorkReady
<1>2. Kept => [Kept]_alertVars
    OBVIOUS
<1> QED BY <1>1, <1>2, WindowInvariant, PTL DEF AlertsSpec, OneAlertPerWindow
=============================================================================
