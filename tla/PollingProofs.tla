--------------------------- MODULE PollingProofs ----------------------------
(***************************************************************************)
(* Proofs about the workers that poll for finished runs.                   *)
(*                                                                         *)
(* DetectorPoll: nothing a running worker owes is out of reach of its next *)
(* poll, for any runs, batch sizes, grace and stall timeout, and any       *)
(* number of events, failures, crashes and stops.                          *)
(*                                                                         *)
(* Semantic: no evaluation goes unpaid, for any runs, tasks, evaluators,   *)
(* ceilings and batches, whatever fails.                                   *)
(***************************************************************************)
EXTENDS DetectorPoll, Semantic, FiniteSetTheorems, WellFoundedInduction, TLAPS

PollTypes ==
    /\ batchSize \in Nat \ {0} /\ now \in Nat
    /\ started \in [Runs -> Nat] /\ last \in [Runs -> Nat]
    /\ ended \in [Runs -> BOOLEAN] /\ count \in [Runs -> Nat]
    /\ processed \in [Runs -> [done: BOOLEAN, count: Nat, failed: BOOLEAN]]
    /\ mark \in Int /\ pc \in {"sleep", "completed", "stalled", "process", "down"}
    /\ completed \subseteq Runs /\ stalled \subseteq Runs /\ todo \subseteq Runs
    /\ working \in [Runs -> Nat]

(* The watermark stays a grace behind the clock, and the poll holds only   *)
(* what its phase has fetched.                                             *)
PhaseSound ==
    /\ mark = NoMark \/ mark <= now - Grace
    /\ pc \notin {"completed", "stalled"} => completed = {}
    /\ pc # "stalled" => stalled = {}
    /\ pc # "process" => todo = {}

Fetching    == pc \in {"completed", "stalled"}
ShortRun(r) == last[r] - started[r] =< Grace - StallTimeout

(* What the poll holds of a run would be found again if the poll were cut  *)
(* short before it is processed; events that come while it is processed    *)
(* are newer than the watermark.                                           *)
HeldSound(r) ==
    /\ started[r] <= last[r] /\ last[r] <= now
    /\ r \in completed => ended[r] /\ After(last[r], mark)
    /\ r \in stalled => After(started[r], mark)
    /\ working[r] > 0 => /\ r \in todo /\ working[r] <= count[r]
                         /\ count[r] > working[r] => After(last[r], mark)

(* A run is in reach, and while a poll fetches, a batch that is not full   *)
(* leaves behind only what has changed since.                              *)
InReach(r) ==
    r \notin struck =>
        /\ Waiting(r) => Seen(r, last[r])
        /\ Stuck(r) /\ ShortRun(r) => Seen(r, started[r])
        /\ Fetching /\ Cardinality(completed) < batchSize /\ Waiting(r)
              => r \in completed \/ last[r] = now
        /\ pc = "stalled" /\ Cardinality(stalled) < batchSize /\ Stuck(r) /\ ShortRun(r)
              => r \in stalled

PollInv == PollTypes /\ PhaseSound /\ \A r \in Runs : HeldSound(r) /\ InReach(r)
-----------------------------------------------------------------------------
(* The batches: a batch that is not full is everything there was.          *)

LEMMA LeastNumber ==
    ASSUME NEW S \in SUBSET Nat, S # {}
    PROVE  \E x \in S : \A y \in S : ~ (y < x)
<1> DEFINE R == OpToRel(<, Nat)
<1>1. IsWellFoundedOn(R, Nat)
    BY NatLessThanWellFounded
<1>2. \A x, y \in Nat : <<y, x>> \in R <=> y < x
    BY DEF OpToRel
<1> HIDE DEF R
<1>3. PICK x \in S : \A y \in S : ~ (<<y, x>> \in R)
    BY <1>1, WFMin
<1> QED BY <1>2, <1>3

LEMMA FirstOfAll ==
    ASSUME NEW S \in SUBSET Runs, batchSize \in Nat, Cardinality(FirstOf(S)) < batchSize
    PROVE  FirstOf(S) = S
<1> DEFINE Before(r) == {s \in S : s < r}
           left == S \ FirstOf(S)
<1>1. Runs \subseteq Nat /\ IsFiniteSet(Runs)
    BY PollAssumption
<1>2. FirstOf(S) \subseteq S /\ \A r \in S : r \in FirstOf(S) <=> Cardinality(Before(r)) < batchSize
    BY DEF FirstOf
<1>3. CASE left # {}
    <2>1. PICK x \in left : \A y \in left : ~ (y < x)
        BY <1>1, <1>2, <1>3, LeastNumber
    <2>2. Before(x) \subseteq FirstOf(S)
        BY <2>1
    <2>3. IsFiniteSet(FirstOf(S))
        BY <1>1, <1>2, FS_Subset
    <2>4. Cardinality(Before(x)) <= Cardinality(FirstOf(S))
        BY <2>2, <2>3, FS_Subset
    <2>5. Cardinality(Before(x)) \in Nat /\ Cardinality(FirstOf(S)) \in Nat
        BY <2>2, <2>3, FS_Subset, FS_CardinalityType
    <2> HIDE DEF Before
    <2> QED BY <1>2, <2>1, <2>4, <2>5
<1> QED BY <1>2, <1>3

LEMMA SomeOfAll ==
    ASSUME NEW S \in SUBSET Runs, NEW T \in SomeOf(S), batchSize \in Nat,
           Cardinality(T) < batchSize
    PROVE  T = S
<1>1. CASE Cardinality(S) =< batchSize
    BY <1>1 DEF SomeOf
<1>2. CASE ~ (Cardinality(S) =< batchSize)
    <2>1. Cardinality(T) = batchSize
        BY <1>2 DEF SomeOf, kSubset
    <2> QED BY <2>1
<1> QED BY <1>1, <1>2

LEMMA BatchesAreParts ==
    ASSUME NEW S \in SUBSET Runs
    PROVE  FirstOf(S) \subseteq S /\ \A T \in SomeOf(S) : T \subseteq S
BY DEF FirstOf, SomeOf, kSubset
-----------------------------------------------------------------------------
LEMMA PollInitially == Init => PollInv
<1> SUFFICES ASSUME Init PROVE PollInv
    OBVIOUS
<1>1. PollTypes /\ PhaseSound
    BY PollAssumption DEF Init, PollTypes, PhaseSound, NoMark
<1>2. ASSUME NEW r \in Runs PROVE HeldSound(r) /\ InReach(r)
    BY <1>2 DEF Init, HeldSound, InReach, Waiting, Stuck, Fetching
<1> QED BY <1>1, <1>2 DEF PollInv

(* An event is newer than the watermark, and ends the silence.             *)
LEMMA EventKeeps ==
    ASSUME PollInv, NEW r \in Runs, Arrive(r),
           started' \in {started, [started EXCEPT ![r] = now]},
           ended' \in {ended, [ended EXCEPT ![r] = TRUE]}
    PROVE  PollInv'
<1>1. /\ count' = [count EXCEPT ![r] = @ + 1] /\ last' = [last EXCEPT ![r] = now]
      /\ UNCHANGED <<batchSize, now, processed, mark, pc, completed, stalled, todo,
                     working, struck>>
    BY DEF Arrive, frame, tables, poll
<1>2. /\ now \in Nat /\ mark \in Int /\ Grace \in Nat /\ StallTimeout \in Nat
      /\ StallTimeout > 0 /\ Grace >= StallTimeout /\ now - Grace < now
    BY PollAssumption DEF PollInv, PollTypes
<1>3. After(now, mark)
    BY <1>2 DEF After, PollInv, PhaseSound
<1>4. PollTypes' /\ PhaseSound'
    <2>1. started' \in [Runs -> Nat] /\ ended' \in [Runs -> BOOLEAN]
        BY <1>2 DEF PollInv, PollTypes
    <2>2. count' \in [Runs -> Nat] /\ last' \in [Runs -> Nat]
        BY <1>1, <1>2 DEF PollInv, PollTypes
    <2> QED BY <1>1, <2>1, <2>2 DEF PollInv, PollTypes, PhaseSound
<1>5. \A s \in Runs \ {r} : /\ count'[s] = count[s] /\ last'[s] = last[s]
                            /\ started'[s] = started[s] /\ ended'[s] = ended[s]
    BY <1>1 DEF PollInv, PollTypes
<1>6. /\ count'[r] = count[r] + 1 /\ last'[r] = now
      /\ started'[r] \in {started[r], now} /\ (ended[r] => ended'[r])
    BY <1>1 DEF PollInv, PollTypes
<1>7. ASSUME NEW s \in Runs \ {r} PROVE HeldSound(s)' /\ InReach(s)'
    BY <1>1, <1>5, <1>7 DEF PollInv, HeldSound, InReach, Waiting, Pending, Stuck, Silent,
       ShortRun, Seen, Found, After, Fetching
<1>8. HeldSound(r)'
    <2>1. (started'[r] = now /\ After(started'[r], mark)) \/ started'[r] = started[r]
        BY <1>3, <1>6
    <2>2. started[r] <= now /\ started[r] \in Nat /\ last[r] \in Nat
        BY <1>2 DEF PollInv, HeldSound, PollTypes
    <2>3. started'[r] <= last'[r] /\ last'[r] <= now'
        BY <1>1, <1>2, <1>6, <2>2
    <2>4. r \in completed => ended'[r] /\ After(last'[r], mark)
        BY <1>3, <1>6 DEF PollInv, HeldSound
    <2>5. r \in stalled => After(started'[r], mark)
        BY <1>3, <1>6 DEF PollInv, HeldSound
    <2>6. working[r] > 0 => r \in todo /\ working[r] <= count'[r]
        BY <1>6 DEF PollInv, HeldSound, PollTypes
    <2> QED BY <1>1, <1>3, <1>6, <2>3, <2>4, <2>5, <2>6 DEF HeldSound, After
<1>9. InReach(r)'
    <2>1. ~ Stuck(r)'
        BY <1>1, <1>2, <1>6 DEF Stuck, Silent
    <2>2. Seen(r, last[r])'
        BY <1>1, <1>3, <1>6 DEF Seen, After
    <2> QED BY <1>1, <1>6, <2>1, <2>2 DEF InReach
<1> QED BY <1>4, <1>7, <1>8, <1>9 DEF PollInv

(* A run that falls silent is younger than the grace allows for, if it is  *)
(* a short one.                                                            *)
LEMMA TickKeeps ==
    ASSUME PollInv, Tick
    PROVE  PollInv'
<1>1. /\ now' = now + 1 /\ pc \notin {"completed", "stalled"}
      /\ UNCHANGED <<batchSize, started, last, ended, count, processed, mark, pc,
                     completed, stalled, todo, working, struck>>
    BY DEF Tick, events, tables, bounds
<1>2. /\ now \in Nat /\ mark \in Int /\ Grace \in Nat /\ StallTimeout \in Nat
      /\ StallTimeout > 0 /\ Grace >= StallTimeout
    BY PollAssumption DEF PollInv, PollTypes
<1>3. PollTypes' /\ PhaseSound'
    BY <1>1, <1>2 DEF PollInv, PollTypes, PhaseSound
<1>4. ASSUME NEW r \in Runs PROVE HeldSound(r)' /\ InReach(r)'
    <2>1. started[r] \in Nat /\ last[r] \in Nat
        BY DEF PollInv, PollTypes
    <2>2. HeldSound(r)'
        BY <1>1, <1>2, <2>1 DEF PollInv, HeldSound, After
    <2>3. /\ Waiting(r)' <=> Waiting(r)
          /\ ShortRun(r)' <=> ShortRun(r)
          /\ \A t : Seen(r, t)' <=> Seen(r, t)
        BY <1>1 DEF Waiting, Pending, ShortRun, Seen, Found, After
    <2>4. ASSUME ~ Silent(r), ShortRun(r) PROVE Seen(r, started[r])
        <3>1. started[r] > now - Grace
            BY <1>2, <2>1, <2>4 DEF Silent, ShortRun
        <3>2. mark = NoMark \/ mark <= now - Grace
            BY DEF PollInv, PhaseSound
        <3>3. After(started[r], mark)
            BY <1>2, <2>1, <3>1, <3>2 DEF After
        <3> QED BY <3>3 DEF Seen
    <2>5. Stuck(r)' => Stuck(r) \/ ~ Silent(r)
        BY <1>1 DEF Stuck
    <2>6. InReach(r)'
        BY <1>1, <2>3, <2>4, <2>5 DEF PollInv, InReach, Fetching
    <2> QED BY <2>2, <2>6
<1> QED BY <1>3, <1>4 DEF PollInv
-----------------------------------------------------------------------------
(* The first query returns every run that waits, unless the batch is full. *)
LEMMA FetchCompletedKeeps ==
    ASSUME PollInv, FetchCompleted
    PROVE  PollInv'
<1> DEFINE C == CompletedRuns(mark)
<1>1. /\ pc = "sleep" /\ pc' = "completed" /\ completed' = FirstOf(C)
      /\ UNCHANGED <<batchSize, now, started, last, ended, count, processed, mark,
                     stalled, todo, working, struck>>
    BY DEF FetchCompleted, frame, events, tables
<1>2. C \subseteq Runs /\ FirstOf(C) \subseteq C
    BY BatchesAreParts DEF CompletedRuns
<1>3. \A r \in C : ended[r] /\ After(last[r], mark)
    BY DEF CompletedRuns
<1>4. completed = {} /\ stalled = {} /\ todo = {} /\ batchSize \in Nat
    BY <1>1 DEF PollInv, PollTypes, PhaseSound
<1>5. Cardinality(FirstOf(C)) < batchSize => FirstOf(C) = C
    BY <1>2, <1>4, FirstOfAll
<1>6. \A r \in Runs \ struck : Waiting(r) => r \in C
    BY <1>4 DEF PollInv, InReach, Seen, Found, Waiting, CompletedRuns
<1> HIDE DEF C
<1>7. PollTypes' /\ PhaseSound'
    BY <1>1, <1>2, <1>4 DEF PollInv, PollTypes, PhaseSound
<1>8. ASSUME NEW r \in Runs PROVE HeldSound(r)' /\ InReach(r)'
    <2>1. HeldSound(r)'
        BY <1>1, <1>2, <1>3 DEF PollInv, HeldSound, After
    <2>2. /\ Waiting(r)' <=> Waiting(r)
          /\ Stuck(r)' <=> Stuck(r)
          /\ ShortRun(r)' <=> ShortRun(r)
          /\ \A t : Seen(r, t) => Seen(r, t)'
        BY <1>1, <1>4 DEF Waiting, Pending, Stuck, Silent, ShortRun, Seen, Found, After
    <2>3. InReach(r)'
        BY <1>1, <1>5, <1>6, <2>2 DEF PollInv, InReach
    <2> QED BY <2>1, <2>3
<1> QED BY <1>7, <1>8 DEF PollInv

(* So does the second, of the short runs that have stalled.                *)
LEMMA FetchStalledKeeps ==
    ASSUME PollInv, FetchStalled
    PROVE  PollInv'
<1> DEFINE T == StalledRuns(mark)
<1>1. /\ pc = "completed" /\ pc' = "stalled" /\ stalled' \in SomeOf(T)
      /\ UNCHANGED <<batchSize, now, started, last, ended, count, processed, mark,
                     completed, todo, working, struck>>
    BY DEF FetchStalled, frame, events, tables
<1>2. T \subseteq Runs /\ stalled' \subseteq T
    BY <1>1, BatchesAreParts DEF StalledRuns
<1>3. \A r \in T : After(started[r], mark)
    BY DEF StalledRuns
<1>4. stalled = {} /\ todo = {} /\ batchSize \in Nat
    BY <1>1 DEF PollInv, PollTypes, PhaseSound
<1>5. Cardinality(stalled') < batchSize => stalled' = T
    BY <1>1, <1>2, <1>4, SomeOfAll
<1>6. \A r \in Runs \ struck : Stuck(r) /\ ShortRun(r) => r \in T
    <2>1. \A r \in completed : ~ Stuck(r)
        BY DEF PollInv, PollTypes, HeldSound, Stuck
    <2>2. \A r \in Runs \ struck : Stuck(r) /\ ShortRun(r) => After(started[r], mark)
        BY <1>4, <2>1 DEF PollInv, InReach, Seen, Found
    <2> QED BY <2>2 DEF StalledRuns, Stuck
<1> HIDE DEF T
<1>7. PollTypes' /\ PhaseSound'
    BY <1>1, <1>2, <1>4 DEF PollInv, PollTypes, PhaseSound
<1>8. ASSUME NEW r \in Runs PROVE HeldSound(r)' /\ InReach(r)'
    <2>1. HeldSound(r)'
        BY <1>1, <1>2, <1>3 DEF PollInv, HeldSound, After
    <2>2. /\ Waiting(r)' <=> Waiting(r)
          /\ Stuck(r)' <=> Stuck(r)
          /\ ShortRun(r)' <=> ShortRun(r)
          /\ \A t : Seen(r, t) => Seen(r, t)'
        BY <1>1, <1>4 DEF Waiting, Pending, Stuck, Silent, ShortRun, Seen, Found, After
    <2>3. InReach(r)'
        BY <1>1, <1>5, <1>6, <2>2 DEF PollInv, InReach, Fetching
    <2> QED BY <2>1, <2>3
<1> QED BY <1>7, <1>8 DEF PollInv

(* The watermark moves only if neither batch was full, and to a time       *)
(* before anything that has changed since the queries.                     *)
LEMMA AdvanceKeeps ==
    ASSUME PollInv, Advance
    PROVE  PollInv'
<1>1. /\ pc = "stalled" /\ pc' = "process"
      /\ todo' = completed \union stalled /\ completed' = {} /\ stalled' = {}
      /\ mark' = IF WasDrained THEN NewMark ELSE mark
      /\ UNCHANGED <<batchSize, now, started, last, ended, count, processed, working,
                     struck>>
    BY DEF Advance, frame, events
<1>2. /\ now \in Nat /\ mark \in Int /\ Grace \in Nat /\ Grace > 0
      /\ todo = {} /\ completed \subseteq Runs /\ stalled \subseteq Runs
    BY <1>1, PollAssumption DEF PollInv, PollTypes, PhaseSound
<1>3. /\ mark' \in Int /\ (mark' = NoMark \/ mark' <= now - Grace)
    BY <1>1, <1>2 DEF NewMark, Max2, PollInv, PhaseSound, NoMark
<1>4. PollTypes' /\ PhaseSound'
    BY <1>1, <1>2, <1>3 DEF PollInv, PollTypes, PhaseSound
<1>5. ASSUME NEW r \in Runs PROVE HeldSound(r)' /\ InReach(r)'
    <2>1. ~ (working[r] > 0)
        BY <1>2 DEF PollInv, HeldSound
    <2>2. HeldSound(r)'
        BY <1>1, <2>1 DEF PollInv, HeldSound
    <2>3. /\ Waiting(r)' <=> Waiting(r)
          /\ Stuck(r)' <=> Stuck(r)
          /\ ShortRun(r)' <=> ShortRun(r)
        BY <1>1 DEF Waiting, Pending, Stuck, Silent, ShortRun
    <2>4. r \in completed \union stalled => Seen(r, last[r])' /\ Seen(r, started[r])'
        BY <1>1 DEF Seen, Found
    <2>5. last[r] = now => Seen(r, last[r])'
        BY <1>1, <1>2, <1>3 DEF Seen, After
    <2>6. ASSUME WasDrained PROVE InReach(r)'
        <3>1. Fetching /\ Cardinality(completed) < batchSize
              /\ Cardinality(stalled) < batchSize
            BY <1>1, <2>6 DEF Fetching, WasDrained
        <3> QED BY <1>1, <2>3, <2>4, <2>5, <3>1 DEF PollInv, InReach, Fetching
    <2>7. ASSUME ~ WasDrained PROVE InReach(r)'
        <3>1. \A t : Seen(r, t) => Seen(r, t)'
            BY <1>1, <1>2, <2>7 DEF Seen, Found, After
        <3> QED BY <1>1, <2>3, <3>1 DEF PollInv, InReach, Fetching
    <2>8. InReach(r)'
        BY <2>6, <2>7
    <2> QED BY <2>2, <2>8
<1> QED BY <1>4, <1>5 DEF PollInv
-----------------------------------------------------------------------------
LEMMA BeginKeeps ==
    ASSUME PollInv, NEW r \in Runs, Begin(r)
    PROVE  PollInv'
<1>1. /\ r \in todo /\ working' = [working EXCEPT ![r] = count[r]]
      /\ UNCHANGED <<batchSize, now, started, last, ended, count, processed, mark, pc,
                     completed, stalled, todo, struck>>
    BY DEF Begin, frame, events, tables
<1>2. PollTypes' /\ PhaseSound'
    BY <1>1 DEF PollInv, PollTypes, PhaseSound
<1>3. ASSUME NEW s \in Runs PROVE HeldSound(s)' /\ InReach(s)'
    <2>1. count[s] \in Nat /\ working'[s] = IF s = r THEN count[r] ELSE working[s]
        BY <1>1 DEF PollInv, PollTypes
    <2>2. HeldSound(s)'
        BY <1>1, <2>1 DEF PollInv, HeldSound, After
    <2>3. InReach(s)'
        BY <1>1 DEF PollInv, InReach, Waiting, Pending, Stuck, Silent, ShortRun, Seen, Found,
           After, Fetching
    <2> QED BY <2>2, <2>3
<1> QED BY <1>2, <1>3 DEF PollInv

(* A run leaves the poll recorded with the events that were read of it, or *)
(* struck.                                                                 *)
LEMMA LeavingKeeps ==
    ASSUME PollInv, NEW r \in Runs, Leave(r), working[r] > 0, pc = "process",
           UNCHANGED processed
              \/ \E f \in BOOLEAN : processed' = [processed EXCEPT ![r] =
                    [done |-> TRUE, count |-> working[r], failed |-> f]],
           \/ UNCHANGED struck /\ processed'[r].done /\ processed'[r].count = working[r]
           \/ struck' = struck \union {r}
    PROVE  PollInv'
<1>1. /\ todo' = todo \ {r} /\ working' = [working EXCEPT ![r] = 0]
      /\ UNCHANGED <<batchSize, now, started, last, ended, count, mark, pc, completed,
                     stalled>>
    BY DEF Leave, frame, events
<1>2. working[r] \in Nat /\ \A s \in Runs : working[s] \in Nat
    BY DEF PollInv, PollTypes
<1>3. processed' \in [Runs -> [done: BOOLEAN, count: Nat, failed: BOOLEAN]]
    <2>1. CASE UNCHANGED processed
        BY <2>1 DEF PollInv, PollTypes
    <2>2. ASSUME NEW f \in BOOLEAN, processed' = [processed EXCEPT ![r] =
                    [done |-> TRUE, count |-> working[r], failed |-> f]]
          PROVE  processed' \in [Runs -> [done: BOOLEAN, count: Nat, failed: BOOLEAN]]
        BY <1>2, <2>2 DEF PollInv, PollTypes
    <2> QED BY <2>1, <2>2
<1>4. PollTypes' /\ PhaseSound'
    BY <1>1, <1>3 DEF PollInv, PollTypes, PhaseSound
<1>5. \A s \in Runs \ {r} : working'[s] = working[s] /\ processed'[s] = processed[s]
    BY <1>1, <1>3 DEF PollInv, PollTypes
<1>6. \A s \in Runs : HeldSound(s)'
    BY <1>1, <1>2, <1>5 DEF PollInv, HeldSound, After, PollTypes
<1>7. ASSUME NEW s \in Runs \ {r} PROVE InReach(s)'
    BY <1>1, <1>5, <1>7 DEF PollInv, InReach, Waiting, Pending, Stuck, Silent, ShortRun, Seen,
       Found, After, Fetching
<1>8. InReach(r)'
    <2>1. CASE r \in struck'
        BY <2>1 DEF InReach
    <2>2. CASE r \notin struck'
        <3>1. processed'[r].done /\ processed'[r].count = working[r]
            BY <2>2
        <3>2. ~ Stuck(r)' /\ ~ Fetching'
            BY <1>1, <3>1 DEF Stuck, Fetching
        <3>3. Waiting(r)' => Seen(r, last[r])'
            BY <1>1, <3>1 DEF Waiting, Pending, Seen, After, PollInv, HeldSound
        <3> QED BY <1>1, <3>2, <3>3 DEF InReach
    <2> QED BY <2>1, <2>2
<1> QED BY <1>4, <1>6, <1>7, <1>8 DEF PollInv

LEMMA ProcessingEndsKeeps ==
    ASSUME PollInv, NEW r \in Runs, Process(r) \/ Fail(r) \/ FailUnrecorded(r)
    PROVE  PollInv'
<1>1. CASE Process(r)
    <2>1. /\ Leave(r) /\ working[r] > 0 /\ pc = "process" /\ UNCHANGED struck
          /\ processed' = [processed EXCEPT ![r] =
                [done |-> TRUE, count |-> working[r], failed |-> FALSE]]
        BY <1>1 DEF Process, Record
    <2>2. processed'[r].done /\ processed'[r].count = working[r]
        BY <2>1 DEF PollInv, PollTypes
    <2> QED BY <2>1, <2>2, LeavingKeeps
<1>2. CASE Fail(r)
    <2>1. /\ Leave(r) /\ working[r] > 0 /\ pc = "process" /\ struck' = struck \union {r}
          /\ UNCHANGED processed \/ processed' = [processed EXCEPT ![r] =
                [done |-> TRUE, count |-> working[r], failed |-> TRUE]]
        BY <1>2 DEF Fail, Failure, Record
    <2> QED BY <2>1, LeavingKeeps
<1>3. CASE FailUnrecorded(r)
    BY <1>3, LeavingKeeps DEF FailUnrecorded, Failure
<1> QED BY <1>1, <1>2, <1>3

(* A poll that is cut short lets go of runs that the next one finds again, *)
(* and strikes those that it was processing.                               *)
LEMMA PollOverKeeps ==
    ASSUME PollInv, pc' \in {"sleep", "down"}, completed' = {}, stalled' = {}, todo' = {},
           UNCHANGED <<batchSize, now, started, last, ended, count, processed, mark>>,
           working' \in {working, [r \in Runs |-> 0]},
           todo = {} \/ working' = [r \in Runs |-> 0],
           struck \subseteq struck', todo \subseteq struck'
    PROVE  PollInv'
<1>1. PollTypes' /\ PhaseSound'
    BY DEF PollInv, PollTypes, PhaseSound
<1>2. ASSUME NEW r \in Runs PROVE HeldSound(r)' /\ InReach(r)'
    <2>1. /\ started[r] \in Nat /\ last[r] \in Nat /\ mark \in Int /\ working[r] \in Nat
        BY DEF PollInv, PollTypes
    <2>2. HeldSound(r)'
        BY <2>1 DEF PollInv, HeldSound
    <2>3. /\ Waiting(r)' <=> Waiting(r)
          /\ Stuck(r)' <=> Stuck(r)
          /\ ShortRun(r)' <=> ShortRun(r)
        BY DEF Waiting, Pending, Stuck, Silent, ShortRun
    <2>4. r \notin struck' /\ Waiting(r) => After(last[r], mark)
        BY <2>1 DEF PollInv, InReach, HeldSound, Seen, Found, After
    <2>5. r \notin struck' /\ Stuck(r) /\ ShortRun(r) => After(started[r], mark)
        BY DEF PollInv, InReach, HeldSound, Seen, Found, Stuck
    <2>6. InReach(r)'
        BY <2>3, <2>4, <2>5 DEF InReach, Seen, After, Fetching
    <2> QED BY <2>2, <2>6
<1> QED BY <1>1, <1>2 DEF PollInv

LEMMA WorkerTurnsKeep ==
    ASSUME PollInv, EndPoll \/ PollFails \/ Stop \/ Crash \/ Restart
    PROVE  PollInv'
<1>1. /\ pc # "process" => todo = {}
      /\ pc \notin {"completed", "stalled"} => completed = {}
      /\ pc # "stalled" => stalled = {}
    BY DEF PollInv, PhaseSound
<1>2. CASE EndPoll
    BY <1>1, <1>2, PollOverKeeps DEF EndPoll, frame, events, tables
<1>3. CASE PollFails
    BY <1>1, <1>3, PollOverKeeps DEF PollFails, Failure, frame, events, tables
<1>4. CASE Stop
    BY <1>1, <1>4, PollOverKeeps DEF Stop, Down, frame, events, tables
<1>5. CASE Crash
    BY <1>5, PollOverKeeps DEF Crash, Failure, Down, frame, events, tables
<1>6. CASE Restart
    BY <1>1, <1>6, PollOverKeeps DEF Restart, frame, events, tables
<1> QED BY <1>2, <1>3, <1>4, <1>5, <1>6

LEMMA StutterKeeps ==
    ASSUME PollInv, UNCHANGED vars
    PROVE  PollInv'
<1>1. UNCHANGED <<batchSize, now, started, last, ended, count, processed, mark, pc,
                  completed, stalled, todo, working, struck>>
    BY DEF vars, frame, events, tables, poll
<1> QED BY <1>1 DEF PollInv, PollTypes, PhaseSound, HeldSound, InReach, Waiting, Pending,
       Stuck, Silent, ShortRun, Seen, Found, After, Fetching
-----------------------------------------------------------------------------
LEMMA PollStepKeeps == PollInv /\ [Next]_vars => PollInv'
<1> SUFFICES ASSUME PollInv, [Next]_vars PROVE PollInv'
    OBVIOUS
<1>1. ASSUME NEW r \in Runs, StartRun(r) \/ MoreEvents(r) \/ EndRun(r)
      PROVE  PollInv'
    <2>1. /\ Arrive(r) /\ started' \in {started, [started EXCEPT ![r] = now]}
          /\ ended' \in {ended, [ended EXCEPT ![r] = TRUE]}
        BY <1>1 DEF StartRun, MoreEvents, EndRun
    <2> QED BY <2>1, EventKeeps
<1>2. ASSUME NEW r \in Runs, Begin(r) \/ Process(r) \/ Fail(r) \/ FailUnrecorded(r)
      PROVE  PollInv'
    BY <1>2, BeginKeeps, ProcessingEndsKeeps
<1>3. CASE Tick
    BY <1>3, TickKeeps
<1>4. CASE FetchCompleted \/ FetchStalled \/ Advance
    BY <1>4, FetchCompletedKeeps, FetchStalledKeeps, AdvanceKeeps
<1>5. CASE EndPoll \/ PollFails \/ Stop \/ Crash \/ Restart
    BY <1>5, WorkerTurnsKeep
<1>6. CASE UNCHANGED vars
    BY <1>6, StutterKeeps
<1> QED BY <1>1, <1>2, <1>3, <1>4, <1>5, <1>6 DEF Next, Worker

(* The strengthened invariant holds in every reachable state.              *)
THEOREM PollInvariant == Spec => []PollInv
BY PollInitially, PollStepKeeps, PTL DEF Spec

(* The watermark of advance_watermark passes over no run that was not      *)
(* struck: what waits, and what stalled while it was short, is in the poll *)
(* under way or found by the next one.                                     *)
THEOREM WorkVisibleHolds == Spec => []WorkVisible
<1>1. PollInv => WorkVisible
    BY DEF PollInv, InReach, WorkVisible, PendingVisible, ShortStallVisible, ShortRun
<1> QED BY <1>1, PollInvariant, PTL
-----------------------------------------------------------------------------
(* The semantic worker: the types of what is counted.                      *)

Steps == {"sample", "quota", "budget", "evaluate", "write", "converse", "mark"}

Active == [at: Steps, run: RunIds, todo: SUBSET Evaluators, sampled: BOOLEAN,
           finding: Evaluators \cup {"none"}]

SemanticTypes ==
    /\ finished \in SUBSET RunIds /\ IsFiniteSet(finished)
    /\ usage \in [org: Nat, agent: Nat, conv: Nat] /\ waived \in Nat
    /\ tried \in [RunIds -> [Evaluators -> Nat]]
    /\ task \in [Tasks -> Active \cup {Idle}]
    /\ failed \in Seq(SUBSET RunIds)

(* The tasks that have paid for an evaluator and not called it yet.        *)
Paid(e) == {t \in Tasks : task[t].at \in {"evaluate", "write"} /\ e \in task[t].todo}

(* What the agent was charged covers the calls made and those to come.     *)
AgentPaid ==
    \A e \in Evaluators :
        /\ IsFiniteSet(Called(e))
        /\ Cardinality(Called(e)) + Cardinality(Paid(e)) <= usage.agent

(* A task that dies may have charged the organization and no one else.     *)
Died == Len(failed) * Cardinality(Tasks)

(* What the organization was charged went to the agent, was waived, is     *)
(* before the budget, or died with its task.                               *)
OrgPaid ==
    /\ usage.org <= Quota
    /\ usage.agent + waived + Cardinality(Budgeting) <= usage.org
    /\ usage.org <= usage.agent + waived + Died + Cardinality(Budgeting)

SemanticInv == SemanticTypes /\ AgentPaid /\ OrgPaid

LEMMA SemanticConstants ==
    /\ RunIds \subseteq Nat /\ IsFiniteSet(Tasks) /\ Quota \in Nat
    /\ Cardinality(Tasks) \in Nat
BY SemanticAssumption, FS_CardinalityType

LEMMA ForgoneCharge ==
    \A org, paid, died, more, left \in Int :
        org <= paid + died + left /\ more >= died + 1 => org <= paid + more + (left - 1)
OBVIOUS

LEMMA OneMoreTimes == \A n, c \in Nat : (n + 1) * c = n * c + c
OBVIOUS

LEMMA CountsOfTasks ==
    /\ \A e : IsFiniteSet(Paid(e)) /\ Cardinality(Paid(e)) \in Nat
    /\ IsFiniteSet(Budgeting) /\ Cardinality(Budgeting) \in Nat
    /\ Cardinality(Budgeting) <= Cardinality(Tasks)
<1>1. Budgeting \subseteq Tasks
    BY DEF Budgeting
<1>2. ASSUME NEW e PROVE IsFiniteSet(Paid(e)) /\ Cardinality(Paid(e)) \in Nat
    <2>1. Paid(e) \subseteq Tasks
        BY DEF Paid
    <2> QED BY <2>1, SemanticConstants, FS_Subset, FS_CardinalityType
<1> QED BY <1>1, <1>2, SemanticConstants, FS_Subset, FS_CardinalityType

LEMMA SemanticInitially == SemanticInit => SemanticInv
<1> SUFFICES ASSUME SemanticInit PROVE SemanticInv
    OBVIOUS
<1>1. SemanticTypes
    <2>1. finished \in SUBSET RunIds /\ IsFiniteSet(finished)
        BY FS_EmptySet DEF SemanticInit
    <2>2. usage \in [org: Nat, agent: Nat, conv: Nat] /\ waived \in Nat
        BY DEF SemanticInit
    <2>3. tried \in [RunIds -> [Evaluators -> Nat]]
        BY DEF SemanticInit
    <2>4. task \in [Tasks -> Active \cup {Idle}]
        BY DEF SemanticInit
    <2>5. failed \in Seq(SUBSET RunIds)
        BY DEF SemanticInit
    <2> QED BY <2>1, <2>2, <2>3, <2>4, <2>5 DEF SemanticTypes
<1>2. Budgeting = {} /\ \A e : Paid(e) = {}
    BY DEF SemanticInit, Budgeting, Paid, At, Idle
<1>3. ASSUME NEW e \in Evaluators PROVE Called(e) = {}
    <2>1. \A r \in RunIds : 1..tried[r][e] = {}
        BY DEF SemanticInit
    <2> QED BY <2>1 DEF Called
<1>4. AgentPaid
    <2> SUFFICES ASSUME NEW e \in Evaluators
                 PROVE  /\ IsFiniteSet(Called(e))
                        /\ Cardinality(Called(e)) + Cardinality(Paid(e)) <= usage.agent
        BY DEF AgentPaid
    <2>1. Called(e) = {} /\ Paid(e) = {} /\ usage.agent = 0
        BY <1>2, <1>3 DEF SemanticInit
    <2> QED BY <2>1, FS_EmptySet
<1>5. OrgPaid
    <2>1. Died = 0
        BY SemanticConstants DEF SemanticInit, Died
    <2> QED BY <1>2, <2>1, FS_EmptySet, SemanticConstants DEF OrgPaid, SemanticInit
<1> QED BY <1>1, <1>4, <1>5 DEF SemanticInv

(* One task moves.                                                         *)
LEMMA TaskMoves ==
    ASSUME SemanticTypes, NEW t \in Tasks, NEW new \in Active \cup {Idle},
           task' = [task EXCEPT ![t] = new]
    PROVE  /\ task' \in [Tasks -> Active \cup {Idle}]
           /\ Cardinality(Budgeting') =
                Cardinality(Budgeting) - (IF task[t].at = "budget" THEN 1 ELSE 0)
                                       + (IF new.at = "budget" THEN 1 ELSE 0)
           /\ \A e : IF new.at \in {"evaluate", "write"} /\ e \in new.todo
                     THEN Paid(e)' = Paid(e) \cup {t} ELSE Paid(e)' = Paid(e) \ {t}
<1>1. /\ task'[t] = new /\ \A s \in Tasks \ {t} : task'[s] = task[s]
      /\ task' \in [Tasks -> Active \cup {Idle}]
    BY DEF SemanticTypes
<1>2. IsFiniteSet(Budgeting) /\ Cardinality(Budgeting) \in Nat
    BY CountsOfTasks
<1>3. t \in Budgeting <=> task[t].at = "budget"
    BY DEF Budgeting, At
<1>4. new.at = "budget" => Cardinality(Budgeting') =
         IF t \in Budgeting THEN Cardinality(Budgeting) ELSE Cardinality(Budgeting) + 1
    <2>1. new.at = "budget" => Budgeting' = Budgeting \cup {t}
        BY <1>1 DEF Budgeting, At
    <2> QED BY <1>2, <2>1, FS_AddElement, Zenon
<1>a. new.at # "budget" => Cardinality(Budgeting') =
         IF t \in Budgeting THEN Cardinality(Budgeting) - 1 ELSE Cardinality(Budgeting)
    <2>1. new.at # "budget" => Budgeting' = Budgeting \ {t}
        BY <1>1 DEF Budgeting, At
    <2> QED BY <1>2, <2>1, FS_RemoveElement, Zenon
<1>5. Cardinality(Budgeting') =
                Cardinality(Budgeting) - (IF task[t].at = "budget" THEN 1 ELSE 0)
                                       + (IF new.at = "budget" THEN 1 ELSE 0)
    BY <1>2, <1>3, <1>4, <1>a
<1>6. ASSUME NEW e
      PROVE  IF new.at \in {"evaluate", "write"} /\ e \in new.todo
             THEN Paid(e)' = Paid(e) \cup {t} ELSE Paid(e)' = Paid(e) \ {t}
    BY <1>1 DEF Paid
<1> QED BY <1>1, <1>5, <1>6

(* A step that calls no evaluator, nor charges for one.                    *)
LEMMA CallsKept ==
    ASSUME SemanticInv, NEW e \in Evaluators, tried' = tried,
           usage'.agent = usage.agent, Paid(e)' \subseteq Paid(e)
    PROVE  /\ IsFiniteSet(Called(e)')
           /\ Cardinality(Called(e)') + Cardinality(Paid(e)') <= usage'.agent
<1>1. Called(e)' = Called(e)
    BY DEF Called
<1>2. Cardinality(Paid(e)') \in Nat /\ Cardinality(Paid(e)') <= Cardinality(Paid(e))
    BY CountsOfTasks, FS_Subset, FS_CardinalityType
<1>3. /\ IsFiniteSet(Called(e)) /\ Cardinality(Called(e)) \in Nat
      /\ Cardinality(Called(e)) + Cardinality(Paid(e)) <= usage.agent /\ usage.agent \in Nat
      /\ Cardinality(Paid(e)) \in Nat
    BY CountsOfTasks, FS_CardinalityType DEF SemanticInv, AgentPaid, SemanticTypes
<1> QED BY <1>1, <1>2, <1>3

(* A task goes on without a charge or a call; one that dies may have       *)
(* charged the organization only.                                          *)
LEMMA PlainMove ==
    ASSUME SemanticInv, NEW t \in Tasks, NEW new \in Active \cup {Idle},
           task' = [task EXCEPT ![t] = new], new.at # "budget",
           new.at \in {"evaluate", "write"} =>
               task[t].at \in {"evaluate", "write"} /\ new.todo \subseteq task[t].todo,
           UNCHANGED <<finished, waived, tried>>,
           usage' \in [org: Nat, agent: Nat, conv: Nat],
           usage'.org = usage.org, usage'.agent = usage.agent,
           \/ failed' = failed /\ task[t].at # "budget"
           \/ failed' \in Seq(SUBSET RunIds) /\ Len(failed') = Len(failed) + 1
    PROVE  SemanticInv'
<1>1. /\ SemanticTypes /\ Len(failed) \in Nat
      /\ usage.org \in Nat /\ usage.agent \in Nat /\ waived \in Nat
      /\ Cardinality(Budgeting) \in Nat /\ Cardinality(Tasks) \in Nat
    BY SemanticConstants, CountsOfTasks DEF SemanticInv, SemanticTypes
<1>2. SemanticTypes'
    BY <1>1, TaskMoves DEF SemanticTypes
<1>3. ASSUME NEW e \in Evaluators PROVE Paid(e)' \subseteq Paid(e)
    <2>1. IF new.at \in {"evaluate", "write"} /\ e \in new.todo
          THEN Paid(e)' = Paid(e) \cup {t} ELSE Paid(e)' = Paid(e) \ {t}
        BY <1>1, TaskMoves
    <2>2. new.at \in {"evaluate", "write"} /\ e \in new.todo => t \in Paid(e)
        BY DEF Paid
    <2> QED BY <2>1, <2>2
<1>4. AgentPaid'
    <2> SUFFICES ASSUME NEW e \in Evaluators
                 PROVE  /\ IsFiniteSet(Called(e)')
                        /\ Cardinality(Called(e)') + Cardinality(Paid(e)') <= usage'.agent
        BY DEF AgentPaid
    <2> QED BY <1>3, CallsKept
<1>5. Cardinality(Budgeting') = Cardinality(Budgeting) - (IF task[t].at = "budget" THEN 1 ELSE 0)
    <2>1. Cardinality(Budgeting') =
                Cardinality(Budgeting) - (IF task[t].at = "budget" THEN 1 ELSE 0)
                                       + (IF new.at = "budget" THEN 1 ELSE 0)
        BY <1>1, TaskMoves, Zenon
    <2> QED BY <1>1, <2>1
<1>6. OrgPaid'
    <2>1. CASE failed' = failed /\ task[t].at # "budget"
        <3>1. Died' = Died /\ Died \in Nat
            BY <1>1, <2>1 DEF Died
        <3> QED BY <1>1, <1>5, <2>1, <3>1 DEF SemanticInv, OrgPaid
    <2>2. CASE Len(failed') = Len(failed) + 1
        <3>1. Died' = Died + Cardinality(Tasks) /\ Died \in Nat
            <4>1. (Len(failed) + 1) * Cardinality(Tasks) =
                      Len(failed) * Cardinality(Tasks) + Cardinality(Tasks)
                BY <1>1, OneMoreTimes, Zenon
            <4>2. Len(failed)' = Len(failed) + 1
                BY <2>2
            <4>3. Died \in Nat
                BY <1>1 DEF Died
            <4> QED BY <4>1, <4>2, <4>3, Zenon DEF Died
        <3>2. task[t].at = "budget" => Cardinality(Tasks) >= 1
            <4>1. Cardinality(Tasks) # 0
                BY SemanticConstants, FS_EmptySet
            <4> QED BY <1>1, <4>1
        <3>3. /\ usage'.org = usage.org /\ usage'.agent = usage.agent /\ waived' = waived
              /\ Quota \in Nat
            BY SemanticConstants
        <3>4. CASE task[t].at = "budget"
            <4>1. Cardinality(Budgeting') = Cardinality(Budgeting) - 1
                BY <1>1, <1>5, <3>4
            <4>2. Died' >= Died + 1 /\ Died' \in Nat /\ Died \in Nat
                BY <1>1, <3>1, <3>2, <3>4
            <4>3. /\ usage.org <= Quota
                  /\ usage.agent + waived + Cardinality(Budgeting) <= usage.org
                  /\ usage.org <= usage.agent + waived + Died + Cardinality(Budgeting)
                BY DEF SemanticInv, OrgPaid
            <4> DEFINE left == Cardinality(Budgeting)
            <4>6. left \in Nat /\ usage.agent + waived \in Int /\ usage.org \in Int
                BY <1>1
            <4>7. usage.org <= (usage.agent + waived) + Died' + (left - 1)
                BY <4>2, <4>3, <4>6, ForgoneCharge
            <4>4. usage'.org <= usage'.agent + waived' + Died' + Cardinality(Budgeting')
                BY <1>1, <4>1, <4>2, <4>3, <3>3, <4>7
            <4>5. usage'.agent + waived' + Cardinality(Budgeting') <= usage'.org
                BY <1>1, <4>1, <4>3, <3>3
            <4> QED BY <4>3, <4>4, <4>5, <3>3 DEF OrgPaid
        <3>5. CASE task[t].at # "budget"
            <4>1. Cardinality(Budgeting') = Cardinality(Budgeting)
                BY <1>1, <1>5, <3>5
            <4>2. /\ usage.org <= Quota
                  /\ usage.agent + waived + Cardinality(Budgeting) <= usage.org
                  /\ usage.org <= usage.agent + waived + Died + Cardinality(Budgeting)
                BY DEF SemanticInv, OrgPaid
            <4>3. Died' >= Died /\ Died' \in Nat /\ Died \in Nat
                BY <1>1, <3>1
            <4>4. usage.org <= usage.agent + waived + Died' + Cardinality(Budgeting)
                BY <1>1, <4>2, <4>3
            <4> QED BY <3>3, <4>1, <4>2, <4>4 DEF OrgPaid
        <3> QED BY <3>4, <3>5
    <2> QED BY <2>1, <2>2
<1> QED BY <1>2, <1>4, <1>6 DEF SemanticInv

(* The organization pays, and the task comes before the budget.            *)
LEMMA ChargedOrg ==
    ASSUME SemanticInv, NEW t \in Tasks, NEW new \in Active,
           task' = [task EXCEPT ![t] = new], new.at = "budget", task[t].at # "budget",
           UNCHANGED <<finished, waived, tried, failed>>,
           usage.org < Quota, usage' = [usage EXCEPT !.org = @ + 1]
    PROVE  SemanticInv'
<1>1. /\ SemanticTypes /\ Quota \in Nat
      /\ usage.org \in Nat /\ usage.agent \in Nat /\ waived \in Nat
      /\ Cardinality(Budgeting) \in Nat
    BY SemanticConstants, CountsOfTasks DEF SemanticInv, SemanticTypes
<1>2. /\ usage'.org = usage.org + 1 /\ usage'.agent = usage.agent
      /\ usage' \in [org: Nat, agent: Nat, conv: Nat]
    BY <1>1 DEF SemanticTypes
<1>3. SemanticTypes'
    BY <1>1, <1>2, TaskMoves DEF SemanticTypes
<1>4. AgentPaid'
    <2> SUFFICES ASSUME NEW e \in Evaluators
                 PROVE  /\ IsFiniteSet(Called(e)')
                        /\ Cardinality(Called(e)') + Cardinality(Paid(e)') <= usage'.agent
        BY DEF AgentPaid
    <2>1. Paid(e)' \subseteq Paid(e)
        <3>1. Paid(e)' = Paid(e) \ {t}
            BY <1>1, TaskMoves
        <3> QED BY <3>1
    <2> QED BY <1>2, <2>1, CallsKept
<1>5. Cardinality(Budgeting') = Cardinality(Budgeting) + 1
    <2>1. Cardinality(Budgeting') =
                Cardinality(Budgeting) - (IF task[t].at = "budget" THEN 1 ELSE 0)
                                       + (IF new.at = "budget" THEN 1 ELSE 0)
        BY <1>1, TaskMoves, Zenon
    <2> QED BY <1>1, <2>1
<1>6. OrgPaid'
    <2>1. /\ usage.agent + waived + Cardinality(Budgeting) <= usage.org
          /\ usage.org <= usage.agent + waived + Died + Cardinality(Budgeting)
        BY DEF SemanticInv, OrgPaid
    <2>2. Died' = Died /\ Died \in Nat
        BY <1>1, SemanticConstants DEF SemanticTypes, Died
    <2> QED BY <1>1, <1>2, <1>5, <2>1, <2>2 DEF OrgPaid
<1> QED BY <1>3, <1>4, <1>6 DEF SemanticInv

(* The budget is asked: the agent pays for one call of each evaluator, or  *)
(* the organization's charge was for nothing.                              *)
LEMMA AskedBudget ==
    ASSUME SemanticInv, NEW t \in Tasks, NEW new \in Active,
           task' = [task EXCEPT ![t] = new], new.at # "budget", task[t].at = "budget",
           UNCHANGED <<finished, tried, failed>>,
           \/ usage' = [usage EXCEPT !.agent = @ + 1] /\ waived' = waived
           \/ usage' = usage /\ waived' = waived + 1 /\ new.at = "converse"
    PROVE  SemanticInv'
<1>1. /\ SemanticTypes
      /\ usage.org \in Nat /\ usage.agent \in Nat /\ waived \in Nat
      /\ Cardinality(Budgeting) \in Nat
    BY CountsOfTasks DEF SemanticInv, SemanticTypes
<1>2. /\ usage'.org = usage.org /\ usage' \in [org: Nat, agent: Nat, conv: Nat]
      /\ waived' \in Nat
      /\ \/ usage'.agent = usage.agent + 1 /\ waived' = waived
         \/ usage'.agent = usage.agent /\ waived' = waived + 1 /\ new.at = "converse"
    BY <1>1 DEF SemanticTypes
<1>3. SemanticTypes'
    BY <1>1, <1>2, TaskMoves DEF SemanticTypes
<1>4. AgentPaid'
    <2> SUFFICES ASSUME NEW e \in Evaluators
                 PROVE  /\ IsFiniteSet(Called(e)')
                        /\ Cardinality(Called(e)') + Cardinality(Paid(e)') <= usage'.agent
        BY DEF AgentPaid
    <2>1. IF new.at \in {"evaluate", "write"} /\ e \in new.todo
          THEN Paid(e)' = Paid(e) \cup {t} ELSE Paid(e)' = Paid(e) \ {t}
        BY <1>1, TaskMoves
    <2>2. CASE usage'.agent = usage.agent
        <3>1. Paid(e)' \subseteq Paid(e)
            BY <1>1, <1>2, <2>1, <2>2
        <3> QED BY <2>2, <3>1, CallsKept
    <2>3. CASE usage'.agent = usage.agent + 1
        <3>1. Called(e)' = Called(e)
            BY DEF Called
        <3>2. /\ IsFiniteSet(Called(e)) /\ Cardinality(Called(e)) \in Nat
              /\ Cardinality(Called(e)) + Cardinality(Paid(e)) <= usage.agent
            BY FS_CardinalityType DEF SemanticInv, AgentPaid
        <3>3. Cardinality(Paid(e)') <= Cardinality(Paid(e)) + 1
            <4>1. Paid(e)' \subseteq Paid(e) \cup {t}
                BY <2>1
            <4>2. /\ IsFiniteSet(Paid(e)) /\ IsFiniteSet(Paid(e) \cup {t})
                  /\ Cardinality(Paid(e) \cup {t}) =
                       IF t \in Paid(e) THEN Cardinality(Paid(e)) ELSE Cardinality(Paid(e)) + 1
                BY CountsOfTasks, FS_AddElement, Zenon
            <4>3. Cardinality(Paid(e)') <= Cardinality(Paid(e) \cup {t})
                BY <4>1, <4>2, FS_Subset
            <4>4. Cardinality(Paid(e)') \in Nat /\ Cardinality(Paid(e)) \in Nat
                BY <4>1, <4>2, FS_Subset, FS_CardinalityType
            <4> QED BY <4>2, <4>3, <4>4
        <3>4. Cardinality(Paid(e)') \in Nat /\ Cardinality(Paid(e)) \in Nat
            <4>1. IsFiniteSet(Paid(e)) /\ Paid(e)' \subseteq Paid(e) \cup {t}
                BY <2>1, CountsOfTasks
            <4>2. IsFiniteSet(Paid(e) \cup {t})
                BY <4>1, FS_AddElement, Zenon
            <4> QED BY <4>1, <4>2, FS_Subset, FS_CardinalityType
        <3> QED BY <1>1, <2>3, <3>1, <3>2, <3>3, <3>4
    <2> QED BY <1>2, <2>2, <2>3
<1>5. Cardinality(Budgeting') = Cardinality(Budgeting) - 1
    <2>1. Cardinality(Budgeting') =
                Cardinality(Budgeting) - (IF task[t].at = "budget" THEN 1 ELSE 0)
                                       + (IF new.at = "budget" THEN 1 ELSE 0)
        BY <1>1, TaskMoves, Zenon
    <2> QED BY <1>1, <2>1
<1>6. OrgPaid'
    <2>1. /\ usage.agent + waived + Cardinality(Budgeting) <= usage.org
          /\ usage.org <= usage.agent + waived + Died + Cardinality(Budgeting)
          /\ usage.org <= Quota
        BY DEF SemanticInv, OrgPaid
    <2>2. Died' = Died /\ Died \in Nat
        BY <1>1, SemanticConstants DEF SemanticTypes, Died
    <2> QED BY <1>1, <1>2, <1>5, <2>1, <2>2 DEF OrgPaid
<1> QED BY <1>3, <1>4, <1>6 DEF SemanticInv

(* One call more of an evaluator for a run.                                *)
LEMMA OneCallMore ==
    ASSUME tried \in [RunIds -> [Evaluators -> Nat]], NEW r \in RunIds, NEW e \in Evaluators,
           tried' = [tried EXCEPT ![r][e] = @ + 1], IsFiniteSet(Called(e))
    PROVE  /\ tried' \in [RunIds -> [Evaluators -> Nat]]
           /\ IsFiniteSet(Called(e)') /\ Cardinality(Called(e)') = Cardinality(Called(e)) + 1
           /\ \A d \in Evaluators \ {e} : Called(d)' = Called(d)
<1>1. /\ tried' \in [RunIds -> [Evaluators -> Nat]]
      /\ tried[r][e] \in Nat /\ tried'[r][e] = tried[r][e] + 1
      /\ \A q \in RunIds \ {r} : tried'[q][e] = tried[q][e]
      /\ \A q \in RunIds : \A d \in Evaluators \ {e} : tried'[q][d] = tried[q][d]
    OBVIOUS
<1>2. \A d \in Evaluators \ {e} : Called(d)' = Called(d)
    BY <1>1 DEF Called
<1> DEFINE n == tried[r][e] + 1
<1>3. n \in Nat /\ 1..n = (1..tried[r][e]) \cup {n} /\ n \notin 1..tried[r][e]
    BY <1>1
<1>4. <<r, n>> \notin Called(e)
    BY <1>3 DEF Called
<1>5. ASSUME NEW x PROVE x \in Called(e)' <=> x \in Called(e) \cup {<<r, n>>}
    <2>1. x \in Called(e)' <=> \E q \in RunIds : \E k \in 1..tried'[q][e] : x = <<q, k>>
        BY DEF Called
    <2>2. x \in Called(e) <=> \E q \in RunIds : \E k \in 1..tried[q][e] : x = <<q, k>>
        BY DEF Called
    <2>3. tried'[r][e] = n
        BY <1>1
    <2> HIDE DEF n
    <2>4. ASSUME NEW q \in RunIds, NEW k \in 1..tried'[q][e], x = <<q, k>>
          PROVE  x \in Called(e) \cup {<<r, n>>}
        <3>1. CASE q = r
            BY <1>3, <2>2, <2>3, <2>4, <3>1
        <3>2. CASE q # r
            BY <1>1, <2>2, <2>4, <3>2
        <3> QED BY <3>1, <3>2
    <2>5. ASSUME NEW q \in RunIds, NEW k \in 1..tried[q][e], x = <<q, k>>
          PROVE  x \in Called(e)'
        <3>1. k \in 1..tried'[q][e]
            BY <1>1, <1>3, <2>3
        <3> QED BY <2>1, <2>5, <3>1
    <2>6. x = <<r, n>> => x \in Called(e)'
        <3>1. n \in 1..tried'[r][e]
            BY <1>3, <2>3
        <3> QED BY <2>1, <3>1
    <2> QED BY <2>1, <2>2, <2>4, <2>5, <2>6
<1> HIDE DEF n
<1>6. Called(e)' = Called(e) \cup {<<r, n>>}
    BY <1>5
<1>7. /\ IsFiniteSet(Called(e) \cup {<<r, n>>})
      /\ Cardinality(Called(e) \cup {<<r, n>>}) =
            IF <<r, n>> \in Called(e) THEN Cardinality(Called(e)) ELSE Cardinality(Called(e)) + 1
    BY FS_AddElement, Zenon
<1> QED BY <1>1, <1>2, <1>4, <1>6, <1>7

(* What an evaluator's call leaves of a task.                              *)
Recast(x, d, a, f) == [[[x EXCEPT !.todo = d] EXCEPT !.at = a] EXCEPT !.finding = f]

LEMMA ThreeFields ==
    ASSUME NEW p, NEW r, NEW w, NEW s, NEW i, NEW a, NEW d, NEW f,
           NEW x, x = [at |-> p, run |-> r, todo |-> w, sampled |-> s,
                       finding |-> i]
    PROVE  Recast(x, d, a, f) =
               [at |-> a, run |-> r, todo |-> d, sampled |-> s, finding |-> f]
<1> DEFINE y == [x EXCEPT !.todo = d]
           z == [y EXCEPT !.at = a]
<1>1. y = [at |-> p, run |-> r, todo |-> d, sampled |-> s, finding |-> i]
    OBVIOUS
<1> HIDE DEF y
<1>2. z = [at |-> a, run |-> r, todo |-> d, sampled |-> s, finding |-> i]
    BY <1>1
<1> HIDE DEF z
<1>3. [z EXCEPT !.finding = f] =
          [at |-> a, run |-> r, todo |-> d, sampled |-> s, finding |-> f]
    BY <1>2
<1> QED BY <1>3 DEF y, z, Recast

(* A call uses up what was paid for it.                                    *)
LEMMA EvaluateKeeps ==
    ASSUME SemanticInv, NEW t \in Tasks, NEW e \in Evaluators, Evaluate(t, e)
    PROVE  SemanticInv'
<1> DEFINE r == task[t].run
<1>1. PICK fired \in BOOLEAN :
        task' = [task EXCEPT ![t].todo = @ \ {e},
                             ![t].at = IF fired THEN "write" ELSE "evaluate",
                             ![t].finding = IF fired THEN e ELSE @]
    BY DEF Evaluate
<1> DEFINE new == [at |-> IF fired THEN "write" ELSE "evaluate", run |-> r,
                   todo |-> task[t].todo \ {e}, sampled |-> task[t].sampled,
                   finding |-> IF fired THEN e ELSE task[t].finding]
<1>2. /\ SemanticTypes /\ task[t].at = "evaluate" /\ e \in task[t].todo /\ task[t] \in Active
      /\ r \in RunIds
    BY DEF Evaluate, At, SemanticInv, SemanticTypes, Idle, Active
<1>3. new \in Active /\ task' = [task EXCEPT ![t] = new]
    <2>1. new \in Active
        <3>1. /\ task[t].sampled \in BOOLEAN /\ task[t].todo \in SUBSET Evaluators
              /\ task[t].finding \in Evaluators \cup {"none"} /\ r \in RunIds
            BY <1>2 DEF Active
        <3> HIDE DEF r
        <3>2. /\ (IF fired THEN "write" ELSE "evaluate") \in Steps
              /\ (IF fired THEN e ELSE task[t].finding) \in Evaluators \cup {"none"}
              /\ task[t].todo \ {e} \in SUBSET Evaluators
            BY <3>1 DEF Steps
        <3> QED BY <3>1, <3>2 DEF Active
    <2> DEFINE a == [task[t] EXCEPT !.todo = @ \ {e}]
               b == [a EXCEPT !.at = IF fired THEN "write" ELSE "evaluate"]
               c == [b EXCEPT !.finding = IF fired THEN e ELSE @]
               f == [task EXCEPT ![t].todo = @ \ {e}]
               g == [f EXCEPT ![t].at = IF fired THEN "write" ELSE "evaluate"]
               h == [g EXCEPT ![t].finding = IF fired THEN e ELSE @]
    <2>2. task \in [Tasks -> Active \cup {Idle}]
        BY <1>2 DEF SemanticTypes
    <2>3. f = [task EXCEPT ![t] = a] /\ f[t] = a
        BY <2>2
    <2>4. task' = h
        BY <1>1
    <2>5. new = c
        <3>1. task[t] = [at |-> task[t].at, run |-> r, todo |-> task[t].todo,
                         sampled |-> task[t].sampled, finding |-> task[t].finding]
            BY <1>2 DEF Active
        <3>2. task[t].todo = task[t].todo /\ b.finding = task[t].finding
            BY <3>1
        <3>3. c = [b EXCEPT !.finding = IF fired THEN e ELSE task[t].finding]
            BY <3>2
        <3> DEFINE D == task[t].todo \ {e}
                   A == IF fired THEN "write" ELSE "evaluate"
                   F == IF fired THEN e ELSE task[t].finding
        <3>4. c = Recast(task[t], D, A, F)
            BY <3>3 DEF Recast
        <3>5. new = [at |-> A, run |-> r, todo |-> D, sampled |-> task[t].sampled, finding |-> F]
            OBVIOUS
        <3> HIDE DEF r, D, A, F, new, c
        <3>6. Recast(task[t], D, A, F) =
                  [at |-> A, run |-> r, todo |-> D, sampled |-> task[t].sampled, finding |-> F]
            BY <3>1, ThreeFields
        <3> QED BY <3>4, <3>5, <3>6
    <2> HIDE DEF a, f
    <2>6. g = [task EXCEPT ![t] = b] /\ g[t] = b
        BY <2>2, <2>3
    <2> HIDE DEF b, g
    <2>7. h = [task EXCEPT ![t] = c]
        BY <2>2, <2>6
    <2> QED BY <2>1, <2>4, <2>5, <2>7, Zenon
<1>4. new.at \in {"evaluate", "write"} /\ new.todo = task[t].todo \ {e}
    OBVIOUS
<1> HIDE DEF new
<1>5. /\ tried' = [tried EXCEPT ![r][e] = @ + 1]
      /\ UNCHANGED <<finished, usage, waived, failed>>
    BY DEF Evaluate, books
<1> HIDE DEF r
<1>6. /\ \A d \in Evaluators : IsFiniteSet(Called(d))
      /\ tried \in [RunIds -> [Evaluators -> Nat]]
    BY <1>2 DEF SemanticInv, AgentPaid, SemanticTypes
<1>7. SemanticTypes'
    BY <1>2, <1>3, <1>5, <1>6, OneCallMore, TaskMoves DEF SemanticTypes
<1>8. AgentPaid'
    <2> SUFFICES ASSUME NEW d \in Evaluators
                 PROVE  /\ IsFiniteSet(Called(d)')
                        /\ Cardinality(Called(d)') + Cardinality(Paid(d)') <= usage'.agent
        BY DEF AgentPaid
    <2>1. /\ IsFiniteSet(Called(d)) /\ Cardinality(Called(d)) \in Nat
          /\ Cardinality(Called(d)) + Cardinality(Paid(d)) <= usage.agent
          /\ IsFiniteSet(Paid(d)) /\ Cardinality(Paid(d)) \in Nat /\ usage' = usage
        BY <1>2, <1>5, FS_CardinalityType, CountsOfTasks DEF SemanticInv, AgentPaid
    <2>2. IF d \in new.todo THEN Paid(d)' = Paid(d) \cup {t} ELSE Paid(d)' = Paid(d) \ {t}
        BY <1>2, <1>3, <1>4, TaskMoves
    <2>3. t \in Paid(d) <=> d \in task[t].todo
        BY <1>2 DEF Paid
    <2>4. CASE d = e
        <3>1. Paid(d)' = Paid(d) \ {t} /\ t \in Paid(d)
            BY <1>2, <1>4, <2>2, <2>3, <2>4
        <3>2. Cardinality(Paid(d)') = Cardinality(Paid(d)) - 1
            BY <2>1, <3>1, FS_RemoveElement, Zenon
        <3>3. IsFiniteSet(Called(d)') /\ Cardinality(Called(d)') = Cardinality(Called(d)) + 1
            BY <1>2, <1>5, <1>6, <2>4, OneCallMore
        <3> QED BY <2>1, <3>2, <3>3
    <2>5. CASE d # e
        <3>1. Paid(d)' = Paid(d)
            BY <1>4, <2>2, <2>3, <2>5
        <3>2. Called(d)' = Called(d)
            BY <1>2, <1>5, <1>6, <2>5, OneCallMore
        <3> QED BY <2>1, <3>1, <3>2
    <2> QED BY <2>4, <2>5
<1>9. OrgPaid'
    <2>1. Cardinality(Budgeting') =
                Cardinality(Budgeting) - (IF task[t].at = "budget" THEN 1 ELSE 0)
                                       + (IF new.at = "budget" THEN 1 ELSE 0)
        BY <1>2, <1>3, TaskMoves
    <2>2. Cardinality(Budgeting') = Cardinality(Budgeting)
        BY <1>2, <1>4, <2>1, CountsOfTasks
    <2> QED BY <1>5, <2>2 DEF SemanticInv, OrgPaid, Died
<1> QED BY <1>7, <1>8, <1>9 DEF SemanticInv

(* A finite set has subsets of every size up to its own.                   *)
LEMMA SubsetOfSize ==
    ASSUME NEW S, IsFiniteSet(S), NEW k \in Nat, k <= Cardinality(S)
    PROVE  kSubset(k, S) # {}
<1>1. Cardinality(S) \in Nat /\ ExistsBijection(1..Cardinality(S), S)
    BY FS_CardinalityType
<1>2. PICK f \in Bijection(1..Cardinality(S), S) : TRUE
    BY <1>1 DEF ExistsBijection
<1> DEFINE T == {f[i] : i \in 1..k}
           g == [i \in 1..k |-> f[i]]
<1>3. /\ \A i \in 1..k : i \in 1..Cardinality(S)
      /\ f \in [1..Cardinality(S) -> S]
      /\ \A i, j \in 1..Cardinality(S) : f[i] = f[j] => i = j
    BY <1>1, <1>2 DEF Bijection, Injection, IsInjective
<1>4. T \in SUBSET S
    BY <1>3
<1>5. g \in Bijection(1..k, T)
    BY <1>3 DEF Bijection, Injection, Surjection, IsInjective
<1>6. Cardinality(T) = k
    <2>1. ExistsBijection(1..k, T)
        BY <1>5 DEF ExistsBijection
    <2> QED BY <2>1, FS_CountingElements
<1> QED BY <1>4, <1>6 DEF kSubset

(* A poll hands each run of its batch to a task of its own.                *)
LEMMA BatchTaken ==
    ASSUME SemanticTypes, Cardinality(Batch) <= Cardinality(Tasks \ Alive)
    PROVE  LET free == CHOOSE f \in kSubset(Cardinality(Batch), Tasks \ Alive) : TRUE
               run  == CHOOSE f \in [free -> Batch] : IsInjective(f)
           IN  free \subseteq Tasks \ Alive /\ run \in [free -> RunIds]
<1> DEFINE free == CHOOSE f \in kSubset(Cardinality(Batch), Tasks \ Alive) : TRUE
           run  == CHOOSE f \in [free -> Batch] : IsInjective(f)
<1>1. Batch \subseteq RunIds /\ IsFiniteSet(Batch) /\ Cardinality(Batch) \in Nat
    <2>1. Batch \subseteq finished
        BY DEF Batch, Unevaluated
    <2> QED BY <2>1, FS_Subset, FS_CardinalityType DEF SemanticTypes
<1>2. IsFiniteSet(Tasks \ Alive)
    BY SemanticConstants, FS_Subset
<1>3. free \in kSubset(Cardinality(Batch), Tasks \ Alive)
    <2>1. kSubset(Cardinality(Batch), Tasks \ Alive) # {}
        BY <1>1, <1>2, SubsetOfSize
    <2> QED BY <2>1
<1> HIDE DEF free
<1>4. free \subseteq Tasks \ Alive /\ Cardinality(free) = Cardinality(Batch)
    BY <1>3 DEF kSubset
<1>5. \E f \in [free -> Batch] : IsInjective(f)
    <2>1. IsFiniteSet(free)
        BY <1>2, <1>4, FS_Subset
    <2>2. ExistsBijection(free, Batch)
        BY <1>1, <1>4, <2>1, FS_SameCardinalityBij
    <2> QED BY <2>2 DEF ExistsBijection, Bijection, Injection
<1>6. run \in [free -> Batch]
    BY <1>5
<1> HIDE DEF run
<1>7. run \in [free -> RunIds]
    BY <1>1, <1>6
<1> QED BY <1>4, <1>7 DEF free, run

LEMMA PollKeeps ==
    ASSUME SemanticInv, Poll
    PROVE  SemanticInv'
<1>1. PICK free \in SUBSET (Tasks \ Alive) : \E run \in [free -> RunIds] :
        task' = [t \in Tasks |->
                    IF t \in free
                    THEN [at |-> "sample", run |-> run[t], todo |-> Evaluators,
                          sampled |-> FALSE, finding |-> "none"]
                    ELSE task[t]]
    <2> DEFINE set == CHOOSE f \in kSubset(Cardinality(Batch), Tasks \ Alive) : TRUE
               fun == CHOOSE f \in [set -> Batch] : IsInjective(f)
    <2>1. set \subseteq Tasks \ Alive /\ fun \in [set -> RunIds]
        BY BatchTaken DEF Poll, SemanticInv
    <2>2. task' = [t \in Tasks |->
                    IF t \in set
                    THEN [at |-> "sample", run |-> fun[t], todo |-> Evaluators,
                          sampled |-> FALSE, finding |-> "none"]
                    ELSE task[t]]
        BY DEF Poll
    <2> HIDE DEF set, fun
    <2> QED BY <2>1, <2>2
<1>a. PICK run \in [free -> RunIds] :
        task' = [t \in Tasks |->
                    IF t \in free
                    THEN [at |-> "sample", run |-> run[t], todo |-> Evaluators,
                          sampled |-> FALSE, finding |-> "none"]
                    ELSE task[t]]
    BY <1>1
<1>2. /\ SemanticTypes /\ UNCHANGED <<finished, usage, waived, tried, failed>>
    BY DEF Poll, books, notes, SemanticInv
<1>3. SemanticTypes'
    <2>1. task' \in [Tasks -> Active \cup {Idle}]
        BY <1>a, <1>2 DEF SemanticTypes, Active, Steps
    <2> QED BY <1>2, <2>1 DEF SemanticTypes
<1>4. ASSUME NEW t \in Tasks
      PROVE  \/ task'[t] = task[t]
             \/ /\ task[t].at = "idle" /\ task'[t].at = "sample"
    BY <1>a DEF Alive, Idle
<1>5. Budgeting' = Budgeting
    BY <1>4 DEF Budgeting, At
<1>6. \A e : Paid(e)' = Paid(e)
    BY <1>4 DEF Paid
<1>7. AgentPaid'
    <2> SUFFICES ASSUME NEW e \in Evaluators
                 PROVE  /\ IsFiniteSet(Called(e)')
                        /\ Cardinality(Called(e)') + Cardinality(Paid(e)') <= usage'.agent
        BY DEF AgentPaid
    <2> QED BY <1>2, <1>6, CallsKept
<1>8. OrgPaid'
    BY <1>2, <1>5 DEF SemanticInv, OrgPaid, Died
<1> QED BY <1>3, <1>7, <1>8 DEF SemanticInv

(* Every task dies at once: those before the budget have charged the       *)
(* organization, and there are no more of them than tasks.                 *)
LEMMA WorkerRestartsKeeps ==
    ASSUME SemanticInv, WorkerRestarts
    PROVE  SemanticInv'
<1>1. /\ SemanticTypes /\ UNCHANGED <<finished, usage, waived, tried>>
      /\ task' = [t \in Tasks |-> Idle]
      /\ failed' = Append(failed, {task[t].run : t \in Alive})
      /\ {task[t].run : t \in Alive} \in SUBSET RunIds
    <2>1. \A t \in Alive : task[t] \in Active
        BY DEF SemanticInv, SemanticTypes, Alive
    <2>2. {task[t].run : t \in Alive} \in SUBSET RunIds
        BY <2>1 DEF Active
    <2> QED BY <2>2 DEF WorkerRestarts, books, notes, SemanticInv
<1>2. failed' \in Seq(SUBSET RunIds) /\ Len(failed') = Len(failed) + 1 /\ Len(failed) \in Nat
    BY <1>1 DEF SemanticTypes
<1>3. SemanticTypes'
    BY <1>1, <1>2 DEF SemanticTypes
<1>4. Budgeting' = {} /\ \A e : Paid(e)' = {}
    BY <1>1 DEF Budgeting, Paid, At, Idle
<1>5. AgentPaid'
    <2> SUFFICES ASSUME NEW e \in Evaluators
                 PROVE  /\ IsFiniteSet(Called(e)')
                        /\ Cardinality(Called(e)') + Cardinality(Paid(e)') <= usage'.agent
        BY DEF AgentPaid
    <2> QED BY <1>1, <1>4, CallsKept
<1>6. OrgPaid'
    <2>1. Died' = Died + Cardinality(Tasks) /\ Died \in Nat
        <3>1. (Len(failed) + 1) * Cardinality(Tasks) =
                  Len(failed) * Cardinality(Tasks) + Cardinality(Tasks)
            BY <1>2, SemanticConstants, OneMoreTimes, Zenon
        <3>2. Len(failed)' = Len(failed) + 1
            BY <1>2
        <3>3. Died \in Nat
            BY <1>2, SemanticConstants DEF Died
        <3> QED BY <3>1, <3>2, <3>3, Zenon DEF Died
    <2>2. Cardinality(Budgeting') = 0
        BY <1>4, FS_EmptySet
    <2>3. /\ Cardinality(Budgeting) \in Nat /\ Cardinality(Tasks) \in Nat
          /\ Cardinality(Budgeting) <= Cardinality(Tasks)
          /\ usage.org \in Nat /\ usage.agent \in Nat /\ waived \in Nat
        BY <1>1, CountsOfTasks, SemanticConstants DEF SemanticTypes
    <2>4. /\ usage.agent + waived + Cardinality(Budgeting) <= usage.org
          /\ usage.org <= usage.agent + waived + Died + Cardinality(Budgeting)
          /\ usage.org <= Quota
        BY DEF SemanticInv, OrgPaid
    <2> QED BY <1>1, <2>1, <2>2, <2>3, <2>4 DEF OrgPaid
<1> QED BY <1>3, <1>5, <1>6 DEF SemanticInv

(* The other steps change nothing that is counted.                         *)
LEMMA QuietStep ==
    ASSUME SemanticInv, finished' \in SUBSET RunIds, IsFiniteSet(finished'),
           UNCHANGED <<usage, waived, tried, task, failed>>
    PROVE  SemanticInv'
<1>1. SemanticTypes'
    BY DEF SemanticInv, SemanticTypes
<1>2. Budgeting' = Budgeting /\ \A e : Paid(e)' = Paid(e)
    BY DEF Budgeting, Paid, At
<1>3. AgentPaid'
    <2> SUFFICES ASSUME NEW e \in Evaluators
                 PROVE  /\ IsFiniteSet(Called(e)')
                        /\ Cardinality(Called(e)') + Cardinality(Paid(e)') <= usage'.agent
        BY DEF AgentPaid
    <2> QED BY <1>2, CallsKept
<1>4. OrgPaid'
    BY <1>2 DEF SemanticInv, OrgPaid, Died
<1> QED BY <1>1, <1>3, <1>4 DEF SemanticInv

(* A task with a decision on its sampling.                                 *)
Ruled(t, a, s) == [task EXCEPT ![t].at = a, ![t].sampled = s]

(* Two fields of a task are changed.                                       *)
LEMMA TwoFields ==
    ASSUME SemanticTypes, NEW t \in Tasks, task[t] \in Active, NEW a \in Steps,
           NEW s \in BOOLEAN, task' = Ruled(t, a, s)
    PROVE  \E new \in Active :
               /\ task' = [task EXCEPT ![t] = new]
               /\ new.at = a /\ new.todo = task[t].todo
<1> DEFINE b == [task[t] EXCEPT !.at = a]
           new == [b EXCEPT !.sampled = s]
           f == [task EXCEPT ![t].at = a]
<1>1. b \in Active /\ b.at = a /\ b.todo = task[t].todo
    BY DEF Active
<1>2. f = [task EXCEPT ![t] = b] /\ f[t] = b
    BY DEF SemanticTypes
<1> HIDE DEF b, f
<1>3. new \in Active /\ new.at = a /\ new.todo = task[t].todo
    BY <1>1 DEF Active
<1>4. [f EXCEPT ![t].sampled = s] = [task EXCEPT ![t] = new]
    BY <1>2 DEF SemanticTypes
<1>5. task' = [f EXCEPT ![t].sampled = s]
    BY DEF f, Ruled
<1> HIDE DEF new
<1> QED BY <1>3, <1>4, <1>5

(* One field of a task is changed.                                         *)
LEMMA GoesOn ==
    ASSUME SemanticTypes, NEW t \in Tasks, task[t] \in Active, NEW a \in Steps
    PROVE  \E new \in Active :
               /\ [task EXCEPT ![t].at = a] = [task EXCEPT ![t] = new]
               /\ new.at = a /\ new.todo = task[t].todo
<1> DEFINE new == [task[t] EXCEPT !.at = a]
<1>1. new \in Active /\ new.at = a /\ new.todo = task[t].todo
    BY DEF Active
<1>2. [task EXCEPT ![t].at = a] = [task EXCEPT ![t] = new]
    BY DEF SemanticTypes
<1> HIDE DEF new
<1> QED BY <1>1, <1>2

(* What a task does, it does alive.                                        *)
LEMMA AliveActs ==
    ASSUME SemanticTypes, NEW t \in Tasks, task[t].at # "idle"
    PROVE  task[t] \in Active
BY DEF SemanticTypes, Idle

LEMMA TaskStepKeeps ==
    ASSUME SemanticInv, NEW t \in Tasks, Step(t)
    PROVE  SemanticInv'
<1>1. /\ SemanticTypes /\ usage \in [org: Nat, agent: Nat, conv: Nat] /\ waived \in Nat
      /\ Idle.at = "idle" /\ Idle \in Active \cup {Idle}
    BY DEF SemanticInv, SemanticTypes, Idle
<1>2. CASE Sample(t)
    <2> DEFINE low == BucketOf[task[t].run] < Rate(task[t].run \in structural)
    <2>0. /\ At(t, "sample") /\ UNCHANGED <<finished, usage, waived, tried, failed>>
          /\ task' = Ruled(t, IF low THEN "quota" ELSE "converse", low)
        BY <1>2 DEF Sample, books, notes, Ruled
    <2>1. /\ At(t, "sample") /\ UNCHANGED <<finished, usage, waived, tried, failed>>
          /\ \E a \in {"quota", "converse"}, s \in BOOLEAN :
                task' = Ruled(t, a, s)
        <3>1. low \in BOOLEAN
            OBVIOUS
        <3>2. (IF low THEN "quota" ELSE "converse") \in {"quota", "converse"}
            OBVIOUS
        <3> HIDE DEF low
        <3> QED BY <2>0, <3>1, <3>2
    <2>2. PICK a \in {"quota", "converse"}, s \in BOOLEAN :
                task' = Ruled(t, a, s)
        BY <2>1
    <2>3. task[t] \in Active /\ task[t].at = "sample" /\ a \in Steps
        BY <1>1, <2>1, AliveActs DEF At, Steps
    <2>4. PICK new \in Active : task' = [task EXCEPT ![t] = new] /\ new.at = a
        BY <1>1, <2>2, <2>3, TwoFields
    <2> QED BY <1>1, <2>1, <2>3, <2>4, PlainMove
<1>3. CASE ConsumeQuota(t)
    <2>1. At(t, "quota") /\ UNCHANGED <<finished, waived, tried, failed>>
        BY <1>3 DEF ConsumeQuota, notes
    <2>2. task[t] \in Active /\ task[t].at = "quota"
        BY <1>1, <2>1, AliveActs DEF At
    <2>3. CASE UnderQuota
        <3>1. usage' = [usage EXCEPT !.org = @ + 1] /\ Goto(t, "budget")
            BY <1>3, <2>3 DEF ConsumeQuota
        <3>2. PICK new \in Active : task' = [task EXCEPT ![t] = new] /\ new.at = "budget"
            BY <1>1, <2>2, <3>1, GoesOn DEF Goto, Steps
        <3> QED BY <2>1, <2>2, <2>3, <3>1, <3>2, ChargedOrg DEF UnderQuota
    <2>4. CASE ~UnderQuota
        <3>1. usage' = usage /\ Refused(t)
            BY <1>3, <2>4 DEF ConsumeQuota
        <3>2. PICK new \in Active : task' = [task EXCEPT ![t] = new] /\ new.at = "converse"
            <4>1. "converse" \in Steps
                BY DEF Steps
            <4>2. \E s \in BOOLEAN : task' = Ruled(t, "converse", s)
                BY <3>1 DEF Refused, Ruled
            <4>3. PICK s \in BOOLEAN : task' = Ruled(t, "converse", s)
                BY <4>2
            <4> QED BY <1>1, <2>2, <4>1, <4>3, TwoFields
        <3> QED BY <1>1, <2>1, <2>2, <3>1, <3>2, PlainMove
    <2> QED BY <2>3, <2>4
<1>4. CASE ConsumeBudget(t)
    <2>1. At(t, "budget") /\ UNCHANGED <<finished, tried, failed>>
        BY <1>4 DEF ConsumeBudget, notes
    <2>2. task[t] \in Active /\ task[t].at = "budget"
        BY <1>1, <2>1, AliveActs DEF At
    <2>3. CASE usage.agent < Budget
        <3>1. usage' = [usage EXCEPT !.agent = @ + 1] /\ waived' = waived /\ Goto(t, "evaluate")
            BY <1>4, <2>3 DEF ConsumeBudget, ChargeAgent
        <3>2. PICK new \in Active : task' = [task EXCEPT ![t] = new] /\ new.at = "evaluate"
            BY <1>1, <2>2, <3>1, GoesOn DEF Goto, Steps
        <3> QED BY <2>1, <2>2, <3>1, <3>2, AskedBudget
    <2>4. CASE ~(usage.agent < Budget)
        <3>1. usage' = usage /\ waived' = waived + 1 /\ Refused(t)
            BY <1>4, <2>4 DEF ConsumeBudget
        <3>2. PICK new \in Active : task' = [task EXCEPT ![t] = new] /\ new.at = "converse"
            <4>1. "converse" \in Steps
                BY DEF Steps
            <4>2. \E s \in BOOLEAN : task' = Ruled(t, "converse", s)
                BY <3>1 DEF Refused, Ruled
            <4>3. PICK s \in BOOLEAN : task' = Ruled(t, "converse", s)
                BY <4>2
            <4> QED BY <1>1, <2>2, <4>1, <4>3, TwoFields
        <3> QED BY <2>1, <2>2, <3>1, <3>2, AskedBudget
    <2> QED BY <2>3, <2>4
<1>5. CASE \E e \in Evaluators : Evaluate(t, e)
    BY <1>5, EvaluateKeeps
<1>6. CASE Write(t)
    <2>1. /\ At(t, "write") /\ UNCHANGED <<finished, usage, waived, tried, failed>>
          /\ Goto(t, "evaluate")
        BY <1>6 DEF Write, books
    <2>2. task[t] \in Active /\ task[t].at = "write"
        BY <1>1, <2>1, AliveActs DEF At
    <2>3. PICK new \in Active : /\ task' = [task EXCEPT ![t] = new]
                                /\ new.at = "evaluate" /\ new.todo = task[t].todo
        BY <1>1, <2>1, <2>2, GoesOn DEF Goto, Steps
    <2> QED BY <1>1, <2>1, <2>2, <2>3, PlainMove
<1>7. CASE Evaluated(t)
    <2>1. /\ At(t, "evaluate") /\ UNCHANGED <<finished, usage, waived, tried, failed>>
          /\ Goto(t, "converse")
        BY <1>7 DEF Evaluated, books, notes
    <2>2. task[t] \in Active /\ task[t].at = "evaluate"
        BY <1>1, <2>1, AliveActs DEF At
    <2>3. PICK new \in Active : task' = [task EXCEPT ![t] = new] /\ new.at = "converse"
        BY <1>1, <2>1, <2>2, GoesOn DEF Goto, Steps
    <2> QED BY <1>1, <2>1, <2>2, <2>3, PlainMove
<1>8. CASE Converse(t)
    <2>1. /\ At(t, "converse") /\ UNCHANGED <<finished, waived, tried, failed>>
          /\ Goto(t, "mark")
        BY <1>8 DEF Converse, notes
    <2>2. task[t] \in Active /\ task[t].at = "converse"
        BY <1>1, <2>1, AliveActs DEF At
    <2>3. PICK new \in Active : task' = [task EXCEPT ![t] = new] /\ new.at = "mark"
        BY <1>1, <2>1, <2>2, GoesOn DEF Goto, Steps
    <2>4. /\ usage' \in [org: Nat, agent: Nat, conv: Nat]
          /\ usage'.org = usage.org /\ usage'.agent = usage.agent
        BY <1>1, <1>8 DEF Converse
    <2> QED BY <1>1, <2>1, <2>2, <2>3, <2>4, PlainMove
<1>9. CASE Mark(t)
    <2>1. /\ task[t].at = "mark" /\ UNCHANGED <<finished, usage, waived, tried, failed>>
          /\ task' = [task EXCEPT ![t] = Idle]
        BY <1>9 DEF Mark, At, books
    <2> QED BY <1>1, <2>1, PlainMove
<1> QED BY <1>2, <1>3, <1>4, <1>5, <1>6, <1>7, <1>8, <1>9 DEF Step

LEMMA TaskFailsKeeps ==
    ASSUME SemanticInv, NEW t \in Tasks, TaskFails(t)
    PROVE  SemanticInv'
<1>1. /\ SemanticTypes /\ usage \in [org: Nat, agent: Nat, conv: Nat]
      /\ Idle.at = "idle" /\ Idle \in Active \cup {Idle} /\ failed \in Seq(SUBSET RunIds)
    BY DEF SemanticInv, SemanticTypes, Idle
<1>2. /\ task' = [task EXCEPT ![t] = Idle] /\ failed' = Append(failed, {task[t].run})
      /\ UNCHANGED <<finished, usage, waived, tried>> /\ task[t].at # "idle"
    BY DEF TaskFails, books, notes
<1>3. task[t].run \in RunIds
    BY <1>1, <1>2, AliveActs DEF Active
<1>4. failed' \in Seq(SUBSET RunIds) /\ Len(failed') = Len(failed) + 1
    BY <1>1, <1>2, <1>3
<1> QED BY <1>1, <1>2, <1>4, PlainMove

LEMMA SemanticStepKeeps == SemanticInv /\ [SemanticNext]_semanticVars => SemanticInv'
<1> SUFFICES ASSUME SemanticInv, [SemanticNext]_semanticVars PROVE SemanticInv'
    OBVIOUS
<1>1. finished \in SUBSET RunIds /\ IsFiniteSet(finished)
    BY DEF SemanticInv, SemanticTypes
<1>2. ASSUME NEW r \in RunIds, Finish(r) PROVE SemanticInv'
    <2>1. finished' = finished \cup {r} /\ UNCHANGED <<usage, waived, tried, task, failed>>
        BY <1>2 DEF Finish, books, notes
    <2>2. IsFiniteSet(finished') /\ finished' \in SUBSET RunIds
        BY <1>1, <2>1, FS_AddElement
    <2> QED BY <2>1, <2>2, QuietStep
<1>3. ASSUME NEW r \in RunIds, Detect(r) PROVE SemanticInv'
    <2>1. UNCHANGED <<finished, usage, waived, tried, task, failed>>
        BY <1>3 DEF Detect, books, notes
    <2> QED BY <1>1, <2>1, QuietStep
<1>4. CASE UNCHANGED semanticVars
    <2>1. UNCHANGED <<finished, usage, waived, tried, task, failed>>
        BY <1>4 DEF semanticVars, books, notes
    <2> QED BY <1>1, <2>1, QuietStep
<1> QED BY <1>2, <1>3, <1>4, PollKeeps, WorkerRestartsKeeps, TaskStepKeeps, TaskFailsKeeps
        DEF SemanticNext

(* The books of the evaluations, kept under every interleaving of the      *)
(* tasks, their failures and the worker's restarts.                        *)
THEOREM SemanticInvariant == SemanticSpec => []SemanticInv
BY SemanticInitially, SemanticStepKeeps, PTL DEF SemanticSpec

(* No evaluator of process_run is called more often than the agent's       *)
(* counter says, the quota of consume_quota is never passed, and the       *)
(* organization is charged for more than the agents' evaluations only by   *)
(* what the budget refused and what died before asking it.                 *)
THEOREM EvaluationsPaidHolds == SemanticSpec => []EvaluationsPaid
<1>1. SemanticInv => EvaluationsPaid
    <2> SUFFICES ASSUME SemanticInv PROVE EvaluationsPaid
        OBVIOUS
    <2>1. ASSUME NEW e \in Evaluators PROVE Cardinality(Called(e)) <= usage.agent
        <3>1. /\ IsFiniteSet(Called(e)) /\ usage.agent \in Nat
              /\ Cardinality(Called(e)) + Cardinality(Paid(e)) <= usage.agent
            BY DEF SemanticInv, AgentPaid, SemanticTypes
        <3>2. Cardinality(Called(e)) \in Nat /\ Cardinality(Paid(e)) \in Nat
            BY <3>1, CountsOfTasks, FS_CardinalityType
        <3> QED BY <3>1, <3>2
    <2>2. /\ usage.org <= Quota
          /\ usage.agent + waived + Cardinality(Budgeting) <= usage.org
          /\ usage.org <= usage.agent + waived + Died + Cardinality(Budgeting)
        BY DEF SemanticInv, OrgPaid
    <2> QED BY <2>1, <2>2, Zenon DEF EvaluationsPaid, Died
<1> QED BY <1>1, SemanticInvariant, PTL
=============================================================================
