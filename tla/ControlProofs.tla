--------------------------- MODULE ControlProofs ---------------------------
(* Proofs about what the server controls in a running agent.  Module       *)
(* Approvals: every report agrees with the record, and the gate implements *)
(* ToolGate, for any set of calls, any number of alert workers and faults. *)
(* Module PolicySync: no agent goes back to an older revision of a policy, *)
(* and no agent's load disarms another, for any agents, policies, threads, *)
(* edits and mishaps.                                                      *)
EXTENDS Approvals, PolicySync, WellFoundedInduction, TLAPS

States == {"none", "pending"} \union Decisions

Row == [status: States, delivered: BOOLEAN, expired: BOOLEAN]

(* The parts of the types the argument needs.                              *)
GateTypes ==
    /\ rows \in [Calls -> Row]
    /\ sdk \in [Calls -> {"idle", "create", "poll", "mark", "reread", "over"}]
    /\ reported \in [Calls -> {"none"} \union Decisions]
    /\ ran \subseteq Calls

(* A row begins with its call's request; a verdict that is read back was   *)
(* given; a report ends the call, and a tool that ran was granted.         *)
RowFollowsCall(c) ==
    /\ sdk[c] \in {"idle", "create"} => rows[c].status = "none"
    /\ sdk[c] \in {"poll", "mark"} => rows[c].status # "none"
    /\ sdk[c] = "reread" => rows[c].status \in Decisions
    /\ reported[c] # "none" => sdk[c] = "over" /\ rows[c].status = reported[c]
    /\ c \in ran => reported[c] = "granted"

IInv == GateTypes /\ \A c \in Calls : RowFollowsCall(c)
-----------------------------------------------------------------------------
LEMMA InitEstablishes == Init => IInv
BY DEF Init, IInv, GateTypes, RowFollowsCall, NoRow, Row, States, Decisions

(* Time and delivery marks change neither verdicts nor the thread.         *)
LEMMA MarkSet ==
    ASSUME NEW row \in Row
    PROVE  /\ [row EXCEPT !.expired = TRUE] \in Row
           /\ [row EXCEPT !.expired = TRUE].status = row.status
           /\ [row EXCEPT !.delivered = TRUE] \in Row
           /\ [row EXCEPT !.delivered = TRUE].status = row.status
BY DEF Row

LEMMA StatusesKept ==
    ASSUME IInv, UNCHANGED gate, rows' \in [Calls -> Row],
           \A c \in Calls : rows'[c].status = rows[c].status
    PROVE  IInv'
BY DEF IInv, GateTypes, RowFollowsCall, gate

LEMMA ExpireKeeps ==
    ASSUME IInv, NEW c \in Calls, Expire(c)
    PROVE  IInv'
<1>1. rows' = [x \in Calls |->
          IF x = c THEN [rows[x] EXCEPT !.expired = TRUE] ELSE rows[x]]
    BY DEF Expire, IInv, GateTypes
<1>2. \A x \in Calls : rows[x] \in Row
    BY DEF IInv, GateTypes
<1>3. \A x \in Calls : rows'[x] \in Row /\ rows'[x].status = rows[x].status
    BY <1>1, <1>2, MarkSet
<1> QED BY <1>1, <1>3, StatusesKept DEF Expire

LEMMA DeliveredKeeps ==
    ASSUME IInv, NEW r \in Replicas, MarkDelivered(r)
    PROVE  IInv'
<1> DEFINE call == worker[r].sending
<1>1. rows' = [x \in Calls |->
          IF x = call THEN [rows[x] EXCEPT !.delivered = TRUE] ELSE rows[x]]
    BY DEF MarkDelivered, Delivered, IInv, GateTypes
<1>2. \A x \in Calls : rows[x] \in Row
    BY DEF IInv, GateTypes
<1> HIDE DEF call
<1>3. \A x \in Calls : rows'[x] \in Row /\ rows'[x].status = rows[x].status
    BY <1>1, <1>2, MarkSet
<1> QED BY <1>1, <1>3, StatusesKept DEF MarkDelivered

(* A step of one call's thread, or of somebody who decides on it, leaves   *)
(* the other calls as they are.                                            *)
LEMMA OneCallSteps ==
    ASSUME IInv, NEW c \in Calls,
           \/ Ask(c) \/ Gate(c) \/ DeadlinePasses(c) \/ Expire(c) \/ PollFails(c)
           \/ \E b \in BOOLEAN : CreateFails(c, b) \/ MarkFails(c, b)
           \/ \E d \in {"granted", "denied"} : Decide(c, d)
    PROVE  IInv'
<1> USE DEF IInv, GateTypes, RowFollowsCall, Row, States, Decisions
<1>1. CASE Ask(c)
    BY <1>1 DEF Ask, Goto
<1>2. CASE Create(c)
    BY <1>2 DEF Create, Goto, NewRow, NoRow
<1>3. CASE Poll(c)
    <2>1. CASE Pending(c)
        BY <1>3, <2>1 DEF Poll, Goto, AfterPending, Pending
    <2>2. CASE ~Pending(c)
        BY <1>3, <2>2 DEF Poll, Finish, Pending
    <2> QED BY <2>1, <2>2
<1>4. CASE MarkForbidden(c)
    BY <1>4 DEF MarkForbidden, Goto
<1>5. CASE MarkTimeout(c)
    BY <1>5 DEF MarkTimeout, Finish, TimedOut, Undecided, Pending
<1>6. CASE MarkTooLate(c)
    BY <1>6 DEF MarkTooLate, Goto, Undecided, Pending
<1>7. CASE Reread(c)
    BY <1>7 DEF Reread, Finish
<1>8. CASE DeadlinePasses(c)
    BY <1>8 DEF DeadlinePasses, gate
<1>9. CASE Expire(c)
    BY <1>9, ExpireKeeps
<1>10. CASE PollFails(c)
    BY <1>10 DEF PollFails, Raise, Goto
<1>11. ASSUME NEW b \in BOOLEAN, CreateFails(c, b) PROVE IInv'
    BY <1>11 DEF CreateFails, Raise, Goto, NewRow, NoRow
<1>12. ASSUME NEW b \in BOOLEAN, MarkFails(c, b) PROVE IInv'
    BY <1>12 DEF MarkFails, Raise, Goto, TimedOut, Undecided, Pending
<1>13. ASSUME NEW d \in {"granted", "denied"}, Decide(c, d) PROVE IInv'
    BY <1>13 DEF Decide, gate, Undecided, Pending
<1> QED BY <1>1, <1>2, <1>3, <1>4, <1>5, <1>6, <1>7, <1>8, <1>9, <1>10, <1>11, <1>12,
           <1>13 DEF Gate

(* A worker marks a row delivered, or leaves the rows alone.               *)
LEMMA WorkerSteps ==
    ASSUME IInv, NEW r \in Replicas, Notify(r) \/ Crash(r)
    PROVE  IInv'
<1> USE DEF IInv, GateTypes, RowFollowsCall
<1>1. CASE Fetch(r)
    BY <1>1 DEF Fetch, gate
<1>2. CASE MarkDelivered(r)
    BY <1>2, DeliveredKeeps
<1>3. ASSUME NEW c \in Calls, NEW works \in BOOLEAN, Send(r, c, works) PROVE IInv'
    BY <1>3 DEF Send, gate
<1>4. CASE Crash(r)
    BY <1>4 DEF Crash, gate
<1> QED BY <1>1, <1>2, <1>3, <1>4 DEF Notify

LEMMA StepKeeps == IInv /\ [Next]_vars => IInv'
<1> SUFFICES ASSUME IInv, [Next]_vars PROVE IInv'
    OBVIOUS
<1>1. CASE UNCHANGED vars
    BY <1>1 DEF vars, gate, IInv, GateTypes, RowFollowsCall
<1>2. CASE Next
    BY <1>2, OneCallSteps, WorkerSteps DEF Next
<1> QED BY <1>1, <1>2

(* The invariant holds in every state of every behaviour.                  *)
THEOREM InductiveInvariant == Spec => []IInv
BY InitEstablishes, StepKeeps, PTL DEF Spec

(* What the SDK reports is what the row says, for ever.                    *)
THEOREM ReportHolds == Spec => []ReportAgrees
<1>1. IInv => ReportAgrees
    BY DEF IInv, RowFollowsCall, ReportAgrees
<1> QED BY <1>1, InductiveInvariant, PTL

(* A guarded tool that ran was granted, and stays granted.                 *)
THEOREM GrantHolds == Spec => []RunsOnlyIfGranted
<1>1. IInv => RunsOnlyIfGranted
    BY DEF IInv, GateTypes, RowFollowsCall, RunsOnlyIfGranted
<1> QED BY <1>1, InductiveInvariant, PTL
-----------------------------------------------------------------------------
(* The refinement.  Verdict and Outcome of a call depend on its own row    *)
(* and thread.                                                             *)
LEMMA OnlyOwn ==
    ASSUME IInv, NEW c \in Calls, NEW v, NEW o,
           \A x \in Calls \ {c} : /\ rows'[x].status = rows[x].status
                                  /\ sdk'[x] = sdk[x]
                                  /\ (x \in ran' <=> x \in ran),
           Verdict'[c] = v, Outcome'[c] = o
    PROVE  /\ Verdict' = [Verdict EXCEPT ![c] = v]
           /\ Outcome' = [Outcome EXCEPT ![c] = o]
<1>1. Verdict' = [x \in Calls |-> Verdict'[x]] /\ Outcome' = [x \in Calls |-> Outcome'[x]]
    BY DEF Verdict, Outcome
<1>2. \A x \in Calls \ {c} : Verdict'[x] = Verdict[x] /\ Outcome'[x] = Outcome[x]
    BY DEF Verdict, Outcome
<1>3. DOMAIN Verdict = Calls /\ DOMAIN Outcome = Calls
    BY DEF Verdict, Outcome
<1>4. Verdict' = [x \in Calls |-> IF x = c THEN v ELSE Verdict[x]]
    BY <1>1, <1>2
<1>5. Outcome' = [x \in Calls |-> IF x = c THEN o ELSE Outcome[x]]
    BY <1>1, <1>2
<1> QED BY <1>3, <1>4, <1>5

(* What nobody outside sees.                                               *)
LEMMA Unseen ==
    ASSUME IInv, UNCHANGED <<sdk, ran>>, \A x \in Calls : rows'[x].status = rows[x].status
    PROVE  UNCHANGED Promise!vars
BY DEF Verdict, Outcome, Promise!vars

LEMMA Waits ==
    ASSUME IInv, NEW c \in Calls, sdk[c] # "over"
    PROVE  c \notin ran /\ Outcome[c] = "waiting"
BY DEF IInv, GateTypes, RowFollowsCall, Outcome

(* A step of the thread of c that leaves verdict and outcome of c, or      *)
(* changes one of them, or both.                                           *)
Own(c) ==
    \A x \in Calls \ {c} : /\ rows'[x].status = rows[x].status
                           /\ sdk'[x] = sdk[x]
                           /\ (x \in ran' <=> x \in ran)

LEMMA OwnUnseen ==
    ASSUME IInv, NEW c \in Calls, Own(c),
           Verdict'[c] = Verdict[c], Outcome'[c] = Outcome[c]
    PROVE  UNCHANGED Promise!vars
<1>1. /\ Verdict' = [Verdict EXCEPT ![c] = Verdict[c]]
      /\ Outcome' = [Outcome EXCEPT ![c] = Outcome[c]]
    BY OnlyOwn DEF Own
<1>2. Verdict = [x \in Calls |-> Verdict[x]] /\ Outcome = [x \in Calls |-> Outcome[x]]
    BY DEF Verdict, Outcome
<1> QED BY <1>1, <1>2 DEF Promise!vars

LEMMA OwnStops ==
    ASSUME IInv, NEW c \in Calls, Own(c), sdk[c] # "over",
           Verdict'[c] = Verdict[c], Outcome'[c] = "stopped"
    PROVE  Promise!Next
<1>1. /\ Verdict' = [Verdict EXCEPT ![c] = Verdict[c]]
      /\ Outcome' = [Outcome EXCEPT ![c] = "stopped"]
    BY OnlyOwn DEF Own
<1>2. Verdict = [x \in Calls |-> Verdict[x]]
    BY DEF Verdict
<1>3. Promise!Stop(c)
    BY <1>1, <1>2, Waits DEF Promise!Stop, Promise!End
<1> QED BY <1>3 DEF Promise!Next

LEMMA OwnRuns ==
    ASSUME IInv, NEW c \in Calls, Own(c), sdk[c] # "over",
           Verdict[c] = "granted", Verdict'[c] = Verdict[c], Outcome'[c] = "ran"
    PROVE  Promise!Next
<1>1. /\ Verdict' = [Verdict EXCEPT ![c] = Verdict[c]]
      /\ Outcome' = [Outcome EXCEPT ![c] = "ran"]
    BY OnlyOwn DEF Own
<1>2. Verdict = [x \in Calls |-> Verdict[x]]
    BY DEF Verdict
<1>3. Promise!Run(c)
    BY <1>1, <1>2, Waits DEF Promise!Run, Promise!End
<1> QED BY <1>3 DEF Promise!Next

LEMMA OwnLapses ==
    ASSUME IInv, NEW c \in Calls, Own(c), sdk[c] # "over",
           Verdict[c] = "none", Verdict'[c] = "timeout", Outcome'[c] = "stopped"
    PROVE  Promise!Next
<1>1. /\ Verdict' = [Verdict EXCEPT ![c] = "timeout"]
      /\ Outcome' = [Outcome EXCEPT ![c] = "stopped"]
    BY OnlyOwn DEF Own
<1>2. Promise!Lapse(c)
    BY <1>1, Waits DEF Promise!Lapse, Promise!Rule, Promise!End
<1> QED BY <1>2 DEF Promise!Next

(* The thread of a call, step by step.                                     *)
LEMMA GateStepSimulates ==
    ASSUME IInv, NEW c \in Calls,
           \/ Ask(c) \/ Gate(c) \/ PollFails(c)
           \/ \E b \in BOOLEAN : CreateFails(c, b) \/ MarkFails(c, b)
    PROVE  Promise!Next \/ UNCHANGED Promise!vars
<1> USE DEF IInv, GateTypes, RowFollowsCall, Own, Verdict, Outcome, Decisions
<1>1. CASE Ask(c)
    <2>1. Own(c) /\ Verdict'[c] = Verdict[c] /\ Outcome'[c] = Outcome[c]
        BY <1>1, Waits DEF Ask, Goto
    <2> QED BY <2>1, OwnUnseen
<1>2. CASE Create(c)
    <2>1. Own(c) /\ Verdict'[c] = Verdict[c] /\ Outcome'[c] = Outcome[c]
        BY <1>2, Waits DEF Create, Goto, NewRow, NoRow
    <2> QED BY <2>1, OwnUnseen
<1>3. CASE Poll(c) /\ Pending(c)
    <2>1. Own(c) /\ Verdict'[c] = Verdict[c] /\ Outcome'[c] = Outcome[c]
        BY <1>3, Waits DEF Poll, Goto, AfterPending
    <2> QED BY <2>1, OwnUnseen
<1>4. CASE (Poll(c) \/ Reread(c)) /\ ~Pending(c) /\ rows[c].status = "granted"
    <2>1. /\ Own(c) /\ sdk[c] # "over" /\ Verdict[c] = "granted"
          /\ Verdict'[c] = Verdict[c] /\ Outcome'[c] = "ran"
        BY <1>4 DEF Poll, Reread, Finish, Pending
    <2> QED BY <2>1, OwnRuns
<1>5. CASE (Poll(c) \/ Reread(c)) /\ ~Pending(c) /\ rows[c].status # "granted"
    <2>1. /\ Own(c) /\ sdk[c] # "over"
          /\ Verdict'[c] = Verdict[c] /\ Outcome'[c] = "stopped"
        BY <1>5, Waits DEF Poll, Reread, Finish, Pending
    <2> QED BY <2>1, OwnStops
<1>6. CASE MarkForbidden(c)
    <2>1. /\ Own(c) /\ sdk[c] # "over"
          /\ Verdict'[c] = Verdict[c] /\ Outcome'[c] = "stopped"
        BY <1>6, Waits DEF MarkForbidden, Goto
    <2> QED BY <2>1, OwnStops
<1>7. CASE MarkTimeout(c)
    <2>1. /\ Own(c) /\ sdk[c] # "over" /\ Verdict[c] = "none"
          /\ Verdict'[c] = "timeout" /\ Outcome'[c] = "stopped"
        BY <1>7, Waits DEF MarkTimeout, TimedOut, Finish, Undecided, Pending
    <2> QED BY <2>1, OwnLapses
<1>8. CASE MarkTooLate(c)
    <2>1. Own(c) /\ Verdict'[c] = Verdict[c] /\ Outcome'[c] = Outcome[c]
        BY <1>8, Waits DEF MarkTooLate, Goto
    <2> QED BY <2>1, OwnUnseen
<1>9. CASE PollFails(c)
    <2>1. /\ Own(c) /\ sdk[c] # "over"
          /\ Verdict'[c] = Verdict[c] /\ Outcome'[c] = "stopped"
        BY <1>9, Waits DEF PollFails, Raise, Goto
    <2> QED BY <2>1, OwnStops
<1>10. ASSUME NEW b \in BOOLEAN, CreateFails(c, b)
       PROVE  Promise!Next
    <2>1. /\ Own(c) /\ sdk[c] # "over"
          /\ Verdict'[c] = Verdict[c] /\ Outcome'[c] = "stopped"
        BY <1>10, Waits DEF CreateFails, Raise, Goto, NewRow, NoRow
    <2> QED BY <2>1, OwnStops
<1>11. ASSUME NEW b \in BOOLEAN, MarkFails(c, b), b /\ mayDecide /\ Undecided(c)
       PROVE  Promise!Next
    <2>1. /\ Own(c) /\ sdk[c] # "over" /\ Verdict[c] = "none"
          /\ Verdict'[c] = "timeout" /\ Outcome'[c] = "stopped"
        BY <1>11, Waits DEF MarkFails, Raise, Goto, TimedOut, Undecided, Pending
    <2> QED BY <2>1, OwnLapses
<1>12. ASSUME NEW b \in BOOLEAN, MarkFails(c, b), ~(b /\ mayDecide /\ Undecided(c))
       PROVE  Promise!Next
    <2>1. /\ Own(c) /\ sdk[c] # "over"
          /\ Verdict'[c] = Verdict[c] /\ Outcome'[c] = "stopped"
        BY <1>12, Waits DEF MarkFails, Raise, Goto
    <2> QED BY <2>1, OwnStops
<1>13. CASE Reread(c) /\ Pending(c)
    BY <1>13 DEF Reread, Pending
<1> QED BY <1>1, <1>2, <1>3, <1>4, <1>5, <1>6, <1>7, <1>8, <1>9, <1>10, <1>11, <1>12,
           <1>13 DEF Gate

LEMMA DecideSimulates ==
    ASSUME IInv, NEW c \in Calls, NEW d \in {"granted", "denied"}, Decide(c, d)
    PROVE  Promise!Next
<1>1. /\ Own(c) /\ Verdict[c] = "none"
      /\ Verdict'[c] = d /\ Outcome'[c] = Outcome[c]
    BY DEF Decide, Undecided, Pending, gate, Own, Verdict, Outcome, Decisions, IInv, GateTypes
<1>2. /\ Verdict' = [Verdict EXCEPT ![c] = d]
      /\ Outcome' = [Outcome EXCEPT ![c] = Outcome[c]]
    BY <1>1, OnlyOwn DEF Own
<1>3. Outcome = [x \in Calls |-> Outcome[x]]
    BY DEF Outcome
<1>4. Promise!Decide(c, d)
    BY <1>1, <1>2, <1>3 DEF Promise!Decide, Promise!Rule
<1> QED BY <1>4 DEF Promise!Next

(* Clocks and workers.                                                     *)
LEMMA OthersUnseen ==
    ASSUME IInv, \/ \E c \in Calls : DeadlinePasses(c) \/ Expire(c)
                 \/ \E r \in Replicas : Notify(r) \/ Crash(r)
    PROVE  UNCHANGED Promise!vars
<1>1. \A x \in Calls : rows[x] \in Row
    BY DEF IInv, GateTypes
<1>2. ASSUME NEW c \in Calls, Expire(c) PROVE UNCHANGED Promise!vars
    <2>1. rows' = [x \in Calls |->
              IF x = c THEN [rows[x] EXCEPT !.expired = TRUE] ELSE rows[x]]
        BY <1>2 DEF Expire, IInv, GateTypes
    <2>2. \A x \in Calls : rows'[x].status = rows[x].status
        BY <1>1, <2>1, MarkSet
    <2> QED BY <1>2, <2>2, Unseen DEF Expire, gate
<1>3. ASSUME NEW r \in Replicas, MarkDelivered(r) PROVE UNCHANGED Promise!vars
    <2> DEFINE call == worker[r].sending
    <2>1. rows' = [x \in Calls |->
              IF x = call THEN [rows[x] EXCEPT !.delivered = TRUE] ELSE rows[x]]
        BY <1>3 DEF MarkDelivered, Delivered, IInv, GateTypes
    <2> HIDE DEF call
    <2>2. \A x \in Calls : rows'[x].status = rows[x].status
        BY <1>1, <2>1, MarkSet
    <2> QED BY <1>3, <2>2, Unseen DEF MarkDelivered, gate
<1>4. ASSUME NEW r \in Replicas,
             Fetch(r) \/ Crash(r) \/ \E c \in Calls, works \in BOOLEAN : Send(r, c, works)
      PROVE  UNCHANGED Promise!vars
    BY <1>4, Unseen DEF Fetch, Crash, Send, gate
<1>5. ASSUME NEW c \in Calls, DeadlinePasses(c) PROVE UNCHANGED Promise!vars
    BY <1>5, Unseen DEF DeadlinePasses, gate
<1> QED BY <1>2, <1>3, <1>4, <1>5 DEF Notify

(* The gate implements ToolGate: a call's verdict is final, and its tool   *)
(* runs at most once and on a grant only, whatever fails or races.         *)
THEOREM GateImplemented == Spec => ImplementsToolGate
<1>1. Init => Promise!Init
    <2> SUFFICES ASSUME Init PROVE Promise!Init
        OBVIOUS
    <2>1. Verdict = [c \in Calls |-> "none"]
        BY DEF Init, Verdict, NoRow, Decisions
    <2>2. Outcome = [c \in Calls |-> "waiting"]
        BY DEF Init, Outcome
    <2> QED BY <2>1, <2>2 DEF Promise!Init
<1>2. IInv /\ [Next]_vars => [Promise!Next]_Promise!vars
    <2> SUFFICES ASSUME IInv, [Next]_vars PROVE Promise!Next \/ UNCHANGED Promise!vars
        OBVIOUS
    <2>1. CASE UNCHANGED vars
        BY <2>1, Unseen DEF vars, gate
    <2>2. CASE Next
        BY <2>2, GateStepSimulates, DecideSimulates, OthersUnseen DEF Next
    <2> QED BY <2>1, <2>2
<1> QED BY <1>1, <1>2, InductiveInvariant, PTL DEF Spec, ImplementsToolGate, Promise!Spec
-----------------------------------------------------------------------------
(* Policies in the SDK.  What the server says and the SDK keeps.           *)
Sig     == [version : {1, 3}, rev : Nat, mode : {"none", "enforcing", "dry_run"}]
LiveRow == [rev : Nat \ {0}, enabled : BOOLEAN, mode : {"enforcing", "dry_run"}, sig : Sig]
Wire    == [id : Policies, rev : Nat, sig : Sig]
Loaded  == [id : Policies, rev : Nat, acts : {"enforce", "log"}]

Spawned == [at : {"check", "claim", "sent"}, agent : Agents]
Answered == [at : {"load", "stamp"}, agent : Agents, wire : SUBSET Wire]

(* An agent's policies, in whatever form: they are its own or everyone's,  *)
(* none is ahead of the table, and no two have one id and two revisions.   *)
OfAgent(table, B, a) ==
    \A x \in B : /\ OwnerOf[x.id] \in {a, Everyone}
                 /\ table[x.id] # NoPolicy
                 /\ table[x.id] # Gone => x.rev <= table[x.id].rev
                 /\ \A y \in B : x.id = y.id => x.rev = y.rev

SyncTypes ==
    /\ policyRows \in [Policies -> LiveRow \cup {NoPolicy, Gone}]
    /\ cache \in [Agents -> {NoFile} \cup [file : {TRUE}, policies : SUBSET Wire]]
    /\ last \in [Agents -> {"never", "fresh", "overdue"}]
    /\ inFlight \subseteq Agents
    /\ thread \in [Threads -> {Idle} \cup Spawned \cup Answered]

(* One bucket for each agent.                                              *)
Entry == Agents \X SUBSET Loaded

Keyed ==
    /\ buckets \in Seq(Entry)
    /\ \A i, j \in DOMAIN buckets : buckets[i][1] = buckets[j][1] => i = j

(* The in-flight slot: at most one thread of an agent is between its claim *)
(* and its end.                                                            *)
Busy(t) == thread[t].at \in {"sent", "load", "stamp"}

OneFetch ==
    /\ \A t \in Threads : Busy(t) => thread[t].agent \in inFlight
    /\ \A t, u \in Threads :
          Busy(t) /\ Busy(u) /\ thread[t].agent = thread[u].agent => t = u

(* An answer under way is no older than what it replaces.                  *)
AnswersNewer ==
    \A t \in Threads, a \in Agents :
        /\ thread[t].at \in {"load", "stamp"} /\ thread[t].agent = a =>
              OfAgent(policyRows, thread[t].wire, a)
        /\ thread[t].at = "load" /\ thread[t].agent = a =>
              \A w \in thread[t].wire, p \in Bucket(a) : w.id = p.id => w.rev >= p.rev

LoadedBefore ==
    \A a \in Agents :
        /\ last[a] # "never" => HasBundle(a)
        /\ \A t \in Threads :
              thread[t].at = "stamp" /\ thread[t].agent = a => HasBundle(a)

KeptSound ==
    \A a \in Agents :
        /\ OfAgent(policyRows, Bucket(a), a)
        /\ cache[a] # NoFile => OfAgent(policyRows, cache[a].policies, a)

SyncInv == SyncTypes /\ Keyed /\ OneFetch /\ AnswersNewer /\ LoadedBefore /\ KeptSound
-----------------------------------------------------------------------------
(* Buckets.                                                                *)
LEMMA OnlyKey ==
    ASSUME NEW B, NEW b, NEW i \in DOMAIN B, B[i][1] = b,
           \A j, k \in DOMAIN B : B[j][1] = B[k][1] => j = k
    PROVE  (CHOOSE j \in DOMAIN B : B[j][1] = b) = i
<1>1. \A j \in DOMAIN B : B[j][1] = b => j = i
    OBVIOUS
<1> QED BY <1>1

LEMMA BucketOf ==
    ASSUME Keyed, NEW i \in DOMAIN buckets
    PROVE  /\ buckets[i][1] \in Agents /\ buckets[i][2] \in SUBSET Loaded
           /\ HasBundle(buckets[i][1]) /\ Bucket(buckets[i][1]) = buckets[i][2]
<1>1. buckets[i] \in Entry
    BY DEF Keyed
<1>2. (CHOOSE j \in DOMAIN buckets : buckets[j][1] = buckets[i][1]) = i
    BY OnlyKey DEF Keyed
<1> QED BY <1>1, <1>2 DEF HasBundle, Bucket, Entry

LEMMA BucketType ==
    ASSUME Keyed, NEW a \in Agents
    PROVE  /\ Bucket(a) \in SUBSET Loaded
           /\ ~HasBundle(a) => Bucket(a) = {}
<1>1. CASE HasBundle(a)
    BY <1>1, BucketOf DEF HasBundle
<1> QED BY <1>1 DEF Bucket

LEMMA BucketLoaded ==
    ASSUME Keyed, NEW a \in Agents, NEW bundle \in SUBSET Loaded,
           buckets' = WithBucket(a, bundle)
    PROVE  /\ Keyed'
           /\ \A b \in Agents : /\ HasBundle(b)' <=> HasBundle(b) \/ b = a
                                /\ Bucket(b)' = IF b = a THEN bundle ELSE Bucket(b)
<1> DEFINE new == <<a, bundle>>
<1>0. new \in Entry /\ new[1] = a /\ new[2] = bundle
    BY DEF Entry
<1>1. CASE HasBundle(a)
    <2>1. buckets' = [i \in DOMAIN buckets |-> IF buckets[i][1] = a THEN new ELSE buckets[i]]
        BY <1>1 DEF WithBucket
    <2> HIDE DEF new
    <2>2. buckets' \in Seq(Entry)
        BY <1>0, <2>1 DEF Keyed
    <2>3. /\ DOMAIN buckets' = DOMAIN buckets
          /\ \A i \in DOMAIN buckets :
                /\ buckets'[i][1] = buckets[i][1]
                /\ buckets'[i][2] = IF buckets[i][1] = a THEN bundle ELSE buckets[i][2]
        BY <1>0, <2>1
    <2>4. \A i, j \in DOMAIN buckets' : buckets'[i][1] = buckets'[j][1] => i = j
        BY <2>3 DEF Keyed
    <2>5. \A b \in Agents : HasBundle(b)' <=> HasBundle(b)
        BY <2>3 DEF HasBundle
    <2>6. ASSUME NEW b \in Agents, HasBundle(b)
          PROVE  Bucket(b)' = IF b = a THEN bundle ELSE Bucket(b)
        <3>1. PICK i \in DOMAIN buckets : buckets[i][1] = b
            BY <2>6 DEF HasBundle
        <3>2. (CHOOSE j \in DOMAIN buckets : buckets[j][1] = b) = i
            BY <3>1, OnlyKey DEF Keyed
        <3>3. (CHOOSE j \in DOMAIN buckets' : buckets'[j][1] = b) = i
            BY <3>1, <2>3, <2>4, OnlyKey
        <3>4. Bucket(b)' = buckets'[i][2] /\ Bucket(b) = buckets[i][2]
            BY <2>5, <2>6, <3>2, <3>3 DEF Bucket
        <3> QED BY <3>1, <3>4, <2>3
    <2>7. ASSUME NEW b \in Agents, ~HasBundle(b)
          PROVE  b # a /\ Bucket(b)' = Bucket(b)
        BY <1>1, <2>5, <2>7 DEF Bucket
    <2> QED BY <1>1, <2>2, <2>4, <2>5, <2>6, <2>7 DEF Keyed
<1>2. CASE ~HasBundle(a)
    <2> DEFINE n == Len(buckets) + 1
    <2>1. buckets' = Append(buckets, new)
        BY <1>2 DEF WithBucket
    <2> HIDE DEF new
    <2>2. /\ buckets' \in Seq(Entry)
          /\ DOMAIN buckets = 1..(n - 1) /\ DOMAIN buckets' = 1..n /\ n \in Nat \ {0}
          /\ \A i \in 1..(n - 1) : buckets'[i] = buckets[i]
          /\ buckets'[n] = new
        BY <2>1, <1>0 DEF Keyed
    <2> HIDE DEF n
    <2>3. \A i \in DOMAIN buckets : buckets[i][1] # a
        BY <1>2 DEF HasBundle
    <2>4. /\ DOMAIN buckets \subseteq DOMAIN buckets' /\ n \in DOMAIN buckets'
          /\ \A i \in DOMAIN buckets' : i = n \/ i \in DOMAIN buckets
          /\ buckets'[n][1] = a /\ buckets'[n][2] = bundle
        BY <1>0, <2>2
    <2>5. \A i, j \in DOMAIN buckets' : buckets'[i][1] = buckets'[j][1] => i = j
        BY <2>2, <2>3, <2>4 DEF Keyed
    <2>6. \A b \in Agents : HasBundle(b)' <=> HasBundle(b) \/ b = a
        BY <2>2, <2>4 DEF HasBundle
    <2>7. Bucket(a)' = bundle
        <3>1. (CHOOSE j \in DOMAIN buckets' : buckets'[j][1] = a) = n
            BY <2>4, <2>5, OnlyKey
        <3> QED BY <2>4, <2>6, <3>1 DEF Bucket
    <2>8. ASSUME NEW b \in Agents, HasBundle(b), b # a
          PROVE  Bucket(b)' = Bucket(b)
        <3>1. PICK i \in DOMAIN buckets : buckets[i][1] = b
            BY <2>8 DEF HasBundle
        <3>2. (CHOOSE j \in DOMAIN buckets : buckets[j][1] = b) = i
            BY <3>1, OnlyKey DEF Keyed
        <3>3. (CHOOSE j \in DOMAIN buckets' : buckets'[j][1] = b) = i
            BY <3>1, <2>2, <2>4, <2>5, OnlyKey
        <3>4. Bucket(b)' = buckets'[i][2] /\ Bucket(b) = buckets[i][2]
            BY <2>6, <2>8, <3>2, <3>3 DEF Bucket
        <3> QED BY <3>1, <3>4, <2>2
    <2>9. ASSUME NEW b \in Agents, ~HasBundle(b), b # a
          PROVE  Bucket(b)' = Bucket(b)
        BY <2>6, <2>9 DEF Bucket
    <2> QED BY <2>2, <2>5, <2>6, <2>7, <2>8, <2>9 DEF Keyed
<1> QED BY <1>1, <1>2

(* The first of the buckets with a policy of an id.                        *)
LEMMA FirstIndex ==
    ASSUME NEW S \in SUBSET Nat, S # {}
    PROVE  \E m \in S : \A i \in S : m <= i
<1> DEFINE R == OpToRel(<, Nat)
<1>1. IsWellFoundedOn(R, Nat)
    BY NatLessThanWellFounded
<1>2. \A i, j \in Nat : <<i, j>> \in R <=> i < j
    BY DEF OpToRel
<1> HIDE DEF R
<1>3. PICK m \in S : \A i \in S : ~(<<i, m>> \in R)
    BY <1>1, WFMin
<1>4. \A i \in S : ~(i < m)
    BY <1>2, <1>3
<1> QED BY <1>4

LEMMA GuardrailsFollow == SyncInv => GuardrailsKept
<1> SUFFICES ASSUME SyncInv PROVE GuardrailsKept
    OBVIOUS
<1>1. Keyed /\ KeptSound /\ LoadedBefore
    BY DEF SyncInv
<1>2. ASSUME NEW a \in Agents, NEW p \in Bucket(a)
      PROVE  \E q \in EffectiveFor(a) : q.id = p.id
    <2>1. HasBundle(a)
        BY <1>1, <1>2, BucketType
    <2>2. PICK h \in DOMAIN buckets : buckets[h][1] = a
        BY <2>1 DEF HasBundle
    <2>3. p \in buckets[h][2]
        BY <1>1, <1>2, <2>2, BucketOf
    <2> DEFINE S == {i \in DOMAIN buckets : \E q \in buckets[i][2] : q.id = p.id}
    <2>4. DOMAIN buckets = 1..Len(buckets) /\ Len(buckets) \in Nat
        BY <1>1 DEF Keyed
    <2>5. S \in SUBSET Nat /\ S # {}
        BY <2>3, <2>4
    <2>6. PICK m \in S : \A i \in S : m <= i
        BY <2>5, FirstIndex
    <2>7. PICK q \in buckets[m][2] : q.id = p.id
        OBVIOUS
    <2> DEFINE Is(i) == /\ \E r \in buckets[i][2] : r.id = q.id
                        /\ \A j \in 1..(i - 1) : \A r \in buckets[j][2] : r.id # q.id
               first == CHOOSE i \in DOMAIN buckets : Is(i)
    <2>8. m \in DOMAIN buckets /\ Is(m)
        BY <2>4, <2>6, <2>7
    <2>9. first \in DOMAIN buckets /\ Is(first)
        BY <2>8
    <2>10. first = m
        BY <2>4, <2>6, <2>7, <2>8, <2>9
    <2>11. q \in Effective
        BY <2>8, <2>10 DEF Effective
    <2>12. OwnerOf[q.id] \in {a, Everyone}
        BY <1>1, <1>2, <2>7 DEF KeptSound, OfAgent
    <2> QED BY <2>7, <2>11, <2>12 DEF EffectiveFor
<1> QED BY <1>1, <1>2 DEF GuardrailsKept, LoadedBefore
-----------------------------------------------------------------------------
(* Revisions only grow: what the table, an answer, a file or a bucket said *)
(* is not ahead of it later.                                               *)
Grown ==
    \A p \in Policies :
        /\ policyRows[p] # NoPolicy => policyRows'[p] # NoPolicy
        /\ policyRows[p] = Gone => policyRows'[p] = Gone
        /\ policyRows'[p] \notin {NoPolicy, Gone} /\ policyRows[p] # NoPolicy =>
              policyRows'[p].rev >= policyRows[p].rev

LEMMA OfAgentKept ==
    ASSUME SyncTypes, SyncTypes', Grown, NEW a, NEW B, OfAgent(policyRows, B, a),
           \A x \in B : x.id \in Policies /\ x.rev \in Nat
    PROVE  OfAgent(policyRows', B, a)
<1> SUFFICES ASSUME NEW x \in B
             PROVE  /\ policyRows'[x.id] # NoPolicy
                    /\ policyRows'[x.id] # Gone => x.rev <= policyRows'[x.id].rev
    BY DEF OfAgent
<1>1. /\ policyRows[x.id] # NoPolicy
      /\ policyRows[x.id] # Gone => x.rev <= policyRows[x.id].rev
    BY DEF OfAgent
<1>2. x.id \in Policies /\ x.rev \in Nat
    OBVIOUS
<1>3. \A p \in Policies : /\ policyRows[p] \notin {NoPolicy, Gone} => policyRows[p].rev \in Nat
                          /\ policyRows'[p] \notin {NoPolicy, Gone} => policyRows'[p].rev \in Nat
    BY DEF SyncTypes, LiveRow
<1> QED BY <1>1, <1>2, <1>3 DEF Grown

LEMMA UpdatedRow ==
    ASSUME NEW old \in LiveRow, NEW enabled \in BOOLEAN, NEW s \in Sig
    PROVE  LET row == [old EXCEPT !.rev = old.rev + 1, !.enabled = enabled, !.sig = s]
           IN row \in LiveRow /\ row.rev = old.rev + 1
<1> DEFINE r1 == [old EXCEPT !.rev = old.rev + 1]
           r2 == [r1 EXCEPT !.enabled = enabled]
           r3 == [r2 EXCEPT !.sig = s]
<1>1. r1 \in LiveRow /\ r1.rev = old.rev + 1
    BY DEF LiveRow
<1> HIDE DEF r1
<1>2. r2 \in LiveRow /\ r2.rev = r1.rev
    BY <1>1 DEF LiveRow
<1> HIDE DEF r2
<1>3. r3 \in LiveRow /\ r3.rev = r2.rev
    BY <1>2 DEF LiveRow
<1>4. r3 = [old EXCEPT !.rev = old.rev + 1, !.enabled = enabled, !.sig = s]
    BY DEF r1, r2
<1> QED BY <1>1, <1>2, <1>3, <1>4

(* What a write at the server does to the row.                             *)
LEMMA WriteGrows ==
    ASSUME SyncTypes, NEW p \in Policies,
           \/ \E mode \in {"enforcing", "dry_run"} : CreatePolicy(p, mode)
           \/ \E enabled \in BOOLEAN : Update(p, enabled)
           \/ DeletePolicy(p)
    PROVE  SyncTypes' /\ Grown
<1> DEFINE Row2 == LiveRow \cup {NoPolicy, Gone}
<1>1. ASSUME NEW row \in Row2, Write(p, row),
             row # NoPolicy, policyRows[p] # Gone,
             row # Gone /\ policyRows[p] # NoPolicy => row.rev >= policyRows[p].rev
      PROVE  SyncTypes' /\ Grown
    <2>1. policyRows' = [policyRows EXCEPT ![p] = row]
        BY <1>1 DEF Write
    <2>2. policyRows' \in [Policies -> Row2]
        BY <2>1 DEF SyncTypes
    <2>3. SyncTypes'
        BY <1>1, <2>2 DEF Write, SyncTypes, books
    <2>4. \A q \in Policies : policyRows[q] \notin {NoPolicy, Gone} => policyRows[q].rev \in Nat
        BY DEF SyncTypes, LiveRow
    <2>5. \A q \in Policies : policyRows'[q] = IF q = p THEN row ELSE policyRows[q]
        BY <2>1 DEF SyncTypes
    <2>6. ASSUME NEW q \in Policies
          PROVE  /\ policyRows[q] # NoPolicy => policyRows'[q] # NoPolicy
                 /\ policyRows[q] = Gone => policyRows'[q] = Gone
                 /\ policyRows'[q] \notin {NoPolicy, Gone} /\ policyRows[q] # NoPolicy =>
                       policyRows'[q].rev >= policyRows[q].rev
        <3>1. CASE q = p
            BY <1>1, <2>5, <3>1
        <3>2. CASE q # p
            BY <2>4, <2>5, <3>2
        <3> QED BY <3>1, <3>2
    <2> QED BY <2>3, <2>6 DEF Grown
<1>2. policyRows[p] \in Row2
    BY DEF SyncTypes
<1>3. ASSUME NEW rev \in Nat, NEW mode \in {"enforcing", "dry_run"}
      PROVE  Signature(rev, mode) \in Sig
    BY DEF Signature, Sig
<1>4. ASSUME NEW mode \in {"enforcing", "dry_run"}, CreatePolicy(p, mode)
      PROVE  SyncTypes' /\ Grown
    <2> DEFINE row == [rev |-> 1, enabled |-> TRUE, mode |-> mode, sig |-> Signature(1, mode)]
    <2>1. row \in LiveRow /\ row.rev = 1
        BY <1>3 DEF LiveRow
    <2>2. Write(p, row) /\ policyRows[p] = NoPolicy
        BY <1>4 DEF CreatePolicy
    <2>3. row # NoPolicy /\ policyRows[p] # Gone
        BY <2>1, <2>2 DEF NoPolicy, Gone
    <2> QED BY <1>1, <2>1, <2>2, <2>3
<1>5. ASSUME NEW enabled \in BOOLEAN, Update(p, enabled)
      PROVE  SyncTypes' /\ Grown
    <2> DEFINE old == policyRows[p]
               s == Signature(old.rev + 1, "enforcing")
               row == [old EXCEPT !.rev = old.rev + 1, !.enabled = enabled, !.sig = s]
    <2>1. Write(p, row) /\ old \notin {NoPolicy, Gone}
        BY <1>5 DEF Update, Live
    <2>2. old \in LiveRow
        BY <1>2, <2>1
    <2>3. old.rev \in Nat
        BY <2>2 DEF LiveRow
    <2>4. s \in Sig
        BY <1>3, <2>3
    <2> HIDE DEF s
    <2>5. row \in LiveRow /\ row.rev = old.rev + 1
        BY <2>2, <2>4, UpdatedRow
    <2> HIDE DEF old, row
    <2>6. row.rev >= old.rev /\ row # NoPolicy
        BY <2>3, <2>5 DEF NoPolicy
    <2> QED BY <1>1, <2>1, <2>5, <2>6 DEF old
<1>6. CASE DeletePolicy(p)
    <2>1. Write(p, Gone) /\ policyRows[p] # Gone /\ Gone # NoPolicy
        BY <1>6 DEF DeletePolicy, Live, Gone, NoPolicy
    <2> QED BY <1>1, <2>1
<1> QED BY <1>4, <1>5, <1>6

(* The table moves on; the SDK stays as it is.                             *)
LEMMA ServerStepKeeps ==
    ASSUME SyncInv, SyncTypes', Grown, UNCHANGED <<cache, buckets, last, inFlight, thread>>
    PROVE  SyncInv'
<1> USE DEF SyncInv
<1>1. \A a \in Agents : Bucket(a)' = Bucket(a) /\ (HasBundle(a)' <=> HasBundle(a))
    BY DEF Bucket, HasBundle
<1>2. ASSUME NEW a \in Agents
      PROVE  /\ OfAgent(policyRows', Bucket(a), a)
             /\ cache[a] # NoFile => OfAgent(policyRows', cache[a].policies, a)
    <2>1. \A x \in Bucket(a) : x.id \in Policies /\ x.rev \in Nat
        BY BucketType DEF Loaded
    <2>2. cache[a] # NoFile => \A x \in cache[a].policies : x.id \in Policies /\ x.rev \in Nat
        <3>1. cache[a] # NoFile => cache[a].policies \subseteq Wire
            BY DEF SyncTypes
        <3> QED BY <3>1 DEF Wire
    <2>3. OfAgent(policyRows', Bucket(a), a)
        BY <2>1, OfAgentKept DEF KeptSound
    <2>4. cache[a] # NoFile => OfAgent(policyRows', cache[a].policies, a)
        BY <2>2, OfAgentKept DEF KeptSound
    <2> QED BY <2>3, <2>4
<1>3. ASSUME NEW t \in Threads, NEW a \in Agents, thread[t].at \in {"load", "stamp"},
             thread[t].agent = a
      PROVE  OfAgent(policyRows', thread[t].wire, a)
    <2>1. \A x \in thread[t].wire : x.id \in Policies /\ x.rev \in Nat
        BY <1>3 DEF SyncTypes, Wire, Idle, Spawned, Answered
    <2> QED BY <1>3, <2>1, OfAgentKept DEF AnswersNewer
<1>4. AnswersNewer'
    BY <1>1, <1>3 DEF AnswersNewer
<1>5. KeptSound'
    BY <1>1, <1>2 DEF KeptSound
<1>6. OneFetch' /\ LoadedBefore' /\ Keyed'
    BY <1>1 DEF OneFetch, Busy, LoadedBefore, Keyed
<1> QED BY <1>4, <1>5, <1>6
-----------------------------------------------------------------------------
(* Threads.                                                                *)
LEMMA ThreadForms ==
    ASSUME SyncTypes, NEW t \in Threads
    PROVE  /\ thread[t].at \in {"check", "claim", "sent"} => thread[t] \in Spawned
           /\ thread[t].at \in {"load", "stamp"} => thread[t] \in Answered
           /\ thread[t].at # "idle" => thread[t].agent \in Agents
BY DEF SyncTypes, Idle, Spawned, Answered

(* A thread moves, and nothing else but perhaps the slots and stamps of    *)
(* its agent.                                                              *)
ThreadAlone(t) ==
    /\ SyncTypes'
    /\ \A u \in Threads \ {t} : thread'[u] = thread[u]
    /\ UNCHANGED <<policyRows, cache, buckets, last>>

LEMMA ThreadStepKeeps ==
    ASSUME SyncInv, NEW t \in Threads, ThreadAlone(t), ~Busy(t)', 
           \A a \in Agents : a \in inFlight /\ a \notin inFlight' =>
              \A u \in Threads : Busy(u) /\ thread[u].agent = a => u = t
    PROVE  SyncInv'
<1> USE DEF SyncInv, ThreadAlone
<1>1. \A a \in Agents : Bucket(a)' = Bucket(a) /\ (HasBundle(a)' <=> HasBundle(a))
    BY DEF Bucket, HasBundle
<1>2. \A u \in Threads : Busy(u)' => u # t /\ Busy(u) /\ thread'[u] = thread[u]
    BY DEF Busy
<1>3. OneFetch'
    BY <1>2, ThreadForms DEF OneFetch, Busy
<1>4. AnswersNewer'
    BY <1>1, <1>2 DEF AnswersNewer, Busy
<1>5. LoadedBefore'
    BY <1>1, <1>2 DEF LoadedBefore, Busy
<1>6. KeptSound' /\ Keyed'
    BY <1>1 DEF KeptSound, Keyed
<1> QED BY <1>3, <1>4, <1>5, <1>6

Forms == {Idle} \cup Spawned \cup Answered

LEMMA ThreadSet ==
    ASSUME SyncTypes, NEW t \in Threads, NEW r \in Forms, thread' = [thread EXCEPT ![t] = r]
    PROVE  /\ thread' \in [Threads -> Forms] /\ thread'[t] = r
           /\ \A u \in Threads \ {t} : thread'[u] = thread[u]
BY DEF SyncTypes, Forms

LEMMA Moved ==
    ASSUME SyncTypes, NEW t \in Threads, NEW at, MoveTo(t, at)
    PROVE  /\ thread[t] \in Spawned /\ at \in {"check", "claim", "sent"} =>
                 thread'[t] \in Spawned
           /\ thread[t] \in Answered /\ at \in {"load", "stamp"} =>
                 thread'[t] \in Answered /\ thread'[t].wire = thread[t].wire
           /\ thread[t] \in Spawned \cup Answered =>
                 thread'[t].at = at /\ thread'[t].agent = thread[t].agent
           /\ \A u \in Threads \ {t} : thread'[u] = thread[u]
           /\ DOMAIN thread' = Threads /\ thread' = [u \in Threads |-> thread'[u]]
<1> DEFINE r == [thread[t] EXCEPT !.at = at]
<1>1. thread' = [thread EXCEPT ![t] = r]
    BY DEF MoveTo
<1>2. thread[t] \in Spawned /\ at \in {"check", "claim", "sent"} => r \in Spawned
    BY DEF Spawned
<1>3. thread[t] \in Answered /\ at \in {"load", "stamp"} =>
         r \in Answered /\ r.wire = thread[t].wire
    BY DEF Answered
<1>4. thread[t] \in Spawned \cup Answered => r.at = at /\ r.agent = thread[t].agent
    BY DEF Spawned, Answered
<1> HIDE DEF r
<1>5. /\ thread'[t] = r /\ \A u \in Threads \ {t} : thread'[u] = thread[u]
      /\ DOMAIN thread' = Threads /\ thread' = [u \in Threads |-> thread'[u]]
    BY <1>1 DEF SyncTypes
<1> QED BY <1>2, <1>3, <1>4, <1>5

LEMMA RunStartsKeeps ==
    ASSUME SyncInv, NEW t \in Threads, NEW a \in Agents, RunStarts(t, a)
    PROVE  SyncInv'
<1> DEFINE r == [at |-> "check", agent |-> a]
<1>1. r \in Spawned /\ r \in Forms /\ r.at = "check"
    BY DEF Forms, Spawned
<1>2. thread' = [thread EXCEPT ![t] = r]
    BY DEF RunStarts
<1> HIDE DEF r
<1>3. thread'[t] = r /\ thread' \in [Threads -> Forms]
      /\ \A u \in Threads \ {t} : thread'[u] = thread[u]
    BY <1>1, <1>2, ThreadSet DEF SyncInv
<1>4. UNCHANGED <<policyRows, cache, buckets, last, inFlight>>
    BY DEF RunStarts, server, books
<1>5. SyncTypes'
    BY <1>3, <1>4 DEF SyncInv, SyncTypes, Forms
<1> QED BY <1>1, <1>3, <1>4, <1>5, ThreadStepKeeps DEF ThreadAlone, Busy

LEMMA DoneStep ==
    ASSUME SyncTypes, NEW t \in Threads, Done(t)
    PROVE  /\ thread' \in [Threads -> Forms] /\ ~Busy(t)'
           /\ \A u \in Threads \ {t} : thread'[u] = thread[u]
<1>1. Idle \in Forms /\ Idle.at = "idle"
    BY DEF Forms, Idle
<1>2. thread' = [thread EXCEPT ![t] = Idle]
    BY DEF Done
<1> QED BY <1>1, <1>2, ThreadSet DEF Busy

LEMMA CheckKeeps ==
    ASSUME SyncInv, NEW t \in Threads, Check(t)
    PROVE  SyncInv'
<1>1. UNCHANGED <<policyRows, cache, buckets, last, inFlight>>
    BY DEF Check, server, books
<1>2. CASE Done(t)
    <2>1. SyncTypes'
        BY <1>1, <1>2, DoneStep DEF SyncInv, SyncTypes, Forms
    <2> QED BY <1>1, <1>2, <2>1, DoneStep, ThreadStepKeeps DEF ThreadAlone, SyncInv
<1>3. CASE MoveTo(t, "claim")
    <2>1. thread[t] \in Spawned
        BY ThreadForms DEF Check, At, SyncInv
    <2>2. /\ thread'[t] \in Spawned /\ thread'[t].at = "claim"
          /\ \A u \in Threads \ {t} : thread'[u] = thread[u]
          /\ thread' = [u \in Threads |-> thread'[u]]
        BY <1>3, <2>1, Moved DEF SyncInv
    <2>3. \A u \in Threads : thread[u] \in Forms
        BY DEF SyncInv, SyncTypes, Forms
    <2>4. \A u \in Threads : thread'[u] \in Forms
        BY <2>2, <2>3 DEF Forms
    <2>5. thread' \in [Threads -> Forms]
        BY <2>2, <2>4
    <2>6. SyncTypes'
        BY <1>1, <2>5 DEF SyncInv, SyncTypes, Forms
    <2> QED BY <1>1, <2>2, <2>6, ThreadStepKeeps DEF ThreadAlone, Busy
<1> QED BY <1>2, <1>3 DEF Check

LEMMA FetchFailsKeeps ==
    ASSUME SyncInv, NEW t \in Threads, FetchFails(t)
    PROVE  SyncInv'
<1> DEFINE a == thread[t].agent
<1>1. UNCHANGED <<policyRows, cache, buckets, last>> /\ inFlight' = inFlight \ {a} /\ Done(t)
    BY DEF FetchFails, AfterFailure, server
<1>2. SyncTypes'
    BY <1>1, DoneStep DEF SyncInv, SyncTypes, Forms
<1>3. Busy(t)
    BY DEF FetchFails, At, Busy
<1>4. \A u \in Threads : Busy(u) /\ thread[u].agent = a => u = t
    BY <1>3 DEF SyncInv, OneFetch
<1> QED BY <1>1, <1>2, <1>4, DoneStep, ThreadStepKeeps DEF ThreadAlone, SyncInv
-----------------------------------------------------------------------------
(* What is served, and what is made of it.                                 *)
LEMMA ServedSound ==
    ASSUME SyncInv, NEW a \in Agents
    PROVE  /\ Served(a) \in SUBSET Wire /\ OfAgent(policyRows, Served(a), a)
           /\ \A w \in Served(a), p \in Bucket(a) : w.id = p.id => w.rev >= p.rev
<1>1. \A p \in Policies : Live(p) => policyRows[p].rev \in Nat /\ policyRows[p].sig \in Sig
    BY DEF SyncInv, SyncTypes, Live, LiveRow
<1>2. \A w \in Served(a) : /\ w \in Wire /\ w.id \in Policies
                           /\ policyRows[w.id] \notin {NoPolicy, Gone}
                           /\ w.rev = policyRows[w.id].rev /\ w.rev \in Nat
                           /\ OwnerOf[w.id] \in {a, Everyone}
    BY <1>1 DEF Served, Live, Wire
<1>3. OfAgent(policyRows, Served(a), a)
    BY <1>2 DEF OfAgent
<1>4. \A p \in Bucket(a) : p.rev \in Nat
    BY BucketType DEF SyncInv, Loaded
<1>5. \A w \in Served(a), p \in Bucket(a) : w.id = p.id => w.rev >= p.rev
    BY <1>2, <1>4 DEF SyncInv, KeptSound, OfAgent
<1> QED BY <1>2, <1>3, <1>5

LEMMA LoadableSound ==
    ASSUME NEW W \in SUBSET Wire
    PROVE  /\ Loadable(W) \in SUBSET Loaded
           /\ \A x \in Loadable(W) : \E w \in W : w.id = x.id /\ w.rev = x.rev
           /\ \A T, a : OfAgent(T, W, a) => OfAgent(T, Loadable(W), a)
<1>1. \A w \in W : w.id \in Policies /\ w.rev \in Nat
    BY DEF Wire
<1>2. \A x \in Loadable(W) :
         /\ \E w \in W : x = [id |-> w.id, rev |-> w.rev, acts |-> IF secret THEN "enforce" ELSE "log"]
    BY DEF Loadable
<1>3. Loadable(W) \in SUBSET Loaded
    BY <1>1, <1>2 DEF Loaded
<1>4. \A x \in Loadable(W) : \E w \in W : w.id = x.id /\ w.rev = x.rev
    BY <1>2
<1>5. ASSUME NEW T, NEW a, OfAgent(T, W, a) PROVE OfAgent(T, Loadable(W), a)
    BY <1>4, <1>5 DEF OfAgent
<1> QED BY <1>3, <1>4, <1>5

(* A bundle is loaded from sound policies.                                 *)
LEMMA LoadedSound ==
    ASSUME SyncInv, NEW a \in Agents, NEW W \in SUBSET Wire, OfAgent(policyRows, W, a),
           buckets' = WithBucket(a, Loadable(W)), UNCHANGED <<policyRows>>
    PROVE  /\ Keyed'
           /\ \A b \in Agents : /\ HasBundle(b)' <=> HasBundle(b) \/ b = a
                                /\ b # a => Bucket(b)' = Bucket(b)
                                /\ OfAgent(policyRows, Bucket(b)', b)
           /\ \A x \in Bucket(a)' : \E w \in W : w.id = x.id /\ w.rev = x.rev
<1>1. Loadable(W) \in SUBSET Loaded
    BY LoadableSound
<1>2. /\ Keyed'
      /\ \A b \in Agents : /\ HasBundle(b)' <=> HasBundle(b) \/ b = a
                           /\ Bucket(b)' = IF b = a THEN Loadable(W) ELSE Bucket(b)
    BY <1>1, BucketLoaded DEF SyncInv
<1>3. OfAgent(policyRows, Loadable(W), a)
    BY LoadableSound
<1>4. \A b \in Agents : OfAgent(policyRows, Bucket(b), b)
    BY DEF SyncInv, KeptSound
<1> QED BY <1>2, <1>3, <1>4, LoadableSound

(* The thread of a takes the slot, answers or loads.                       *)
LEMMA AnswerKeeps ==
    ASSUME SyncInv, NEW t \in Threads, Answer(t)
    PROVE  SyncInv'
<1> DEFINE a == thread[t].agent
           r == [at |-> "load", agent |-> a, wire |-> Served(a)]
<1>1. a \in Agents
    BY ThreadForms DEF SyncInv, Answer, At
<1>2. Served(a) \in SUBSET Wire
    BY <1>1, ServedSound
<1>3. r \in Answered /\ r \in Forms /\ r.at = "load" /\ r.agent = a /\ r.wire = Served(a)
    BY <1>1, <1>2 DEF Answered, Forms
<1>4. thread' = [thread EXCEPT ![t] = r]
    BY DEF Answer
<1> HIDE DEF r
<1>5. thread'[t] = r /\ thread' \in [Threads -> Forms]
      /\ \A u \in Threads \ {t} : thread'[u] = thread[u]
    BY <1>3, <1>4, ThreadSet DEF SyncInv
<1>6. UNCHANGED <<policyRows, cache, buckets, last, inFlight>> /\ Busy(t)
    BY DEF Answer, server, books, At, Busy
<1>7. \A b \in Agents : Bucket(b)' = Bucket(b) /\ (HasBundle(b)' <=> HasBundle(b))
    BY <1>6 DEF Bucket, HasBundle
<1>8. SyncTypes'
    BY <1>5, <1>6 DEF SyncInv, SyncTypes, Forms
<1>9. OneFetch'
    BY <1>3, <1>5, <1>6 DEF SyncInv, OneFetch, Busy
<1>10. AnswersNewer'
    <2> SUFFICES ASSUME NEW u \in Threads, NEW b \in Agents, thread'[u].agent = b
                 PROVE  /\ thread'[u].at \in {"load", "stamp"} =>
                              OfAgent(policyRows', thread'[u].wire, b)
                        /\ thread'[u].at = "load" =>
                              \A w \in thread'[u].wire, p \in Bucket(b)' :
                                  w.id = p.id => w.rev >= p.rev
        BY DEF AnswersNewer
    <2>1. CASE u = t
        BY <1>1, <1>3, <1>5, <1>6, <1>7, <2>1, ServedSound
    <2>2. CASE u # t
        BY <1>5, <1>6, <1>7, <2>2 DEF SyncInv, AnswersNewer
    <2> QED BY <2>1, <2>2
<1>11. LoadedBefore'
    BY <1>3, <1>5, <1>6, <1>7 DEF SyncInv, LoadedBefore
<1>12. KeptSound' /\ Keyed'
    BY <1>6, <1>7 DEF SyncInv, KeptSound, Keyed
<1> QED BY <1>8, <1>9, <1>10, <1>11, <1>12 DEF SyncInv

LEMMA LoadKeeps ==
    ASSUME SyncInv, NEW t \in Threads, Load(t)
    PROVE  SyncInv' /\ NoneOlder
<1>1. thread[t] \in Answered /\ thread[t].at = "load"
    BY ThreadForms DEF SyncInv, Load, At
<1>2. PICK a \in Agents, W \in SUBSET Wire : thread[t].agent = a /\ thread[t].wire = W
    BY <1>1 DEF Answered
<1>3. OfAgent(policyRows, W, a) /\ \A w \in W, p \in Bucket(a) : w.id = p.id => w.rev >= p.rev
    BY <1>1, <1>2 DEF SyncInv, AnswersNewer
<1>4. UNCHANGED <<policyRows, cache, last, inFlight>> /\ buckets' = WithBucket(a, Loadable(W))
    BY <1>2 DEF Load, server, books
<1>5. /\ Keyed'
      /\ \A b \in Agents : /\ HasBundle(b)' <=> HasBundle(b) \/ b = a
                           /\ b # a => Bucket(b)' = Bucket(b)
                           /\ OfAgent(policyRows, Bucket(b)', b)
      /\ \A x \in Bucket(a)' : \E w \in W : w.id = x.id /\ w.rev = x.rev
    BY <1>2, <1>3, <1>4, LoadedSound
<1>6. /\ thread'[t] \in Answered /\ thread'[t].wire = W
      /\ thread'[t].at = "stamp" /\ thread'[t].agent = a
      /\ \A u \in Threads \ {t} : thread'[u] = thread[u]
      /\ thread' = [u \in Threads |-> thread'[u]]
    BY <1>1, <1>2, Moved DEF Load, SyncInv
<1>7. SyncTypes'
    <2>1. \A u \in Threads : thread[u] \in Forms
        BY DEF SyncInv, SyncTypes, Forms
    <2>2. \A u \in Threads : thread'[u] \in Forms
        BY <1>6, <2>1 DEF Forms
    <2>3. thread' \in [Threads -> Forms]
        BY <1>6, <2>2
    <2> QED BY <1>4, <2>3 DEF SyncInv, SyncTypes, Forms
<1>8. OneFetch'
    BY <1>1, <1>2, <1>4, <1>6 DEF SyncInv, OneFetch, Busy
<1>9. \A u \in Threads \ {t} : Busy(u) => thread[u].agent # a
    BY <1>1, <1>2 DEF SyncInv, OneFetch, Busy
<1>10. AnswersNewer'
    BY <1>3, <1>4, <1>5, <1>6, <1>9 DEF SyncInv, AnswersNewer, Busy
<1>11. LoadedBefore'
    BY <1>4, <1>5, <1>6 DEF SyncInv, LoadedBefore
<1>12. KeptSound'
    BY <1>4, <1>5 DEF SyncInv, KeptSound
<1>13. NoneOlder
    <2> SUFFICES ASSUME NEW b \in Agents, NEW new \in Bucket(b)', NEW old \in Bucket(b),
                        new.id = old.id
                 PROVE  new.rev >= old.rev
        BY DEF NoneOlder
    <2>1. CASE b = a
        BY <1>3, <1>5, <2>1
    <2>2. CASE b # a
        <3>1. new.rev = old.rev
            BY <1>5, <2>2 DEF SyncInv, KeptSound, OfAgent
        <3>2. old.rev \in Nat
            BY BucketType DEF SyncInv, Loaded
        <3> QED BY <3>1, <3>2
    <2> QED BY <2>1, <2>2
<1> QED BY <1>5, <1>7, <1>8, <1>10, <1>11, <1>12, <1>13 DEF SyncInv

(* Buckets that do not change are not older.                               *)
LEMMA SameNotOlder ==
    ASSUME SyncInv, \A b \in Agents : Bucket(b)' = Bucket(b) \/ Bucket(b) = {} \/ Bucket(b)' = {}
    PROVE  NoneOlder
<1> SUFFICES ASSUME NEW b \in Agents, NEW new \in Bucket(b)', NEW old \in Bucket(b),
                    new.id = old.id
             PROVE  new.rev >= old.rev
    BY DEF NoneOlder
<1>1. new.rev = old.rev
    BY DEF SyncInv, KeptSound, OfAgent
<1>2. old.rev \in Nat
    BY BucketType DEF SyncInv, Loaded
<1> QED BY <1>1, <1>2

(* The cache file, loaded while there is no bundle.                        *)
LEMMA PrimeSound ==
    ASSUME SyncInv, NEW a \in Agents, Prime(a), UNCHANGED <<policyRows, cache>>
    PROVE  /\ Keyed' /\ last' = last
           /\ \A b \in Agents : /\ HasBundle(b) => HasBundle(b)'
                                /\ Bucket(b)' = Bucket(b) \/ (b = a /\ Bucket(b) = {})
                                /\ OfAgent(policyRows, Bucket(b)', b)
<1>1. CASE UNCHANGED buckets
    <2>1. \A b \in Agents : Bucket(b)' = Bucket(b) /\ (HasBundle(b)' <=> HasBundle(b))
        BY <1>1 DEF Bucket, HasBundle
    <2> QED BY <1>1, <2>1 DEF SyncInv, Keyed, KeptSound, Prime
<1>2. CASE /\ a \notin tried /\ ~HasBundle(a) /\ cache[a] # NoFile
           /\ buckets' = WithBucket(a, Loadable(cache[a].policies))
    <2>1. PICK W : W = cache[a].policies
        OBVIOUS
    <2>2. W \in SUBSET Wire /\ OfAgent(policyRows, W, a)
        BY <1>2, <2>1 DEF SyncInv, SyncTypes, KeptSound
    <2>3. buckets' = WithBucket(a, Loadable(W))
        BY <1>2, <2>1
    <2>4. Bucket(a) = {}
        BY <1>2, BucketType DEF SyncInv
    <2>5. /\ Keyed'
          /\ \A b \in Agents : /\ HasBundle(b)' <=> HasBundle(b) \/ b = a
                               /\ b # a => Bucket(b)' = Bucket(b)
                               /\ OfAgent(policyRows, Bucket(b)', b)
        BY <2>2, <2>3, LoadedSound
    <2> QED BY <2>4, <2>5 DEF Prime
<1> QED BY <1>1, <1>2 DEF Prime

LEMMA ClaimKeeps ==
    ASSUME SyncInv, NEW t \in Threads, Claim(t)
    PROVE  SyncInv' /\ NoneOlder
<1>1. thread[t] \in Spawned /\ thread[t].at = "claim"
    BY ThreadForms DEF SyncInv, Claim, At
<1>2. PICK a \in Agents : thread[t].agent = a
    BY <1>1 DEF Spawned
<1>3. CASE Claimed(a)
    <2>1. Done(t) /\ UNCHANGED <<policyRows, cache, buckets, last, inFlight>>
        BY <1>2, <1>3 DEF Claim, server
    <2>2. SyncTypes'
        BY <2>1, DoneStep DEF SyncInv, SyncTypes, Forms
    <2>3. SyncInv'
        BY <2>1, <2>2, DoneStep, ThreadStepKeeps DEF ThreadAlone, SyncInv
    <2>4. \A b \in Agents : Bucket(b)' = Bucket(b)
        BY <2>1 DEF Bucket, HasBundle
    <2> QED BY <2>3, <2>4, SameNotOlder
<1>4. CASE ~Claimed(a)
    <2>1. /\ UNCHANGED <<policyRows, cache>> /\ Prime(a) /\ MoveTo(t, "sent")
          /\ inFlight' = inFlight \cup {a} /\ a \notin inFlight
        BY <1>2, <1>4 DEF Claim, server, Claimed
    <2>2. /\ Keyed' /\ last' = last
          /\ \A b \in Agents : /\ HasBundle(b) => HasBundle(b)'
                               /\ Bucket(b)' = Bucket(b) \/ (b = a /\ Bucket(b) = {})
                               /\ OfAgent(policyRows, Bucket(b)', b)
        BY <2>1, PrimeSound
    <2>3. /\ thread'[t] \in Spawned /\ thread'[t].at = "sent" /\ thread'[t].agent = a
          /\ \A u \in Threads \ {t} : thread'[u] = thread[u]
          /\ thread' = [u \in Threads |-> thread'[u]]
        BY <1>1, <1>2, <2>1, Moved DEF SyncInv
    <2>4. SyncTypes'
        <3>1. \A u \in Threads : thread[u] \in Forms
            BY DEF SyncInv, SyncTypes, Forms
        <3>2. \A u \in Threads : thread'[u] \in Forms
            BY <2>3, <3>1 DEF Forms
        <3>3. thread' \in [Threads -> Forms]
            BY <2>3, <3>2
        <3> QED BY <2>1, <2>2, <3>3 DEF SyncInv, SyncTypes, Forms
    <2>5. \A u \in Threads \ {t} : Busy(u) => thread[u].agent # a
        BY <2>1 DEF SyncInv, OneFetch
    <2>6. OneFetch'
        BY <2>1, <2>3, <2>5 DEF SyncInv, OneFetch, Busy
    <2>7. AnswersNewer'
        BY <2>1, <2>2, <2>3, <2>5 DEF SyncInv, AnswersNewer, Busy
    <2>8. LoadedBefore'
        BY <2>2, <2>3 DEF SyncInv, LoadedBefore
    <2>9. KeptSound'
        BY <2>1, <2>2 DEF SyncInv, KeptSound
    <2>10. NoneOlder
        BY <2>2, SameNotOlder
    <2> QED BY <2>2, <2>4, <2>6, <2>7, <2>8, <2>9, <2>10 DEF SyncInv
<1> QED BY <1>3, <1>4

LEMMA StampKeeps ==
    ASSUME SyncInv, NEW t \in Threads, Stamp(t)
    PROVE  SyncInv'
<1>1. thread[t] \in Answered /\ thread[t].at = "stamp"
    BY ThreadForms DEF SyncInv, Stamp, At
<1>2. PICK a \in Agents, W \in SUBSET Wire : thread[t].agent = a /\ thread[t].wire = W
    BY <1>1 DEF Answered
<1> DEFINE file == [file |-> TRUE, policies |-> W]
<1>3. /\ UNCHANGED <<policyRows, buckets>> /\ Done(t)
      /\ last' = [last EXCEPT ![a] = "fresh"] /\ inFlight' = inFlight \ {a}
      /\ cache' = [cache EXCEPT ![a] = file]
    BY <1>2 DEF Stamp, server
<1>4. OfAgent(policyRows, W, a) /\ HasBundle(a)
    BY <1>1, <1>2 DEF SyncInv, AnswersNewer, LoadedBefore
<1>5. file \in [file : {TRUE}, policies : SUBSET Wire] /\ file.policies = W
    OBVIOUS
<1> HIDE DEF file
<1>6. /\ thread' \in [Threads -> Forms] /\ ~Busy(t)'
      /\ \A u \in Threads \ {t} : thread'[u] = thread[u]
    BY <1>3, DoneStep DEF SyncInv
<1>7. SyncTypes'
    BY <1>3, <1>5, <1>6 DEF SyncInv, SyncTypes, Forms
<1>8. \A u \in Threads : Busy(u)' => u # t /\ Busy(u) /\ thread'[u] = thread[u]
    BY <1>6 DEF Busy
<1>9. \A u \in Threads \ {t} : Busy(u) => thread[u].agent # a
    BY <1>1, <1>2 DEF SyncInv, OneFetch, Busy
<1>10. \A b \in Agents : Bucket(b)' = Bucket(b) /\ (HasBundle(b)' <=> HasBundle(b))
    BY <1>3 DEF Bucket, HasBundle
<1>11. OneFetch'
    BY <1>3, <1>8, <1>9 DEF SyncInv, OneFetch
<1>12. AnswersNewer'
    BY <1>3, <1>8, <1>10 DEF SyncInv, AnswersNewer, Busy
<1>13. LoadedBefore'
    BY <1>3, <1>4, <1>8, <1>10 DEF SyncInv, SyncTypes, LoadedBefore, Busy
<1>14. KeptSound'
    BY <1>3, <1>4, <1>5, <1>10 DEF SyncInv, SyncTypes, KeptSound
<1> QED BY <1>3, <1>7, <1>11, <1>12, <1>13, <1>14 DEF SyncInv, Keyed

(* Time, and a restart.                                                    *)
LEMMA TimeKeeps ==
    ASSUME SyncInv, NEW a \in Agents, TtlElapses(a) \/ BackoffElapses(a)
    PROVE  SyncInv'
<1>1. /\ UNCHANGED <<policyRows, cache, buckets, inFlight, thread>>
      /\ last' \in [Agents -> {"never", "fresh", "overdue"}]
      /\ \A b \in Agents : last'[b] # "never" => last[b] # "never"
    BY DEF TtlElapses, BackoffElapses, server, SyncInv, SyncTypes
<1>2. \A b \in Agents : Bucket(b)' = Bucket(b) /\ (HasBundle(b)' <=> HasBundle(b))
    BY <1>1 DEF Bucket, HasBundle
<1> QED BY <1>1, <1>2 DEF SyncInv, SyncTypes, Keyed, OneFetch, Busy, AnswersNewer, LoadedBefore,
                          KeptSound

LEMMA RestartKeeps ==
    ASSUME SyncInv, Restart
    PROVE  SyncInv' /\ \A b \in Agents : Bucket(b)' = {}
<1>1. /\ UNCHANGED <<policyRows, cache>> /\ buckets' = <<>> /\ inFlight' = {}
      /\ last' = [a \in Agents |-> "never"] /\ thread' = [t \in Threads |-> Idle]
    BY DEF Restart, server
<1>2. \A b \in Agents : Bucket(b)' = {}
    BY <1>1 DEF Bucket, HasBundle
<1>3. \A t \in Threads : thread'[t].at = "idle"
    BY <1>1 DEF Idle
<1>4. SyncTypes'
    <2>1. thread' \in [Threads -> Forms]
        BY <1>1 DEF Forms
    <2>2. last' \in [Agents -> {"never", "fresh", "overdue"}]
        BY <1>1
    <2> QED BY <1>1, <2>1, <2>2 DEF SyncInv, SyncTypes, Forms
<1>5. Keyed'
    BY <1>1 DEF Keyed
<1>6. OneFetch' /\ AnswersNewer' /\ LoadedBefore'
    BY <1>1, <1>3 DEF OneFetch, Busy, AnswersNewer, LoadedBefore
<1>7. KeptSound'
    BY <1>1, <1>2 DEF SyncInv, KeptSound, OfAgent
<1> QED BY <1>2, <1>4, <1>5, <1>6, <1>7 DEF SyncInv

LEMMA SyncInitEstablishes == SyncInit => SyncInv
<1> SUFFICES ASSUME SyncInit PROVE SyncInv
    OBVIOUS
<1>1. \A b \in Agents : Bucket(b) = {}
    BY DEF SyncInit, Bucket, HasBundle
<1>2. \A t \in Threads : thread[t].at = "idle"
    BY DEF SyncInit, Idle
<1>3. SyncTypes /\ Keyed
    BY DEF SyncInit, SyncTypes, Keyed
<1>4. OneFetch /\ AnswersNewer /\ LoadedBefore
    BY <1>2 DEF SyncInit, OneFetch, Busy, AnswersNewer, LoadedBefore
<1>5. KeptSound
    BY <1>1 DEF SyncInit, KeptSound, OfAgent
<1> QED BY <1>3, <1>4, <1>5 DEF SyncInv

LEMMA SyncStepKeeps == SyncInv /\ [SyncNext]_syncVars => SyncInv' /\ NoneOlder
<1> SUFFICES ASSUME SyncInv, [SyncNext]_syncVars PROVE SyncInv' /\ NoneOlder
    OBVIOUS
<1>1. UNCHANGED buckets => \A b \in Agents : Bucket(b)' = Bucket(b)
    BY DEF Bucket, HasBundle
<1>2. UNCHANGED buckets => NoneOlder
    BY <1>1, SameNotOlder
<1>3. ASSUME NEW p \in Policies,
             \/ \E mode \in {"enforcing", "dry_run"} : CreatePolicy(p, mode)
             \/ \E enabled \in BOOLEAN : Update(p, enabled)
             \/ DeletePolicy(p)
      PROVE  SyncInv' /\ NoneOlder
    <2>1. SyncTypes' /\ Grown
        BY <1>3, WriteGrows DEF SyncInv
    <2>2. UNCHANGED <<cache, buckets, last, inFlight, thread>>
        BY <1>3 DEF CreatePolicy, Update, DeletePolicy, Write, books
    <2> QED BY <1>2, <2>1, <2>2, ServerStepKeeps
<1>4. CASE Outage \/ UNCHANGED syncVars
    <2>1. UNCHANGED <<policyRows, cache, buckets, last, inFlight, thread>>
        BY <1>4 DEF Outage, syncVars, server, books
    <2>2. SyncTypes' /\ Grown
        <3>1. \A q \in Policies : policyRows[q] \notin {NoPolicy, Gone} => policyRows[q].rev \in Nat
            BY DEF SyncInv, SyncTypes, LiveRow
        <3>2. Grown
            BY <2>1, <3>1 DEF Grown
        <3> QED BY <2>1, <3>2 DEF SyncInv, SyncTypes
    <2> QED BY <1>2, <2>1, <2>2, ServerStepKeeps
<1>5. CASE Restart
    BY <1>5, RestartKeeps, SameNotOlder
<1>6. ASSUME NEW a \in Agents, TtlElapses(a) \/ BackoffElapses(a) \/ \E t \in Threads : RunStarts(t, a)
      PROVE  SyncInv' /\ NoneOlder
    <2>1. UNCHANGED buckets
        BY <1>6 DEF TtlElapses, BackoffElapses, RunStarts
    <2> QED BY <1>2, <1>6, <2>1, TimeKeeps, RunStartsKeeps
<1>7. ASSUME NEW t \in Threads, Check(t) \/ Answer(t) \/ Stamp(t) \/ FetchFails(t)
      PROVE  SyncInv' /\ NoneOlder
    <2>1. UNCHANGED buckets
        BY <1>7 DEF Check, Answer, Stamp, FetchFails
    <2> QED BY <1>2, <1>7, <2>1, CheckKeeps, AnswerKeeps, StampKeeps, FetchFailsKeeps
<1>8. ASSUME NEW t \in Threads, Claim(t) \/ Load(t)
      PROVE  SyncInv' /\ NoneOlder
    BY <1>8, ClaimKeeps, LoadKeeps
<1> QED BY <1>3, <1>4, <1>5, <1>6, <1>7, <1>8 DEF SyncNext, Step

(* The invariant of the policies holds in every state of every behaviour.  *)
THEOREM PolicyInvariant == SyncSpec => []SyncInv
<1>1. SyncInv /\ [SyncNext]_syncVars => SyncInv'
    BY SyncStepKeeps
<1> QED BY <1>1, SyncInitEstablishes, PTL DEF SyncSpec

(* Loading one agent's policies disarms no other agent.                    *)
THEOREM GuardrailsHold == SyncSpec => []GuardrailsKept
BY PolicyInvariant, GuardrailsFollow, PTL

(* No agent goes back to an older revision of a policy while the process   *)
(* lives, however run starts, lost answers and slow threads interleave.    *)
THEOREM NeverBackwardsHolds == SyncSpec => NeverBackwards
<1>1. SyncInv /\ [SyncNext]_syncVars => [NoneOlder]_syncVars
    BY SyncStepKeeps
<1> QED BY <1>1, PolicyInvariant, PTL DEF SyncSpec, NeverBackwards
=============================================================================
