------------------------------- MODULE Alerts -------------------------------
(***************************************************************************)
(* Alert delivery (services/alerts: _poll_once in worker.py and the        *)
(* statements of db.py it calls).                                          *)
(*                                                                         *)
(* Workers claim unalerted signals in one statement, decide per group      *)
(* (org, agent, failure type) whether to alert, mark what is not sent,     *)
(* send the best signal of each remaining group, mark what was sent, stamp *)
(* the group's dedup window and hand back the claims.  `alerted' is set    *)
(* only after a send, so a poll that dies leaves its rows claimed until    *)
(* the claim is older than CLAIM_TIMEOUT_SECS.                             *)
(*                                                                         *)
(* Time is kept as saturating ages.  The alert policy, the overrides and   *)
(* the confidence floors are read from tables nothing here writes: whether *)
(* a group passes them is an input of each poll.  Shadow signals are never *)
(* claimed and are left out.                                               *)
(***************************************************************************)
EXTENDS Naturals, FiniteSets

CONSTANTS
    NumSignals,
    Groups,
    Assignments,    \* the groups that the signals may be of
    Workers,        \* replicas on the same shard
    BatchSize,
    ClaimTimeout,   \* CLAIM_TIMEOUT_SECS, in ticks
    DedupWindow,    \* ALERT_DEDUP_WINDOW, in ticks; 0 turns it off
    MaxPoll,        \* the longest a poll takes
    MaxFailures     \* bound on polls that raise or die, and on failed sends

Signals == 1 .. NumSignals      \* in the order of detected_at

ASSUME AlertsAssumption ==
    /\ Assignments \subseteq [Signals -> Groups]
    /\ NumSignals \in Nat /\ BatchSize \in Nat \ {0}
    /\ ClaimTimeout \in Nat \ {0} /\ DedupWindow \in Nat /\ MaxPoll \in Nat
    /\ MaxFailures \in Nat

VARIABLES
    group,      \* of each signal
    detected,   \* signals written so far
    alerted,    \* signals with alerted = TRUE
    claim,      \* age of each signal's claim
    dedup,      \* alert_dedup per group: [age, suppressed]
    poll,       \* per worker: where its poll is and what it decided
    sent,       \* how often each signal was sent
    why,        \* why each alerted signal was marked
    ago,        \* per group: ticks since an alert of it was delivered
    reported,   \* suppressed signals that alerts of the group told of
    failures,
    overlapped  \* two polls were ever under way at once

table     == <<alerted, claim, dedup>>
past      == <<sent, reported, ago>>
alertVars == <<group, detected, table, poll, past, why, failures, overlapped>>

Free       == ClaimTimeout + 1     \* the age of a claim that is NULL or expired
PollPlaces == {"idle", "decide", "suppress", "send", "mark", "stamp", "release"}
NoPoll     == [at |-> "idle", age |-> 0, rows |-> {}, suppress |-> {}, muted |-> {},
               silent |-> {}, dups |-> {}, work |-> {}, told |-> [g \in Groups |-> 0],
               ok |-> {}]

AlertsInit ==
    /\ group \in Assignments
    /\ detected = 0 /\ alerted = {}
    /\ claim = [s \in Signals |-> Free]
    /\ dedup = [g \in Groups |-> [age |-> DedupWindow, suppressed |-> 0]]
    /\ poll = [w \in Workers |-> NoPoll]
    /\ sent = [s \in Signals |-> 0] /\ why = [s \in Signals |-> "no"]
    /\ reported = [g \in Groups |-> 0] /\ ago = [g \in Groups |-> DedupWindow]
    /\ failures = 0 /\ overlapped = FALSE

(* The detector writes a live signal.                                      *)
Detect ==
    /\ detected < NumSignals /\ detected' = detected + 1
    /\ UNCHANGED <<group, table, poll, past, why, failures, overlapped>>

Older(age, limit) == IF age = limit THEN age ELSE age + 1

(* Time passes; a poll is over after MaxPoll.                              *)
Tick ==
    /\ \A w \in Workers : poll[w].at # "idle" => poll[w].age < MaxPoll
    /\ claim' = [s \in Signals |-> Older(claim[s], Free)]
    /\ dedup' = [g \in Groups |->
           [dedup[g] EXCEPT !.age = Older(@, DedupWindow)]]
    /\ ago' = [g \in Groups |-> Older(ago[g], DedupWindow)]
    /\ poll' = [w \in Workers |->
           IF poll[w].at = "idle" THEN poll[w] ELSE [poll[w] EXCEPT !.age = @ + 1]]
    /\ UNCHANGED <<group, detected, alerted, sent, reported, why, failures, overlapped>>
-----------------------------------------------------------------------------
(* Mutant: a signal another poll has claimed is taken as well.             *)
Claimable_Unclaimed == (1 .. detected) \ alerted

Claimable == {s \in (1 .. detected) \ alerted : claim[s] > ClaimTimeout}

OldestOf(S) == {s \in S : Cardinality({x \in S : x < s}) < BatchSize}

(* claim_unalerted_signals: one statement selects and stamps.              *)
Claim(w) ==
    /\ poll[w].at = "idle" /\ Claimable # {}
    /\ poll' = [poll EXCEPT ![w] = [NoPoll EXCEPT !.at = "decide",
                                                  !.rows = OldestOf(Claimable)]]
    /\ claim' = [s \in Signals |-> IF s \in OldestOf(Claimable) THEN 0 ELSE claim[s]]
    /\ overlapped' = (overlapped \/ \E v \in Workers \ {w} : poll[v].at # "idle")
    /\ UNCHANGED <<group, detected, alerted, dedup, past, why, failures>>

RowsOf(w, g) == {s \in poll[w].rows : group[s] = g}
GroupsOf(w)  == {group[s] : s \in poll[w].rows}

WithinWindow(g) == dedup[g].age < DedupWindow

(* Which groups are silenced, suppressed by the window, and queued: of a   *)
(* queued group the most confident signal, whichever that is, is sent and  *)
(* the rest are duplicates.                                                *)
Picks(w) == {f \in [GroupsOf(w) -> poll[w].rows] :
                 \A g \in GroupsOf(w) : group[f[g]] = g}

Decide(w) ==
    /\ poll[w].at = "decide"
    /\ \E quiet \in SUBSET GroupsOf(w), best \in Picks(w) :
         LET rows       == poll[w].rows
             suppressed == {g \in GroupsOf(w) \ quiet : WithinWindow(g)}
             alerting   == GroupsOf(w) \ (quiet \cup suppressed)
             work       == {best[g] : g \in alerting}
         IN  poll' = [poll EXCEPT ![w] = [@ EXCEPT
                 !.at       = "suppress",
                 !.suppress = suppressed,
                 !.muted    = {s \in rows : group[s] \in suppressed},
                 !.silent   = {s \in rows : group[s] \in quiet},
                 !.dups     = {s \in rows : group[s] \in alerting} \ work,
                 !.work     = work,
                 !.told     = [g \in Groups |-> dedup[g].suppressed]]]
    /\ UNCHANGED <<group, detected, table, past, why, failures, overlapped>>

(* increment_suppressed_count, group by group.                             *)
IncrementSuppressed(w, g) ==
    /\ poll[w].at = "suppress" /\ g \in poll[w].suppress
    /\ dedup' = [dedup EXCEPT ![g].suppressed = @ + Cardinality(RowsOf(w, g))]
    /\ poll' = [poll EXCEPT ![w].suppress = @ \ {g}]
    /\ UNCHANGED <<group, detected, alerted, claim, past, why, failures,
                   overlapped>>

(* mark_alerted_batch of what is not sent; with nothing to send the poll   *)
(* goes on to hand back its claims.                                        *)
MarkSilent(w) ==
    LET p == poll[w] IN
    /\ p.at = "suppress" /\ p.suppress = {}
    /\ alerted' = alerted \cup p.muted \cup p.silent \cup p.dups
    /\ why' = [s \in Signals |-> CASE s \in p.muted  -> "suppressed"
                                  [] s \in p.silent -> "silenced"
                                  [] s \in p.dups   -> "duplicate"
                                  [] OTHER          -> why[s]]
    /\ poll' = [poll EXCEPT ![w].at = IF p.work = {} THEN "release" ELSE "send"]
    /\ UNCHANGED <<group, detected, claim, dedup, past, failures, overlapped>>

(* deliver: at least one destination took the alert, or there is none.     *)
Sent(w, S) ==
    /\ sent' = [s \in Signals |-> IF s \in S THEN sent[s] + 1 ELSE sent[s]]
    /\ reported' = [g \in Groups |->
           IF \E s \in S : group[s] = g THEN reported[g] + poll[w].told[g]
                                      ELSE reported[g]]
    /\ ago' = [g \in Groups |-> IF \E s \in S : group[s] = g THEN 0 ELSE ago[g]]

Deliver(w, s) ==
    /\ poll[w].at = "send" /\ s \in poll[w].work
    /\ Sent(w, {s})
    /\ poll' = [poll EXCEPT ![w].work = @ \ {s}, ![w].ok = @ \cup {s}]
    /\ UNCHANGED <<group, detected, table, why, failures, overlapped>>

(* Every destination failed, or the explanation could not be built.        *)
DeliveryFails(w, s) ==
    /\ poll[w].at = "send" /\ s \in poll[w].work
    /\ failures < MaxFailures /\ failures' = failures + 1
    /\ poll' = [poll EXCEPT ![w].work = @ \ {s}]
    /\ UNCHANGED <<group, detected, table, past, why, overlapped>>

MarkSent(w) ==
    LET p == poll[w] IN
    /\ p.at = "send" /\ p.work = {}
    /\ alerted' = alerted \cup p.ok
    /\ why' = [s \in Signals |-> IF s \in p.ok THEN "sent" ELSE why[s]]
    /\ poll' = [poll EXCEPT ![w].at = "stamp"]
    /\ UNCHANGED <<group, detected, claim, dedup, past, failures, overlapped>>

(* Mutant: the count is reset and the window does not open.                *)
RecordSent_NoStamp(w, s) ==
    /\ poll[w].at = "stamp" /\ s \in poll[w].ok
    /\ dedup' = [dedup EXCEPT ![group[s]].suppressed = 0]
    /\ poll' = [poll EXCEPT ![w].ok = @ \ {s}]
    /\ UNCHANGED <<group, detected, alerted, claim, past, why, failures,
                   overlapped>>

(* record_alert_sent, signal by signal.                                    *)
RecordSent(w, s) ==
    /\ poll[w].at = "stamp" /\ s \in poll[w].ok
    /\ dedup' = [dedup EXCEPT ![group[s]] = [age |-> 0, suppressed |-> 0]]
    /\ poll' = [poll EXCEPT ![w].ok = @ \ {s}]
    /\ UNCHANGED <<group, detected, alerted, claim, past, why, failures,
                   overlapped>>

(* release_claims: of every row of the poll that is not alerted, whoever   *)
(* has claimed it since.                                                   *)
ReleaseClaims(w) ==
    /\ poll[w].at \in {"release", "stamp"} /\ poll[w].ok = {}
    /\ claim' = [s \in Signals |->
           IF s \in poll[w].rows \ alerted THEN Free ELSE claim[s]]
    /\ poll' = [poll EXCEPT ![w] = NoPoll]
    /\ UNCHANGED <<group, detected, alerted, dedup, past, why, failures,
                   overlapped>>

(* A statement raises or the worker dies: the claims stay.  Deliveries     *)
(* under way are not cancelled, some of them may still succeed.            *)
PollDies(w) ==
    /\ poll[w].at # "idle"
    /\ failures < MaxFailures /\ failures' = failures + 1
    /\ \E S \in SUBSET (IF poll[w].at = "send" THEN poll[w].work ELSE {}) :
           Sent(w, S)
    /\ poll' = [poll EXCEPT ![w] = NoPoll]
    /\ UNCHANGED <<group, detected, table, why, overlapped>>

Step(w) ==
    \/ Claim(w) \/ Decide(w) \/ MarkSilent(w) \/ MarkSent(w) \/ ReleaseClaims(w)
    \/ \E g \in Groups : IncrementSuppressed(w, g)
    \/ \E s \in Signals : Deliver(w, s) \/ RecordSent(w, s)

AlertsNext ==
    \/ Detect \/ Tick
    \/ \E w \in Workers : \/ Step(w) \/ PollDies(w)
                         \/ \E s \in Signals : DeliveryFails(w, s)

(* Workers keep polling and time passes.                                   *)
AlertsSpec == AlertsInit /\ [][AlertsNext]_alertVars /\ WF_alertVars(Tick) /\ \A w \in Workers : WF_alertVars(Step(w))
-----------------------------------------------------------------------------
Reasons == {"no", "suppressed", "silenced", "duplicate", "sent"}

AlertsTypeOK ==
    /\ group \in [Signals -> Groups]
    /\ detected \in 0 .. NumSignals /\ alerted \in SUBSET (1 .. detected)
    /\ claim \in [Signals -> 0 .. Free]
    /\ dedup \in [Groups -> [age: 0 .. DedupWindow, suppressed: Nat]]
    /\ \A w \in Workers :
           LET p == poll[w] IN
           /\ Cardinality(p.rows) =< BatchSize
           /\ p.at \in PollPlaces /\ p.age \in 0 .. MaxPoll
           /\ UNION {p.muted, p.silent, p.dups, p.work, p.ok} \subseteq p.rows
           /\ p.rows \subseteq 1 .. detected /\ p.suppress \subseteq Groups
           /\ p.told \in [Groups -> Nat]
    /\ sent \in [Signals -> Nat] /\ why \in [Signals -> Reasons]
    /\ reported \in [Groups -> Nat] /\ ago \in [Groups -> 0 .. DedupWindow]
    /\ failures \in 0 .. MaxFailures
    /\ overlapped \in BOOLEAN

(* While polls end within the claim timeout, a signal is sent again only   *)
(* after a poll died, though the replicas share a shard: the claim, not    *)
(* alerted, is what keeps them apart.                                      *)
SentOnce == \A s \in Signals : sent[s] <= 1 + failures

(* An alert is delayed, never lost: a signal is only marked without being  *)
(* sent when its group was announced, was silenced on purpose, or has a    *)
(* signal that still will be sent, whatever dies on the way.               *)
GroupAnnounced ==
    \A s \in alerted : \E x \in 1 .. detected :
        /\ group[x] = group[s]
        /\ sent[x] > 0 \/ x \notin alerted \/ why[x] = "silenced"

(* While polls neither overlap nor fail, each suppressed signal is told of *)
(* by exactly one later alert of its group, or still waits to be.          *)
Undisturbed == failures = 0 /\ ~overlapped
SuppressedAccounted ==
    Undisturbed /\ (\A w \in Workers : poll[w].at = "idle") =>
        \A g \in Groups :
            reported[g] + dedup[g].suppressed
                = Cardinality({s \in Signals : group[s] = g /\ why[s] = "suppressed"})

(* While polls neither overlap nor fail, no group is alerted twice within  *)
(* its window, although the window opens only after the send and the mark. *)
OneAlertPerWindow ==
    [][\A s \in Signals :
           Undisturbed /\ sent'[s] > sent[s] => ago[group[s]] = DedupWindow]_alertVars

(* Every live signal is dealt with in the end: again and again all that    *)
(* were detected are alerted.                                              *)
EverySignalDealtWith == []<>(alerted = 1 .. detected)
=============================================================================
