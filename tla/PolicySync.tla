----------------------------- MODULE PolicySync -----------------------------
(***************************************************************************)
(* How an SDK process keeps its agents' policies up to date: the thread    *)
(* each run start may spawn (client.py), the fetch bookkeeping, which the  *)
(* detector settings inherit too (remote_fetch.py), the engine's buckets   *)
(* (policies/__init__.py), the optional cache file, and the server that    *)
(* signs policies (queries.py) and serves them (postgres.py).              *)
(***************************************************************************)
EXTENDS Naturals, Sequences, FiniteSets, SequencesExt

CONSTANTS
    Agents,     \* agents of this process
    Policies,   \* policy ids
    OwnerOf,    \* the agent a policy is for, or Everyone
    Everyone,   \* "*"
    Threads,    \* fetch threads alive at once
    Secrets,    \* deployments considered: with a signing secret, without one
    MaxEdits,   \* bound on edits at the server
    MaxMishaps  \* bound on lost requests, restarts and database outages

ASSUME PolicySyncAssumption ==
    /\ OwnerOf \in [Policies -> Agents \cup {Everyone}]
    /\ Secrets \subseteq BOOLEAN
    /\ MaxEdits \in Nat /\ MaxMishaps \in Nat

VARIABLES
    secret,     \* whether client and server share a signing secret
    policyRows, \* the policies table
    down,       \* the policies query fails
    spent,      \* edits made and faults met
    cache,      \* per agent, the cache file
    buckets,    \* sequence of <<agent, policies loaded for it>>, oldest key first
    last,       \* per agent: no load yet, a fresh one, an overdue one
    failing,    \* per agent: no failure, backing off, or due again
    inFlight,   \* agents whose fetch is on the wire
    tried,      \* agents whose cache file was tried
    thread      \* what each thread is doing

server   == <<policyRows, down>>
books    == <<last, failing, inFlight, tried>>
syncVars == <<secret, server, spent, cache, buckets, books, thread>>

NoPolicy == [rev |-> 0]
Gone     == [rev |-> 0, gone |-> TRUE]   \* an id is not given twice
NoFile   == [file |-> FALSE]
Idle     == [at |-> "idle"]

Mishap == spent.faults < MaxMishaps
Edited == spent.edits < MaxEdits
-----------------------------------------------------------------------------
(* The server.  A signature covers the row's revision, and its mode from   *)
(* version 3 on, which is chosen when a non-default mode is passed.        *)
Signature(rev, mode) ==
    IF mode = "enforcing" THEN [version |-> 1, rev |-> rev, mode |-> "none"]
                          ELSE [version |-> 3, rev |-> rev, mode |-> mode]

Live(p) == policyRows[p] \notin {NoPolicy, Gone}

Write(p, row) ==
    /\ Edited
    /\ policyRows' = [policyRows EXCEPT ![p] = row]
    /\ spent' = [spent EXCEPT !.edits = @ + 1]
    /\ UNCHANGED <<secret, down, cache, buckets, books, thread>>

(* create_policy *)
CreatePolicy(p, mode) ==
    /\ policyRows[p] = NoPolicy
    /\ Write(p, [rev |-> 1, enabled |-> TRUE, mode |-> mode,
                 sig |-> Signature(1, mode)])

(* update_policy, behind PUT and the toggle: any field but the mode, then  *)
(* a new signature, computed with the default mode.                        *)
Update(p, enabled) ==
    /\ Live(p)
    /\ LET rev == policyRows[p].rev + 1
       IN Write(p, [policyRows[p] EXCEPT !.rev = rev, !.enabled = enabled,
                                   !.sig = Signature(rev, "enforcing")])

DeletePolicy(p) == Live(p) /\ Write(p, Gone)

(* fetch_policies: the enabled policies of the agent and of everyone.  The *)
(* query does not select the mode; an error is answered like no policies.  *)
Served(a) ==
    IF down THEN {}
    ELSE {[id |-> p, rev |-> policyRows[p].rev, sig |-> policyRows[p].sig] :
            p \in {q \in Policies : /\ Live(q) /\ policyRows[q].enabled
                                    /\ OwnerOf[q] \in {a, Everyone}}}
-----------------------------------------------------------------------------
(* The engine.                                                             *)
Verified(w) ==
    /\ w.sig.rev = w.rev
    /\ w.sig.version = 3 => w.sig.mode = "enforcing"

(* With a secret, what fails verification is skipped; without one, an      *)
(* enforcing action is reduced to a log.                                   *)
Loadable(wire) ==
    {[id |-> w.id, rev |-> w.rev, acts |-> IF secret THEN "enforce" ELSE "log"] :
        w \in {v \in wire : secret => Verified(v)}}

HasBundle(a) == \E i \in DOMAIN buckets : buckets[i][1] = a
Bucket(a)    == IF HasBundle(a)
                THEN buckets[CHOOSE i \in DOMAIN buckets : buckets[i][1] = a][2]
                ELSE {}

(* Mutant: a load replaces every agent's policies.                         *)
WithBucket_Alone(a, bundle) == <<<<a, bundle>>>>

(* _remote_by_agent[agent_id] = verified: a key keeps its place.           *)
WithBucket(a, bundle) ==
    IF HasBundle(a)
    THEN [i \in DOMAIN buckets |->
             IF buckets[i][1] = a THEN <<a, bundle>> ELSE buckets[i]]
    ELSE Append(buckets, <<a, bundle>>)

(* What load leaves in _policies: one policy per id, the first bucket's.   *)
Effective ==
    {p \in UNION {buckets[i][2] : i \in DOMAIN buckets} :
        LET first == CHOOSE i \in DOMAIN buckets :
                        /\ \E q \in buckets[i][2] : q.id = p.id
                        /\ \A j \in 1..(i - 1) : \A q \in buckets[j][2] : q.id # p.id
        IN p \in buckets[first][2]}

EffectiveFor(a) == {p \in Effective : OwnerOf[p.id] \in {a, Everyone}}
-----------------------------------------------------------------------------
(* RemoteFetchState.                                                       *)
NeedsFetch(a) ==
    /\ a \notin inFlight
    /\ IF failing[a] # "no" THEN failing[a] = "due" ELSE last[a] # "fresh"

(* bundle_status, for a client with an endpoint and a key.                 *)
Stale(a) == last[a] # "fresh"

TtlElapses(a) ==
    /\ last[a] = "fresh"
    /\ last' = [last EXCEPT ![a] = "overdue"]
    /\ UNCHANGED <<secret, server, spent, cache, buckets, failing, inFlight,
                   tried, thread>>

BackoffElapses(a) ==
    /\ failing[a] = "waiting"
    /\ failing' = [failing EXCEPT ![a] = "due"]
    /\ UNCHANGED <<secret, server, spent, cache, buckets, last, inFlight,
                   tried, thread>>
-----------------------------------------------------------------------------
(* The thread a run start spawns.                                          *)
At(t, at) == thread[t].at = at

RunStarts(t, a) ==
    /\ At(t, "idle") /\ NeedsFetch(a)
    /\ thread' = [thread EXCEPT ![t] = [at |-> "check", agent |-> a]]
    /\ UNCHANGED <<secret, server, spent, cache, buckets, books>>

MoveTo(t, at) == thread' = [thread EXCEPT ![t].at = at]
Done(t)     == thread' = [thread EXCEPT ![t] = Idle]

Check(t) ==
    /\ At(t, "check")
    /\ IF NeedsFetch(thread[t].agent) THEN MoveTo(t, "claim") ELSE Done(t)
    /\ UNCHANGED <<secret, server, spent, cache, buckets, books>>

(* Mutant: begin_fetch does not test the slot it sets.                     *)
Claimed_Unchecked(a) == FALSE

(* begin_fetch found the slot taken.                                       *)
Claimed(a) == a \in inFlight

(* _prime_policies_from_cache: once per agent, while it has no bundle; the *)
(* agent is not marked fetched.                                            *)
Prime(a) ==
    /\ tried' = tried \cup {a}
    /\ IF a \notin tried /\ ~HasBundle(a) /\ cache[a] # NoFile
       THEN buckets' = WithBucket(a, Loadable(cache[a].policies))
       ELSE UNCHANGED buckets
    /\ UNCHANGED last

Claim(t) ==
    LET a == thread[t].agent
    IN /\ At(t, "claim")
       /\ IF Claimed(a)
          THEN Done(t) /\ UNCHANGED <<buckets, last, inFlight, tried>>
          ELSE inFlight' = inFlight \cup {a} /\ MoveTo(t, "sent") /\ Prime(a)
       /\ UNCHANGED <<secret, server, spent, cache, failing>>

(* The server answers with what its tables hold now.                       *)
Answer(t) ==
    /\ At(t, "sent")
    /\ thread' = [thread EXCEPT ![t] =
          [at |-> "load", agent |-> @.agent, wire |-> Served(@.agent)]]
    /\ UNCHANGED <<secret, server, spent, cache, buckets, books>>

Load(t) ==
    /\ At(t, "load")
    /\ buckets' = WithBucket(thread[t].agent, Loadable(thread[t].wire))
    /\ MoveTo(t, "stamp")
    /\ UNCHANGED <<secret, server, spent, cache, books>>

(* mark_fetched, _write_policy_cache, end_fetch.                           *)
Stamp(t) ==
    LET a == thread[t].agent
    IN /\ At(t, "stamp")
       /\ last' = [last EXCEPT ![a] = "fresh"]
       /\ failing' = [failing EXCEPT ![a] = "no"]
       /\ cache' = [cache EXCEPT ![a] = [file |-> TRUE, policies |-> thread[t].wire]]
       /\ inFlight' = inFlight \ {a}
       /\ Done(t)
       /\ UNCHANGED <<secret, server, spent, buckets, tried>>

(* Mutant: a failed fetch keeps the slot.                                  *)
AfterFailure_Held(a) == inFlight

(* end_fetch runs in a finally block, after mark_fetch_failed.             *)
AfterFailure(a) == inFlight \ {a}

FetchFails(t) ==
    LET a == thread[t].agent
    IN /\ At(t, "sent") /\ Mishap
       /\ failing' = [failing EXCEPT ![a] = "waiting"]
       /\ inFlight' = AfterFailure(a)
       /\ Done(t)
       /\ spent' = [spent EXCEPT !.faults = @ + 1]
       /\ UNCHANGED <<secret, server, cache, buckets, last, tried>>
-----------------------------------------------------------------------------
SyncInit ==
    /\ secret \in Secrets
    /\ policyRows = [p \in Policies |-> NoPolicy] /\ down = FALSE
    /\ spent = [edits |-> 0, faults |-> 0]
    /\ cache = [a \in Agents |-> NoFile]
    /\ buckets = <<>> /\ last = [a \in Agents |-> "never"]
    /\ failing = [a \in Agents |-> "no"] /\ inFlight = {} /\ tried = {}
    /\ thread = [t \in Threads |-> Idle]

(* The process dies; the cache files stay.                                 *)
Restart ==
    /\ Mishap
    /\ spent' = [spent EXCEPT !.faults = @ + 1]
    /\ buckets' = <<>> /\ last' = [a \in Agents |-> "never"]
    /\ failing' = [a \in Agents |-> "no"] /\ inFlight' = {} /\ tried' = {}
    /\ thread' = [t \in Threads |-> Idle]
    /\ UNCHANGED <<secret, server, cache>>

Outage ==
    /\ ~down => Mishap
    /\ down' = ~down
    /\ spent' = IF down THEN spent ELSE [spent EXCEPT !.faults = @ + 1]
    /\ UNCHANGED <<secret, policyRows, cache, buckets, books, thread>>

Step(t) == Check(t) \/ Claim(t) \/ Answer(t) \/ Load(t) \/ Stamp(t)

SyncNext ==
    \/ \E p \in Policies : \/ \E mode \in {"enforcing", "dry_run"} : CreatePolicy(p, mode)
                           \/ \E enabled \in BOOLEAN : Update(p, enabled)
                           \/ DeletePolicy(p)
    \/ Outage \/ Restart
    \/ \E a \in Agents : \/ TtlElapses(a) \/ BackoffElapses(a)
                         \/ \E t \in Threads : RunStarts(t, a)
    \/ \E t \in Threads : Step(t) \/ FetchFails(t)

(* A thread that was started is scheduled, a backoff runs out, the         *)
(* database comes back, and every agent keeps being run.                   *)
SyncFairness ==
    /\ \A t \in Threads : WF_syncVars(Step(t))
    /\ \A a \in Agents : /\ WF_syncVars(BackoffElapses(a))
                         /\ SF_syncVars(\E t \in Threads : RunStarts(t, a))
    /\ WF_syncVars(down /\ Outage)

SyncSpec == SyncInit /\ [][SyncNext]_syncVars /\ SyncFairness
-----------------------------------------------------------------------------
(* However run starts, lost answers and slow threads interleave, the       *)
(* bundle held for an agent never goes back to an older revision of a      *)
(* policy while the process lives: the in-flight slot keeps a late answer  *)
(* from overwriting a newer one.  It is about the bundle: which revision   *)
(* is in force may go back, see InForceNeverBackwards.                     *)
NoneOlder ==
    \A a \in Agents : \A new \in Bucket(a)', old \in Bucket(a) :
        new.id = old.id => new.rev >= old.rev

NeverBackwards == [][NoneOlder]_syncVars

(* Loading one agent's policies disarms no other agent: a policy in an     *)
(* agent's last bundle stays in force for it, in some revision.            *)
GuardrailsKept ==
    \A a \in Agents :
        /\ \A p \in Bucket(a) : \E q \in EffectiveFor(a) : q.id = p.id
        /\ last[a] # "never" => HasBundle(a)

(* However often requests fail, threads race and the process restarts, an  *)
(* agent that keeps being run is refreshed: never stale for ever.          *)
AgentsRefreshed == \A a \in Agents : []<>(~Stale(a))
-----------------------------------------------------------------------------
(* docs/policies.md says that whatever bundle was last loaded stays in     *)
(* memory while fetches fail: a policy leaves an agent's bundle only if it *)
(* was deleted, disabled or changed at the server.                         *)
KeptThroughOutage ==
    [][\A a \in Agents : \A p \in Bucket(a) :
          buckets' # <<>> /\ Live(p.id) /\ policyRows[p.id].rev = p.rev /\ policyRows[p.id].enabled
          => \E q \in Bucket(a)' : q.id = p.id]_syncVars

(* docs/policies/dry-run.md says a dry-run policy never acts: none that    *)
(* the server calls dry run is loaded as enforcing.                        *)
DryRunOnlyRecords ==
    \A a \in Agents : \A p \in Bucket(a) :
        Live(p.id) /\ policyRows[p.id].rev = p.rev /\ policyRows[p.id].mode = "dry_run"
        => p.acts # "enforce"

(* docs/policies.md says that whatever bundle was last loaded for an agent *)
(* keeps being enforced: the revision in force for it never goes back.     *)
(* A policy for everyone is taken from the oldest key's bucket, so another *)
(* agent's late load puts its own older revision in force.                 *)
InForceNeverBackwards ==
    [][\A a \in Agents : \A new \in EffectiveFor(a)', old \in EffectiveFor(a) :
          new.id = old.id => new.rev >= old.rev]_syncVars

(* docs/policies.md says policies are fetched and cached per agent: once   *)
(* its own fetch has loaded, an agent runs the policies it brought.        *)
OwnBundleInForce ==
    \A a \in Agents : ~Stale(a) /\ inFlight = {} => EffectiveFor(a) = Bucket(a)
=============================================================================
