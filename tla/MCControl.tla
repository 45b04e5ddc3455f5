----------------------------- MODULE MCControl ------------------------------
(* What the server controls in a running agent, side by side: the approvals  *)
(* of guarded calls, and the policies of a process with two agents.          *)
EXTENDS Approvals, PolicySync

VARIABLE
    machine       \* the machine that runs

allVars == <<machine, vars, syncVars>>

ForEveryone == [p \in {"w"} |-> "*"]

(* The machine that does not run rests in one of its initial states.         *)
GroupInit ==
    /\ machine \in {"approvals", "policies"}
    /\ Init
    /\ SyncInit
    /\ machine = "policies" => mayDecide

GroupNext ==
    \/ machine = "approvals" /\ Next     /\ UNCHANGED <<machine, syncVars>>
    \/ machine = "policies"  /\ SyncNext /\ UNCHANGED <<machine, vars>>

(* The fairness of each specification, for the machine that runs.            *)
GroupFairness ==
    /\ \A c \in Calls : /\ WF_vars(machine = "approvals" /\ Gate(c))
                        /\ WF_vars(machine = "approvals" /\ DeadlinePasses(c))
    /\ \A t \in Threads : WF_syncVars(machine = "policies" /\ Step(t))
    /\ \A a \in Agents :
           /\ WF_syncVars(machine = "policies" /\ BackoffElapses(a))
           /\ SF_syncVars(machine = "policies" /\ \E t \in Threads : RunStarts(t, a))
    /\ WF_syncVars(machine = "policies" /\ down /\ Outage)

GroupSpec == GroupInit /\ [][GroupNext]_allVars /\ GroupFairness

(* AgentsRefreshed, while the policies run.                                  *)
KeptRefreshed == machine = "policies" => AgentsRefreshed
=============================================================================
