------------------------------- MODULE MCRuns -------------------------------
(* The workers that process stored runs and tell of what they found, side by *)
(* side: the runs of one detector worker, and two replicas of the alert      *)
(* worker.                                                                   *)
EXTENDS RunProcessing, Alerts, TLC

VARIABLE
    machine       \* the machine that runs

allVars == <<machine, vars, alertVars>>

(* Signals of two groups, the first of the first one.                        *)
TwoGroups == {f \in [Signals -> {"g1", "g2"}] : f[1] = "g1"}

(* Runs that ended, any of them cut, or one that stalled beside whole ones:  *)
(* the one late event is the terminal of at most one run.                    *)
OneStalled ==
    \/ \A r \in Runs : terminal[r] # "none"
    \/ \E r \in Runs : \A s \in Runs \ {r} : terminal[s] = "whole"

(* The machine that does not run rests in one of its initial states.         *)
GroupInit ==
    /\ machine \in {"runs", "alerts"}
    /\ Init
    /\ AlertsInit
    /\ machine = "runs" => \A s \in Signals : group[s] = "g1"
    /\ machine = "alerts" => fires = [r \in Runs |-> {}] /\ \A r \in Runs : terminal[r] = "whole"
    /\ OneStalled

GroupNext ==
    \/ machine = "runs"   /\ Next       /\ UNCHANGED <<machine, alertVars>>
    \/ machine = "alerts" /\ AlertsNext /\ UNCHANGED <<machine, vars>>

GroupSpec == GroupInit /\ [][GroupNext]_allVars

RunSymmetry == Permutations(Runs)
=============================================================================
