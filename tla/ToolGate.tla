------------------------------ MODULE ToolGate ------------------------------
(***************************************************************************)
(* What an approval promises to the owner of a guarded tool, whoever       *)
(* decides and whatever fails between the agent and the server: a call     *)
(* gets one verdict at most, which is never taken back, and its tool runs  *)
(* once at most, and only on a grant.                                      *)
(***************************************************************************)
CONSTANT Calls

VARIABLES
    verdict,   \* what was decided of each call
    outcome    \* what became of it

vars == <<verdict, outcome>>

Init ==
    /\ verdict = [c \in Calls |-> "none"]
    /\ outcome = [c \in Calls |-> "waiting"]

Rule(c, v) ==
    /\ verdict[c] = "none"
    /\ verdict' = [verdict EXCEPT ![c] = v]

End(c, how) ==
    /\ outcome[c] = "waiting"
    /\ outcome' = [outcome EXCEPT ![c] = how]

(* Somebody decides, before or after the call was given up.                *)
Decide(c, v) == Rule(c, v) /\ UNCHANGED outcome

Run(c) == verdict[c] = "granted" /\ End(c, "ran") /\ UNCHANGED verdict

(* The call is refused, or fails, without its tool having run.             *)
Stop(c) == End(c, "stopped") /\ UNCHANGED verdict

(* The wait is over: nobody will decide any more.                          *)
Lapse(c) == Rule(c, "timeout") /\ End(c, "stopped")

Next == \E c \in Calls :
    \/ \E v \in {"granted", "denied"} : Decide(c, v)
    \/ Run(c) \/ Stop(c) \/ Lapse(c)

Spec == Init /\ [][Next]_vars
=============================================================================
