----------------------------- MODULE MCVoiceCost ------------------------------
(* The voice generations of an ElevenLabs account and, beside them, the        *)
(* results a customer pushes over HTTP: they have no row in common with the    *)
(* polled ones of ExternalSignals.                                             *)
EXTENDS VoiceCost, ExternalSignals

VARIABLE
    machine       \* the machine that runs

allVars == <<machine, vars, externalVars>>

(* Two generations that say the same, alike in length; the second one's        *)
(* event carries its id.                                                       *)
MCSaid  == [g \in Gens |-> "hello"]
MCChars == [g \in Gens |-> 20 + g]
MCVoice == [g \in Gens |-> IF g = 2 THEN "v2" ELSE "v1"]

(* The machine that does not run rests in its initial state.                   *)
GroupInit ==
    /\ machine \in {"voice", "pushes"}
    /\ Init
    /\ ExternalInit

GroupNext ==
    \/ machine = "voice"  /\ Next     /\ UNCHANGED <<machine, externalVars>>
    \/ machine = "pushes" /\ PushNext /\ UNCHANGED <<machine, vars>>

(* The fairness of VoiceCost, while it runs.                                   *)
GroupFairness ==
    /\ WF_vars(machine = "voice" /\ Tick) /\ SF_vars(machine = "voice" /\ Poll)
    /\ SF_vars(machine = "voice" /\ StartPass)
    /\ \A g \in Gens : /\ WF_vars(machine = "voice" /\ List(g))
                       /\ WF_vars(machine = "voice" /\ Speak(g))
                       /\ WF_vars(machine = "voice" /\ Correlate(g))

GroupSpec == GroupInit /\ [][GroupNext]_allVars /\ GroupFairness

(* EveryGenerationDecided, while the ElevenLabs worker runs.                   *)
GenerationsDecided == machine = "voice" => EveryGenerationDecided
=============================================================================
