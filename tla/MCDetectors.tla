----------------------------- MODULE MCDetectors -----------------------------
(* The detectors, side by side: over the two records of a run, over the     *)
(* grounds of what an agent does, and over several runs.  The menus of hook *)
(* calls are in modules of their own.                                       *)
EXTENDS DetectorRuns

RM == INSTANCE RecordMenus
GM == INSTANCE GroundingMenus
CM == INSTANCE CrossRunMenus

RecordMenus   == RM!AllMenus
GroundMenus   == GM!AllMenus
CrossMenus    == CM!AllMenus
MCThresholds  == RM!Thresholds
MCUnlearned   == RM!Unlearned
MCTiers       == RM!Tiers
MCMissing     == RM!Missing
MCDomains     == CM!Domains

CONSTANTS AllGround, AllCross, DomainOf

VARIABLES
    machine,      \* the machine that runs
    grounds, rec, step, fate,
    world, runs, stored, seen, signals, baseline

groundVars == <<grounds, rec, step, fate>>
crossVars  == <<world, runs, stored, seen, signals, baseline>>
allVars    == <<machine, vars, groundVars, crossVars>>

Ground == INSTANCE Grounding
    WITH Menus <- AllGround, Dests <- {"x", "y"}, IdLike <- {"c1", "c2"}, Allowlisted <- {},
         SendTools <- {"send"}, Irreversible <- {"delete"}, Cap <- 4, InPathSurface <- 7, ServerSurface <- 20,
         menu <- grounds

Cross == INSTANCE CrossRun
    WITH Menus <- AllCross, Dests <- {"x", "y", "h"}, Domain <- DomainOf, Tools <- {"send"},
         MinLoopRuns <- 3, MaxDepth <- 4, MinBaseline <- 1, menu <- world

(* The machines that do not run rest, the first one in an initial state of  *)
(* the smallest menu.                                                       *)
Resting == menu.memory # {} /\ menu.inputs = {{}}

GroupInit ==
    /\ machine \in {"record", "ground", "cross"}
    /\ Init /\ (machine = "record" \/ Resting)
    /\ IF machine = "ground" THEN Ground!Init
       ELSE grounds = 0 /\ rec = 0 /\ step = 0 /\ fate = 0
    /\ IF machine = "cross" THEN Cross!Init
       ELSE /\ world = 0 /\ runs = 0 /\ stored = 0
            /\ seen = 0 /\ signals = 0 /\ baseline = 0

GroupNext ==
    \/ machine = "record" /\ Next        /\ UNCHANGED <<machine, groundVars, crossVars>>
    \/ machine = "ground" /\ Ground!Next /\ UNCHANGED <<machine, vars, crossVars>>
    \/ machine = "cross"  /\ Cross!Next  /\ UNCHANGED <<machine, vars, groundVars>>

GroupSpec == GroupInit /\ [][GroupNext]_allVars

(* The properties of the instances, as their modules state them.            *)
DestinationsHeldToWhatWasTold == machine = "ground" => Ground!DestinationsHeldToWhatWasTold
RefusedCallsExact             == machine = "ground" => Ground!RefusedCallsExact
HandoffFromWhatWasKnown       == machine = "cross" => Cross!HandoffFromWhatWasKnown
LoopsAreSustained             == machine = "cross" => Cross!LoopsAreSustained
=============================================================================
