------------------------------ MODULE MCIngest ------------------------------
(* The two ways into the events table, side by side: batches of the SDKs     *)
(* (IngestPersist), and spans of an OpenTelemetry exporter (Otlp).           *)
EXTENDS IngestPersist, Otlp

VARIABLE machine      \* the machine that runs

allVars == <<machine, vars, otlpVars>>

(* The machine that does not run rests in one of its initial states.  Two of *)
(* the batches are to be sent; the shipped store serves a trusted gateway,   *)
(* one that raises looks keys up.                                            *)
GroupInit ==
    /\ machine \in {"batches", "otlp"}
    /\ Init /\ OtlpInit
    /\ trusted # raises
    /\ IF machine = "batches"
       THEN raises /\ Cardinality({b \in Batches : client[b] = "hold"}) = 2
       ELSE db = "up" /\ \A b \in Batches : client[b] = "done"

GroupNext ==
    \/ machine = "batches" /\ Next     /\ UNCHANGED <<machine, otlpVars>>
    \/ machine = "otlp"    /\ OtlpNext /\ UNCHANGED <<machine, vars>>

(* The fairness of each specification, for the machine that runs.            *)
GroupFairness ==
    /\ \A h \in Handlers : WF_vars(machine = "batches" /\ Handle(h))
    /\ \A b \in Batches : WF_vars(machine = "batches" /\ \E s \in Slots : Send(b, s))
    /\ WF_otlpVars(machine = "otlp" /\ Maintain)
    /\ WF_otlpVars(machine = "otlp" /\ Recover)
    /\ \A r \in Requests : WF_otlpVars(machine = "otlp" /\ Background(r))

GroupSpec == GroupInit /\ [][GroupNext]_allVars /\ GroupFairness

(* BatchAccepted, where batches are sent; the other properties are those of  *)
(* the two modules.                                                          *)
EveryBatchAccepted == machine = "batches" => BatchAccepted
=============================================================================
