----------------------------- MODULE MCSemantic -----------------------------
(* Three runs of one conversation; the first is in the baseline sample,    *)
(* the second will have a structural signal, the third has neither.        *)
EXTENDS Semantic

Buckets == [r \in RunIds |-> IF r = 1 THEN 3 ELSE 50]
=============================================================================
