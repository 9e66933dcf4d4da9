----------------------------- MODULE MCServices -----------------------------
(* An instance of Services for TLC: a batch of sub-calls of which one is   *)
(* malformed, beside a query with a JSON prompt.                           *)
EXTENDS Services

Four == 1..4
BatchAndQuery == [i \in Four |-> IF i = 4 THEN "query" ELSE "batch"]
BothServices == [c \in {"batch", "query"} |-> IF c = "batch" THEN "RLM" ELSE "LM"]
Kinds == [i \in Four |-> CASE i = 2 -> "malformed" [] i = 4 -> "json" [] OTHER -> "text"]
TwoSlots == [s \in {"LM", "RLM"} |-> 2]
=============================================================================
