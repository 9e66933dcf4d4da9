---------------------------- MODULE MCLMHandler -----------------------------
(* Instances of LMHandler for TLC: a batch of three prompts, of which one  *)
(* is malformed and one names a registered model, and a call beside it; a  *)
(* default client, another backend of the same name, a client registered   *)
(* and one that replaces it.                                               *)
EXTENDS LMHandler

ASSUME OneNameAssumption == OneNameEach

Four == 1..4
BatchAndCall == [i \in Four |-> IF i = 4 THEN "call" ELSE "batch"]
OneNamed == [i \in Four |-> IF i = 3 THEN "phi" ELSE NoName]
Depths == [i \in Four |-> IF i = 4 THEN 2 ELSE 1]
Counts == [i \in Four |-> 2 ^ (i - 1)]
SecondMalformed == {2}
SameName == [c \in {Default, Other} |-> "llama"]
CustomRegistrable == [m \in {"phi"} |-> {"c3", "c4"}]

\* Two prompts of a batch on the default client.
Pair == 1..2
OneBatch == [i \in Pair |-> "batch"]
Unnamed == [i \in Pair |-> NoName]
Depth1 == [i \in Pair |-> 1]
PairCounts == [i \in Pair |-> i]
NoneMalformed == {}
NoneRegistrable == [m \in {} |-> {}]
DefaultOnly == [c \in {Default} |-> "llama"]
=============================================================================
