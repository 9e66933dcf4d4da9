---------------------------- MODULE BatchedCall -----------------------------
(***************************************************************************)
(* What a service promises of the prompts sent to it, alone or in batches: *)
(* each is settled once and for good, with content or with an error of its *)
(* own; it is aborted only after its caller gave the call up; and all are  *)
(* settled in the end.  LMHandler implements it.                           *)
(***************************************************************************)
CONSTANTS Prompts, CallOf    \* the prompts, and the call each is part of

VARIABLES
  settled,      \* how each prompt ended, or open
  abandoned     \* the calls given up
vars == <<settled, abandoned>>

Open(b) == {i \in Prompts : CallOf[i] = b /\ settled[i] = "open"}

Init == settled = [i \in Prompts |-> "open"] /\ abandoned = {}

Settle(i, ending) ==
  /\ settled[i] = "open"
  /\ settled' = [settled EXCEPT ![i] = ending]
  /\ UNCHANGED abandoned

Abort(i) == CallOf[i] \in abandoned /\ Settle(i, "aborted")

\* A call can be given up until all its prompts are settled.
Abandon(b) ==
  /\ Open(b) # {} /\ b \notin abandoned
  /\ abandoned' = abandoned \cup {b}
  /\ UNCHANGED settled

End(i) == Settle(i, "content") \/ Settle(i, "error") \/ Abort(i)
Next == \E i \in Prompts : End(i) \/ Abandon(CallOf[i])

Spec == Init /\ [][Next]_vars /\ \A i \in Prompts : WF_vars(End(i))
=============================================================================
