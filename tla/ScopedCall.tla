----------------------------- MODULE ScopedCall -----------------------------
(***************************************************************************)
(* What a call with deferred releases promises, whatever it does between:  *)
(* it takes its resources in one order, gives them back in the reverse     *)
(* order, takes none once it has begun to give back, ends holding none,    *)
(* and loses no server, and a container only in a call that was cancelled. *)
(***************************************************************************)
EXTENDS Integers, Sequences

VARIABLES phase, held, lost, cancelled

vars == <<phase, held, lost, cancelled>>
Order == <<"server", "workspace", "container">>

Init == phase = "idle" /\ held = <<>> /\ lost = {} /\ cancelled = FALSE

Open ==
  /\ phase = "idle"
  /\ phase' = "active" /\ cancelled' = FALSE /\ lost' = {}
  /\ UNCHANGED held

Acquire ==
  /\ phase = "active" /\ Len(held) < Len(Order)
  /\ held' = Append(held, Order[Len(held) + 1])
  /\ UNCHANGED <<phase, lost, cancelled>>

\* Give back some of the resources taken last (none when the call only begins to close), and
\* lose some of those: a directory that cannot be removed, the container of a cancelled call.
Release ==
  /\ phase \in {"active", "closing"} /\ phase' = "closing"
  /\ \E n \in 0..Len(held) :
       /\ held' = SubSeq(held, 1, n)
       /\ \E away \in SUBSET {"workspace", "container"} :
            /\ \A r \in away : \E k \in (n + 1)..Len(held) : held[k] = r
            /\ "container" \in away => cancelled
            /\ lost' = lost \cup away
  /\ UNCHANGED cancelled

Close ==
  /\ phase = "closing" /\ held = <<>>
  /\ phase' = "idle"
  /\ UNCHANGED <<held, lost, cancelled>>

Cancel ==
  /\ phase # "idle"
  /\ cancelled' = TRUE
  /\ UNCHANGED <<phase, held, lost>>

Next == Open \/ Acquire \/ Release \/ Close \/ Cancel

Spec == Init /\ [][Next]_vars
=============================================================================
