----------------------------- MODULE WindowSession -----------------------------
(***************************************************************************)
(* What the compositor promises about windows, without its queues, phases  *)
(* and callbacks.  A surface is managed from the moment it is adopted      *)
(* until it is retired, once in its life.  A managed surface is shown by   *)
(* at most one Activity at a time: a new one is launched only when the     *)
(* previous one has ended, and none is launched for a retired surface.     *)
(* An Activity may outlive its surface.                                    *)
(***************************************************************************)
CONSTANTS Surfaces, Acts

VARIABLES
  stage,    \* absent, managed or retired, for each surface
  shown_by  \* the Activities of each managed surface

vars == <<stage, shown_by>>

Init ==
  /\ stage = [s \in Surfaces |-> "absent"]
  /\ shown_by = [s \in Surfaces |-> {}]

Adopt(s) ==
  /\ stage[s] = "absent"
  /\ stage' = [stage EXCEPT ![s] = "managed"]
  /\ UNCHANGED shown_by

Launch(s, a) ==
  /\ stage[s] = "managed"
  /\ shown_by[s] = {}
  /\ \A t \in Surfaces : a \notin shown_by[t]
  /\ shown_by' = [shown_by EXCEPT ![s] = {a}]
  /\ UNCHANGED stage

End(s, a) ==
  /\ a \in shown_by[s]
  /\ shown_by' = [shown_by EXCEPT ![s] = @ \ {a}]
  /\ UNCHANGED stage

Retire(s) ==
  /\ stage[s] = "managed"
  /\ stage' = [stage EXCEPT ![s] = "retired"]
  /\ shown_by' = [shown_by EXCEPT ![s] = {}]

Next ==
  \E s \in Surfaces :
    \/ Adopt(s) \/ Retire(s)
    \/ \E a \in Acts : Launch(s, a) \/ End(s, a)

Spec == Init /\ [][Next]_vars
=============================================================================
