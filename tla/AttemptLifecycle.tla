-------------------------- MODULE AttemptLifecycle --------------------------
(***************************************************************************)
(* What the attempts app promises of one attempt, with no requests, copies *)
(* or tasks: it is opened once, then either finished with an outcome that  *)
(* never changes, or withdrawn before it has one.                          *)
(***************************************************************************)
CONSTANTS Ids, Outcomes, NoOutcome

VARIABLES
  phase,    \* phase[i]: "absent", "open", "final" or "withdrawn"
  outcome   \* outcome[i]: what the attempt was given when it became final

lifecycle == <<phase, outcome>>

Init ==
  /\ phase = [i \in Ids |-> "absent"]
  /\ outcome = [i \in Ids |-> NoOutcome]

Move(i, from, to) == phase[i] = from /\ phase' = [phase EXCEPT ![i] = to]

Open(i) == Move(i, "absent", "open") /\ UNCHANGED outcome

Finish(i) ==
  /\ Move(i, "open", "final")
  /\ \E o \in Outcomes : outcome' = [outcome EXCEPT ![i] = o]

Withdraw(i) == Move(i, "open", "withdrawn") /\ UNCHANGED outcome

Next == \E i \in Ids : Open(i) \/ Finish(i) \/ Withdraw(i)

Spec == Init /\ [][Next]_lifecycle
=============================================================================
