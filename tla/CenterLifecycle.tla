-------------------------- MODULE CenterLifecycle --------------------------
(***************************************************************************)
(* What the platform promises of a center: it is set up once, is open to   *)
(* its users from then on until it is deleted, and never comes back.       *)
(***************************************************************************)
CONSTANT Centers
VARIABLE stage   \* stage[c]: how far center c has come

Stages == {"none", "setup", "ready", "gone"}

stages == stage
Init == stage = [c \in Centers |-> "none"]

Go(c, from, to) == stage[c] \in from /\ stage' = [stage EXCEPT ![c] = to]

Create(c)  == Go(c, {"none"}, "setup")
Refuse(c)  == Go(c, {"none"}, "gone")
Open(c)    == Go(c, {"setup"}, "ready")
Delete(c)  == Go(c, {"setup", "ready"}, "gone")

Next == \E c \in Centers : Create(c) \/ Refuse(c) \/ Open(c) \/ Delete(c)

Spec == Init /\ [][Next]_stages
=============================================================================
