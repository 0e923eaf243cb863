------------------------------ MODULE MCAccess ------------------------------
(***************************************************************************)
(* What a client has to pass: its account and the schema its requests work *)
(* in.  TenantSchema and Accounts share no state (a token only names the   *)
(* center), so a behaviour runs one of them while the other rests.         *)
(***************************************************************************)
EXTENDS MCTenantSchema, MCAccounts

VARIABLE running   \* which of the two this behaviour runs, chosen at the start

AccessInit ==
  /\ TenantInit /\ Init
  /\ running \in {"connections", "accounts"}

AccessNext ==
  /\ \/ running = "connections" /\ TenantNext /\ UNCHANGED vars
     \/ running = "accounts" /\ Next /\ UNCHANGED tenantVars
  /\ UNCHANGED running

AccessSpec == AccessInit /\ [][AccessNext]_<<vars, tenantVars, running>>

AllAlike == Symmetry \cup Alike
=============================================================================
