----------------------------- MODULE MCAccounts -----------------------------
(* Small instances of Accounts.                                            *)
EXTENDS Accounts, TLC

Alike == Permutations(Requests)

\* Everything overlaps; or what writes a password does not, next to deletions
\* and new accounts that do.
MCTraffic ==
  { [ops |-> Ops, alone |-> {}],
    [ops |-> Ops, alone |-> Setters] }

\* Links are confirmed by overlapping requests.
MCOverlap == {[ops |-> Ops, alone |-> {}]}
=============================================================================
