--------------------------- MODULE MCInvitations ---------------------------
(* Small instances of Invitations.                                         *)
EXTENDS Invitations, TLC

Symmetry == Permutations(Codes) \cup Permutations(People) \cup Permutations(Requests)
=============================================================================
