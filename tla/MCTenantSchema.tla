--------------------------- MODULE MCTenantSchema ---------------------------
(* Small instances of TenantSchema.                                        *)
EXTENDS TenantSchema, TLC

CONSTANTS q1, q2, w1, s1, s2

\* Two threads or processes, each with its own session.
MCOwn == (q1 :> s1 @@ q2 :> s2 @@ w1 :> s2)

MCOwnOf == [h \in Handlers |-> MCOwn[h]]

Symmetry == Permutations(Tenants)
=============================================================================
