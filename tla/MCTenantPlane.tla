----------------------------- MODULE MCTenantPlane -----------------------------
(* Two threads of one user, beside a neighbour.                              *)
EXTENDS TenantPlane

CONSTANTS t1, t2
Alike == Permutations({t1, t2})
================================================================================
