------------------------- MODULE MCTenantMembership -------------------------
(* Instances of TenantMembership with named workers and users. *)
EXTENDS TenantMembership

CONSTANTS w1, w2, u1, u2
=============================================================================
