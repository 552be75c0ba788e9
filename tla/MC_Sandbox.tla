----------------------------- MODULE MC_Sandbox -----------------------------
(* Capability names for set_caps: CAP_CHOWN (0), CAP_NET_ADMIN (12), and *)
(* a name libcap does not know.                                            *)
EXTENDS Sandbox, TLC

CONSTANTS chown, net_admin, bogus

MCCapOf == (chown :> 0) @@ (net_admin :> 12)

=============================================================================
