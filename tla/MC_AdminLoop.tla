---------------------------- MODULE MC_AdminLoop ----------------------------
(* Model values for the admin-panel loop: two forked modules.               *)
EXTENDS AdminLoop, TLC

CONSTANTS a1, a2, a3

=============================================================================
