---------------------------- MODULE MC_Supervisor ----------------------------
(* Model values for the supervisor: three modules forked in order.          *)
EXTENDS Supervisor, TLC

CONSTANTS c1, c2, c3

MCChildren == <<c1, c2, c3>>

=============================================================================
