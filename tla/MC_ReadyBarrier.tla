--------------------------- MODULE MC_ReadyBarrier ---------------------------
(* Instances of ReadyBarrier for TLC: three module ids as model values, in *)
(* the order in which main_config.items() visits them.                     *)
EXTENDS ReadyBarrier, TLC

CONSTANTS m1, m2, m3

\* Three configured modules.
MCOrder3 == <<m1, m2, m3>>

\* Two configured modules.
MCOrder2 == <<m1, m2>>

=============================================================================
