--------------------------- MODULE FleetLifecycle ---------------------------
(***************************************************************************)
(* What the admin-panel manager promises about its module processes (spec *)
(* 4.8), without pids, maps, signals or the controller: a fleet is         *)
(* launched only when no process of the previous one is left, the         *)
(* processes of a launch all carry that launch's number, a process         *)
(* disappears only when the manager reaps it, and once the manager has     *)
(* ended nothing is launched or reaped any more.  A launch may start only  *)
(* part of the fleet (start_modules throws) and start-up may end with no   *)
(* launch at all.                                                          *)
(***************************************************************************)
EXTENDS Naturals

CONSTANTS
    Mods,         \* the modules of the config
    MaxRestarts   \* the restart requests the controller may make

VARIABLES
    alive,     \* processes not yet reaped: <<module, launch number>>
    launches,  \* the launches made so far
    stopped    \* the manager has ended

vars == <<alive, launches, stopped>>

Init ==
    /\ alive = {}
    /\ launches = 0
    /\ stopped = FALSE

\* A launch with no process of the previous one left; start-up may end in
\* the same step.
Launch(S) ==
    /\ ~stopped
    /\ alive = {}
    /\ launches <= MaxRestarts
    /\ S \subseteq Mods \X {launches}
    /\ alive' = S
    /\ launches' = launches + 1
    /\ stopped' \in BOOLEAN

\* The manager reaps one of its processes, and may end in the same step.
Reap(p) ==
    /\ ~stopped
    /\ p \in alive
    /\ alive' = alive \ {p}
    /\ stopped' \in BOOLEAN
    /\ UNCHANGED launches

\* The manager ends.
Stop ==
    /\ ~stopped
    /\ stopped' = TRUE
    /\ UNCHANGED <<alive, launches>>

Next ==
    \/ \E S \in SUBSET (Mods \X {launches}) : Launch(S)
    \/ \E p \in alive : Reap(p)
    \/ Stop

Spec == Init /\ [][Next]_vars

=============================================================================
