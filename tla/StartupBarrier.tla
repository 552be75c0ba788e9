--------------------------- MODULE StartupBarrier ---------------------------
(***************************************************************************)
(* What the startup barrier promises (spec 4.7), without threads, maps or  *)
(* queues: every participant reports ready at some point, a duplicate      *)
(* report changes nothing, and once nobody is pending the global ready is  *)
(* published, unless start-up was abandoned first (a failed spawn, a       *)
(* module exit, the manager's end).  Anybody may report; only the          *)
(* participants are waited for.                                            *)
(***************************************************************************)
EXTENDS FiniteSets

CONSTANTS
    Node,          \* every id that can publish on a ready topic
    Participants   \* the ids the barrier waits for

VARIABLES
    reported,  \* ids that have reported ready
    opened,    \* the global ready has been published
    abandoned  \* start-up was given up: the barrier will never open

vars == <<reported, opened, abandoned>>

Init ==
    /\ reported = {}
    /\ opened = FALSE
    /\ abandoned = FALSE

\* An id reports ready; reporting again is a stutter.
Report(n) ==
    /\ n \notin reported
    /\ reported' = reported \cup {n}
    /\ UNCHANGED <<opened, abandoned>>

\* Nobody is pending: the global ready is published.
Open ==
    /\ Participants \subseteq reported
    /\ ~opened
    /\ ~abandoned
    /\ opened' = TRUE
    /\ UNCHANGED <<reported, abandoned>>

\* Start-up is abandoned.
Abandon ==
    /\ ~abandoned
    /\ abandoned' = TRUE
    /\ UNCHANGED <<reported, opened>>

Next == (\E n \in Node : Report(n)) \/ Open \/ Abandon

Spec == Init /\ [][Next]_vars

\* The barrier does not stay closed with nobody pending.
FairSpec == Spec /\ WF_vars(Open)

=============================================================================
