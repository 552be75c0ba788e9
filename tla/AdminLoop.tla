----------------------------- MODULE AdminLoop -----------------------------
(***************************************************************************)
(* The manager's main loop in the ENABLE_ADMIN_PANEL build (manager.cpp):  *)
(* start_controller forks the controller; start_modules forks the fleet;   *)
(* then every iteration of the loop polls waitpid with WNOHANG, relaunches *)
(* the fleet once a requested restart has drained it, and reads one        *)
(* message from the controller with a 50 ms timeout.  A restart_modules    *)
(* request runs shutdown_modules (SIGTERM to every handle) and reloads the *)
(* config; the fleet is relaunched only when module_handles is empty.      *)
(*                                                                         *)
(* A process is a pair <<module, generation>>: generation g is the fleet   *)
(* that the (g+1)-th call of start_modules forked.  What start_modules     *)
(* does inside (the ready barrier, the pipes) is the subject of            *)
(* ReadyBarrier and Supervisor; here it forks every module of Mods or      *)
(* throws part way.                                                        *)
(***************************************************************************)
EXTENDS Naturals, FiniteSets

CONSTANTS
    Mods,         \* the modules start_modules forks (the non-standalone ones)
    IgnoresTerm,  \* modules whose process handles SIGTERM and keeps running
    MaxRestarts   \* restart_modules requests the controller sends, at most

ASSUME AdminAssumption ==
    /\ IgnoresTerm \subseteq Mods
    /\ MaxRestarts \in Nat

VARIABLES
    lpc,      \* where the manager thread is
    ctrl,     \* the controller process: "none", "up", "zombie" (exited, not reaped), "reaped"
    handles,  \* module_handles: the processes the manager waits for
    run,      \* module processes alive
    zomb,     \* module processes that exited and are not yet reaped
    term,     \* module processes a SIGTERM was sent to
    started,  \* modules_started
    restart,  \* restart_modules (the flag)
    gen,      \* generation of the latest fleet
    reqs      \* restart_modules requests received so far

vars == <<lpc, ctrl, handles, run, zomb, term, started, restart, gen, reqs>>

Proc == Mods \X (0..MaxRestarts)

\* The processes one call of start_modules forks.
Fleet(g) == Mods \X {g}

\* The states of the manager thread inside the while (true) loop.
Loop == {"waitpid", "relaunch", "ipc"}

TypeOK ==
    /\ lpc \in {"controller", "start", "exited"} \cup Loop
    /\ ctrl \in {"none", "up", "zombie", "reaped"}
    /\ handles \subseteq Proc
    /\ run \subseteq Proc
    /\ zomb \subseteq Proc
    /\ term \subseteq Proc
    /\ started \in BOOLEAN
    /\ restart \in BOOLEAN
    /\ gen \in 0..MaxRestarts
    /\ reqs \in 0..MaxRestarts

Init ==
    /\ lpc = "controller"
    /\ ctrl = "none"
    /\ handles = {}
    /\ run = {}
    /\ zomb = {}
    /\ term = {}
    /\ started = FALSE
    /\ restart = FALSE
    /\ gen = 0
    /\ reqs = 0

-----------------------------------------------------------------------------
(* The manager thread.                                                     *)

\* start_controller: fork the controller, send it boot, check_child_executed
\* (which throws when the exec failed).
StartController ==
    /\ lpc = "controller"
    /\ \/ ctrl' = "up" /\ lpc' = "start"
       \/ ctrl' = "zombie" /\ lpc' = "exited"
    /\ UNCHANGED <<handles, run, zomb, term, started, restart, gen, reqs>>

\* A variant that leaves restart_modules set after the relaunch.
LaunchNoReset(g, next) ==
    \/ /\ handles' = Fleet(g)
       /\ run' = run \cup Fleet(g)
       /\ started' = TRUE
       /\ lpc' = next
       /\ UNCHANGED restart
    \/ /\ \E S \in SUBSET Fleet(g) : run' = run \cup S
       /\ lpc' = "exited"
       /\ UNCHANGED <<handles, started, restart>>

\* start_modules forks fleet g: module_handles becomes the new map and the
\* loop goes on at next; or a fork fails and it throws after some children
\* were forked, which ends the manager.
Launch(g, next) ==
    \/ /\ handles' = Fleet(g)
       /\ run' = run \cup Fleet(g)
       /\ started' = TRUE
       /\ restart' = FALSE
       /\ lpc' = next
    \/ /\ \E S \in SUBSET Fleet(g) : run' = run \cup S
       /\ lpc' = "exited"
       /\ UNCHANGED <<handles, started, restart>>

\* boot from the controller up to the loop: an early return (the MQTT
\* connection fails) or the first start_modules, modules_started = true.
StartModules ==
    /\ lpc = "start"
    /\ \/ lpc' = "exited" /\ UNCHANGED <<handles, run, started, restart>>
       \/ Launch(0, "waitpid")
    /\ UNCHANGED <<ctrl, zomb, term, gen, reqs>>

\* waitpid(-1, WNOHANG) returns 0: no child has exited.
WaitpidNone ==
    /\ lpc = "waitpid"
    /\ zomb = {}
    /\ ctrl # "zombie"
    /\ lpc' = "relaunch"
    /\ UNCHANGED <<ctrl, handles, run, zomb, term, started, restart, gen, reqs>>

\* waitpid reaps the controller: the loop throws.
WaitpidController ==
    /\ lpc = "waitpid"
    /\ ctrl = "zombie"
    /\ ctrl' = "reaped"
    /\ lpc' = "exited"
    /\ UNCHANGED <<handles, run, zomb, term, started, restart, gen, reqs>>

\* A variant that logs every module exit, as if the fleet were never started.
WaitpidModuleLogOnly(p) ==
    /\ lpc = "waitpid"
    /\ p \in zomb
    /\ zomb' = zomb \ {p}
    /\ handles' = handles \ {p}
    /\ lpc' = "relaunch"
    /\ UNCHANGED <<ctrl, run, term, started, restart, gen, reqs>>

\* A variant of shutdown_modules that signals nobody.
ShutdownNoSignal(h) == term' = term

\* shutdown_modules' loop over the map it is given: kill(pid, SIGTERM).
ShutdownModules(h) == term' = term \cup h

\* A variant that signals the map before erasing the reaped process.
WaitpidModuleSignalFirst(p) ==
    /\ lpc = "waitpid"
    /\ p \in zomb
    /\ zomb' = zomb \ {p}
    /\ \/ /\ p \notin handles
          /\ lpc' = "exited"
          /\ UNCHANGED <<handles, term, started>>
       \/ /\ p \in handles
          /\ handles' = handles \ {p}
          /\ \/ started /\ ShutdownModules(handles) /\ started' = FALSE /\ lpc' = "exited"
             \/ ~started /\ lpc' = "relaunch" /\ UNCHANGED <<term, started>>
    /\ UNCHANGED <<ctrl, run, restart, gen, reqs>>

\* waitpid reaps module process p.  Unknown: throw.  Known: erase it; if
\* the fleet is started, shutdown_modules signals the rest and the manager
\* returns EXIT_FAILURE, otherwise (a drain) the exit is only logged.
WaitpidModule(p) ==
    /\ lpc = "waitpid"
    /\ p \in zomb
    /\ zomb' = zomb \ {p}
    /\ \/ /\ p \notin handles
          /\ lpc' = "exited"
          /\ UNCHANGED <<handles, term, started>>
       \/ /\ p \in handles
          /\ handles' = handles \ {p}
          /\ \/ started /\ ShutdownModules(handles') /\ started' = FALSE /\ lpc' = "exited"
             \/ ~started /\ lpc' = "relaunch" /\ UNCHANGED <<term, started>>
    /\ UNCHANGED <<ctrl, run, restart, gen, reqs>>

\* Variants of the relaunch condition: the drain not waited for, an
\* off-by-one on the map's size.
DrainedNoWait == restart
DrainedOffByOne == Cardinality(handles) <= 1 /\ restart

\* module_handles.size() == 0 && restart_modules
Drained == handles = {} /\ restart

\* The fleet is drained and a restart was requested: start_modules again.
RestartCheck ==
    /\ lpc = "relaunch"
    /\ \/ /\ Drained
          /\ gen' = gen + 1
          /\ Launch(gen + 1, "ipc")
       \/ /\ ~Drained
          /\ lpc' = "ipc"
          /\ UNCHANGED <<handles, run, started, restart, gen>>
    /\ UNCHANGED <<ctrl, zomb, term, reqs>>

\* One receive_message from the controller.  restart_modules: shutdown_modules
\* sends SIGTERM to every handle, then the config is reloaded, which throws
\* on a bad config.  check_config is answered, an unknown method logged, a
\* timeout falls through: the loop goes on.  An IPC error returns EXIT_FAILURE.
Ipc ==
    /\ lpc = "ipc"
    /\ \/ /\ ctrl = "up" /\ reqs < MaxRestarts
          /\ reqs' = reqs + 1
          /\ ShutdownModules(handles)
          /\ \/ started' = FALSE /\ restart' = TRUE /\ lpc' = "waitpid"
             \/ lpc' = "exited" /\ UNCHANGED <<started, restart>>
       \/ /\ ctrl = "up"
          /\ lpc' = "waitpid"
          /\ UNCHANGED <<term, started, restart, reqs>>
       \/ lpc' = "waitpid" /\ UNCHANGED <<term, started, restart, reqs>>
       \/ lpc' = "exited" /\ UNCHANGED <<term, started, restart, reqs>>
    /\ UNCHANGED <<ctrl, handles, run, zomb, gen>>

Manager ==
    \/ StartController \/ StartModules
    \/ WaitpidNone \/ WaitpidController \/ \E p \in Proc : WaitpidModule(p)
    \/ RestartCheck \/ Ipc

-----------------------------------------------------------------------------
(* The other processes.                                                    *)

\* A module process exits of its own accord.
ModuleExit(p) ==
    /\ p \in run
    /\ run' = run \ {p}
    /\ zomb' = zomb \cup {p}
    /\ UNCHANGED <<lpc, ctrl, handles, term, started, restart, gen, reqs>>

\* A SIGTERM is delivered to a module that does not handle it.
Terminate(p) ==
    /\ p \in run \cap term
    /\ p[1] \notin IgnoresTerm
    /\ run' = run \ {p}
    /\ zomb' = zomb \cup {p}
    /\ UNCHANGED <<lpc, ctrl, handles, term, started, restart, gen, reqs>>

\* The controller process exits.
ControllerExit ==
    /\ ctrl = "up"
    /\ ctrl' = "zombie"
    /\ UNCHANGED <<lpc, handles, run, zomb, term, started, restart, gen, reqs>>

Next ==
    \/ Manager
    \/ \E p \in Proc : ModuleExit(p) \/ Terminate(p)
    \/ ControllerExit

Spec == Init /\ [][Next]_vars

(* The OS runs the manager thread and delivers a pending SIGTERM.  Nothing *)
(* forces a module or the controller to exit.                              *)
FairSpec ==
    /\ Spec
    /\ WF_vars(Manager)
    /\ \A p \in Proc : WF_vars(Terminate(p))

-----------------------------------------------------------------------------
(* Properties.                                                             *)

(* The throw "Unknown child ... died" (manager.cpp:673) is unreachable:    *)
(* while the loop runs, every module process alive or unreaped is in       *)
(* module_handles, however restart requests, drains and relaunches and     *)
(* module exits interleave.                                                *)
KnownChildren ==
    lpc \in Loop => run \cup zomb \subseteq handles

(* A relaunch never overlaps the old fleet: at no time do two processes of *)
(* the same module exist, the relaunch at manager.cpp:695 waiting for      *)
(* module_handles to be empty.                                             *)
OneFleet ==
    \A m \in Mods : \A g1, g2 \in 0..MaxRestarts :
        (<<m, g1>> \in run \cup zomb /\ <<m, g2>> \in run \cup zomb) => g1 = g2

(* The invariant that makes KnownChildren and OneFleet inductive: alive    *)
(* and unreaped processes are disjoint and all of the latest fleet, the    *)
(* handles too; a fleet is relaunched only for a request not yet served    *)
(* (gen < reqs while restart_modules is set), and nothing is forked or     *)
(* requested before the loop.                                              *)
AdminInv ==
    /\ TypeOK
    /\ run \cap zomb = {}
    /\ run \cup zomb \cup handles \subseteq Fleet(gen)
    /\ gen <= reqs
    /\ (restart /\ lpc \in Loop) => gen < reqs
    /\ lpc \in {"controller", "start"} => reqs = 0 /\ run \cup zomb \cup handles = {}
    /\ KnownChildren

\* Every handle in module_handles is a process not yet reaped: the loop
\* erases a pid when it reaps it, and start_modules records only the
\* processes it forked.
HandlesAlive == handles \subseteq run \cup zomb

(* kill(pid, SIGTERM) in shutdown_modules (manager.cpp:393) only targets  *)
(* processes the manager has not reaped yet: the pid of a reaped module    *)
(* may already belong to an unrelated process.  Both callers pass the map  *)
(* module_handles, from which the waitpid loop erases a pid before it      *)
(* calls shutdown_modules.                                                 *)
SignalsOnlyUnreaped == [][term' \ term \subseteq run' \cup zomb']_vars

-----------------------------------------------------------------------------
(* The loop as spec 4.8 states it (FleetLifecycle): the processes not yet  *)
(* reaped are those alive or zombie, a launch is a call of start_modules   *)
(* (start-up ending before any counts as an empty launch), and the manager *)
(* has ended once boot has returned or thrown.                             *)
Launches == gen + (IF lpc \in {"controller", "start"} THEN 0 ELSE 1)

Lifecycle == INSTANCE FleetLifecycle
    WITH alive <- run \cup zomb,
         launches <- Launches,
         stopped <- lpc = "exited"

(* The admin-panel loop implements FleetLifecycle: no relaunch beside a    *)
(* process of the previous fleet, no process of another generation, no     *)
(* process gone unreaped, nothing launched or reaped after boot returned.  *)
ImplementsFleetLifecycle == Lifecycle!Spec

(* Spec 4.8, restart_modules drains and relaunches: once a restart is      *)
(* requested, the fleet is eventually started again or the manager ends.  *)
RestartCompletes ==
    restart ~> ((started /\ ~restart) \/ lpc = "exited")

(* Spec 4.6: a module that dies while the fleet is started brings the      *)
(* manager down (shutdown_modules, then EXIT_FAILURE), unless a            *)
(* restart_modules handled before its waitpid turns its death into part of *)
(* the drain.                                                              *)
ModuleDeathStopsManager ==
    \A p \in Proc : (started /\ p \in zomb \cap handles) ~> (lpc = "exited" \/ restart)

=============================================================================
