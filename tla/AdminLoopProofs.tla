------------------------- MODULE AdminLoopProofs ---------------------------
(***************************************************************************)
(* Proofs about the admin-panel main loop (AdminLoop), for every set of    *)
(* modules, every set of modules that handle SIGTERM and every bound on    *)
(* the restart requests.                                                   *)
(***************************************************************************)
EXTENDS AdminLoop, TLAPS

USE AdminAssumption

\* A process of fleet g is one of the module processes, when g is in range.
LEMMA FleetInProc ==
    ASSUME NEW g \in 0..MaxRestarts
    PROVE  Fleet(g) \subseteq Proc
BY DEF Fleet, Proc

\* start_modules on a drained manager: when it returns, every process is
\* a known process of fleet g; when it throws, the new ones are of fleet g.
LEMMA LaunchKeeps ==
    ASSUME NEW g, NEW next, run = {}, zomb = {}, Launch(g, next), UNCHANGED zomb
    PROVE  /\ run' \cup handles' \subseteq Fleet(g) \cup handles
           /\ run' \cap zomb' = {}
           /\ lpc' # "exited" => run' \subseteq handles' /\ handles' = Fleet(g)
BY DEF Launch

\* Every step of the manager, the modules and the controller keeps AdminInv.
LEMMA AdminStep == AdminInv /\ [Next]_vars => AdminInv'
<1> SUFFICES ASSUME AdminInv, [Next]_vars PROVE AdminInv'
  OBVIOUS
<1> USE DEF AdminInv, TypeOK, KnownChildren, Loop
<1>1. CASE StartController
  BY <1>1 DEF StartController
<1>2. CASE StartModules
  <2>1. gen = 0 /\ reqs = 0 /\ run = {} /\ zomb = {} /\ handles = {}
    BY <1>2 DEF StartModules
  <2>2. CASE lpc' = "exited" /\ UNCHANGED <<handles, run, started, restart>>
    BY <1>2, <2>1, <2>2 DEF StartModules
  <2>3. CASE Launch(0, "waitpid")
    <3>1. /\ run' \cup handles' \subseteq Fleet(0)
          /\ run' \cap zomb' = {}
          /\ (lpc' # "exited" => run' \subseteq handles' /\ handles' = Fleet(0))
      BY <1>2, <2>1, <2>3, LaunchKeeps DEF StartModules
    <3>2. Fleet(0) \subseteq Proc
      BY FleetInProc
    <3>3. lpc' \in {"waitpid", "exited"} /\ UNCHANGED <<ctrl, zomb, term, gen, reqs>>
      BY <1>2, <2>3 DEF StartModules, Launch
    <3>4. started' \in BOOLEAN /\ restart' \in BOOLEAN /\ (lpc' = "waitpid" => ~restart')
      BY <2>3, <2>1 DEF Launch
    <3>. QED
      BY <2>1, <3>1, <3>2, <3>3, <3>4
  <2>. QED
    BY <1>2, <2>2, <2>3 DEF StartModules
<1>3. CASE WaitpidNone
  BY <1>3 DEF WaitpidNone
<1>4. CASE WaitpidController
  BY <1>4 DEF WaitpidController
<1>5. ASSUME NEW p \in Proc, WaitpidModule(p) PROVE AdminInv'
  <2>1. p \in handles /\ p \notin run
    \* The manager knows every process it can reap.
    BY <1>5 DEF WaitpidModule
  <2>. QED
    BY <1>5, <2>1 DEF WaitpidModule, ShutdownModules
<1>6. CASE RestartCheck
  <2>1. CASE Drained
    <3>1. run \cup zomb = {} /\ gen < reqs
      BY <1>6, <2>1 DEF Drained, RestartCheck
    <3>2. gen + 1 \in 0..MaxRestarts
      BY <3>1
    <3>3. /\ run' \cup handles' \subseteq Fleet(gen + 1) \cup handles
          /\ run' \cap zomb' = {}
          /\ (lpc' # "exited" => run' \subseteq handles' /\ handles' = Fleet(gen + 1))
      <4>1. Launch(gen + 1, "ipc") /\ UNCHANGED zomb
        BY <1>6, <2>1 DEF RestartCheck
      <4>. QED
        BY <3>1, <4>1, LaunchKeeps
    <3>4. Fleet(gen + 1) \subseteq Proc
      BY <3>2, FleetInProc
    <3>5. /\ gen' = gen + 1 /\ UNCHANGED <<ctrl, zomb, term, reqs>>
          /\ lpc' \in {"ipc", "exited"}
          /\ (lpc' = "ipc" => ~restart')
          /\ started' \in BOOLEAN /\ restart' \in BOOLEAN
          /\ (lpc' = "exited" => UNCHANGED handles)
      BY <1>6, <2>1 DEF RestartCheck, Launch
    <3>. QED
      BY <2>1, <3>1, <3>2, <3>3, <3>4, <3>5 DEF Drained
  <2>2. CASE ~Drained
    BY <1>6, <2>2 DEF RestartCheck
  <2>. QED
    BY <2>1, <2>2
<1>7. CASE Ipc
  <2>1. UNCHANGED <<ctrl, handles, run, zomb, gen>> /\ lpc = "ipc"
    BY <1>7 DEF Ipc
  <2>2. CASE /\ ctrl = "up" /\ reqs < MaxRestarts
             /\ reqs' = reqs + 1
             /\ ShutdownModules(handles)
             /\ \/ started' = FALSE /\ restart' = TRUE /\ lpc' = "waitpid"
                \/ lpc' = "exited" /\ UNCHANGED <<started, restart>>
    \* restart_modules: a new request, the handles signalled.
    <3>1. term' \subseteq Proc /\ reqs' \in 0..MaxRestarts /\ gen < reqs'
      BY <2>2 DEF ShutdownModules
    <3>2. Fleet(gen') = Fleet(gen)
      BY <2>1
    <3>3. CASE started' = FALSE /\ restart' = TRUE /\ lpc' = "waitpid"
      <4>1. started' \in BOOLEAN /\ restart' \in BOOLEAN
        BY <3>3
      <4>. QED
        BY <2>1, <2>2, <3>1, <3>2, <3>3, <4>1
    <3>4. CASE lpc' = "exited" /\ UNCHANGED <<started, restart>>
      BY <2>1, <2>2, <3>1, <3>2, <3>4
    <3>. QED
      BY <2>2, <3>3, <3>4
  <2>3. CASE lpc' \in {"waitpid", "exited"} /\ UNCHANGED <<term, started, restart, reqs>>
    \* check_config, an unknown method, a timeout or an IPC error.
    BY <2>1, <2>3
  <2>. QED
    BY <1>7, <2>2, <2>3 DEF Ipc
<1>8. ASSUME NEW p \in Proc, ModuleExit(p) PROVE AdminInv'
  BY <1>8 DEF ModuleExit
<1>9. ASSUME NEW p \in Proc, Terminate(p) PROVE AdminInv'
  BY <1>9 DEF Terminate
<1>10. CASE ControllerExit
  BY <1>10 DEF ControllerExit
<1>11. CASE UNCHANGED vars
  BY <1>11 DEF vars
<1>. QED
  BY <1>1, <1>2, <1>3, <1>4, <1>5, <1>6, <1>7, <1>8, <1>9, <1>10, <1>11
     DEF Next, Manager

\* Before start_controller nothing has been forked or requested.
LEMMA AdminInit == Init => AdminInv
<1> SUFFICES ASSUME Init PROVE AdminInv
  OBVIOUS
<1>0. started \in BOOLEAN /\ restart \in BOOLEAN
  BY DEF Init
<1>1. TypeOK
  BY <1>0 DEF Init, TypeOK, Loop
<1>2. run \cup zomb \cup handles \subseteq Fleet(gen) /\ run \cap zomb = {}
  BY DEF Init
<1>. QED
  BY <1>1, <1>2 DEF Init, AdminInv, KnownChildren, Loop

(* For every fleet and every number of restart requests, the "Unknown      *)
(* child" throw of the main loop is never taken: every process waitpid can *)
(* return while the loop runs is in module_handles.                        *)
THEOREM ChildrenAlwaysKnown == Spec => []KnownChildren
<1>1. AdminInv => KnownChildren
  BY DEF AdminInv
<1>. QED
  BY <1>1, AdminInit, AdminStep, PTL DEF Spec

(* For every fleet and every number of restart requests, a relaunch never  *)
(* runs a module beside its previous process: all processes alive or       *)
(* unreaped belong to one generation.                                      *)
THEOREM FleetsDoNotOverlap == Spec => []OneFleet
<1>1. AdminInv => OneFleet
  BY DEF AdminInv, OneFleet, Fleet
<1>. QED
  BY <1>1, AdminInit, AdminStep, PTL DEF Spec

(* For every fleet and bound on restart requests, AdminInv, which the      *)
(* admin_loop run checks, holds in every reachable state of the admin-panel *)
(* loop: one generation of processes, all known while the loop runs.       *)
THEOREM AdminInvariant == Spec => []AdminInv
BY AdminInit, AdminStep, PTL DEF Spec

-----------------------------------------------------------------------------
(* What a step of the loop may do.                                         *)

\* Every step keeps the handles among the processes not yet reaped.
LEMMA HandlesStep == HandlesAlive /\ [Next]_vars => HandlesAlive'
<1> SUFFICES ASSUME HandlesAlive, [Next]_vars PROVE HandlesAlive'
  OBVIOUS
<1> USE DEF HandlesAlive
<1>1. CASE StartModules \/ RestartCheck
  \* start_modules records exactly the processes it forked, or throws.
  <2>1. UNCHANGED zomb /\ run \subseteq run'
        /\ (handles' = handles \/ handles' \subseteq run')
    BY <1>1 DEF StartModules, RestartCheck, Launch
  <2>. QED
    BY <2>1
<1>2. ASSUME NEW p \in Proc, WaitpidModule(p) PROVE HandlesAlive'
  BY <1>2 DEF WaitpidModule
<1>3. ASSUME NEW p \in Proc, ModuleExit(p) \/ Terminate(p) PROVE HandlesAlive'
  BY <1>3 DEF ModuleExit, Terminate
<1>4. CASE StartController \/ WaitpidNone \/ WaitpidController \/ Ipc
         \/ ControllerExit \/ UNCHANGED vars
  BY <1>4 DEF StartController, WaitpidNone, WaitpidController, Ipc, ControllerExit, vars
<1>. QED
  BY <1>1, <1>2, <1>3, <1>4 DEF Next, Manager

\* Before start_controller there is no handle.
LEMMA HandlesInit == Init => HandlesAlive
BY DEF Init, HandlesAlive

(* For every fleet: shutdown_modules, from the waitpid loop or from        *)
(* restart_modules, sends SIGTERM only to pids the manager has not reaped, *)
(* so never to a pid the system may have handed to another process.       *)
THEOREM SignalsReachOnlyUnreaped == Spec => SignalsOnlyUnreaped
<1>1. HandlesAlive /\ [Next]_vars => [term' \ term \subseteq run' \cup zomb']_vars
  <2> SUFFICES ASSUME HandlesAlive, [Next]_vars
               PROVE  [term' \ term \subseteq run' \cup zomb']_vars
    OBVIOUS
  <2> USE DEF HandlesAlive
  <2>1. ASSUME NEW p \in Proc, WaitpidModule(p) PROVE term' \ term \subseteq run' \cup zomb'
    BY <2>1 DEF WaitpidModule, ShutdownModules
  <2>2. CASE Ipc
    BY <2>2 DEF Ipc, ShutdownModules
  <2>3. CASE UNCHANGED term
    BY <2>3
  <2>. QED
    BY <2>1, <2>2, <2>3
       DEF Next, Manager, StartController, StartModules, Launch, WaitpidNone,
           WaitpidController, RestartCheck, ModuleExit, Terminate, ControllerExit, vars
<1>. QED
  BY <1>1, HandlesInit, HandlesStep, PTL DEF Spec, SignalsOnlyUnreaped

-----------------------------------------------------------------------------
(* The refinement of FleetLifecycle.                                       *)

\* Adding zero, stated for a bound variable: the SMT encoding loses a primed
\* variable in x' + 0.
LEMMA PlusZero == ASSUME NEW n \in Nat PROVE n + 0 = n
OBVIOUS

\* Launches counts gen, plus one once start_modules has been entered.
LEMMA LaunchesValue ==
    ASSUME gen \in Nat, gen' \in Nat
    PROVE
    /\ lpc \in {"controller", "start"} => Launches = gen
    /\ lpc \notin {"controller", "start"} => Launches = gen + 1
    /\ lpc' \in {"controller", "start"} => Launches' = gen'
    /\ lpc' \notin {"controller", "start"} => Launches' = gen' + 1
<1>1. Launches' = gen' + (IF lpc' \in {"controller", "start"} THEN 0 ELSE 1)
  BY DEF Launches
<1>2. Launches = gen + (IF lpc \in {"controller", "start"} THEN 0 ELSE 1)
  BY DEF Launches
<1>3. lpc \in {"controller", "start"} => Launches = gen
  BY <1>2
<1>4. lpc \notin {"controller", "start"} => Launches = gen + 1
  BY <1>2
<1>5. lpc' \in {"controller", "start"} => Launches' = gen'
  BY <1>1, PlusZero, Zenon
<1>6. lpc' \notin {"controller", "start"} => Launches' = gen' + 1
  BY <1>1
<1>. QED
  BY <1>3, <1>4, <1>5, <1>6

LEMMA LifecycleInit == Init => Lifecycle!Init
BY DEF Init, Lifecycle!Init, Launches

\* A call of start_modules at launch number Launches, with no process left,
\* is a Launch of FleetLifecycle, whether or not the manager ends with it.
LEMMA LaunchIsLaunch ==
    ASSUME lpc # "exited",
           run \cup zomb = {},
           Launches \in 0..MaxRestarts,
           run' \cup zomb' \subseteq Mods \X {Launches},
           Launches' = Launches + 1
    PROVE  Lifecycle!Next
<1>1. Lifecycle!Launch(run' \cup zomb')
  BY DEF Lifecycle!Launch
<1>. QED
  BY <1>1 DEF Lifecycle!Next

\* Every step of the loop is a step of FleetLifecycle or leaves its
\* variables alone.
LEMMA LifecycleStep == AdminInv /\ [Next]_vars => [Lifecycle!Next]_Lifecycle!vars
<1> SUFFICES ASSUME AdminInv, [Next]_vars PROVE [Lifecycle!Next]_Lifecycle!vars
  OBVIOUS
<1> USE AdminAssumption
<1>0. /\ TypeOK /\ run \cap zomb = {} /\ gen <= reqs
      /\ (lpc \in {"controller", "start"} => reqs = 0 /\ run \cup zomb \cup handles = {})
      /\ ((restart /\ lpc \in Loop) => gen < reqs)
      /\ KnownChildren
  BY DEF AdminInv
<1>a. gen \in Nat /\ reqs \in Nat /\ reqs <= MaxRestarts
  BY <1>0 DEF TypeOK
<1>b. gen' \in Nat
  BY <1>a DEF Next, Manager, StartController, StartModules, WaitpidNone, WaitpidController,
              WaitpidModule, RestartCheck, Ipc, ModuleExit, Terminate, ControllerExit, vars
<1> USE <1>a, <1>b
<1>s. ASSUME UNCHANGED <<run \cup zomb, Launches, lpc = "exited">>
      PROVE  [Lifecycle!Next]_Lifecycle!vars
  BY <1>s DEF Lifecycle!vars
<1>1. CASE StartController
  <2>1. CASE lpc' = "start"
    <3>1. Launches' = Launches
      BY <1>1, <2>1, LaunchesValue DEF StartController
    <3>. QED
      BY <1>1, <2>1, <3>1, <1>s DEF StartController
  <2>2. CASE lpc' = "exited"
    <3>1. lpc = "controller" /\ run \cup zomb = {} /\ gen = 0 /\ gen' = 0
      BY <1>0, <1>1, <1>a DEF StartController
    <3>2. Launches = 0 /\ Launches' = 1
      BY <2>2, <3>1, LaunchesValue
    <3>3. run' \cup zomb' = {}
      BY <1>1, <3>1 DEF StartController
    <3>4. Launches \in 0..MaxRestarts
      BY <3>2
    <3>5. Lifecycle!Next
      BY <3>1, <3>2, <3>3, <3>4, LaunchIsLaunch
    <3>. QED
      BY <3>5
  <2>. QED
    BY <1>1, <2>1, <2>2 DEF StartController
<1>2. CASE StartModules
  <2>1. /\ lpc = "start" /\ run \cup zomb = {} /\ gen = 0 /\ gen' = 0
        /\ lpc' # "start" /\ lpc' # "controller"
    BY <1>0, <1>2, <1>a DEF StartModules, Launch
  <2>2. Launches = 0 /\ Launches' = 1
    BY <2>1, LaunchesValue
  <2>3. run' \cup zomb' \subseteq Mods \X {Launches}
    BY <1>2, <2>1, <2>2 DEF StartModules, Launch, Fleet
  <2>4. Launches \in 0..MaxRestarts
    BY <2>2
  <2>5. Lifecycle!Next
    BY <2>1, <2>2, <2>3, <2>4, LaunchIsLaunch
  <2>. QED
    BY <2>5
<1>3. CASE WaitpidNone
  BY <1>3, <1>s, LaunchesValue DEF WaitpidNone
<1>4. CASE WaitpidController
  <2>1. Lifecycle!Stop
    BY <1>4, LaunchesValue DEF WaitpidController, Lifecycle!Stop
  <2>. QED
    BY <2>1 DEF Lifecycle!Next
<1>5. ASSUME NEW p \in Proc, WaitpidModule(p) PROVE [Lifecycle!Next]_Lifecycle!vars
  <2>1. p \in zomb /\ p \notin run /\ lpc = "waitpid"
    BY <1>0, <1>5 DEF WaitpidModule
  <2>2. Launches' = Launches
    BY <1>5, <2>1, LaunchesValue DEF WaitpidModule
  <2>3. Lifecycle!Reap(p)
    BY <1>5, <2>1, <2>2 DEF WaitpidModule, Lifecycle!Reap
  <2>. QED
    BY <2>1, <2>3 DEF Lifecycle!Next
<1>6. CASE RestartCheck
  <2>1. CASE Drained
    <3>1. lpc = "relaunch" /\ gen' = gen + 1 /\ Launch(gen + 1, "ipc") /\ UNCHANGED zomb
      BY <1>6, <2>1 DEF RestartCheck
    <3>2. run \cup zomb = {} /\ gen < reqs
      BY <1>0, <2>1, <3>1 DEF Drained, KnownChildren, Loop
    <3>3. lpc' \in {"ipc", "exited"} /\ run' \cup zomb' \subseteq Fleet(gen + 1)
      BY <3>1, <3>2 DEF Launch
    <3>4. Launches = gen + 1 /\ Launches' = gen + 2
      BY <3>1, <3>3, <1>a, LaunchesValue
    <3>5. run' \cup zomb' \subseteq Mods \X {Launches}
      BY <3>3, <3>4 DEF Fleet
    <3>6. Launches \in 0..MaxRestarts
      BY <3>2, <3>4, <1>a
    <3>7. Lifecycle!Next
      BY <3>1, <3>2, <3>4, <3>5, <3>6, LaunchIsLaunch
    <3>. QED
      BY <3>7
  <2>2. CASE ~Drained
    BY <1>6, <2>2, <1>s, LaunchesValue DEF RestartCheck
  <2>. QED
    BY <2>1, <2>2
<1>7. CASE Ipc
  <2>1. CASE lpc' = "exited"
    <3>1. Lifecycle!Stop
      BY <1>7, <2>1, LaunchesValue DEF Ipc, Lifecycle!Stop
    <3>. QED
      BY <3>1 DEF Lifecycle!Next
  <2>2. CASE lpc' # "exited"
    BY <1>7, <2>2, <1>s, LaunchesValue DEF Ipc
  <2>. QED
    BY <2>1, <2>2
<1>8. ASSUME NEW p \in Proc, ModuleExit(p) \/ Terminate(p)
      PROVE  [Lifecycle!Next]_Lifecycle!vars
  <2>1. run' \cup zomb' = run \cup zomb
    BY <1>8 DEF ModuleExit, Terminate
  <2>2. gen' = gen /\ lpc' = lpc
    BY <1>8 DEF ModuleExit, Terminate
  <2>3. Launches' = Launches
    BY <2>2 DEF Launches
  <2>. QED
    BY <2>1, <2>2, <2>3, <1>s
<1>9. CASE ControllerExit
  BY <1>9, <1>s DEF ControllerExit, Launches
<1>10. CASE UNCHANGED vars
  BY <1>10, <1>s DEF vars, Launches
<1>. QED
  BY <1>1, <1>2, <1>3, <1>4, <1>5, <1>6, <1>7, <1>8, <1>9, <1>10 DEF Next, Manager

(* For every set of modules and bound on restart requests, the admin-panel *)
(* loop of manager.cpp implements FleetLifecycle under the mapping of      *)
(* AdminLoop: every launch starts from an empty fleet and forks only that  *)
(* launch's generation, a process disappears only when waitpid reaps it,   *)
(* and nothing is launched or reaped once boot has returned or thrown.     *)
THEOREM FleetRefinement == Spec => ImplementsFleetLifecycle
<1>. QED
  BY LifecycleInit, LifecycleStep, AdminInit, AdminStep, PTL
     DEF Spec, ImplementsFleetLifecycle, Lifecycle!Spec

=============================================================================
