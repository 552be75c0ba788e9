---------------------------- MODULE ReadyBarrier ----------------------------
(***************************************************************************)
(* The startup barrier of the EVerest manager (src/src/manager.cpp).       *)
(*                                                                         *)
(* The manager thread runs start_modules: for every key of the config's    *)
(* active_modules it emplaces an entry in the global modules_ready map,    *)
(* registers a handler on the module's ready topic and, unless the module  *)
(* is standalone, looks up its binary and queues it in modules_to_spawn.   *)
(* spawn_modules then forks the queued modules in order, and boot enters   *)
(* the waitpid loop, which tears the fleet down (shutdown_modules) as soon *)
(* as one child exits.                                                     *)
(*                                                                         *)
(* Every ready topic has its own MessageHandler thread (the broker's       *)
(* ingress was already started by spawn_main_loop_thread before            *)
(* start_modules), so ready handlers run concurrently with the manager     *)
(* thread.  A handler takes its message (Dequeue) and then runs its body   *)
(* under modules_ready_mutex (HandleReady).                                *)
(*                                                                         *)
(* The lookup of the binary and the exec of the child depend on the file  *)
(* system; both are nondeterministic choices here.  The build without      *)
(* ENABLE_ADMIN_PANEL is modelled: modules_started is always TRUE.         *)
(***************************************************************************)
EXTENDS Naturals, Sequences, FiniteSets

CONSTANTS
    Module,      \* the module ids that can be named (config keys, --standalone, --ignore)
    Order,       \* the keys of active_modules in the order main_config.items() visits them
    Ignored,     \* the ids given with --ignore
    Standalone,  \* standalone_modules: --standalone ids plus those marked standalone in config
    MaxReady     \* ready signals one standalone module may publish (it can be restarted)

ASSUME OrderAssumption ==
    /\ Order \in Seq(Module)
    /\ \A j, k \in 1..Len(Order) : Order[j] = Order[k] => j = k

ASSUME SetsAssumption ==
    /\ Ignored \subseteq Module
    /\ Standalone \subseteq Module

ASSUME MaxReadyAssumption == MaxReady \in Nat \ {0}

\* The modules of the config.
ConfigModules == {Order[j] : j \in 1..Len(Order)}

\* The keys modules_ready has once the registration loop is done.
Registered == ConfigModules \ Ignored

\* The modules the manager forks itself.
Managed == Registered \ Standalone

\* States in which the manager process still exists.
Live == {"register", "spawn", "running", "shutdown"}

VARIABLES
    pc,               \* where the manager thread is, or how the process ended
    i,                \* position of the registration loop in Order
    modules_ready,    \* the map module id -> ModuleReadyInfo.ready
    subscribed,       \* modules whose ready topic has the ready handler registered
    modules_to_spawn, \* the vector of ModuleStartInfo built by the loop
    children,         \* forked children that are running
    zombies,          \* children that exited and were not reaped yet
    pending,          \* ready messages queued for each ready topic's handler thread
    inflight,         \* the handler thread holds a message and waits for the mutex
    sent,             \* ready signals each module has published
    published,        \* publishes of the global <prefix>ready
    waiting           \* WAITING_FOR_STANDALONE_MODULES updates of the status fifo

vars == <<pc, i, modules_ready, subscribed, modules_to_spawn, children, zombies,
          pending, inflight, sent, published, waiting>>

-----------------------------------------------------------------------------
(* Helpers for the std::map modules_ready.                                 *)

\* modules_ready.emplace(m, {false, nullptr}): inserts only a missing key.
Emplace(f, m) == [x \in DOMAIN f \cup {m} |-> IF x \in DOMAIN f THEN f[x] ELSE FALSE]

\* The empty map (modules_ready.clear()).
EmptyMap == [x \in {} |-> FALSE]

\* std::all_of(modules_ready, ready).
AllReady(f) == \A x \in DOMAIN f : f[x]

\* modules_spawned: the number of entries whose ready flag is set.
ReadyCount(f) == Cardinality({x \in DOMAIN f : f[x]})

\* A variant that loses the handler's assignment of the ready flag.
ReadyAfterDropped(f, m) == f

\* modules_ready.at(module_name).ready = json.get<bool>() for the payload true.
ReadyAfter(f, m) == [f EXCEPT ![m] = TRUE]

\* A variant that forgets to discount the standalone modules.
WaitTargetAll(f) == Cardinality(DOMAIN f)

\* modules_ready.size() - standalone_modules.size().
WaitTarget(f) == Cardinality(DOMAIN f) - Cardinality(Standalone)

-----------------------------------------------------------------------------
Init ==
    /\ pc = "register"
    /\ i = 1
    /\ modules_ready = EmptyMap
    /\ subscribed = {}
    /\ modules_to_spawn = << >>
    /\ children = {}
    /\ zombies = {}
    /\ pending = [m \in Module |-> 0]
    /\ inflight = [m \in Module |-> FALSE]
    /\ sent = [m \in Module |-> 0]
    /\ published = 0
    /\ waiting = 0

\* A variant that forks the module inside the registration loop.
ForkAtOnce(m) ==
    /\ children' = children \cup {m}
    /\ UNCHANGED modules_to_spawn

\* modules_to_spawn.emplace_back(...): the module is forked after the loop.
QueueForSpawn(m) ==
    /\ modules_to_spawn' = Append(modules_to_spawn, m)
    /\ UNCHANGED children

(* One iteration of the loop of start_modules over main_config.items().    *)
(* An ignored module is skipped.  Otherwise its entry is emplaced, the     *)
(* ready handler is registered, and a standalone module is done with.  For *)
(* any other module the binary, index.js or module.py is looked up: if     *)
(* none exists a runtime_error leaves boot, otherwise the module is queued. *)
RegisterModule ==
    /\ pc = "register"
    /\ i \in 1..Len(Order)
    /\ LET m == Order[i] IN
       \/ /\ m \in Ignored
          /\ i' = i + 1
          /\ UNCHANGED <<pc, modules_ready, subscribed, modules_to_spawn, children>>
       \/ /\ m \notin Ignored
          /\ modules_ready' = Emplace(modules_ready, m)
          /\ subscribed' = subscribed \cup {m}
          /\ \/ /\ m \in Standalone
                /\ i' = i + 1
                /\ UNCHANGED <<pc, modules_to_spawn, children>>
             \/ /\ m \notin Standalone
                /\ i' = i + 1
                /\ QueueForSpawn(m)
                /\ UNCHANGED pc
             \/ /\ m \notin Standalone
                /\ pc' = "failed"
                /\ UNCHANGED <<i, modules_to_spawn, children>>
    /\ UNCHANGED <<zombies, pending, inflight, sent, published, waiting>>

\* The loop is done: start_modules calls spawn_modules.
EndRegister ==
    /\ pc = "register"
    /\ i = Len(Order) + 1
    /\ pc' = "spawn"
    /\ UNCHANGED <<i, modules_ready, subscribed, modules_to_spawn, children, zombies,
                   pending, inflight, sent, published, waiting>>

(* One iteration of spawn_modules: fork, and check_child_executed reads    *)
(* the pipe.  A message on the pipe (the exec failed) is a runtime_error   *)
(* that leaves boot; the children forked so far are not killed.            *)
SpawnModule ==
    /\ pc = "spawn"
    /\ modules_to_spawn # << >>
    /\ \/ /\ children' = children \cup {Head(modules_to_spawn)}
          /\ modules_to_spawn' = Tail(modules_to_spawn)
          /\ UNCHANGED pc
       \/ /\ pc' = "failed"
          /\ UNCHANGED <<children, modules_to_spawn>>
    /\ UNCHANGED <<i, modules_ready, subscribed, zombies, pending, inflight, sent,
                   published, waiting>>

(* Where boot's main loop stands once spawn_modules has returned: with no  *)
(* child to wait for, the blocking waitpid(-1) returns -1 (ECHILD) and     *)
(* boot throws; otherwise it waits.  The only step in between is the       *)
(* manager thread's set_real_user, which touches nothing the handler       *)
(* threads read, so the failing waitpid is taken with the return.          *)
AfterSpawn == IF children = {} /\ zombies = {} THEN "waitpid_error" ELSE "running"

\* spawn_modules returns and boot enters its main loop.
EndSpawn ==
    /\ pc = "spawn"
    /\ modules_to_spawn = << >>
    /\ pc' = AfterSpawn
    /\ UNCHANGED <<i, modules_ready, subscribed, modules_to_spawn, children, zombies,
                   pending, inflight, sent, published, waiting>>

(* waitpid(-1, ..., 0) returns the pid of an exited child.  Since          *)
(* modules_started is set, shutdown_modules runs: under modules_ready_mutex *)
(* it unregisters every ready handler and clears modules_ready, then it    *)
(* sends SIGTERM to every other child; boot then returns EXIT_FAILURE.     *)
Reap(m) ==
    /\ pc = "running"
    /\ m \in zombies
    /\ zombies' = zombies \ {m}
    /\ subscribed' = {}
    /\ modules_ready' = EmptyMap
    /\ children' = {}
    /\ pc' = "shutdown"
    /\ UNCHANGED <<i, modules_to_spawn, pending, inflight, sent, published, waiting>>

\* boot returns EXIT_FAILURE after shutdown_modules and the process ends.
Exit ==
    /\ pc = "shutdown"
    /\ pc' = "exited"
    /\ UNCHANGED <<i, modules_ready, subscribed, modules_to_spawn, children, zombies,
                   pending, inflight, sent, published, waiting>>

-----------------------------------------------------------------------------
(* The modules and the handler threads.                                    *)

\* A forked child terminates (crash, exit or signal).
ChildExit(m) ==
    /\ pc \in Live
    /\ m \in children
    /\ children' = children \ {m}
    /\ zombies' = zombies \cup {m}
    /\ UNCHANGED <<pc, i, modules_ready, subscribed, modules_to_spawn, pending, inflight,
                   sent, published, waiting>>

(* A module publishes true on <prefix>modules/<id>/ready, and the broker   *)
(* queues it for the topic's handler.  A forked child signals once; a      *)
(* standalone module, started by the operator once the manager listens,    *)
(* signals again each time it is restarted.                                *)
SendReady(m) ==
    /\ pc \in Live
    /\ m \in subscribed
    /\ \/ m \in children /\ sent[m] = 0
       \/ m \in Standalone /\ sent[m] < MaxReady
    /\ sent' = [sent EXCEPT ![m] = @ + 1]
    /\ pending' = [pending EXCEPT ![m] = @ + 1]
    /\ UNCHANGED <<pc, i, modules_ready, subscribed, modules_to_spawn, children, zombies,
                   inflight, published, waiting>>

\* A variant that takes a message from an empty queue.
DequeueUnguarded(m) ==
    /\ pc \in Live
    /\ m \in subscribed
    /\ ~inflight[m]
    /\ inflight' = [inflight EXCEPT ![m] = TRUE]
    /\ pending' = [pending EXCEPT ![m] = @ - 1]
    /\ UNCHANGED <<pc, i, modules_ready, subscribed, modules_to_spawn, children, zombies,
                   sent, published, waiting>>

\* A variant that hands the message to the handler but leaves it in the queue.
DequeueKeep(m) ==
    /\ pc \in Live
    /\ m \in subscribed
    /\ pending[m] > 0
    /\ ~inflight[m]
    /\ inflight' = [inflight EXCEPT ![m] = TRUE]
    /\ UNCHANGED <<pc, i, modules_ready, subscribed, modules_to_spawn, children, zombies,
                   pending, sent, published, waiting>>

\* The topic's handler thread takes the next message for its registered handler.
Dequeue(m) ==
    /\ pc \in Live
    /\ m \in subscribed
    /\ pending[m] > 0
    /\ ~inflight[m]
    /\ inflight' = [inflight EXCEPT ![m] = TRUE]
    /\ pending' = [pending EXCEPT ![m] = @ - 1]
    /\ UNCHANGED <<pc, i, modules_ready, subscribed, modules_to_spawn, children, zombies,
                   sent, published, waiting>>

(* module_ready_handler, under modules_ready_mutex.  modules_ready.at()    *)
(* throws std::out_of_range if the entry is gone (the map was cleared by   *)
(* shutdown_modules); nothing catches it in the handler thread, so the     *)
(* manager terminates.  Otherwise the flag is set; if all flags are set    *)
(* ALL_MODULES_STARTED is written and the global ready published, else,    *)
(* with standalone modules, WAITING_FOR_STANDALONE_MODULES is written when *)
(* the number of set flags equals modules_ready.size() minus               *)
(* standalone_modules.size() (size_t: a negative difference wraps to a     *)
(* value no count reaches, as a negative Int does here).                   *)
HandleReady(m) ==
    /\ pc \in Live
    /\ inflight[m]
    /\ inflight' = [inflight EXCEPT ![m] = FALSE]
    /\ \/ /\ m \notin DOMAIN modules_ready
          /\ pc' = "aborted"
          /\ UNCHANGED <<modules_ready, published, waiting>>
       \/ /\ m \in DOMAIN modules_ready
          /\ LET new == ReadyAfter(modules_ready, m) IN
             /\ modules_ready' = new
             /\ \/ /\ AllReady(new)
                   /\ published' = published + 1
                   /\ UNCHANGED waiting
                \/ /\ ~AllReady(new)
                   /\ Standalone # {}
                   /\ ReadyCount(new) = WaitTarget(new)
                   /\ waiting' = waiting + 1
                   /\ UNCHANGED published
                \/ /\ ~AllReady(new)
                   /\ ~(Standalone # {} /\
                        ReadyCount(new) = WaitTarget(new))
                   /\ UNCHANGED <<published, waiting>>
          /\ UNCHANGED pc
    /\ UNCHANGED <<i, subscribed, modules_to_spawn, children, zombies, pending, sent>>

-----------------------------------------------------------------------------
Manager ==
    \/ RegisterModule \/ EndRegister \/ SpawnModule \/ EndSpawn
    \/ \E m \in Module : Reap(m)
    \/ Exit

Next ==
    \/ Manager
    \/ \E m \in Module : ChildExit(m) \/ SendReady(m) \/ Dequeue(m) \/ HandleReady(m)

(* The manager thread and every handler thread are scheduled by the OS and *)
(* never stop while they can run.  The modules promise nothing: they may   *)
(* never signal and may exit at any time.                                  *)
Fairness ==
    /\ WF_vars(RegisterModule) /\ WF_vars(EndRegister)
    /\ WF_vars(SpawnModule) /\ WF_vars(EndSpawn)
    /\ WF_vars(Exit)
    /\ \A m \in Module : WF_vars(Reap(m)) /\ WF_vars(Dequeue(m)) /\ WF_vars(HandleReady(m))

Spec == Init /\ [][Next]_vars

FairSpec == Spec /\ Fairness

-----------------------------------------------------------------------------
(* Properties.                                                             *)

TypeOK ==
    /\ pc \in Live \cup {"failed", "exited", "aborted", "waitpid_error"}
    /\ i \in 1..Len(Order) + 1
    /\ DOMAIN modules_ready \subseteq ConfigModules
    /\ modules_ready \in [DOMAIN modules_ready -> BOOLEAN]
    /\ subscribed \subseteq ConfigModules
    /\ modules_to_spawn \in Seq(ConfigModules)
    /\ children \subseteq ConfigModules
    /\ zombies \subseteq ConfigModules
    /\ pending \in [Module -> Nat]
    /\ inflight \in [Module -> BOOLEAN]
    /\ sent \in [Module -> 0..MaxReady]
    /\ published \in Nat
    /\ waiting \in Nat

(* Spec 8: the global ready is published only after every non-ignored     *)
(* module has emitted ready at least once (the ready handler's all_of over *)
(* modules_ready, read while start_modules may still be adding entries).   *)
GlobalReadyOnlyAfterAllReady ==
    published > 0 => \A m \in Registered : sent[m] > 0

(* Spec 8: the global ready is published at most once.  Each queued ready  *)
(* is consumed by one handler thread, so all_of over modules_ready turns   *)
(* true on one message only, as long as every module signals once; a       *)
(* standalone module that is restarted and signals again breaks it.        *)
GlobalReadyOnce == published <= 1

(* Spec scenario 6: once every module the manager started is ready and no  *)
(* standalone one is, WAITING_FOR_STANDALONE_MODULES has been written (the *)
(* count modules_spawned == modules_ready.size() - standalone_modules.size()). *)
StandaloneWaitAnnounced ==
    ( /\ Managed # {}
      /\ Standalone \cap Registered # {}
      /\ DOMAIN modules_ready = Registered
      /\ \A m \in Managed : modules_ready[m]
      /\ \A s \in Standalone \cap Registered : ~modules_ready[s] )
    => waiting > 0

(* The FIXME in module_ready_handler: a ready message being handled while  *)
(* shutdown_modules clears modules_ready must not crash the manager.       *)
NoHandlerFault == pc # "aborted"

(* Without standalone modules, the inductive form of                      *)
(* GlobalReadyOnlyAfterAllReady: a ready flag or a queued ready message    *)
(* stands for a signal the module sent; no module signals before the       *)
(* registration loop is over (children are forked after it); while the     *)
(* loop runs the map holds the modules visited so far, after it every      *)
(* registered module, and after shutdown_modules nothing.                  *)
BarrierInv ==
    /\ TypeOK
    /\ \A x \in DOMAIN modules_ready : modules_ready[x] => sent[x] > 0
    /\ \A m \in Module : pending[m] > 0 \/ inflight[m] => sent[m] > 0
    /\ pc = "register" =>
          /\ children = {} /\ zombies = {}
          /\ \A m \in Module : sent[m] = 0
          /\ DOMAIN modules_ready = {Order[j] : j \in 1..i - 1} \ Ignored
    /\ pc \in {"spawn", "running"} => DOMAIN modules_ready = Registered
    /\ pc = "shutdown" => DOMAIN modules_ready = {}
    /\ GlobalReadyOnlyAfterAllReady

\* One for a condition that holds, none otherwise.
Count(b) == IF b THEN 1 ELSE 0

\* The ready flag of m is set in modules_ready.
Flag(m) == m \in DOMAIN modules_ready /\ modules_ready[m]

\* The ready messages of m not yet consumed: queued, held by the handler
\* thread, or recorded as a set flag in modules_ready.
Held(m) == pending[m] + Count(inflight[m]) + Count(Flag(m))

(* Without standalone modules, the inductive form of GlobalReadyOnce: a    *)
(* message is queued, held or recorded at most once per signal sent; only  *)
(* registered modules signal, each at most once; and once the global ready *)
(* is published no ready message is left to handle.                        *)
ReadyOnceInv ==
    /\ BarrierInv
    /\ subscribed \subseteq Registered
    /\ \A m \in Module : Held(m) <= sent[m] /\ sent[m] <= 1
    /\ \A m \in Module \ Registered : sent[m] = 0
    /\ published <= 1
    /\ published > 0 => \A m \in Module : pending[m] = 0 /\ ~inflight[m]

(* The inductive form of StandaloneWaitAnnounced: a set flag or a message  *)
(* queued or held stands for a signal sent, and while the registration     *)
(* loop runs no child exists and only standalone modules have signalled,  *)
(* so the flags of managed modules are set only once the map is complete. *)
WaitInv ==
    /\ TypeOK
    /\ \A x \in DOMAIN modules_ready : modules_ready[x] => sent[x] > 0
    /\ \A m \in Module : pending[m] > 0 \/ inflight[m] => sent[m] > 0
    /\ pc = "register" => children = {} /\ \A m \in Module \ Standalone : sent[m] = 0
    /\ StandaloneWaitAnnounced

(* A configuration in which the loop of start_modules meets a module it   *)
(* forks before any standalone one: every registered standalone id is     *)
(* preceded in main_config's order by a module that is neither ignored     *)
(* nor standalone.                                                         *)
ManagedFirst ==
    \A j \in 1..Len(Order) :
        Order[j] \in Standalone \ Ignored =>
            \E k \in 1..j - 1 : Order[k] \notin Ignored \cup Standalone

(* Under ManagedFirst, the inductive form of GlobalReadyOnlyAfterAllReady: *)
(* BarrierInv, except that standalone modules may signal while the loop    *)
(* still runs; a forked module is then already in the partial map with its *)
(* flag unset, so the handler's all_of fails over it.                      *)
EarlyReadyInv ==
    /\ TypeOK
    /\ \A x \in DOMAIN modules_ready : modules_ready[x] => sent[x] > 0
    /\ \A m \in Module : pending[m] > 0 \/ inflight[m] => sent[m] > 0
    /\ pc = "register" =>
          /\ children = {}
          /\ \A m \in Module \ Standalone : sent[m] = 0
          /\ DOMAIN modules_ready = {Order[j] : j \in 1..i - 1} \ Ignored
    /\ pc \in {"spawn", "running"} => DOMAIN modules_ready = Registered
    /\ pc = "shutdown" => DOMAIN modules_ready = {}
    /\ GlobalReadyOnlyAfterAllReady

-----------------------------------------------------------------------------
(* The barrier as spec 4.7 states it (StartupBarrier), seen through the    *)
(* detailed state: a module has reported once it has published a ready    *)
(* message, the barrier is open once the global ready was published, and  *)
(* start-up is abandoned once boot failed, a module exit began             *)
(* shutdown_modules, waitpid failed or a handler thread crashed.           *)
Abandoned == pc \in {"failed", "shutdown", "exited", "aborted", "waitpid_error"}

Barrier == INSTANCE StartupBarrier
    WITH Node <- Module,
         Participants <- Registered,
         reported <- {m \in Module : sent[m] > 0},
         opened <- published > 0,
         abandoned <- Abandoned

(* The detailed barrier implements the promise of spec 4.7: no global      *)
(* ready while a registered module has not reported, none after start-up   *)
(* was abandoned, and one whenever nobody is pending and start-up goes on  *)
(* (the handler threads, the broker and the manager thread are fair).      *)
ImplementsStartupBarrier == Barrier!FairSpec

(* Once every non-ignored module has signalled ready, the global ready is  *)
(* published, unless start-up failed or a module exited first.             *)
AllReadyLeadsToGlobalReady ==
    (\A m \in Registered : sent[m] > 0)
        ~> (published > 0 \/ pc \in {"failed", "shutdown", "exited", "aborted"})

=============================================================================
