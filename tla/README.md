# TLA+ models of the EVerest manager

This directory holds TLA+ models of the concurrent parts of the EVerest
framework sources under `src/`. Each model comes with TLC configurations that
check it on small instances and TLAPS proofs for every value of the constants.
`PROJECT.json` lists the components, the runs, the mutants that show each
property can fail, the map from every definition to the source lines it
models, the findings and the hazards.

## The system and how its parts interact

The manager (`src/src/manager.cpp`) boots the framework as follows:

1. It loads the config. This model takes the config's results as constants.
2. It starts the broker ingress.
3. It runs **start_modules**. For each key of `active_modules`, this emplaces a
   `false` entry in `modules_ready`, subscribes a ready handler to
   `<prefix>modules/<id>/ready`, and queues every non-standalone module.
4. **spawn_modules** forks the queued modules through **SubProcess**
   (`src/src/system_unix.cpp`), using a pipe with `O_CLOEXEC`, `PR_SET_PDEATHSIG`
   and a `getppid` re-check.
5. Boot waits in a **waitpid loop**. The first child to exit makes
   **shutdown_modules** clear `modules_ready` and send SIGTERM to the rest.

Each ready topic has its own **MessageHandler** thread, so ready handlers run
concurrently with the manager thread and with each other. When every flag in
`modules_ready` is set, a handler publishes the global ready.

**set_real_user** and **get_passwd_entry** drop the manager's own privileges
after start_modules. **set_caps** turns a module's capability names into
inheritable and ambient capabilities.

When the manager is built with ENABLE_ADMIN_PANEL, boot first forks the
**controller** (start_controller) and then runs a different main loop. Each
iteration reaps one child with `waitpid(WNOHANG)`, relaunches the fleet when a
requested restart has drained `module_handles`, and handles one message from
the controller: `restart_modules` signals the fleet and reloads the config,
`check_config` answers, anything else is logged. A module's exit while the
fleet is started, the controller's exit and an IPC error end the loop.

The error bus is implemented by **ErrorManagerReqGlobal**
(`src/lib/error/error_manager_req_global.cpp`). It receives raise and clear
messages on two topics, and therefore on two handler threads. It keeps them
in the error database and fans them out to subscribers.

## Modules

| module | models | state | actions |
|---|---|---|---|
| `ReadyBarrier` | start_modules, spawn_modules, the ready handler, the waitpid loop, shutdown_modules' clearing of the map | `pc`, loop index `i`, `modules_ready` (a function whose domain grows by emplace), `subscribed`, `modules_to_spawn`, `children`, `zombies`, per-topic queue length `pending`, `inflight`, `sent`, `published`, `waiting` | RegisterModule (one loop iteration, including binary lookup failure), EndRegister, SpawnModule (fork and check), EndSpawn (with no child to wait for it also takes waitpid's ECHILD failure: only the manager thread's set_real_user lies between, and nothing a handler thread reads changes, so the two are one step), Reap, Exit; and, per module, ChildExit, SendReady, Dequeue (the handler thread takes a message), HandleReady (the body under `modules_ready_mutex`) |
| `ReadyBarrierProofs` | proofs about `ReadyBarrier` | | |
| `ReadyBarrierWaitProofs` | proofs about `ReadyBarrier` with standalone modules | | |
| `Supervisor` | spawn_modules with SubProcess::create and check_child_executed, shutdown_modules' signals, the children up to exec and after | manager `ppc`, position `k`, child state `cst`, pipe message `msg`, `started`, `term` (SIGTERM sent), `pdeath` (PDEATHSIG armed while the parent lived) | Fork, CheckChildExecuted, Reap, ExitOnFailure, ManagerCrash; and, per child, ChildPrctl, ChildCheckParent, ChildExec, ModuleExit, Terminate. A SIGTERM is pending (`Pending`) once shutdown_modules sent it or the manager died with PDEATHSIG armed; before the exec the child has the default disposition, so it takes no further step and Terminate kills it; after the exec only a module in `IgnoresTerm` survives it. |
| `StartupBarrier` | what the barrier promises (spec 4.7), with no threads or maps | `reported`, `opened`, `abandoned` | Report, Open, Abandon |
| `AdminLoop` | the ENABLE_ADMIN_PANEL boot: start_controller, start_modules, the admin while loop (waitpid WNOHANG, relaunch check, receive_message), shutdown_modules' SIGTERM | loop position `lpc`, controller state `ctrl`, `module_handles` as `handles`, processes `run` and unreaped `zomb` (a process is a module and a fleet generation), `term`, `modules_started`, `restart_modules`, `gen`, request count `reqs` | StartController, StartModules, WaitpidNone, WaitpidController, WaitpidModule, RestartCheck, Ipc (restart_modules, check_config, unknown, timeout, error); ModuleExit, Terminate, ControllerExit |
| `AdminLoopProofs` | proofs about `AdminLoop` | | |
| `FleetLifecycle` | what the admin loop promises about its module processes (spec 4.8), with no pids, maps or signals | `alive` (processes not yet reaped), `launches`, `stopped` | Launch (only into an empty fleet, with that launch's number; may end the manager), Reap, Stop |
| `Sandbox` | set_real_user with get_passwd_entry; set_caps | credentials `uid`, `gid`, `groups` and the capability sets | SetRealUser and SetCaps. Each is one action in which any system call may fail and the function returns at the first failure. |
| `ErrorBus` | on_error_raised and on_error_cleared | the producer's view `active`, queue lengths `rq` and `cq`, each handler's position `rpc` and `cpc`, the database count `db`, the subscriber's sequence `seen` | ProducerRaise and ProducerClear (modelled from the spec). The raise handler is split at each database call: RaiseBegin (get_errors), RaiseAdd, RaiseRecheck, RaiseNotify. So is the clear handler: ClearBegin, ClearRemove, ClearNotify. |
| `MC_*` | the instances | model values for modules, children, capability names and error identities | |

Each handler is split into steps at the points where another thread can run:
- between database calls, each of which takes the database mutex;
- between the fanout and the lock;
- between a fork and the child's prctl.

A guard or an early return of the code is a conjunct or a disjunct of its step.

Data is abstracted:
- A module or an error identity is a model value.
- A message queue is a count, because the handlers are FIFO per topic and the
  payloads are all alike.
- The error database is a count of matching entries.
- Credentials are `root` or `target`.

## Runs

| run | checks | shows |
|---|---|---|
| barrier_managed | TypeOK, GlobalReadyOnlyAfterAllReady, GlobalReadyOnce, BarrierInv, AllReadyLeadsToGlobalReady, ImplementsStartupBarrier | Without standalone modules the barrier is correct. The strengthened invariant of the proof also holds. The barrier implements StartupBarrier, fairness included. |
| barrier_standalone | GlobalReadyOnlyAfterAllReady, StandaloneWaitAnnounced, AllReadyLeadsToGlobalReady, ImplementsStartupBarrier | A standalone module visited last is waited for, and the waiting status is written. The refinement holds here too. |
| barrier_standalone_first | GlobalReadyOnlyAfterAllReady (violation) | A standalone module visited first can open the barrier while later entries are still missing from the map. |
| barrier_shutdown_race | NoHandlerFault (violation) | This is the race the code's own FIXME names: `at()` throws on the handler thread after shutdown_modules has cleared the map. |
| barrier_standalone_restart | GlobalReadyOnce (violation) | The standalone module may be restarted once (`MaxReady = 2`). Its second ready finds every flag set, and the handler publishes the global ready again. |
| barrier_all_standalone | AllReadyLeadsToGlobalReady (violation) | With no child, waitpid fails with ECHILD and the manager exits before the barrier opens. Only configurations without a forked child reach that failure, and with two or more registered modules each of them publishes over a partial map, so this run is the one that takes EndSpawn's ECHILD branch. |
| supervisor | RecordedOnlyIfExecuted, ChildrenDieWithManager | The pipe handshake records only children that exec'd. Every child dies once the manager is gone, including when the manager dies between fork and prctl. |
| supervisor_sigterm_ignored | ChildrenDieWithManager (violation) | There is no SIGKILL escalation, so a module that handles SIGTERM and has exec'd survives the manager's death. A child still before its exec runs the manager's image, which installs no handler, and dies. |
| sandbox_user | PrivilegesDroppedTogether | Whatever fails, a process with the target uid also has the target gid and groups. |
| errorbus | TypeOK, ActiveAtMostOnce, DedupInv | An identity is in the database at most once, although raise and clear are handled on two threads. |
| admin_loop | AdminInv, KnownChildren, OneFleet, RestartCompletes, ModuleDeathStopsManager, SignalsOnlyUnreaped, ImplementsFleetLifecycle | In the admin-panel loop every reaped process is known, two fleets never overlap, a requested restart ends with a started fleet (or the manager's end) when modules exit on SIGTERM, and a started module's death ends the manager unless a restart absorbs it. SIGTERM goes only to unreaped processes, and the loop implements FleetLifecycle (whose Launch requires the old fleet to be gone). |
| errorbus_order | SubscriberSeesAlternation (violation) | A subscriber can see a clear before its raise. |

Each property of a passing run has a mutant in `PROJECT.json`, and TLC finds
that mutant's violation. A mutant is a variant of a mapped definition, such as
a dropped guard, a changed order, a fork inside the loop or a missing early
return.

The refinement mapping of ImplementsStartupBarrier: `reported` is the set of
modules that have sent a ready, `opened` is `published > 0`, and `abandoned`
holds once a child failed to start, a child was reaped, waitpid failed or the
map was cleared. The participants are the modules that are neither ignored nor
standalone.

The refinement mapping of ImplementsFleetLifecycle: `alive` is `run \cup zomb`,
`launches` is `gen`, plus one once start_modules has been entered (boot
returning before it counts as an empty launch), and `stopped` is
`lpc = "exited"`. WaitpidModule is a Reap; the first start_modules and every
relaunch are a Launch; the controller's death, an IPC error or a failed config
reload is a Stop; module exits, SIGTERM delivery, a waitpid that finds
nothing and the IPC messages that keep the loop going are stutters.

The `resize`/`emplace_back` bug of set_caps (also granting CAP_CHOWN) is no
longer a TLC run: the theorem SetCapsAddsChown states it for every input.

## Bounds

- **ReadyBarrier** uses three module ids. The roles vary by run: two managed
  and one ignored; two managed and one standalone; a standalone module first;
  all standalone. Each module sends one ready signal (`MaxReady = 1`).
  - Three ids are enough to put a handler run between two emplaces.
  - They let an ignored module sit between managed ones.
  - They let one child exit while another's message is in flight.
  - With `MaxReady = 2` a standalone module may signal a second time, as it
    does when it is restarted by hand. barrier_standalone_restart shows the
    handler then publishes the global ready again. The passing runs keep
    `MaxReady = 1`.
- **Supervisor** uses three children. Every child can be at a different stage
  when the manager dies or a child is reaped.
- **Sandbox** uses capability lists of length up to 2, over a known name, a
  name whose value is 0, and an unknown name. The group counts are 1, 50 and
  51, around the 50-entry array.
- **AdminLoop** uses three modules and up to three restart requests
  (`MaxRestarts = 3`). Three requests let a restart be requested while an
  earlier one is still draining, and a relaunch fail after one succeeded.
  With `IgnoresTerm = {}` every module exits on SIGTERM; with one module in
  `IgnoresTerm` TLC finds RestartCompletes violated, for the root cause of
  supervisor_sigterm_ignored, so it is not a separate run.
- **ErrorBus** uses one or two identities, one of them of an unknown type. Each
  identity gets two raise/clear cycles, enough for a second raise to meet an
  unhandled first clear.
  - ErrorBus also defines QuietAgreement: once every message is handled, the
    database holds exactly the identities the producer has raised and not
    cleared.
  - TLC finds QuietAgreement violated when a clear is handled before its raise,
    with one identity and `MaxCycles = 2`. This has the same root cause as
    errorbus_order, so it is not a separate run.

## Fairness

The fairness assumptions are:
- **Weak fairness on what the OS schedules:** the manager thread's steps, each
  handler thread, the delivery of a pending signal, and the waitpid return.
- **No fairness on what a module or a producer decides to do:** sending ready,
  exiting, raising or clearing.

In AdminLoop the manager loop (`Manager`) and each pending SIGTERM delivery
are weakly fair; a module's own exit and the controller's exit and messages
are not. admin_loop does not check deadlock: the manager really stops once it
has returned from boot.

The code creates a thread per subscription, and the OS runs a runnable
thread. Nothing forces a module to signal.

## What is proved

`ReadyBarrierProofs` proves these theorems with TLAPS, for every `Order`,
`Ignored`, `Standalone` and `MaxReady` that satisfy the module's named
assumptions:

- **TypeCorrect**: `Spec => []TypeOK`. Its lemmas are TypeInit and TypeStep,
  with one step per action; helper lemmas cover Emplace and EmptyMap.
- **BarrierSafety**: when `Standalone = {}`, `Spec => []GlobalReadyOnlyAfterAllReady`.
  - The invariant is not inductive as it stands. A state can have every flag set
    but a module missing from the map.
  - The proof therefore goes through **BarrierInv**, which adds three facts:
    - A ready flag, or a queued or in-flight message, stands for a signal sent.
    - While the registration loop runs, no child exists and nothing was sent.
    - The map's domain is exactly the non-ignored prefix of the order visited
      so far. After the loop it is every registered module, and after shutdown
      it is empty.
  - Lemma PrefixStep extends the prefix set by one element.
  - TLC checks BarrierInv in barrier_managed, and **BarrierInvariant**
    proves `Spec => []BarrierInv` itself.
  - With a standalone module first in the config order the theorem is false;
    barrier_standalone_first is the counterexample. StandaloneBarrierSafety
    (below) covers every other order.
- **ReadyPublishedOnce**: when `Standalone = {}`, `Spec => []GlobalReadyOnce`.
  Without standalone modules every module is a forked child that signals
  once, so the theorem does not cover a second ready; the republish by a
  restarted standalone module is barrier_standalone_restart.
  - The inductive invariant is **ReadyOnceInv**. It adds to BarrierInv:
    - the ready messages of a module not yet consumed (queued, held by the
      handler thread, or its flag set), `Held(m)`, never exceed what it sent,
      and it sends at most once;
    - a module outside the registered set sends nothing;
    - after the publish no ready message is queued or in flight.
  - The last fact is what rules out a second publish: the handler publishes
    only when it consumes a ready, and none is left.
  - `Count(b)` turns a condition into 0 or 1. Lemmas CountFacts and CountMono
    state what the provers need of it; numeric and Boolean facts are kept in
    separate steps because SMT does not combine them well.

`ErrorBusProofs` proves two theorems, for every set of identities, every set
of known types and every `MaxCycles >= 1`:

- **NoDuplicateActive**: `Spec => []ActiveAtMostOnce`.
  - The proof goes through **DedupInv**. It adds one fact: while the raise
    thread is between its `get_errors` check and `add_error`, the identity has
    no entry.
  - The clear thread only ever sets the count to 0, so it cannot break the
    fact.
  - DedupStep has one step per handler step.
- **ErrorBusTypeCorrect**: `Spec => []TypeOK`. It follows from the same
  invariant.
- **DedupInvariant**: `Spec => []DedupInv`, the invariant the errorbus run
  checks.

`SupervisorProofs` proves two theorems, for every non-empty spawn list without
repetitions, every `IgnoresTerm` and either value of `PDeathSig`:

- **RecordedChildrenExecuted**: `Spec => []RecordedOnlyIfExecuted`.
  - The proof goes through **SupervisorInv**. It adds two facts: the manager
    reads only while `k` is in range, and the recorded children come from
    earlier iterations.
  - From these, the child being forked is never one already recorded. A
    recorded child has left the states in which it could still write to its
    pipe.
- **SupervisorTypeCorrect**: `Spec => []TypeOK`.

`SandboxProofs` proves two results, for every capability table, list bound and
group count:

- **PrivilegesDropped**: `Spec => []PrivilegesDroppedTogether`.
  - The property, together with TypeOK, is inductive.
  - The proof picks the failing call of set_real_user.
- **SetCapsAddsChown**: every non-empty capability list yields a vector
  containing CAP_CHOWN.
  - This states the sandbox_caps finding for every input, not only the checked
    one.
  - It rests on ConcatProperties from SequenceTheorems.

`ReadyBarrierProofs` also proves **BarrierRefinement**: when
`Standalone = {}`, `Spec => Barrier!Spec`, the safety part of
ImplementsStartupBarrier. RefinementInit maps the initial state; RefinementStep
maps every step to Report (a first ready), Open (the first global ready),
Abandon or a stutter. It needs only three facts, so that both refinement
theorems use it: TypeOK, an empty map after shutdown, and
GlobalReadyOnlyAfterAllReady in the next state (Open requires every
participant reported).

`ReadyBarrierWaitProofs` proves three theorems about configurations with
standalone modules. Each carries one hypothesis on the configuration. Without
it the statement is false, so the hypothesis names the configurations the
code gets right; it is not an assumption about how the code behaves.

- **StandaloneWaitIsAnnounced**: if every `--standalone` id names a
  registered module (`Standalone \subseteq Registered`), then
  `Spec => []StandaloneWaitAnnounced`.
  - The handler compares the number of set flags with
    `modules_ready.size() - standalone_modules.size()`. Lemma ManagedCount
    shows that this difference is the number of forked modules. It uses
    FS_Difference from FiniteSetTheorems, and ConfigFinite (FS_Surjection
    over `Order`).
  - The inductive invariant is **WaitInv**. It adds three facts:
    - a flag, a queued message or an in-flight message stands for a signal
      sent;
    - while the registration loop runs there is no child;
    - while the loop runs, only standalone modules have signalled.
  - With those facts, the flags of the forked modules can all be set only
    once the map is complete. The handler that sets the last of them sees
    the count equal to the target (lemma LastManagedReady).
  - Without the hypothesis the property is false. A `--standalone` id that
    is missing from the config, ignored or repeated makes the target
    unreachable, and the status is never written. TLC finds this with
    `Order <- MCOrder2`, `Standalone = {m2, m3}`.
- **StandaloneBarrierSafety**: if every registered standalone module comes
  after a forked module in the config order (`ManagedFirst`), then
  `Spec => []GlobalReadyOnlyAfterAllReady`.
  - The inductive invariant is **EarlyReadyInv**. It is BarrierInv, except
    that standalone modules may signal during the registration loop.
  - Lemma PartialMapNotReady shows why that is harmless. A message the
    handler takes during the loop is from a standalone module. The forked
    module ahead of it is already in the partial map with its flag unset,
    so all_of fails.
  - barrier_standalone_first shows that the hypothesis cannot be dropped.
- **StandaloneBarrierRefinement**: if `ManagedFirst` holds, then
  `Spec => Barrier!Spec`. The proof is RefinementStep with EarlyReadyInv.
  A restarted standalone module's later readies map to stutters.

`AdminLoopProofs` proves these theorems, for every set of modules, every
`IgnoresTerm` and every `MaxRestarts`:

- **ChildrenAlwaysKnown**: `Spec => []KnownChildren`; the "Unknown child"
  throw is never reached.
- **FleetsDoNotOverlap**: `Spec => []OneFleet`.
- Both go through **AdminInv**: every process alive or unreaped belongs to the
  current generation; a generation is never ahead of the requests, and is
  behind them while a restart is pending in the loop; before the first
  start_modules nothing exists. Lemma LaunchKeeps states what start_modules
  does on a drained manager, whether it returns or throws.
  **AdminInvariant** states `Spec => []AdminInv`.
- **SignalsReachOnlyUnreaped**: `Spec => SignalsOnlyUnreaped`, an action
  property: a step adds to `term` only processes still alive or unreaped.
  It rests on **HandlesAlive** (`handles \subseteq run \cup zomb`), which is
  inductive on its own: the waitpid loop erases a pid before it passes the map
  to shutdown_modules, and start_modules records only what it forked.
- **FleetRefinement**: `Spec => ImplementsFleetLifecycle`, the whole
  refinement, proved step by step. LifecycleInit maps the initial state.
  LifecycleStep shows, given AdminInv, that each action is a Launch, Reap,
  Stop or stutter of FleetLifecycle: the Launch guard "no process left"
  comes from AdminInv (nothing exists before start_modules; KnownChildren
  with an empty map at a relaunch), and its bound from `gen < reqs <=
  MaxRestarts`. Lemma LaunchesValue gives the launch count on either side of
  a step; lemma PlusZero works around the SMT encoding losing a primed
  variable in `x' + 0`.

TLC checks BarrierInv, GlobalReadyOnce, DedupInv and AdminInv
on their runs. The strengthenings that are not run properties were checked by
TLC as invariants before they were proved:
- ReadyOnceInv and HandlesAlive on the barrier_managed and admin_loop
  instances;
- WaitInv and EarlyReadyInv on the barrier_standalone instance;
- EarlyReadyInv also with an ignored module and `MaxReady = 2`, and with two
  standalone modules.

## What stays with TLC

- Liveness: AllReadyLeadsToGlobalReady, ChildrenDieWithManager,
  RestartCompletes, ModuleDeathStopsManager and the fairness
  part of ImplementsStartupBarrier. They depend on fairness and ENABLED, which the prover does not
  handle.
- StandaloneWaitAnnounced and GlobalReadyOnlyAfterAllReady outside the
  hypotheses of their theorems. They are false there, as described above.
- GlobalReadyOnce with standalone modules. It is not a theorem because it is
  not true in general: a restarted standalone module's second ready
  publishes the global ready again (barrier_standalone_restart), so it is
  proved only where every module is managed.

## What is not modelled, and source disagreements

- **Not modelled:**
  - Config loading and validation (`config.hpp` only declares it).
  - The framework API and RPC (`everest.hpp` only declares it).
  - MessageQueue internals. Only their per-topic FIFO behaviour enters the
    models.
  - The controller's side of the admin IPC and controller_ipc, which are not
    under `src/`; the controller is a process whose messages are a
    nondeterministic choice.
  - In the admin build `waitpid` never returns -1 while the controller lives,
    so that branch of the admin loop is left out.
  - The status FIFO contents.
  - Logging and command-line handling.
- **Error subscription:** `subscribe_global_all_errors` is not an action. One
  subscriber exists from the start. The unlocked `push_back` racing a fanout is
  listed as a hazard.
- **SubProcess::create signature:** `manager.cpp:216` calls
  `SubProcess::create(run_as_user, capabilities)`, but `system_unix.cpp` defines
  `create(bool set_pdeathsig)` with the user and capability switch commented
  out.
  - Supervisor therefore makes PDEATHSIG a constant.
  - Sandbox checks set_caps as written, although no code under `src/` calls it.
  - The children run with the manager's credentials, while the spec has them
    drop user and capabilities.
