----------------------------- MODULE Supervisor -----------------------------
(***************************************************************************)
(* The manager as the parent of its module processes: spawn_modules and    *)
(* shutdown_modules (src/src/manager.cpp) over SubProcess                  *)
(* (src/src/system_unix.cpp).                                              *)
(*                                                                         *)
(* For each queued module the manager creates a pipe (O_CLOEXEC), forks,   *)
(* closes its write end and blocks in read() (check_child_executed).  The  *)
(* child arms PR_SET_PDEATHSIG, kills itself if the parent is already gone *)
(* (getppid), and execs the module; if anything before the exec fails it   *)
(* writes a message into the pipe and _exits.  read() returns when the     *)
(* pipe has bytes or when every write end is closed: by the exec (CLOEXEC) *)
(* or by the child's exit.  Bytes mean the exec failed and boot throws.    *)
(*                                                                         *)
(* In the waitpid loop, the first reaped child makes the manager send      *)
(* SIGTERM to every other recorded child and exit.  The manager can also   *)
(* die at any moment (a signal, an uncaught exception).  Who the modules   *)
(* are after their exec is left open: they may exit at any time, and the   *)
(* ones in IgnoresTerm handle SIGTERM without terminating.                 *)
(***************************************************************************)
EXTENDS Naturals, Sequences, FiniteSets

CONSTANTS
    Children,     \* modules_to_spawn: the modules in the order they are forked
    IgnoresTerm,  \* modules whose program does not terminate on SIGTERM
    PDeathSig     \* the set_pdeathsig argument of SubProcess::create

\* The module processes.
Proc == {Children[j] : j \in 1..Len(Children)}

(* The spawn list is not empty: an empty one makes spawn_modules return at *)
(* once, which the ReadyBarrier model covers.                              *)
ASSUME ChildrenAssumption ==
    /\ Children \in Seq(Proc)
    /\ Len(Children) > 0
    /\ \A j, k \in 1..Len(Children) : Children[j] = Children[k] => j = k

ASSUME TermAssumption == IgnoresTerm \subseteq Proc /\ PDeathSig \in BOOLEAN

\* Child states: not forked, forked, PDEATHSIG armed, about to exec, running the module, gone.
ChildState == {"none", "forked", "armed", "pre_exec", "exec", "dead"}

VARIABLES
    ppc,      \* the manager: "spawn", "read", "running", "failed" or "gone"
    k,        \* position of spawn_modules in Children
    cst,      \* the state of each child process
    msg,      \* the child wrote its pre-exec error into its pipe
    started,  \* started_modules: the children spawn_modules recorded
    term,     \* SIGTERM was sent to the child by shutdown_modules
    pdeath    \* prctl ran while the parent lived: its death will signal the child

vars == <<ppc, k, cst, msg, started, term, pdeath>>

Init ==
    /\ ppc = "spawn"
    /\ k = 1
    /\ cst = [c \in Proc |-> "none"]
    /\ msg = [c \in Proc |-> FALSE]
    /\ started = {}
    /\ term = [c \in Proc |-> FALSE]
    /\ pdeath = [c \in Proc |-> FALSE]

\* The child of the current iteration of spawn_modules.
Current == Children[k]

\* The write ends of the child's pipe are all closed: it has exec'd or exited.
PipeClosed(c) == cst[c] \in {"exec", "dead"}

(* A SIGTERM is pending for the child: shutdown_modules sent it, or the    *)
(* kernel did when the parent died with PDEATHSIG armed.  Before the exec  *)
(* the child runs the manager's image, which installs no handler, so the   *)
(* signal is delivered with its default action at the child's next step.  *)
Pending(c) == term[c] \/ (pdeath[c] /\ ppc = "gone")

-----------------------------------------------------------------------------
(* The manager.                                                            *)

(* SubProcess::create in the parent: pipe2 and fork succeed and the write  *)
(* end is closed, or one of them fails and a runtime_error leaves boot.    *)
Fork ==
    /\ ppc = "spawn"
    /\ k \in 1..Len(Children)
    /\ \/ /\ cst' = [cst EXCEPT ![Current] = "forked"]
          /\ ppc' = "read"
       \/ /\ ppc' = "failed"
          /\ UNCHANGED cst
    /\ UNCHANGED <<k, msg, started, term, pdeath>>

\* A variant whose read() does not wait for the child (a non-blocking pipe).
CheckNoWait ==
    /\ ppc = "read"
    /\ \/ /\ msg[Current]
          /\ ppc' = "failed"
          /\ UNCHANGED <<k, started>>
       \/ /\ ~msg[Current]
          /\ started' = started \cup {Current}
          /\ k' = k + 1
          /\ ppc' = IF k = Len(Children) THEN "running" ELSE "spawn"
    /\ UNCHANGED <<cst, msg, term, pdeath>>

(* check_child_executed: read() blocks until the pipe has bytes or is      *)
(* closed.  Bytes: a runtime_error leaves boot.  End of file: the pid is   *)
(* recorded; after the last module spawn_modules returns to boot.          *)
CheckChildExecuted ==
    /\ ppc = "read"
    /\ msg[Current] \/ PipeClosed(Current)
    /\ \/ /\ msg[Current]
          /\ ppc' = "failed"
          /\ UNCHANGED <<k, started>>
       \/ /\ ~msg[Current]
          /\ started' = started \cup {Current}
          /\ k' = k + 1
          /\ ppc' = IF k = Len(Children) THEN "running" ELSE "spawn"
    /\ UNCHANGED <<cst, msg, term, pdeath>>

(* waitpid returns a recorded child that exited: shutdown_modules sends    *)
(* SIGTERM to every other one (SIGKILL only if kill() itself fails, which  *)
(* it does not for a child not yet reaped), then boot returns and the      *)
(* manager exits.                                                          *)
Reap(c) ==
    /\ ppc = "running"
    /\ c \in started
    /\ cst[c] = "dead"
    /\ term' = [x \in Proc |-> term[x] \/ x \in started \ {c}]
    /\ started' = started \ {c}
    /\ ppc' = "gone"
    /\ UNCHANGED <<k, cst, msg, pdeath>>

\* The exception thrown in boot reaches main, which returns EXIT_FAILURE.
ExitOnFailure ==
    /\ ppc = "failed"
    /\ ppc' = "gone"
    /\ UNCHANGED <<k, cst, msg, started, term, pdeath>>

\* The manager process dies at any point (a signal, std::terminate).
ManagerCrash ==
    /\ ppc \notin {"gone", "failed"}
    /\ ppc' = "gone"
    /\ UNCHANGED <<k, cst, msg, started, term, pdeath>>

-----------------------------------------------------------------------------
(* The children.                                                           *)

(* prctl(PR_SET_PDEATHSIG): if it fails, send_error_and_exit writes the    *)
(* error into the pipe and _exits.  Without set_pdeathsig nothing is done. *)
(* The signal is tied to the parent at the time of the call: if the        *)
(* manager is already gone the child was re-parented and is never sent it. *)
ChildPrctl(c) ==
    /\ cst[c] = "forked"
    /\ \/ /\ cst' = [cst EXCEPT ![c] = IF PDeathSig THEN "armed" ELSE "pre_exec"]
          /\ pdeath' = [pdeath EXCEPT ![c] = PDeathSig /\ ppc # "gone"]
          /\ UNCHANGED msg
       \/ /\ PDeathSig
          /\ cst' = [cst EXCEPT ![c] = "dead"]
          /\ msg' = [msg EXCEPT ![c] = TRUE]
          /\ UNCHANGED pdeath
    /\ UNCHANGED <<ppc, k, started, term>>

\* A variant that does not look whether the parent died before prctl.
ChildSkipParentCheck(c) ==
    /\ cst[c] = "armed"
    /\ cst' = [cst EXCEPT ![c] = "pre_exec"]
    /\ UNCHANGED <<ppc, k, msg, started, term, pdeath>>

\* getppid() != parent_pid: the parent died before prctl; the child kills itself.
ChildCheckParent(c) ==
    /\ cst[c] = "armed"
    /\ ~Pending(c)
    /\ cst' = [cst EXCEPT ![c] = IF ppc = "gone" THEN "dead" ELSE "pre_exec"]
    /\ UNCHANGED <<ppc, k, msg, started, term, pdeath>>

(* exec_module: execv/execvp replaces the image (the pipe closes on exec), *)
(* or it or a step before it fails and send_error_and_exit runs.           *)
ChildExec(c) ==
    /\ cst[c] = "pre_exec"
    /\ ~Pending(c)
    /\ \/ /\ cst' = [cst EXCEPT ![c] = "exec"]
          /\ UNCHANGED msg
       \/ /\ cst' = [cst EXCEPT ![c] = "dead"]
          /\ msg' = [msg EXCEPT ![c] = TRUE]
    /\ UNCHANGED <<ppc, k, started, term, pdeath>>

\* The module program ends by itself (exit or crash).
ModuleExit(c) ==
    /\ cst[c] = "exec"
    /\ cst' = [cst EXCEPT ![c] = "dead"]
    /\ UNCHANGED <<ppc, k, msg, started, term, pdeath>>

(* A pending SIGTERM is delivered to a live child.  Before the exec it    *)
(* kills the child (Pending keeps the child from stepping past it); after  *)
(* the exec a module that handles SIGTERM keeps running.                   *)
Terminate(c) ==
    /\ cst[c] \in {"armed", "pre_exec", "exec"}
    /\ Pending(c)
    /\ ~(c \in IgnoresTerm /\ cst[c] = "exec")
    /\ cst' = [cst EXCEPT ![c] = "dead"]
    /\ UNCHANGED <<ppc, k, msg, started, term, pdeath>>

-----------------------------------------------------------------------------
Child(c) == ChildPrctl(c) \/ ChildCheckParent(c) \/ ChildExec(c)

Next ==
    \/ Fork \/ CheckChildExecuted \/ ExitOnFailure \/ ManagerCrash
    \/ \E c \in Proc : Reap(c) \/ Child(c) \/ ModuleExit(c) \/ Terminate(c)

(* The manager and every child are scheduled by the OS, and a pending      *)
(* signal is delivered; a module's own exit and the manager's crash are    *)
(* not promised.                                                           *)
Fairness ==
    /\ WF_vars(Fork) /\ WF_vars(CheckChildExecuted) /\ WF_vars(ExitOnFailure)
    /\ \A c \in Proc : WF_vars(Reap(c)) /\ WF_vars(Child(c)) /\ WF_vars(Terminate(c))

Spec == Init /\ [][Next]_vars

FairSpec == Spec /\ Fairness

-----------------------------------------------------------------------------
(* Properties.                                                             *)

TypeOK ==
    /\ ppc \in {"spawn", "read", "running", "failed", "gone"}
    /\ k \in 1..Len(Children) + 1
    /\ cst \in [Proc -> ChildState]
    /\ msg \in [Proc -> BOOLEAN]
    /\ started \subseteq Proc
    /\ term \in [Proc -> BOOLEAN]
    /\ pdeath \in [Proc -> BOOLEAN]

(* Spec 4.6 step 4: spawn_modules records a child as started only if its   *)
(* exec did not fail: a child that reports a pre-exec error through the    *)
(* pipe, whenever it does so relative to the parent's read(), is never in  *)
(* started_modules.                                                        *)
RecordedOnlyIfExecuted ==
    \A c \in started : ~msg[c] /\ cst[c] \in {"exec", "dead"}

(* The inductive form of RecordedOnlyIfExecuted: the manager reads a pipe *)
(* only for a child it has forked, and the recorded children are those of  *)
(* earlier iterations, so the child being forked is not one of them.       *)
SupervisorInv ==
    /\ TypeOK
    /\ ppc = "read" => k \in 1..Len(Children)
    /\ started \subseteq {Children[j] : j \in 1..k - 1}
    /\ RecordedOnlyIfExecuted

(* Spec scenario 7 and 4.6: once the manager is gone, every module process *)
(* it forked terminates, whether the manager exited after a failed exec,   *)
(* after shutdown_modules, or died between a fork and the child's prctl.   *)
ChildrenDieWithManager ==
    (ppc = "gone") ~> (\A c \in Proc : cst[c] \in {"none", "dead"})

=============================================================================
