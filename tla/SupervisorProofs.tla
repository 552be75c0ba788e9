------------------------- MODULE SupervisorProofs --------------------------
(***************************************************************************)
(* Proofs about spawn_modules over SubProcess (Supervisor), for every      *)
(* spawn list, every set of modules that handle SIGTERM and either value   *)
(* of set_pdeathsig.                                                       *)
(***************************************************************************)
EXTENDS Supervisor, TLAPS

USE ChildrenAssumption, TermAssumption

\* The child of the current iteration is one of the module processes.
LEMMA CurrentInProc ==
    ASSUME NEW kk \in 1..Len(Children)
    PROVE  Children[kk] \in Proc
BY DEF Proc

\* Every step of the manager and of the children keeps SupervisorInv.
LEMMA SupervisorStep == SupervisorInv /\ [Next]_vars => SupervisorInv'
<1> SUFFICES ASSUME SupervisorInv, [Next]_vars PROVE SupervisorInv'
  OBVIOUS
<1> USE DEF SupervisorInv, TypeOK, RecordedOnlyIfExecuted, ChildState
<1>1. CASE Fork
  <2>1. k \in 1..Len(Children) /\ Current \in Proc
    BY <1>1, CurrentInProc DEF Fork, Current
  <2>2. Current \notin started
    \* Children has no repetition, and the recorded ones come before k.
    BY <2>1 DEF Current
  <2>. QED
    BY <1>1, <2>1, <2>2 DEF Fork
<1>2. CASE CheckChildExecuted
  <2>1. k \in 1..Len(Children) /\ Current \in Proc
    BY <1>2, CurrentInProc DEF CheckChildExecuted, Current
  <2>2. ~msg[Current] => cst[Current] \in {"exec", "dead"}
    \* End of file on the pipe: the child exec'd or exited.
    BY <1>2 DEF CheckChildExecuted, PipeClosed
  <2>3. CASE msg[Current]
    \* The child reported an error: nothing is recorded, boot throws.
    BY <1>2, <2>3 DEF CheckChildExecuted
  <2>4. CASE ~msg[Current]
    <3>1. /\ started' = started \cup {Children[k]}
          /\ k' = k + 1
          /\ ppc' \in {"running", "spawn"}
          /\ UNCHANGED <<cst, msg, term, pdeath>>
      BY <1>2, <2>4 DEF CheckChildExecuted, Current
    <3>2. started' \subseteq {Children[j] : j \in 1..k' - 1}
      BY <2>1, <3>1
    <3>3. RecordedOnlyIfExecuted'
      BY <2>1, <2>2, <2>4, <3>1 DEF Current
    <3>. QED
      BY <2>1, <3>1, <3>2, <3>3
  <2>. QED
    BY <2>3, <2>4
<1>3. CASE ExitOnFailure
  BY <1>3 DEF ExitOnFailure
<1>4. CASE ManagerCrash
  BY <1>4 DEF ManagerCrash
<1>5. ASSUME NEW c \in Proc, Reap(c) PROVE SupervisorInv'
  BY <1>5 DEF Reap
<1>6. ASSUME NEW c \in Proc, ChildPrctl(c) PROVE SupervisorInv'
  \* A forked child is not yet recorded: its pipe is still open.
  <2>1. c \notin started
    BY <1>6 DEF ChildPrctl
  <2>2. UNCHANGED <<ppc, k, started, term>>
    BY <1>6 DEF ChildPrctl
  <2>4. cst' \in [Proc -> ChildState]
    BY <1>6 DEF ChildPrctl
  <2>5. msg' \in [Proc -> BOOLEAN]
    BY <1>6, Zenon DEF ChildPrctl
  <2>6. pdeath' \in [Proc -> BOOLEAN]
    BY <1>6, Zenon DEF ChildPrctl
  <2>3. \A x \in started : msg'[x] = msg[x] /\ cst'[x] = cst[x]
    BY <1>6, <2>1 DEF ChildPrctl
  <2>. QED
    BY <2>2, <2>3, <2>4, <2>5, <2>6
<1>7. ASSUME NEW c \in Proc, ChildCheckParent(c) PROVE SupervisorInv'
  <2>1. c \notin started
    BY <1>7 DEF ChildCheckParent
  <2>2. /\ cst[c] = "armed"
        /\ cst' = [cst EXCEPT ![c] = IF ppc = "gone" THEN "dead" ELSE "pre_exec"]
        /\ UNCHANGED <<ppc, k, msg, started, term, pdeath>>
    BY <1>7 DEF ChildCheckParent
  <2>. QED
    BY <2>1, <2>2
<1>8. ASSUME NEW c \in Proc, ChildExec(c) PROVE SupervisorInv'
  <2>1. c \notin started
    BY <1>8 DEF ChildExec
  <2>2. /\ cst[c] = "pre_exec"
        /\ \/ cst' = [cst EXCEPT ![c] = "exec"] /\ msg' = msg
           \/ cst' = [cst EXCEPT ![c] = "dead"] /\ msg' = [msg EXCEPT ![c] = TRUE]
        /\ UNCHANGED <<ppc, k, started, term, pdeath>>
    BY <1>8 DEF ChildExec
  <2>3. cst' \in [Proc -> ChildState] /\ msg' \in [Proc -> BOOLEAN]
    BY <2>2
  <2>4. \A x \in started : msg'[x] = msg[x] /\ cst'[x] = cst[x]
    BY <2>1, <2>2
  <2>. QED
    BY <2>2, <2>3, <2>4
<1>9. ASSUME NEW c \in Proc, ModuleExit(c) PROVE SupervisorInv'
  BY <1>9 DEF ModuleExit
<1>10. ASSUME NEW c \in Proc, Terminate(c) PROVE SupervisorInv'
  BY <1>10 DEF Terminate
<1>11. CASE UNCHANGED vars
  BY <1>11 DEF vars
<1>. QED
  BY <1>1, <1>2, <1>3, <1>4, <1>5, <1>6, <1>7, <1>8, <1>9, <1>10, <1>11
     DEF Next, Child

\* Nothing is forked, recorded or signalled at the start of spawn_modules.
LEMMA SupervisorInit == Init => SupervisorInv
BY DEF Init, SupervisorInv, TypeOK, RecordedOnlyIfExecuted, ChildState

(* Spec 4.6 step 4, for every spawn list: check_child_executed records a   *)
(* child in started_modules only if it exec'd without reporting an error   *)
(* through the pipe, however the child's steps interleave with the read.   *)
THEOREM RecordedChildrenExecuted == Spec => []RecordedOnlyIfExecuted
<1>1. SupervisorInv => RecordedOnlyIfExecuted
  BY DEF SupervisorInv
<1>. QED
  BY <1>1, SupervisorInit, SupervisorStep, PTL DEF Spec

\* Every reachable state of the supervisor model is well typed.
THEOREM SupervisorTypeCorrect == Spec => []TypeOK
<1>1. SupervisorInv => TypeOK
  BY DEF SupervisorInv
<1>. QED
  BY <1>1, SupervisorInit, SupervisorStep, PTL DEF Spec

(* For every spawn list, SupervisorInv, which the supervisor run checks,   *)
(* holds in every reachable state: spawn_modules reads only the pipe of a  *)
(* child it forked, and never records the child it is forking.             *)
THEOREM SupervisorInvariant == Spec => []SupervisorInv
BY SupervisorInit, SupervisorStep, PTL DEF Spec

=============================================================================
