-------------------------- MODULE ErrorBusProofs ---------------------------
(***************************************************************************)
(* Proofs about the global side of the error bus (ErrorBus), for every set *)
(* of identities and every MaxCycles: the raise handler's check-then-add   *)
(* never duplicates an active error, whatever the clear thread does in     *)
(* between.                                                                *)
(***************************************************************************)
EXTENDS ErrorBus, SequenceTheorems, TLAPS

USE KnownAssumption, MaxCyclesAssumption

\* The steps of on_error_raised and on_error_cleared and the producer, one by one.
LEMMA DedupStep == DedupInv /\ [Next]_vars => DedupInv'
<1> SUFFICES ASSUME DedupInv, [Next]_vars PROVE DedupInv'
  OBVIOUS
<1> USE DEF DedupInv, TypeOK, ActiveAtMostOnce
<1>1. ASSUME NEW e \in Ident, ProducerRaise(e) PROVE DedupInv'
  BY <1>1 DEF ProducerRaise
<1>2. ASSUME NEW e \in Ident, ProducerClear(e) PROVE DedupInv'
  BY <1>2 DEF ProducerClear
<1>3. ASSUME NEW e \in Ident, RaiseBegin(e) PROVE DedupInv'
  BY <1>3 DEF RaiseBegin
<1>4. ASSUME NEW e \in Ident, RaiseAdd(e) PROVE DedupInv'
  \* The check found no entry, so add_error makes exactly one.
  BY <1>4 DEF RaiseAdd
<1>5. ASSUME NEW e \in Ident, RaiseRecheck(e) PROVE DedupInv'
  BY <1>5 DEF RaiseRecheck
<1>6. ASSUME NEW e \in Ident, RaiseNotify(e) PROVE DedupInv'
  <2>1. Append(seen[e], "raise") \in Seq({"raise", "clear"})
    BY AppendProperties
  <2>. QED
    BY <1>6, <2>1 DEF RaiseNotify
<1>7. ASSUME NEW e \in Ident, ClearBegin(e) PROVE DedupInv'
  BY <1>7 DEF ClearBegin
<1>8. ASSUME NEW e \in Ident, ClearRemove(e) PROVE DedupInv'
  \* remove_errors only lowers the count, so a pending add still finds none.
  BY <1>8 DEF ClearRemove
<1>9. ASSUME NEW e \in Ident, ClearNotify(e) PROVE DedupInv'
  <2>1. Append(seen[e], "clear") \in Seq({"raise", "clear"})
    BY AppendProperties
  <2>. QED
    BY <1>9, <2>1 DEF ClearNotify
<1>10. CASE UNCHANGED vars
  BY <1>10 DEF vars
<1>. QED
  BY <1>1, <1>2, <1>3, <1>4, <1>5, <1>6, <1>7, <1>8, <1>9, <1>10
     DEF Next, RaiseHandler, ClearHandler

\* The initial state has no queued message and an empty database.
LEMMA DedupInit == Init => DedupInv
BY DEF Init, DedupInv, TypeOK, ActiveAtMostOnce

(* Spec 3, for every configuration: on_error_raised never leaves two       *)
(* database entries for one identity, although its get_errors check and    *)
(* add_error are separate calls and clears run on another thread.          *)
THEOREM NoDuplicateActive == Spec => []ActiveAtMostOnce
<1>1. Init => DedupInv
  BY DedupInit
<1>2. DedupInv /\ [Next]_vars => DedupInv'
  BY DedupStep
<1>3. DedupInv => ActiveAtMostOnce
  BY DEF DedupInv
<1>. QED
  BY <1>1, <1>2, <1>3, PTL DEF Spec

\* Every reachable state of the error bus model is well typed.
THEOREM ErrorBusTypeCorrect == Spec => []TypeOK
<1>1. DedupInv => TypeOK
  BY DEF DedupInv
<1>. QED
  BY <1>1, DedupInit, DedupStep, PTL DEF Spec

(* For every configuration, DedupInv, which the errorbus run checks,      *)
(* holds in every reachable state: no raise handler sits between its      *)
(* get_errors check and add_error while the identity has an entry.        *)
THEOREM DedupInvariant == Spec => []DedupInv
BY DedupInit, DedupStep, PTL DEF Spec

=============================================================================
