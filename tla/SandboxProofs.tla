--------------------------- MODULE SandboxProofs ---------------------------
(***************************************************************************)
(* Proofs about set_real_user and set_caps (Sandbox), for every group      *)
(* count, every capability table and every requested list.                 *)
(***************************************************************************)
EXTENDS Sandbox, SequenceTheorems, TLAPS

USE CapAssumption, GroupAssumption

\* A capabilities list is a finite sequence of names.
LEMMA CapListSeq ==
    ASSUME NEW names \in CapList
    PROVE  names \in Seq(CapName)
BY DEF CapList

\* Every value in the vector set_caps builds is a capability number.
LEMMA CapVectorNat ==
    ASSUME NEW names \in CapList, \A j \in 1..Len(names) : names[j] \in DOMAIN CapOf
    PROVE  Values(CapVector(names)) \subseteq Nat
<1>1. names \in Seq(CapName)
  BY CapListSeq
<1>2. [j \in 1..Len(names) |-> CapChown] \in Seq(Nat)
  BY <1>1 DEF CapChown
<1>3. CapValues(names) \in Seq(Nat)
  BY <1>1 DEF CapValues
<1>4. CapVector(names) \in Seq(Nat)
  BY <1>2, <1>3, ConcatProperties DEF CapVector
<1>. QED
  BY <1>4 DEF Values

(* The set_caps defect for every request: resize(n) followed by n calls of *)
(* emplace_back leaves n default values in front, so any non-empty list     *)
(* makes CAP_CHOWN inheritable and ambient, whether it was asked for or not. *)
LEMMA SetCapsAddsChown ==
    ASSUME NEW names \in CapList, Len(names) > 0
    PROVE  CapChown \in Values(CapVector(names))
<1>1. names \in Seq(CapName)
  BY CapListSeq
<1>2. CapVector(names)[1] = CapChown /\ 1 \in DOMAIN CapVector(names)
  <2>1. [j \in 1..Len(names) |-> CapChown] \in Seq(Nat)
    BY <1>1 DEF CapChown
  <2>. QED
    BY <1>1, <2>1 DEF CapVector, CapValues
<1>. QED
  BY <1>2 DEF Values

\* The strengthening: the property and the types.
SandboxInv == TypeOK /\ PrivilegesDroppedTogether

\* set_real_user and set_caps keep the invariant.
LEMMA SandboxStep == SandboxInv /\ [Next]_vars => SandboxInv'
<1> SUFFICES ASSUME SandboxInv, [Next]_vars PROVE SandboxInv'
  OBVIOUS
<1> USE DEF SandboxInv, TypeOK, PrivilegesDroppedTogether, Cred
<1>1. CASE SetRealUser
  <2>1. UNCHANGED <<cpc, cerr, ngroups, exists, req, inheritable, ambient>> /\ upc' = TRUE
    BY <1>1 DEF SetRealUser
  <2>2. CASE ~PasswdEntryFound
    BY <1>1, <2>1, <2>2 DEF SetRealUser
  <2>3. CASE PasswdEntryFound
    \* setgroups and setgid come before setuid: uid changes only if both did.
    <3>1. PICK fail \in 0..3 :
            /\ groups' = IF fail = 1 THEN groups ELSE "target"
            /\ gid' = IF fail \in {1, 2} THEN gid ELSE "target"
            /\ uid' = IF fail \in 1..3 THEN uid ELSE "target"
            /\ uerr' = (fail # 0)
      BY <1>1, <2>3 DEF SetRealUser
    <3>. QED
      BY <2>1, <3>1
  <2>. QED
    BY <2>2, <2>3
<1>2. CASE SetCaps
  <2>1. CASE \A j \in 1..Len(req) : req[j] \in DOMAIN CapOf
    <3>1. Values(CapVector(req)) \subseteq Nat
      BY <2>1, CapVectorNat
    <3>. QED
      BY <1>2, <2>1, <3>1 DEF SetCaps
  <2>2. CASE \E j \in 1..Len(req) : req[j] \notin DOMAIN CapOf
    BY <1>2, <2>2 DEF SetCaps
  <2>. QED
    BY <2>1, <2>2
<1>3. CASE UNCHANGED vars
  BY <1>3 DEF vars
<1>. QED
  BY <1>1, <1>2, <1>3 DEF Next

\* The process starts as root with nothing granted.
LEMMA SandboxInit == Init => SandboxInv
BY DEF Init, SandboxInv, TypeOK, PrivilegesDroppedTogether, Cred

(* For every user and group count, whichever of setgroups, setgid and      *)
(* setuid fails, set_real_user never leaves a process running as the       *)
(* target user with root's group id or root's supplementary groups.        *)
THEOREM PrivilegesDropped == Spec => []PrivilegesDroppedTogether
<1>1. SandboxInv => PrivilegesDroppedTogether
  BY DEF SandboxInv
<1>. QED
  BY <1>1, SandboxInit, SandboxStep, PTL DEF Spec

=============================================================================
