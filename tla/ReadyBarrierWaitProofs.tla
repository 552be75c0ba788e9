----------------------- MODULE ReadyBarrierWaitProofs -----------------------
(***************************************************************************)
(* Proofs about the ready handler (ReadyBarrier) with standalone modules:  *)
(* the WAITING_FOR_STANDALONE_MODULES status, for every configuration      *)
(* whose standalone ids all name registered modules; the global ready      *)
(* and the refinement of StartupBarrier, for every configuration whose     *)
(* order puts a forked module before each standalone one.                  *)
(***************************************************************************)
EXTENDS ReadyBarrierProofs, FiniteSetTheorems

-----------------------------------------------------------------------------
(* Counting the entries of modules_ready.                                  *)

\* The config's modules are finitely many: Order enumerates them.
LEMMA ConfigFinite == IsFiniteSet(ConfigModules)
<1>0. Len(Order) \in Nat /\ Order \in [1..Len(Order) -> Module]
  BY OrderAssumption, LenProperties
<1>1. Order \in Surjection(1..Len(Order), ConfigModules)
  <2>1. Order \in [1..Len(Order) -> ConfigModules]
    BY <1>0 DEF ConfigModules
  <2>2. \A t \in ConfigModules : \E s \in 1..Len(Order) : Order[s] = t
    BY DEF ConfigModules
  <2>. QED
    BY <2>1, <2>2 DEF Surjection
<1>2. IsFiniteSet(1..Len(Order))
  BY <1>0, FS_Interval
<1>. QED
  BY <1>1, <1>2, FS_Surjection

\* With every standalone id registered, modules_ready.size() minus
\* standalone_modules.size() is the number of modules the manager forks.
LEMMA ManagedCount ==
    ASSUME Standalone \subseteq Registered
    PROVE  /\ IsFiniteSet(Registered)
           /\ Cardinality(Registered) - Cardinality(Standalone) = Cardinality(Managed)
<1>1. IsFiniteSet(Registered)
  BY ConfigFinite, FS_Difference DEF Registered
<1>2. Cardinality(Managed) = Cardinality(Registered) - Cardinality(Registered \cap Standalone)
  BY <1>1, FS_Difference DEF Managed
<1>3. Registered \cap Standalone = Standalone
  OBVIOUS
<1>. QED
  BY <1>1, <1>2, <1>3

-----------------------------------------------------------------------------
(* WaitInv is inductive.                                                   *)

\* The state in which the status must have been written: the map is
\* complete, every forked module's flag is set and no standalone one's.
AwaitStandalone(f) ==
    /\ DOMAIN f = Registered
    /\ \A x \in Managed : f[x]
    /\ \A x \in Standalone \cap Registered : ~f[x]

\* StandaloneWaitAnnounced in terms of AwaitStandalone, before and after a step.
LEMMA AnnouncedIff ==
    /\ StandaloneWaitAnnounced <=>
          (Managed # {} /\ Standalone \cap Registered # {} /\ AwaitStandalone(modules_ready)
             => waiting > 0)
    /\ StandaloneWaitAnnounced' <=>
          (Managed # {} /\ Standalone \cap Registered # {} /\ AwaitStandalone(modules_ready')
             => waiting' > 0)
BY DEF StandaloneWaitAnnounced, AwaitStandalone

\* The handler that sets the last flag of a forked module, with no
\* standalone module ready, sees modules_spawned equal to the target.
LEMMA LastManagedReady ==
    ASSUME Standalone \subseteq Registered,
           NEW f, Managed # {}, Standalone \cap Registered # {}, AwaitStandalone(f)
    PROVE  /\ ~AllReady(f)
           /\ Standalone # {}
           /\ ReadyCount(f) = WaitTarget(f)
<1>1. ~AllReady(f)
  BY DEF AwaitStandalone, AllReady
<1>2. {x \in DOMAIN f : f[x]} = Managed
  BY DEF AwaitStandalone, Managed
<1>3. ReadyCount(f) = Cardinality(Managed)
  BY <1>2 DEF ReadyCount
<1>4. WaitTarget(f) = Cardinality(Managed)
  BY ManagedCount DEF WaitTarget, AwaitStandalone
<1>. QED
  BY <1>1, <1>3, <1>4

\* Every step keeps WaitInv when every standalone id is registered.
LEMMA WaitStep ==
    ASSUME Standalone \subseteq Registered, WaitInv, [Next]_vars
    PROVE  WaitInv'
<1> DEFINE Flags(f, snt) == \A x \in DOMAIN f : f[x] => snt[x] > 0
           Msgs(pnd, inf, snt) == \A x \in Module : pnd[x] > 0 \/ inf[x] => snt[x] > 0
           Reg(p, ch, snt) == p = "register" => ch = {} /\ \A x \in Module \ Standalone : snt[x] = 0
<1>0. /\ TypeOK /\ TypeOK'
      /\ Flags(modules_ready, sent)
      /\ Msgs(pending, inflight, sent)
      /\ Reg(pc, children, sent)
      /\ StandaloneWaitAnnounced
  BY TypeStep DEF WaitInv
<1>r. Registered \subseteq Module
  BY OrderAssumption DEF Registered, ConfigModules
<1> DEFINE Goal == /\ Flags(modules_ready', sent')
                  /\ Msgs(pending', inflight', sent')
                  /\ Reg(pc', children', sent')
                  /\ StandaloneWaitAnnounced'
<1> SUFFICES Goal
  BY <1>0 DEF WaitInv
<1>1. CASE RegisterModule
  <2> DEFINE m == Order[i]
  <2>1. /\ pc = "register"
        /\ UNCHANGED <<children, zombies, pending, inflight, sent, published, waiting>>
        /\ pc' \in {"register", "failed"}
    BY <1>1 DEF RegisterModule, QueueForSpawn
  <2>2. CASE m \in Ignored
    <3>1. UNCHANGED modules_ready
      BY <1>1, <2>2 DEF RegisterModule
    <3>. QED
      BY <1>0, <2>1, <3>1, AnnouncedIff
  <2>3. CASE m \notin Ignored
    <3>1. modules_ready' = Emplace(modules_ready, m)
      BY <1>1, <2>3 DEF RegisterModule
    <3>2. \A x \in DOMAIN modules_ready' :
             modules_ready'[x] => x \in DOMAIN modules_ready /\ modules_ready[x]
      BY <3>1 DEF Emplace
    <3>3. Flags(modules_ready', sent')
      BY <1>0, <2>1, <3>2
    <3>4. ~(Managed # {} /\ AwaitStandalone(modules_ready'))
      <4> SUFFICES ASSUME NEW x \in Managed, AwaitStandalone(modules_ready') PROVE FALSE
        OBVIOUS
      <4>1. x \in DOMAIN modules_ready /\ modules_ready[x]
        BY <3>2 DEF AwaitStandalone, Managed
      <4>2. sent[x] > 0
        BY <1>0, <4>1
      <4>3. sent[x] = 0
        BY <1>0, <1>r, <2>1 DEF Managed
      <4>. QED
        BY <1>0, <4>2, <4>3 DEF TypeOK
    <3>. QED
      BY <1>0, <2>1, <3>3, <3>4, AnnouncedIff
  <2>. QED
    BY <2>2, <2>3
<1>2. ASSUME NEW m \in Module, Reap(m) PROVE Goal
  <2>1. /\ modules_ready' = EmptyMap /\ pc' = "shutdown"
        /\ UNCHANGED <<pending, inflight, sent, waiting>>
    BY <1>2 DEF Reap
  <2>2. DOMAIN modules_ready' = {}
    BY <2>1, EmptyMapType
  <2>3. ~(Managed # {} /\ AwaitStandalone(modules_ready'))
    BY <2>2 DEF AwaitStandalone, Managed
  <2>. QED
    BY <1>0, <2>1, <2>2, <2>3, AnnouncedIff
<1>3. ASSUME NEW m \in Module, SendReady(m) PROVE Goal
  <2>1. /\ sent' = [sent EXCEPT ![m] = @ + 1]
        /\ pending' = [pending EXCEPT ![m] = @ + 1]
        /\ UNCHANGED <<pc, modules_ready, children, inflight, waiting>>
    BY <1>3 DEF SendReady
  <2>2. \A x \in Module : sent'[x] >= sent[x] /\ (x # m => sent'[x] = sent[x])
    BY <1>0, <2>1 DEF TypeOK
  <2>3. Flags(modules_ready', sent')
    BY <1>0, <2>1, <2>2 DEF TypeOK
  <2>4. Msgs(pending', inflight', sent')
    BY <1>0, <2>1, <2>2 DEF TypeOK
  <2>5. pc = "register" => m \in Standalone
    BY <1>0, <1>3 DEF SendReady
  <2>6. Reg(pc', children', sent')
    BY <1>0, <2>1, <2>2, <2>5
  <2>. QED
    BY <1>0, <2>1, <2>3, <2>4, <2>6, AnnouncedIff
<1>4. ASSUME NEW m \in Module, Dequeue(m) PROVE Goal
  <2>1. /\ pending[m] > 0
        /\ inflight' = [inflight EXCEPT ![m] = TRUE]
        /\ pending' = [pending EXCEPT ![m] = @ - 1]
        /\ UNCHANGED <<pc, modules_ready, children, sent, waiting>>
    BY <1>4 DEF Dequeue
  <2>2. Msgs(pending', inflight', sent')
    BY <1>0, <2>1 DEF TypeOK
  <2>. QED
    BY <1>0, <2>1, <2>2, AnnouncedIff
<1>5. ASSUME NEW m \in Module, HandleReady(m) PROVE Goal
  <2>1. /\ inflight[m]
        /\ inflight' = [inflight EXCEPT ![m] = FALSE]
        /\ pc' \in {pc, "aborted"}
        /\ UNCHANGED <<children, pending, sent>>
    BY <1>5 DEF HandleReady
  <2>2. Msgs(pending', inflight', sent')
    BY <1>0, <2>1 DEF TypeOK
  <2>3. Reg(pc', children', sent')
    BY <1>0, <2>1
  <2>4. CASE m \notin DOMAIN modules_ready
    <3>1. UNCHANGED <<modules_ready, waiting>>
      BY <1>5, <2>4 DEF HandleReady
    <3>. QED
      BY <1>0, <2>1, <2>2, <2>3, <3>1, AnnouncedIff
  <2>5. CASE m \in DOMAIN modules_ready
    <3> DEFINE new == ReadyAfter(modules_ready, m)
    <3>1. modules_ready' = new
      BY <1>5, <2>5 DEF HandleReady
    <3>2. sent[m] > 0
      BY <1>0, <2>1
    <3>3. Flags(modules_ready', sent')
      BY <1>0, <2>1, <2>5, <3>1, <3>2 DEF ReadyAfter
    <3>4. waiting' >= waiting
      BY <1>0, <1>5, <2>5 DEF HandleReady, TypeOK
    <3>5. ASSUME Managed # {}, Standalone \cap Registered # {}, AwaitStandalone(new)
          PROVE  waiting' > 0
      <4>1. /\ ~AllReady(new)
            /\ Standalone # {}
            /\ ReadyCount(new) = WaitTarget(new)
        BY <3>5, LastManagedReady
      <4>2. waiting' = waiting + 1
        BY <1>5, <2>5, <4>1 DEF HandleReady
      <4>. QED
        BY <1>0, <4>2 DEF TypeOK
    <3>. QED
      BY <2>2, <2>3, <3>1, <3>3, <3>5, AnnouncedIff
  <2>. QED
    BY <2>4, <2>5
<1>6. ASSUME NEW m \in Module, ChildExit(m) PROVE Goal
  <2>1. /\ children' = children \ {m}
        /\ UNCHANGED <<pc, modules_ready, pending, inflight, sent, waiting>>
    BY <1>6 DEF ChildExit
  <2>. QED
    BY <1>0, <2>1, AnnouncedIff
<1>7. CASE EndRegister \/ SpawnModule \/ EndSpawn \/ Exit
  <2>1. /\ pc' # "register"
        /\ UNCHANGED <<modules_ready, pending, inflight, sent, waiting>>
    BY <1>7 DEF EndRegister, SpawnModule, EndSpawn, AfterSpawn, Exit
  <2>. QED
    BY <1>0, <2>1, AnnouncedIff
<1>8. CASE UNCHANGED vars
  <2>1. UNCHANGED <<pc, children, modules_ready, pending, inflight, sent, waiting>>
    BY <1>8 DEF vars
  <2>. QED
    BY <1>0, <2>1, AnnouncedIff
<1>9. QED
  BY <1>1, <1>2, <1>3, <1>4, <1>5, <1>6, <1>7, <1>8 DEF Next, Manager

\* At start no message was sent, no child forked and the map is empty.
LEMMA WaitInit == Init => WaitInv
<1> SUFFICES ASSUME Init PROVE WaitInv
  OBVIOUS
<1>1. DOMAIN modules_ready = {}
  BY EmptyMapType DEF Init
<1>2. StandaloneWaitAnnounced
  BY <1>1, AnnouncedIff DEF AwaitStandalone, Managed
<1>. QED
  BY <1>1, <1>2, TypeInit DEF Init, WaitInv

-----------------------------------------------------------------------------
(* Spec scenario 6 and manager.cpp:315: when every module the manager      *)
(* forks has signalled ready and no standalone module has, the ready       *)
(* handler has written WAITING_FOR_STANDALONE_MODULES to the status fifo,  *)
(* in every configuration whose --standalone ids all name config modules   *)
(* that are not ignored.  Without that hypothesis the statement is false:  *)
(* modules_ready.size() - standalone_modules.size() then differs from the  *)
(* number of forked modules and the status is never written.               *)
THEOREM StandaloneWaitIsAnnounced ==
    ASSUME Standalone \subseteq Registered
    PROVE  Spec => []StandaloneWaitAnnounced
<1>1. Init => WaitInv
  BY WaitInit
<1>2. WaitInv /\ [Next]_vars => WaitInv'
  BY WaitStep
<1>3. WaitInv => StandaloneWaitAnnounced
  BY DEF WaitInv
<1>. QED
  BY <1>1, <1>2, <1>3, PTL DEF Spec

-----------------------------------------------------------------------------
(* The global ready with standalone modules, in config order.              *)

\* While the loop runs, a module whose message the handler takes is
\* standalone, and a forked module is in the partial map before it with its
\* flag unset: all_of over the map fails.
LEMMA PartialMapNotReady ==
    ASSUME ManagedFirst, EarlyReadyInv, pc = "register",
           NEW m \in DOMAIN modules_ready, sent[m] > 0
    PROVE  ~AllReady(ReadyAfter(modules_ready, m))
<1>0. /\ Len(Order) \in Nat /\ Order \in [1..Len(Order) -> Module]
      /\ i \in 1..Len(Order) + 1
      /\ modules_ready \in [DOMAIN modules_ready -> BOOLEAN]
      /\ sent \in [Module -> 0..MaxReady]
  <2>1. Len(Order) \in Nat /\ Order \in [1..Len(Order) -> Module]
    BY OrderAssumption, LenProperties
  <2>2. TypeOK
    BY DEF EarlyReadyInv
  <2>. QED
    BY <2>1, <2>2 DEF TypeOK
<1>1. PICK j \in 1..i - 1 : Order[j] = m /\ m \notin Ignored
  BY DEF EarlyReadyInv
<1>2. m \in Standalone
  BY <1>0, <1>1 DEF EarlyReadyInv
<1>3. PICK k \in 1..j - 1 : Order[k] \notin Ignored \cup Standalone
  BY <1>0, <1>1, <1>2 DEF ManagedFirst
<1> DEFINE y == Order[k]
<1>4. y \in DOMAIN modules_ready /\ y \in Module \ Standalone /\ y # m
  BY <1>0, <1>1, <1>2, <1>3 DEF EarlyReadyInv
<1>5. sent[y] = 0
  BY <1>4 DEF EarlyReadyInv
<1>6. ~modules_ready[y]
  BY <1>0, <1>4, <1>5 DEF EarlyReadyInv
<1>. QED
  BY <1>4, <1>6 DEF ReadyAfter, AllReady

\* At start the loop has visited nothing and nothing was sent.
LEMMA EarlyInit == Init => EarlyReadyInv
<1> SUFFICES ASSUME Init PROVE EarlyReadyInv
  OBVIOUS
<1>1. TypeOK
  BY TypeInit
<1>2. DOMAIN modules_ready = {} /\ {Order[j] : j \in 1..1 - 1} = {}
  BY EmptyMapType DEF Init
<1>. QED
  BY <1>1, <1>2 DEF Init, EarlyReadyInv, GlobalReadyOnlyAfterAllReady

\* Every step keeps EarlyReadyInv when a forked module comes first.
LEMMA EarlyStep ==
    ASSUME ManagedFirst, EarlyReadyInv, [Next]_vars
    PROVE  EarlyReadyInv'
<1> USE DEF EarlyReadyInv, GlobalReadyOnlyAfterAllReady
<1>0. TypeOK'
  BY TypeStep
<1>r. ConfigModules \subseteq Module
  BY OrderAssumption DEF ConfigModules
<1>1. CASE RegisterModule
  <2> DEFINE m == Order[i]
  <2>1. i \in 1..Len(Order) /\ pc = "register" /\ Len(Order) \in Nat
    BY <1>1, LenProperties DEF RegisterModule
  <2>2. UNCHANGED <<zombies, pending, inflight, sent, published, waiting>>
    BY <1>1 DEF RegisterModule
  <2>3. CASE m \in Ignored
    <3>1. i' = i + 1 /\ UNCHANGED <<pc, modules_ready, children>>
      BY <1>1, <2>3 DEF RegisterModule
    <3>2. {Order[j] : j \in 1..i' - 1} \ Ignored = {Order[j] : j \in 1..i - 1} \ Ignored
      BY <2>1, <2>3, <3>1, PrefixStep
    <3>. QED
      BY <1>0, <2>1, <2>2, <3>1, <3>2
  <2>4. CASE m \notin Ignored
    <3>1. /\ modules_ready' = Emplace(modules_ready, m)
          /\ \/ i' = i + 1 /\ UNCHANGED <<pc, children>>
             \/ pc' = "failed"
      BY <1>1, <2>4 DEF RegisterModule, QueueForSpawn
    <3>2. /\ DOMAIN modules_ready' = DOMAIN modules_ready \cup {m}
          /\ \A x \in DOMAIN modules_ready' :
                modules_ready'[x] => x \in DOMAIN modules_ready /\ modules_ready[x]
      BY <3>1, Zenon DEF Emplace
    <3>3. \A x \in DOMAIN modules_ready' : modules_ready'[x] => sent'[x] > 0
      BY <2>2, <3>2
    <3>4. CASE i' = i + 1 /\ UNCHANGED <<pc, children>>
      <4>1. DOMAIN modules_ready' = {Order[j] : j \in 1..i' - 1} \ Ignored
        BY <2>1, <2>4, <3>2, <3>4, PrefixStep
      <4>. QED
        BY <1>0, <2>1, <2>2, <3>3, <3>4, <4>1
    <3>5. CASE pc' = "failed"
      BY <1>0, <2>2, <3>3, <3>5
    <3>. QED
      BY <3>1, <3>4, <3>5
  <2>. QED
    BY <2>3, <2>4
<1>2. CASE EndRegister
  <2>1. i - 1 = Len(Order) /\ Len(Order) \in Nat
    BY <1>2, LenProperties DEF EndRegister
  <2>2. DOMAIN modules_ready' = Registered
    BY <1>2, <2>1 DEF EndRegister, Registered, ConfigModules
  <2>. QED
    BY <1>0, <1>2, <2>2 DEF EndRegister
<1>3. CASE SpawnModule
  BY <1>0, <1>3 DEF SpawnModule
<1>4. CASE EndSpawn
  BY <1>0, <1>4 DEF EndSpawn, AfterSpawn
<1>5. ASSUME NEW m \in Module, Reap(m) PROVE EarlyReadyInv'
  BY <1>0, <1>5, EmptyMapType DEF Reap
<1>7. CASE Exit
  BY <1>0, <1>7 DEF Exit
<1>8. ASSUME NEW m \in Module, ChildExit(m) PROVE EarlyReadyInv'
  BY <1>0, <1>8 DEF ChildExit
<1>9. ASSUME NEW m \in Module, SendReady(m) PROVE EarlyReadyInv'
  <2>1. pc = "register" => m \in Standalone
    BY <1>9 DEF SendReady
  <2>2. \A x \in Module : sent'[x] >= sent[x] /\ (x = m => sent'[x] > 0)
                         /\ (x # m => sent'[x] = sent[x])
    BY <1>9 DEF SendReady, TypeOK
  <2>3. UNCHANGED <<pc, i, modules_ready, children, inflight, published>>
    BY <1>9 DEF SendReady
  <2>4. pending' = [pending EXCEPT ![m] = @ + 1]
    BY <1>9 DEF SendReady
  <2>5. \A x \in Module : pending'[x] > 0 \/ inflight'[x] => sent'[x] > 0
    BY <2>2, <2>3, <2>4 DEF TypeOK
  <2>6. pc' = "register" => \A x \in Module \ Standalone : sent'[x] = 0
    BY <2>1, <2>2, <2>3, Zenon
  <2>7. \A x \in DOMAIN modules_ready' : modules_ready'[x] => sent'[x] > 0
    BY <1>r, <2>2, <2>3 DEF TypeOK
  <2>8. published' > 0 => \A x \in Registered : sent'[x] > 0
    BY <1>r, <2>2, <2>3 DEF Registered
  <2>. QED
    BY <1>0, <2>3, <2>5, <2>6, <2>7, <2>8
<1>10. ASSUME NEW m \in Module, Dequeue(m) PROVE EarlyReadyInv'
  BY <1>0, <1>10 DEF Dequeue, TypeOK
<1>11. ASSUME NEW m \in Module, HandleReady(m) PROVE EarlyReadyInv'
  <2>1. sent[m] > 0 /\ pc \in Live
    BY <1>11 DEF HandleReady, TypeOK
  <2>2. UNCHANGED <<i, subscribed, children, zombies, pending, sent>>
    BY <1>11 DEF HandleReady
  <2>3. \A x \in Module : inflight'[x] => inflight[x]
    BY <1>11 DEF HandleReady, TypeOK
  <2>4. CASE m \notin DOMAIN modules_ready
    BY <1>0, <1>11, <2>2, <2>3, <2>4 DEF HandleReady
  <2>5. CASE m \in DOMAIN modules_ready
    <3>1. pc' = pc /\ pc \in {"register", "spawn", "running"}
      BY <1>11, <2>1, <2>5 DEF HandleReady, Live
    <3>2. modules_ready' = ReadyAfter(modules_ready, m)
      BY <1>11, <2>5 DEF HandleReady
    <3>3. /\ DOMAIN modules_ready' = DOMAIN modules_ready
          /\ \A x \in DOMAIN modules_ready' : modules_ready'[x] => sent'[x] > 0
      BY <2>1, <2>2, <2>5, <3>2 DEF ReadyAfter
    <3>4. published' > 0 => published > 0 \/ AllReady(modules_ready')
      BY <1>11, <2>5, <3>2 DEF HandleReady, TypeOK
    <3>5. CASE pc = "register"
      <4>1. ~AllReady(modules_ready')
        BY <2>1, <2>5, <3>2, <3>5, PartialMapNotReady
      <4>. QED
        BY <1>0, <2>2, <2>3, <3>1, <3>3, <3>4, <3>5, <4>1
    <3>6. CASE pc \in {"spawn", "running"}
      <4>1. published' > 0 => \A x \in Registered : sent'[x] > 0
        BY <2>2, <3>3, <3>4, <3>6 DEF AllReady
      <4>. QED
        BY <1>0, <2>2, <2>3, <3>1, <3>3, <3>6, <4>1
    <3>. QED
      BY <3>1, <3>5, <3>6
  <2>. QED
    BY <2>4, <2>5
<1>12. CASE UNCHANGED vars
  <2>1. /\ pc' = pc /\ i' = i /\ modules_ready' = modules_ready
        /\ children' = children /\ zombies' = zombies /\ pending' = pending
        /\ inflight' = inflight /\ sent' = sent /\ published' = published
    BY <1>12 DEF vars
  <2>. QED
    BY <1>0, <2>1
<1>. QED
  BY <1>1, <1>2, <1>3, <1>4, <1>5, <1>7, <1>8, <1>9, <1>10, <1>11, <1>12,
     ZenonT(60) DEF Next, Manager

(* Spec 8, with standalone modules: the ready handler publishes the global *)
(* ready only after every non-ignored module has signalled, in every       *)
(* configuration whose order of main_config puts a forked module before    *)
(* each standalone one.  barrier_standalone_first shows the converse: a    *)
(* standalone module met first lets all_of pass over the partial map.      *)
THEOREM StandaloneBarrierSafety ==
    ASSUME ManagedFirst
    PROVE  Spec => []GlobalReadyOnlyAfterAllReady
<1>1. Init => EarlyReadyInv
  BY EarlyInit
<1>2. EarlyReadyInv /\ [Next]_vars => EarlyReadyInv'
  BY EarlyStep
<1>3. EarlyReadyInv => GlobalReadyOnlyAfterAllReady
  BY DEF EarlyReadyInv
<1>. QED
  BY <1>1, <1>2, <1>3, PTL DEF Spec

(* Spec 4.7, with standalone modules: in every configuration whose order   *)
(* puts a forked module before each standalone one, every behaviour of the *)
(* manager's barrier is one of StartupBarrier: a standalone module's first *)
(* ready is a report, its later ones after a restart change nothing the    *)
(* barrier sees, and the global ready opens it only with nobody pending.   *)
THEOREM StandaloneBarrierRefinement ==
    ASSUME ManagedFirst
    PROVE  Spec => Barrier!Spec
<1>1. Init => Barrier!Init
  BY RefinementInit
<1>2. EarlyReadyInv /\ [Next]_vars => [Barrier!Next]_Barrier!vars
  <2> SUFFICES ASSUME EarlyReadyInv, [Next]_vars PROVE [Barrier!Next]_Barrier!vars
    OBVIOUS
  <2>1. EarlyReadyInv'
    BY EarlyStep
  <2>. QED
    BY <2>1, RefinementStep DEF EarlyReadyInv
<1>3. Init => EarlyReadyInv
  BY EarlyInit
<1>4. EarlyReadyInv /\ [Next]_vars => EarlyReadyInv'
  BY EarlyStep
<1>. QED
  BY <1>1, <1>2, <1>3, <1>4, PTL DEF Spec, Barrier!Spec

=============================================================================
