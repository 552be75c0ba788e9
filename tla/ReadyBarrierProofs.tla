------------------------- MODULE ReadyBarrierProofs -------------------------
(***************************************************************************)
(* Proofs about the startup barrier of the manager (ReadyBarrier), for     *)
(* every value of the constants that satisfies the module's assumptions.   *)
(***************************************************************************)
EXTENDS ReadyBarrier, SequenceTheorems, TLAPS

USE OrderAssumption, SetsAssumption, MaxReadyAssumption

\* The three ways the map modules_ready is rebuilt keep a Boolean range.
LEMMA MapUpdates ==
    ASSUME NEW f, NEW D, f \in [D -> BOOLEAN], NEW m
    PROVE  /\ Emplace(f, m) \in [D \cup {m} -> BOOLEAN]
           /\ DOMAIN Emplace(f, m) = D \cup {m}
           /\ m \in D => ReadyAfter(f, m) \in [D -> BOOLEAN]
           /\ DOMAIN ReadyAfter(f, m) = D
BY DEF Emplace, ReadyAfter

\* modules_ready.clear() leaves the empty map.
LEMMA EmptyMapType == EmptyMap \in [{} -> BOOLEAN] /\ DOMAIN EmptyMap = {}
BY DEF EmptyMap

\* Every step of the manager, the modules and the handler threads keeps the types.
LEMMA TypeStep == TypeOK /\ [Next]_vars => TypeOK'
<1> SUFFICES ASSUME TypeOK, [Next]_vars PROVE TypeOK'
  OBVIOUS
<1>1. CASE RegisterModule
  <2> DEFINE m == Order[i]
  <2>1. i \in 1..Len(Order) /\ m \in ConfigModules /\ Len(Order) \in Nat
    BY <1>1, LenProperties DEF RegisterModule, ConfigModules
  <2>2. /\ Emplace(modules_ready, m) \in [DOMAIN modules_ready \cup {m} -> BOOLEAN]
        /\ DOMAIN Emplace(modules_ready, m) = DOMAIN modules_ready \cup {m}
    BY MapUpdates DEF TypeOK
  <2>3. Append(modules_to_spawn, m) \in Seq(ConfigModules)
    BY <2>1, AppendProperties DEF TypeOK
  <2>4. CASE m \in Ignored
    <3>1. /\ i' = i + 1
          /\ UNCHANGED <<pc, modules_ready, subscribed, modules_to_spawn, children>>
          /\ UNCHANGED <<zombies, pending, inflight, sent, published, waiting>>
      BY <1>1, <2>4 DEF RegisterModule
    <3>2. i' \in 1..Len(Order) + 1
      BY <2>1, <3>1
    <3>. QED
      BY <3>1, <3>2 DEF TypeOK
  <2>5. CASE m \notin Ignored
    <3>1. /\ modules_ready' = Emplace(modules_ready, m)
          /\ subscribed' = subscribed \cup {m}
          /\ UNCHANGED <<zombies, pending, inflight, sent, published, waiting>>
          /\ \/ i' = i + 1 /\ UNCHANGED <<pc, modules_to_spawn, children>>
             \/ i' = i + 1 /\ QueueForSpawn(m) /\ UNCHANGED pc
             \/ pc' = "failed" /\ UNCHANGED <<i, modules_to_spawn, children>>
      BY <1>1, <2>5 DEF RegisterModule
    <3>2. /\ DOMAIN modules_ready' \subseteq ConfigModules
          /\ modules_ready' \in [DOMAIN modules_ready' -> BOOLEAN]
          /\ subscribed' \subseteq ConfigModules
      BY <2>1, <2>2, <3>1 DEF TypeOK
    <3>3. /\ i' \in 1..Len(Order) + 1
          /\ pc' \in Live \cup {"failed", "exited", "aborted", "waitpid_error"}
          /\ modules_to_spawn' \in Seq(ConfigModules)
          /\ children' \subseteq ConfigModules
      <4>1. CASE i' = i + 1 /\ UNCHANGED <<pc, modules_to_spawn, children>>
        BY <2>1, <4>1 DEF TypeOK, Live
      <4>2. CASE i' = i + 1 /\ QueueForSpawn(m) /\ UNCHANGED pc
        <5>1. modules_to_spawn' = Append(modules_to_spawn, m) /\ children' = children
          BY <4>2 DEF QueueForSpawn
        <5>2. i' \in 1..Len(Order) + 1
          BY <2>1, <4>2
        <5>. QED
          BY <2>3, <4>2, <5>1, <5>2 DEF TypeOK
      <4>3. CASE pc' = "failed" /\ UNCHANGED <<i, modules_to_spawn, children>>
        BY <2>1, <4>3 DEF TypeOK
      <4>. QED
        BY <3>1, <4>1, <4>2, <4>3
    <3>. QED
      BY <3>1, <3>2, <3>3 DEF TypeOK
  <2>. QED
    BY <2>4, <2>5
<1>2. CASE EndRegister
  BY <1>2 DEF EndRegister, TypeOK, Live
<1>3. CASE SpawnModule
  <2>1. /\ Head(modules_to_spawn) \in ConfigModules
        /\ Tail(modules_to_spawn) \in Seq(ConfigModules)
    BY <1>3, HeadTailProperties DEF SpawnModule, TypeOK
  <2>. QED
    BY <1>3, <2>1 DEF SpawnModule, TypeOK, Live
<1>4. CASE EndSpawn
  BY <1>4 DEF EndSpawn, AfterSpawn, TypeOK, Live
<1>5. CASE \E m \in Module : Reap(m)
  BY <1>5, EmptyMapType DEF Reap, TypeOK, Live, EmptyMap
<1>7. CASE Exit
  BY <1>7 DEF Exit, TypeOK, Live
<1>8. ASSUME NEW m \in Module, ChildExit(m) PROVE TypeOK'
  BY <1>8 DEF ChildExit, TypeOK
<1>9. ASSUME NEW m \in Module, SendReady(m) PROVE TypeOK'
  BY <1>9 DEF SendReady, TypeOK
<1>10. ASSUME NEW m \in Module, Dequeue(m) PROVE TypeOK'
  BY <1>10 DEF Dequeue, TypeOK
<1>11. ASSUME NEW m \in Module, HandleReady(m) PROVE TypeOK'
  <2>1. CASE m \notin DOMAIN modules_ready
    BY <1>11, <2>1 DEF HandleReady, TypeOK, Live
  <2>2. CASE m \in DOMAIN modules_ready
    <3>1. /\ ReadyAfter(modules_ready, m) \in [DOMAIN modules_ready -> BOOLEAN]
          /\ DOMAIN ReadyAfter(modules_ready, m) = DOMAIN modules_ready
      BY <2>2, MapUpdates DEF TypeOK
    <3>. QED
      BY <1>11, <2>2, <3>1 DEF HandleReady, TypeOK
  <2>. QED
    BY <2>1, <2>2
<1>12. CASE UNCHANGED vars
  BY <1>12 DEF vars, TypeOK
<1>. QED
  BY <1>1, <1>2, <1>3, <1>4, <1>5, <1>7, <1>8, <1>9, <1>10, <1>11, <1>12
     DEF Next, Manager

\* The state start_modules begins from is well typed.
LEMMA TypeInit == Init => TypeOK
<1> SUFFICES ASSUME Init PROVE TypeOK
  OBVIOUS
<1>1. DOMAIN modules_ready = {} /\ modules_ready \in [{} -> BOOLEAN]
  BY EmptyMapType DEF Init
<1>2. modules_to_spawn \in Seq(ConfigModules)
  BY EmptySeq DEF Init
<1>3. Len(Order) \in Nat
  BY LenProperties
<1>. QED
  BY <1>1, <1>2, <1>3 DEF Init, TypeOK, Live

(* The manager's variables keep their types: this is what every other     *)
(* proof about the barrier starts from.                                    *)
THEOREM TypeCorrect == Spec => []TypeOK
<1>1. Init => TypeOK
  BY TypeInit
<1>2. TypeOK /\ [Next]_vars => TypeOK'
  BY TypeStep
<1>. QED
  BY <1>1, <1>2, PTL DEF Spec

-----------------------------------------------------------------------------
(* The barrier, without standalone modules.                                *)

\* Without standalone modules nothing is sent, queued or set before the loop ends.
LEMMA BarrierInit ==
    ASSUME Standalone = {}
    PROVE  Init => BarrierInv
<1> SUFFICES ASSUME Init PROVE BarrierInv
  OBVIOUS
<1>1. TypeOK
  BY TypeInit
<1>2. DOMAIN modules_ready = {} /\ {Order[j] : j \in 1..1 - 1} = {}
  BY EmptyMapType DEF Init
<1>. QED
  BY <1>1, <1>2 DEF Init, BarrierInv, GlobalReadyOnlyAfterAllReady

\* The registration loop's map holds exactly the non-ignored ids visited so far.
LEMMA PrefixStep ==
    ASSUME NEW k \in 1..Len(Order)
    PROVE  /\ Order[k] \in Ignored =>
                 {Order[j] : j \in 1..k} \ Ignored = {Order[j] : j \in 1..k - 1} \ Ignored
           /\ Order[k] \notin Ignored =>
                 {Order[j] : j \in 1..k} \ Ignored
                   = ({Order[j] : j \in 1..k - 1} \ Ignored) \cup {Order[k]}
<1>1. 1..k = (1..k - 1) \cup {k}
  OBVIOUS
<1>. QED
  BY <1>1

\* Every step keeps BarrierInv when no module is standalone.
LEMMA BarrierStep ==
    ASSUME Standalone = {}, BarrierInv, [Next]_vars
    PROVE  BarrierInv'
<1> USE DEF BarrierInv, GlobalReadyOnlyAfterAllReady
<1>0. TypeOK'
  BY TypeStep
<1>1. CASE RegisterModule
  <2> DEFINE m == Order[i]
  <2>1. i \in 1..Len(Order) /\ pc = "register" /\ Len(Order) \in Nat
    BY <1>1, LenProperties DEF RegisterModule
  <2>2. UNCHANGED <<zombies, pending, inflight, sent, published, waiting>>
    BY <1>1 DEF RegisterModule
  <2>3. CASE m \in Ignored
    <3>1. i' = i + 1 /\ UNCHANGED <<pc, modules_ready, children>>
      BY <1>1, <2>3 DEF RegisterModule
    <3>2. {Order[j] : j \in 1..i' - 1} \ Ignored = {Order[j] : j \in 1..i - 1} \ Ignored
      BY <2>1, <2>3, <3>1, PrefixStep
    <3>. QED
      BY <1>0, <2>1, <2>2, <3>1, <3>2
  <2>4. CASE m \notin Ignored
    <3>1. /\ modules_ready' = Emplace(modules_ready, m)
          /\ \/ i' = i + 1 /\ UNCHANGED <<pc, children>>
             \/ pc' = "failed"
      BY <1>1, <2>4 DEF RegisterModule, QueueForSpawn
    <3>2. /\ DOMAIN modules_ready' = DOMAIN modules_ready \cup {m}
          /\ \A x \in DOMAIN modules_ready' :
                modules_ready'[x] => x \in DOMAIN modules_ready /\ modules_ready[x]
      BY <3>1 DEF Emplace
    <3>3. \A x \in DOMAIN modules_ready' : modules_ready'[x] => sent'[x] > 0
      BY <2>2, <3>2
    <3>4. CASE i' = i + 1 /\ UNCHANGED <<pc, children>>
      <4>1. DOMAIN modules_ready' = {Order[j] : j \in 1..i' - 1} \ Ignored
        BY <2>1, <2>4, <3>2, <3>4, PrefixStep
      <4>. QED
        BY <1>0, <2>1, <2>2, <3>3, <3>4, <4>1
    <3>5. CASE pc' = "failed"
      BY <1>0, <2>2, <3>3, <3>5
    <3>. QED
      BY <3>1, <3>4, <3>5
  <2>. QED
    BY <2>3, <2>4
<1>2. CASE EndRegister
  <2>1. i - 1 = Len(Order) /\ Len(Order) \in Nat
    BY <1>2, LenProperties DEF EndRegister
  <2>2. DOMAIN modules_ready' = Registered
    BY <1>2, <2>1 DEF EndRegister, Registered, ConfigModules
  <2>. QED
    BY <1>0, <1>2, <2>2 DEF EndRegister
<1>3. CASE SpawnModule
  BY <1>0, <1>3 DEF SpawnModule
<1>4. CASE EndSpawn
  BY <1>0, <1>4 DEF EndSpawn, AfterSpawn
<1>5. ASSUME NEW m \in Module, Reap(m) PROVE BarrierInv'
  BY <1>0, <1>5, EmptyMapType DEF Reap
<1>7. CASE Exit
  BY <1>0, <1>7 DEF Exit
<1>8. ASSUME NEW m \in Module, ChildExit(m) PROVE BarrierInv'
  BY <1>0, <1>8 DEF ChildExit
<1>9. ASSUME NEW m \in Module, SendReady(m) PROVE BarrierInv'
  <2>1. pc # "register"
    BY <1>9 DEF SendReady
  <2>2. \A x \in Module : sent'[x] >= sent[x] /\ (x = m => sent'[x] > 0)
    BY <1>9 DEF SendReady, TypeOK
  <2>. QED
    BY <1>0, <1>9, <2>1, <2>2 DEF SendReady, TypeOK
<1>10. ASSUME NEW m \in Module, Dequeue(m) PROVE BarrierInv'
  BY <1>0, <1>10 DEF Dequeue, TypeOK
<1>11. ASSUME NEW m \in Module, HandleReady(m) PROVE BarrierInv'
  <2>1. sent[m] > 0 /\ pc \in {"spawn", "running", "shutdown"}
    BY <1>11 DEF HandleReady, TypeOK, Live
  <2>2. UNCHANGED <<i, subscribed, children, zombies, pending, sent>>
    BY <1>11 DEF HandleReady
  <2>3. \A x \in Module : inflight'[x] => inflight[x]
    BY <1>11 DEF HandleReady, TypeOK
  <2>4. CASE m \notin DOMAIN modules_ready
    BY <1>0, <1>11, <2>2, <2>3, <2>4 DEF HandleReady
  <2>5. CASE m \in DOMAIN modules_ready
    <3>1. DOMAIN modules_ready = Registered /\ pc' = pc
      BY <1>11, <2>1, <2>5 DEF HandleReady
    <3>2. modules_ready' = ReadyAfter(modules_ready, m)
      BY <1>11, <2>5 DEF HandleReady
    <3>3. /\ DOMAIN modules_ready' = Registered
          /\ \A x \in Registered : modules_ready'[x] => sent'[x] > 0
      BY <2>1, <2>2, <3>1, <3>2 DEF ReadyAfter
    <3>4. published' > 0 => published > 0 \/ AllReady(modules_ready')
      BY <1>11, <2>5, <3>2 DEF HandleReady, TypeOK
    <3>5. published' > 0 => \A x \in Registered : sent'[x] > 0
      BY <2>2, <3>3, <3>4 DEF AllReady
    <3>. QED
      BY <1>0, <2>2, <2>3, <3>1, <3>3, <3>5
  <2>. QED
    BY <2>4, <2>5
<1>12. CASE UNCHANGED vars
  <2>1. /\ pc' = pc /\ i' = i /\ modules_ready' = modules_ready
        /\ children' = children /\ zombies' = zombies /\ pending' = pending
        /\ inflight' = inflight /\ sent' = sent /\ published' = published
    BY <1>12 DEF vars
  <2>. QED
    BY <1>0, <2>1
<1>. QED
  BY <1>1, <1>2, <1>3, <1>4, <1>5, <1>7, <1>8, <1>9, <1>10, <1>11, <1>12
     DEF Next, Manager

(* Spec 8, for every configuration without standalone modules: the ready   *)
(* handler publishes the global ready only after every non-ignored module  *)
(* has signalled, although start_modules registers the handlers while the  *)
(* broker's handler threads already run.                                   *)
THEOREM BarrierSafety ==
    ASSUME Standalone = {}
    PROVE  Spec => []GlobalReadyOnlyAfterAllReady
<1>1. Init => BarrierInv
  BY BarrierInit
<1>2. BarrierInv /\ [Next]_vars => BarrierInv'
  BY BarrierStep
<1>3. BarrierInv => GlobalReadyOnlyAfterAllReady
  BY DEF BarrierInv
<1>. QED
  BY <1>1, <1>2, <1>3, PTL DEF Spec

-----------------------------------------------------------------------------
(* The global ready is published once, without standalone modules.        *)

\* Count turns a condition into 0 or 1.
LEMMA CountFacts ==
    ASSUME NEW b \in BOOLEAN
    PROVE  /\ Count(b) \in {0, 1}
           /\ b <=> Count(b) = 1
           /\ ~b <=> Count(b) = 0
BY DEF Count

\* A weaker condition counts no more.
LEMMA CountMono ==
    ASSUME NEW a \in BOOLEAN, NEW b \in BOOLEAN, a => b
    PROVE  Count(a) <= Count(b)
BY DEF Count

\* Every step keeps ReadyOnceInv when no module is standalone.
LEMMA ReadyOnceStep ==
    ASSUME Standalone = {}, ReadyOnceInv, [Next]_vars
    PROVE  ReadyOnceInv'
<1> USE DEF ReadyOnceInv
<1>0. BarrierInv' /\ TypeOK' /\ TypeOK
  BY BarrierStep DEF BarrierInv
<1>1. \A x \in Module :
         /\ pending[x] \in Nat /\ pending'[x] \in Nat
         /\ sent[x] \in Nat /\ sent'[x] \in Nat /\ published \in Nat
  BY <1>0 DEF TypeOK
<1>2. \A x \in Module :
         /\ inflight[x] \in BOOLEAN /\ inflight'[x] \in BOOLEAN
         /\ Flag(x) \in BOOLEAN /\ Flag(x)' \in BOOLEAN
  BY <1>0 DEF TypeOK, Flag
\* The counts as numbers, and as conditions.
<1>3. \A x \in Module :
         /\ Count(inflight[x]) \in {0, 1} /\ Count(inflight'[x]) \in {0, 1}
         /\ Count(Flag(x)) \in {0, 1} /\ Count(Flag(x)') \in {0, 1}
  BY <1>2, CountFacts
<1>4. \A x \in Module :
         /\ inflight[x] <=> Count(inflight[x]) = 1
         /\ ~inflight[x] <=> Count(inflight[x]) = 0
         /\ inflight'[x] <=> Count(inflight'[x]) = 1
         /\ ~inflight'[x] <=> Count(inflight'[x]) = 0
         /\ Flag(x) <=> Count(Flag(x)) = 1
         /\ Flag(x)' <=> Count(Flag(x)') = 1
  BY <1>2, CountFacts, Zenon
<1>5. \A x \in Module :
         /\ Held(x) = pending[x] + Count(inflight[x]) + Count(Flag(x))
         /\ Held(x)' = pending'[x] + Count(inflight'[x]) + Count(Flag(x)')
  BY DEF Held, Count
<1>6. \A x \in Module : Held(x) \in Nat /\ Held(x)' \in Nat
  BY <1>1, <1>3, <1>5
<1> DEFINE Keep(x) == Held(x)' <= Held(x)
\* A message of x is not created: neither queued, nor taken, nor recorded.
<1>7. \A x \in Module :
         (/\ pending'[x] <= pending[x]
          /\ inflight'[x] => inflight[x]
          /\ Flag(x)' => Flag(x)) => Keep(x)
  <2> SUFFICES ASSUME NEW x \in Module, pending'[x] <= pending[x],
                      inflight'[x] => inflight[x], Flag(x)' => Flag(x)
               PROVE  Keep(x)
    OBVIOUS
  <2>1. Count(inflight'[x]) <= Count(inflight[x]) /\ Count(Flag(x)') <= Count(Flag(x))
    BY <1>2, CountMono
  <2>. QED
    BY <1>1, <1>3, <1>5, <2>1
\* A step that creates no message and publishes nothing keeps the invariant.
<1>8. /\ \A x \in Module : Keep(x)
      /\ UNCHANGED <<sent, published>>
      /\ subscribed' \subseteq Registered
      /\ published > 0 => \A x \in Module : pending'[x] = 0 /\ ~inflight'[x]
      => ReadyOnceInv'
  BY <1>0, <1>1, <1>6
<1>9. ASSUME UNCHANGED <<pending, inflight, modules_ready, subscribed, sent, published>>
      PROVE  ReadyOnceInv'
  <2>1. \A x \in Module : Flag(x)' = Flag(x)
    BY <1>9 DEF Flag
  <2>. QED
    BY <1>9, <1>1, <1>7, <1>8, <2>1
\* A ready message of x left over once the global ready is out: impossible.
<1>10. ASSUME NEW x \in Module, Held(x) <= 1, Count(Flag(x)) = 1 \/ sent[x] = 0
       PROVE  pending[x] = 0 /\ ~inflight[x]
  <2>1. pending[x] = 0 /\ Count(inflight[x]) = 0
    BY <1>10, <1>1, <1>3, <1>5
  <2>. QED
    BY <2>1, <1>4
<1>11. CASE RegisterModule
  <2> DEFINE m == Order[i]
  <2>1. i \in 1..Len(Order) /\ m \in ConfigModules
    BY <1>11 DEF RegisterModule, ConfigModules
  <2>2. UNCHANGED <<pending, inflight, sent, published>>
    BY <1>11 DEF RegisterModule
  <2>3. subscribed' \subseteq Registered
    BY <1>11, <2>1 DEF RegisterModule, Registered
  <2>4. \A x \in Module : Flag(x)' => Flag(x)
    <3>1. modules_ready' = modules_ready \/ modules_ready' = Emplace(modules_ready, m)
      BY <1>11 DEF RegisterModule
    <3>2. CASE modules_ready' = modules_ready
      BY <3>2 DEF Flag
    <3>3. CASE modules_ready' = Emplace(modules_ready, m)
      BY <3>3 DEF Emplace, Flag
    <3>. QED
      BY <3>1, <3>2, <3>3
  <2>5. \A x \in Module : Keep(x)
    BY <1>1, <1>7, <2>2, <2>4
  <2>. QED
    BY <1>8, <2>2, <2>3, <2>5
<1>12. CASE EndRegister \/ SpawnModule \/ EndSpawn \/ Exit
  <2>1. UNCHANGED <<pending, inflight, modules_ready, subscribed, sent, published>>
    BY <1>12 DEF EndRegister, SpawnModule, EndSpawn, Exit
  <2>. QED
    BY <1>9, <2>1
<1>13. ASSUME NEW m \in Module, Reap(m) \/ ChildExit(m) PROVE ReadyOnceInv'
  <2>1. /\ UNCHANGED <<pending, inflight, sent, published>>
        /\ subscribed' \subseteq subscribed
        /\ modules_ready' = modules_ready \/ modules_ready' = EmptyMap
    BY <1>13 DEF Reap, ChildExit
  <2>2. \A x \in Module : Flag(x)' => Flag(x)
    BY <2>1, EmptyMapType DEF Flag
  <2>3. \A x \in Module : Keep(x)
    BY <1>1, <1>7, <2>1, <2>2
  <2>. QED
    BY <1>8, <2>1, <2>3
<1>14. ASSUME NEW m \in Module, SendReady(m) PROVE ReadyOnceInv'
  <2>1. m \in subscribed /\ m \in Registered /\ sent[m] = 0
    BY <1>14 DEF SendReady
  <2>2. published = 0
    BY <1>1, <2>1 DEF BarrierInv, GlobalReadyOnlyAfterAllReady
  <2>3. /\ sent' = [sent EXCEPT ![m] = 1]
        /\ pending' = [pending EXCEPT ![m] = @ + 1]
        /\ UNCHANGED <<inflight, modules_ready, subscribed, published>>
    BY <1>14, <2>1 DEF SendReady
  <2>4. \A x \in Module : Flag(x)' = Flag(x)
    BY <2>3 DEF Flag
  <2>5. \A x \in Module : /\ pending'[x] = pending[x] + (IF x = m THEN 1 ELSE 0)
                          /\ sent'[x] = sent[x] + (IF x = m THEN 1 ELSE 0)
    BY <1>0, <2>1, <2>3 DEF TypeOK
  <2>6. \A x \in Module : Held(x)' <= sent'[x] /\ sent'[x] <= 1
    BY <1>1, <1>3, <1>5, <2>1, <2>3, <2>4, <2>5
  <2>7. \A x \in Module \ Registered : sent'[x] = 0
    BY <2>1, <2>3
  <2>. QED
    BY <1>0, <2>1, <2>2, <2>3, <2>6, <2>7
<1>15. ASSUME NEW m \in Module, Dequeue(m) PROVE ReadyOnceInv'
  <2>1. pending[m] > 0 /\ ~inflight[m]
    BY <1>15 DEF Dequeue
  <2>2. published = 0
    BY <1>1, <2>1
  <2>3. /\ pending' = [pending EXCEPT ![m] = @ - 1]
        /\ inflight' = [inflight EXCEPT ![m] = TRUE]
        /\ UNCHANGED <<sent, published, subscribed, modules_ready>>
    BY <1>15 DEF Dequeue
  <2>4. \A x \in Module : Flag(x)' = Flag(x)
    BY <2>3 DEF Flag
  <2>5. Keep(m)
    <3>1. pending'[m] = pending[m] - 1
      BY <1>0, <2>3 DEF TypeOK
    <3>2. inflight'[m]
      BY <1>0, <2>3 DEF TypeOK
    <3>3. Count(inflight'[m]) = 1 /\ Count(inflight[m]) = 0
      BY <1>4, <2>1, <3>2, Zenon
    <3>4. Count(Flag(m)') = Count(Flag(m))
      BY <2>4
    <3>. QED
      BY <1>1, <1>3, <1>5, <3>1, <3>3, <3>4
  <2>6. \A x \in Module : Keep(x)
    <3> SUFFICES ASSUME NEW x \in Module, x # m PROVE Keep(x)
      BY <2>5
    <3>1. pending'[x] <= pending[x] /\ (inflight'[x] => inflight[x]) /\ (Flag(x)' => Flag(x))
      BY <1>0, <1>1, <2>3, <2>4 DEF TypeOK
    <3>. QED
      BY <1>7, <3>1
  <2>. QED
    BY <1>8, <2>2, <2>3, <2>6
<1>16. ASSUME NEW m \in Module, HandleReady(m) PROVE ReadyOnceInv'
  <2>1. inflight[m] /\ sent[m] > 0
    BY <1>16 DEF HandleReady, BarrierInv
  <2>2. published = 0
    BY <1>1, <2>1
  <2>3. UNCHANGED <<pending, sent, subscribed>>
    BY <1>16 DEF HandleReady
  <2>4. inflight' = [inflight EXCEPT ![m] = FALSE]
    BY <1>16 DEF HandleReady
  <2>5. \A x \in Module \ {m} : Flag(x)' => Flag(x)
    BY <1>16 DEF HandleReady, ReadyAfter, Flag
  <2>6. \A x \in Module \ {m} : Keep(x)
    <3> SUFFICES ASSUME NEW x \in Module \ {m} PROVE Keep(x)
      OBVIOUS
    <3>1. pending'[x] <= pending[x] /\ (inflight'[x] => inflight[x]) /\ (Flag(x)' => Flag(x))
      BY <1>0, <1>1, <2>3, <2>4, <2>5 DEF TypeOK
    <3>. QED
      BY <1>7, <3>1
  <2>7. ~inflight'[m]
    BY <1>0, <2>4 DEF TypeOK
  <2>8. CASE m \notin DOMAIN modules_ready
    <3>1. UNCHANGED <<modules_ready, published>>
      BY <1>16, <2>8 DEF HandleReady
    <3>2. Keep(m)
      <4>1. pending'[m] <= pending[m] /\ (Flag(m)' => Flag(m))
        BY <1>1, <2>3, <3>1 DEF Flag
      <4>. QED
        BY <1>7, <2>7, <4>1
    <3>. QED
      BY <1>8, <2>2, <2>3, <2>6, <3>1, <3>2
  <2>9. CASE m \in DOMAIN modules_ready
    <3>1. DOMAIN modules_ready = Registered
      BY <1>0, <1>16, <2>1, <2>9 DEF HandleReady, BarrierInv, TypeOK, Live
    <3>2. modules_ready' = ReadyAfter(modules_ready, m)
      BY <1>16, <2>9 DEF HandleReady
    <3>3. Keep(m)
      <4>1. Flag(m)'
        BY <2>9, <3>2 DEF Flag, ReadyAfter
      <4>2. Count(Flag(m)') = 1 /\ Count(inflight'[m]) = 0 /\ Count(inflight[m]) = 1
        BY <1>4, <2>1, <2>7, <4>1, Zenon
      <4>. QED
        BY <1>1, <1>3, <1>5, <2>3, <4>2
    <3>4. published' \in {0, 1} /\ (published' > 0 => AllReady(modules_ready'))
      BY <1>16, <2>2, <2>9, <3>2 DEF HandleReady
    <3>5. published' > 0 => \A x \in Module : pending'[x] = 0 /\ ~inflight'[x]
      <4> SUFFICES ASSUME published' > 0, NEW x \in Module
                   PROVE  pending[x] = 0 /\ ~inflight'[x]
        BY <2>3
      <4>0. Held(x) <= 1
        BY <1>1, <1>6
      <4>1. CASE x = m
        <5>1. Count(inflight[m]) = 1
          BY <1>4, <2>1, Zenon
        <5>2. pending[m] = 0
          BY <1>1, <1>3, <1>5, <4>0, <4>1, <5>1
        <5>. QED
          BY <2>7, <4>1, <5>2
      <4>2. CASE x # m /\ x \in Registered
        <5>1. Flag(x)
          BY <3>1, <3>2, <3>4, <4>2 DEF AllReady, ReadyAfter, Flag
        <5>2. Count(Flag(x)) = 1
          BY <1>4, <5>1, Zenon
        <5>3. inflight'[x] = inflight[x]
          BY <1>0, <2>4, <4>2 DEF TypeOK
        <5>. QED
          BY <1>10, <4>0, <5>2, <5>3
      <4>3. CASE x \notin Registered
        <5>0. x # m
          BY <2>1, <4>3
        <5>1. inflight'[x] = inflight[x]
          BY <1>0, <2>4, <5>0 DEF TypeOK
        <5>. QED
          BY <1>10, <4>0, <4>3, <5>1
      <4>. QED
        BY <4>1, <4>2, <4>3
    <3>6. \A x \in Module : Held(x)' <= sent'[x] /\ sent'[x] <= 1
      BY <1>1, <1>6, <2>3, <2>6, <3>3
    <3>. QED
      BY <1>0, <2>3, <3>4, <3>5, <3>6
  <2>. QED
    BY <2>8, <2>9
<1>17. CASE UNCHANGED vars
  BY <1>9, <1>17 DEF vars
<1>. QED
  BY <1>11, <1>12, <1>13, <1>14, <1>15, <1>16, <1>17 DEF Next, Manager

\* Initially nothing is sent, queued or published.
LEMMA ReadyOnceInit ==
    ASSUME Standalone = {}
    PROVE  Init => ReadyOnceInv
<1> SUFFICES ASSUME Init PROVE ReadyOnceInv
  OBVIOUS
<1>1. BarrierInv
  BY BarrierInit
<1>2. \A m \in Module : Held(m) = 0
  BY EmptyMapType DEF Init, Held, Count, Flag
<1>. QED
  BY <1>1, <1>2 DEF Init, ReadyOnceInv

(* Spec 8, for every configuration without standalone modules (every       *)
(* forked child signals ready once): the ready handler publishes the global *)
(* ready at most once, although every handler thread re-evaluates all_of   *)
(* over modules_ready after each message.  A restarted standalone module   *)
(* signals again and makes it false; that case is model-checked only.      *)
THEOREM ReadyPublishedOnce ==
    ASSUME Standalone = {}
    PROVE  Spec => []GlobalReadyOnce
<1>1. ReadyOnceInv => GlobalReadyOnce
  BY DEF ReadyOnceInv, GlobalReadyOnce
<1>. QED
  BY <1>1, ReadyOnceInit, ReadyOnceStep, PTL DEF Spec

(* For every configuration without standalone modules, BarrierInv, which   *)
(* barrier_managed checks, holds in every reachable state.                 *)
THEOREM BarrierInvariant ==
    ASSUME Standalone = {}
    PROVE  Spec => []BarrierInv
BY BarrierInit, BarrierStep, PTL DEF Spec

-----------------------------------------------------------------------------
(* The refinement of StartupBarrier.                                       *)

\* The set of modules the abstract barrier has seen report.
Reported == {x \in Module : sent[x] > 0}

\* Initially nobody has reported, nothing is published and boot goes on.
LEMMA RefinementInit == Init => Barrier!Init
BY DEF Init, Barrier!Init, Abandoned

(* Every step of the detailed barrier is a step of StartupBarrier or a     *)
(* stutter: a first ready message is a report, the first global ready is   *)
(* the opening, a failure or a module exit abandons start-up.              *)
LEMMA RefinementStep ==
    ASSUME TypeOK, pc = "shutdown" => DOMAIN modules_ready = {},
           GlobalReadyOnlyAfterAllReady', [Next]_vars
    PROVE  [Barrier!Next]_Barrier!vars
<1> DEFINE Stutter == UNCHANGED <<Reported, published > 0, Abandoned>>
<1> DEFINE Abandons == ~Abandoned /\ Abandoned' /\ UNCHANGED <<Reported, published > 0>>
<1>s. Stutter \/ Abandons => [Barrier!Next]_Barrier!vars
  BY DEF Reported, Barrier!Next, Barrier!vars, Barrier!Abandon
<1>1. CASE RegisterModule
  <2>1. UNCHANGED <<sent, published>> /\ pc = "register" /\ pc' \in {"register", "failed"}
    BY <1>1 DEF RegisterModule
  <2>2. Stutter \/ Abandons
    BY <2>1 DEF Abandoned, Reported
  <2>. QED
    BY <2>2, <1>s
<1>2. CASE EndRegister
  <2>1. Stutter
    BY <1>2 DEF EndRegister, Abandoned, Reported
  <2>. QED
    BY <2>1, <1>s
<1>3. CASE SpawnModule
  <2>1. UNCHANGED <<sent, published>> /\ pc = "spawn" /\ pc' \in {"spawn", "failed"}
    BY <1>3 DEF SpawnModule
  <2>2. Stutter \/ Abandons
    BY <2>1 DEF Abandoned, Reported
  <2>. QED
    BY <2>2, <1>s
<1>4. CASE EndSpawn
  <2>1. UNCHANGED <<sent, published>> /\ pc = "spawn" /\ pc' \in {"running", "waitpid_error"}
    BY <1>4 DEF EndSpawn, AfterSpawn
  <2>2. Stutter \/ Abandons
    BY <2>1 DEF Abandoned, Reported
  <2>. QED
    BY <2>2, <1>s
<1>5. ASSUME NEW m \in Module, Reap(m) PROVE [Barrier!Next]_Barrier!vars
  <2>1. Stutter \/ Abandons
    BY <1>5 DEF Reap, Abandoned, Reported
  <2>. QED
    BY <2>1, <1>s
<1>7. CASE Exit
  <2>1. Stutter
    BY <1>7 DEF Exit, Abandoned, Reported
  <2>. QED
    BY <2>1, <1>s
<1>8. ASSUME NEW m \in Module, ChildExit(m) PROVE [Barrier!Next]_Barrier!vars
  <2>1. Stutter
    BY <1>8 DEF ChildExit, Abandoned, Reported
  <2>. QED
    BY <2>1, <1>s
<1>9. ASSUME NEW m \in Module, SendReady(m) PROVE [Barrier!Next]_Barrier!vars
  <2>1. /\ sent' = [sent EXCEPT ![m] = @ + 1]
        /\ UNCHANGED <<pc, published>>
    BY <1>9 DEF SendReady
  <2>2. sent \in [Module -> 0..MaxReady]
    BY DEF TypeOK
  <2>3. CASE sent[m] = 0
    \* A first ready message: the module reports.
    <3>1. Reported' = Reported \cup {m} /\ m \notin Reported
      BY <2>1, <2>2, <2>3 DEF Reported
    <3>2. Barrier!Report(m)
      BY <2>1, <3>1 DEF Barrier!Report, Reported, Abandoned
    <3>. QED
      BY <3>2 DEF Barrier!Next, Barrier!vars
  <2>4. CASE sent[m] # 0
    \* A repeated ready message changes nothing the barrier sees.
    <3>1. Reported' = Reported
      BY <2>1, <2>2, <2>4 DEF Reported
    <3>2. Stutter
      BY <2>1, <3>1 DEF Abandoned
    <3>. QED
      BY <3>2, <1>s
  <2>. QED
    BY <2>3, <2>4
<1>10. ASSUME NEW m \in Module, Dequeue(m) PROVE [Barrier!Next]_Barrier!vars
  <2>1. Stutter
    BY <1>10 DEF Dequeue, Abandoned, Reported
  <2>. QED
    BY <2>1, <1>s
<1>11. ASSUME NEW m \in Module, HandleReady(m) PROVE [Barrier!Next]_Barrier!vars
  <2>1. UNCHANGED sent /\ pc \in Live
    BY <1>11 DEF HandleReady
  <2>2. CASE m \notin DOMAIN modules_ready
    \* The at() of a cleared map: the handler thread aborts the manager.
    <3>1. pc' = "aborted" /\ UNCHANGED published
      BY <1>11, <2>2 DEF HandleReady
    <3>2. Stutter \/ Abandons
      BY <2>1, <3>1 DEF Abandoned, Reported, Live
    <3>. QED
      BY <3>2, <1>s
  <2>3. CASE m \in DOMAIN modules_ready
    <3>1. UNCHANGED pc /\ published' \in {published, published + 1}
      BY <1>11, <2>3 DEF HandleReady
    <3>2. pc # "shutdown"
      \* shutdown_modules left the map empty.
      BY <2>3
    <3>3. published \in Nat
      BY DEF TypeOK
    <3>4. CASE published = 0 /\ published' = 1
      \* The first global ready: every registered module had reported.
      <4>1. Registered \subseteq Module
        BY DEF Registered, ConfigModules
      <4>2. \A x \in Registered : sent'[x] > 0
        BY <3>4 DEF GlobalReadyOnlyAfterAllReady
      <4>3. Registered \subseteq Reported
        BY <2>1, <4>1, <4>2 DEF Reported
      <4>4. Barrier!Open
        BY <2>1, <3>1, <3>2, <3>4, <4>3 DEF Barrier!Open, Abandoned, Reported, Live
      <4>. QED
        BY <4>4 DEF Barrier!Next, Barrier!vars
    <3>5. CASE ~(published = 0 /\ published' = 1)
      <4>1. (published > 0) = (published' > 0)
        BY <3>1, <3>3, <3>5
      <4>2. Stutter
        BY <2>1, <3>1, <4>1 DEF Abandoned, Reported
      <4>. QED
        BY <4>2, <1>s
    <3>. QED
      BY <3>4, <3>5
  <2>. QED
    BY <2>2, <2>3
<1>12. CASE UNCHANGED vars
  <2>1. Stutter
    BY <1>12 DEF vars, Abandoned, Reported
  <2>. QED
    BY <2>1, <1>s
<1>. QED
  BY <1>1, <1>2, <1>3, <1>4, <1>5, <1>7, <1>8, <1>9, <1>10, <1>11, <1>12
     DEF Next, Manager

(* Spec 4.7, for every configuration without standalone modules: the      *)
(* barrier start_modules and the ready handlers build is the one the spec  *)
(* describes, every behaviour of the manager being one of StartupBarrier.  *)
THEOREM BarrierRefinement ==
    ASSUME Standalone = {}
    PROVE  Spec => Barrier!Spec
<1>1. Init => Barrier!Init
  BY RefinementInit
<1>2. BarrierInv /\ [Next]_vars => [Barrier!Next]_Barrier!vars
  <2> SUFFICES ASSUME BarrierInv, [Next]_vars PROVE [Barrier!Next]_Barrier!vars
    OBVIOUS
  <2>1. BarrierInv'
    BY BarrierStep
  <2>. QED
    BY <2>1, RefinementStep DEF BarrierInv
<1>3. Init => BarrierInv
  BY BarrierInit
<1>4. BarrierInv /\ [Next]_vars => BarrierInv'
  BY BarrierStep
<1>. QED
  BY <1>1, <1>2, <1>3, <1>4, PTL DEF Spec, Barrier!Spec


=============================================================================
