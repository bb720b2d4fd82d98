-------------------------- MODULE AgentRegistry_proofs --------------------------
(***************************************************************************)
(* Theorems about AgentRegistry, for any number of agents and sessions and *)
(* any number of restarts.                                                 *)
(***************************************************************************)
EXTENDS AgentRegistry, TLAPS

USE AgentOfAssumption, ProxyCapableAssumption, NoneAssumption, MaxRestartsAssumption

\* Every disjunct of Next but those of the boot sequence, for a session s.
SessionStep(s) == HandlerStep(s) \/ Connect(s) \/ Dispatch(s) \/ StuckClose(s) \/ Return(s)

\* The order of the steps, as facts.
LEMMA ThenFacts ==
  /\ Then("decision") = "greet" /\ Then("greet") = "stash"
  /\ Then("stash") = "register" /\ Then("register") = "upsert"
  /\ Then("upsert") = "evict" /\ Then("evict") = "serving"
BY DEF Then

-----------------------------------------------------------------------------
(* Type correctness.                                                       *)

LEMMA HandlersType ==
  ASSUME TypeOK, NEW s \in Sessions, SessionStep(s)
  PROVE  HandlersTypeOK'
<1> USE ThenFacts DEF TypeOK, HandlersTypeOK, HandlerAt, Goto
<1>1. CASE Decide(s) \/ Promote(s) \/ Demote(s)
  BY <1>1 DEF Decide, Promote, Demote
<1>2. CASE Greet(s) \/ StashMeta(s)
  BY <1>2 DEF Greet, StashMeta
<1>3. CASE Register(s)
  BY <1>3 DEF Register, RegistryTypeOK
<1>4. CASE Upsert(s)
  BY <1>4 DEF Upsert, AfterUpsert
<1>5. CASE CloseEvicted(s)
  BY <1>5 DEF CloseEvicted
<1>6. CASE Unregister(s)
  BY <1>6 DEF Unregister
<1>7. CASE MarkDisconnected(s) \/ CloseSelf(s)
  BY <1>7 DEF MarkDisconnected, CloseSelf
<1>8. CASE Connect(s) \/ Dispatch(s) \/ StuckClose(s) \/ Return(s)
  BY <1>8 DEF Connect, Dispatch, StuckClose, Return
<1> QED
  BY <1>1, <1>2, <1>3, <1>4, <1>5, <1>6, <1>7, <1>8 DEF SessionStep, HandlerStep

LEMMA AddTypes ==
  ASSUME MgrTypeOK
  PROVE  /\ mgr' = AddAgentProxyCluster => MgrTypeOK'
         /\ mgr' = AddMetricsOnlyCluster => MgrTypeOK'
         /\ mgr' = mgr => MgrTypeOK'
<1> DEFINE Entry == [proxy : BOOLEAN, metricsOnly : BOOLEAN, listed : BOOLEAN]
<1>1. mgr.proxy \in BOOLEAN
  BY DEF MgrTypeOK
<1>2. AddMetricsOnlyCluster \in Entry
  BY <1>1, Zenon DEF AddMetricsOnlyCluster
<1>3. AddAgentProxyCluster \in Entry
  BY Zenon DEF AddAgentProxyCluster
<1>4. MgrTypeOK' <=> mgr' \in Entry
  BY DEF MgrTypeOK
<1>5. mgr \in Entry
  BY DEF MgrTypeOK
<1> HIDE DEF Entry
<1> QED
  BY <1>2, <1>3, <1>4, <1>5

\* What a step of a session leaves to the registry, the store and the manager.
LEMMA SessionSharedType ==
  ASSUME TypeOK, NEW s \in Sessions, SessionStep(s)
  PROVE  RegistryTypeOK' /\ StoreTypeOK' /\ MgrTypeOK' /\ ProcessTypeOK'
<1> USE DEF TypeOK, registry, process, history, SessionStep, HandlerStep
<1>1. RegistryTypeOK'
  <2>1. CASE StashMeta(s)
    BY <2>1 DEF StashMeta, RegistryTypeOK
  <2>2. CASE Register(s)
    BY <2>2 DEF Register, RegistryTypeOK
  <2>3. CASE Unregister(s)
    BY <2>3 DEF Unregister, ClearMeta, RegistryTypeOK
  <2>4. CASE ~StashMeta(s) /\ ~Register(s) /\ ~Unregister(s)
    <3>1. UNCHANGED registry
      BY <2>4 DEF Decide, Promote, Demote, Greet, Upsert, CloseEvicted,
         MarkDisconnected, CloseSelf, Connect, Dispatch, StuckClose, Return
    <3> QED
      BY <3>1 DEF RegistryTypeOK
  <2> QED
    BY <2>1, <2>2, <2>3, <2>4
<1>2. StoreTypeOK'
  <2>1. CASE Upsert(s)
    <3> DEFINE new == [kept |-> TRUE, proxy |-> meta[s] \in ProxyCapable, connected |-> TRUE]
    <3>1. new \in Record
      <4>1. \A b \in BOOLEAN : [kept |-> TRUE, proxy |-> b, connected |-> TRUE] \in Record
        BY DEF Record
      <4>2. CASE meta[s] \in ProxyCapable
        BY <4>1, <4>2
      <4>3. CASE ~(meta[s] \in ProxyCapable)
        <5>1. (meta[s] \in ProxyCapable) = FALSE
          BY <4>3
        <5> QED
          BY <4>1, <5>1
      <4> QED
        BY <4>2, <4>3
    <3>2. \/ record' = [record EXCEPT ![AgentOf[s]] = new] /\ UNCHANGED restored
          \/ UNCHANGED <<record, restored>>
      BY <2>1 DEF Upsert
    <3> HIDE DEF new
    <3> QED
      BY <3>1, <3>2 DEF StoreTypeOK
  <2>2. CASE MarkDisconnected(s)
    <3> DEFINE new == [record[AgentOf[s]] EXCEPT !.connected = FALSE]
    <3>1. record[AgentOf[s]] \in Record
      BY DEF StoreTypeOK
    <3>2. new \in Record
      BY <3>1 DEF Record
    <3>3. \/ record' = [record EXCEPT ![AgentOf[s]] = new] /\ UNCHANGED restored
          \/ UNCHANGED <<record, restored>>
      BY <2>2 DEF MarkDisconnected
    <3> HIDE DEF new
    <3> QED
      BY <3>2, <3>3 DEF StoreTypeOK
  <2>3. CASE ~Upsert(s) /\ ~MarkDisconnected(s)
    <3>1. UNCHANGED <<record, restored>>
      BY <2>3 DEF Decide, Promote, Demote, Greet, StashMeta, Register, CloseEvicted,
         Unregister, CloseSelf, Connect, Dispatch, StuckClose, Return
    <3> QED
      BY <3>1 DEF StoreTypeOK
  <2> QED
    BY <2>1, <2>2, <2>3
<1>3. MgrTypeOK'
  <2>1. CASE Promote(s) \/ Demote(s)
    BY <2>1, AddTypes DEF Promote, Demote
  <2>2. CASE ~Promote(s) /\ ~Demote(s)
    <3>1. UNCHANGED mgr
      BY <2>2 DEF Decide, Greet, StashMeta, Register, Upsert, CloseEvicted,
         Unregister, MarkDisconnected, CloseSelf, Connect, Dispatch, StuckClose, Return
    <3> QED
      BY <3>1 DEF MgrTypeOK
  <2> QED
    BY <2>1, <2>2
<1>4. ProcessTypeOK'
  <2>1. CASE Promote(s) \/ Demote(s)
    BY <2>1 DEF Promote, Demote, ProcessTypeOK
  <2>2. CASE Upsert(s) \/ Connect(s)
    BY <2>2 DEF Upsert, Connect, ProcessTypeOK
  <2>3. CASE ~Promote(s) /\ ~Demote(s) /\ ~Upsert(s) /\ ~Connect(s)
    <3>1. UNCHANGED <<process, history>>
      BY <2>3 DEF Decide, Greet, StashMeta, Register, CloseEvicted, Unregister,
         MarkDisconnected, CloseSelf, Dispatch, StuckClose, Return
    <3> QED
      BY <3>1 DEF ProcessTypeOK
  <2> QED
    BY <2>1, <2>2, <2>3
<1> QED
  BY <1>1, <1>2, <1>3, <1>4

LEMMA ProcessStepType ==
  ASSUME TypeOK, OperatorDelete \/ Prune \/ Crash \/ BootStep
  PROVE  TypeOK'
<1> USE DEF TypeOK, handlers, registry, process, history, BootAt
<1>1. CASE OperatorDelete
  <2>1. HandlersTypeOK' /\ RegistryTypeOK'
    BY <1>1 DEF OperatorDelete, HandlersTypeOK, RegistryTypeOK
  <2>2. StoreTypeOK'
    <3>1. NoRecord \in Record
      BY DEF NoRecord, Record
    <3>2. \/ record' = [id \in AgentIds |-> NoRecord] /\ UNCHANGED restored
          \/ UNCHANGED <<record, restored>>
      BY <1>1 DEF OperatorDelete
    <3> QED
      BY <3>1, <3>2 DEF StoreTypeOK
  <2>3. MgrTypeOK'
    BY <1>1 DEF OperatorDelete, MgrTypeOK
  <2>4. ProcessTypeOK'
    BY <1>1 DEF OperatorDelete, ProcessTypeOK
  <2> QED
    BY <2>1, <2>2, <2>3, <2>4
<1>2. CASE Prune
  BY <1>2 DEF Prune, HandlersTypeOK, RegistryTypeOK, StoreTypeOK, MgrTypeOK,
     ProcessTypeOK, Record, NoRecord, Persisted
<1>3. CASE Crash
  <2>1. HandlersTypeOK' /\ RegistryTypeOK'
    BY <1>3 DEF Crash, HandlersTypeOK, RegistryTypeOK, HandlerAt
  <2>2. StoreTypeOK' /\ MgrTypeOK'
    BY <1>3 DEF Crash, StoreTypeOK, MgrTypeOK, Record, NoRecord, NoEntry
  <2>3. ProcessTypeOK'
    BY <1>3 DEF Crash, ProcessTypeOK
  <2> QED
    BY <2>1, <2>2, <2>3
<1>4. CASE BootHTTP \/ BootAttach
  BY <1>4 DEF BootHTTP, BootAttach, HandlersTypeOK, RegistryTypeOK, StoreTypeOK,
     MgrTypeOK, ProcessTypeOK
<1>5. CASE BootList
  <2>1. AllDisconnected \in [AgentIds -> Record]
    BY DEF AllDisconnected, StoreTypeOK, Record
  <2> QED
    BY <1>5, <2>1 DEF BootList, HandlersTypeOK, RegistryTypeOK, StoreTypeOK,
       MgrTypeOK, ProcessTypeOK
<1>6. CASE BootRestore
  <2>1. MgrTypeOK'
    BY <1>6, AddTypes DEF BootRestore, Restored
  <2> QED
    BY <1>6, <2>1 DEF BootRestore, HandlersTypeOK, RegistryTypeOK, StoreTypeOK,
       ProcessTypeOK, Record, NoRecord
<1> QED
  BY <1>1, <1>2, <1>3, <1>4, <1>5, <1>6 DEF BootStep

\* Every variable keeps its type, and CloseEvicted never meets a nil Agent.
THEOREM TypeCorrect == Spec => []TypeOK
<1>1. Init => TypeOK
  <2> SUFFICES ASSUME Init PROVE TypeOK
    OBVIOUS
  <2>1. HandlersTypeOK /\ RegistryTypeOK
    BY DEF Init, HandlersTypeOK, RegistryTypeOK, HandlerAt
  <2>2. StoreTypeOK /\ MgrTypeOK
    BY DEF Init, StoreTypeOK, MgrTypeOK, Record, NoRecord, NoEntry
  <2>3. boot \in BootAt /\ restarts \in 0 .. MaxRestarts /\ fresh \subseteq Sessions
    BY DEF Init, BootAt
  <2>4. known \in BOOLEAN /\ deleted \in BOOLEAN /\ stamped \in BOOLEAN
    BY Zenon DEF Init
  <2> QED
    BY <2>1, <2>2, <2>3, <2>4 DEF TypeOK, ProcessTypeOK
<1>2. TypeOK /\ [Next]_vars => TypeOK'
  <2> SUFFICES ASSUME TypeOK, [Next]_vars PROVE TypeOK'
    OBVIOUS
  <2>1. ASSUME NEW s \in Sessions, SessionStep(s) PROVE TypeOK'
    BY <2>1, HandlersType, SessionSharedType DEF TypeOK
  <2>2. CASE UNCHANGED vars
    BY <2>2 DEF vars, handlers, registry, process, history, TypeOK, HandlersTypeOK,
       RegistryTypeOK, StoreTypeOK, MgrTypeOK, ProcessTypeOK
  <2> QED
    BY <2>1, <2>2, ProcessStepType DEF Next, SessionStep
<1> QED
  BY <1>1, <1>2, PTL DEF Spec
-----------------------------------------------------------------------------
(* The registry.                                                           *)

\* NoZombieEntry is inductive: a handler leaves {upsert .. unregister} only by
\* Unregister, which takes it out of the bucket if it is there.
LEMMA ZombieStep ==
  ASSUME TypeOK, NoZombieEntry, [Next]_vars
  PROVE  NoZombieEntry'
<1> USE ThenFacts
    DEF TypeOK, HandlersTypeOK, RegistryTypeOK, NoZombieEntry, Goto, registry
<1>1. ASSUME NEW s \in Sessions, Register(s) PROVE NoZombieEntry'
  BY <1>1 DEF Register
<1>2. ASSUME NEW s \in Sessions, Unregister(s) PROVE NoZombieEntry'
  BY <1>2 DEF Unregister, IsCurrent
<1>3. ASSUME NEW s \in Sessions, CloseEvicted(s) \/ Return(s) \/ Upsert(s)
      PROVE  NoZombieEntry'
  BY <1>3 DEF CloseEvicted, Return, Upsert, AfterUpsert
<1>4. ASSUME NEW s \in Sessions,
             Decide(s) \/ Promote(s) \/ Demote(s) \/ Greet(s) \/ StashMeta(s)
               \/ MarkDisconnected(s) \/ CloseSelf(s) \/ Connect(s)
      PROVE  NoZombieEntry'
  <2>1. UNCHANGED bucket /\ \A q \in Sessions \ {s} : at'[q] = at[q]
    BY <1>4 DEF Decide, Promote, Demote, Greet, StashMeta, MarkDisconnected,
       CloseSelf, Connect
  <2>2. at[s] \notin {"upsert", "evict", "serving", "unregister"}
    BY <1>4 DEF Decide, Promote, Demote, Greet, StashMeta, MarkDisconnected,
       CloseSelf, Connect
  <2> QED
    BY <2>1, <2>2
<1>5. ASSUME NEW s \in Sessions, Dispatch(s) \/ StuckClose(s)
      PROVE  NoZombieEntry'
  BY <1>5 DEF Dispatch, StuckClose
<1>6. CASE Crash
  BY <1>6 DEF Crash
<1>7. CASE OperatorDelete \/ Prune \/ BootStep \/ UNCHANGED vars
  BY <1>7 DEF OperatorDelete, Prune, BootStep, BootHTTP, BootAttach, BootList,
     BootRestore, vars, handlers
<1> QED
  BY <1>1, <1>2, <1>3, <1>4, <1>5, <1>6, <1>7 DEF Next, HandlerStep

\* A bucket slot never points at a session whose handler is past Unregister.
THEOREM NoZombieEntryHolds == Spec => []NoZombieEntry
<1>1. Init => NoZombieEntry
  BY DEF Init, NoZombieEntry
<1> QED
  BY <1>1, ZombieStep, TypeCorrect, PTL DEF Spec

LEMMA LiveStep ==
  ASSUME TypeOK, NoZombieEntry, LiveIsRegistered, [Next]_vars
  PROVE  LiveIsRegistered'
<1> USE ThenFacts DEF TypeOK, HandlersTypeOK, RegistryTypeOK, Goto, registry
<1> SUFFICES ASSUME NEW u \in Sessions,
                    at'[u] \in {"upsert", "evict", "serving"}, u \notin closed',
                    ~IsCurrent(u)'
             PROVE  \E t \in Sessions : Evicting(t, u)'
  BY DEF LiveIsRegistered
<1>0. at[u] \in {"upsert", "evict", "serving"} /\ u \notin closed =>
        IsCurrent(u) \/ \E t \in Sessions : Evicting(t, u)
  BY DEF LiveIsRegistered
<1>1. ASSUME NEW s \in Sessions, Register(s) PROVE \E t \in Sessions : Evicting(t, u)'
  <2>1. u # s
    BY <1>1 DEF Register, IsCurrent
  <2>2. at[u] \in {"upsert", "evict", "serving"} /\ u \notin closed
    BY <1>1, <2>1 DEF Register
  <2>3. CASE IsCurrent(u)
    BY <1>1, <2>1, <2>2, <2>3 DEF Register, IsCurrent, Evicting
  <2>4. ASSUME NEW t \in Sessions, Evicting(t, u) PROVE Evicting(t, u)'
    BY <1>1, <2>4 DEF Register, Evicting
  <2> QED
    BY <1>0, <2>2, <2>3, <2>4
<1>2. ASSUME NEW s \in Sessions, Unregister(s) PROVE \E t \in Sessions : Evicting(t, u)'
  <2>1. at[u] \in {"upsert", "evict", "serving"} /\ u \notin closed /\ u # s
    BY <1>2 DEF Unregister
  <2>2. ~IsCurrent(u)
    BY <1>2, <2>1 DEF Unregister, IsCurrent
  <2>3. ASSUME NEW t \in Sessions, Evicting(t, u) PROVE Evicting(t, u)'
    BY <1>2, <2>3 DEF Unregister, Evicting
  <2> QED
    BY <1>0, <2>1, <2>2, <2>3
<1>3. ASSUME NEW s \in Sessions, CloseEvicted(s) PROVE \E t \in Sessions : Evicting(t, u)'
  <2>1. at[u] \in {"upsert", "evict", "serving"} /\ u \notin closed /\ ~IsCurrent(u)
    BY <1>3 DEF CloseEvicted, IsCurrent
  <2>2. PICK t \in Sessions : Evicting(t, u)
    BY <1>0, <2>1
  <2>3. t # s
    BY <1>3, <2>2 DEF CloseEvicted, Evicting
  <2>4. Evicting(t, u)'
    BY <1>3, <2>2, <2>3 DEF CloseEvicted, Evicting
  <2> QED
    BY <2>4
<1>4. ASSUME NEW s \in Sessions, Upsert(s) PROVE \E t \in Sessions : Evicting(t, u)'
  <2>1. at[u] \in {"upsert", "evict", "serving"} /\ u \notin closed /\ ~IsCurrent(u)
    BY <1>4 DEF Upsert, AfterUpsert, IsCurrent
  <2>2. ASSUME NEW t \in Sessions, Evicting(t, u) PROVE Evicting(t, u)'
    BY <1>4, <2>2 DEF Upsert, AfterUpsert, Evicting
  <2> QED
    BY <1>0, <2>1, <2>2
<1>5. ASSUME NEW s \in Sessions,
             Decide(s) \/ Promote(s) \/ Demote(s) \/ Greet(s) \/ StashMeta(s)
               \/ MarkDisconnected(s) \/ CloseSelf(s) \/ Connect(s) \/ Return(s)
      PROVE  \E t \in Sessions : Evicting(t, u)'
  <2>1. /\ UNCHANGED <<bucket, evict>> /\ closed \subseteq closed'
        /\ \A q \in Sessions \ {s} : at'[q] = at[q]
        /\ at'[s] \notin {"upsert", "evict", "serving"}
        /\ at[s] \notin {"upsert", "evict"}
    BY <1>5 DEF Decide, Promote, Demote, Greet, StashMeta, MarkDisconnected,
       CloseSelf, Connect, Return
  <2>2. u # s /\ at[u] = at'[u] /\ u \notin closed /\ ~IsCurrent(u)
    BY <2>1 DEF IsCurrent
  <2>3. ASSUME NEW t \in Sessions, Evicting(t, u) PROVE Evicting(t, u)'
    BY <2>1, <2>3 DEF Evicting
  <2> QED
    BY <1>0, <2>2, <2>3
<1>6. CASE Crash
  BY <1>6 DEF Crash, HandlerAt
<1>7. ASSUME UNCHANGED <<at, evict, bucket>>, closed \subseteq closed'
      PROVE  \E t \in Sessions : Evicting(t, u)'
  BY <1>0, <1>7 DEF Evicting, IsCurrent
<1>8. ASSUME NEW s \in Sessions, Dispatch(s) \/ StuckClose(s)
      PROVE  UNCHANGED <<at, evict, bucket>> /\ closed \subseteq closed'
  BY <1>8 DEF Dispatch, StuckClose
<1>9. ASSUME OperatorDelete \/ Prune \/ BootStep \/ UNCHANGED vars
      PROVE  UNCHANGED <<at, evict, bucket>> /\ closed \subseteq closed'
  BY <1>9 DEF OperatorDelete, Prune, BootStep, BootHTTP, BootAttach, BootList,
     BootRestore, vars, handlers
<1> QED
  BY <1>1, <1>2, <1>3, <1>4, <1>5, <1>6, <1>7, <1>8, <1>9 DEF Next, HandlerStep

\* A serving session is registered, or a newer one of its agent is about to
\* close it, or it is closed: eviction and a late Unregister never strand one.
THEOREM LiveIsRegisteredHolds == Spec => []LiveIsRegistered
<1>1. Init => LiveIsRegistered
  BY DEF Init, LiveIsRegistered
<1> QED
  BY <1>1, LiveStep, TypeCorrect, NoZombieEntryHolds, PTL DEF Spec

\* What the registry says and what the handlers do agree, in every order of
\* connects, evictions and late teardowns.
THEOREM RegistryFollowsHandlersHolds == Spec => []RegistryFollowsHandlers
<1>1. LiveIsRegistered /\ NoZombieEntry => RegistryFollowsHandlers
  BY DEF RegistryFollowsHandlers
<1> QED
  BY <1>1, LiveIsRegisteredHolds, NoZombieEntryHolds, PTL
-----------------------------------------------------------------------------
(* What the process and its store remember.                                *)

\* Agents are accepted only when boot has finished.
HandlersNeedBoot == boot # "up" => \A s \in Sessions : at[s] \in {"new", "gone"}

LostInv ==
  /\ LostIsWitnessed
  /\ \A id \in AgentIds : bucket[id] # None => id \in seen

\* MarkAllDisconnected leaves no record connected, and Upsert follows Register.
ConnectedInv ==
  /\ boot \in {"listed", "up"} /\ stamped => \A id \in AgentIds : record[id].connected => id \in seen
  /\ \A s \in Sessions : at[s] = "upsert" => AgentOf[s] \in seen

LEMMA HandlersNeedBootStep ==
  ASSUME TypeOK, HandlersNeedBoot, [Next]_vars
  PROVE  HandlersNeedBoot'
<1> USE DEF TypeOK, HandlersTypeOK, HandlersNeedBoot, Goto, process
<1>1. ASSUME NEW s \in Sessions, Connect(s) PROVE HandlersNeedBoot'
  BY <1>1 DEF Connect
<1>2. ASSUME NEW s \in Sessions, HandlerStep(s) \/ Return(s) PROVE HandlersNeedBoot'
  <2>1. at[s] \notin {"new", "gone"} /\ boot' = boot
    BY <1>2 DEF HandlerStep, Decide, Promote, Demote, Greet, StashMeta, Register,
       Upsert, CloseEvicted, Unregister, MarkDisconnected, CloseSelf, Return
  <2> QED
    BY <2>1
<1>3. ASSUME NEW s \in Sessions, Dispatch(s) \/ StuckClose(s) PROVE HandlersNeedBoot'
  BY <1>3 DEF Dispatch, StuckClose
<1>4. CASE Crash
  BY <1>4 DEF Crash
<1>5. CASE OperatorDelete \/ Prune \/ BootStep \/ UNCHANGED vars
  BY <1>5 DEF OperatorDelete, Prune, BootStep, BootHTTP, BootAttach, BootList,
     BootRestore, vars, handlers
<1> QED
  BY <1>1, <1>2, <1>3, <1>4, <1>5 DEF Next

LEMMA LostStep ==
  ASSUME TypeOK, LostInv, [Next]_vars
  PROVE  LostInv'
<1> USE DEF TypeOK, RegistryTypeOK, LostInv, LostIsWitnessed, registry
<1>1. ASSUME NEW s \in Sessions, Register(s) PROVE LostInv'
  <2>1. bucket'[AgentOf[s]] # None /\ AgentOf[s] \in AgentIds
    BY <1>1 DEF Register
  <2>2. lost' = FALSE /\ seen' # {}
    BY <1>1 DEF Register
  <2>3. \A id \in AgentIds : bucket'[id] # None => id \in seen'
    BY <1>1 DEF Register
  <2> QED
    BY <2>1, <2>2, <2>3
<1>2. ASSUME NEW s \in Sessions, Unregister(s) PROVE LostInv'
  <2>1. CASE IsCurrent(s)
    <3>1. AgentOf[s] \in seen /\ ~lost
      BY <2>1 DEF IsCurrent
    <3>2. /\ bucket' = [bucket EXCEPT ![AgentOf[s]] = None]
          /\ lost' = (lost \/ \A id \in AgentIds : bucket'[id] = None)
          /\ seen' = seen
      BY <1>2, <2>1 DEF Unregister
    <3> QED
      BY <3>1, <3>2
  <2>2. CASE ~IsCurrent(s)
    BY <1>2, <2>2 DEF Unregister
  <2> QED
    BY <2>1, <2>2
<1>3. ASSUME UNCHANGED <<bucket, lost, seen>> PROVE LostInv'
  BY <1>3
<1>4. ASSUME NEW s \in Sessions, SessionStep(s), ~Register(s), ~Unregister(s)
      PROVE  UNCHANGED <<bucket, lost, seen>>
  BY <1>4 DEF SessionStep, HandlerStep, Decide, Promote, Demote, Greet, StashMeta,
     Upsert, CloseEvicted, MarkDisconnected, CloseSelf, Connect, Dispatch,
     StuckClose, Return
<1>5. CASE Crash
  BY <1>5 DEF Crash
<1>6. CASE OperatorDelete \/ Prune \/ BootStep \/ UNCHANGED vars
  BY <1>6 DEF OperatorDelete, Prune, BootStep, BootHTTP, BootAttach, BootList,
     BootRestore, vars
<1> QED
  BY <1>1, <1>2, <1>3, <1>4, <1>5, <1>6 DEF Next, SessionStep

\* LostSince names a moment exactly when this process saw the last agent leave.
THEOREM LostIsWitnessedHolds == Spec => []LostIsWitnessed
<1>1. Init => LostInv
  BY DEF Init, LostInv, LostIsWitnessed
<1>2. LostInv => LostIsWitnessed
  BY DEF LostInv
<1> QED
  BY <1>1, <1>2, LostStep, TypeCorrect, PTL DEF Spec

LEMMA ConnectedStep ==
  ASSUME TypeOK, HandlersNeedBoot, ConnectedInv, [Next]_vars
  PROVE  ConnectedInv'
<1> USE ThenFacts DEF TypeOK, HandlersTypeOK, RegistryTypeOK, StoreTypeOK,
        ConnectedInv, Goto, registry, process, history
<1>1. ASSUME NEW s \in Sessions, Register(s) PROVE ConnectedInv'
  BY <1>1 DEF Register
<1>2. ASSUME NEW s \in Sessions, Upsert(s) PROVE ConnectedInv'
  <2>1. AgentOf[s] \in seen
    BY <1>2 DEF Upsert
  <2>2. \A id \in AgentIds \ {AgentOf[s]} : record'[id] = record[id]
    BY <1>2 DEF Upsert
  <2> QED
    BY <1>2, <2>1, <2>2 DEF Upsert, AfterUpsert
<1>3. ASSUME NEW s \in Sessions, MarkDisconnected(s) PROVE ConnectedInv'
  <2>1. \A id \in AgentIds : record'[id].connected => record[id].connected
    <3>1. \/ record' = [record EXCEPT ![AgentOf[s]] =
                         [record[AgentOf[s]] EXCEPT !.connected = FALSE]]
          \/ UNCHANGED record
      BY <1>3 DEF MarkDisconnected
    <3> QED
      BY <3>1 DEF Record
  <2> QED
    BY <1>3, <2>1 DEF MarkDisconnected
<1>4. ASSUME NEW s \in Sessions, SessionStep(s),
             ~Register(s), ~Upsert(s), ~MarkDisconnected(s)
      PROVE  ConnectedInv'
  <2>1. UNCHANGED <<record, seen, boot, stamped>>
    BY <1>4 DEF SessionStep, HandlerStep, Decide, Promote, Demote, Greet, StashMeta,
       CloseEvicted, Unregister, CloseSelf, Connect, Dispatch, StuckClose, Return
  <2>2. \A q \in Sessions : at'[q] = "upsert" => at[q] = "upsert"
    BY <1>4 DEF SessionStep, HandlerStep, Decide, Promote, Demote, Greet, StashMeta,
       CloseEvicted, Unregister, CloseSelf, Connect, Dispatch, StuckClose, Return
  <2> QED
    BY <2>1, <2>2
<1>5. CASE OperatorDelete \/ Prune
  <2>1. \A id \in AgentIds : record'[id].connected => record[id].connected
    BY <1>5 DEF OperatorDelete, Prune, NoRecord
  <2> QED
    BY <1>5, <2>1 DEF OperatorDelete, Prune, handlers
<1>6. CASE Crash
  BY <1>6 DEF Crash
<1>7. CASE BootList
  <2>1. stamped' => \A id \in AgentIds : ~record'[id].connected
    BY <1>7 DEF BootList, AllDisconnected, Record
  <2> QED
    BY <1>7, <2>1 DEF BootList, handlers
<1>8. CASE BootHTTP \/ BootAttach \/ BootRestore \/ UNCHANGED vars
  BY <1>8 DEF BootHTTP, BootAttach, BootRestore, handlers, vars
<1> QED
  BY <1>1, <1>2, <1>3, <1>4, <1>5, <1>6, <1>7, <1>8 DEF Next, SessionStep, BootStep

LEMMA HandlersNeedBootInvariant == Spec => []HandlersNeedBoot
<1>1. Init => HandlersNeedBoot
  BY DEF Init, HandlersNeedBoot
<1> QED
  BY <1>1, HandlersNeedBootStep, TypeCorrect, PTL DEF Spec

\* A record that says "connected" was written by this process.
THEOREM ConnectedIsOfThisProcessHolds == Spec => []ConnectedIsOfThisProcess
<1>1. Init => ConnectedInv
  BY DEF Init, ConnectedInv
<1>2. ConnectedInv => ConnectedIsOfThisProcess
  BY DEF ConnectedInv, ConnectedIsOfThisProcess
<1> QED
  BY <1>1, <1>2, ConnectedStep, TypeCorrect, HandlersNeedBootInvariant, PTL DEF Spec
-----------------------------------------------------------------------------
(* Registration and deletion, over restarts.                               *)

\* The promise of RegistrationDurable passes from the manager's entries to a
\* record, over a restart to what boot read, and back to the entries.
DurableInv ==
  /\ known => Persisted
  /\ boot # "up" => fresh = {}
  /\ boot = "up" /\ (known \/ fresh # {}) => mgr.listed
  /\ boot = "listed" /\ known => RestoredAny

\* What a step of a session does to the records: only Upsert makes one.
LEMMA KeptBySession ==
  ASSUME TypeOK, NEW s \in Sessions, SessionStep(s), ~Upsert(s)
  PROVE  \A id \in AgentIds : record'[id].kept = record[id].kept
<1>1. CASE MarkDisconnected(s)
  <2>1. \/ record' = [record EXCEPT ![AgentOf[s]] =
                       [record[AgentOf[s]] EXCEPT !.connected = FALSE]]
        \/ UNCHANGED record
    BY <1>1 DEF MarkDisconnected
  <2> QED
    BY <2>1 DEF TypeOK, StoreTypeOK, Record
<1>2. CASE ~MarkDisconnected(s)
  <2>1. UNCHANGED record
    BY <1>2 DEF SessionStep, HandlerStep, Decide, Promote, Demote, Greet, StashMeta,
       Register, CloseEvicted, Unregister, CloseSelf, Connect, Dispatch, StuckClose,
       Return
  <2> QED
    BY <2>1
<1> QED
  BY <1>1, <1>2

LEMMA DurableStep ==
  ASSUME TypeOK, HandlersNeedBoot, DurableInv, [Next]_vars
  PROVE  DurableInv'
<1> USE DEF DurableInv, process, history
<1>1. ASSUME NEW s \in Sessions, Promote(s) \/ Demote(s) PROVE DurableInv'
  <2>1. mgr'.listed /\ UNCHANGED <<known, record, restored, boot>>
    BY <1>1 DEF Promote, Demote, AddAgentProxyCluster, AddMetricsOnlyCluster
  <2>2. boot = "up"
    BY <1>1 DEF HandlersNeedBoot, Promote, Demote
  <2> QED
    BY <2>1, <2>2 DEF Persisted
<1>2. ASSUME NEW s \in Sessions, Upsert(s) PROVE DurableInv'
  <2>1. boot = "up" /\ UNCHANGED <<boot, fresh, mgr, restored>>
    BY <1>2 DEF HandlersNeedBoot, Upsert
  <2>2. CASE UNCHANGED <<record, known>>
    BY <2>1, <2>2 DEF Persisted
  <2>3. CASE ~UNCHANGED <<record, known>>
    <3>1. record'[AgentOf[s]].kept /\ AgentOf[s] \in AgentIds
      BY <1>2, <2>3, AgentOfAssumption DEF Upsert, TypeOK, StoreTypeOK
    <3>2. known' => known \/ fresh # {}
      BY <1>2, <2>3 DEF Upsert
    <3> QED
      BY <2>1, <3>1, <3>2 DEF Persisted
  <2> QED
    BY <2>2, <2>3
<1>3. ASSUME NEW s \in Sessions, SessionStep(s), ~Promote(s), ~Demote(s), ~Upsert(s)
      PROVE  DurableInv'
  <2>1. UNCHANGED <<boot, fresh, mgr, restored, known>>
    BY <1>3 DEF SessionStep, HandlerStep, Decide, Greet, StashMeta, Register,
       CloseEvicted, Unregister, MarkDisconnected, CloseSelf, Connect, Dispatch,
       StuckClose, Return
  <2>2. Persisted' = Persisted
    BY <1>3, KeptBySession DEF Persisted
  <2> QED
    BY <2>1, <2>2 DEF RestoredAny
<1>4. CASE OperatorDelete
  <2>1. ~known' /\ fresh' = {}
    BY <1>4 DEF OperatorDelete
  <2> QED
    BY <2>1
<1>5. CASE Prune
  <2>1. UNCHANGED <<boot, fresh, mgr, restored>> /\ boot = "up"
    BY <1>5 DEF Prune
  <2>2. known' => known /\ Persisted'
    BY <1>5 DEF Prune
  <2> QED
    BY <2>1, <2>2
<1>6. CASE Crash
  <2>1. fresh' = {} /\ boot' = "down" /\ UNCHANGED <<record, known>>
    BY <1>6 DEF Crash
  <2> QED
    BY <2>1 DEF Persisted
<1>7. CASE BootList
  <2>1. \A id \in AgentIds : record'[id].kept = record[id].kept
    BY <1>7 DEF BootList, AllDisconnected, TypeOK, StoreTypeOK, Record
  <2>2. boot = "attached" /\ boot' = "listed" /\ UNCHANGED fresh
    BY <1>7 DEF BootList
  <2>3. known' => known /\ restored' = record'
    BY <1>7 DEF BootList
  <2>4. known' => Persisted'
    BY <2>1, <2>3 DEF Persisted
  <2>5. known' => RestoredAny'
    BY <2>3, <2>4 DEF Persisted, RestoredAny
  <2> QED
    BY <2>2, <2>4, <2>5
<1>8. CASE BootRestore
  <2>1. boot = "listed" /\ boot' = "up" /\ UNCHANGED <<fresh, known, record>>
    BY <1>8 DEF BootRestore
  <2>2. known => mgr'.listed
    BY <1>8, <2>1 DEF BootRestore, Restored, AddAgentProxyCluster, AddMetricsOnlyCluster
  <2> QED
    BY <2>1, <2>2 DEF Persisted
<1>9. CASE BootHTTP \/ BootAttach \/ UNCHANGED vars
  BY <1>9 DEF BootHTTP, BootAttach, vars, Persisted, RestoredAny
<1> QED
  BY <1>1, <1>2, <1>3, <1>4, <1>5, <1>6, <1>7, <1>8, <1>9 DEF Next, SessionStep, BootStep

\* A registered and persisted cluster is in the selector, over any number of
\* restarts, until the operator deletes it or its records are pruned.
THEOREM RegistrationDurableHolds == Spec => []RegistrationDurable
<1>1. Init => DurableInv
  BY DEF Init, DurableInv
<1>2. DurableInv => RegistrationDurable
  BY DEF DurableInv, RegistrationDurable
<1> QED
  BY <1>1, <1>2, DurableStep, TypeCorrect, HandlersNeedBootInvariant, PTL DEF Spec

\* The store carries what it must from one process to the next, and no more.
THEOREM RecordsSurviveRestartsHolds == Spec => []RecordsSurviveRestarts
<1>1. RegistrationDurable /\ ConnectedIsOfThisProcess => RecordsSurviveRestarts
  BY DEF RecordsSurviveRestarts
<1> QED
  BY <1>1, RegistrationDurableHolds, ConnectedIsOfThisProcessHolds, PTL

\* From the delete on, no handler is on its way to writing a record.
Entering == {"hello", "promote", "demote", "greet", "stash", "register", "upsert", "evict"}
DeletedInv ==
  /\ boot # "listed" => ~RestoredAny
  /\ deleted => /\ ~mgr.listed /\ ~Persisted /\ ~RestoredAny
                /\ \A s \in Sessions : at[s] \notin Entering

LEMMA DeletedStep ==
  ASSUME TypeOK, HandlersNeedBoot, DeletedInv, [Next]_vars
  PROVE  DeletedInv'
<1> USE DEF DeletedInv, process, history
<1>1. ASSUME NEW s \in Sessions, Connect(s) PROVE DeletedInv'
  BY <1>1 DEF Connect, RestoredAny
<1>2. ASSUME NEW s \in Sessions,
             Decide(s) \/ Promote(s) \/ Demote(s) \/ Greet(s) \/ StashMeta(s)
               \/ Register(s) \/ Upsert(s) \/ CloseEvicted(s)
      PROVE  DeletedInv'
  <2>1. at[s] \in Entering /\ UNCHANGED <<boot, restored, deleted>>
    BY <1>2 DEF Entering, Decide, Promote, Demote, Greet, StashMeta, Register, Upsert,
       CloseEvicted
  <2> QED
    BY <2>1 DEF RestoredAny
<1>3. ASSUME NEW s \in Sessions,
             Unregister(s) \/ MarkDisconnected(s) \/ CloseSelf(s) \/ Dispatch(s)
               \/ StuckClose(s) \/ Return(s)
      PROVE  DeletedInv'
  <2>1. UNCHANGED <<boot, restored, deleted, mgr>>
    BY <1>3 DEF Unregister, MarkDisconnected, CloseSelf, Dispatch, StuckClose, Return
  <2>2. ~Upsert(s) /\ SessionStep(s)
    BY <1>3, ThenFacts DEF SessionStep, HandlerStep, Upsert, AfterUpsert, Unregister,
       MarkDisconnected, CloseSelf, Dispatch, StuckClose, Return, TypeOK,
       HandlersTypeOK, Goto
  <2>3. Persisted' = Persisted
    BY <2>2, KeptBySession DEF Persisted
  <2>4. \A q \in Sessions : at'[q] \in Entering => at[q] \in Entering
    BY <1>3 DEF Unregister, MarkDisconnected, CloseSelf, Dispatch, StuckClose, Return,
       Goto, Entering, TypeOK, HandlersTypeOK
  <2> QED
    BY <2>1, <2>3, <2>4 DEF RestoredAny
<1>4. CASE OperatorDelete
  <2>1. UNCHANGED <<boot, restored, at>>
    BY <1>4 DEF OperatorDelete, handlers
  <2>2. ASSUME deleted'
        PROVE  /\ boot = "up" /\ ~mgr'.listed /\ ~Persisted'
               /\ \A s \in Sessions : at[s] \notin Entering
    BY <1>4, <2>2 DEF OperatorDelete, Entering
  <2> QED
    BY <2>1, <2>2 DEF RestoredAny
<1>5. CASE Prune
  <2>1. UNCHANGED <<boot, restored, at, mgr, deleted>>
    BY <1>5 DEF Prune, handlers
  <2>2. Persisted' => Persisted
    BY <1>5 DEF Prune, Persisted, NoRecord
  <2> QED
    BY <2>1, <2>2 DEF RestoredAny
<1>6. CASE Crash
  <2>1. ~RestoredAny' /\ ~mgr'.listed
    BY <1>6 DEF Crash, RestoredAny, NoRecord, NoEntry
  <2>2. \A s \in Sessions : at'[s] \notin Entering
    BY <1>6 DEF Crash, Entering
  <2>3. UNCHANGED <<record, deleted>>
    BY <1>6 DEF Crash
  <2> QED
    BY <2>1, <2>2, <2>3 DEF Persisted
<1>7. CASE BootList
  <2>1. \A id \in AgentIds : record'[id].kept = record[id].kept
    BY <1>7 DEF BootList, AllDisconnected, TypeOK, StoreTypeOK, Record
  <2>2. boot' = "listed" /\ UNCHANGED <<deleted, mgr, at>>
    BY <1>7 DEF BootList, handlers
  <2>3. Persisted' = Persisted
    BY <2>1 DEF Persisted
  <2>4. restored' = record' \/ restored' = restored
    BY <1>7 DEF BootList
  <2> QED
    BY <2>2, <2>3, <2>4 DEF Persisted, RestoredAny
<1>8. CASE BootRestore
  <2>1. ~RestoredAny' /\ UNCHANGED <<deleted, record, at>>
    BY <1>8 DEF BootRestore, RestoredAny, NoRecord, handlers
  <2>2. ASSUME deleted PROVE mgr' = mgr
    BY <1>8, <2>2 DEF BootRestore, Restored, RestoredAny, RestoredProxy
  <2> QED
    BY <2>1, <2>2 DEF Persisted
<1>9. CASE BootHTTP \/ BootAttach \/ UNCHANGED vars
  BY <1>9 DEF BootHTTP, BootAttach, vars, handlers, Persisted, RestoredAny
<1> QED
  BY <1>1, <1>2, <1>3, <1>4, <1>5, <1>6, <1>7, <1>8, <1>9 DEF Next, HandlerStep, BootStep

\* Once the operator deleted an agent-proxy cluster, and until an agent says
\* Hello, no step of a handler, of boot or of the prune lists it again.
THEOREM DeletedStaysDeletedHolds == Spec => []DeletedStaysDeleted
<1>1. Init => DeletedInv
  BY DEF Init, DeletedInv, RestoredAny, NoRecord
<1>2. DeletedInv => DeletedStaysDeleted
  BY DEF DeletedInv, DeletedStaysDeleted
<1> QED
  BY <1>1, <1>2, DeletedStep, TypeCorrect, HandlersNeedBootInvariant, PTL DEF Spec

LEMMA IdentityStep ==
  ASSUME TypeOK, [Next]_vars
  PROVE  [mgr.proxy /\ ~mgr'.proxy => OperatorDelete \/ Crash]_vars
<1> SUFFICES ASSUME Next, ~OperatorDelete, ~Crash
             PROVE  mgr.proxy => mgr'.proxy
  OBVIOUS
<1>1. ASSUME NEW s \in Sessions, Promote(s) \/ Demote(s) PROVE mgr.proxy => mgr'.proxy
  BY <1>1 DEF Promote, Demote, AddAgentProxyCluster, AddMetricsOnlyCluster
<1>2. ASSUME NEW s \in Sessions, SessionStep(s), ~Promote(s), ~Demote(s)
      PROVE  UNCHANGED mgr
  BY <1>2 DEF SessionStep, HandlerStep, Decide, Greet, StashMeta, Register, Upsert,
     CloseEvicted, Unregister, MarkDisconnected, CloseSelf, Connect, Dispatch,
     StuckClose, Return
<1>3. CASE BootRestore
  BY <1>3 DEF BootRestore, Restored, AddAgentProxyCluster, AddMetricsOnlyCluster
<1>4. CASE Prune \/ BootHTTP \/ BootAttach \/ BootList
  BY <1>4 DEF Prune, BootHTTP, BootAttach, BootList
<1> QED
  BY <1>1, <1>2, <1>3, <1>4 DEF Next, SessionStep, BootStep

\* No agent, whatever its capabilities, and no prune removes the mapping from
\* the context to its cluster.
THEOREM IdentityDurableHolds == Spec => IdentityDurable
<1>1. TypeOK /\ [Next]_vars => [mgr.proxy /\ ~mgr'.proxy => OperatorDelete \/ Crash]_vars
  BY IdentityStep
<1> QED
  BY <1>1, TypeCorrect, PTL DEF Spec, IdentityDurable
-----------------------------------------------------------------------------
(* The handshake.                                                          *)

\* HelloMetaBounded is inductive: Register leaves the session in the bucket,
\* and Unregister takes both entries out together.
LEMMA MetaStep ==
  ASSUME TypeOK, HelloMetaBounded, [Next]_vars
  PROVE  HelloMetaBounded'
<1> USE ThenFacts
    DEF TypeOK, HandlersTypeOK, RegistryTypeOK, HelloMetaBounded, Goto, registry
<1>1. ASSUME NEW s \in Sessions, StashMeta(s) PROVE HelloMetaBounded'
  <2>1. at'[s] = "register" /\ \A q \in Sessions \ {s} : at'[q] = at[q]
    BY <1>1 DEF StashMeta
  <2>2. at[s] = "stash" /\ bucket' = bucket
    BY <1>1 DEF StashMeta
  <2>3. \A id \in AgentIds \ {AgentOf[s]} : helloMeta'[id] = helloMeta[id]
    BY <1>1 DEF StashMeta
  <2> QED
    BY <2>1, <2>2, <2>3
<1>2. ASSUME NEW s \in Sessions, Register(s) PROVE HelloMetaBounded'
  <2>1. bucket'[AgentOf[s]] # None /\ UNCHANGED helloMeta
    BY <1>2 DEF Register
  <2>2. /\ \A id \in AgentIds \ {AgentOf[s]} : bucket'[id] = bucket[id]
        /\ \A q \in Sessions \ {s} : at'[q] = at[q]
    BY <1>2 DEF Register
  <2> QED
    BY <2>1, <2>2
<1>3. ASSUME NEW s \in Sessions, Unregister(s) PROVE HelloMetaBounded'
  <2>1. \A q \in Sessions : at[q] = "register" => at'[q] = "register"
    BY <1>3 DEF Unregister
  <2>2. \A id \in AgentIds : \/ helloMeta'[id] = None
                             \/ helloMeta'[id] = helloMeta[id] /\ bucket'[id] = bucket[id]
    BY <1>3 DEF Unregister, ClearMeta
  <2> QED
    BY <2>1, <2>2
<1>4. ASSUME NEW s \in Sessions,
             SessionStep(s), ~StashMeta(s), ~Register(s), ~Unregister(s)
      PROVE  HelloMetaBounded'
  <2>1. \A q \in Sessions : at[q] = "register" => at'[q] = "register"
    BY <1>4 DEF SessionStep, HandlerStep, Decide, Promote, Demote, Greet, Upsert,
       AfterUpsert, CloseEvicted, MarkDisconnected, CloseSelf, Connect, Dispatch,
       StuckClose, Return
  <2>2. UNCHANGED <<helloMeta, bucket>>
    BY <1>4 DEF SessionStep, HandlerStep, Decide, Promote, Demote, Greet, Upsert,
       CloseEvicted, MarkDisconnected, CloseSelf, Connect, Dispatch, StuckClose, Return
  <2> QED
    BY <2>1, <2>2
<1>5. CASE Crash
  BY <1>5 DEF Crash
<1>6. CASE OperatorDelete \/ Prune \/ BootStep \/ UNCHANGED vars
  BY <1>6 DEF OperatorDelete, Prune, BootStep, BootHTTP, BootAttach, BootList,
     BootRestore, vars, handlers
<1> QED
  BY <1>1, <1>2, <1>3, <1>4, <1>5, <1>6 DEF Next, SessionStep

\* The registry keeps no Hello metadata of an agent that left.
THEOREM HelloMetaBoundedHolds == Spec => []HelloMetaBounded
<1>1. Init => HelloMetaBounded
  BY DEF Init, HelloMetaBounded
<1> QED
  BY <1>1, MetaStep, TypeCorrect, PTL DEF Spec

\* Whoever can be found in the registry was greeted.
Greeted == {"stash", "register", "upsert", "evict", "serving", "unregister"}
WelcomeInv ==
  /\ WelcomeFirst
  /\ \A s \in Sessions : at[s] \in Greeted => wire[s] = "welcome"

LEMMA WelcomeStep ==
  ASSUME TypeOK, NoZombieEntry, WelcomeInv, [Next]_vars
  PROVE  WelcomeInv'
<1> USE ThenFacts DEF TypeOK, HandlersTypeOK, WelcomeInv, WelcomeFirst, Greeted, Goto
<1>1. ASSUME NEW s \in Sessions, Greet(s) PROVE WelcomeInv'
  BY <1>1 DEF Greet
<1>2. ASSUME NEW s \in Sessions, Dispatch(s) PROVE WelcomeInv'
  <2>1. wire[s] = "welcome"
    BY <1>2 DEF Dispatch, NoZombieEntry
  <2>2. wire' = wire /\ at' = at
    BY <1>2, <2>1 DEF Dispatch
  <2> QED
    BY <2>2
<1>3. ASSUME NEW s \in Sessions, CloseSelf(s) PROVE WelcomeInv'
  BY <1>3 DEF CloseSelf
<1>4. ASSUME NEW s \in Sessions, SessionStep(s), ~Greet(s), ~Dispatch(s), ~CloseSelf(s)
      PROVE  WelcomeInv'
  <2>1. UNCHANGED wire
    BY <1>4 DEF SessionStep, HandlerStep, Decide, Promote, Demote, StashMeta, Register,
       Upsert, CloseEvicted, Unregister, MarkDisconnected, Connect, StuckClose, Return
  <2>2. \A q \in Sessions : at'[q] \in Greeted => at[q] \in Greeted
    BY <1>4 DEF SessionStep, HandlerStep, Decide, Promote, Demote, StashMeta, Register,
       Upsert, AfterUpsert, CloseEvicted, Unregister, MarkDisconnected, Connect,
       StuckClose, Return
  <2> QED
    BY <2>1, <2>2
<1>5. CASE Crash
  BY <1>5 DEF Crash
<1>6. CASE OperatorDelete \/ Prune \/ BootStep \/ UNCHANGED vars
  BY <1>6 DEF OperatorDelete, Prune, BootStep, BootHTTP, BootAttach, BootList,
     BootRestore, vars, handlers
<1> QED
  BY <1>1, <1>2, <1>3, <1>4, <1>5, <1>6 DEF Next, SessionStep

\* No request overtakes the Welcome, however many callers race the handler.
THEOREM WelcomeFirstHolds == Spec => []WelcomeFirst
<1>1. Init => WelcomeInv
  BY DEF Init, WelcomeInv, WelcomeFirst, Greeted
<1>2. WelcomeInv => WelcomeFirst
  BY DEF WelcomeInv
<1> QED
  BY <1>1, <1>2, WelcomeStep, TypeCorrect, NoZombieEntryHolds, PTL DEF Spec
=============================================================================
