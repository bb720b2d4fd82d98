------------------------------ MODULE AgentRegistry ------------------------------
(***************************************************************************)
(* Which agents of one cluster are connected, and what the backend         *)
(* remembers of them: the handlers of the AgentChannel streams             *)
(* (agent/server.go, agent/auto_register.go), the in-memory registry they  *)
(* share (channel/registry.go), the persisted agent records                *)
(* (channel/registry_store.go), the cluster's entries in cluster.Manager,  *)
(* and the boot sequence of cmd/server/main.go that restores them.         *)
(*                                                                         *)
(* A session is one stream of an agent: a node whose agent reconnects has  *)
(* several sessions with the same agent id.  The registry, the manager and *)
(* the store have a mutex each; a handler holds one at a time, so the      *)
(* handlers of a cluster interleave between any two of the steps below.    *)
(***************************************************************************)
EXTENDS Naturals

CONSTANTS
  AgentIds,      \* the agent ids of the cluster's pods
  Sessions,      \* the streams that are ever opened
  AgentOf,       \* the agent id each session announces in its Hello
  ProxyCapable,  \* the sessions whose Hello lists the kube-proxy capability
  Undeclared,    \* the sessions whose Hello lists no capability at all
  None,          \* no session
  MaxRestarts    \* bound: how often the backend restarts

ASSUME AgentOfAssumption == AgentOf \in [Sessions -> AgentIds]
ASSUME ProxyCapableAssumption == ProxyCapable \subseteq Sessions
ASSUME UndeclaredAssumption == Undeclared \subseteq Sessions \ ProxyCapable
ASSUME NoneAssumption == None \notin Sessions
ASSUME MaxRestartsAssumption == MaxRestarts \in Nat

VARIABLES
  at,         \* where the handler of each session is
  evict,      \* the session each handler's Register evicted, to be closed
  meta,       \* the Hello metadata each handler's Register found
  closed,     \* the sessions whose Agent was closed
  wire,       \* the first message sent to each session's agent
  bucket,     \* AgentRegistry.agents, of this cluster
  helloMeta,  \* AgentRegistry.helloMeta: whose metadata is stashed
  lost,       \* this cluster is in AgentRegistry.lost
  record,     \* AgentStore: the persisted AgentRecord of each agent id
  mgr,        \* cluster.Manager: the maps that name this cluster
  boot,       \* how far the process has started
  restored,   \* what boot read from the store
  restarts    \* how many times the process stopped

\* History variables, read by properties only.
VARIABLES
  seen,       \* the agent ids registered since the process started
  fresh,      \* the sessions that entered the cluster since the last delete
  known,      \* the cluster was entered and persisted, not deleted or pruned since,
              \* and this boot could read the store
  deleted,    \* the operator deleted the cluster and no agent said Hello since
  stamped     \* this boot's MarkAllDisconnected succeeded

handlers == <<at, evict, meta, closed, wire>>
registry == <<bucket, helloMeta, lost, seen>>
process == <<boot, restored, restarts>>
history == <<fresh, known, deleted, stamped>>
vars == <<handlers, registry, record, mgr, process, history>>

HandlerAt == {"new", "hello", "promote", "demote", "greet", "stash", "register",
              "upsert", "evict", "serving", "unregister", "mark", "close", "gone"}
BootAt == {"down", "http", "attached", "listed", "up"}
Record == [kept : BOOLEAN, proxy : BOOLEAN, connected : BOOLEAN]
NoRecord == [kept |-> FALSE, proxy |-> FALSE, connected |-> FALSE]
NoEntry == [proxy |-> FALSE, metricsOnly |-> FALSE, listed |-> FALSE]

HandlersTypeOK ==
  /\ at \in [Sessions -> HandlerAt]
  /\ evict \in [Sessions -> Sessions \cup {None}]
  /\ \A s \in Sessions : at[s] = "evict" => evict[s] # None
  /\ meta \in [Sessions -> Sessions \cup {None}]
  /\ closed \subseteq Sessions
  /\ wire \in [Sessions -> {"none", "welcome", "request"}]
RegistryTypeOK ==
  /\ bucket \in [AgentIds -> Sessions \cup {None}]
  /\ helloMeta \in [AgentIds -> Sessions \cup {None}]
  /\ lost \in BOOLEAN
  /\ seen \subseteq AgentIds
StoreTypeOK == record \in [AgentIds -> Record] /\ restored \in [AgentIds -> Record]
MgrTypeOK == mgr \in [proxy : BOOLEAN, metricsOnly : BOOLEAN, listed : BOOLEAN]
ProcessTypeOK ==
  /\ boot \in BootAt
  /\ restarts \in 0 .. MaxRestarts
  /\ fresh \subseteq Sessions
  /\ known \in BOOLEAN
  /\ deleted \in BOOLEAN
  /\ stamped \in BOOLEAN

\* Every variable has its type; no handler closes a nil Agent.
TypeOK == HandlersTypeOK /\ RegistryTypeOK /\ StoreTypeOK /\ MgrTypeOK /\ ProcessTypeOK

Init ==
  /\ at = [s \in Sessions |-> "new"]
  /\ evict = [s \in Sessions |-> None]
  /\ meta = [s \in Sessions |-> None]
  /\ closed = {}
  /\ wire = [s \in Sessions |-> "none"]
  /\ bucket = [id \in AgentIds |-> None]
  /\ helloMeta = [id \in AgentIds |-> None]
  /\ lost = FALSE
  /\ record = [id \in AgentIds |-> NoRecord]
  /\ mgr = NoEntry
  /\ boot = "down"
  /\ restored = [id \in AgentIds |-> NoRecord]
  /\ restarts = 0
  /\ seen = {} /\ fresh = {} /\ known = FALSE /\ deleted = FALSE /\ stamped = FALSE

Goto(s, step) == at' = [at EXCEPT ![s] = step]

\* Mutant of Then: Welcome is sent last, as it was before the reordering that
\* server.go describes.
ThenWelcomeLast(step) ==
  CASE step = "decision" -> "stash"
    [] step = "stash"    -> "register"
    [] step = "register" -> "upsert"
    [] step = "upsert"   -> "evict"
    [] step = "evict"    -> "greet"
    [] step = "greet"    -> "serving"

\* The order of the handler's steps.
Then(step) ==
  CASE step = "decision" -> "greet"
    [] step = "greet"    -> "stash"
    [] step = "stash"    -> "register"
    [] step = "register" -> "upsert"
    [] step = "upsert"   -> "evict"
    [] step = "evict"    -> "serving"

-----------------------------------------------------------------------------
(* A stream opens: Hello, auto-register, Welcome, Register.                *)

Connect(s) ==
  /\ boot = "up" /\ at[s] = "new"
  /\ Goto(s, "hello")
  /\ deleted' = FALSE
  /\ UNCHANGED <<evict, meta, closed, wire, registry, record, mgr, process, fresh, known, stamped>>

HasProxyCapableAgent == \E id \in AgentIds : bucket[id] \in ProxyCapable

\* maybeAutoRegisterCluster decides, under the registry's mutex ...
Decide(s) ==
  /\ at[s] = "hello"
  /\ Goto(s, IF s \in ProxyCapable THEN "promote"
             ELSE IF HasProxyCapableAgent THEN Then("decision")
             ELSE "demote")
  /\ UNCHANGED <<evict, meta, closed, wire, registry, record, mgr, process, history>>

\* The manager's entries after AddAgentProxyCluster, which drops the
\* metrics-only entry, and after AddMetricsOnlyCluster, which leaves the
\* agent-proxy entry alone.
AddAgentProxyCluster == [proxy |-> TRUE, metricsOnly |-> FALSE, listed |-> TRUE]

\* Mutant of AddMetricsOnlyCluster: the agent-proxy entry goes (finding #46).
AddForgetsIdentity == [proxy |-> FALSE, metricsOnly |-> TRUE, listed |-> TRUE]

AddMetricsOnlyCluster == [proxy |-> mgr.proxy, metricsOnly |-> TRUE, listed |-> TRUE]

\* ... and acts under the manager's.
Promote(s) ==
  /\ at[s] = "promote"
  /\ mgr' = AddAgentProxyCluster
  /\ fresh' = fresh \cup {s}
  /\ Goto(s, Then("decision"))
  /\ UNCHANGED <<evict, meta, closed, wire, registry, record, process, known, deleted, stamped>>

Demote(s) ==
  /\ at[s] = "demote"
  /\ mgr' = AddMetricsOnlyCluster
  /\ fresh' = fresh \cup {s}
  /\ Goto(s, Then("decision"))
  /\ UNCHANGED <<evict, meta, closed, wire, registry, record, process, known, deleted, stamped>>

\* Welcome; a stream that breaks here ends the handler before Register.
Greet(s) ==
  /\ at[s] = "greet"
  /\ \/ /\ wire' = [wire EXCEPT ![s] = IF @ = "none" THEN "welcome" ELSE @]
        /\ Goto(s, Then("greet"))
     \/ Goto(s, "close") /\ UNCHANGED wire
  /\ UNCHANGED <<evict, meta, closed, registry, record, mgr, process, history>>

StashMeta(s) ==
  /\ at[s] = "stash"
  /\ helloMeta' = [helloMeta EXCEPT ![AgentOf[s]] = s]
  /\ Goto(s, Then("stash"))
  /\ UNCHANGED <<evict, meta, closed, wire, bucket, lost, seen, record, mgr, process, history>>

\* Mutant of Register: contact is back, but `lost` keeps the cluster.
RegisterStillLost(s) ==
  /\ at[s] = "register"
  /\ evict' = [evict EXCEPT ![s] = bucket[AgentOf[s]]]
  /\ bucket' = [bucket EXCEPT ![AgentOf[s]] = s]
  /\ meta' = [meta EXCEPT ![s] = helloMeta[AgentOf[s]]]
  /\ seen' = seen \cup {AgentOf[s]}
  /\ Goto(s, Then("register"))
  /\ UNCHANGED <<closed, wire, helloMeta, lost, record, mgr, process, history>>

\* Register, under the mutex.
Register(s) ==
  /\ at[s] = "register"
  /\ evict' = [evict EXCEPT ![s] = bucket[AgentOf[s]]]
  /\ bucket' = [bucket EXCEPT ![AgentOf[s]] = s]
  /\ meta' = [meta EXCEPT ![s] = helloMeta[AgentOf[s]]]
  /\ lost' = FALSE
  /\ seen' = seen \cup {AgentOf[s]}
  /\ Goto(s, Then("register"))
  /\ UNCHANGED <<closed, wire, helloMeta, record, mgr, process, history>>

\* Mutant of AfterUpsert: Close is called on a nil evicted Agent too.
AfterUpsertAlways(s) == IF s \in Sessions THEN Then("upsert") ELSE Then("evict")

\* `if evicted := ...; evicted != nil`.
AfterUpsert(s) == IF evict[s] # None THEN Then("upsert") ELSE Then("evict")

\* The rest of Register, with the mutex released: the record is replaced; an
\* error of the store is ignored.
Upsert(s) ==
  /\ at[s] = "upsert"
  /\ \/ /\ record' = [record EXCEPT ![AgentOf[s]] =
            [kept |-> TRUE, proxy |-> meta[s] \in ProxyCapable, connected |-> TRUE]]
        /\ known' = (known \/ s \in fresh)
     \/ UNCHANGED <<record, known>>
  /\ Goto(s, AfterUpsert(s))
  /\ meta' = [meta EXCEPT ![s] = None]
  /\ UNCHANGED <<evict, closed, wire, registry, mgr, process, fresh, deleted, stamped>>

\* evicted.Close(); it makes the evicted handler return.
CloseEvicted(s) ==
  /\ at[s] = "evict"
  /\ closed' = closed \cup {evict[s]}
  /\ evict' = [evict EXCEPT ![s] = None]
  /\ Goto(s, Then("evict"))
  /\ UNCHANGED <<meta, wire, registry, record, mgr, process, history>>

-----------------------------------------------------------------------------
(* A stream serves and ends.                                               *)

\* GetProxyAgent picks an agent that can proxy, or else one that never said.
Pickable(s) == s \in ProxyCapable \/ (s \in Undeclared /\ ~HasProxyCapableAgent)

\* A caller of the cluster's API picks this agent and sends.
Dispatch(s) ==
  /\ bucket[AgentOf[s]] = s /\ Pickable(s) /\ s \notin closed
  /\ wire' = [wire EXCEPT ![s] = IF @ = "none" THEN "request" ELSE @]
  /\ UNCHANGED <<at, evict, meta, closed, registry, record, mgr, process, history>>

\* The stuck-agent watchdog closes the Agent.
StuckClose(s) ==
  /\ at[s] = "serving"
  /\ closed' = closed \cup {s}
  /\ UNCHANGED <<at, evict, meta, wire, registry, record, mgr, process, history>>

\* Mutant of Return: a way out of the handler that skips Unregister.
ReturnUnregistered(s) ==
  /\ at[s] = "serving"
  /\ Goto(s, "close")
  /\ UNCHANGED <<evict, meta, closed, wire, registry, record, mgr, process, history>>

\* The receive loop returns: the stream broke, or the Agent was closed.
Return(s) ==
  /\ at[s] = "serving"
  /\ Goto(s, "unregister")
  /\ UNCHANGED <<evict, meta, closed, wire, registry, record, mgr, process, history>>

\* Mutant of IsCurrent: Unregister without the pointer-equality check.
IsAnyOf(s) == bucket[AgentOf[s]] # None

\* The bucket slot still points at this very session.
IsCurrent(s) == bucket[AgentOf[s]] = s

\* Mutant of ClearMeta: the stashed metadata outlives the agent.
KeepMeta(s) == IF s \in Sessions THEN helloMeta ELSE helloMeta

ClearMeta(s) == [helloMeta EXCEPT ![AgentOf[s]] = None]

\* Unregister, under the mutex.
Unregister(s) ==
  /\ at[s] = "unregister"
  /\ IF IsCurrent(s)
       THEN /\ bucket' = [bucket EXCEPT ![AgentOf[s]] = None]
            /\ lost' = (lost \/ \A id \in AgentIds : bucket'[id] = None)
            /\ helloMeta' = ClearMeta(s)
            /\ Goto(s, "mark")
       ELSE Goto(s, "close") /\ UNCHANGED <<bucket, lost, helloMeta>>
  /\ UNCHANGED <<evict, meta, closed, wire, seen, record, mgr, process, history>>

\* Mutant of MarkDisconnected: a missing record is made up again.
MarkRecreates(s) ==
  /\ at[s] = "mark"
  /\ record' = [record EXCEPT ![AgentOf[s]].connected = FALSE, ![AgentOf[s]].kept = TRUE]
  /\ Goto(s, "close")
  /\ UNCHANGED <<evict, meta, closed, wire, registry, mgr, process, history>>

\* The rest of Unregister, with the mutex released; nothing to mark when the
\* record is gone, and an error of the store is ignored.
MarkDisconnected(s) ==
  /\ at[s] = "mark"
  /\ \/ record' = [record EXCEPT ![AgentOf[s]].connected = FALSE]
     \/ UNCHANGED record
  /\ Goto(s, "close")
  /\ UNCHANGED <<evict, meta, closed, wire, registry, mgr, process, history>>

\* The handler has returned, and with it ends the stream.
CloseSelf(s) ==
  /\ at[s] = "close"
  /\ closed' = closed \cup {s}
  /\ wire' = [wire EXCEPT ![s] = "none"]
  /\ Goto(s, "gone")
  /\ UNCHANGED <<evict, meta, registry, record, mgr, process, history>>

-----------------------------------------------------------------------------
(* The operator, the hourly prune, crashes and boot.                       *)

StoreAttached == boot \in {"attached", "listed", "up"}
Persisted == \E id \in AgentIds : record[id].kept

\* RemoveAgentProxyCluster: the records, when the store is attached and works
\* (otherwise "the cluster comes back on restart", the code warns); then the
\* manager's entries, unless the cluster is not an agent-proxy one.
OperatorDelete ==
  /\ boot # "down"
  /\ \/ StoreAttached /\ record' = [id \in AgentIds |-> NoRecord]
     \/ UNCHANGED record
  /\ mgr' = IF mgr.proxy
              THEN [proxy |-> FALSE, metricsOnly |-> mgr.metricsOnly, listed |-> FALSE]
              ELSE mgr
  /\ fresh' = {}
  /\ known' = FALSE
  /\ deleted' = (boot = "up" /\ mgr.proxy /\ ~Persisted' /\
                 \A s \in Sessions : at[s] \in {"new", "serving", "unregister",
                                                "mark", "close", "gone"})
  /\ UNCHANGED <<handlers, registry, process, stamped>>

\* Prune deletes the records that have been disconnected beyond the horizon;
\* how long ago each one disconnected is left open.
Prune ==
  /\ boot = "up"
  /\ \E old \in SUBSET {id \in AgentIds : record[id].kept /\ ~record[id].connected} :
       /\ old # {}
       /\ record' = [id \in AgentIds |-> IF id \in old THEN NoRecord ELSE record[id]]
  /\ known' = (known /\ Persisted')
  /\ UNCHANGED <<handlers, registry, mgr, process, fresh, deleted, stamped>>

\* The process stops; only the store survives.
Crash ==
  /\ boot # "down" /\ restarts < MaxRestarts
  /\ restarts' = restarts + 1
  /\ boot' = "down"
  /\ at' = [s \in Sessions |-> IF at[s] = "new" THEN "new" ELSE "gone"]
  /\ evict' = [s \in Sessions |-> None]
  /\ meta' = [s \in Sessions |-> None]
  /\ closed' = {}
  /\ bucket' = [id \in AgentIds |-> None]
  /\ helloMeta' = [id \in AgentIds |-> None]
  /\ lost' = FALSE
  /\ mgr' = NoEntry
  /\ restored' = [id \in AgentIds |-> NoRecord]
  /\ seen' = {}
  /\ fresh' = {}
  /\ wire' = [s \in Sessions |-> "none"]
  /\ UNCHANGED <<record, known, deleted, stamped>>

\* The HTTP server starts first.
BootHTTP ==
  /\ boot = "down"
  /\ boot' = "http"
  /\ UNCHANGED <<handlers, registry, record, mgr, restored, restarts, history>>

BootAttach ==
  /\ boot = "http"
  /\ boot' = "attached"
  /\ UNCHANGED <<handlers, registry, record, mgr, restored, restarts, history>>

\* Mutant of AllDisconnected: boot trusts the flags of the previous process.
LeftAsTheyWere == record

\* What MarkAllDisconnected leaves in the store.
AllDisconnected == [id \in AgentIds |-> [record[id] EXCEPT !.connected = FALSE]]

\* MarkAllDisconnected, then List; boot goes on when either fails.
BootList ==
  /\ boot = "attached"
  /\ \/ record' = AllDisconnected /\ stamped' = TRUE
     \/ UNCHANGED record /\ stamped' = FALSE
  /\ \/ restored' = record' /\ UNCHANGED known
     \/ known' = FALSE /\ UNCHANGED restored
  /\ boot' = "listed"
  /\ UNCHANGED <<handlers, registry, mgr, restarts, fresh, deleted>>

RestoredProxy == \E id \in AgentIds : restored[id].kept /\ restored[id].proxy
RestoredAny == \E id \in AgentIds : restored[id].kept

\* Mutant of Restored: only agent-proxy clusters come back.
RestoredProxyOnly == IF RestoredProxy THEN AddAgentProxyCluster ELSE mgr

\* The manager's entries after the restore loop: an agent-proxy cluster if any
\* record has the capability, else a metrics-only one if there is a record.
Restored ==
  IF RestoredProxy THEN AddAgentProxyCluster
  ELSE IF RestoredAny THEN AddMetricsOnlyCluster
  ELSE mgr

\* Agents are accepted once the clusters are restored.
BootRestore ==
  /\ boot = "listed"
  /\ mgr' = Restored
  /\ restored' = [id \in AgentIds |-> NoRecord]
  /\ boot' = "up"
  /\ UNCHANGED <<handlers, registry, record, restarts, history>>
-----------------------------------------------------------------------------

\* The steps a handler takes by itself.
HandlerStep(s) ==
  \/ Decide(s) \/ Promote(s) \/ Demote(s) \/ Greet(s) \/ StashMeta(s)
  \/ Register(s) \/ Upsert(s) \/ CloseEvicted(s)
  \/ Unregister(s) \/ MarkDisconnected(s) \/ CloseSelf(s)

BootStep == BootHTTP \/ BootAttach \/ BootList \/ BootRestore

Next ==
  \/ \E s \in Sessions :
       HandlerStep(s) \/ Connect(s) \/ Dispatch(s) \/ StuckClose(s) \/ Return(s)
  \/ OperatorDelete \/ Prune \/ Crash
  \/ BootStep

Spec == Init /\ [][Next]_vars

-----------------------------------------------------------------------------
(* Properties.                                                             *)

\* The handler that registered after s and is on its way to closing it.
Evicting(t, s) == evict[t] = s /\ at[t] \in {"upsert", "evict"}

\* A session that serves is the one its agent id leads to, unless a newer one
\* replaced it and is about to close it: a late Unregister of an old session
\* never takes the new one out of the registry (registry.go's pointer check),
\* and no replaced session goes on serving.
LiveIsRegistered ==
  \A s \in Sessions :
    at[s] \in {"upsert", "evict", "serving"} /\ s \notin closed =>
      IsCurrent(s) \/ \E t \in Sessions : Evicting(t, s)

\* The registry never leads to a session whose handler is past Unregister:
\* every way out of the handler goes through it.
NoZombieEntry ==
  \A id \in AgentIds :
    bucket[id] # None =>
      /\ AgentOf[bucket[id]] = id
      /\ at[bucket[id]] \in {"upsert", "evict", "serving", "unregister"}

\* The registry and the handlers agree, whatever the order of their steps.
RegistryFollowsHandlers == LiveIsRegistered /\ NoZombieEntry

\* The first message an agent gets is its Welcome: a request dispatched by
\* another goroutine never overtakes it (the agent drops the stream if so).
WelcomeFirst == \A s \in Sessions : wire[s] # "request"

\* LostSince reports a moment exactly when this process saw the last agent
\* leave: some agent had registered, and none is registered now.
LostIsWitnessed == lost <=> seen # {} /\ \A id \in AgentIds : bucket[id] = None

\* The Hello metadata of an agent that left is not kept: an entry belongs to a
\* registered agent or to a Hello being processed.
HelloMetaBounded ==
  \A id \in AgentIds :
    helloMeta[id] # None =>
      \/ bucket[id] # None
      \/ \E s \in Sessions : AgentOf[s] = id /\ at[s] = "register"

\* A cluster that an agent entered and whose record was written stays in the
\* selector, across restarts, until the operator deletes it or it is pruned.
RegistrationDurable == boot = "up" /\ known => mgr.listed

\* Once boot has stamped the store, a record says "connected" only if an agent
\* of that id registered with THIS process: a record left over by a crash can
\* always be pruned.
ConnectedIsOfThisProcess ==
  boot = "up" /\ stamped => \A id \in AgentIds : record[id].connected => id \in seen

\* What a process leaves in the store serves the next one: it loses no
\* cluster, and keeps no agent alive that is not there.
RecordsSurviveRestarts == RegistrationDurable /\ ConnectedIsOfThisProcess

\* A deleted agent-proxy cluster stays deleted, over restarts too, until an
\* agent says Hello: what its agents' handlers still do when they end does not
\* bring a record back.
DeletedStaysDeleted == deleted => ~mgr.listed /\ ~Persisted

\* The context-to-cluster mapping is identity: only the operator (or the end
\* of the process) removes it, never an agent without the proxy capability.
IdentityDurable == [][mgr.proxy /\ ~mgr'.proxy => OperatorDelete \/ Crash]_vars
=============================================================================
