------------------------------ MODULE RuntimePool ------------------------------
(***************************************************************************)
(* The cluster runtimes of the backend (apps/api/internal/cluster,         *)
(* manager.go and selection.go): the active runtime, the pool of parked    *)
(* runtimes, and the goroutines that build, promote, park and evict them.  *)
(*                                                                         *)
(* A runtime is a connector with its collector, engine, cancel function    *)
(* and broadcast gate; it is identified by its connector and built once.   *)
(* Manager.mu makes each action below that reads or writes the Manager's   *)
(* fields one step; startRuntime (up to 45 s) and the waits on a           *)
(* placeholder's ready channel happen between the steps of a caller.       *)
(*                                                                         *)
(* Wall-clock time is abstracted: which parked runtime is the least        *)
(* recently used, and which has been idle for poolIdleTimeout, is chosen.  *)
(* The initial connect of NewManager, which holds the mutex from start to  *)
(* end, is part of Init.  Manager.Stop is left out: the process exits.     *)
(***************************************************************************)
EXTENDS Naturals, FiniteSets

CONSTANTS
  Contexts,       \* context names
  ProxyContexts,  \* those of the form agent:<uid>
  Platform,       \* "in-cluster" when the backend runs in a cluster, or {}
  Callers,        \* goroutines that can be inside getOrSpinPooled at one time
  Runtimes,       \* bound: the runtimes built during one life of the process
  PoolMax,        \* poolMaxRuntimes (8 in the code)
  NoCtx,          \* activeContext = ""
  NoRt            \* a nil connector, or no entry in the pool

ASSUME ContextAssumption ==
  /\ ProxyContexts \subseteq Contexts
  /\ Platform \subseteq Contexts \ ProxyContexts
  /\ NoCtx \notin Contexts
ASSUME RuntimeAssumption == NoRt \notin Runtimes /\ IsFiniteSet(Contexts)
ASSUME PoolMaxAssumption == PoolMax \in Nat \ {0}

VARIABLES
  active,   \* Manager.activeContext
  conn,     \* Manager.connector (with collector, engine, cancelFn, activeGate)
  pool,     \* Manager.runtimes: the runtime filed under each context, or NoRt
  parked,   \* the contexts whose pool entry was made by parkActiveLocked
  life,     \* where each runtime is between reservation and Stop
  of,       \* the context each runtime was built for
  gate,     \* the runtimes whose broadcast gate is open
  caller,   \* what each goroutine is doing
  proxy,    \* the contexts in agentProxyContexts
  known,    \* the contexts in kubeConfig.Contexts
  agents,   \* the contexts with a live agent (CountByCluster > 0)
  panic     \* a connector's stopCh was closed twice

vars == <<active, conn, pool, parked, life, of, gate, caller, proxy, known, agents, panic>>

Lives == {"free", "building", "started", "live", "stopped", "failed"}
Kinds == {"switch", "retry", "use"}
PCs == {"idle", "check", "see", "lookup", "wait", "hung", "build", "built", "got"}

\* A goroutine outside getOrSpinPooled.
Idle == [pc |-> "idle", kind |-> "use", ctx |-> NoCtx, rt |-> NoRt]
At(pc, kind, c) == [pc |-> pc, kind |-> kind, ctx |-> c, rt |-> NoRt]

\* NewManager: nothing selected, or the kubeconfig's current context, whose
\* connection failed or is up.
Init ==
  /\ \E r0 \in Runtimes, k \in (Contexts \ ProxyContexts) \cup {NoCtx}, up \in BOOLEAN :
       /\ up => k # NoCtx
       /\ active = k
       /\ conn = IF up THEN r0 ELSE NoRt
       /\ life = [r \in Runtimes |-> IF up /\ r = r0 THEN "live" ELSE "free"]
       /\ of = [r \in Runtimes |-> IF up /\ r = r0 THEN k ELSE NoCtx]
       /\ gate = IF up THEN {r0} ELSE {}
  /\ pool = [c \in Contexts |-> NoRt]
  /\ parked = {}
  /\ caller = [p \in Callers |-> Idle]
  /\ proxy = {} /\ agents = {}
  /\ known = Contexts \ ProxyContexts
  /\ panic = FALSE

-----------------------------------------------------------------------------
(* Eviction.                                                               *)

\* rt.connector # nil: the placeholder has been filled in.
Published(r) == life[r] \in {"live", "stopped"}
BuiltEntries(pl) == {c \in Contexts : pl[c] # NoRt /\ Published(pl[c])}

\* runtimeIsPinnedLocked: a connected agent-proxy, or the platform's cluster.
Pinned(c) == (c \in proxy /\ c \in agents) \/ c \in Platform

\* cancelFn and Connector.Stop of the runtimes rs; one that is already stopped
\* closes stopCh again.  A placeholder still building has neither.
StopRuntimes(rs) ==
  /\ life' = [r \in Runtimes |-> IF r \in rs /\ life[r] = "live" THEN "stopped" ELSE life[r]]
  /\ panic' = (panic \/ \E r \in rs \cap Runtimes : life[r] = "stopped")

Cleared(pl, cs) == [c \in Contexts |-> IF c \in cs THEN NoRt ELSE pl[c]]

\* The victims of enforcePoolCapLocked: least recently used first, so the
\* entry just parked goes only when every other unpinned one has gone.
CapVictims(pl, last) ==
  LET built == BuiltEntries(pl)
      loose == {c \in built : ~Pinned(c)}
  IN {vs \in SUBSET loose :
        /\ IF Cardinality(built) <= PoolMax
           THEN vs = {}
           ELSE \/ Cardinality(built) - Cardinality(vs) = PoolMax
                \/ vs = loose /\ Cardinality(built) - Cardinality(vs) > PoolMax
        /\ last \in vs => loose \ {last} \subseteq vs}

\* A lookup that found c's entry, or the build of it, has just touched lastUsed.
InUse(c) == \E p \in Callers : caller[p].rt = pool[c] /\ caller[p].pc # "hung"

\* reapIdlePooledRuntimes: the unpinned built entries that are idle too long.
ReapIdle(idle) ==
  /\ idle # {}
  /\ idle \subseteq {c \in BuiltEntries(pool) : ~Pinned(c) /\ ~InUse(c)}
  /\ StopRuntimes({pool[c] : c \in idle})
  /\ pool' = Cleared(pool, idle)
  /\ parked' = parked \ idle
  /\ UNCHANGED <<active, conn, of, gate, caller, proxy, known, agents>>

-----------------------------------------------------------------------------
(* switchCluster, first critical section.                                  *)

\* The pool after parkActiveLocked filed the active runtime, before the cap.
PoolAfterPark == IF conn = NoRt THEN pool ELSE [pool EXCEPT ![active] = conn]

\* An instant switch when the target's runtime is in the pool; otherwise the
\* target is claimed and the caller goes on to build it without the mutex.
SwitchBegin(p, c) ==
  /\ caller[p] = Idle
  /\ c \in known
  /\ ~(c = active /\ conn # NoRt)
  /\ \E victims \in IF conn = NoRt THEN {{}} ELSE CapVictims(PoolAfterPark, active) :
       LET filed == Cleared(PoolAfterPark, victims)
           hit == filed[c] # NoRt /\ Published(filed[c])
       IN /\ StopRuntimes({PoolAfterPark[d] : d \in victims})
          /\ pool' = IF hit THEN [filed EXCEPT ![c] = NoRt] ELSE filed
          /\ parked' = ((parked \cup (IF conn = NoRt THEN {} ELSE {active})) \ victims)
                       \ (IF hit THEN {c} ELSE {})
          /\ conn' = IF hit THEN filed[c] ELSE NoRt
          /\ gate' = (gate \ {conn}) \cup (IF hit THEN {filed[c]} ELSE {})
          /\ caller' = IF hit THEN caller ELSE [caller EXCEPT ![p] = At("lookup", "switch", c)]
  /\ active' = c
  /\ UNCHANGED <<of, proxy, known, agents>>

\* adoptDefaultSelection: the same, only when nothing is selected.
AdoptDefault(p, c) == active = NoCtx /\ c \in proxy /\ SwitchBegin(p, c)

-----------------------------------------------------------------------------
(* getOrSpinPooled.                                                        *)

\* Mutant of Reserve: the placeholder is filed under the selected context.
ReserveSelected(p, r) ==
  /\ life[r] = "free"
  /\ life' = [life EXCEPT ![r] = "building"]
  /\ of' = [of EXCEPT ![r] = caller[p].ctx]
  /\ pool' = [pool EXCEPT ![active] = r]
  /\ caller' = [caller EXCEPT ![p].pc = "build", ![p].rt = r]

\* Nobody else works for p's runtime: no entry, a placeholder is reserved.
Reserve(p, r) ==
  LET c == caller[p].ctx IN
  /\ life[r] = "free"
  /\ life' = [life EXCEPT ![r] = "building"]
  /\ of' = [of EXCEPT ![r] = c]
  /\ pool' = [pool EXCEPT ![c] = r]
  /\ caller' = [caller EXCEPT ![p].pc = "build", ![p].rt = r]

\* The lookup under the mutex.  A parked entry has no ready channel: the
\* receive from it never returns ("hung").
Lookup(p) ==
  LET c == caller[p].ctx IN
  /\ caller[p].pc = "lookup"
  /\ \/ /\ pool[c] # NoRt
        /\ caller' = [caller EXCEPT ![p].pc = IF c \in parked THEN "hung" ELSE "wait",
                                    ![p].rt = pool[c]]
        /\ UNCHANGED <<life, of, pool>>
     \/ /\ pool[c] = NoRt
        /\ (c \in proxy /\ c \notin agents) \/ c \notin proxy \cup known
        /\ caller' = [caller EXCEPT ![p].pc = "got"]
        /\ UNCHANGED <<life, of, pool>>
     \/ /\ pool[c] = NoRt
        /\ c \in proxy \cup known
        /\ c \in proxy => c \in agents
        /\ \E r \in Runtimes : Reserve(p, r)
  /\ UNCHANGED <<active, conn, parked, gate, proxy, known, agents, panic>>

\* <-rt.ready, then rt.connErr.
WaitDone(p) ==
  /\ caller[p].pc = "wait"
  /\ life[caller[p].rt] \in {"live", "stopped", "failed"}
  /\ caller' = [caller EXCEPT ![p].pc = "got",
                  ![p].rt = IF life[@] = "failed" THEN NoRt ELSE @]
  /\ UNCHANGED <<active, conn, pool, parked, life, of, gate, proxy, known, agents, panic>>

\* startRuntime returned a runtime: its goroutines run and its gate is open.
BuildOk(p) ==
  /\ caller[p].pc = "build"
  /\ life' = [life EXCEPT ![caller[p].rt] = "started"]
  /\ gate' = gate \cup {caller[p].rt}
  /\ caller' = [caller EXCEPT ![p].pc = "built"]
  /\ UNCHANGED <<active, conn, pool, parked, of, proxy, known, agents, panic>>

\* Mutant of BuildFail: the error returns without closing ready.
BuildFailSilent(p) ==
  /\ caller[p].pc = "build"
  /\ pool' = [pool EXCEPT ![caller[p].ctx] = NoRt]
  /\ parked' = parked \ {caller[p].ctx}
  /\ caller' = [caller EXCEPT ![p].pc = "got", ![p].rt = NoRt]
  /\ UNCHANGED <<active, conn, life, of, gate, proxy, known, agents, panic>>

\* startRuntime failed or ran into the connect deadline: whatever is filed
\* under the key leaves the pool, then ready is closed on the error.
BuildFail(p) ==
  /\ caller[p].pc = "build"
  /\ life' = [life EXCEPT ![caller[p].rt] = "failed"]
  /\ pool' = [pool EXCEPT ![caller[p].ctx] = NoRt]
  /\ parked' = parked \ {caller[p].ctx}
  /\ caller' = [caller EXCEPT ![p].pc = "got", ![p].rt = NoRt]
  /\ UNCHANGED <<active, conn, of, gate, proxy, known, agents, panic>>

\* Mutant of Publish: the gate startRuntime opened stays open.
PublishOpen(p) ==
  /\ caller[p].pc = "built"
  /\ life' = [life EXCEPT ![caller[p].rt] = "live"]
  /\ caller' = [caller EXCEPT ![p].pc = "got"]
  /\ UNCHANGED <<active, conn, pool, parked, of, gate, proxy, known, agents, panic>>

\* built.gate.Store(false), then the placeholder's fields under the mutex and
\* close(ready) right after it.
Publish(p) ==
  /\ caller[p].pc = "built"
  /\ gate' = gate \ {caller[p].rt}
  /\ life' = [life EXCEPT ![caller[p].rt] = "live"]
  /\ caller' = [caller EXCEPT ![p].pc = "got"]
  /\ UNCHANGED <<active, conn, pool, parked, of, proxy, known, agents, panic>>

-----------------------------------------------------------------------------
(* What the callers do with the runtime.                                   *)

\* Mutant of Promote: whatever is selected by now gets the runtime.
PromoteUnchecked(p) ==
  IF conn = NoRt
  THEN /\ conn' = caller[p].rt
       /\ gate' = gate \cup {caller[p].rt}
       /\ pool' = [pool EXCEPT ![caller[p].ctx] = NoRt]
       /\ parked' = parked \ {caller[p].ctx}
  ELSE UNCHANGED <<conn, gate, pool, parked>>

\* The promotion shared by switchCluster and retryAgentProxyConnect: only if
\* the context is still the selected one and nothing connected it first.
Promote(p) ==
  LET c == caller[p].ctx
      r == caller[p].rt
  IN IF active = c /\ conn = NoRt
     THEN /\ conn' = r
          /\ gate' = gate \cup {r}
          /\ pool' = [pool EXCEPT ![c] = NoRt]
          /\ parked' = parked \ {c}
     ELSE UNCHANGED <<conn, gate, pool, parked>>

\* switchCluster, second critical section.
SwitchEnd(p) ==
  /\ caller[p].pc = "got" /\ caller[p].kind = "switch"
  /\ \/ /\ caller[p].rt = NoRt
        /\ UNCHANGED <<conn, gate, pool, parked>>
     \/ caller[p].rt # NoRt /\ Promote(p)
  /\ caller' = [caller EXCEPT ![p] = Idle]
  /\ UNCHANGED <<active, life, of, proxy, known, agents, panic>>

\* One attempt of retryAgentProxyConnect: is it still needed?  It gives up
\* when it is not, and after maxAttempts.
RetryCheck(p) ==
  /\ caller[p].pc = "check"
  /\ \/ /\ active = caller[p].ctx /\ conn = NoRt
        /\ caller' = [caller EXCEPT ![p].pc = "lookup"]
     \/ caller' = [caller EXCEPT ![p] = Idle]
  /\ UNCHANGED <<active, conn, pool, parked, life, of, gate, proxy, known, agents, panic>>

RetryEnd(p) ==
  /\ caller[p].pc = "got" /\ caller[p].kind = "retry"
  /\ \/ /\ caller[p].rt = NoRt
        /\ caller' = [caller EXCEPT ![p].pc = "check"]
        /\ UNCHANGED <<conn, gate, pool, parked>>
     \/ /\ caller[p].rt # NoRt
        /\ Promote(p)
        /\ caller' = [caller EXCEPT ![p] = Idle]
  /\ UNCHANGED <<active, life, of, proxy, known, agents, panic>>

\* eagerSpinPooledRuntime waits until the agent is visible, up to maxWait.
EagerSee(p) ==
  /\ caller[p].pc = "see"
  /\ \/ /\ caller[p].ctx \in proxy \cap agents
        /\ caller' = [caller EXCEPT ![p].pc = "lookup"]
     \/ /\ caller[p].ctx \notin proxy \cap agents
        /\ caller' = [caller EXCEPT ![p] = Idle]
  /\ UNCHANGED <<active, conn, pool, parked, life, of, gate, proxy, known, agents, panic>>

\* resolveRuntime of a request that names a context which is not the active
\* one when it is compared, under a read lock released before the lookup.
Request(p, c) ==
  /\ caller[p] = Idle
  /\ c # active
  /\ caller' = [caller EXCEPT ![p] = At("lookup", "use", c)]
  /\ UNCHANGED <<active, conn, pool, parked, life, of, gate, proxy, known, agents, panic>>

\* The request, or the eager spin, has its runtime or nil.
UseDone(p) ==
  /\ caller[p].pc = "got" /\ caller[p].kind = "use"
  /\ caller' = [caller EXCEPT ![p] = Idle]
  /\ UNCHANGED <<active, conn, pool, parked, life, of, gate, proxy, known, agents, panic>>

-----------------------------------------------------------------------------
(* Registrations.                                                          *)

\* AddAgentProxyCluster: a goroutine p retries the selected context, or spins
\* a context the pool does not hold.
Hello(p, c) ==
  /\ c \in ProxyContexts
  /\ proxy' = proxy \cup {c}
  /\ known' = known \cup {c}
  /\ LET retry == c = active /\ conn = NoRt
         eager == c # active /\ pool[c] = NoRt
     IN IF retry \/ eager
        THEN /\ caller[p] = Idle
             /\ caller' = [caller EXCEPT ![p] = IF retry THEN At("check", "retry", c)
                                                         ELSE At("see", "use", c)]
        ELSE UNCHANGED caller
  /\ UNCHANGED <<active, conn, pool, parked, life, of, gate, agents, panic>>

\* stopCurrent (when c is selected) and evictPooledContextLocked.
TearDown(c) ==
  /\ StopRuntimes({pool[c]} \cup (IF active = c THEN {conn} ELSE {}))
  /\ pool' = [pool EXCEPT ![c] = NoRt]
  /\ parked' = parked \ {c}
  /\ conn' = IF active = c THEN NoRt ELSE conn

\* AddMetricsOnlyCluster: the context stays selected, its runtime goes.
MetricsHello(c) ==
  /\ c \in ProxyContexts
  /\ known' = known \cup {c}
  /\ TearDown(c)
  /\ UNCHANGED <<active, of, gate, caller, proxy, agents>>

\* RemoveAgentProxyCluster and RemoveUploadedContext; the latter returns early, with
\* everything stopped, when the store cannot delete the kubeconfig.
Remove(c) ==
  /\ c \in proxy \/ c \in known \ (ProxyContexts \cup Platform)
  /\ TearDown(c)
  /\ active' = IF active = c THEN NoCtx ELSE active
  /\ proxy' = proxy \ {c}
  /\ known' = known \ {c} \/ (c \notin proxy /\ known' = known)
  /\ UNCHANGED <<of, gate, caller, agents>>

\* AddKubeconfig: an uploaded context is merged in.
AddKubeconfig(c) ==
  /\ c \in Contexts \ (ProxyContexts \cup known)
  /\ known' = known \cup {c}
  /\ UNCHANGED <<active, conn, pool, parked, life, of, gate, caller, proxy, agents, panic>>

\* The registry gains its first, or loses its last, agent of a cluster.
AgentChange(c) ==
  /\ c \in ProxyContexts
  /\ agents' = IF c \in agents THEN agents \ {c} ELSE agents \cup {c}
  /\ UNCHANGED <<active, conn, pool, parked, life, of, gate, caller, proxy, known, panic>>

-----------------------------------------------------------------------------
CallerStep(p) ==
  \/ Lookup(p) \/ WaitDone(p) \/ BuildOk(p) \/ BuildFail(p) \/ Publish(p)
  \/ SwitchEnd(p) \/ RetryCheck(p) \/ RetryEnd(p)
  \/ EagerSee(p) \/ UseDone(p)

Next ==
  /\ ~panic
  /\ \/ \E p \in Callers : CallerStep(p)
     \/ \E p \in Callers, c \in Contexts :
          SwitchBegin(p, c) \/ AdoptDefault(p, c) \/ Request(p, c) \/ Hello(p, c)
     \/ \E c \in Contexts :
          MetricsHello(c) \/ Remove(c) \/ AddKubeconfig(c) \/ AgentChange(c)
     \/ \E idle \in SUBSET Contexts : ReapIdle(idle)

Spec == Init /\ [][Next]_vars

-----------------------------------------------------------------------------
(* Properties.                                                             *)

\* Types, and the pool files a runtime under the context it was built for.
TypeOK ==
  /\ active \in Contexts \cup {NoCtx}
  /\ conn \in Runtimes \cup {NoRt}
  /\ panic \in BOOLEAN
  /\ pool \in [Contexts -> Runtimes \cup {NoRt}]
  /\ parked \subseteq Contexts
  /\ life \in [Runtimes -> Lives]
  /\ of \in [Runtimes -> Contexts \cup {NoCtx}]
  /\ \A c \in Contexts : pool[c] # NoRt => of[pool[c]] = c
  /\ gate \subseteq Runtimes
  /\ caller \in [Callers -> [pc : PCs, kind : Kinds, ctx : Contexts \cup {NoCtx},
                             rt : Runtimes \cup {NoRt}]]
  /\ proxy \subseteq ProxyContexts /\ known \subseteq Contexts /\ agents \subseteq ProxyContexts

\* The connector a request without a cluster header is answered from is the
\* selected cluster's, and neither the reaper nor the cap can reach it: it is
\* not in the pool ("the active runtime is never pooled").  The build runs
\* without the mutex, so the selection may have moved, come back, been
\* removed or been connected by another goroutine when its result is used.
ActiveServesItsContext ==
  conn # NoRt => of[conn] = active /\ \A c \in Contexts : pool[c] # conn

\* Only the selected cluster's events reach the browsers: a running runtime
\* whose gate is open is the active one, or its builder has not filed it yet.
OnlyActiveBroadcasts ==
  \A r \in gate : life[r] \in {"started", "live"} =>
    r = conn \/ \E p \in Callers : caller[p].pc = "built" /\ caller[p].rt = r

\* A caller that waits on a placeholder is woken: the channel is closed, or
\* the goroutine that will close it is under way, even when the entry was
\* evicted, or its key used again, during the build.
WaiterHasABuilder ==
  \A p \in Callers : caller[p].pc = "wait" =>
    \/ life[caller[p].rt] \in {"live", "stopped", "failed"}
    \/ \E q \in Callers : /\ caller[q].rt = caller[p].rt
                          /\ caller[q].pc \in {"build", "built"}

\* "wait if a concurrent caller is still building" (getOrSpinPooled): nobody
\* waits on an entry of the pool that no builder is going to complete.
WaitIsForABuild == \A p \in Callers : caller[p].pc # "hung"
=============================================================================
