# A verification project for KubeBolt

KubeBolt's backend (`apps/api`) watches Kubernetes clusters it usually cannot reach: an agent inside each
cluster (`packages/agent`) dials in over one bidirectional gRPC stream, ships metric samples up, and carries
Kubernetes API calls, watches and exec/port-forward tunnels down. This directory holds TLA+ modules of that
connection, of what the backend remembers of the agents, and of the backend's own hard parts: the runtimes of the
clusters, the life of an insight, the WebSocket hub and the gateway to external MCP servers. TLC configurations
check them on small instances, and TLAPS checks proofs for every value of the constants. Paths below are relative to the
repository root; `channel/` is `apps/api/internal/agent/channel/`, `agent:` is `packages/agent/`.

## 1. Inventory

| Component | State | Operations | Hard behaviours | What makes it correct |
|---|---|---|---|---|
| Request multiplexor (`channel/multiplexor.go`) | map request id → buffered Go channel, with a mode | Register, Deliver, cancel, CancelAll, terminateWithOverflow | sends and closes with the mutex released; three ways to be saturated | a slot is closed once, by one goroutine; no silent loss in a tunnel; a watch keeps its newest event; nothing leaks |
| Agent-proxy transport (`channel/transport.go`) | one goroutine per call, a pump per watch | RoundTrip, buildWatchResponse, awaitTunnelHandshake | timeouts and cancellations against late replies | whoever waits is woken |
| Backend tunnel (`channel/tunnel.go`) | credit, creditCh, readBytes, closed | Write, Read, Close, demuxLoop, idleWatchdog | credit in one direction, terminal frames in the other | credit is conserved; a clean end of stream is a complete one; both ends learn of a teardown |
| Agent kube proxy (`agent: internal/proxy`) | map of tunnel sessions: queues, done, conn | HandleKubeRequest, HandleKubeStreamData, two pumps, watcher | pumps blocked in conn.Read/Write; saturation | no byte lost unless the session ends; the session ends when it is over |
| Registered agent (`channel/registry.go`, Agent) | sender, closed, slots | Send, Close | Close racing calls that found the agent before | Close wakes all and leaves no slot |
| Agent registry (`channel/registry.go`) | agents by cluster and id, lost, helloMeta | Register, Unregister, LostSince, GetProxyAgent, SetHelloMeta | sessions of one agent id overlap | the newest session is the one reachable |
| Stream handler (`internal/agent/server.go`, `auto_register.go`) | one goroutine per stream | Hello, auto-register, Welcome, receive loop, stuck-agent watchdog | order of Welcome and Register; decisions on an answer that ages | Welcome first; the cluster's mode follows its agents |
| Agent record store (`channel/registry_store.go`) | BoltDB records: capabilities, ConnectedAt, DisconnectedAt | Upsert, MarkDisconnected, MarkAllDisconnected, Prune, DeleteCluster | every write may fail; written after the registry's mutex is released; crashes | a registration survives a restart; a delete is final; "connected" is true |
| Cluster entries (`internal/cluster/manager.go`) | agent-proxy, metrics-only and listed clusters | AddAgentProxyCluster, AddMetricsOnlyCluster, RemoveAgentProxyCluster | promotions, demotions and deletes interleave | identity is not forgotten |
| Runtime pool (`internal/cluster/manager.go`, `selection.go`) | active runtime, pool by context, a ready channel and a broadcast gate each | switchCluster, getOrSpinPooled, park, promote, retry, evict, reap | a build of 45 s without the mutex; whoever waits for it; evictions of what is being built | the active runtime is the selected cluster's; waiters are woken; only it broadcasts |
| Boot (`cmd/server/main.go`) | — | HTTP start, SetStore, MarkAllDisconnected, List, restore loop, gRPC, hourly prune | a delete between two of those steps; a failing store | clusters come back, deleted ones do not |
| Sample ring and shipper (`agent: internal/buffer`, `internal/channel`, `internal/shipper`) | ring, counters, session, backoff | Push, PopBatch, flush, heartbeat, stall watchdog, reconnect | a Send stuck in flow control; a shutdown in the middle of it | the loss is the oldest samples and is counted; a session that ended or stalled is replaced |
| Insights engine (`internal/insights`) | per engine: insights, hydrated; in Bolt: head records, episode rows | Evaluate, hydrate, admitNew, persist, resolve, watchdog, retention | three writes per evaluation; a crash, the watchdog or another engine between them | one notification per stretch; what is over gets closed |
| WebSocket hub (`internal/websocket`) | client set, queue of 4096, a channel of 256 per client | Run, Broadcast, ServeWS, two pumps per client | unbuffered channels, slow clients, a channel closed by its user's owner | no gap in a stream; no double close; slow clients leave |
| MCP gateway (`internal/mcpgateway`, `settings/mcp.go`) | bindings, failures, a WaitGroup, stored configuration with its last error | acquire, bind, rebind, release, retire, sweep, Invalidate, Test, Shutdown | seven ways to retire a binding in use; errors written from old snapshots | sessions live while used; Shutdown waits for them; an error belongs to its configuration |
| Notifications, findings, copilot, REST API, auth, settings, integrations, rightsizing, collectors, web UI | databases, caches | request handlers, pollers, rules | mostly data | see section 7 |

How they interact. A stream's handler registers an `Agent`, which owns a `Multiplexor`; `RoundTrip` picks the
agent from the registry, registers a slot, sends through `Agent.Send` and reads from its slot; the handler's
receive loop calls `Deliver` for each reply. On eviction, on the watchdog's decision, and when the handler
returns, `Agent.Close` cancels all slots. The registry writes to the record store after releasing its own
mutex; the handler calls the manager through `maybeAutoRegisterCluster`; boot reads the store and fills the
manager before gRPC is accepted. On the agent, a session's read loop starts a goroutine per request and hands
tunnel frames to the session's queue; its writer drains the ring that the collectors fill. The handler's
auto-registration reaches the manager a second time: a Hello retries the selected cluster or builds a runtime for
the pool, whose engine evaluates the rules, writes insights and calls the notification hook; the active runtime's
events go through the broadcast gate to the hub. Agent tools and the copilot call external MCP servers through the
gateway, whose configuration admins save.

`PROJECT.json` lists the hazards of this code line by line, each with the properties that would catch it.

## 2. Modules

| Module | Models |
|---|---|
| `Multiplexor` | slots of one agent; each action is one critical section or one channel operation |
| `AgentProxy` (EXTENDS Multiplexor) | the goroutines that run those steps: callers, receive loop, Agent.Close; the agent's reply order |
| `TunnelFlow` | one tunnel after its handshake: TunnelConn, the agent's tunnelSession, the stream between them |
| `AgentRegistry` | handlers, registry, records, manager entries, crash and boot, for one cluster |
| `RequestSlots` | abstract: what the multiplexor promises each caller; `AgentProxy` implements it |
| `TunnelPipe` | abstract: what a tunnel promises its two users; `TunnelFlow` implements it |
| `AgentShipper` | collectors, ring, session, stall watchdog, reconnect loop |
| `RuntimePool` | the active and the pooled runtimes of cluster.Manager and the goroutines that build and use them |
| `InsightEpisodes` | one insight fingerprint: the cluster's engines and what they hold, head record, episode rows, watchdog, retention, crash |
| `WsHub` | Hub.Run, the emitters, and the two goroutines of every client |
| `McpGateway` | the bindings of one connector, the requests that share them, its stored configuration |
| `MC…` | model values for TLC |
| `…_proofs` | theorems about the module they are named after |

### Multiplexor and AgentProxy
`pending`, `ch` and `closed` are the multiplexor's map, the buffers, and `pendingCall.closed`. The code takes
`mu`, looks up, releases `mu`, and only then sends or closes, so these are different actions: `Deliver` (lookup)
→ `DeliverSend` → for a watch `DeliverEvict`, `DeliverPush`; for a tunnel `OverflowDrain`*, `OverflowMark`
→ for a terminal message `DeliverCancel`, `DeliverClose`. `terminateWithOverflow` keeps `mu` while it drains;
that is `MuFree`. A call is `CallRegister`, `CallSend`, then `CallTake`, `CallAtEnd`, `CallGiveUp` (context or
timeout, at any moment) or `CallAgentClosed`, and `CallCancel`, `CallClose` where the code cancels.
What a watch pump or a tunnel's demuxLoop has taken it hands to its user, a write to an unbuffered pipe or a send to
readBytes; while it is "handing" it sees neither its channel, nor the context, nor `closed`, and only the user's
`HandedOver`, `BodyClosed` or `TunnelClose` gets it on. `Agent.Close` is `CloseDropSender`, `CloseSignal`, `CloseSnapshot`, `CloseCancel`/`CloseChan` per slot. Sending on
or closing a closed channel sets `panic`, which stops everything, as in Go. `Replies` is the order in which
`kube_proxy.go` answers each kind of request; a tunnel's two pumps end separately, so acks may follow its eof.
A message carries its number, so completeness and order can be stated; its payload is left out.

`RequestSlots` has no mutex, map or goroutine: a slot is opened, released, sealed, and between that posted to, read
from, or robbed of its oldest message if its mode allows. The mapping (`Slots` in AgentProxy) takes `ch` for the
queue, `got` for what was read, and a slot's box from `pending` and `closed`. Deliver's lookup, its decisions and
the mutex are stutters; the actual send, eviction, drain and close are the abstract steps. What the abstract
specification adds to the invariants is a statement about steps: a message is posted newest last and never twice,
a slot that is out of the map never gets a marker, and one that is sealed receives nothing but the panic.

### TunnelFlow
A frame is a kind and a size. The sender's half is `Write` (with `reserveCredits` as `TakeCredit`,
`ReserveFails`), the receiver's `DemuxTake`, `ReadChunk`, `ReadEnds`; the agent's half `HandleKubeStreamData`,
`ToApi…` for pumpToApiserver, `ToBackend…` for pumpToBackend, `Watch`, `SessionReturns`. Steps that the code
performs in sequence but that share only one object with any other goroutine are one action: credit and send,
read and send, write and ack, the whole of Close, the whole of Deliver (its interleavings are AgentProxy's
subject). `readBytes` may be one over its capacity: the last chunk is the one `demuxLoop` holds in a blocked
push. There is no queue of acks on the agent because nothing in the backend sends it any (section 5).
Deadlines are left out: they only end a call the SPDY layer may end anyway. Close may come at any time,
which covers the idle watchdog and the SPDY layer.

`TunnelPipe` has two pipes and no frames, acks, queues or goroutines: bytes are sent and arrive, are produced and
returned, and Read ends complete or short. The mapping (`Pipe` in TunnelFlow) takes the four counters as they are,
`drained` from pumpToBackend's exit and the verdict from what Read told and `readErr`; the queues' steps are stutters.
A writer may be a window ahead of what *arrived*, so bytes that were lost are never refunded, and `EndOfSource` says
that a reader which meets the agent's eof has had every byte and that there will be no more. That a reader cut short
is told an error is not promised: a broken stream reads as `io.EOF` too (section 5).

### AgentRegistry
One action per critical section of the registry, the manager or the store. The order of a handler's steps is
`Then`: decision → Welcome → SetHelloMeta → Register → Upsert → close the evicted → serve; on the way out
`Unregister` → `MarkDisconnected` → `CloseSelf`. Every store write may fail, and the code's reaction is modelled
(ignored, or logged). `Crash` may come at any moment of the process, boot included, and keeps only `record`.
`Boot…` is main.go's order; operator deletes are possible as soon as HTTP answers. The deployment modelled has
auto-registration on, a BoltDB store (authentication enabled), one tenant, and a remote cluster, not the one
the backend runs in: the other settings remove steps. `seen`, `fresh`, `known`, `deleted`, `stamped` are
history variables: no action's guard reads them.

### AgentShipper
Samples are counted, not told apart. Time is counted in ticks of the stall watchdog: the collectors' tickers fire
together every `Cadence` ticks, and a collector pushes whenever its collection is done, so `Push` and `Tick` are
independent; one that is late by a whole round skips the next tick, as a Go ticker makes it. `FlushTick` pops before it sends, as
`flushOnce` does, so a failed Send loses the batch. `stream` is the agent's view: "stuck" is flow control,
"cancelled" the end of the stream's context, which unblocks a stuck Send. `droppedTotal` appears as what the
watchdog sees of it; after an oversized push, which may make the unsigned counter wrap, the comparison is left
open. The lengths of the backoff are left out.

### RuntimePool
A runtime is named by its connector and built once. `active`, `conn`, `gate` and `pool` are the Manager's fields;
`life` follows a runtime from its placeholder (`building`) over `started` (startRuntime returned; its gate is open)
to `live`, when the placeholder is filled and its ready channel closed, and `stopped`. `caller` is a goroutine on its way
through `getOrSpinPooled`: `lookup`, `wait` or `build`, `built`, `got`; its `kind` says what it does with the result:
`SwitchEnd`, `RetryEnd` (both `Promote`) or `UseDone`. Everything between two steps of a caller happens without
the mutex. `SwitchBegin` is the whole first critical section of switchCluster: it parks the active runtime, evicts
over the cap, and either swaps a pooled runtime in or claims the selection and goes to build. A parked entry has no
ready channel, so whoever looks it up hangs (`hung`; finding 2). Clocks are abstracted: which entry is idle too long or
least recently used is chosen, but one that a caller has just touched is not (`InUse`), and the entry just parked is
the last the cap takes. `panic` is the second Stop of a connector. Manager.Stop is left out.

### InsightEpisodes
`engine`, `mem` and `ev` are per engine of the cluster: its life, what it holds, its evaluation in progress. After the
rules an evaluation goes through `sink` (`WriteEpisode`), `head` (`WriteHead`, with the record it read before) and `hook`
(`Notify`); a `Crash`, the watchdog's `ExpireStale`/`MarkExpired`, `PruneHead`/`PruneRow` and the other engine may come
between any two. `Hydrate` is the first evaluation of an engine, which brings back active
records with one grace pass; an engine that evaluates before `SetInsightStore` never hydrates (`blind`). Admission is
`AdmitContinued`, `AdmitFlap` or `AdmitOpen`, as admitNew decides; the resolve loop is `SpendGrace` and `Resolve`.
A row is `fresh` until ExpireTTL went by untouched, a head `cool` until the reopen cooldown is over. `Lapse` ages
only rows that no evaluation keeps fresh, since evaluations come more often than ExpireTTL.
`EngineStops` is the cancel in evictPoolEntryLocked and stopCurrent, which wait for nobody: a stopped engine finishes the
evaluation it is in, may begin another (its select may prefer the tick), and reads caches nobody refreshes, so its rules
may produce what is gone or miss what is there (`Produced`, `Absence`). `EngineReturns` is the end of its goroutine.
`EngineStarts` needs no other to be gone: an engine is built beside a stopped one, or beside one that
an evicted placeholder left running. `stored` are the engines with a store. `told` and `alone` are history: the
stretch was notified; the engine has been the only one since it was built.

### WsHub
`Deliver` is one turn of the hub's select for an event: every matching client gets it or is put in `slow`; the
hub then offers each of those on `unregister`, which only itself receives (`Receiving` requires `slow = {}`), so
from there nothing it owns moves. `Register` and `Unregister` are rendezvous of a client's goroutine with the hub. An event is
its place in the hub's order; `handled`, `from` and `got` record what was handled, since when a client is owed, and
what was written to its connection.

### McpGateway
One organization and connector. An entry goes `building` → (a failed or recovering one: `recording` → `writing`) →
`ready`; `refs` counts the requests in `waiting`, `using`, `failing`. `Retired`, `Released` and `Closing` are the code's
retireLocked, release and closeLocked as functions of an entry; every action that retires uses them. `open` is the
WaitGroup. The error of a failed bind is written by `RecordReads` and then `RecordWrites`, against a stored
configuration that `Save`, `OtherReplica` and the admin's test change meanwhile; `Refused` is the precondition the
settings check. A fingerprint is a version number. The stored configuration has two: `ver`, UpdatedAt, and `conf`, the
version that last changed the mode, a field or a secret. `Patches` is what a save leaves: one of the role floor alone
stamps nothing; pausing, enabling or re-sending a value stamps `ver` and keeps the error; a change moves both and clears
it. `OtherReplica` saves so too, and records outcomes of tests and binds. `errorOf` is history: the version an error was
observed on. EnsureMCPConnectorFields is left out. A binding that `RebindSwaps` puts in place may still be partial.
`RebindGivesUp` and `TestForgives` are two critical sections of the code in one step each: after the first of a rebuild
that gives up, the next rebuild of its entry is minutes away; a test holds the binding it looks at only to count tools.
Ids stand for entries that exist at one time; `Tidy` gives one back when nothing refers to it.

## 3. Runs

| Run | Constants | Checks |
|---|---|---|
| `proxy` | two requests (any mode; unary), watch buffer 2, tunnel buffer 1, 3 replies | `TypeOK`, `OneCloser`, `SaturationIsHonest`, `NoSlotSurvivesClose`, `CloseWakesEveryCaller`, `KeepsSlotPromise` |
| `registry` | a DaemonSet pod that connects twice, one old pod that declares no capabilities, one restart | `TypeOK`, `RegistryFollowsHandlers`, `WelcomeFirst`, `LostIsWitnessed`, `RecordsSurviveRestarts`, `DeletedStaysDeleted`, `IdentityDurable` |
| `tunnel` | window 2 on the backend, 1 or 2 on the agent, every queue of length 1, 3 bytes down, 1 up | `TypeOK`, `CreditWithinWindow`, `NothingLostInSession`, `KeepsPipePromise`, `TeardownReachesBothEnds` |
| `shipper` | ring 4, flush 2, three collectors that push 1 or 2 per round of three ticks, timeout 5 ticks (the code's proportions) | `TypeOK`, `PushMatchesReference`, `NoWriterBetweenSessions`, `EndedSessionIsReplaced`, `ShutdownCompletes`, `StalledSessionEnds` |
| `pool` | an agent-proxy and a kubeconfig context, a cap of one, two goroutines, three builds | `TypeOK`, `ActiveServesItsContext`, `OnlyActiveBroadcasts`, `WaiterHasABuilder` |
| `episodes` | two engines, one overlap (`OneOverlap`), two episodes, crashes at any time | `TypeOK`, `NoRenotification`, `ClearedRecordCloses`, `FiringIsVerified` |
| `hub` | two clients, an emitter, two scopes, channels of 1, a queue of 2, three events | `TypeOK`, `StreamHasNoGap`, `ChannelClosedOnce` |
| `gateway` | two requests, two entries, one change of the settings (`MaxChanges`), a test beside at most one busy request (`TestBesideOne`) | `TypeOK`, `UsersHoldAnOpenSession`, `ShutdownWaitsForSessions`, `ErrorsBelongToTheConfig`, `BindKeepsTestErrors` |

Four more runs refute one statement of the repository each; see section 5. The definitions that a run's
properties are conjunctions of (`OneCloser`, `SaturationIsHonest`, `RegistryFollowsHandlers`,
`RecordsSurviveRestarts`) have names of their own in the modules.

Why the bounds are enough. *proxy*: slots share nothing but the mutex, the receive loop and Close; two requests
give every pair of them something to collide on, and three replies overfill both buffers (2 and 1) and still leave
a terminal message. *registry*: two sessions of one id are what eviction and late teardown need, the third
brings in a second id and the missing capabilities, the restart the store's history; the statements that matter
here are also proved for any number of sessions, ids and restarts. *tunnel*: queues of one saturate at the second frame, so each of the
four reaches its limit with three bytes; the window of two lets a writer both run out of credit and be refunded.
A window above the agent's queue is the code's own proportion (256 KiB against 64 frames). *shipper*: the periods are the
code's (30, 10 and 45 s); three pushes per round fill the ring within one, and can give each of its three looks a fresh drop
or leave two of them quiet, so the watchdog both fires and resets itself.
*pool*: two contexts are what a selection moves between and back; the cap of one evicts with the second parked
runtime; two goroutines are a builder and a waiter, or two builders; three builds let a key be built, evicted, built
again and promoted. *episodes*: two episodes make an old row and a current one, or one and the duplicate that a crash or
an overlap leaves. `OneOverlap` keeps, beside an engine alone, the overlap of one stopped engine, until the evaluation it was
in is over, with the engine built after it; what the survivor of an overlap does later is not followed (it is not
`alone`, so the properties about engines say nothing of it), but an engine built after a crash inherits whatever the two
wrote. `TypeOK` and `NoRenotification` are proved for any number of engines in any overlap. *hub*: the second event finds a channel of one full, the third is one that a client may miss.
*gateway*: a binding, its replacement, and one request on each; one save, with or without a change of the configuration, makes
every snapshot stale. The invariants of
the last four are also proved without the bounds.

Deadlock is checked in `registry`, `episodes` and `episode_revive`. In the other runs a state without successors is legitimate: all
calls, both ends of the tunnel, or the agent have finished; the gateway is shut down and idle; or the model stops
where the program does (the panic in `pool`, the stopped hub in `hub`).

## 4. Fairness

Liveness is checked under weak fairness of single goroutines: Go schedules a runnable goroutine, and a
mutex here is held for a bounded time. No step of a user, of the apiserver or of the network is fair: contexts
need not end, the apiserver need not accept or send data, the stream need not break or get unstuck.

- `AgentProxy`: no user step is fair. `CloseWakesEveryCaller` states in itself what it needs of a user (`ReadsOn`: a
  message handed to it is taken, or the body or conn closed, sooner or later). It starts from a Close that has dropped the sender, so it does not say that
  Close gets as far as that: it waits for `sendMu`, which a stuck `stream.Send` may hold (listed as a hazard).
  The SPDY layer closes a conn whose Read has ended; that is client-go's behaviour.
- `TunnelFlow`: the same of the SPDY layer, and frames on a live stream arrive. `ToApiWrite` is not fair (the
  apiserver may not read), and `TeardownReachesBothEnds` holds all the same because the watcher closes the conn.
- `AgentShipper`: collectors and clock go on; a handshake need not end unless the agent's context has, because
  Run waits for Welcome without a timeout.
- `InsightEpisodes`: an evaluation that runs ends, an engine that is not stopped evaluates again (`GoesOn`), the watchdog
  and the clock go on. Nothing is assumed of boot, of crashes, of the condition, or of when engines start, stop
  and return: `ClearedRecordCloses` says in itself that some engine which hydrates stays, and is alone.
- `WsHub`: `FairSpec` serves the refutation only. Every goroutine is fair, strongly so where it offers on an unbuffered channel,
  so the counterexample is the hub's own deadlock and no lack of scheduling.
- `RuntimePool` and `McpGateway` are checked for safety only. Who waits for a build has somebody that will wake it
  (`WaiterHasABuilder`); that the build ends is the connect deadline, a clock.

## 5. Findings

1. `proxy_panic` / `NeverPanics`: Deliver sends on a slot it looked up before releasing the mutex
   (multiplexor.go:205); the slot may be closed in between, and the backend panics.
2. `pool_hang` / `WaitIsForABuild`: a parked runtime is filed without a ready channel (manager.go:1280), and
   getOrSpinPooled receives from the ready channel of whatever entry it finds (manager.go:1707): a request
   that names a cluster somebody has just switched away from blocks its goroutine for ever.
3. `episode_revive` / `HeadMirrorsEpisode`: the watchdog expires an episode (episodestore_bolt.go:371) while an
   evaluation holds the head it read before; the head is written back active over an expired episode, or over none.
4. `hub_deadlock` / `SlowClientsLeave`: the hub sends a slow client to its own unbuffered channel (hub.go:76) and stops.

### Noted without a run

Behaviour met while modelling. It is in the models (where one covers the code at all), and no run refutes a statement about it.

- Agents: a metrics-only Hello decides before, and acts after, a proxy-capable one promoted the cluster, which stays
  demoted with a proxy-capable agent connected (auto_register.go:111). The old session's MarkDisconnected overtakes the new
  session's Upsert and stamps a live agent's record (registry.go:441). Deleting a metrics-only cluster removes its
  records and leaves it listed (manager.go:643). A reconnecting agent's Hello metadata may be deleted by the
  old session's Unregister before Register reads it.
- Agent.Send holds `sendMu` while the stream is stuck, and Agent.Close waits for it (registry.go:106): the stuck-agent
  watchdog, the handler's own deferred Close and the Close of a successor all wait until the stream breaks.
- Watches: transport.go:380-386 says that the pipe writer terminates on a cancelled context and on an agent's disconnect. It
  does so only between events: inside `writeWatchEvent` (transport.go:399) it waits for the reader of the body alone, so
  a watch whose body is neither read nor closed keeps its goroutine, and with a cancelled context its slot, for ever. In the model
  that is a request that stays "handing", which `CloseWakesEveryCaller` excludes by its assumption.
- Tunnels: one cut off by a disconnect ends with io.EOF, as if it had ended cleanly (channel/tunnel.go:222). The backend never
  sends KubeStreamAck, so after one window (256 KiB) of output a tunnel stalls (agent tunnel.go:134). run waits for the
  watcher, which waits for what run does when it returns, so a tunnel that ended stays open on the agent until the
  stream breaks (agent tunnel.go:110). An ack that finds `creditCh` full takes its credit with it
  (tunnel.go:247-253). After a frame was dropped by saturation the read loop may still queue a later one that
  pumpToApiserver writes before it exits.
- Shipper: the stall watchdog does not keep the promise of client.go:346-350 for collectors every 30 s and a look every
  10 s. A look that finds no fresh drop takes a full ring for a recovered one and starts the 45 s anew (client.go:362,
  404); if the pushes of a round fall between the same two looks, the other two of the round are quiet, and a Send stuck for
  good is never ended. `stream = "stuck" ~> stream # "stuck"` is refuted under the constants of run `shipper` by exactly
  that; `StalledSessionEnds`, which the run checks, is what remains true: the session ends unless such quiet
  looks keep recurring. An oversized push keeps less than the newest
  tail that fits and may wrap `droppedTotal` (ring.go:37-50, theorem `OversizedPushKeepsLess`).
- Runtimes: an eviction does not touch the waiters of an entry, so a runtime that was evicted and stopped may be promoted,
  and its next Stop closes stopCh twice and panics, which manager.go:97-102 means to exclude. A build that fails deletes
  whatever is filed under its key, and an evicted placeholder leaves its build running for nobody. When every other
  entry is pinned, the runtime just parked is the cap's victim. A failed switch records its error although another
  goroutine may have connected the cluster. getOrSpinPooled does not enforce the cap.
- Insights: a crash between EpisodeOpened and Upsert leaves a second episode, which later expires; one between Upsert
  and the hook loses the notification. An engine that evaluates before SetStore never hydrates, and notifies again what
  was notified before the restart. Retention keeps expired heads for ever.
- Overlapping engines: nobody waits for the engine of a runtime that is stopped (manager.go:1309-1316, 2172-2184), so it
  may be in the middle of an evaluation while the rebuilt one hydrates. Two things go wrong then. (1) The old engine finds no
  record and writes its episode; before it writes the head, the new one hydrates, finds no record either, and both open an
  episode, write the head and notify, against engine.go:402 ("continuations must NOT re-notify").
  Without `g \in alone`, `NoRenotification` is refuted by that. (2) The old engine is stopped between its read of an active
  head and the write; the new one continues the record, the condition goes, it resolves and writes; then the old one's write makes the
  record active again, and the new engine, which no longer holds it, never closes it.
  `ClearedRecordCloses` without `alone` is refuted by that. Both properties are therefore about an engine that was
  alone since it was built, whatever earlier overlaps left in the stores.
- Gateway: the error of a failed bind is written over whatever is on record, also the one an admin's test just left
  (gateway.go:805-809); `BindKeepsTestErrors` is about clearing alone. A failure that a sweep, Invalidate, a passing test or a restart deletes takes with it the fact that its error was
  written, so a later bind that succeeds leaves that error on record. A request whose settings are older than the cache
  retires the newer binding. The session of a test is not counted in `open`.

## 6. Proofs

All assumptions are the named `ASSUME`s of the modules: buffers, windows and caps are positive, mode and agent
assignments have their types, the placeholders `NoReq`, `None`, `NoRt`, `Global` are not members. Finiteness is
assumed of the requests and ids of `McpGateway`, whose invariant counts them, and used nowhere else.

- `AgentProxy_proofs`. `TypeCorrect` by lemmas on the channel operators (a send never exceeds the buffer, a take
  leaves a sequence). `OneCloserInvariant` proves `OneCloser`, slot ownership and no double close, which is inductive
  with `TypeOK` and with the fact that a request is registered once. `NoSlotSurvivesCloseHolds`
  rests on the inductive `SweepCoversSlots`: after the snapshot each slot in the map is on Close's list or its
  owner is about to cancel it. The bare property is not inductive: it says nothing before Close is done.
  `SlotPromiseKept`: `Spec => KeepsSlotPromise`, each step of each goroutine a step of
  RequestSlots or a stutter. The simulation needs that messages are in order (`MessagesInOrder`: what Deliver holds is
  newer than all that the slot holds or its reader has), that the branch taken fits the slot's mode, and
  that whoever Deliver works for has registered (`DeliveryInv`). One lemma per kind of step says what it does to one slot,
  and `OtherSlots` that the rest are left alone.
  `SaturationIsHonestHolds` rests on `SlotInv`, what a slot and its goroutines owe each other at every step of Deliver:
  while its caller reads, only Deliver takes a slot out of the map, and it leaves a terminal message behind
  (`ReleasedWithLastWord`, so "agent closed" is never a guess); nobody fills the room that an eviction made
  (`RoomToPush`), so the newest message of a watch is kept (`NewestKept`); and a tunnel either lost nothing that was
  sent for it while it was in the map (`Whole`) or was cut, and then no eof can reach it any more (`Cut`).
- `TunnelFlow_proofs`. All safety properties of the run from one `Inv`: the shapes and capacities of the queues; three
  ledgers (down, up and credit) that balance counters against sums over queues; that no data follows an eof and
  nothing a final frame (`UpEnds`, `SlotEnds`); and where every byte that pumpToBackend took is, at each stage of
  the end (`EofIsComplete`). `PipePromiseKept`: every step is one of TunnelPipe or a stutter, by the same `Inv`. A sum is a recursive
  function, and what it is after an Append or a Tail is proved by induction over its length: the library's induction theorems
  take an operator, which no installed prover instantiates, but `WFMin` takes a set, so `LeastNumber` says that a
  counterexample would have a least one, and `Induction` follows. What a step does to the sums is stated once (`…Moves`).
- `AgentRegistry_proofs`. `TypeCorrect`, `NoZombieEntryHolds`, `LiveIsRegisteredHolds` (together
  `RegistryFollowsHandlersHolds`), `IdentityDurableHolds`, and with a
  strengthening each: `ConnectedIsOfThisProcess` needs that handlers run only in a process that has booted
  (`HandlersNeedBoot`) and that a session about to upsert has been seen (`ConnectedInv`); `LostIsWitnessed` that
  whoever is registered was seen (`LostInv`); `RegistrationDurable` follows the promise from the manager's entries
  to a record, over a restart to what boot has read, and back (`DurableInv`), and with the former makes
  `RecordsSurviveRestartsHolds`; `DeletedStaysDeleted` needs that no
  handler is on its way to an Upsert and boot holds no records (`DeletedInv`); `WelcomeFirst` that every session past
  the greeting has its Welcome on the wire (`WelcomeInv`). `HelloMetaBounded` is inductive as it stands.
- `AgentShipper_proofs`. `TypeCorrect`, `NoWriterBetweenSessionsHolds`, `PushMatchesReferenceHolds`,
  `OversizedPushKeepsLess`.
- `RuntimePool_proofs`. All four invariants of the run, from one `Inv`: what a goroutine knows of the runtime it holds
  (`Holds`: built for its context, `building` while it builds, stopped or live once it has it), that a runtime on its
  way has exactly one builder (`BuildersOK`, which makes a waiter's channel one that will be closed, wherever the pool
  entry went), and that the active runtime is of the selected context and in no entry (`ConnOK`). The lemma `Refile` does the
  steps that park, promote and evict at once: runtimes only stop, and no builder moves.
- `InsightEpisodes_proofs`. `TypeCorrect`, and `NoRenotificationHolds`, a statement about steps: a stretch that was told is
  active or cooling, whatever engines overlap (`ToldInv`); an engine that hydrated and is alone holds what the store calls
  active, except between its decision to resolve and the write (`HydratedInv`); so what it opens was not told. `TypeOK` says that
  an engine alone is the only one up, so that a step of another engine's evaluation cannot come between (`EngineStep`).
- `WsHub_proofs`. `TypeCorrect`; `ChannelClosedOnceHolds` from `LifeInv`, which ties a client's membership to its reader's
  state and its number of closes; `StreamHasNoGapHolds` from `StreamInv`: what was written and what waits in the channel
  are together the first events the client is owed, in order.
- `McpGateway_proofs`. All five properties. `refs` is the number of requests that hold the entry and `open` the number of
  sessions plus rebuilds (`RefsOK`, `OpenOK`, by cardinalities), so a retired entry with a user is not closed, and the
  WaitGroup is zero exactly when nothing is open. `ErrorsBelongToTheConfigHolds` is inductive as a range, `conf` up to `ver`:
  a save that keeps the error moves only the upper end. `BindKeepsTestErrorsHolds` is a statement about steps.

Only model-checked: the liveness properties (`CloseWakesEveryCaller`, `TeardownReachesBothEnds`, `EndedSessionIsReplaced`,
`ShutdownCompletes`, `StalledSessionEnds`, `ClearedRecordCloses`, `FiringIsVerified`), because fairness and ENABLED are
outside the prover, and of course the refutations: `NeverPanics`, `WaitIsForABuild`, `HeadMirrorsEpisode`, `SlowClientsLeave`.
Every invariant, step property and refinement that a passing run checks is also a theorem.

## 7. Plan

Done, in this order: Multiplexor, AgentProxy, AgentRegistry, TunnelFlow, AgentShipper; RequestSlots and TunnelPipe with their
refinements, RuntimePool, InsightEpisodes, WsHub and McpGateway, with the theorems above. What would come next:

1. Abstract specifications for the pool (one runtime per context, whoever builds it) and for the store of insights.
2. `RuntimePool` and `InsightEpisodes` composed: an engine that is parked keeps evaluating, and which overlaps of
   engines the pool's evictions really allow (`InsightEpisodes` alone allows any).

### Not modelled, and why

- The stuck-agent watchdog's own readings (Pending, SinceLastDelivery): the models let it close a session at any time,
  which covers what it may do; what it should decide is promised nowhere.
- Rules, rightsizing, metric and API conversions (`connector.go`, `rules.go`): data without control, most of the code's lines.
- Notifications: fan-out to sinks and a cooldown map under one mutex; the hook that feeds it is in InsightEpisodes.
- Copilot, skills, MCP server and client, integrations: the control lies in external services.
- Authentication, audit, settings and usage: request-scoped checks and CRUD (the MCP settings are in McpGateway).
- The web UI and generated protocol code.

## 8. Reproducing

    tlc -workers 2 -config MCAgentProxy.cfg MCAgentProxy
    tlc -workers 2 -config MCTunnelFlow.cfg MCTunnelFlow
    tlapm AgentProxy_proofs.tla

`PROJECT.json` names the module and configuration of each run. Each property of a passing run has a mutant there:
a plausible bug, written next to the operator it replaces, under which the run finds the property violated.
