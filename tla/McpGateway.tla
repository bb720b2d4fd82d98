------------------------------- MODULE McpGateway -------------------------------
(***************************************************************************)
(* The binding cache of the external MCP gateway, for one organization and *)
(* one connector: apps/api/internal/mcpgateway/gateway.go, with the        *)
(* requests of tools.go, the admin's save and test of admin.go and the     *)
(* stored configuration of apps/api/internal/settings/mcp.go.              *)
(*                                                                         *)
(* A binding holds a session with a provider.  It is built once per        *)
(* configuration by a goroutine of its own, shared by the requests that    *)
(* count themselves in and out, and closed when it is retired and nobody   *)
(* uses it.  A partial one is rebuilt in the background.  The error of a   *)
(* failed build is stored next to the configuration, where an admin's test *)
(* and other replicas write too.                                           *)
(*                                                                         *)
(* The fingerprint of a configuration is its version: a save stamps        *)
(* UpdatedAt, unless it moves the role floor only.  What KubeBolt fills in *)
(* by itself (EnsureMCPConnectorFields) is left out.  Time is left to      *)
(* chance: a retry pause, a rebuild, an idle binding or a cached setting   *)
(* is due whenever the model says so.                                      *)
(***************************************************************************)
EXTENDS Naturals, FiniteSets

CONSTANTS
  Requests,  \* goroutines that list or call the connector's tools
  Ids,       \* identities of cache entries that exist at the same time (bound)
  None,
  MaxChanges \* bound: saves of the connector, and writes of other replicas

ASSUME FiniteAssumption == IsFiniteSet(Requests) /\ IsFiniteSet(Ids)
ASSUME NoneAssumption == None \notin Ids
ASSUME ChangesAssumption == MaxChanges \in Nat

Errors == {"none", "bind", "test"}
Versions == 0..MaxChanges
Configs == [ver : Versions, conf : Versions, error : Errors]

VARIABLES
  stored,   \* the connector in the database: UpdatedAt, the version that last
            \* changed its mode, a field or a secret, and LastError
  errorOf,  \* history: the version that LastError, if any, was observed on
  changes,  \* how many of MaxChanges have happened
  cache,    \* the connector as this process reads it: stored, or cached before
  saver,    \* "saved" between PutMCPConnector and Invalidate
  current,  \* Gateway.bindings, or None
  failure,  \* Gateway.failures: the version that could not be bound, or None
  stopped,  \* Gateway.stopped
  open,     \* Gateway.open
  entry,    \* the entries
  req,      \* a request: where it is, the version it read and whether the error
            \* of a failed bind was on record with it, its entry
  test      \* the admin's connectivity test: where it is, the version it tests

settings == <<stored, errorOf, changes, cache, saver>>
gateway == <<current, failure, stopped, open, entry>>
vars == <<settings, gateway, req, test>>

\* An entry: phase is where its bind goroutine is, session the binding it
\* holds, or, of a failed build, the half-built one that is being closed.
FreeEntry ==
  [phase |-> "free", ver |-> 0, onRecord |-> FALSE, failed |-> FALSE,
   session |-> "none", missing |-> FALSE, refs |-> 0, retired |-> FALSE,
   rebinding |-> FALSE, write |-> "none"]

NoTest == [at |-> "idle", ver |-> 0]
Idle == [at |-> "idle", ver |-> 0, onRecord |-> FALSE, entry |-> None]

Init ==
  /\ stored = [ver |-> 0, conf |-> 0, error |-> "none"] /\ errorOf = 0
  /\ changes = 0
  /\ cache = stored /\ saver = "idle"
  /\ current = None /\ failure = None
  /\ stopped = FALSE /\ open = 0
  /\ entry = [i \in Ids |-> FreeEntry]
  /\ req = [r \in Requests |-> Idle]
  /\ test = NoTest

-----------------------------------------------------------------------------
(* Stored settings *)

Observed(ver) == errorOf' = IF stored'.error = "none" THEN 0 ELSE ver

\* Runtime.MCP returns what it cached less than mcpCacheTTL ago, or reads and
\* caches what is stored; only another replica makes the two differ.  saveMCP
\* drops the cache of this process.
Store(config, observedOn) ==
  /\ stored' = config
  /\ Observed(observedOn)
  /\ cache' = config

\* SetMCPConnectorVerification refuses when the connector was saved since
\* configAt, or when its error is not among those the caller expects.
RefusedNever(configAt, expected) == FALSE

Refused(configAt, expected) ==
  stored.ver # configAt \/ stored.error \notin expected

Verify(configAt, expected, error) ==
  /\ UNCHANGED changes
  /\ \/ Refused(configAt, expected) /\ UNCHANGED <<stored, errorOf, cache>>
     \/ ~Refused(configAt, expected) /\ Store([stored EXCEPT !.error = error], configAt)
     \/ cache' = stored /\ UNCHANGED <<stored, errorOf>>  \* the write failed

CacheExpires ==
  /\ cache # stored /\ cache' = stored
  /\ UNCHANGED <<stored, errorOf, changes, saver, gateway, req, test>>

Change == changes < MaxChanges /\ changes' = changes + 1
NextVersion == stored.ver + 1

\* What PutMCPConnector may leave: a role floor alone stamps nothing; enabling,
\* pausing or sending a value again stamps UpdatedAt and keeps the error; a new
\* mode, field or secret clears it.
Patches ==
  {stored, [stored EXCEPT !.ver = NextVersion],
   [ver |-> NextVersion, conf |-> NextVersion, error |-> "none"]}

\* What another replica's test, or bind, finds on the stored configuration.
Verified == {[stored EXCEPT !.error = error] : error \in Errors}

\* Another replica saves the connector, or records an outcome.  The read-modify-
\* write of a replica is one step here: saveMCP documents what is lost when two
\* replicas' overlap.
OtherReplica ==
  /\ Change
  /\ \/ stored' \in Patches /\ Observed(errorOf)
     \/ stored' \in Verified /\ Observed(stored.ver)
  /\ stored' # stored
  /\ UNCHANGED <<cache, saver, gateway, req, test>>

-----------------------------------------------------------------------------
(* The life of an entry, under Gateway.mu *)

\* What the garbage collector takes: nothing refers to it any more.
Dead(e) ==
  /\ e.phase = "ready" /\ (e.failed \/ e.retired) /\ e.refs = 0
  /\ ~e.rebinding /\ e.session \in {"none", "closed"}

Tidy(e) == IF Dead(e) THEN FreeEntry ELSE e

ClosingAgain(e) ==
  IF e.session # "none" THEN [e EXCEPT !.session = "closing", !.missing = FALSE] ELSE e

\* closeLocked: in the background, once, and not while it is being built.
Closing(e) ==
  IF e.session = "open" THEN [e EXCEPT !.session = "closing", !.missing = FALSE] ELSE e

RetiredInUse(e) == Closing([e EXCEPT !.retired = TRUE])

\* retireLocked, without taking it out of the map.
Retired(e) ==
  LET x == [e EXCEPT !.retired = TRUE]
  IN IF x.refs = 0 THEN Closing(x) ELSE x

ReleasedUncounted(e) ==
  Tidy(IF e.retired /\ e.refs = 0 THEN Closing(e) ELSE e)

Released(e) ==
  LET x == [e EXCEPT !.refs = @ - 1]
  IN Tidy(IF x.retired /\ x.refs = 0 THEN Closing(x) ELSE x)

\* The binding of `current` and those of the others, after `current` retires.
RetireCurrent == [i \in Ids |-> IF i = current THEN Retired(entry[i]) ELSE entry[i]]

\* closeBinding returned.
SessionCloses(i) ==
  /\ entry[i].session = "closing"
  /\ entry' = [entry EXCEPT ![i] = Tidy([@ EXCEPT !.session = "closed"])]
  /\ open' = open - 1
  /\ UNCHANGED <<settings, current, failure, stopped, req, test>>

\* sweepLocked, from its timer or at the head of acquire: a binding nobody
\* used for long, and an old failure.
Sweep ==
  /\ ~stopped
  /\ \/ /\ current # None /\ entry[current].refs = 0 /\ entry[current].session = "open"
        /\ entry' = RetireCurrent /\ current' = None
        /\ UNCHANGED failure
     \/ /\ failure # None /\ failure' = None
        /\ UNCHANGED <<entry, current>>
  /\ UNCHANGED <<settings, stopped, open, req, test>>

-----------------------------------------------------------------------------
(* The bind goroutine *)

AsBound(e, partial) ==
  LET clears == failure # None /\ ~e.retired /\ e.onRecord
      x == [e EXCEPT !.session = "open", !.missing = partial, !.onRecord = FALSE,
                     !.phase = IF clears THEN "recording" ELSE "ready",
                     !.write = IF clears THEN "clear" ELSE "none"]
  IN IF x.retired /\ x.refs = 0 THEN Closing(x) ELSE x

BindSucceeds(i, partial) ==
  /\ entry[i].phase = "building"
  /\ entry' = [entry EXCEPT ![i] = AsBound(@, partial)]
  /\ failure' = IF entry[i].retired THEN failure ELSE None
  /\ UNCHANGED <<settings, current, stopped, open, req, test>>

\* A failed build takes itself out of the map and, unless it was retired
\* meanwhile, leaves its error: to the next requests, and to the admin unless
\* it is on record already or was written not long ago (`again`).  What it
\* had built, if anything, is closed.
FailureOf(e) == IF e.retired THEN failure ELSE e.ver

BindFails(i, again) ==
  LET e == entry[i]
      writes == ~e.retired /\ ~e.onRecord /\ (failure = e.ver => again)
  IN /\ e.phase = "building"
     /\ entry' = [entry EXCEPT ![i] =
          [@ EXCEPT !.failed = TRUE, !.onRecord = FALSE, !.session = "closing",
                    !.phase = IF writes THEN "recording" ELSE "ready",
                    !.write = IF writes THEN "error" ELSE "none"]]
     /\ current' = IF current = i THEN None ELSE current
     /\ failure' = FailureOf(e)
     /\ UNCHANGED <<settings, stopped, open, req, test>>

\* recordBindOutcome reads the settings again: the configuration may have
\* changed, somebody else's error may be there, or its own already.
Pointless(e) ==
  \/ cache.ver # e.ver
  \/ e.write = "clear" /\ cache.error # "bind"
  \/ e.write = "error" /\ cache.error = "bind"

Settled(e) == [e EXCEPT !.phase = "ready", !.write = "none"]

RecordReads(i) ==
  /\ entry[i].phase = "recording"
  /\ entry' = [entry EXCEPT ![i] =
                 IF Pointless(@) THEN Tidy(Settled(@))
                 ELSE [@ EXCEPT !.phase = "writing"]]
  /\ UNCHANGED <<settings, current, failure, stopped, open, req, test>>

ExpectedAny(e) == Errors

\* Only the clearing is conditional on the error that is stored.
Expected(e) == IF e.write = "clear" THEN {"bind"} ELSE Errors

RecordWrites(i) ==
  LET e == entry[i]
  IN /\ e.phase = "writing"
     /\ Verify(e.ver, Expected(e), IF e.write = "clear" THEN "none" ELSE "bind")
     /\ entry' = [entry EXCEPT ![i] = Tidy(Settled(@))]
     /\ UNCHANGED <<saver, current, failure, stopped, open, req, test>>

-----------------------------------------------------------------------------
(* Rebuilding a partial binding *)

CanRebind(e) ==
  /\ e.session = "open" /\ e.missing /\ ~e.rebinding
  /\ ~e.retired /\ ~stopped

\* A binding that is missing less, if not whole, takes the partial one's place,
\* and its count in open.
RebindSwaps(i, j, partial) ==
  /\ entry[i].rebinding /\ entry[j] = FreeEntry
  /\ ~entry[i].retired /\ ~stopped /\ current = i
  /\ entry' = [entry EXCEPT
       ![i] = Tidy(Retired([@ EXCEPT !.rebinding = FALSE])),
       ![j] = [FreeEntry EXCEPT !.phase = "ready", !.session = "open",
                           !.missing = partial, !.ver = entry[i].ver]]
  /\ current' = j
  /\ UNCHANGED <<settings, failure, stopped, open, req, test>>

\* It failed, is no better, or comes too late: what it built is closed, long
\* before the entry's next rebuild is due, which is why this is one step.
RebindGivesUp(i) ==
  /\ entry[i].rebinding
  /\ entry' = [entry EXCEPT ![i] = Tidy([@ EXCEPT !.rebinding = FALSE])]
  /\ open' = open - 1
  /\ UNCHANGED <<settings, current, failure, stopped, req, test>>

-----------------------------------------------------------------------------
(* Requests: toolsOf and Call *)

Ask(r) ==
  /\ req[r].at = "idle"
  /\ req' = [req EXCEPT ![r] = [Idle EXCEPT !.at = "asked", !.ver = cache.ver,
                                                 !.onRecord = cache.error = "bind"]]
  /\ UNCHANGED <<settings, gateway, test>>

Waiting(r, i) ==
  [req EXCEPT ![r] = [@ EXCEPT !.at = "waiting", !.onRecord = FALSE, !.entry = i]]

Fits(r) == current # None /\ entry[current].ver = req[r].ver

AcquireStopped(r) ==
  /\ req[r].at = "asked" /\ stopped
  /\ req' = [req EXCEPT ![r] = Idle]
  /\ UNCHANGED <<settings, gateway, test>>

\* A partial binding is rebuilt in the background by the first that finds it due.
Shared(e, rebind) == [e EXCEPT !.refs = @ + 1, !.rebinding = @ \/ rebind]

AcquireShares(r, rebind) ==
  /\ req[r].at = "asked" /\ ~stopped /\ Fits(r)
  /\ rebind => CanRebind(entry[current])
  /\ entry' = [entry EXCEPT ![current] = Shared(@, rebind)]
  /\ open' = IF rebind THEN open + 1 ELSE open
  /\ req' = Waiting(r, current)
  /\ UNCHANGED <<settings, current, failure, stopped, test>>

\* A binding of another configuration is retired; the connector may then be
\* left alone for a minute after its last failure.
AcquireSkips(r) ==
  /\ req[r].at = "asked" /\ ~stopped /\ ~Fits(r)
  /\ failure = req[r].ver
  /\ entry' = RetireCurrent /\ current' = None
  /\ req' = [req EXCEPT ![r] = Idle]
  /\ UNCHANGED <<settings, failure, stopped, open, test>>

AcquireBuilds(r, i) ==
  /\ req[r].at = "asked" /\ ~stopped /\ ~Fits(r)
  /\ entry[i] = FreeEntry
  /\ entry' = [RetireCurrent EXCEPT
       ![i] = [FreeEntry EXCEPT !.phase = "building", !.refs = 1,
                 !.ver = req[r].ver, !.onRecord = req[r].onRecord]]
  /\ current' = i
  /\ open' = open + 1
  /\ req' = Waiting(r, i)
  /\ UNCHANGED <<settings, failure, stopped, test>>

\* The build is over: the request uses the binding, or gives its count back.
Proceed(r) ==
  LET i == req[r].entry
  IN /\ req[r].at = "waiting" /\ entry[i].phase = "ready"
     /\ IF entry[i].failed
        THEN /\ entry' = [entry EXCEPT ![i] = Released(@)]
             /\ req' = [req EXCEPT ![r] = Idle]
        ELSE /\ req' = [req EXCEPT ![r].at = "using"]
             /\ UNCHANGED entry
     /\ UNCHANGED <<settings, current, failure, stopped, open, test>>

\* BindTimeout or a cancelled request, or the end of the call.
Release(r) ==
  /\ \/ req[r].at = "waiting" /\ entry[req[r].entry].phase # "ready"
     \/ req[r].at \in {"using", "failing"}
  /\ entry' = [entry EXCEPT ![req[r].entry] = Released(@)]
  /\ req' = [req EXCEPT ![r] = Idle]
  /\ UNCHANGED <<settings, current, failure, stopped, open, test>>

\* The provider refused the credentials: the binding is retired at once, and
\* released when Call returns.
Unauthorized(r) ==
  LET i == req[r].entry
  IN /\ req[r].at = "using"
     /\ entry' = [entry EXCEPT ![i] = Retired(@)]
     /\ current' = IF current = i THEN None ELSE current
     /\ req' = [req EXCEPT ![r].at = "failing"]
     /\ UNCHANGED <<settings, failure, stopped, open, test>>

-----------------------------------------------------------------------------
(* The admin, and the end *)

\* Put and Delete (the third of Patches): the write, and then Invalidate.
Save ==
  /\ saver = "idle" /\ Change
  /\ \E config \in Patches : Store(config, errorOf)
  /\ saver' = "saved"
  /\ UNCHANGED <<gateway, req, test>>

Invalidate ==
  /\ saver = "saved" /\ saver' = "idle"
  /\ entry' = RetireCurrent /\ current' = None
  /\ failure' = None
  /\ UNCHANGED <<stored, errorOf, changes, cache, stopped, open, req, test>>

\* Test of the stored configuration, through a binding of its own.
TestStarts ==
  /\ test.at = "idle"
  /\ test' = [at |-> "testing", ver |-> cache.ver]
  /\ UNCHANGED <<settings, gateway, req>>

\* recordTest gives up when the settings it reads again are others; the write
\* checks once more.
TestEnds(error) ==
  /\ test.at = "testing"
  /\ IF cache.ver # test.ver
     THEN test' = NoTest /\ UNCHANGED <<stored, errorOf, changes, cache>>
     ELSE /\ Verify(test.ver, Errors, error)
          /\ test' = IF error = "none" THEN [test EXCEPT !.at = "verified"] ELSE NoTest
  /\ UNCHANGED <<saver, gateway, req>>

\* The failure is forgotten, and retireIfBehind drops a live binding that is
\* partial or has fewer tools than the test counted.  It reads the tools with
\* the binding counted in, as a request would.
Live(ver) ==
  /\ current # None /\ entry[current].ver = ver /\ entry[current].session = "open"

TestForgives(behind) ==
  /\ test.at = "verified"
  /\ failure' = None
  /\ IF Live(test.ver) /\ (entry[current].missing \/ behind)
     THEN entry' = RetireCurrent /\ current' = None
     ELSE UNCHANGED <<entry, current>>
  /\ test' = NoTest
  /\ UNCHANGED <<settings, stopped, open, req>>

Shutdown ==
  /\ ~stopped /\ stopped' = TRUE
  /\ entry' = RetireCurrent /\ current' = None
  /\ UNCHANGED <<settings, failure, open, req, test>>

-----------------------------------------------------------------------------

EntryStep(i) ==
  \/ SessionCloses(i)
  \/ \E partial \in BOOLEAN : BindSucceeds(i, partial)
  \/ \E again \in BOOLEAN : BindFails(i, again)
  \/ RecordReads(i) \/ RecordWrites(i)
  \/ RebindGivesUp(i)
  \/ \E j \in Ids, partial \in BOOLEAN : RebindSwaps(i, j, partial)

Acquire(r) ==
  \/ AcquireStopped(r) \/ AcquireSkips(r)
  \/ \E rebind \in BOOLEAN : AcquireShares(r, rebind)
  \/ \E i \in Ids : AcquireBuilds(r, i)

TestStep ==
  \/ TestStarts
  \/ \E error \in Errors : TestEnds(error)
  \/ \E behind \in BOOLEAN : TestForgives(behind)

Next ==
  \/ CacheExpires \/ OtherReplica \/ Sweep
  \/ Save \/ Invalidate \/ Shutdown
  \/ TestStep
  \/ \E i \in Ids : EntryStep(i)
  \/ \E r \in Requests :
       Ask(r) \/ Acquire(r) \/ Proceed(r) \/ Release(r) \/ Unauthorized(r)

Spec == Init /\ [][Next]_vars

-----------------------------------------------------------------------------

EntryType ==
  [phase : {"free", "building", "recording", "writing", "ready"},
   ver : Versions, onRecord : BOOLEAN, failed : BOOLEAN,
   session : {"none", "open", "closing", "closed"}, missing : BOOLEAN,
   refs : 0..Cardinality(Requests), retired : BOOLEAN,
   rebinding : BOOLEAN, write : {"none", "clear", "error"}]

RequestType ==
  [at : {"idle", "asked", "waiting", "using", "failing"},
   ver : Versions, onRecord : BOOLEAN, entry : Ids \cup {None}]

\* The state is well typed, and no request is counted twice: a binding has no
\* more users than there are requests.
TypeOK ==
  /\ stored \in Configs /\ errorOf \in Versions /\ changes \in Versions
  /\ cache \in Configs
  /\ saver \in {"idle", "saved"}
  /\ current \in Ids \cup {None}
  /\ failure \in Versions \cup {None}
  /\ stopped \in BOOLEAN /\ open \in Nat
  /\ entry \in [Ids -> EntryType]
  /\ req \in [Requests -> RequestType]
  /\ test \in [at : {"idle", "testing", "verified"}, ver : Versions]

\* A request talks to the provider through a binding of the configuration it
\* read, whose session is open: whoever retires the binding meanwhile leaves
\* the closing to the last one that uses it (gateway.go:818-859).
UsersHoldAnOpenSession ==
  \A r \in Requests :
    req[r].at \in {"using", "failing"} =>
      /\ entry[req[r].entry].session = "open"
      /\ entry[req[r].entry].ver = req[r].ver

Counts(e) ==
  (IF e.phase = "building" \/ e.session \in {"open", "closing"} THEN 1 ELSE 0)
  + (IF e.rebinding THEN 1 ELSE 0)

\* WaitGroup open never goes below zero, which panics, nor reaches zero while
\* a provider session is open or being built, so Shutdown waits for each of
\* them and no longer; and from Shutdown on nothing new is built
\* (gateway.go:309-332).
ShutdownWaitsForSessions ==
  /\ open >= 0
  /\ open = 0 <=> \A i \in Ids : Counts(entry[i]) = 0
  /\ stopped => current = None

\* An error on record was observed on the mode, fields and secrets it is stored
\* with, though maybe before the connector was paused or enabled: a save that
\* changed them clears it, also one of another replica's, and when such a save
\* lands during a build or a test it does not inherit the error
\* (gateway.go:777-815, settings/mcp.go:312-328 and 371-398).
ErrorsBelongToTheConfig ==
  stored.error # "none" => errorOf \in stored.conf .. stored.ver

\* A connector that binds again clears the error of its failed bind, never
\* one that a test recorded (gateway.go:742-749).
BindKeepsTestErrors ==
  [][\A i \in Ids : RecordWrites(i) /\ stored.error = "test" => stored'.error # "none"]_vars
=============================================================================
