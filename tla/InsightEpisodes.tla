---------------------------- MODULE InsightEpisodes ----------------------------
(***************************************************************************)
(* The life of one insight fingerprint (apps/api/internal/insights): what  *)
(* the engines of its cluster hold in memory, its head record in the       *)
(* insight store, its episode rows in the episode store, and the watchdog  *)
(* that expires rows nobody refreshes.                                     *)
(*                                                                         *)
(* Engine.Evaluate holds e.mu, but writes an episode row and the head      *)
(* record in two Bolt transactions and then calls the notification hook:   *)
(* a crash, the watchdog and the retention pass can come between them.  So *)
(* can another engine of the cluster: whoever stops a runtime cancels its  *)
(* context and waits for nobody, and a runtime may be left running, so the *)
(* rebuilt engine can be up beside an old one.                             *)
(*                                                                         *)
(* Ages are abstracted to what is compared with them: a firing row is      *)
(* fresh until ExpireTTL has gone by without a touch, a resolved head is   *)
(* cool until ReopenCooldown is over.  Content, severities, flap counts,   *)
(* mutes and the transitions log are left out; transactions succeed.       *)
(***************************************************************************)
EXTENDS Naturals

CONSTANTS
  Engines,      \* bound: the engines of the cluster that may be up at once
  MaxEpisodes,  \* bound: the episode ids drawn in one behaviour
  Restarts      \* the process may crash

ASSUME MaxAssumption == MaxEpisodes \in Nat \ {0}
ASSUME RestartsAssumption == Restarts \in BOOLEAN

NoEp == 0
Eps == 1..MaxEpisodes

VARIABLES
  cond,    \* the rules produce the insight at this time
  engine,  \* each engine: "off"; "new", hydrateDone is false; "on"; or "blind",
           \* hydrateDone was set before the store was there
  stopped, \* the engines whose context is cancelled, their goroutine still there
  wired,   \* SetInsightStore has run in this process
  stored,  \* the engines whose e.store is set
  mem,     \* e.insights: held and unresolved, its ID, and hydrated[fp]
  head,    \* the head record: Status, CurrentOccurrenceID, its last occurrence
  row,     \* the episode rows
  ev,      \* an engine's evaluation in progress: its next write, what it writes
  sweep,   \* the episodes the watchdog expired and whose head it has yet to mark
  told,    \* onNew fired for the present stretch of the head: active, or cool
  alone    \* the engine that has been the cluster's only one since it was built

vars == <<cond, engine, stopped, wired, stored, mem, head, row, ev, sweep, told, alone>>

\* What only starts, stops and crashes change.
life == <<stopped, wired, stored, alone>>

Absent == [held |-> FALSE, id |-> NoEp, grace |-> FALSE]
NoHead == [st |-> "none", cur |-> NoEp, last |-> NoEp, cool |-> FALSE]
Unborn == [st |-> "unused", fresh |-> FALSE]
Firing == [st |-> "firing", fresh |-> TRUE]
IdleEv == [pc |-> "idle", op |-> "skip", id |-> NoEp, last |-> NoEp]
Heads == [st : {"none", "active", "resolved", "expired"}, cur : Eps \cup {NoEp},
          last : Eps \cup {NoEp}, cool : BOOLEAN]

Init ==
  /\ cond \in BOOLEAN
  /\ engine = [g \in Engines |-> "off"] /\ stopped = {}
  /\ wired = FALSE /\ stored = {}
  /\ mem = [g \in Engines |-> Absent] /\ head = NoHead
  /\ row = [e \in Eps |-> Unborn]
  /\ ev = [g \in Engines |-> IdleEv] /\ sweep = {} /\ told = FALSE /\ alone = {}

Up == {g \in Engines : engine[g] # "off"}

-----------------------------------------------------------------------------
(* Evaluate, by engine g.                                                  *)

\* The rules read the caches, which nobody refreshes once the engine's runtime
\* is stopped.
Produced(g) == cond \/ g \in stopped
Absence(g) == ~cond \/ g \in stopped

\* uuid.New: an id never drawn before.
Drawn(e) == row[e].st # "unused" \/ \E g \in Engines : ev[g].id = e
IsNextId(e) == ~Drawn(e) /\ \A d \in 1..(e - 1) : Drawn(d)

\* The record as it is upserted: active, with its occurrence and its last one.
Active(e, last) == [st |-> "active", cur |-> e, last |-> last, cool |-> FALSE]

\* An evaluation that sees the store starts to write op for episode e, the current
\* one of the record it read; last is that record's last occurrence.
Begin(g, op, e, last) ==
  ev' = [ev EXCEPT ![g] = [pc |-> "sink", op |-> op, id |-> e, last |-> last]]

\* Mutant of Hydrate: the engine starts with an empty memory at every boot.
HydrateNothing(g) ==
  /\ engine[g] = "new"
  /\ engine' = [engine EXCEPT ![g] = IF g \in stored THEN "on" ELSE "blind"]
  /\ ev' = [ev EXCEPT ![g].pc = "rules"]
  /\ UNCHANGED <<life, cond, mem, head, row, sweep, told>>

\* hydrateLocked, once per engine, at its first evaluation: a record that is
\* still active comes back with one grace evaluation; without a store, nothing.
Hydrate(g) ==
  /\ engine[g] = "new"
  /\ engine' = [engine EXCEPT ![g] = IF g \in stored THEN "on" ELSE "blind"]
  /\ mem' = [mem EXCEPT ![g] = IF g \in stored /\ head.st = "active"
                               THEN [held |-> TRUE, id |-> head.cur, grace |-> TRUE]
                               ELSE Absent]
  /\ ev' = [ev EXCEPT ![g].pc = "rules"]
  /\ UNCHANGED <<life, cond, head, row, sweep, told>>

\* The lock is taken, and an engine's first evaluation has hydrated it.
CanEvaluate(g) == engine[g] \in {"on", "blind"} /\ ev[g].pc \in {"idle", "rules"}

NothingProduced(g) ==
  /\ CanEvaluate(g) /\ Absence(g) /\ ~mem[g].held
  /\ ev' = [ev EXCEPT ![g] = IdleEv]
  /\ UNCHANGED <<life, cond, engine, mem, head, row, sweep, told>>

\* The resolve loop: not produced, and not (or no longer) owed a grace pass.
SpendGrace(g) ==
  /\ CanEvaluate(g) /\ Absence(g) /\ mem[g].held /\ mem[g].grace
  /\ mem' = [mem EXCEPT ![g].grace = FALSE]
  /\ ev' = [ev EXCEPT ![g] = IdleEv]
  /\ UNCHANGED <<life, cond, engine, head, row, sweep, told>>

Resolve(g) ==
  /\ CanEvaluate(g) /\ Absence(g) /\ mem[g].held /\ ~mem[g].grace
  /\ mem' = [mem EXCEPT ![g] = Absent]
  /\ IF g \in stored THEN Begin(g, "resolve", mem[g].id, NoEp)
     ELSE ev' = [ev EXCEPT ![g] = IdleEv]
  /\ UNCHANGED <<life, cond, engine, head, row, sweep, told>>

\* persistActive: Get, with the defensive rebuild of a record that is missing.
Confirm(g) ==
  /\ CanEvaluate(g) /\ Produced(g) /\ mem[g].held
  /\ mem' = [mem EXCEPT ![g].grace = FALSE]
  /\ LET rec == IF head.st = "none" THEN Active(mem[g].id, mem[g].id) ELSE head
     IN IF g \in stored THEN Begin(g, "touch", rec.cur, rec.last)
        ELSE ev' = [ev EXCEPT ![g] = IdleEv]
  /\ UNCHANGED <<life, cond, engine, head, row, sweep, told>>

\* admitNew.  An active record with its occurrence is continued, one resolved
\* within the cooldown flaps, anything else opens a new episode.
CanAdmit(g) == CanEvaluate(g) /\ Produced(g) /\ ~mem[g].held
Admitted(g, e) == mem' = [mem EXCEPT ![g] = [held |-> TRUE, id |-> e, grace |-> FALSE]]
Continues == head.st = "active" /\ head.cur # NoEp
Flaps == head.st = "resolved" /\ head.cool

\* Without a store: an id that gets no row, and the hook at once.
AdmitUnstored(g, e) ==
  /\ CanAdmit(g) /\ g \notin stored /\ IsNextId(e)
  /\ Admitted(g, e)
  /\ row' = [row EXCEPT ![e].st = "norow"]
  /\ ev' = [ev EXCEPT ![g] = [pc |-> "hook", op |-> "open", id |-> e, last |-> NoEp]]
  /\ UNCHANGED <<life, cond, engine, head, sweep, told>>

AdmitContinued(g) ==
  /\ CanAdmit(g) /\ g \in stored /\ Continues
  /\ Admitted(g, head.cur)
  /\ ev' = [ev EXCEPT ![g] = [pc |-> "head", op |-> "touch", id |-> head.cur,
                           last |-> head.last]]
  /\ UNCHANGED <<life, cond, engine, head, row, sweep, told>>

AdmitFlap(g) ==
  /\ CanAdmit(g) /\ g \in stored /\ Flaps
  /\ Admitted(g, head.last)
  /\ Begin(g, "flap", head.last, head.last)
  /\ UNCHANGED <<life, cond, engine, head, row, sweep, told>>

\* Mutant of AdmitOpen: a re-fire inside the cooldown is a new finding.
AdmitOpenAlways(g, e) ==
  /\ CanAdmit(g) /\ g \in stored /\ ~Continues /\ IsNextId(e)
  /\ Admitted(g, e)
  /\ Begin(g, "open", e, e)
  /\ UNCHANGED <<life, cond, engine, head, row, sweep, told>>

AdmitOpen(g, e) ==
  /\ CanAdmit(g) /\ g \in stored /\ ~Continues /\ ~Flaps /\ IsNextId(e)
  /\ Admitted(g, e)
  /\ Begin(g, "open", e, e)
  /\ UNCHANGED <<life, cond, engine, head, row, sweep, told>>

\* The sink's transaction.  A touch moves last_seen only, whatever the status;
\* a touch or a resolution of a row that does not exist does nothing.
RowAfter(g, r) ==
  CASE ev[g].op \in {"open", "flap"} -> Firing
    [] ev[g].op = "touch" -> [r EXCEPT !.fresh = r.st = "firing"]
    [] OTHER -> IF r.st = "norow" THEN r ELSE [st |-> "resolved", fresh |-> FALSE]

WriteEpisode(g) ==
  /\ ev[g].pc = "sink"
  /\ row' = IF ev[g].id = NoEp THEN row ELSE [row EXCEPT ![ev[g].id] = RowAfter(g, @)]
  /\ ev' = [ev EXCEPT ![g].pc = "head"]
  /\ UNCHANGED <<life, cond, engine, mem, head, sweep, told>>

\* Mutant of Closed: the record keeps its CurrentOccurrenceID.
ClosedKeepsCurrent(h, st) ==
  IF h.st \in {"none", "resolved"} THEN h ELSE [h EXCEPT !.st = st, !.cool = st = "resolved"]

\* closeRecord.
Closed(h, st) ==
  IF h.st \in {"none", "resolved"} THEN h
  ELSE [h EXCEPT !.st = st, !.cur = NoEp, !.cool = st = "resolved"]

\* MarkResolved, or the Upsert of the record as read when the evaluation began.
WriteHead(g) ==
  /\ ev[g].pc = "head"
  /\ head' = IF ev[g].op = "resolve" THEN Closed(head, "resolved")
             ELSE Active(ev[g].id, ev[g].last)
  /\ ev' = [ev EXCEPT ![g] = IF @.op = "open" THEN [@ EXCEPT !.pc = "hook"] ELSE IdleEv]
  /\ UNCHANGED <<life, cond, engine, mem, row, sweep, told>>

\* e.onNew.
Notify(g) ==
  /\ ev[g].pc = "hook"
  /\ told' = (head.st = "active" \/ head.cool)
  /\ ev' = [ev EXCEPT ![g] = IdleEv]
  /\ UNCHANGED <<life, cond, engine, mem, head, row, sweep>>

Evaluate(g) ==
  \/ Hydrate(g) \/ NothingProduced(g) \/ SpendGrace(g) \/ Resolve(g) \/ Confirm(g)
  \/ \E e \in Eps : AdmitUnstored(g, e) \/ AdmitOpen(g, e)
  \/ AdmitContinued(g) \/ AdmitFlap(g)
  \/ WriteEpisode(g) \/ WriteHead(g) \/ Notify(g)

-----------------------------------------------------------------------------
(* The watchdog and the retention pass.                                    *)

Stale == {e \in Eps : row[e].st = "firing" /\ ~row[e].fresh}

\* Mutant of ExpireStale: only the rows whose head still points at them.
ExpireCurrent ==
  /\ sweep = {} /\ Stale # {}
  /\ row' = [e \in Eps |-> IF e \in Stale /\ e = head.cur THEN [row[e] EXCEPT !.st = "expired"]
                                                           ELSE row[e]]
  /\ sweep' = Stale \cap {head.cur}
  /\ UNCHANGED <<life, cond, engine, mem, head, ev, told>>

\* ExpireStaleForOrg, the episode transaction.
ExpireStale ==
  /\ sweep = {} /\ Stale # {}
  /\ row' = [e \in Eps |-> IF e \in Stale THEN [row[e] EXCEPT !.st = "expired"] ELSE row[e]]
  /\ sweep' = Stale
  /\ UNCHANGED <<life, cond, engine, mem, head, ev, told>>

\* MarkExpired, once per expired row, by fingerprint.
MarkExpired(e) ==
  /\ e \in sweep
  /\ sweep' = sweep \ {e}
  /\ head' = IF head.st = "active" THEN Closed(head, "expired") ELSE head
  /\ told' = (told /\ head.st # "active")
  /\ UNCHANGED <<life, cond, engine, mem, row, ev>>

Watchdog == ExpireStale \/ \E e \in Eps : MarkExpired(e)

\* Prune: a resolved record past the horizon goes; an expired one stays.
PruneHead ==
  /\ head.st = "resolved" /\ ~head.cool
  /\ head' = NoHead
  /\ UNCHANGED <<life, cond, engine, mem, row, ev, sweep, told>>

\* PruneOrg: a row that is not firing.
PruneRow(e) ==
  /\ row[e].st \in {"resolved", "expired"}
  /\ row' = [row EXCEPT ![e].st = "norow"]
  /\ UNCHANGED <<life, cond, engine, mem, head, ev, sweep, told>>

-----------------------------------------------------------------------------
(* Time, the cluster and the process.                                      *)

\* Evaluations of a running engine come more often than ExpireTTL and one is over
\* sooner: they keep fresh the row they write, and the one the head points at.
Verified(e) == \E g \in Engines :
  \/ ev[g].id = e
  \/ /\ engine[g] \in {"on", "blind"} /\ g \in stored \ stopped
     /\ mem[g].held /\ head.cur = e

Lapse(e) ==
  /\ row[e] = Firing /\ ~Verified(e)
  /\ row' = [row EXCEPT ![e].fresh = FALSE]
  /\ UNCHANGED <<life, cond, engine, mem, head, ev, sweep, told>>

CooldownEnds ==
  /\ head.cool
  /\ head' = [head EXCEPT !.cool = FALSE]
  /\ told' = FALSE
  /\ UNCHANGED <<life, cond, engine, mem, row, ev, sweep>>

ConditionChanges ==
  /\ cond' = ~cond
  /\ UNCHANGED <<life, engine, mem, head, row, ev, sweep, told>>

\* startRuntime builds an engine, with the store if it is there: also beside one
\* that has not returned, or that a removed placeholder left running.
EngineStarts(g) ==
  /\ engine[g] = "off"
  /\ engine' = [engine EXCEPT ![g] = "new"]
  /\ stored' = IF wired THEN stored \cup {g} ELSE stored
  /\ alone' = IF Up = {} THEN {g} ELSE {}
  /\ UNCHANGED <<cond, stopped, wired, mem, head, row, ev, sweep, told>>

\* Its runtime is evicted or replaced: the context is cancelled, and an evaluation
\* that runs goes on.
EngineStops(g) ==
  /\ g \in Up \ stopped
  /\ stopped' = stopped \cup {g}
  /\ UNCHANGED <<cond, engine, wired, stored, mem, head, row, ev, sweep, told, alone>>

\* The goroutine, between two evaluations and never before its first, selects the
\* context done; it may still prefer a pending tick.
EngineReturns(g) ==
  /\ g \in stopped /\ ev[g].pc = "idle" /\ engine[g] # "new"
  /\ engine' = [engine EXCEPT ![g] = "off"] /\ mem' = [mem EXCEPT ![g] = Absent]
  /\ stopped' = stopped \ {g} /\ stored' = stored \ {g} /\ alone' = alone \ {g}
  /\ UNCHANGED <<cond, wired, head, row, ev, sweep, told>>

\* SetInsightStore, also on the engines of the runtimes there are (SetStore takes
\* each e.mu).
SetInsightStore ==
  /\ ~wired /\ \A g \in Up \ stopped : ev[g].pc = "idle"
  /\ wired' = TRUE /\ stored' = stored \cup (Up \ stopped)
  /\ UNCHANGED <<cond, engine, stopped, mem, head, row, ev, sweep, told, alone>>

Crash ==
  /\ Restarts
  /\ engine' = [g \in Engines |-> "off"] /\ stopped' = {}
  /\ wired' = FALSE /\ stored' = {} /\ alone' = {}
  /\ mem' = [g \in Engines |-> Absent]
  /\ ev' = [g \in Engines |-> IdleEv] /\ sweep' = {}
  /\ UNCHANGED <<cond, head, row, told>>

Next ==
  \/ Watchdog \/ PruneHead \/ CooldownEnds \/ ConditionChanges
  \/ SetInsightStore \/ Crash
  \/ \E g \in Engines : Evaluate(g) \/ EngineStarts(g) \/ EngineStops(g) \/ EngineReturns(g)
  \/ \E e \in Eps : PruneRow(e) \/ Lapse(e)

\* The next step of an evaluation that runs, or the next evaluation of an engine
\* that is not stopped.
GoesOn(g) == Evaluate(g) /\ (ev[g].pc # "idle" \/ g \notin stopped)

\* The tickers of the engines and of the watchdog, and the clock.
Fairness ==
  /\ \A g \in Engines : WF_vars(GoesOn(g))
  /\ WF_vars(Watchdog)
  /\ \A e \in Eps : WF_vars(Lapse(e))

Spec == Init /\ [][Next]_vars /\ Fairness

-----------------------------------------------------------------------------
(* Properties.                                                             *)

\* Types; a record that is not active has no current occurrence, and an engine
\* that is alone is the one engine up.
TypeOK ==
  /\ cond \in BOOLEAN /\ wired \in BOOLEAN /\ told \in BOOLEAN
  /\ engine \in [Engines -> {"off", "new", "on", "blind"}]
  /\ stopped \subseteq Up /\ stored \subseteq Up
  /\ \A g \in alone : Up = {g}
  /\ mem \in [Engines -> [held : BOOLEAN, id : Eps \cup {NoEp}, grace : BOOLEAN]]
  /\ head \in Heads
  /\ head.st # "active" => head.cur = NoEp
  /\ row \in [Eps -> [st : {"unused", "norow", "firing", "resolved", "expired"},
                      fresh : BOOLEAN]]
  /\ ev \in [Engines -> [pc : {"idle", "rules", "sink", "head", "hook"},
                        op : {"skip", "open", "flap", "touch", "resolve"},
                        id : Eps \cup {NoEp}, last : Eps \cup {NoEp}]]
  /\ sweep \subseteq Eps

\* "firing onNew there is the restart-renotify spam bug": one stretch of a
\* record, from active until it is expired or was resolved for the whole
\* cooldown, is notified at most once by an engine that hydrated and has been
\* the cluster's only one since it was built.  A restart, a rebuilt engine, a
\* flap, a crash between any two writes and the watchdog never make a second
\* notification; two engines that are up together may.
NoRenotification ==
  [][\A g \in Engines : Notify(g) /\ engine[g] = "on" /\ g \in alone => ~told]_vars

\* No immortal record: once the condition stays away and the cluster keeps one
\* engine that hydrates, its record stops being active, also when the process or
\* the engines before left it between two writes.
ClearedRecordCloses ==
  <>[](~cond /\ \E g \in alone \ stopped : engine[g] \in {"new", "on"})
    => <>[](head.st # "active")

\* A firing row is one that evaluations keep fresh: a row of a cluster that is
\* gone, or left behind by a crash between the episode and the head write,
\* stops firing.
FiringIsVerified ==
  \A e \in Eps : row[e].st = "firing" ~> (row[e].st # "firing" \/ Verified(e))

\* "The head row's status mirrors the CURRENT episode's state": with nothing in
\* progress, the active record an engine holds has a current episode, and it is
\* not over.
HeadMirrorsEpisode ==
  (\E g \in Engines \ stopped : engine[g] = "on" /\ mem[g].held)
  /\ (\A g \in Engines : ev[g].pc = "idle") /\ sweep = {} /\ head.st = "active"
    => head.cur # NoEp /\ row[head.cur].st \notin {"resolved", "expired"}
=============================================================================
