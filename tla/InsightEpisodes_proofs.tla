------------------------ MODULE InsightEpisodes_proofs ------------------------
(***************************************************************************)
(* Theorems about InsightEpisodes, for any number of engines and episodes, *)
(* with and without crashes.                                               *)
(***************************************************************************)
EXTENDS InsightEpisodes, TLAPS

USE MaxAssumption, RestartsAssumption

-----------------------------------------------------------------------------
(* Types.                                                                  *)

Mems == [held : BOOLEAN, id : Eps \cup {NoEp}, grace : BOOLEAN]
Rows == [st : {"unused", "norow", "firing", "resolved", "expired"}, fresh : BOOLEAN]
Ops == {"skip", "open", "flap", "touch", "resolve"}
Evs == [pc : {"idle", "rules", "sink", "head", "hook"}, op : Ops, id : Eps \cup {NoEp},
        last : Eps \cup {NoEp}]

LEMMA ConstantTypes ==
  /\ Absent \in Mems /\ NoHead \in Heads /\ Unborn \in Rows /\ Firing \in Rows
  /\ IdleEv \in Evs /\ IdleEv.pc = "idle" /\ IdleEv.op = "skip" /\ ~Absent.held
  /\ NoHead.st = "none" /\ ~NoHead.cool /\ NoHead.cur = NoEp
  /\ \A c, l \in Eps \cup {NoEp} : Active(c, l) \in Heads
BY DEF Active, Absent, NoHead, Unborn, Firing, IdleEv, Mems, Heads, Rows, Evs, Ops

\* A record that is closed has no current occurrence, and cools only when it
\* was resolved.
LEMMA ClosedFacts ==
  ASSUME NEW h \in Heads, NEW st \in {"resolved", "expired"},
         h.st # "active" => h.cur = NoEp,
         h.cool => h.st = "resolved"
  PROVE  /\ Closed(h, st) \in Heads
         /\ Closed(h, st).st # "active" /\ Closed(h, st).cur = NoEp
         /\ Closed(h, st).cool => Closed(h, st).st = "resolved"
         /\ h.st = "active" => Closed(h, st).st = st
         /\ st = "resolved" /\ (h.st = "active" \/ h.cool) => Closed(h, st).cool
BY DEF Closed, Heads

-----------------------------------------------------------------------------
(* The inductive invariant.                                                *)

\* A stretch that was notified is active or cooling.
ToldFits(h, t) ==
  /\ t => h.st = "active" \/ h.cool
  /\ h.cool => h.st = "resolved"

ToldInv == ToldFits(head, told)

\* An engine in state st and its evaluation x, by its next write.
EvFits(st, x) ==
  /\ x.pc \in {"idle", "rules"} => x.op = "skip"
  /\ x.pc \in {"sink", "head"} => x.op # "skip"
  /\ x.pc = "hook" => x.op = "open"
  /\ st \in {"off", "new"} => x.pc = "idle"

EvInv == \A g \in Engines : EvFits(engine[g], ev[g])

\* An engine that hydrated with memory m and evaluation x, beside the record h: it
\* holds what the store calls active, but for the resolution it is about to write,
\* and opens only what was not notified.
HydratedFits(h, m, x, t) ==
  /\ h.st = "active" => m.held \/ x.op = "resolve"
  /\ x.op \in {"open", "flap", "touch"} => m.held
  /\ x.op = "open" => ~t

\* Nobody else writes the record of an engine that is alone.
HydratedInv ==
  \A g \in alone : engine[g] = "on" =>
    g \in stored /\ HydratedFits(head, mem[g], ev[g], told)

Inv == TypeOK /\ ToldInv /\ EvInv /\ HydratedInv

LEMMA InitInv == Init => Inv
<1> SUFFICES ASSUME Init PROVE Inv
  OBVIOUS
<1>1. /\ cond \in BOOLEAN /\ wired = FALSE /\ told = FALSE /\ head = NoHead /\ sweep = {}
      /\ stopped = {} /\ stored = {} /\ alone = {}
      /\ engine = [g \in Engines |-> "off"] /\ mem = [g \in Engines |-> Absent]
      /\ ev = [g \in Engines |-> IdleEv]
      /\ row \in [Eps -> Rows]
  BY ConstantTypes DEF Init
<1>2. TypeOK
  BY <1>1, ConstantTypes DEF TypeOK, Mems, Rows, Evs, Ops
<1>3. ToldInv /\ EvInv /\ HydratedInv
  BY <1>1, ConstantTypes DEF ToldInv, ToldFits, EvInv, EvFits, HydratedInv
<1> QED
  BY <1>2, <1>3 DEF Inv

-----------------------------------------------------------------------------
(* The evaluation.                                                         *)

\* Engine g evaluates: its state is st, its memory m and its next step x.
LEMMA EngineStep ==
  ASSUME Inv, NEW g \in Up, NEW st \in {"on", "blind"}, NEW m \in Mems, NEW x \in Evs,
         engine' = [engine EXCEPT ![g] = st], mem' = [mem EXCEPT ![g] = m],
         ev' = [ev EXCEPT ![g] = x], UNCHANGED <<life, cond, sweep>>,
         row' \in [Eps -> Rows], head' \in Heads, told' \in BOOLEAN,
         head'.st # "active" => head'.cur = NoEp,
         ToldFits(head', told'), EvFits(st, x),
         g \in alone /\ st = "on" => g \in stored /\ HydratedFits(head', m, x, told')
  PROVE  Inv'
<1> USE DEF Inv
<1>1. /\ g \in Engines
      /\ stopped' = stopped /\ stored' = stored /\ wired' = wired /\ alone' = alone
      /\ engine \in [Engines -> {"off", "new", "on", "blind"}]
      /\ mem \in [Engines -> Mems] /\ ev \in [Engines -> Evs]
  BY DEF TypeOK, Up, life, Mems, Evs, Ops
<1>2. /\ engine' \in [Engines -> {"off", "new", "on", "blind"}]
      /\ mem' \in [Engines -> Mems] /\ ev' \in [Engines -> Evs]
      /\ engine'[g] = st /\ mem'[g] = m /\ ev'[g] = x
      /\ \A h \in Engines \ {g} : engine'[h] = engine[h] /\ ev'[h] = ev[h]
  BY <1>1
<1>3. Up' = Up
  BY <1>1, <1>2 DEF Up
<1>4. TypeOK'
  <2>1. \A h \in alone' : Up' = {h}
    BY <1>1, <1>3 DEF TypeOK
  <2> QED
    BY <1>1, <1>2, <1>3, <2>1 DEF TypeOK, Rows, Mems, Evs, Ops
<1>5. ToldInv'
  BY DEF ToldInv, ToldFits
<1>6. EvInv'
  BY <1>1, <1>2 DEF EvInv
<1>7. HydratedInv'
  <2>1. \A h \in alone' : h = g
    BY <1>1 DEF TypeOK
  <2> QED
    BY <1>1, <1>2, <2>1 DEF HydratedInv
<1> QED
  BY <1>4, <1>5, <1>6, <1>7

\* What an evaluation starts from.
LEMMA Known ==
  ASSUME Inv, NEW g \in Engines
  PROVE  /\ engine[g] \in {"off", "new", "on", "blind"} /\ mem[g] \in Mems /\ ev[g] \in Evs
         /\ engine = [engine EXCEPT ![g] = engine[g]] /\ mem = [mem EXCEPT ![g] = mem[g]]
         /\ head \in Heads /\ row \in [Eps -> Rows] /\ told \in BOOLEAN
         /\ head.st # "active" => head.cur = NoEp
         /\ ToldFits(head, told) /\ EvFits(engine[g], ev[g])
         /\ g \in alone /\ engine[g] = "on" =>
              g \in stored /\ HydratedFits(head, mem[g], ev[g], told)
         /\ engine[g] # "off" => g \in Up
BY DEF Inv, TypeOK, ToldInv, EvInv, HydratedInv, Mems, Evs, Ops, Rows, Up

LEMMA HydrateStep == ASSUME Inv, NEW g \in Engines, Hydrate(g) PROVE Inv'
<1>1. /\ g \in Up /\ ev[g] \in Evs /\ head \in Heads /\ ev[g].op = "skip"
      /\ engine[g] = "new"
  BY Known DEF EvFits, Hydrate
<1> DEFINE st == IF g \in stored THEN "on" ELSE "blind"
           m == IF g \in stored /\ head.st = "active"
                THEN [held |-> TRUE, id |-> head.cur, grace |-> TRUE] ELSE Absent
           x == [ev[g] EXCEPT !.pc = "rules"]
<1>2. x \in Evs /\ x.pc = "rules" /\ x.op = "skip"
  BY <1>1 DEF Evs
<1>3. m \in Mems /\ (g \in stored /\ head.st = "active" => m.held)
  <2>1. CASE g \in stored /\ head.st = "active"
    BY <1>1, <2>1 DEF Mems, Heads
  <2>2. CASE ~(g \in stored /\ head.st = "active")
    BY <2>2, ConstantTypes
  <2> QED
    BY <2>1, <2>2
<1>4. /\ engine' = [engine EXCEPT ![g] = st] /\ mem' = [mem EXCEPT ![g] = m]
      /\ UNCHANGED <<life, cond, sweep, row, head, told>>
  BY DEF Hydrate
<1>5. ev' = [ev EXCEPT ![g] = x]
  BY DEF Hydrate
<1>6. st \in {"on", "blind"} /\ (st = "on" => g \in stored)
  OBVIOUS
<1> HIDE DEF m, x, st
<1>7. EvFits(st, x) /\ (st = "on" => HydratedFits(head, m, x, told))
  BY <1>2, <1>3, <1>6 DEF EvFits, HydratedFits
<1> QED
  BY <1>1, <1>2, <1>3, <1>4, <1>5, <1>6, <1>7, Known, EngineStep

\* The rules are done: the memory m and the next step x of the evaluation.
LEMMA Decided ==
  ASSUME Inv, NEW g \in Engines, CanEvaluate(g), NEW m \in Mems, NEW x \in Evs,
         mem' = [mem EXCEPT ![g] = m], ev' = [ev EXCEPT ![g] = x],
         UNCHANGED <<life, cond, engine, head, sweep, told>>,
         row' \in [Eps -> Rows],
         \/ x.pc = "idle" /\ x.op = "skip"
         \/ x.pc \in {"sink", "head"} /\ x.op # "skip"
         \/ x.pc = "hook" /\ x.op = "open",
         g \in alone /\ engine[g] = "on" =>
           /\ m.held \/ x.op = "resolve" \/ ~mem[g].held
           /\ x.op \in {"open", "flap", "touch"} => m.held
           /\ x.op = "open" => ~told
  PROVE  Inv'
<1>1. engine[g] \in {"on", "blind"} /\ EvFits(engine[g], x) /\ g \in Up
  BY Known DEF CanEvaluate, EvFits
<1>2. g \in alone /\ engine[g] = "on" /\ head.st = "active" => mem[g].held
  BY Known DEF HydratedFits, EvFits, CanEvaluate
<1>3. g \in alone /\ engine[g] = "on" => g \in stored /\ HydratedFits(head, m, x, told)
  BY <1>2, Known DEF HydratedFits
<1>4. engine' = [engine EXCEPT ![g] = engine[g]] /\ UNCHANGED <<life, cond, sweep, head, told>>
  BY Known
<1>5. /\ head' \in Heads /\ told' \in BOOLEAN /\ ToldFits(head', told')
      /\ head'.st # "active" => head'.cur = NoEp
      /\ g \in alone /\ engine[g] = "on" => g \in stored /\ HydratedFits(head', m, x, told')
  BY <1>3, <1>4, Known
<1> QED
  BY <1>1, <1>4, <1>5, EngineStep

LEMMA KnownSteps ==
  ASSUME Inv, NEW g \in Engines,
         NothingProduced(g) \/ SpendGrace(g) \/ Resolve(g) \/ Confirm(g)
  PROVE  Inv'
<1>1. /\ CanEvaluate(g) /\ UNCHANGED <<life, cond, engine, head, sweep, told, row>>
      /\ mem[g] \in Mems /\ head \in Heads /\ row' \in [Eps -> Rows]
  BY Known DEF NothingProduced, SpendGrace, Resolve, Confirm
<1>2. CASE NothingProduced(g)
  <2>1. ev' = [ev EXCEPT ![g] = IdleEv] /\ mem' = [mem EXCEPT ![g] = mem[g]]
    BY <1>2, Known DEF NothingProduced
  <2>2. ~mem[g].held
    BY <1>2 DEF NothingProduced
  <2> QED
    BY <1>1, <2>1, <2>2, ConstantTypes, Decided
<1>3. CASE SpendGrace(g)
  <2> DEFINE m == [mem[g] EXCEPT !.grace = FALSE]
  <2>1. m \in Mems /\ m.held
    BY <1>1, <1>3 DEF SpendGrace, Mems
  <2>2. mem' = [mem EXCEPT ![g] = m] /\ ev' = [ev EXCEPT ![g] = IdleEv]
    BY <1>3 DEF SpendGrace
  <2> HIDE DEF m
  <2> QED
    BY <1>1, <2>1, <2>2, ConstantTypes, Decided
<1>4. CASE Resolve(g)
  <2>1. CASE g \in stored
    <3> DEFINE x == [pc |-> "sink", op |-> "resolve", id |-> mem[g].id, last |-> NoEp]
    <3>1. x \in Evs /\ x.pc = "sink" /\ x.op = "resolve"
      BY <1>1, ConstantTypes DEF Evs, Ops, Mems
    <3>2. ev' = [ev EXCEPT ![g] = x] /\ mem' = [mem EXCEPT ![g] = Absent]
      BY <1>4, <2>1 DEF Resolve, Begin
    <3> HIDE DEF x
    <3> QED
      BY <1>1, <3>1, <3>2, ConstantTypes, Decided
  <2>2. CASE g \notin stored
    <3>1. /\ g \in alone => engine[g] # "on"
          /\ ev' = [ev EXCEPT ![g] = IdleEv] /\ mem' = [mem EXCEPT ![g] = Absent]
      BY <1>4, <2>2, Known DEF Resolve
    <3> QED
      BY <1>1, <3>1, ConstantTypes, Decided
  <2> QED
    BY <2>1, <2>2
<1>5. CASE Confirm(g)
  <2> DEFINE m == [mem[g] EXCEPT !.grace = FALSE]
             rec == IF head.st = "none" THEN Active(mem[g].id, mem[g].id) ELSE head
             x == [pc |-> "sink", op |-> "touch", id |-> rec.cur, last |-> rec.last]
  <2>1. m \in Mems /\ m.held /\ mem' = [mem EXCEPT ![g] = m]
    BY <1>1, <1>5 DEF Confirm, Mems
  <2>2. rec \in Heads
    <3>1. mem[g].id \in Eps \cup {NoEp}
      BY <1>1 DEF Mems
    <3> QED
      BY <1>1, <3>1, ConstantTypes
  <2>3. ev' = [ev EXCEPT ![g] = IF g \in stored THEN x ELSE IdleEv]
    BY <1>5 DEF Confirm, Begin
  <2> HIDE DEF m, rec
  <2>4. x \in Evs /\ x.pc = "sink" /\ x.op = "touch"
    BY <2>2 DEF Evs, Ops, Heads
  <2> HIDE DEF x
  <2>5. CASE g \in stored
    BY <1>1, <2>1, <2>3, <2>4, <2>5, Decided
  <2>6. CASE g \notin stored
    BY <1>1, <2>1, <2>3, <2>6, ConstantTypes, Decided
  <2> QED
    BY <2>5, <2>6
<1> QED
  BY <1>2, <1>3, <1>4, <1>5

LEMMA AdmitSteps ==
  ASSUME Inv, NEW g \in Engines, NEW e \in Eps,
         AdmitUnstored(g, e) \/ AdmitOpen(g, e) \/ AdmitContinued(g) \/ AdmitFlap(g)
  PROVE  Inv'
<1>1. /\ CanEvaluate(g) /\ ~mem[g].held /\ UNCHANGED <<life, cond, engine, head, sweep, told>>
      /\ head \in Heads /\ row \in [Eps -> Rows]
  BY Known DEF AdmitUnstored, AdmitOpen, AdmitContinued, AdmitFlap, CanAdmit
<1> DEFINE M(d) == [held |-> TRUE, id |-> d, grace |-> FALSE]
           X(pc, op, d, r) == [pc |-> pc, op |-> op, id |-> d, last |-> r]
<1>2. \A d \in Eps \cup {NoEp} : M(d) \in Mems /\ M(d).held
  BY DEF Mems
<1>3. \A pc \in {"sink", "head", "hook"}, op \in Ops, d, r \in Eps \cup {NoEp} :
        X(pc, op, d, r) \in Evs /\ X(pc, op, d, r).pc = pc /\ X(pc, op, d, r).op = op
  BY DEF Evs
<1>4. CASE AdmitUnstored(g, e)
  <2>1. /\ mem' = [mem EXCEPT ![g] = M(e)]
        /\ ev' = [ev EXCEPT ![g] = X("hook", "open", e, NoEp)]
        /\ g \in alone => engine[g] # "on"
    BY <1>4, Known DEF AdmitUnstored, Admitted
  <2>2. row' \in [Eps -> Rows]
    BY <1>1, <1>4 DEF AdmitUnstored, Rows
  <2> HIDE DEF M, X
  <2>3. /\ X("hook", "open", e, NoEp) \in Evs /\ M(e) \in Mems
        /\ X("hook", "open", e, NoEp).pc = "hook" /\ X("hook", "open", e, NoEp).op = "open"
    BY <1>2, <1>3, ConstantTypes DEF Ops
  <2> QED
    BY <1>1, <2>1, <2>2, <2>3, Decided
<1>5. CASE AdmitOpen(g, e)
  <2>1. /\ mem' = [mem EXCEPT ![g] = M(e)] /\ ev' = [ev EXCEPT ![g] = X("sink", "open", e, e)]
        /\ row' = row /\ ~Flaps
    BY <1>5 DEF AdmitOpen, Admitted, Begin
  <2>3. g \in alone /\ engine[g] = "on" => ~told
    <3>1. g \in alone /\ engine[g] = "on" => head.st # "active"
      BY <1>1, Known DEF HydratedFits, EvFits, CanEvaluate
    <3> QED
      BY <2>1, <3>1, Known DEF ToldFits, Flaps
  <2> HIDE DEF M, X
  <2>4. /\ X("sink", "open", e, e) \in Evs /\ M(e) \in Mems /\ M(e).held
        /\ X("sink", "open", e, e).pc = "sink" /\ X("sink", "open", e, e).op = "open"
    BY <1>2, <1>3 DEF Ops
  <2> QED
    BY <1>1, <2>1, <2>3, <2>4, Decided
<1>6. CASE AdmitContinued(g)
  <2>1. /\ mem' = [mem EXCEPT ![g] = M(head.cur)]
        /\ ev' = [ev EXCEPT ![g] = X("head", "touch", head.cur, head.last)] /\ row' = row
        /\ head.cur \in Eps \cup {NoEp} /\ head.last \in Eps \cup {NoEp}
    BY <1>1, <1>6 DEF AdmitContinued, Admitted, Heads
  <2> HIDE DEF M, X
  <2>3. /\ X("head", "touch", head.cur, head.last) \in Evs
        /\ M(head.cur) \in Mems /\ M(head.cur).held
        /\ X("head", "touch", head.cur, head.last).pc = "head"
        /\ X("head", "touch", head.cur, head.last).op = "touch"
    BY <1>2, <1>3, <2>1 DEF Ops
  <2> QED
    BY <1>1, <2>1, <2>3, Decided
<1>7. CASE AdmitFlap(g)
  <2>1. /\ mem' = [mem EXCEPT ![g] = M(head.last)]
        /\ ev' = [ev EXCEPT ![g] = X("sink", "flap", head.last, head.last)] /\ row' = row
        /\ head.last \in Eps \cup {NoEp}
    BY <1>1, <1>7 DEF AdmitFlap, Admitted, Begin, Heads
  <2> HIDE DEF M, X
  <2>3. /\ X("sink", "flap", head.last, head.last) \in Evs
        /\ M(head.last) \in Mems /\ M(head.last).held
        /\ X("sink", "flap", head.last, head.last).pc = "sink"
        /\ X("sink", "flap", head.last, head.last).op = "flap"
    BY <1>2, <1>3, <2>1 DEF Ops
  <2> QED
    BY <1>1, <2>1, <2>3, Decided
<1> QED
  BY <1>4, <1>5, <1>6, <1>7

LEMMA WriteSteps ==
  ASSUME Inv, NEW g \in Engines, WriteEpisode(g) \/ WriteHead(g) \/ Notify(g)
  PROVE  Inv'
<1>1. /\ ev[g] \in Evs /\ mem[g] \in Mems /\ head \in Heads /\ row \in [Eps -> Rows]
      /\ engine[g] \in {"on", "blind"} /\ g \in Up
      /\ engine' = [engine EXCEPT ![g] = engine[g]] /\ mem' = [mem EXCEPT ![g] = mem[g]]
      /\ UNCHANGED <<life, cond, sweep>>
  BY Known DEF WriteEpisode, WriteHead, Notify, EvFits
<1>2. CASE WriteEpisode(g)
  <2> DEFINE x == [ev[g] EXCEPT !.pc = "head"]
  <2>1. /\ ev' = [ev EXCEPT ![g] = x] /\ ev[g].pc = "sink" /\ UNCHANGED <<head, told>>
        /\ x \in Evs /\ x.pc = "head" /\ x.op = ev[g].op
    BY <1>1, <1>2 DEF WriteEpisode, Evs
  <2> HIDE DEF x
  <2>2. \A r \in Rows : RowAfter(g, r) \in Rows
    BY ConstantTypes DEF RowAfter, Rows
  <2>3. row' \in [Eps -> Rows]
    <3>1. ev[g].id # NoEp => ev[g].id \in Eps
      BY <1>1 DEF Evs
    <3> QED
      BY <1>1, <1>2, <2>2, <3>1 DEF WriteEpisode
  <2>4. EvFits(engine[g], x)
    BY <1>1, <2>1, Known DEF EvFits
  <2>5. g \in alone /\ engine[g] = "on" => g \in stored /\ HydratedFits(head, mem[g], x, told)
    BY <2>1, Known DEF HydratedFits
  <2> QED
    BY <1>1, <2>1, <2>3, <2>4, <2>5, Known, EngineStep
<1>3. CASE WriteHead(g)
  <2> DEFINE x == IF ev[g].op = "open" THEN [ev[g] EXCEPT !.pc = "hook"] ELSE IdleEv
  <2>1. /\ ev[g].pc = "head" /\ ev[g].op # "skip" /\ UNCHANGED <<row, told>>
        /\ ev' = [ev EXCEPT ![g] = x]
    BY <1>3, Known DEF WriteHead, EvFits
  <2>2. x \in Evs /\ \/ ev[g].op = "open" /\ x.pc = "hook" /\ x.op = "open"
                     \/ ev[g].op # "open" /\ x.pc = "idle" /\ x.op = "skip"
    BY <1>1, ConstantTypes DEF Evs
  <2> HIDE DEF x
  <2>3. EvFits(engine[g], x)
    BY <1>1, <2>2 DEF EvFits
  <2>4. CASE ev[g].op = "resolve"
    <3>1. head' = Closed(head, "resolved")
      BY <1>3, <2>4 DEF WriteHead
    <3>2. /\ head' \in Heads /\ head'.st # "active" /\ head'.cur = NoEp
          /\ head'.cool => head'.st = "resolved"
          /\ head.st = "active" \/ head.cool => head'.cool
      BY <1>1, <3>1, ClosedFacts, Known DEF ToldFits
    <3>3. ToldFits(head', told')
      BY <2>1, <3>2, Known DEF ToldFits
    <3>4. g \in alone /\ engine[g] = "on" => g \in stored /\ HydratedFits(head', mem[g], x, told')
      BY <2>1, <2>2, <2>4, <3>2, Known DEF HydratedFits
    <3> QED
      BY <1>1, <2>1, <2>2, <2>3, <3>2, <3>3, <3>4, Known, EngineStep
  <2>5. CASE ev[g].op # "resolve"
    <3>1. head' = Active(ev[g].id, ev[g].last)
      BY <1>3, <2>5 DEF WriteHead
    <3>2. head' \in Heads /\ head'.st = "active" /\ ~head'.cool
      BY <1>1, <3>1, ConstantTypes DEF Evs, Active
    <3>3. g \in alone /\ engine[g] = "on" => mem[g].held
      BY <1>1, <2>1, <2>5, Known DEF HydratedFits, Evs, Ops
    <3>4. ToldFits(head', told')
      BY <3>2 DEF ToldFits
    <3>5. g \in alone /\ engine[g] = "on" => g \in stored /\ HydratedFits(head', mem[g], x, told')
      BY <2>1, <2>2, <3>2, <3>3, Known DEF HydratedFits
    <3> QED
      BY <1>1, <2>1, <2>2, <2>3, <3>2, <3>4, <3>5, Known, EngineStep
  <2> QED
    BY <2>4, <2>5
<1>4. CASE Notify(g)
  <2>1. /\ ev[g].op = "open" /\ UNCHANGED <<head, row>> /\ ev' = [ev EXCEPT ![g] = IdleEv]
        /\ (told' <=> head.st = "active" \/ head.cool) /\ told' \in BOOLEAN
    BY <1>4, Known DEF Notify, EvFits
  <2>2. ToldFits(head', told')
    BY <2>1, Known DEF ToldFits
  <2>3. g \in alone /\ engine[g] = "on" =>
          g \in stored /\ HydratedFits(head', mem[g], IdleEv, told')
    BY <2>1, Known, ConstantTypes DEF HydratedFits
  <2>4. EvFits(engine[g], IdleEv)
    BY <1>1, ConstantTypes DEF EvFits
  <2> QED
    BY <1>1, <2>1, <2>2, <2>3, <2>4, ConstantTypes, Known, EngineStep
<1> QED
  BY <1>2, <1>3, <1>4

-----------------------------------------------------------------------------
(* The watchdog, the retention pass, the cluster and the process.          *)

\* Something other than an evaluation moves: rows, the sweep, and a record
\* that is closed, dropped or stops cooling, with what was told of it.
LEMMA Upkeep ==
  ASSUME Inv, UNCHANGED <<life, engine, mem, ev>>, cond' \in BOOLEAN,
         row' \in [Eps -> Rows], sweep' \subseteq Eps, head' \in Heads, told' \in BOOLEAN,
         head'.st # "active" => head'.cur = NoEp,
         head'.cool => head'.st = "resolved",
         head'.st = "active" => head.st = "active",
         told' => told /\ (head'.st = "active" \/ head'.cool)
  PROVE  Inv'
<1> USE DEF Inv
<1>1. TypeOK'
  BY DEF TypeOK, Rows, life, Up
<1>2. ToldInv' /\ EvInv' /\ HydratedInv'
  BY DEF life, ToldInv, ToldFits, EvInv, HydratedInv, HydratedFits
<1> QED
  BY <1>1, <1>2

LEMMA UpkeepSteps ==
  ASSUME Inv, NEW e \in Eps,
         \/ ExpireStale \/ PruneHead \/ CooldownEnds \/ ConditionChanges
         \/ MarkExpired(e) \/ PruneRow(e) \/ Lapse(e)
  PROVE  Inv'
<1>1. /\ head \in Heads /\ row \in [Eps -> Rows] /\ sweep \subseteq Eps
      /\ told \in BOOLEAN /\ cond \in BOOLEAN
      /\ head.st # "active" => head.cur = NoEp
      /\ head.cool => head.st = "resolved"
      /\ told => head.st = "active" \/ head.cool
  BY DEF Inv, TypeOK, ToldInv, ToldFits, Rows
<1>2. CASE ExpireStale \/ PruneRow(e) \/ Lapse(e) \/ ConditionChanges
  <2>1. /\ UNCHANGED <<life, engine, mem, ev, head, told>>
        /\ cond' \in BOOLEAN /\ sweep' \subseteq Eps
    BY <1>1, <1>2 DEF ExpireStale, PruneRow, Lapse, ConditionChanges, Stale
  <2>2. row' \in [Eps -> Rows]
    <3>1. CASE ExpireStale
      BY <1>1, <3>1 DEF ExpireStale, Rows
    <3>2. CASE PruneRow(e)
      <4> DEFINE r == [row[e] EXCEPT !.st = "norow"]
      <4>1. r \in Rows /\ row' = [row EXCEPT ![e] = r]
        BY <1>1, <3>2 DEF PruneRow, Rows
      <4> QED
        BY <1>1, <4>1
    <3>3. CASE Lapse(e)
      <4> DEFINE r == [row[e] EXCEPT !.fresh = FALSE]
      <4>1. r \in Rows /\ row' = [row EXCEPT ![e] = r]
        BY <1>1, <3>3 DEF Lapse, Rows
      <4> QED
        BY <1>1, <4>1
    <3>4. CASE ConditionChanges
      BY <1>1, <3>4 DEF ConditionChanges
    <3> QED
      BY <1>2, <3>1, <3>2, <3>3, <3>4
  <2> QED
    BY <1>1, <2>1, <2>2, Upkeep
<1>3. CASE MarkExpired(e)
  <2>1. /\ UNCHANGED <<life, engine, mem, ev, cond, row>> /\ sweep' \subseteq Eps
        /\ head' = IF head.st = "active" THEN Closed(head, "expired") ELSE head
        /\ told' \in BOOLEAN /\ (told' => told /\ head.st # "active")
    BY <1>1, <1>3 DEF MarkExpired
  <2>2. /\ Closed(head, "expired") \in Heads
        /\ Closed(head, "expired").st # "active" /\ Closed(head, "expired").cur = NoEp
        /\ Closed(head, "expired").cool => Closed(head, "expired").st = "resolved"
    BY <1>1, ClosedFacts
  <2>3. CASE head.st = "active"
    BY <1>1, <2>1, <2>2, <2>3, Upkeep
  <2>4. CASE head.st # "active"
    BY <1>1, <2>1, <2>4, Upkeep
  <2> QED
    BY <2>3, <2>4
<1>4. CASE PruneHead
  <2>1. /\ UNCHANGED <<life, engine, mem, ev, cond, row, sweep, told>>
        /\ head' = NoHead /\ head.st = "resolved" /\ ~head.cool
    BY <1>4 DEF PruneHead
  <2>2. ~told'
    BY <1>1, <2>1
  <2> QED
    BY <1>1, <2>1, <2>2, ConstantTypes, Upkeep
<1>5. CASE CooldownEnds
  <2>1. /\ UNCHANGED <<life, engine, mem, ev, cond, row, sweep>>
        /\ head' = [head EXCEPT !.cool = FALSE] /\ told' = FALSE
    BY <1>5 DEF CooldownEnds
  <2>2. head' \in Heads /\ ~head'.cool /\ head'.st = head.st /\ head'.cur = head.cur
    BY <1>1, <2>1 DEF Heads
  <2> QED
    BY <1>1, <2>1, <2>2, Upkeep
<1> QED
  BY <1>2, <1>3, <1>4, <1>5

LEMMA ProcessSteps ==
  ASSUME Inv,
         \/ \E g \in Engines : EngineStarts(g) \/ EngineStops(g) \/ EngineReturns(g)
         \/ SetInsightStore \/ Crash
  PROVE  Inv'
<1> USE DEF Inv
<1>1. /\ UNCHANGED <<cond, head, row, told>> /\ sweep' \subseteq Eps /\ ToldInv'
      /\ engine \in [Engines -> {"off", "new", "on", "blind"}]
      /\ mem \in [Engines -> Mems] /\ ev \in [Engines -> Evs] /\ wired \in BOOLEAN
      /\ stopped \subseteq Up /\ stored \subseteq Up /\ \A h \in alone : Up = {h}
  BY DEF EngineStarts, EngineStops, EngineReturns, SetInsightStore, Crash, TypeOK, ToldInv,
         Mems, Evs, Ops
<1> DEFINE Rest ==
        /\ wired' \in BOOLEAN /\ engine' \in [Engines -> {"off", "new", "on", "blind"}]
        /\ mem' \in [Engines -> Mems] /\ ev' \in [Engines -> Evs]
        /\ stopped' \subseteq Up' /\ stored' \subseteq Up' /\ \A h \in alone' : Up' = {h}
        /\ EvInv' /\ HydratedInv'
<1>2. SUFFICES Rest
  BY <1>1 DEF TypeOK, Mems, Evs, Ops, Rows
<1>3. ASSUME NEW g \in Engines, EngineStarts(g) PROVE Rest
  <2>1. /\ engine' = [engine EXCEPT ![g] = "new"] /\ engine[g] = "off"
        /\ UNCHANGED <<stopped, wired, mem, ev>>
        /\ stored' \subseteq stored \cup {g}
        /\ alone' = IF Up = {} THEN {g} ELSE {}
    BY <1>3 DEF EngineStarts
  <2>2. Up' = Up \cup {g}
    BY <1>1, <2>1 DEF Up
  <2>3. EvInv'
    BY <1>1, <2>1 DEF EvInv, EvFits
  <2>4. HydratedInv'
    BY <1>1, <2>1 DEF HydratedInv
  <2> QED
    BY <1>1, <2>1, <2>2, <2>3, <2>4
<1>4. ASSUME NEW g \in Engines, EngineStops(g) PROVE Rest
  <2>1. /\ UNCHANGED <<engine, wired, stored, mem, ev, alone>>
        /\ stopped' \subseteq stopped \cup {g}
        /\ g \in Up
    BY <1>4 DEF EngineStops
  <2>2. Up' = Up
    BY <2>1 DEF Up
  <2>3. EvInv' /\ HydratedInv'
    BY <1>1, <2>1 DEF EvInv, HydratedInv
  <2> QED
    BY <1>1, <2>1, <2>2, <2>3
<1>5. ASSUME NEW g \in Engines, EngineReturns(g) PROVE Rest
  <2>1. /\ engine' = [engine EXCEPT ![g] = "off"] /\ mem' = [mem EXCEPT ![g] = Absent]
        /\ UNCHANGED <<wired, ev>> /\ ev[g].pc = "idle" /\ g \in stopped
        /\ stopped' = stopped \ {g} /\ stored' = stored \ {g} /\ alone' = alone \ {g}
    BY <1>5 DEF EngineReturns
  <2>2. Up' = Up \ {g} /\ alone' = {}
    BY <1>1, <2>1 DEF Up
  <2>3. EvInv'
    BY <1>1, <2>1 DEF EvInv, EvFits
  <2>4. HydratedInv'
    BY <2>2 DEF HydratedInv
  <2> QED
    BY <1>1, <2>1, <2>2, <2>3, <2>4, ConstantTypes
<1>6. CASE SetInsightStore
  <2>1. /\ UNCHANGED <<engine, stopped, mem, ev, alone>> /\ wired' = TRUE
        /\ stored' = stored \cup (Up \ stopped)
    BY <1>6 DEF SetInsightStore
  <2>2. Up' = Up
    BY <2>1 DEF Up
  <2>3. EvInv' /\ HydratedInv'
    BY <1>1, <2>1 DEF EvInv, HydratedInv
  <2> QED
    BY <1>1, <2>1, <2>2, <2>3
<1>7. CASE Crash
  <2>1. /\ engine' = [h \in Engines |-> "off"] /\ mem' = [h \in Engines |-> Absent]
        /\ ev' = [h \in Engines |-> IdleEv] /\ wired' = FALSE
        /\ stopped' = {} /\ stored' = {} /\ alone' = {}
    BY <1>7 DEF Crash
  <2>2. EvInv' /\ HydratedInv'
    BY <2>1, ConstantTypes DEF EvInv, EvFits, HydratedInv
  <2> QED
    BY <2>1, <2>2, ConstantTypes
<1> QED
  BY <1>3, <1>4, <1>5, <1>6, <1>7

-----------------------------------------------------------------------------
(* The theorems.                                                           *)

LEMMA StepInv == Inv /\ [Next]_vars => Inv'
<1> SUFFICES ASSUME Inv, [Next]_vars PROVE Inv'
  OBVIOUS
<1>1. CASE UNCHANGED vars
  BY <1>1 DEF vars, Inv, TypeOK, Up, ToldInv, EvInv, HydratedInv
<1>2. CASE \E g \in Engines : Evaluate(g)
  <2>1. 1 \in Eps
    BY DEF Eps
  <2> QED
    BY <1>2, <2>1, HydrateStep, KnownSteps, AdmitSteps, WriteSteps DEF Evaluate
<1>3. CASE \/ \E g \in Engines : EngineStarts(g) \/ EngineStops(g) \/ EngineReturns(g)
           \/ SetInsightStore \/ Crash
  BY <1>3, ProcessSteps
<1>4. CASE \/ Watchdog \/ PruneHead \/ CooldownEnds \/ ConditionChanges
           \/ \E e \in Eps : PruneRow(e) \/ Lapse(e)
  <2>1. 1 \in Eps
    BY DEF Eps
  <2> QED
    BY <1>4, <2>1, UpkeepSteps DEF Watchdog
<1> QED
  BY <1>1, <1>2, <1>3, <1>4 DEF Next

LEMMA Invariance == Spec => []Inv
BY InitInv, StepInv, PTL DEF Spec

\* Every variable keeps its type, a record that is not active has no current
\* occurrence, and an engine that is alone is the only one up, whatever crashes
\* between the writes and however engines overlap.
THEOREM TypeCorrect == Spec => []TypeOK
<1>1. Inv => TypeOK
  BY DEF Inv
<1> QED
  BY <1>1, Invariance, PTL

\* "firing onNew there is the restart-renotify spam bug" (engine.go): an engine
\* that hydrated and has been the only one of its cluster since it was built never
\* notifies a stretch that was notified, over any number of crashes, rebuilt and
\* overlapping engines before it, flaps, expiries and episodes.
THEOREM NoRenotificationHolds == Spec => NoRenotification
<1>1. Inv => [\A g \in Engines : Notify(g) /\ engine[g] = "on" /\ g \in alone => ~told]_vars
  <2> SUFFICES ASSUME Inv, NEW g \in Engines, Notify(g), engine[g] = "on", g \in alone
               PROVE  ~told
    OBVIOUS
  <2>1. ev[g].op = "open"
    BY Known DEF EvFits, Notify
  <2> QED
    BY <2>1, Known DEF HydratedFits
<1> QED
  BY <1>1, Invariance, PTL DEF NoRenotification
=============================================================================
