-------------------------- MODULE RuntimePool_proofs --------------------------
(***************************************************************************)
(* Theorems about RuntimePool, for any contexts, any number of goroutines  *)
(* and runtimes and any capacity of the pool.                              *)
(***************************************************************************)
EXTENDS RuntimePool, TLAPS

USE ContextAssumption, RuntimeAssumption, PoolMaxAssumption

-----------------------------------------------------------------------------
(* The inductive invariant.                                                *)

\* What a goroutine inside getOrSpinPooled knows of the runtime it holds.
Holds(x) ==
  /\ x.pc # "idle" => x.ctx \in Contexts
  /\ x.pc \in {"idle", "check", "see", "lookup"} => x.rt = NoRt
  /\ x.pc \in {"wait", "hung", "build", "built"} => x.rt # NoRt
  /\ x.rt # NoRt => of[x.rt] = x.ctx /\ life[x.rt] # "free"
  /\ x.pc = "build" => life[x.rt] = "building"
  /\ x.pc = "built" => life[x.rt] = "started"
  /\ x.pc = "got" /\ x.rt # NoRt => life[x.rt] \in {"live", "stopped"}

CallersOK == \A p \in Callers : Holds(caller[p])

Builds(p, r) == caller[p].pc \in {"build", "built"} /\ caller[p].rt = r

\* A runtime on its way has one builder.
BuildersOK ==
  /\ \A r \in Runtimes : life[r] \in {"building", "started"} => \E p \in Callers : Builds(p, r)
  /\ \A p, q \in Callers, r \in Runtimes : Builds(p, r) /\ Builds(q, r) => p = q

PoolOK == \A c \in Contexts : pool[c] # NoRt => life[pool[c]] # "free"

ConnOK ==
  conn # NoRt =>
    /\ active \in Contexts /\ of[conn] = active
    /\ life[conn] \in {"live", "stopped"}
    /\ \A c \in Contexts : pool[c] # conn

Inv == TypeOK /\ CallersOK /\ BuildersOK /\ PoolOK /\ ConnOK /\ OnlyActiveBroadcasts

CallerType ==
  [pc : PCs, kind : Kinds, ctx : Contexts \cup {NoCtx}, rt : Runtimes \cup {NoRt}]

LEMMA AtType ==
  ASSUME NEW pc \in PCs, NEW kind \in Kinds, NEW c \in Contexts
  PROVE  At(pc, kind, c) \in CallerType
BY DEF At, CallerType

LEMMA IdleFacts == Idle \in CallerType /\ Holds(Idle) /\ Idle.pc = "idle"
BY DEF Idle, CallerType, Holds, PCs, Kinds

LEMMA InitInv == Init => Inv
<1> SUFFICES ASSUME Init PROVE Inv
  OBVIOUS
<1> PICK r0 \in Runtimes, k \in (Contexts \ ProxyContexts) \cup {NoCtx}, up \in BOOLEAN :
       /\ up => k # NoCtx
       /\ active = k
       /\ conn = IF up THEN r0 ELSE NoRt
       /\ life = [r \in Runtimes |-> IF up /\ r = r0 THEN "live" ELSE "free"]
       /\ of = [r \in Runtimes |-> IF up /\ r = r0 THEN k ELSE NoCtx]
       /\ gate = IF up THEN {r0} ELSE {}
  BY DEF Init
<1>1. /\ pool = [c \in Contexts |-> NoRt] /\ parked = {}
      /\ caller = [p \in Callers |-> Idle] /\ proxy = {} /\ agents = {}
      /\ known = Contexts \ ProxyContexts /\ panic = FALSE
  BY DEF Init
<1>2. TypeOK
  BY <1>1, IdleFacts DEF TypeOK, CallerType, Lives
<1>3. CallersOK
  BY <1>1, IdleFacts DEF CallersOK
<1>4. BuildersOK
  BY <1>1, IdleFacts DEF BuildersOK, Builds
<1>5. PoolOK /\ ConnOK
  BY <1>1 DEF PoolOK, ConnOK
<1>6. OnlyActiveBroadcasts
  BY <1>1 DEF OnlyActiveBroadcasts
<1> QED
  BY <1>2, <1>3, <1>4, <1>5, <1>6 DEF Inv

-----------------------------------------------------------------------------
(* Steps of one goroutine.                                                 *)

\* A goroutine that builds nothing moves on, and nothing else changes.
LEMMA CallerMoves ==
  ASSUME Inv, NEW p \in Callers, NEW x \in CallerType, Holds(x),
         caller' = [caller EXCEPT ![p] = x],
         caller[p].pc \notin {"build", "built"}, x.pc \notin {"build", "built"},
         UNCHANGED <<active, conn, pool, parked, life, of, gate, agents, panic>>,
         proxy' \subseteq ProxyContexts, known' \subseteq Contexts
  PROVE  Inv'
<1> USE DEF Inv
<1>1. /\ caller'[p] = x /\ caller' \in [Callers -> CallerType]
      /\ \A q \in Callers \ {p} : caller'[q] = caller[q]
  BY DEF TypeOK, CallerType
<1>2. TypeOK'
  BY <1>1 DEF TypeOK, CallerType
<1>3. CallersOK'
  BY <1>1 DEF CallersOK, Holds
<1>4. \A q \in Callers, r \in Runtimes : Builds(q, r)' <=> Builds(q, r)
  BY <1>1 DEF Builds
<1>5. BuildersOK'
  BY <1>4 DEF BuildersOK
<1>6. PoolOK' /\ ConnOK'
  BY DEF PoolOK, ConnOK
<1>7. OnlyActiveBroadcasts'
  BY <1>1 DEF OnlyActiveBroadcasts
<1> QED
  BY <1>2, <1>3, <1>5, <1>6, <1>7

LEMMA LookupStep ==
  ASSUME Inv, NEW p \in Callers, Lookup(p)
  PROVE  Inv'
<1> USE DEF Inv
<1> DEFINE c == caller[p].ctx
<1>1. /\ caller[p] \in CallerType /\ caller[p].pc = "lookup" /\ caller[p].rt = NoRt
      /\ c \in Contexts
      /\ UNCHANGED <<active, conn, parked, gate, proxy, known, agents, panic>>
  BY DEF Lookup, CallersOK, Holds, TypeOK, CallerType
<1>2. CASE /\ pool[c] # NoRt
           /\ caller' = [caller EXCEPT ![p].pc = IF c \in parked THEN "hung" ELSE "wait",
                                       ![p].rt = pool[c]]
           /\ UNCHANGED <<life, of, pool>>
  <2> DEFINE pc == IF c \in parked THEN "hung" ELSE "wait"
             x == [caller[p] EXCEPT !.pc = pc, !.rt = pool[c]]
  <2>1. pc \in {"hung", "wait"} /\ pool[c] \in Runtimes
        /\ of[pool[c]] = c /\ life[pool[c]] # "free"
    BY <1>1, <1>2 DEF TypeOK, PoolOK
  <2>2. caller' = [caller EXCEPT ![p] = x]
    BY <1>2 DEF TypeOK
  <2> HIDE DEF pc
  <2>3. x \in CallerType /\ x.pc = pc /\ x.rt = pool[c] /\ x.ctx = c
    BY <1>1, <2>1 DEF CallerType, PCs
  <2> HIDE DEF x
  <2>4. Holds(x)
    BY <1>1, <1>2, <2>1, <2>3 DEF Holds
  <2> QED
    BY <1>1, <1>2, <2>1, <2>2, <2>3, <2>4, CallerMoves DEF TypeOK
<1>3. CASE caller' = [caller EXCEPT ![p].pc = "got"] /\ UNCHANGED <<life, of, pool>>
  <2> DEFINE x == [caller[p] EXCEPT !.pc = "got"]
  <2>1. caller' = [caller EXCEPT ![p] = x]
    BY <1>3 DEF TypeOK
  <2>2. x \in CallerType /\ x.pc = "got" /\ x.rt = NoRt /\ x.ctx = c
    BY <1>1 DEF CallerType, PCs
  <2> HIDE DEF x
  <2>3. Holds(x)
    BY <1>1, <2>2 DEF Holds
  <2> QED
    BY <1>1, <1>3, <2>1, <2>2, <2>3, CallerMoves DEF TypeOK
<1>4. ASSUME NEW r \in Runtimes, Reserve(p, r), pool[c] = NoRt PROVE Inv'
  <2> DEFINE x == [caller[p] EXCEPT !.pc = "build", !.rt = r]
  <2>1. /\ life[r] = "free" /\ life' = [life EXCEPT ![r] = "building"]
        /\ of' = [of EXCEPT ![r] = c] /\ pool' = [pool EXCEPT ![c] = r]
        /\ caller' = [caller EXCEPT ![p] = x]
    BY <1>4 DEF Reserve, TypeOK
  <2>2. x \in CallerType /\ x.pc = "build" /\ x.rt = r /\ x.ctx = c
    BY <1>1 DEF CallerType, PCs
  <2> HIDE DEF x
  <2>3. /\ caller'[p] = x /\ caller' \in [Callers -> CallerType]
        /\ \A q \in Callers \ {p} : caller'[q] = caller[q]
    BY <2>1, <2>2 DEF TypeOK, CallerType
  <2>4. /\ life' \in [Runtimes -> Lives] /\ life'[r] = "building"
        /\ of' \in [Runtimes -> Contexts \cup {NoCtx}] /\ of'[r] = c
        /\ \A s \in Runtimes \ {r} : life'[s] = life[s] /\ of'[s] = of[s]
    BY <1>1, <2>1 DEF TypeOK, Lives
  <2>5. /\ pool' \in [Contexts -> Runtimes \cup {NoRt}] /\ pool'[c] = r
        /\ \A d \in Contexts \ {c} : pool'[d] = pool[d]
    BY <1>1, <2>1 DEF TypeOK
  <2>6. (\A d \in Contexts : pool[d] # r) /\ conn # r /\ (\A q \in Callers : caller[q].rt # r)
    BY <2>1 DEF PoolOK, ConnOK, CallersOK, Holds
  <2>7. TypeOK'
    BY <1>1, <2>3, <2>4, <2>5, <2>6 DEF TypeOK, CallerType
  <2>8. CallersOK'
    <3>1. Holds(caller[p])'
      BY <1>1, <2>2, <2>3, <2>4 DEF Holds
    <3>2. ASSUME NEW q \in Callers \ {p} PROVE Holds(caller[q])'
      <4>1. Holds(caller[q]) /\ caller[q].rt \in Runtimes \cup {NoRt} /\ caller[q].rt # r
        BY <2>6 DEF CallersOK, TypeOK
      <4> QED
        BY <2>3, <2>4, <4>1 DEF Holds
    <3> QED
      BY <2>3, <3>1, <3>2 DEF CallersOK
  <2>9. BuildersOK'
    <3>1. \A q \in Callers \ {p}, s \in Runtimes : Builds(q, s)' <=> Builds(q, s)
      BY <2>3 DEF Builds
    <3>2. \A s \in Runtimes : Builds(p, s)' <=> s = r
      BY <2>2, <2>3 DEF Builds
    <3>3. \A s \in Runtimes : ~Builds(p, s) /\ \A q \in Callers : ~Builds(q, r)
      BY <1>1, <2>6 DEF Builds
    <3> QED
      BY <2>4, <3>1, <3>2, <3>3 DEF BuildersOK
  <2>10. PoolOK'
    BY <2>4, <2>5, <2>6 DEF PoolOK, TypeOK
  <2>11. ConnOK'
    BY <1>1, <2>4, <2>5, <2>6 DEF ConnOK, TypeOK
  <2>12. OnlyActiveBroadcasts'
    <3>1. ASSUME NEW s \in gate, life'[s] \in {"started", "live"}
          PROVE  s = conn \/ \E q \in Callers : caller'[q].pc = "built" /\ caller'[q].rt = s
      <4>1. s \in Runtimes \ {r} /\ life[s] \in {"started", "live"}
        BY <2>4, <3>1 DEF TypeOK
      <4>2. s = conn \/ \E q \in Callers : caller[q].pc = "built" /\ caller[q].rt = s
        BY <4>1, <3>1 DEF OnlyActiveBroadcasts
      <4> QED
        BY <1>1, <2>3, <4>2
    <3> QED
      BY <1>1, <3>1 DEF OnlyActiveBroadcasts
  <2> QED
    BY <2>7, <2>8, <2>9, <2>10, <2>11, <2>12
<1> QED
  BY <1>2, <1>3, <1>4 DEF Lookup

\* The builder of r changes r's life and is done, or goes on to file it.
LEMMA BuilderMoves ==
  ASSUME Inv, NEW p \in Callers, NEW r \in Runtimes, Builds(p, r),
         NEW x \in CallerType, NEW l \in Lives, l \notin {"free", "building"},
         x.ctx = caller[p].ctx,
         \/ x.pc = "built" /\ x.rt = r /\ l = "started"
         \/ x.pc = "got" /\ x.rt = r /\ l = "live"
         \/ x.pc = "got" /\ x.rt = NoRt /\ l = "failed",
         caller' = [caller EXCEPT ![p] = x], life' = [life EXCEPT ![r] = l],
         UNCHANGED <<active, conn, of, proxy, known, agents, panic>>,
         \/ pool' = pool /\ parked' = parked
         \/ pool' = [pool EXCEPT ![x.ctx] = NoRt] /\ parked' = parked \ {x.ctx},
         gate' \subseteq gate \cup {r}, r \in gate' => l # "live"
  PROVE  Inv'
<1> USE DEF Inv
<1>1. /\ caller[p] \in CallerType /\ caller[p].rt = r /\ caller[p].pc \in {"build", "built"}
      /\ x.ctx \in Contexts /\ of[r] = x.ctx /\ life[r] \in {"building", "started"}
  BY DEF Builds, CallersOK, Holds, TypeOK, CallerType
<1>2. /\ caller'[p] = x /\ caller' \in [Callers -> CallerType]
      /\ \A q \in Callers \ {p} : caller'[q] = caller[q]
  BY DEF TypeOK, CallerType
<1>3. /\ life' \in [Runtimes -> Lives] /\ life'[r] = l
      /\ \A s \in Runtimes \ {r} : life'[s] = life[s]
  BY DEF TypeOK
<1>4. /\ pool' \in [Contexts -> Runtimes \cup {NoRt}] /\ parked' \subseteq Contexts
      /\ \A d \in Contexts : pool'[d] \in {pool[d], NoRt}
  BY <1>1 DEF TypeOK
<1>5. conn # r
  BY <1>1 DEF ConnOK
<1>6. TypeOK'
  BY <1>2, <1>3, <1>4 DEF TypeOK, CallerType
<1>7. \A q \in Callers \ {p} : caller[q].pc \notin {"build", "built"} \/ caller[q].rt # r
  BY <1>1 DEF BuildersOK, Builds
<1>8. CallersOK'
  <2>1. Holds(caller[p])'
    BY <1>1, <1>2, <1>3 DEF Holds
  <2>2. ASSUME NEW q \in Callers \ {p} PROVE Holds(caller[q])'
    <3>1. Holds(caller[q]) /\ caller[q].rt \in Runtimes \cup {NoRt}
      BY DEF CallersOK, TypeOK
    <3>2. caller[q].pc = "got" => caller[q].rt # r
      BY <1>1, <3>1 DEF Holds
    <3> QED
      BY <1>2, <1>3, <1>7, <3>1, <3>2 DEF Holds
  <2> QED
    BY <2>1, <2>2 DEF CallersOK
<1>9. BuildersOK'
  <2>1. \A q \in Callers \ {p}, s \in Runtimes : Builds(q, s)' <=> Builds(q, s)
    BY <1>2 DEF Builds
  <2>2. \A s \in Runtimes : Builds(p, s)' <=> s = r /\ x.pc = "built"
    BY <1>2 DEF Builds
  <2>3. \A q \in Callers \ {p} : ~Builds(q, r)
    BY <1>7 DEF Builds
  <2>4. \A s \in Runtimes : Builds(p, s) => s = r
    BY <1>1 DEF Builds
  <2>5. ASSUME NEW s \in Runtimes, life'[s] \in {"building", "started"}
        PROVE  \E q \in Callers : Builds(q, s)'
    <3>1. CASE s = r
      BY <1>3, <2>2, <2>5, <3>1
    <3>2. CASE s # r
      <4>1. PICK q \in Callers : Builds(q, s)
        BY <1>3, <2>5, <3>2 DEF BuildersOK
      <4> QED
        BY <2>1, <2>4, <3>2, <4>1
    <3> QED
      BY <3>1, <3>2
  <2>6. ASSUME NEW q1 \in Callers, NEW q2 \in Callers, NEW s \in Runtimes,
               Builds(q1, s)', Builds(q2, s)'
        PROVE  q1 = q2
    BY <2>1, <2>2, <2>3, <2>6 DEF BuildersOK
  <2> QED
    BY <2>5, <2>6 DEF BuildersOK
<1>10. PoolOK'
  BY <1>3, <1>4 DEF PoolOK, TypeOK
<1>11. ConnOK'
  BY <1>3, <1>4, <1>5 DEF ConnOK, TypeOK
<1>12. OnlyActiveBroadcasts'
  <2>1. ASSUME NEW s \in gate', life'[s] \in {"started", "live"}
        PROVE  s = conn \/ \E q \in Callers : caller'[q].pc = "built" /\ caller'[q].rt = s
    <3>1. CASE s = r
      BY <1>2, <1>3, <2>1, <3>1
    <3>2. CASE s # r
      <4>1. s \in gate /\ life[s] \in {"started", "live"}
        BY <1>3, <2>1, <3>2 DEF TypeOK
      <4>2. s = conn \/ \E q \in Callers \ {p} : caller[q].pc = "built" /\ caller[q].rt = s
        BY <1>1, <3>2, <4>1 DEF OnlyActiveBroadcasts
      <4> QED
        BY <1>2, <4>2
    <3> QED
      BY <3>1, <3>2
  <2> QED
    BY <2>1 DEF OnlyActiveBroadcasts
<1> QED
  BY <1>6, <1>8, <1>9, <1>10, <1>11, <1>12

LEMMA BuildSteps ==
  ASSUME Inv, NEW p \in Callers, BuildOk(p) \/ BuildFail(p) \/ Publish(p)
  PROVE  Inv'
<1> USE DEF Inv
<1> DEFINE r == caller[p].rt
<1>1. caller[p] \in CallerType /\ caller[p].pc \in {"build", "built"}
  BY DEF BuildOk, BuildFail, Publish, TypeOK, CallerType
<1>2. r \in Runtimes /\ Builds(p, r)
  BY <1>1 DEF CallersOK, Holds, Builds, CallerType
<1>3. CASE BuildOk(p)
  <2> DEFINE x == [caller[p] EXCEPT !.pc = "built"]
  <2>1. caller' = [caller EXCEPT ![p] = x] /\ x \in CallerType
        /\ x.pc = "built" /\ x.rt = r /\ x.ctx = caller[p].ctx
    BY <1>1, <1>3 DEF BuildOk, CallerType, PCs, TypeOK
  <2> HIDE DEF x
  <2> QED
    BY <1>2, <1>3, <2>1, BuilderMoves DEF BuildOk, Lives
<1>4. CASE Publish(p)
  <2> DEFINE x == [caller[p] EXCEPT !.pc = "got"]
  <2>1. caller' = [caller EXCEPT ![p] = x] /\ x \in CallerType
        /\ x.pc = "got" /\ x.rt = r /\ x.ctx = caller[p].ctx
    BY <1>1, <1>4 DEF Publish, CallerType, PCs, TypeOK
  <2> HIDE DEF x
  <2> QED
    BY <1>2, <1>4, <2>1, BuilderMoves DEF Publish, Lives
<1>5. CASE BuildFail(p)
  <2> DEFINE x == [caller[p] EXCEPT !.pc = "got", !.rt = NoRt]
  <2>1. caller' = [caller EXCEPT ![p] = x] /\ x \in CallerType
        /\ x.pc = "got" /\ x.rt = NoRt /\ x.ctx = caller[p].ctx
    BY <1>1, <1>5 DEF BuildFail, CallerType, PCs, TypeOK
  <2> HIDE DEF x
  <2> QED
    BY <1>2, <1>5, <2>1, BuilderMoves DEF BuildFail, Lives
<1> QED
  BY <1>3, <1>4, <1>5

LEMMA QuietSteps ==
  ASSUME Inv, NEW p \in Callers, NEW c \in Contexts,
         \/ WaitDone(p) \/ RetryCheck(p) \/ EagerSee(p) \/ UseDone(p)
         \/ Request(p, c)
  PROVE  Inv'
<1> USE DEF Inv
<1>1. /\ caller[p] \in CallerType /\ Holds(caller[p])
      /\ UNCHANGED <<active, conn, pool, parked, life, of, gate, proxy, known, agents, panic>>
      /\ proxy' \subseteq ProxyContexts /\ known' \subseteq Contexts
  BY DEF WaitDone, RetryCheck, EagerSee, UseDone, Request, TypeOK, CallerType, CallersOK
<1>2. CASE WaitDone(p)
  <2> DEFINE r == caller[p].rt
             s == IF life[r] = "failed" THEN NoRt ELSE r
             x == [caller[p] EXCEPT !.pc = "got", !.rt = s]
  <2>1. caller[p].pc = "wait" /\ life[r] \in {"live", "stopped", "failed"}
        /\ r \in Runtimes /\ s \in {r, NoRt}
    BY <1>1, <1>2 DEF WaitDone, Holds, CallerType
  <2>2. caller' = [caller EXCEPT ![p] = x]
    BY <1>2 DEF WaitDone, TypeOK
  <2>3. s = NoRt \/ (s = r /\ life[r] \in {"live", "stopped"})
    BY <2>1
  <2> HIDE DEF s
  <2>4. x \in CallerType /\ x.pc = "got" /\ x.rt = s /\ x.ctx = caller[p].ctx
    BY <1>1, <2>1 DEF CallerType, PCs
  <2> HIDE DEF x
  <2>5. Holds(x)
    BY <1>1, <2>1, <2>3, <2>4 DEF Holds
  <2> QED
    BY <1>1, <2>1, <2>2, <2>4, <2>5, CallerMoves
<1>3. CASE RetryCheck(p) \/ EagerSee(p)
  <2>1. CASE caller' = [caller EXCEPT ![p].pc = "lookup"]
    <3> DEFINE x == [caller[p] EXCEPT !.pc = "lookup"]
    <3>1. caller' = [caller EXCEPT ![p] = x] /\ caller[p].pc \in {"check", "see"}
      BY <1>3, <2>1 DEF RetryCheck, EagerSee, TypeOK
    <3>2. /\ x \in CallerType /\ x.pc = "lookup"
          /\ x.rt = caller[p].rt /\ x.ctx = caller[p].ctx
      BY <1>1 DEF CallerType, PCs
    <3> HIDE DEF x
    <3>3. Holds(x)
      BY <1>1, <3>1, <3>2 DEF Holds
    <3> QED
      BY <1>1, <3>1, <3>2, <3>3, CallerMoves
  <2>2. CASE caller' = [caller EXCEPT ![p] = Idle]
    <3>1. caller[p].pc \in {"check", "see"}
      BY <1>3 DEF RetryCheck, EagerSee
    <3> QED
      BY <1>1, <2>2, <3>1, IdleFacts, CallerMoves
  <2> QED
    BY <1>3, <2>1, <2>2 DEF RetryCheck, EagerSee
<1>4. CASE UseDone(p)
  <2>1. caller[p].pc = "got" /\ caller' = [caller EXCEPT ![p] = Idle]
    BY <1>4 DEF UseDone
  <2> QED
    BY <1>1, <2>1, IdleFacts, CallerMoves
<1>5. CASE Request(p, c)
  <2>1. caller[p].pc = "idle" /\ caller' = [caller EXCEPT ![p] = At("lookup", "use", c)]
    BY <1>5, IdleFacts DEF Request
  <2>2. At("lookup", "use", c) \in CallerType
    BY AtType DEF PCs, Kinds
  <2>3. Holds(At("lookup", "use", c)) /\ At("lookup", "use", c).pc = "lookup"
    BY DEF At, Holds
  <2> QED
    BY <1>1, <2>1, <2>2, <2>3, CallerMoves
<1> QED
  BY <1>2, <1>3, <1>4, <1>5

-----------------------------------------------------------------------------
(* Steps that select, park, promote and evict.                             *)

\* Runtimes stop, callers that build nothing move, and the pool is refiled;
\* what is left to show is that the selection is served and silences the rest.
LEMMA Refile ==
  ASSUME Inv, TypeOK',
         of' = of,
         \A r \in Runtimes :
           life'[r] = life[r] \/ (life[r] = "live" /\ life'[r] = "stopped"),
         \A q \in Callers :
           \/ caller'[q] = caller[q]
           \/ /\ Holds(caller'[q])
              /\ caller[q].pc \notin {"build", "built"}
              /\ caller'[q].pc \notin {"build", "built"},
         \A c \in Contexts : pool'[c] # NoRt => life[pool'[c]] # "free",
         ConnOK',
         \A r \in gate' : life'[r] \in {"started", "live"} => r = conn' \/ (r \in gate /\ r # conn)
  PROVE  Inv'
<1> USE DEF Inv
<1>1. \A q \in Callers : caller'[q].rt \in Runtimes \cup {NoRt}
  BY DEF TypeOK
<1>2. CallersOK'
  <2>1. ASSUME NEW q \in Callers PROVE Holds(caller[q])'
    <3> DEFINE x == caller'[q]
    <3>1. Holds(x) /\ x.rt \in Runtimes \cup {NoRt}
      BY <1>1 DEF CallersOK
    <3>2. x.rt # NoRt => \/ life'[x.rt] = life[x.rt]
                         \/ life[x.rt] = "live" /\ life'[x.rt] = "stopped"
      BY <3>1
    <3> QED
      BY <3>1, <3>2 DEF Holds
  <2> QED
    BY <2>1 DEF CallersOK
<1>3. \A q \in Callers, r \in Runtimes : Builds(q, r)' <=> Builds(q, r)
  BY DEF Builds
<1>4. BuildersOK'
  BY <1>3 DEF BuildersOK
<1>5. PoolOK'
  BY DEF PoolOK, TypeOK
<1>6. OnlyActiveBroadcasts'
  <2>1. ASSUME NEW r \in gate', life'[r] \in {"started", "live"}, r # conn'
        PROVE  \E q \in Callers : caller'[q].pc = "built" /\ caller'[q].rt = r
    <3>1. r \in gate /\ r # conn /\ r \in Runtimes
      BY <2>1 DEF TypeOK
    <3>2. life[r] \in {"started", "live"}
      BY <2>1, <3>1
    <3>3. PICK q \in Callers : caller[q].pc = "built" /\ caller[q].rt = r
      BY <3>1, <3>2 DEF OnlyActiveBroadcasts
    <3> QED
      BY <3>3
  <2> QED
    BY <2>1 DEF OnlyActiveBroadcasts
<1> QED
  BY <1>2, <1>4, <1>5, <1>6

\* SwitchEnd, RetryEnd: a caller gives its runtime up, or has it promoted.
LEMMA PromoteSteps ==
  ASSUME Inv, NEW p \in Callers, SwitchEnd(p) \/ RetryEnd(p)
  PROVE  Inv'
<1> USE DEF Inv
<1> DEFINE c == caller[p].ctx
           r == caller[p].rt
<1>1. /\ caller[p] \in CallerType /\ Holds(caller[p]) /\ caller[p].pc = "got"
      /\ UNCHANGED <<active, life, of, proxy, known, agents, panic>>
  BY DEF SwitchEnd, RetryEnd, TypeOK, CallerType, CallersOK
<1>2. PICK x \in CallerType :
        Holds(x) /\ x.pc \in {"idle", "check"} /\ caller' = [caller EXCEPT ![p] = x]
  <2>1. CASE caller' = [caller EXCEPT ![p] = Idle]
    BY <2>1, IdleFacts
  <2>2. CASE caller' = [caller EXCEPT ![p].pc = "check"] /\ r = NoRt
    <3> DEFINE x == [caller[p] EXCEPT !.pc = "check"]
    <3>1. caller' = [caller EXCEPT ![p] = x]
      BY <2>2 DEF TypeOK
    <3>2. x \in CallerType /\ x.pc = "check" /\ x.rt = NoRt /\ x.ctx = c
      BY <1>1, <2>2 DEF CallerType, PCs
    <3> HIDE DEF x
    <3>3. Holds(x)
      BY <1>1, <3>2 DEF Holds
    <3> QED
      BY <3>1, <3>2, <3>3
  <2> QED
    BY <2>1, <2>2 DEF SwitchEnd, RetryEnd
<1>3. CASE UNCHANGED <<conn, gate, pool, parked>>
  BY <1>1, <1>2, <1>3, CallerMoves DEF TypeOK
<1>4. CASE r # NoRt /\ Promote(p) /\ active = c /\ conn = NoRt
  <2>1. /\ conn' = r /\ gate' = gate \cup {r} /\ pool' = [pool EXCEPT ![c] = NoRt]
        /\ parked' = parked \ {c}
    BY <1>4 DEF Promote
  <2>2. r \in Runtimes /\ c \in Contexts /\ of[r] = c /\ life[r] \in {"live", "stopped"}
    BY <1>1, <1>4 DEF Holds, CallerType
  <2>3. /\ pool' \in [Contexts -> Runtimes \cup {NoRt}] /\ pool'[c] = NoRt
        /\ \A d \in Contexts \ {c} : pool'[d] = pool[d]
    BY <2>1, <2>2 DEF TypeOK
  <2>4. /\ caller' \in [Callers -> CallerType] /\ caller'[p] = x
        /\ \A q \in Callers \ {p} : caller'[q] = caller[q]
    BY <1>2 DEF TypeOK, CallerType
  <2>5. TypeOK'
    BY <1>1, <2>1, <2>2, <2>3, <2>4 DEF TypeOK, CallerType
  <2>6. \A d \in Contexts : pool'[d] # NoRt => life[pool'[d]] # "free"
    BY <2>3 DEF PoolOK
  <2>7. \A d \in Contexts : pool'[d] # r
    BY <2>2, <2>3 DEF TypeOK
  <2>8. ConnOK'
    BY <1>1, <1>4, <2>1, <2>2, <2>7 DEF ConnOK
  <2>9. \A q \in Callers :
          \/ caller'[q] = caller[q]
          \/ /\ Holds(caller'[q])
             /\ caller[q].pc \notin {"build", "built"}
             /\ caller'[q].pc \notin {"build", "built"}
    BY <1>1, <1>2, <2>4
  <2>10. \A s \in gate' : s = conn' \/ (s \in gate /\ s # conn)
    BY <1>4, <2>1 DEF TypeOK
  <2> QED
    BY <1>1, <2>5, <2>6, <2>8, <2>9, <2>10, Refile
<1> QED
  BY <1>3, <1>4 DEF SwitchEnd, RetryEnd, Promote

\* What StopRuntimes leaves of the runtimes' lives.
LEMMA Stopping ==
  ASSUME TypeOK, NEW rs, StopRuntimes(rs)
  PROVE  /\ life' \in [Runtimes -> Lives]
         /\ panic' \in BOOLEAN
         /\ \A r \in Runtimes :
              life'[r] = life[r] \/ (life[r] = "live" /\ life'[r] = "stopped")
BY DEF TypeOK, StopRuntimes, Lives

LEMMA ClearedPool ==
  ASSUME NEW pl \in [Contexts -> Runtimes \cup {NoRt}], NEW cs
  PROVE  /\ Cleared(pl, cs) \in [Contexts -> Runtimes \cup {NoRt}]
         /\ \A d \in Contexts : Cleared(pl, cs)[d] \in {pl[d], NoRt}
BY DEF Cleared

LEMMA TearDownSteps ==
  ASSUME Inv, NEW c \in Contexts, MetricsHello(c) \/ Remove(c)
  PROVE  Inv'
<1> USE DEF Inv
<1>1. /\ TearDown(c) /\ UNCHANGED <<of, gate, caller, agents>>
      /\ proxy' \subseteq ProxyContexts /\ known' \subseteq Contexts
      /\ active' = active \/ (active = c /\ active' = NoCtx)
  BY DEF MetricsHello, Remove, TypeOK
<1>2. /\ pool' \in [Contexts -> Runtimes \cup {NoRt}]
      /\ \A d \in Contexts : pool'[d] \in {pool[d], NoRt}
      /\ parked' \subseteq Contexts
      /\ conn' = IF active = c THEN NoRt ELSE conn
  BY <1>1 DEF TearDown, TypeOK
<1>3. PICK rs : StopRuntimes(rs)
  BY <1>1 DEF TearDown
<1>4. /\ life' \in [Runtimes -> Lives] /\ panic' \in BOOLEAN
      /\ \A r \in Runtimes :
           life'[r] = life[r] \/ (life[r] = "live" /\ life'[r] = "stopped")
  BY <1>3, Stopping
<1>5. TypeOK'
  BY <1>1, <1>2, <1>4 DEF TypeOK
<1>6. \A d \in Contexts : pool'[d] # NoRt => life[pool'[d]] # "free"
  BY <1>2 DEF PoolOK
<1>7. ConnOK'
  BY <1>1, <1>2, <1>4 DEF ConnOK, TypeOK
<1>8. conn \in gate => \/ conn = conn'
                      \/ life'[conn] \notin {"started", "live"}
  <2>1. CASE conn # NoRt /\ active = c
    <3>1. life'[conn] = "stopped"
      BY <1>1, <2>1 DEF TearDown, StopRuntimes, ConnOK, TypeOK
    <3> QED
      BY <3>1
  <2>2. CASE conn = NoRt \/ active # c
    BY <1>2, <2>2 DEF TypeOK
  <2> QED
    BY <2>1, <2>2
<1>9. \A r \in gate' : life'[r] \in {"started", "live"} => r = conn' \/ (r \in gate /\ r # conn)
  BY <1>1, <1>8
<1> QED
  BY <1>1, <1>4, <1>5, <1>6, <1>7, <1>9, Refile

LEMMA ReapStep ==
  ASSUME Inv, NEW idle \in SUBSET Contexts, ReapIdle(idle)
  PROVE  Inv'
<1> USE DEF Inv
<1>1. /\ pool' = Cleared(pool, idle) /\ parked' = parked \ idle
      /\ UNCHANGED <<active, conn, of, gate, caller, proxy, known, agents>>
  BY DEF ReapIdle
<1>2. /\ pool' \in [Contexts -> Runtimes \cup {NoRt}]
      /\ \A d \in Contexts : pool'[d] \in {pool[d], NoRt}
  BY <1>1, ClearedPool DEF TypeOK
<1>3. PICK rs : StopRuntimes(rs)
  BY DEF ReapIdle
<1>4. /\ life' \in [Runtimes -> Lives] /\ panic' \in BOOLEAN
      /\ \A r \in Runtimes :
           life'[r] = life[r] \/ (life[r] = "live" /\ life'[r] = "stopped")
  BY <1>3, Stopping
<1>5. TypeOK'
  BY <1>1, <1>2, <1>4 DEF TypeOK
<1>6. \A d \in Contexts : pool'[d] # NoRt => life[pool'[d]] # "free"
  BY <1>2 DEF PoolOK
<1>7. ConnOK'
  BY <1>1, <1>2, <1>4 DEF ConnOK, TypeOK
<1>8. \A r \in gate' : r = conn' \/ (r \in gate /\ r # conn)
  BY <1>1
<1> QED
  BY <1>1, <1>4, <1>5, <1>6, <1>7, <1>8, Refile

\* switchCluster's first critical section: park, evict, then a hit or a claim.
LEMMA SwitchBeginStep ==
  ASSUME Inv, NEW p \in Callers, NEW c \in Contexts, SwitchBegin(p, c)
  PROVE  Inv'
<1> USE DEF Inv
<1>1. PICK victims \in IF conn = NoRt THEN {{}} ELSE CapVictims(PoolAfterPark, active) :
        LET filed == Cleared(PoolAfterPark, victims)
            hit == filed[c] # NoRt /\ Published(filed[c])
        IN /\ StopRuntimes({PoolAfterPark[d] : d \in victims})
           /\ pool' = IF hit THEN [filed EXCEPT ![c] = NoRt] ELSE filed
           /\ parked' = ((parked \cup (IF conn = NoRt THEN {} ELSE {active})) \ victims)
                        \ (IF hit THEN {c} ELSE {})
           /\ conn' = IF hit THEN filed[c] ELSE NoRt
           /\ gate' = (gate \ {conn}) \cup (IF hit THEN {filed[c]} ELSE {})
           /\ caller' = IF hit THEN caller ELSE [caller EXCEPT ![p] = At("lookup", "switch", c)]
  BY DEF SwitchBegin
<1> DEFINE filed == Cleared(PoolAfterPark, victims)
           hit == filed[c] # NoRt /\ Published(filed[c])
<1>2. active' = c /\ UNCHANGED <<of, proxy, known, agents>> /\ caller[p] = Idle
  BY DEF SwitchBegin
<1>3. /\ PoolAfterPark \in [Contexts -> Runtimes \cup {NoRt}]
      /\ \A d \in Contexts : PoolAfterPark[d] # NoRt =>
           of[PoolAfterPark[d]] = d /\ life[PoolAfterPark[d]] # "free"
  BY DEF PoolAfterPark, ConnOK, TypeOK, PoolOK
<1>4. /\ filed \in [Contexts -> Runtimes \cup {NoRt}]
      /\ \A d \in Contexts : filed[d] # NoRt =>
           of[filed[d]] = d /\ life[filed[d]] # "free"
  BY <1>3, ClearedPool
<1>5. /\ StopRuntimes({PoolAfterPark[d] : d \in victims})
      /\ pool' = IF hit THEN [filed EXCEPT ![c] = NoRt] ELSE filed
      /\ conn' = IF hit THEN filed[c] ELSE NoRt
      /\ gate' = (gate \ {conn}) \cup (IF hit THEN {filed[c]} ELSE {})
      /\ caller' = IF hit THEN caller ELSE [caller EXCEPT ![p] = At("lookup", "switch", c)]
  BY <1>1
<1>6. parked' \subseteq Contexts
  BY <1>1 DEF TypeOK, ConnOK
<1> HIDE DEF filed
<1>7. /\ pool' \in [Contexts -> Runtimes \cup {NoRt}]
      /\ \A d \in Contexts : pool'[d] \in {filed[d], NoRt}
      /\ hit => pool'[c] = NoRt
  BY <1>4, <1>5
<1>8. /\ life' \in [Runtimes -> Lives] /\ panic' \in BOOLEAN
      /\ \A r \in Runtimes :
           life'[r] = life[r] \/ (life[r] = "live" /\ life'[r] = "stopped")
  BY <1>5, Stopping
<1> DEFINE x == At("lookup", "switch", c)
<1>9. x \in CallerType /\ Holds(x) /\ x.pc = "lookup"
  <2>1. x \in CallerType
    BY AtType DEF PCs, Kinds
  <2> QED
    BY <2>1 DEF At, Holds
<1> HIDE DEF x
<1>10. \A q \in Callers :
         /\ \/ caller'[q] = caller[q]
            \/ q = p /\ caller'[q] = x
         /\ caller' \in [Callers -> CallerType]
  BY <1>5, <1>9 DEF TypeOK, CallerType, x
<1>11. caller' \in [Callers -> CallerType]
  BY <1>5, <1>9 DEF TypeOK, CallerType, x
<1>12. conn' \in Runtimes \cup {NoRt} /\ gate' \subseteq Runtimes
  BY <1>4, <1>5 DEF TypeOK
<1>13. \A d \in Contexts : pool'[d] # NoRt => of[pool'[d]] = d /\ life[pool'[d]] # "free"
  BY <1>4, <1>7
<1>14. TypeOK'
  BY <1>2, <1>6, <1>7, <1>8, <1>11, <1>12, <1>13 DEF TypeOK, CallerType
<1>15. ConnOK'
  <2>1. SUFFICES ASSUME conn' # NoRt PROVE ConnOK'
    BY DEF ConnOK
  <2>2. hit /\ conn' = filed[c] /\ conn' \in Runtimes
    BY <1>5, <1>12, <2>1
  <2>3. of[conn'] = c /\ life[conn'] \in {"live", "stopped"}
    BY <1>4, <2>2 DEF Published
  <2>4. life'[conn'] \in {"live", "stopped"}
    BY <1>8, <2>2, <2>3
  <2>5. \A d \in Contexts : pool'[d] # conn'
    BY <1>7, <1>13, <2>1, <2>2, <2>3
  <2> QED
    BY <1>2, <2>3, <2>4, <2>5 DEF ConnOK
<1>16. \A r \in gate' : r = conn' \/ (r \in gate /\ r # conn)
  BY <1>5
<1>17. \A q \in Callers :
         \/ caller'[q] = caller[q]
         \/ /\ Holds(caller'[q])
            /\ caller[q].pc \notin {"build", "built"}
            /\ caller'[q].pc \notin {"build", "built"}
  BY <1>2, <1>9, <1>10, IdleFacts
<1> QED
  BY <1>2, <1>8, <1>13, <1>14, <1>15, <1>16, <1>17, Refile

LEMMA RegistrationSteps ==
  ASSUME Inv, NEW p \in Callers, NEW c \in Contexts,
         Hello(p, c) \/ AddKubeconfig(c) \/ AgentChange(c)
  PROVE  Inv'
<1> USE DEF Inv
<1>1. /\ UNCHANGED <<active, conn, pool, parked, life, of, gate, panic>>
      /\ proxy' \subseteq ProxyContexts /\ known' \subseteq Contexts
      /\ agents' \subseteq ProxyContexts
  BY DEF Hello, AddKubeconfig, AgentChange, TypeOK
<1>2. CASE UNCHANGED caller
  <2>1. TypeOK'
    BY <1>1, <1>2 DEF TypeOK
  <2>2. ConnOK'
    BY <1>1 DEF ConnOK
  <2>3. \A d \in Contexts : pool'[d] # NoRt => life[pool'[d]] # "free"
    BY <1>1 DEF PoolOK
  <2>4. \A r \in gate' : r = conn' \/ (r \in gate /\ r # conn)
    BY <1>1
  <2> QED
    BY <1>1, <1>2, <2>1, <2>2, <2>3, <2>4, Refile
<1>3. ASSUME NEW x \in {At("check", "retry", c), At("see", "use", c)},
             Hello(p, c), caller[p] = Idle, caller' = [caller EXCEPT ![p] = x]
      PROVE  Inv'
  <2>1. x \in CallerType
    BY <1>3, AtType DEF PCs, Kinds
  <2>2. Holds(x) /\ x.pc \in {"check", "see"}
    BY <1>3 DEF At, Holds
  <2>3. UNCHANGED agents
    BY <1>3 DEF Hello
  <2> QED
    BY <1>1, <1>3, <2>1, <2>2, <2>3, IdleFacts, CallerMoves
<1> QED
  BY <1>2, <1>3 DEF Hello, AddKubeconfig, AgentChange

-----------------------------------------------------------------------------
(* The theorems.                                                           *)

LEMMA StepInv == Inv /\ [Next]_vars => Inv'
<1> SUFFICES ASSUME Inv, [Next]_vars PROVE Inv'
  OBVIOUS
<1>1. CASE UNCHANGED vars
  BY <1>1 DEF vars, Inv, TypeOK, CallersOK, Holds, BuildersOK, Builds, PoolOK, ConnOK,
     OnlyActiveBroadcasts
<1>2. ASSUME NEW p \in Callers, CallerStep(p) PROVE Inv'
  <2>1. CASE WaitDone(p) \/ RetryCheck(p) \/ EagerSee(p) \/ UseDone(p)
    <3>1. caller[p].ctx \in Contexts
      BY <2>1 DEF Inv, CallersOK, Holds, WaitDone, RetryCheck, EagerSee, UseDone
    <3> QED
      BY <2>1, <3>1, QuietSteps
  <2> QED
    BY <1>2, <2>1, LookupStep, BuildSteps, PromoteSteps DEF CallerStep
<1>3. ASSUME NEW p \in Callers, NEW c \in Contexts,
             SwitchBegin(p, c) \/ AdoptDefault(p, c) \/ Request(p, c) \/ Hello(p, c)
      PROVE  Inv'
  BY <1>3, SwitchBeginStep, QuietSteps, RegistrationSteps DEF AdoptDefault
<1>4. ASSUME NEW c \in Contexts,
             MetricsHello(c) \/ Remove(c) \/ AddKubeconfig(c) \/ AgentChange(c)
      PROVE  Inv'
  <2>1. CASE MetricsHello(c) \/ Remove(c)
    BY <2>1, TearDownSteps
  <2>2. CASE AddKubeconfig(c) \/ AgentChange(c)
    <3>1. /\ UNCHANGED <<active, conn, pool, parked, life, of, gate, caller, panic>>
          /\ proxy' \subseteq ProxyContexts /\ known' \subseteq Contexts
          /\ agents' \subseteq ProxyContexts
      BY <2>2 DEF AddKubeconfig, AgentChange, Inv, TypeOK
    <3> QED
      BY <3>1 DEF Inv, TypeOK, CallersOK, Holds, BuildersOK, Builds, PoolOK, ConnOK,
         OnlyActiveBroadcasts
  <2> QED
    BY <1>4, <2>1, <2>2
<1>5. ASSUME NEW idle \in SUBSET Contexts, ReapIdle(idle) PROVE Inv'
  BY <1>5, ReapStep
<1> QED
  BY <1>1, <1>2, <1>3, <1>4, <1>5 DEF Next

LEMMA Invariance == Spec => []Inv
BY InitInv, StepInv, PTL DEF Spec

\* Every variable keeps its type, and the pool files a runtime under the
\* context it was built for, whatever the goroutines do.
THEOREM TypeCorrect == Spec => []TypeOK
<1>1. Inv => TypeOK
  BY DEF Inv
<1> QED
  BY <1>1, Invariance, PTL

\* The runtime requests are answered from is the selected context's and is
\* not in the pool, although the build that produced it ran without the mutex
\* (switchCluster, retryAgentProxyConnect, RemoveAgentProxyCluster).
THEOREM ActiveServesItsContextHolds == Spec => []ActiveServesItsContext
<1>1. Inv => ActiveServesItsContext
  BY DEF Inv, ConnOK, ActiveServesItsContext
<1> QED
  BY <1>1, Invariance, PTL

\* A running runtime with an open broadcast gate is the active one or has not
\* been filed by its builder (parkActiveLocked, getOrSpinPooled, Promote).
THEOREM OnlyActiveBroadcastsHolds == Spec => []OnlyActiveBroadcasts
<1>1. Inv => OnlyActiveBroadcasts
  BY DEF Inv
<1> QED
  BY <1>1, Invariance, PTL

\* Nobody waits on the ready channel of a placeholder that has lost its
\* builder, also after the entry was evicted or its key reused.
THEOREM WaiterHasABuilderHolds == Spec => []WaiterHasABuilder
<1>1. Inv => WaiterHasABuilder
  <2> SUFFICES ASSUME Inv, NEW p \in Callers, caller[p].pc = "wait",
                      life[caller[p].rt] \notin {"live", "stopped", "failed"}
               PROVE  \E q \in Callers : /\ caller[q].rt = caller[p].rt
                                         /\ caller[q].pc \in {"build", "built"}
    BY DEF WaiterHasABuilder
  <2>1. /\ caller[p].rt \in Runtimes \cup {NoRt} /\ caller[p].rt # NoRt
        /\ life[caller[p].rt] # "free"
    BY DEF Inv, TypeOK, CallersOK, Holds
  <2>2. life[caller[p].rt] \in {"building", "started"}
    BY <2>1 DEF Inv, TypeOK, Lives
  <2> QED
    BY <2>1, <2>2 DEF Inv, BuildersOK, Builds
<1> QED
  BY <1>1, Invariance, PTL
=============================================================================
