-------------------------- MODULE AgentShipper_proofs --------------------------
(***************************************************************************)
(* Proofs about AgentShipper, for a ring of any capacity, collectors of any *)
(* number and cadence, and any timeout.                                    *)
(***************************************************************************)
EXTENDS AgentShipper, TLAPS

\* The assumptions, one constant at a time.
LEMMA Constants ==
  /\ Capacity \in Nat /\ Capacity > 0 /\ BatchSize \in Nat /\ BatchSize > 0
  /\ Collectors \in Nat /\ Cadence \in Nat /\ Cadence > 0
  /\ StallTicks \in Nat /\ StallTicks > 0
BY CapacityAssumption, TimeAssumption

\* What Push leaves in the ring fits into it, whatever it is given.
LEMMA PushedType ==
  ASSUME ring \in 0 .. Capacity, NEW n \in Nat \ {0}
  PROVE  Pushed(n) \in 0 .. Capacity
BY Constants DEF Pushed, Oversized, Overflow

\* The arithmetic of round.
LEMMA RoundType == ASSUME round \in 0 .. Cadence - 1
                   PROVE  (round + 1) % Cadence \in 0 .. Cadence - 1
BY Constants

LEMMA TypeStep == TypeOK /\ [Next]_vars => TypeOK'
<1> SUFFICES ASSUME TypeOK, [Next]_vars PROVE TypeOK'
  OBVIOUS
<1> USE DEF TypeOK
<1>1. CASE Collect
  <2>1. PICK n \in Batches : Push(n)
    BY <1>1 DEF Collect
  <2>2. n \in Nat \ {0}
    BY BatchesAssumption
  <2>3. ring' \in 0 .. Capacity
    BY <2>1, <2>2, PushedType DEF Push
  <2>4. todo' \in 0 .. Collectors
    BY <2>1, Constants DEF Push
  <2>5. dropping' \in BOOLEAN
    BY <2>1 DEF Push
  <2> QED BY <2>1, <2>3, <2>4, <2>5 DEF Push
<1>2. CASE Tick
  <2>1. round' \in 0 .. Cadence - 1
    BY <1>2, RoundType DEF Tick
  <2>2. todo' \in 0 .. Collectors
    BY <1>2, Constants DEF Tick
  <2>3. stalled' \in 0 .. StallTicks
    <3>1. CASE Watching
      BY <1>2, <3>1, Constants DEF Tick, Fires
    <3>2. CASE ~Watching
      BY <1>2, <3>2 DEF Tick
    <3> QED BY <3>1, <3>2
  <2>4. dropping' \in BOOLEAN /\ stream' \in {"ok", "stuck", "broken", "cancelled"}
    BY <1>2 DEF Tick
  <2> QED BY <1>2, <2>1, <2>2, <2>3, <2>4 DEF Tick
<1>3. CASE WriterStep \/ HeartbeatTick
  <2>1. CASE FlushTick
    BY <2>1, Constants DEF FlushTick, collecting
  <2>2. CASE SendReturns \/ SendFails \/ WriterDone \/ HeartbeatTick
    BY <2>2 DEF SendReturns, SendFails, WriterDone, HeartbeatTick, collecting
  <2> QED BY <1>3, <2>1, <2>2 DEF WriterStep
<1>4. CASE Handshake
  <2>1. stalled' \in 0 .. StallTicks
    BY <1>4, Constants DEF Handshake
  <2> QED BY <1>4, <2>1 DEF Handshake
<1>5. CASE HandshakeFails \/ RecvFails \/ RunReturns \/ BackoffEnds
  BY <1>5 DEF HandshakeFails, RecvFails, RunReturns, BackoffEnds, AfterSession, collecting
<1>6. CASE Shutdown \/ Network
  BY <1>6 DEF Shutdown, Network, collecting
<1>7. CASE UNCHANGED vars
  BY <1>7 DEF vars
<1> QED BY <1>1, <1>2, <1>3, <1>4, <1>5, <1>6, <1>7 DEF Next

\* Every reachable state is well typed: in particular no push, of any size, takes
\* the ring over its capacity, and the watchdog's clock stays within its timeout.
THEOREM TypeCorrect == Spec => []TypeOK
<1>1. Init => TypeOK
  <2>1. /\ 0 \in 0 .. Capacity /\ 0 \in 0 .. Cadence - 1
        /\ Collectors \in 0 .. Collectors /\ 0 \in 0 .. StallTicks
    BY Constants
  <2> QED BY <2>1 DEF Init, TypeOK
<1> QED BY <1>1, TypeStep, PTL DEF Spec

\* A writeLoop runs only while its session is live or ending: the ring never has
\* two of them.
THEOREM NoWriterBetweenSessionsHolds == Spec => []NoWriterBetweenSessions
<1>1. Init => NoWriterBetweenSessions
  BY DEF Init, NoWriterBetweenSessions
<1>2. NoWriterBetweenSessions /\ [Next]_vars => NoWriterBetweenSessions'
  <2> SUFFICES ASSUME NoWriterBetweenSessions, [Next]_vars
               PROVE  NoWriterBetweenSessions'
    OBVIOUS
  <2> USE DEF NoWriterBetweenSessions
  <2>1. CASE Collect \/ Tick \/ Shutdown \/ Network \/ UNCHANGED vars
    BY <2>1 DEF Collect, Push, Tick, Shutdown, Network, vars
  <2>2. CASE WriterStep \/ HeartbeatTick
    BY <2>2 DEF WriterStep, FlushTick, SendReturns, SendFails, WriterDone, HeartbeatTick
  <2>3. CASE Handshake \/ HandshakeFails \/ RecvFails \/ RunReturns \/ BackoffEnds
    BY <2>3 DEF Handshake, HandshakeFails, RecvFails, RunReturns, BackoffEnds, AfterSession
  <2> QED BY <2>1, <2>2, <2>3 DEF Next
<1> QED BY <1>1, <1>2, PTL DEF Spec

\* Push agrees with its reference for every batch below the capacity.
THEOREM PushMatchesReferenceHolds == Spec => []PushMatchesReference
<1>1. TypeOK => PushMatchesReference
  BY Constants DEF TypeOK, PushMatchesReference, Pushed, Counted, Oversized, Overflow
<1> QED BY <1>1, TypeCorrect, PTL

\* A batch of at least the capacity, pushed on a ring that is neither empty nor
\* full, is cut to the room that was left although that room was just emptied:
\* less than "the newest tail that fits" (ring.go) is kept, and a batch of exactly
\* the capacity may count a negative number of drops, which wraps droppedTotal.
THEOREM OversizedPushKeepsLess ==
  ASSUME NEW n \in Nat, n >= Capacity, ring \in 1 .. Capacity - 1
  PROVE  /\ Pushed(n) = Capacity - ring
         /\ n = Capacity /\ 3 * ring < Capacity => Counted(n) < 0
BY Constants DEF Pushed, Counted, Oversized, Overflow
=============================================================================
