------------------------------ MODULE AgentShipper ------------------------------
(***************************************************************************)
(* The shipping side of the agent: the collectors that push into the ring  *)
(* (buffer/ring.go), the session that drains it over the stream            *)
(* (channel/client.go: Run, writeLoop, stallWatchdog) and the loop that    *)
(* replaces sessions (shipper/shipper.go: Run).                            *)
(*                                                                         *)
(* Samples are counted, not told apart.  Time is counted in ticks of the   *)
(* stall watchdog (10 s): the collectors are started together with one     *)
(* interval, Cadence ticks, and each pushes at most once in it, whenever   *)
(* its collection is done: the looks and the pushes are independent.       *)
(***************************************************************************)
EXTENDS Integers

CONSTANTS
  Capacity,   \* of the ring (50,000)
  BatchSize,  \* of a flush (500)
  Batches,    \* the sizes of what a collector may push
  Collectors, \* collectors on that interval (stats, cAdvisor, NodeStress, self)
  Cadence,    \* stats-interval, in ticks (30 s: 3)
  StallTicks  \* stallWatchdogTimeout, in ticks, rounded up (45 s: 5)

ASSUME CapacityAssumption == {Capacity, BatchSize} \subseteq Nat \ {0}
ASSUME BatchesAssumption == Batches \subseteq Nat \ {0}
ASSUME TimeAssumption == {Collectors, Cadence, StallTicks} \subseteq Nat \ {0}

VARIABLES
  ring,      \* samples in the ring
  dropping,  \* droppedTotal is above the watchdog's lastDropped
  round,     \* ticks since the collectors' tickers last fired
  todo,      \* collectors that have not pushed since
  session,   \* Shipper.Run, and Client.Run within it
  stream,    \* the session's stream, as the agent sees it
  writer,    \* writeLoop: between ticks, inside stream.Send, gone
  stalled,   \* the watchdog: 0 when saturatedSince is zero, else 1 + ticks since
  stop       \* the agent's context has ended

vars == <<ring, dropping, round, todo, session, stream, writer, stalled, stop>>

\* Every variable has its type and the ring is never over its capacity.
TypeOK ==
  /\ ring \in 0 .. Capacity
  /\ dropping \in BOOLEAN
  /\ round \in 0 .. Cadence - 1
  /\ todo \in 0 .. Collectors
  /\ session \in {"dial", "live", "ending", "backoff", "stopped"}
  /\ stream \in {"ok", "stuck", "broken", "cancelled"}
  /\ writer \in {"wait", "send", "exit"}
  /\ stalled \in 0 .. StallTicks
  /\ stop \in BOOLEAN

Init ==
  /\ ring = 0 /\ dropping = FALSE
  /\ round = 0 /\ todo = Collectors
  /\ session = "dial" /\ stream = "cancelled" /\ writer = "exit"
  /\ stalled = 0
  /\ stop = FALSE

-----------------------------------------------------------------------------
(* The ring.                                                               *)

Overflow(n) == ring + n - Capacity

\* Push's first case; since Overflow(n) >= ring, n is at least the capacity.
Oversized(n) == Overflow(n) > 0 /\ Overflow(n) >= ring

\* Mutant of Pushed: the oldest samples are counted as dropped, but kept.
PushedOnTop(n) == ring + n

\* What the ring holds after a push of n samples.
Pushed(n) ==
  CASE Overflow(n) <= 0 -> ring + n
    [] Oversized(n)     -> IF Overflow(n) < n THEN n - Overflow(n) ELSE Capacity
    [] OTHER            -> Capacity

\* Mutant of Counted: an overflow drops the whole batch.
CountedBatch(n) == IF Overflow(n) > 0 THEN n ELSE 0

\* What the push adds to droppedTotal.
Counted(n) ==
  CASE Overflow(n) <= 0 -> 0
    [] Oversized(n)     -> ring + Overflow(n) - Capacity
                             + (IF Overflow(n) < n THEN Overflow(n) ELSE n - Capacity)
    [] OTHER            -> Overflow(n)

\* A collector pushes.  droppedTotal is unsigned: an oversized push may add a
\* negative number and wrap it, so that the comparison may go either way.
Push(n) ==
  /\ ~stop /\ todo > 0
  /\ todo' = todo - 1
  /\ ring' = Pushed(n)
  /\ IF Oversized(n) THEN dropping' \in BOOLEAN
                     ELSE dropping' = (dropping \/ Counted(n) > 0)
  /\ UNCHANGED <<round, session, stream, writer, stalled, stop>>

-----------------------------------------------------------------------------
(* The stall watchdog.                                                     *)

Watching == session = "live" /\ stream # "cancelled"

\* Mutant of Saturated: "current > capacity".
SaturatedOver == ring > Capacity /\ dropping

Saturated == ring = Capacity /\ dropping
Fires == Watching /\ Saturated /\ stalled = StallTicks

\* A tick passes: the watchdog looks at the ring, whatever was pushed since its
\* last look, and may cancel the stream.  The collectors' tickers fire with every
\* Cadence-th one; a collector that is still at its last round skips this one.
Tick ==
  /\ ~stop
  /\ round' = (round + 1) % Cadence
  /\ todo' = IF round' = 0 THEN Collectors ELSE todo
  /\ stream' = IF Fires THEN "cancelled" ELSE stream
  /\ IF Watching
       THEN /\ dropping' = FALSE
            /\ stalled' = IF Saturated /\ ~Fires THEN stalled + 1 ELSE 0
       ELSE UNCHANGED <<dropping, stalled>>
  /\ UNCHANGED <<ring, session, writer, stop>>

-----------------------------------------------------------------------------
(* writeLoop.                                                              *)

collecting == <<dropping, round, todo>>

\* A batch is popped before it is sent: if the Send fails it is lost.
FlushTick ==
  /\ writer = "wait" /\ ring > 0
  /\ ring' = IF ring > BatchSize THEN ring - BatchSize ELSE 0
  /\ writer' = "send"
  /\ UNCHANGED <<collecting, session, stream, stalled, stop>>

HeartbeatTick ==
  /\ writer = "wait"
  /\ writer' = "send"
  /\ UNCHANGED <<ring, collecting, session, stream, stalled, stop>>

SendReturns ==
  /\ writer = "send" /\ stream = "ok"
  /\ writer' = "wait"
  /\ UNCHANGED <<ring, collecting, session, stream, stalled, stop>>

\* A Send that sits in flow control returns when the stream's context ends.
SendFails ==
  /\ writer = "send" /\ stream \in {"broken", "cancelled"}
  /\ writer' = "exit"
  /\ UNCHANGED <<ring, collecting, session, stream, stalled, stop>>

WriterDone ==
  /\ writer = "wait" /\ stream = "cancelled"
  /\ writer' = "exit"
  /\ UNCHANGED <<ring, collecting, session, stream, stalled, stop>>

-----------------------------------------------------------------------------
(* Client.Run, and Shipper.Run around it.                                  *)

\* Hello is sent and Welcome received: writeLoop and the watchdog start.
Handshake ==
  /\ session = "dial" /\ ~stop
  /\ session' = "live" /\ stream' = "ok" /\ writer' = "wait"
  /\ stalled' = 0 /\ dropping' = FALSE
  /\ UNCHANGED <<ring, round, todo, stop>>

\* A failed session is replaced after a wait, unless the agent shuts down.
AfterSession == IF stop THEN "stopped" ELSE "backoff"

\* The stream cannot be opened, or ends before its Welcome.
HandshakeFails ==
  /\ session = "dial"
  /\ session' = AfterSession
  /\ UNCHANGED <<ring, collecting, stream, writer, stalled, stop>>

\* The read loop leaves: Recv failed, or the backend closed the stream.
RecvFails ==
  /\ session = "live" /\ stream \in {"broken", "cancelled"}
  /\ session' = "ending" /\ stream' = "cancelled"
  /\ UNCHANGED <<ring, collecting, writer, stalled, stop>>

\* Mutants of RunReturns: a stream the backend closed is taken for a clean stop;
\* Run does not wait for its writer.
RunStops ==
  /\ session = "ending" /\ writer = "exit"
  /\ session' = "stopped"
  /\ UNCHANGED <<ring, collecting, stream, writer, stalled, stop>>
RunLeavesWriter ==
  /\ session = "ending"
  /\ session' = AfterSession
  /\ UNCHANGED <<ring, collecting, stream, writer, stalled, stop>>

\* Run waits for writeLoop.
RunReturns ==
  /\ session = "ending" /\ writer = "exit"
  /\ session' = AfterSession
  /\ UNCHANGED <<ring, collecting, stream, writer, stalled, stop>>

BackoffEnds ==
  /\ session = "backoff"
  /\ session' = IF stop THEN "stopped" ELSE "dial"
  /\ UNCHANGED <<ring, collecting, stream, writer, stalled, stop>>

\* Mutant of Shutdown: the stream does not inherit the agent's context.
ShutdownLeavesStream ==
  /\ ~stop
  /\ stop' = TRUE
  /\ UNCHANGED <<ring, collecting, session, stream, writer, stalled>>

\* The agent's context ends, and the stream's with it.
Shutdown ==
  /\ ~stop
  /\ stop' = TRUE
  /\ stream' = "cancelled"
  /\ UNCHANGED <<ring, collecting, session, writer, stalled>>

\* The backend stops reading the stream, reads it again, or the stream breaks.
Network ==
  /\ session = "live"
  /\ \/ stream = "ok" /\ stream' = "stuck"
     \/ stream = "stuck" /\ stream' = "ok"
     \/ stream \in {"ok", "stuck"} /\ stream' = "broken"
  /\ UNCHANGED <<ring, collecting, session, writer, stalled, stop>>
-----------------------------------------------------------------------------

Collect == \E n \in Batches : Push(n)
WriterStep == FlushTick \/ SendReturns \/ SendFails \/ WriterDone
Next ==
  \/ Collect \/ Tick \/ WriterStep \/ HeartbeatTick
  \/ Handshake \/ HandshakeFails \/ RecvFails \/ RunReturns \/ BackoffEnds
  \/ Shutdown \/ Network

Spec == Init /\ [][Next]_vars

\* The collectors, the clock and the agent's goroutines go on.  A handshake need
\* not end (Run waits for Welcome without a timeout) unless the agent stops.
Fairness ==
  /\ WF_vars(Collect) /\ WF_vars(Tick) /\ WF_vars(WriterStep)
  /\ WF_vars(stop /\ HandshakeFails)
  /\ WF_vars(RecvFails) /\ WF_vars(RunReturns) /\ WF_vars(BackoffEnds)

FairSpec == Spec /\ Fairness

-----------------------------------------------------------------------------
(* Properties.                                                             *)

\* Push against its reference, for what may be pushed now: a batch below the
\* capacity leaves the newest samples that fit, and droppedTotal grows by exactly
\* what was lost.  (An oversized one does not: see OversizedPushKeepsLess in
\* AgentShipper_proofs.)
PushMatchesReference ==
  \A n \in 1 .. Capacity - 1 :
    /\ Pushed(n) = IF ring + n < Capacity THEN ring + n ELSE Capacity
    /\ Counted(n) = ring + n - Pushed(n)

\* Run "waits for its writer" (<-writerErr): at most one writeLoop drains the
\* ring, and none when no session is up.
NoWriterBetweenSessions == session \in {"dial", "backoff", "stopped"} => writer = "exit"

\* A session that ended, whoever ended it, is replaced unless the agent stops:
\* client.go tells of the bug where "the agent [stopped] shipping FOREVER".
EndedSessionIsReplaced == session = "ending" ~> session = "dial" \/ stop

\* A shutdown is not held up by a Send that sits in flow control.
ShutdownCompletes == stop ~> session = "stopped"

\* The stall watchdog "forces a stream reconnect when the buffer stays saturated AND
\* dropping" (client.go): a Send that is stuck for good ends, unless again and again
\* a look finds no sample dropped since the one before.  The exception is no corner
\* case.  With pushes every 30 s and looks every 10 s, a round whose pushes fall
\* between the same two looks is followed by quiet looks, each of which starts the
\* 45 s anew: such an agent is never reconnected.
QuietLook == Tick /\ Watching /\ ~dropping
StalledSessionEnds == <>[](stream = "stuck") => []<><<QuietLook>>_vars
=============================================================================
