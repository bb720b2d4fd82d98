------------------------------ MODULE Multiplexor ------------------------------
(***************************************************************************)
(* The per-agent request multiplexor of the backend                        *)
(* (apps/api/internal/agent/channel/multiplexor.go): a map from request id *)
(* to the buffered Go channel on which the caller of that request reads    *)
(* its replies.                                                            *)
(*                                                                         *)
(* Each action below is ONE step that another goroutine can interleave     *)
(* with: a critical section of Multiplexor.mu, or a single operation on a  *)
(* slot's channel, which the code performs with the mutex released.  The   *)
(* goroutines that run these steps in sequence (the stream's receive loop, *)
(* the callers of RoundTrip, Agent.Close) are in module AgentProxy.        *)
(*                                                                         *)
(* A message is [kind, n]: n numbers the messages the agent sent for one   *)
(* request; payloads are left out.                                         *)
(***************************************************************************)
EXTENDS Naturals, Sequences

CONSTANTS
  Reqs,        \* request ids; RoundTrip mints a fresh UUID, so each is used once
  WatchBuf,    \* watchSlotBufferSize (64 in the code)
  TunnelBuf,   \* tunnelSlotBufferSize (256 in the code)
  Mixes,       \* the ways the requests' modes are chosen: a set of functions
  MaxMsgs      \* bound: messages the agent sends for one request

ASSUME BufAssumption == WatchBuf \in Nat \ {0} /\ TunnelBuf \in Nat \ {0}
ASSUME MaxMsgsAssumption == MaxMsgs \in Nat

Modes == {"unary", "watch", "tunnel"}

ASSUME MixesAssumption == Mixes \subseteq [Reqs -> Modes]

\* The message kinds a slot tells apart.  "data" is a KubeStreamData without
\* eof or a KubeStreamAck (they ride the same channel); "resp" a
\* KubeProxyResponse whose status is not 101; "closed" the agent's
\* StreamClosed; "overflow" the StreamClosed{buffer_overflow} made up here.
Kinds == {"resp", "resp101", "event", "data", "eof", "closed", "overflow"}
Msg == [kind : Kinds, n : 0 .. MaxMsgs]
OverflowMsg == [kind |-> "overflow", n |-> 0]

VARIABLES
  mode,     \* the SlotMode each request is registered with
  pending,  \* the keys of Multiplexor.pending
  ch,       \* the buffer of each slot's channel
  closed,   \* the slots whose channel is closed (pendingCall.closed)
  panic     \* the Go runtime panic that ended the process, or "none"

muxVars == <<mode, pending, ch, closed, panic>>

Panics == {"none", "send on closed channel", "close of closed channel"}

MuxInit ==
  /\ mode \in Mixes
  /\ pending = {}
  /\ ch = [r \in Reqs |-> <<>>]
  /\ closed = {}
  /\ panic = "none"

BufferSize(m) ==
  CASE m = "unary" -> 1 [] m = "watch" -> WatchBuf [] m = "tunnel" -> TunnelBuf

IsTerminal(kind, m) ==
  \/ kind \in {"closed", "overflow", "resp"}
  \/ kind = "resp101" /\ m # "tunnel"
  \/ kind = "eof" /\ m = "tunnel"

\* A channel never holds more than the buffer it was made with.
MuxTypeOK ==
  /\ mode \in [Reqs -> Modes]
  /\ pending \subseteq Reqs
  /\ ch \in [Reqs -> Seq(Msg)]
  /\ \A r \in Reqs : Len(ch[r]) <= BufferSize(mode[r])
  /\ closed \subseteq Reqs
  /\ panic \in Panics

Full(r) == Len(ch[r]) >= BufferSize(mode[r])

-----------------------------------------------------------------------------
\* Register: the slot enters the map with an empty, open channel.
Register(r) ==
  /\ pending' = pending \cup {r}
  /\ ch' = [ch EXCEPT ![r] = <<>>]
  /\ UNCHANGED <<mode, closed, panic>>

\* Deliver's lookup under the mutex, and the read of pc.closed after it.
Routable(r) == r \in pending /\ r \notin closed

\* Mutant of ChanSend: no `default:`, the buffer grows without bound.
ChanSendUnbounded(r, m) ==
  /\ ch' = [ch EXCEPT ![r] = Append(@, m)]
  /\ UNCHANGED <<mode, pending, closed, panic>>

\* `select { case pc.ch <- msg: default: }` on a channel that still has room,
\* or that somebody closed in the meantime, which panics even in a select.
ChanSend(r, m) ==
  IF r \in closed
    THEN /\ panic' = "send on closed channel"
         /\ UNCHANGED <<mode, pending, ch, closed>>
    ELSE /\ ch' = [ch EXCEPT ![r] = IF Full(r) THEN @ ELSE Append(@, m)]
         /\ UNCHANGED <<mode, pending, closed, panic>>

\* Mutant of ChanDropOldest: nothing is evicted, the newest message is lost.
ChanDropNothing(r) == r \in Reqs /\ UNCHANGED muxVars

\* `select { case <-ch: default: }`: take the oldest message, if there is one.
ChanDropOldest(r) ==
  /\ ch' = [ch EXCEPT ![r] = IF @ = <<>> THEN @ ELSE Tail(@)]
  /\ UNCHANGED <<mode, pending, closed, panic>>

\* `msg, ok := <-ch` with ok: the reader gets Head(ch[r]).
ChanTake(r) ==
  /\ ch[r] # <<>>
  /\ ch' = [ch EXCEPT ![r] = Tail(@)]
  /\ UNCHANGED <<mode, pending, closed, panic>>

\* `msg, ok := <-ch` with ~ok: the buffer is drained and the channel closed.
AtEnd(r) == ch[r] = <<>> /\ r \in closed

\* Mutant of CancelFinds: cancel without `if !ok { return }`.
CancelAlwaysFinds(r) == r \in Reqs

\* First half of cancel: under the mutex, take the slot out of the map.  Only
\* the goroutine that found it there (CancelFinds) goes on to close it.
CancelFinds(r) == r \in pending
CancelDelete(r) ==
  /\ pending' = pending \ {r}
  /\ UNCHANGED <<mode, ch, closed, panic>>

\* Second half of cancel, with the mutex released: close(pc.ch).
CancelClose(r) ==
  IF r \in closed
    THEN /\ panic' = "close of closed channel"
         /\ UNCHANGED <<mode, pending, ch, closed>>
    ELSE /\ closed' = closed \cup {r}
         /\ UNCHANGED <<mode, pending, ch, panic>>
=============================================================================
