------------------------------- MODULE TunnelFlow -------------------------------
(***************************************************************************)
(* One exec or port-forward tunnel after its 101 handshake: the TunnelConn *)
(* of the backend (channel/tunnel.go) and the tunnelSession of the agent   *)
(* (agent/internal/proxy/tunnel.go), which carry bytes both ways over the  *)
(* agent's stream with a credit window per direction.                      *)
(*                                                                         *)
(*   SPDY layer -> Write -> down -> inbound -> pumpToApiserver -> apiserver*)
(*   SPDY layer <- Read <- readBytes <- demux <- slot <- up <- pumpToBackend*)
(*                                                                         *)
(* A frame is [kind, size]: the bytes themselves are left out, their count *)
(* is what credit is about.  The Multiplexor's slot is coarser than in     *)
(* AgentProxy: delivering a frame, with all its consequences, is one step. *)
(***************************************************************************)
EXTENDS Naturals, Sequences

CONSTANTS
  Window,      \* TunnelWindowBytes of the backend: Write's credit
  AgentWindows,\* the values TunnelWindowBytes may have on the agent
  Sizes,       \* the sizes a frame of data may have
  SlotBuf,     \* tunnelSlotBufferSize (256 frames)
  ReadBuf,     \* capacity of TunnelConn.readBytes (32 frames)
  CreditBuf,   \* capacity of TunnelConn.creditCh (32 acks)
  InboundBuf,  \* inboundBufferDepth (64 frames)
  MaxDown,     \* bound: bytes the SPDY layer writes
  MaxUp        \* bound: bytes the apiserver sends

ASSUME WindowAssumption == Window \in Nat \ {0} /\ AgentWindows \subseteq Nat \ {0}
\* Write and pumpToBackend cap a frame by the window.
ASSUME SizesAssumption == Sizes # {} /\ Sizes \subseteq 1 .. Window
ASSUME BufAssumption == {SlotBuf, ReadBuf, CreditBuf, InboundBuf} \subseteq Nat \ {0}
ASSUME MaxAssumption == {MaxDown, MaxUp} \subseteq Nat

VARIABLES
  stream,    \* the agent's gRPC stream
  up, down,  \* frames on the stream, towards the backend and the agent

  \* TunnelConn
  slot,      \* [open, buf]: the Multiplexor slot
  demux,     \* demuxLoop
  readBytes, \* chunks for Read
  readErr,   \* how the read half ended
  reader,    \* what Read last told the SPDY layer
  credit,    \* bytes Write may still send
  creditCh,  \* acks that Write has not taken yet
  writer,    \* [at, n]: the goroutine in Write, and its chunk
  closed,    \* t.closed is closed

  \* tunnelSession
  sess,      \* handleUpgrade, and with it the entry in Handler.tunnels
  done,      \* tunnelSession.done is closed
  inbound,   \* frames for pumpToApiserver
  toApi,     \* [at, n]: pumpToApiserver
  toBackend, \* [at, credit]: pumpToBackend
  watcher,   \* the goroutine of run that closes the conn
  api        \* [open, ended]: the conn: open here, ended by the apiserver

\* History variables, read by properties only: bytes that Write reported as
\* sent, that the apiserver got, that pumpToBackend read, that Read returned.
VARIABLES wrote, arrived, produced, read

wires == <<stream, up, down>>
readSide == <<slot, demux, readBytes, readErr, reader>>
writeSide == <<credit, creditCh, writer>>
session == <<sess, done, inbound, toApi, toBackend, watcher, api>>
history == <<wrote, arrived, produced, read>>
vars == <<wires, readSide, writeSide, closed, session, history>>

Frame(k, n) == [kind |-> k, size |-> n]
Data(n) == Frame("data", n)
Eof == Frame("eof", 0)
Ack(n) == Frame("ack", n)
Frames == [kind : {"data", "ack"}, size : Sizes]
            \cup {Frame(k, 0) : k \in {"eof", "closed", "overflow"}}
DataFrames == {Data(n) : n \in Sizes} \cup {Eof}

BackendTypeOK ==
  /\ slot.open \in BOOLEAN
  /\ slot.buf \in Seq(Frames) /\ Len(slot.buf) <= SlotBuf
  /\ demux \in {"run", "done"}
  /\ readBytes \in Seq(Sizes) /\ Len(readBytes) <= ReadBuf + 1
  /\ readErr \in {"none", "peer eof", "slot closed", "peer closed"}
  /\ reader \in {"reading", "eof", "error"}
  /\ credit \in 0 .. Window
  /\ creditCh \in Seq(Sizes) /\ Len(creditCh) <= CreditBuf
  /\ writer \in [at : {"idle", "reserve", "failed"}, n : Sizes \cup {0}]
  /\ closed \in BOOLEAN
AgentTypeOK ==
  /\ sess \in {"running", "gone"}
  /\ done \in BOOLEAN
  /\ inbound \in Seq(DataFrames) /\ Len(inbound) <= InboundBuf
  /\ toApi \in [at : {"take", "write", "exit"}, n : Sizes \cup {0}]
  /\ toBackend \in [at : {"read", "exit"}, credit : Nat]
  /\ watcher \in {"wait", "exit"}
  /\ api \in [open : BOOLEAN, ended : BOOLEAN]

\* Every variable has its type, no channel is over its capacity, and Write's
\* credit never exceeds the window.
TypeOK ==
  /\ stream \in {"up", "down"}
  /\ up \in Seq(Frames) /\ down \in Seq(DataFrames)
  /\ BackendTypeOK /\ AgentTypeOK
  /\ {wrote, arrived} \subseteq 0 .. MaxDown
  /\ {produced, read} \subseteq 0 .. MaxUp

Init ==
  /\ stream = "up" /\ up = <<>> /\ down = <<>>
  /\ slot = [open |-> TRUE, buf |-> <<>>]
  /\ demux = "run"
  /\ readBytes = <<>> /\ readErr = "none" /\ reader = "reading"
  /\ credit = Window /\ creditCh = <<>>
  /\ writer = [at |-> "idle", n |-> 0]
  /\ closed = FALSE
  /\ sess = "running" /\ done = FALSE /\ inbound = <<>>
  /\ toApi = [at |-> "take", n |-> 0]
  /\ toBackend \in [at : {"read"}, credit : AgentWindows]
  /\ watcher = "wait"
  /\ api = [open |-> TRUE, ended |-> FALSE]
  /\ wrote = 0 /\ arrived = 0 /\ produced = 0 /\ read = 0

Live == stream = "up"

-----------------------------------------------------------------------------
(* Write.                                                                  *)

\* Mutant of Spend: the credit is checked but not taken.
SpendNothing(have, n) == IF n > 0 THEN have ELSE 0

Spend(have, n) == have - n

\* agent.Send of a frame, out of the credit that Write has.  When it fails the
\* credit is not given back.  Write does not look whether the conn is closed.
SendFrame(have, n) ==
  /\ credit' = Spend(have, n)
  /\ IF Live
       THEN /\ down' = Append(down, Data(n))
            /\ wrote' = wrote + n
            /\ writer' = [at |-> "idle", n |-> 0]
       ELSE /\ writer' = [at |-> "failed", n |-> 0]
            /\ UNCHANGED <<down, wrote>>

writeOnly == <<stream, up, readSide, closed, session, arrived, produced, read>>

\* A frame is sent at once if there is credit for it.
Write(n) ==
  /\ writer.at = "idle" /\ wrote + n <= MaxDown
  /\ IF credit >= n
       THEN SendFrame(credit, n)
       ELSE /\ writer' = [at |-> "reserve", n |-> n]
            /\ UNCHANGED <<down, wrote, credit>>
  /\ UNCHANGED <<creditCh, writeOnly>>

\* reserveCredits waits for acks, until there is enough ...
TakeCredit ==
  /\ writer.at = "reserve" /\ creditCh # <<>>
  /\ creditCh' = Tail(creditCh)
  /\ LET have == credit + Head(creditCh)
     IN  IF have >= writer.n
           THEN SendFrame(have, writer.n)
           ELSE credit' = have /\ UNCHANGED <<down, wrote, writer>>
  /\ UNCHANGED writeOnly

\* ... or until Close.
ReserveFails ==
  /\ writer.at = "reserve" /\ closed
  /\ writer' = [at |-> "failed", n |-> 0]
  /\ UNCHANGED <<down, wrote, credit, creditCh, writeOnly>>

-----------------------------------------------------------------------------
(* demuxLoop and Read.                                                     *)

\* With readBytes full, demuxLoop sits in a push: the chunk it holds is the
\* last of readBytes here, one over the capacity.
Pushing == Len(readBytes) > ReadBuf

DemuxEnds(why) == demux' = "done" /\ readErr' = why

DemuxTake ==
  /\ demux = "run" /\ ~Pushing /\ slot.buf # <<>>
  /\ slot' = [slot EXCEPT !.buf = Tail(@)]
  /\ LET f == Head(slot.buf)
     IN CASE f.kind = "data" ->
               /\ readBytes' = Append(readBytes, f.size)
               /\ UNCHANGED <<demux, readErr, creditCh>>
          [] f.kind = "ack" ->
               \* An ack that finds creditCh full is dropped.
               /\ creditCh' = IF Len(creditCh) < CreditBuf
                                THEN Append(creditCh, f.size) ELSE creditCh
               /\ UNCHANGED <<demux, readBytes, readErr>>
          [] f.kind = "eof" -> DemuxEnds("peer eof") /\ UNCHANGED <<readBytes, creditCh>>
          [] OTHER -> DemuxEnds("peer closed") /\ UNCHANGED <<readBytes, creditCh>>
  /\ UNCHANGED <<wires, reader, credit, writer, closed, session, history>>

\* The slot's channel is closed and drained: recorded as io.EOF.
DemuxSlotClosed ==
  /\ demux = "run" /\ ~Pushing /\ slot.buf = <<>> /\ ~slot.open
  /\ DemuxEnds("slot closed")
  /\ UNCHANGED <<wires, slot, readBytes, reader, writeSide, closed, session, history>>

\* Close ends demuxLoop, and the chunk it holds is lost.
DemuxConnClosed ==
  /\ demux = "run" /\ closed
  /\ DemuxEnds("none")
  /\ readBytes' = IF Pushing THEN SubSeq(readBytes, 1, ReadBuf) ELSE readBytes
  /\ UNCHANGED <<wires, slot, reader, writeSide, closed, session, history>>

ReadChunk ==
  /\ reader = "reading" /\ readBytes # <<>>
  /\ read' = read + Head(readBytes)
  /\ readBytes' = Tail(readBytes)
  /\ UNCHANGED <<wires, slot, demux, readErr, reader, writeSide, closed, session,
                 wrote, arrived, produced>>

\* Read fails once the chunks are drained and demuxLoop has ended; without a
\* recorded error, or with io.EOF, the SPDY layer sees a clean end.
ReadEnds ==
  /\ reader = "reading" /\ readBytes = <<>> /\ demux = "done"
  /\ reader' = IF readErr = "peer closed" THEN "error" ELSE "eof"
  /\ UNCHANGED <<wires, slot, demux, readBytes, readErr, writeSide, closed, session, history>>

ReadConnClosed ==
  /\ reader = "reading" /\ closed
  /\ reader' = "error"
  /\ UNCHANGED <<wires, slot, demux, readBytes, readErr, writeSide, closed, session, history>>

-----------------------------------------------------------------------------
(* Close, behind its sync.Once: the SPDY layer's, or the idle watchdog's.  *)

\* An eof for the peer, if the stream still takes it; close(t.closed); cancel.
Close ==
  /\ ~closed
  /\ closed' = TRUE
  /\ down' = IF Live THEN Append(down, Eof) ELSE down
  /\ slot' = [slot EXCEPT !.open = FALSE]
  /\ UNCHANGED <<stream, up, demux, readBytes, readErr, reader, writeSide, session, history>>

-----------------------------------------------------------------------------
(* The backend's receive loop: Multiplexor.Deliver.                        *)

\* Mutant of Placed: a saturated tunnel loses its oldest frame instead.
PlacedDropsOldest(f) ==
  [open |-> f.kind \notin {"eof", "closed"},
   buf  |-> Append(IF Len(slot.buf) < SlotBuf THEN slot.buf ELSE Tail(slot.buf), f)]

\* The slot after a frame was placed: saturation replaces its contents by the
\* overflow marker, a terminal frame releases it.
Placed(f) ==
  IF Len(slot.buf) < SlotBuf
    THEN [open |-> f.kind \notin {"eof", "closed"}, buf |-> Append(slot.buf, f)]
    ELSE [open |-> FALSE, buf |-> <<Frame("overflow", 0)>>]

Deliver ==
  /\ up # <<>>
  /\ up' = Tail(up)
  /\ slot' = IF slot.open THEN Placed(Head(up)) ELSE slot
  /\ UNCHANGED <<stream, down, demux, readBytes, readErr, reader, writeSide, closed,
                 session, history>>

-----------------------------------------------------------------------------
(* The agent's session.                                                    *)

sessOnly == <<stream, up, readSide, writeSide, closed, sess, toApi, toBackend,
              watcher, api, history>>

\* Mutants of Saturated: the frame is dropped and the session goes on; the queue
\* grows instead.
SaturatedDrops == done' = done /\ inbound' = inbound
SaturatedQueues == done' = done /\ inbound' = Append(inbound, Head(down))

\* A full inbound queue ends the session; the frame is lost.
Saturated == done' = TRUE /\ inbound' = inbound

\* HandleKubeStreamData, on the agent's read loop.
HandleKubeStreamData ==
  /\ down # <<>>
  /\ down' = Tail(down)
  /\ IF sess = "gone"
       THEN UNCHANGED <<inbound, done>>
       ELSE \/ /\ Len(inbound) < InboundBuf
               /\ inbound' = Append(inbound, Head(down))
               /\ UNCHANGED done
            \/ done /\ UNCHANGED <<inbound, done>>
            \/ Len(inbound) = InboundBuf /\ ~done /\ Saturated
  /\ UNCHANGED sessOnly

toApiOnly == <<stream, down, readSide, writeSide, closed, sess, done, toBackend,
               watcher, produced, read, wrote>>
ToApiGoto(step, n) == toApi' = [at |-> step, n |-> n]

\* pumpToApiserver takes a frame; an eof ends it (and half-closes the conn).
ToApiTake ==
  /\ toApi.at = "take" /\ inbound # <<>>
  /\ inbound' = Tail(inbound)
  /\ IF Head(inbound) = Eof
       THEN ToApiGoto("exit", 0)
       ELSE ToApiGoto("write", Head(inbound).size)
  /\ UNCHANGED <<up, api, arrived, toApiOnly>>

ToApiDone ==
  /\ toApi.at = "take" /\ (done \/ ~Live)
  /\ ToApiGoto("exit", 0)
  /\ UNCHANGED <<up, inbound, api, arrived, toApiOnly>>

ToApiWrite ==
  /\ toApi.at = "write" /\ api.open
  /\ arrived' = arrived + toApi.n
  /\ up' = IF Live THEN Append(up, Ack(toApi.n)) ELSE up
  /\ ToApiGoto("take", 0)
  /\ UNCHANGED <<inbound, api, toApiOnly>>

ToApiWriteFails ==
  /\ toApi.at = "write" /\ (~api.open \/ api.ended)
  /\ ToApiGoto("exit", 0)
  /\ UNCHANGED <<up, inbound, api, arrived, toApiOnly>>

toBackendOnly == <<stream, down, readSide, writeSide, closed, sess, done, inbound,
                   toApi, watcher, api, wrote, arrived, read>>
\* pumpToBackend reads what the apiserver sent, at most its credit, and sends
\* it on; a failed Send ends the pump.
ToBackendRead(n) ==
  /\ toBackend.at = "read" /\ n <= toBackend.credit
  /\ api.open /\ ~api.ended /\ produced + n <= MaxUp
  /\ toBackend' = [at |-> IF Live THEN "read" ELSE "exit", credit |-> toBackend.credit - n]
  /\ produced' = produced + n
  /\ up' = IF Live THEN Append(up, Data(n)) ELSE up
  /\ UNCHANGED toBackendOnly

\* conn.Read fails, because the apiserver ended or the conn was closed here:
\* both are reported as eof.
ToBackendReadEnds ==
  /\ toBackend.at = "read" /\ toBackend.credit > 0 /\ (api.ended \/ ~api.open)
  /\ toBackend' = [toBackend EXCEPT !.at = "exit"]
  /\ up' = IF Live THEN Append(up, Eof) ELSE up
  /\ UNCHANGED <<produced, toBackendOnly>>

\* Out of credit, it waits for acks; no code of the backend sends any.
OutOfCredit == toBackend.at = "read" /\ toBackend.credit = 0
ToBackendDone ==
  /\ OutOfCredit /\ (done \/ ~Live)
  /\ toBackend' = [toBackend EXCEPT !.at = "exit"]
  /\ UNCHANGED <<up, produced, toBackendOnly>>

\* Mutant of Watch: the watcher ends without closing the conn.
WatchOnly ==
  /\ watcher = "wait" /\ (done \/ ~Live)
  /\ watcher' = "exit"
  /\ UNCHANGED <<wires, readSide, writeSide, closed, sess, done, inbound, toApi,
                 toBackend, api, history>>

\* The watcher of run: wakes the pump that sits in conn.Read.
Watch ==
  /\ watcher = "wait" /\ (done \/ ~Live)
  /\ watcher' = "exit"
  /\ api' = [api EXCEPT !.open = FALSE]
  /\ UNCHANGED <<wires, readSide, writeSide, closed, sess, done, inbound, toApi,
                 toBackend, history>>

\* run returns when its three goroutines have; handleUpgrade sends the final
\* StreamClosed, closes the conn and drops the session.
SessionReturns ==
  /\ sess = "running"
  /\ toApi.at = "exit" /\ toBackend.at = "exit" /\ watcher = "exit"
  /\ sess' = "gone"
  /\ done' = TRUE
  /\ api' = [api EXCEPT !.open = FALSE]
  /\ up' = IF Live THEN Append(up, Frame("closed", 0)) ELSE up
  /\ UNCHANGED <<stream, down, readSide, writeSide, closed, inbound, toApi, toBackend,
                 watcher, history>>

-----------------------------------------------------------------------------
(* The apiserver, and the stream.                                          *)

ApiserverEnds ==
  /\ api.open /\ ~api.ended
  /\ api' = [api EXCEPT !.ended = TRUE]
  /\ UNCHANGED <<wires, readSide, writeSide, closed, sess, done, inbound, toApi,
                 toBackend, watcher, history>>

\* The stream breaks: what is on it is lost, and the agent's context ends.
StreamBreaks ==
  /\ Live
  /\ stream' = "down" /\ up' = <<>> /\ down' = <<>>
  /\ UNCHANGED <<readSide, writeSide, closed, session, history>>

\* The backend's handler returns, and Agent.Close cancels the slot.
AgentClose ==
  /\ ~Live /\ slot.open
  /\ slot' = [slot EXCEPT !.open = FALSE]
  /\ UNCHANGED <<wires, demux, readBytes, readErr, reader, writeSide, closed,
                 session, history>>
-----------------------------------------------------------------------------

WriterStep == TakeCredit \/ ReserveFails
DemuxStep == DemuxTake \/ DemuxSlotClosed \/ DemuxConnClosed
ReaderStep == ReadChunk \/ ReadEnds \/ ReadConnClosed
ToApiStep == ToApiTake \/ ToApiDone \/ ToApiWriteFails
ToBackendStep == ToBackendReadEnds \/ ToBackendDone
ReceiveStep == Deliver \/ HandleKubeStreamData \/ AgentClose
\* What the users of the tunnel and the network decide.
Environment ==
  \/ \E n \in Sizes : Write(n) \/ ToBackendRead(n)
  \/ Close \/ ToApiWrite \/ ApiserverEnds \/ StreamBreaks

Next ==
  \/ WriterStep \/ DemuxStep \/ ReaderStep
  \/ ToApiStep \/ ToBackendStep \/ Watch \/ SessionReturns
  \/ ReceiveStep \/ Environment

Spec == Init /\ [][Next]_vars

\* Runnable goroutines run; what is on a live stream arrives; the SPDY layer
\* closes the conn once Read has failed.
Fairness ==
  /\ WF_vars(WriterStep) /\ WF_vars(DemuxStep) /\ WF_vars(ReaderStep)
  /\ WF_vars(reader # "reading" /\ Close)
  /\ WF_vars(ToApiStep) /\ WF_vars(ToBackendStep)
  /\ WF_vars(Watch) /\ WF_vars(SessionReturns)
  /\ WF_vars(Deliver) /\ WF_vars(HandleKubeStreamData) /\ WF_vars(AgentClose)

FairSpec == Spec /\ Fairness

-----------------------------------------------------------------------------
(* Properties.                                                             *)

\* The sum of a sequence of numbers, as a function of its prefixes.
Total(sizes) ==
  LET sum[i \in 0 .. Len(sizes)] == IF i = 0 THEN 0 ELSE sum[i - 1] + sizes[i]
  IN  sum[Len(sizes)]
\* The bytes that the frames of one kind carry.
Bytes(kind, frames) ==
  Total([i \in 1 .. Len(frames) |-> IF frames[i].kind = kind THEN frames[i].size ELSE 0])

\* Write is never more than a window ahead of the apiserver: the credit it has,
\* what it sent and the apiserver has not got, be it under way or lost, and the
\* acks that come back do not exceed it.  No byte is acked twice, sent without
\* credit, or refunded before it arrived.
\* tunnel.go relies on it: "Healthy peer never produces credit > window".
CreditWithinWindow ==
  LET coming == Bytes("ack", up) + Bytes("ack", slot.buf) + Total(creditCh)
  IN  credit + wrote + coming <= Window + arrived

\* While the session runs undisturbed, every byte that Write reported as sent
\* has reached the apiserver or is on its way there: saturation loses bytes
\* only together with the session.
NothingLostInSession ==
  LET underWay == Bytes("data", down) + Bytes("data", inbound)
                    + toApi.n
  IN  Live /\ ~done /\ toApi.at # "exit" => wrote = arrived + underWay

\* When Read ends with the agent's eof, it has returned every byte that
\* pumpToBackend took from the conn, however the slot was squeezed.
PeerEofIsComplete ==
  reader = "eof" /\ readErr = "peer eof" => read = produced

\* The end of the stream, or a saturated session, reaches both ends: the agent's
\* session ends though a pump sits in conn.Read or conn.Write, and the backend's
\* Read and Write return though neither Agent.Close nor the agent wakes a writer
\* that waits for credit: Read's end leads to Close, and Close wakes it.
TeardownReachesBothEnds ==
  done \/ ~Live ~> sess = "gone" /\ reader # "reading" /\ writer.at # "reserve"

\* What both users of a tunnel may rely on (module TunnelPipe), whatever is
\* queued, lost, saturated, closed or broken on the way.
Verdict ==
  IF reader = "reading" THEN "reading"
  ELSE IF reader = "eof" /\ readErr = "peer eof" THEN "complete" ELSE "short"

Pipe == INSTANCE TunnelPipe WITH
  drained <- toBackend.at = "exit", verdict <- Verdict

KeepsPipePromise == Pipe!Spec
=============================================================================
