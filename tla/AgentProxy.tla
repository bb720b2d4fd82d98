------------------------------- MODULE AgentProxy -------------------------------
(***************************************************************************)
(* Kubernetes API calls through one connected agent: the goroutines of the *)
(* backend that share the agent's Multiplexor, for the life of one stream. *)
(*                                                                         *)
(*  - the callers of AgentProxyTransport.RoundTrip (one per request),      *)
(*    with the watch pump and the TunnelConn that outlive the call;        *)
(*  - the stream's receive loop, which runs Deliver for every reply;       *)
(*  - whoever runs Agent.Close: the handler returning, the handler that    *)
(*    evicts this agent, or the stuck-agent watchdog.                      *)
(*                                                                         *)
(* The agent's side (packages/agent/internal/proxy/kube_proxy.go) is the   *)
(* order in which it may send the replies to one request.  gRPC keeps that *)
(* order and loses nothing while the stream lives.                         *)
(***************************************************************************)
EXTENDS Multiplexor

CONSTANT NoReq   \* no request: what an idle goroutine works on

ASSUME NoReqAssumption == NoReq \notin Reqs

VARIABLES
  caller,   \* where the goroutine that owns each request is
  outcome,  \* why that goroutine stopped waiting
  got,      \* the messages it has read from its channel
  phase,    \* the agent's side of each request
  sent,     \* how many messages the agent has sent for each request
  rx,       \* the receive loop inside Deliver: [at, req, msg]
  closer    \* the goroutine inside Agent.Close: [at, ids, cur]

vars == <<muxVars, caller, outcome, got, phase, sent, rx, closer>>

CallerAt == {"idle", "registered", "waiting", "tunnel", "handing", "drained",
             "cancel", "closing", "done"}
Outcomes == {"none", "reply", "stream over", "gave up", "send failed",
             "agent closed", "body closed", "local close"}
Phases == {"none", "open", "streaming", "ending", "over"}
RxAt == {"send", "evict", "push", "drain", "delete", "close"}
RxIdle == [at |-> "idle", req |-> NoReq, msg |-> OverflowMsg]
CloserAt == {"up", "no sender", "signalled", "sweep", "done"}

CallTypeOK ==
  /\ caller \in [Reqs -> CallerAt]
  /\ outcome \in [Reqs -> Outcomes]
  /\ got \in [Reqs -> Seq(Msg)]
  /\ phase \in [Reqs -> Phases]
  /\ sent \in [Reqs -> 0 .. MaxMsgs]
RxTypeOK == rx \in {RxIdle} \cup [at : RxAt, req : Reqs, msg : Msg]
CloserTypeOK ==
  \/ closer \in [at : CloserAt, ids : SUBSET Reqs, cur : {NoReq}]
  \/ closer \in [at : {"close"}, ids : SUBSET Reqs, cur : Reqs]

\* Every variable has its type and no channel holds more than its buffer.
TypeOK == MuxTypeOK /\ CallTypeOK /\ RxTypeOK /\ CloserTypeOK

Init ==
  /\ MuxInit
  /\ caller = [r \in Reqs |-> "idle"]
  /\ outcome = [r \in Reqs |-> "none"]
  /\ got = [r \in Reqs |-> <<>>]
  /\ phase = [r \in Reqs |-> "none"]
  /\ sent = [r \in Reqs |-> 0]
  /\ rx = RxIdle
  /\ closer = [at |-> "up", ids |-> {}, cur |-> NoReq]

\* Multiplexor.mu.  Every other critical section is a single step; only
\* terminateWithOverflow keeps the mutex across channel operations.
MuFree == rx.at # "drain"

\* Mutant of SenderUp: Close drops the sender last, after CancelAll.
SenderUpUntilDone == closer.at # "done"
SenderUp == closer.at = "up"
ClosedSignal == closer.at \notin {"up", "no sender"}

\* A panic in any goroutine ends the process.
Alive == panic = "none"

Goto(r, at) == caller' = [caller EXCEPT ![r] = at]
Ended(r, at, why) == Goto(r, at) /\ outcome' = [outcome EXCEPT ![r] = why]

-----------------------------------------------------------------------------
(* RoundTrip, up to the wait.                                              *)

callerOnly == <<got, phase, sent, rx, closer>>

CallRegister(r) ==
  /\ Alive /\ caller[r] = "idle" /\ MuFree
  /\ Register(r)
  /\ Goto(r, "registered")
  /\ UNCHANGED <<outcome, callerOnly>>

\* agent.Send fails once Close dropped the sender, or when the stream itself
\* is broken; then the slot is cancelled.
CallSend(r) ==
  /\ Alive /\ caller[r] = "registered"
  /\ \/ /\ SenderUp
        /\ Goto(r, "waiting")
        /\ phase' = [phase EXCEPT ![r] = "open"]
        /\ UNCHANGED outcome
     \/ Ended(r, "cancel", "send failed") /\ UNCHANGED phase
  /\ UNCHANGED <<muxVars, got, sent, rx, closer>>

\* The pump of a watch returns on the terminal message and hands an event to
\* whoever reads the response body.
WatchReads(r, m) ==
  IF m.kind # "event"
    THEN Ended(r, "done", "stream over")
    ELSE Goto(r, "handing") /\ UNCHANGED outcome

HandshakeReads(r, m) ==
  IF m.kind = "resp101"
    THEN Goto(r, "tunnel") /\ UNCHANGED outcome
    ELSE Ended(r, "cancel", "reply")

\* A reply arrives on the channel of a caller that waits.
CallTake(r) ==
  /\ Alive /\ caller[r] = "waiting"
  /\ ChanTake(r)
  /\ got' = [got EXCEPT ![r] = Append(@, Head(ch[r]))]
  /\ CASE mode[r] = "unary"  -> Ended(r, "done", "reply")
       [] mode[r] = "watch"  -> WatchReads(r, Head(ch[r]))
       [] mode[r] = "tunnel" -> HandshakeReads(r, Head(ch[r]))
  /\ UNCHANGED <<phase, sent, rx, closer>>

\* The user takes what is handed to it.  Until then the goroutine sits in the write
\* to an unbuffered pipe (a watch) or in the send to a full readBytes (a tunnel),
\* deaf to the request's context, to the agent's end and to its own channel.
HandedOver(r) ==
  /\ Alive /\ caller[r] = "handing"
  /\ Goto(r, IF mode[r] = "tunnel" THEN "tunnel" ELSE "waiting")
  /\ UNCHANGED <<muxVars, outcome, callerOnly>>

\* The response body is closed: the write fails, and the pump of the watch returns
\* without releasing the slot.
BodyClosed(r) ==
  /\ Alive /\ caller[r] = "handing" /\ mode[r] = "watch"
  /\ Ended(r, "done", "body closed")
  /\ UNCHANGED <<muxVars, callerOnly>>

\* The channel is closed and drained: "agent disconnected mid-flight".
CallAtEnd(r) ==
  /\ Alive /\ caller[r] = "waiting" /\ AtEnd(r)
  /\ Ended(r, "done", "agent closed")
  /\ UNCHANGED <<muxVars, callerOnly>>

\* ctx.Done() or the request timeout.
CallGiveUp(r) ==
  /\ Alive /\ caller[r] = "waiting"
  /\ Ended(r, "cancel", "gave up")
  /\ UNCHANGED <<muxVars, callerOnly>>

\* <-agent.Closed(): only the tunnel handshake cancels its slot here.
CallAgentClosed(r) ==
  /\ Alive /\ caller[r] = "waiting" /\ ClosedSignal
  /\ Ended(r, IF mode[r] = "tunnel" THEN "cancel" ELSE "done", "agent closed")
  /\ UNCHANGED <<muxVars, callerOnly>>

-----------------------------------------------------------------------------
(* TunnelConn: demuxLoop reads the slot, Close tears the tunnel down.      *)

TunnelEnds == {"eof", "closed", "overflow", "resp", "resp101"}

\* Bytes may find readBytes full; an ack never does.
TunnelTake(r) ==
  /\ Alive /\ caller[r] = "tunnel"
  /\ ChanTake(r)
  /\ got' = [got EXCEPT ![r] = Append(@, Head(ch[r]))]
  /\ IF Head(ch[r]).kind \in TunnelEnds
       THEN Ended(r, "drained", "stream over")
       ELSE UNCHANGED outcome /\ (UNCHANGED caller \/ Goto(r, "handing"))
  /\ UNCHANGED <<phase, sent, rx, closer>>

TunnelAtEnd(r) ==
  /\ Alive /\ caller[r] = "tunnel" /\ AtEnd(r)
  /\ Ended(r, "drained", "agent closed")
  /\ UNCHANGED <<muxVars, callerOnly>>

\* The SPDY layer or the idle watchdog closes the conn, whether or not
\* demuxLoop has ended.
TunnelClose(r) ==
  /\ Alive /\ mode[r] = "tunnel" /\ caller[r] \in {"tunnel", "handing", "drained"}
  /\ IF caller[r] = "drained"
       THEN Goto(r, "cancel") /\ UNCHANGED outcome
       ELSE Ended(r, "cancel", "local close")
  /\ UNCHANGED <<muxVars, callerOnly>>

-----------------------------------------------------------------------------
(* cancel, run by the owner of the request.                                *)

CallCancel(r) ==
  /\ Alive /\ caller[r] = "cancel" /\ MuFree
  /\ CancelDelete(r)
  /\ Goto(r, IF CancelFinds(r) THEN "closing" ELSE "done")
  /\ UNCHANGED <<outcome, callerOnly>>

CallClose(r) ==
  /\ Alive /\ caller[r] = "closing"
  /\ CancelClose(r)
  /\ Goto(r, "done")
  /\ UNCHANGED <<outcome, callerOnly>>

-----------------------------------------------------------------------------
(* The agent's replies and Deliver.                                        *)

\* What the agent may send next for a request: <<kind, phase after it>>.  The
\* two pumps of a tunnel end separately: acks may follow the eof.
Replies(m, p) ==
  CASE m = "unary" /\ p = "open" -> {<<"resp", "over">>}
    [] m = "watch" /\ p = "open" ->
         {<<"event", "open">>, <<"closed", "over">>, <<"resp", "over">>}
    [] m = "tunnel" /\ p = "open" ->
         {<<"resp101", "streaming">>, <<"resp", "over">>}
    [] m = "tunnel" /\ p = "streaming" ->
         {<<"data", "streaming">>, <<"eof", "ending">>, <<"closed", "over">>}
    [] m = "tunnel" /\ p = "ending" -> {<<"data", "ending">>, <<"closed", "over">>}
    [] OTHER -> {}

RxGoto(at) == rx' = IF at = "idle" THEN RxIdle ELSE [rx EXCEPT !.at = at]
\* After the message is placed: a terminal one releases the slot.
AfterSend(r, m) == IF IsTerminal(m.kind, mode[r]) THEN "delete" ELSE "idle"

rxOnly == <<caller, outcome, got, phase, sent, closer>>

\* Deliver begins: the slot is looked up under the mutex, which is released
\* before the message is placed.  Without a slot the message is dropped.
Deliver(r) ==
  /\ Alive /\ rx.at = "idle" /\ sent[r] < MaxMsgs
  /\ \E reply \in Replies(mode[r], phase[r]) :
       /\ phase' = [phase EXCEPT ![r] = reply[2]]
       /\ rx' = IF Routable(r)
                  THEN [at |-> "send", req |-> r,
                        msg |-> [kind |-> reply[1], n |-> sent[r] + 1]]
                  ELSE rx
  /\ sent' = [sent EXCEPT ![r] = @ + 1]
  /\ UNCHANGED <<muxVars, caller, outcome, got, closer>>

\* Mutant of DeliverSend: a saturated tunnel drops its oldest frame, as a
\* watch does.
DeliverSendEvictsAll ==
  /\ Alive /\ rx.at = "send"
  /\ ChanSend(rx.req, rx.msg)
  /\ IF Full(rx.req) /\ rx.req \notin closed /\ mode[rx.req] # "unary"
       THEN RxGoto("evict")
       ELSE RxGoto(AfterSend(rx.req, rx.msg))
  /\ UNCHANGED rxOnly

\* Mutant of DeliverSend: a watch message is sent again after the send that took it.
DeliverSendAgain ==
  /\ Alive /\ rx.at = "send"
  /\ ChanSend(rx.req, rx.msg)
  /\ RxGoto(IF mode[rx.req] = "watch" THEN "push" ELSE AfterSend(rx.req, rx.msg))
  /\ UNCHANGED rxOnly

\* The first, non-blocking send.
DeliverSend ==
  /\ Alive /\ rx.at = "send"
  /\ ChanSend(rx.req, rx.msg)
  /\ IF Full(rx.req) /\ rx.req \notin closed /\ mode[rx.req] # "unary"
       THEN RxGoto(IF mode[rx.req] = "watch" THEN "evict" ELSE "drain")
       ELSE RxGoto(AfterSend(rx.req, rx.msg))
  /\ UNCHANGED rxOnly

\* A saturated watch gives up its oldest event ...
DeliverEvict ==
  /\ Alive /\ rx.at = "evict"
  /\ ChanDropOldest(rx.req)
  /\ RxGoto("push")
  /\ UNCHANGED rxOnly

\* ... and tries again.
DeliverPush ==
  /\ Alive /\ rx.at = "push"
  /\ ChanSend(rx.req, rx.msg)
  /\ RxGoto(AfterSend(rx.req, rx.msg))
  /\ UNCHANGED rxOnly

\* terminateWithOverflow on a saturated tunnel: with the mutex held, empty
\* the buffer one receive at a time, then leave the overflow marker in it.
OverflowSkip ==
  /\ Alive /\ rx.at = "drain" /\ ~Routable(rx.req)
  /\ RxGoto("idle")
  /\ UNCHANGED <<muxVars, rxOnly>>

OverflowDrain ==
  /\ Alive /\ rx.at = "drain" /\ Routable(rx.req) /\ ch[rx.req] # <<>>
  /\ ChanDropOldest(rx.req)
  /\ UNCHANGED <<rx, rxOnly>>

\* Mutant of OverflowMark: the slot is released without the marker.
OverflowNoMark ==
  /\ Alive /\ rx.at = "drain" /\ Routable(rx.req) /\ ch[rx.req] = <<>>
  /\ RxGoto("delete")
  /\ UNCHANGED <<muxVars, rxOnly>>

OverflowMark ==
  /\ Alive /\ rx.at = "drain" /\ Routable(rx.req) /\ ch[rx.req] = <<>>
  /\ ChanSend(rx.req, OverflowMsg)
  /\ RxGoto("delete")
  /\ UNCHANGED rxOnly

DeliverCancel ==
  /\ Alive /\ rx.at = "delete"
  /\ CancelDelete(rx.req)
  /\ RxGoto(IF CancelFinds(rx.req) THEN "close" ELSE "idle")
  /\ UNCHANGED rxOnly

DeliverClose ==
  /\ Alive /\ rx.at = "close"
  /\ CancelClose(rx.req)
  /\ RxGoto("idle")
  /\ UNCHANGED rxOnly

-----------------------------------------------------------------------------
(* Agent.Close, behind its sync.Once.                                      *)

closerOnly == <<caller, outcome, got, phase, sent, rx>>
CloserGoto(at) == closer' = [closer EXCEPT !.at = at]

CloseDropSender ==
  /\ Alive /\ closer.at = "up"
  /\ CloserGoto("no sender")
  /\ UNCHANGED <<muxVars, closerOnly>>

CloseSignal ==
  /\ Alive /\ closer.at = "no sender"
  /\ CloserGoto("signalled")
  /\ UNCHANGED <<muxVars, closerOnly>>

\* Mutant of CloseSnapshot: the slots are forgotten, not cancelled.
CloseNoSnapshot ==
  /\ Alive /\ closer.at = "signalled" /\ MuFree
  /\ closer' = [closer EXCEPT !.at = "sweep", !.ids = {}]
  /\ UNCHANGED <<muxVars, closerOnly>>

\* CancelAll copies the ids under the mutex, then cancels them one by one.
CloseSnapshot ==
  /\ Alive /\ closer.at = "signalled" /\ MuFree
  /\ closer' = [closer EXCEPT !.at = "sweep", !.ids = pending]
  /\ UNCHANGED <<muxVars, closerOnly>>

CloseCancel(r) ==
  /\ Alive /\ closer.at = "sweep" /\ r \in closer.ids /\ MuFree
  /\ CancelDelete(r)
  /\ closer' = [at  |-> IF CancelFinds(r) THEN "close" ELSE "sweep",
                ids |-> closer.ids \ {r},
                cur |-> IF CancelFinds(r) THEN r ELSE NoReq]
  /\ UNCHANGED closerOnly

CloseChan ==
  /\ Alive /\ closer.at = "close"
  /\ CancelClose(closer.cur)
  /\ closer' = [closer EXCEPT !.at = "sweep", !.cur = NoReq]
  /\ UNCHANGED closerOnly

CloseDone ==
  /\ Alive /\ closer.at = "sweep" /\ closer.ids = {}
  /\ CloserGoto("done")
  /\ UNCHANGED <<muxVars, closerOnly>>
-----------------------------------------------------------------------------

\* The steps a goroutine takes by itself once it runs.
CallerStep(r) ==
  \/ CallSend(r) \/ CallTake(r) \/ CallAtEnd(r) \/ CallAgentClosed(r)
  \/ TunnelTake(r) \/ TunnelAtEnd(r)
  \/ CallCancel(r) \/ CallClose(r)
\* What the outside decides: a new call, a context that ends, a message taken, a
\* body or a conn closed.
UserStep(r) ==
  CallRegister(r) \/ CallGiveUp(r) \/ HandedOver(r) \/ BodyClosed(r) \/ TunnelClose(r)

DeliverStep ==
  \/ DeliverSend \/ DeliverEvict \/ DeliverPush
  \/ OverflowSkip \/ OverflowDrain \/ OverflowMark
  \/ DeliverCancel \/ DeliverClose
CloserStep ==
  \/ CloseSignal \/ CloseSnapshot \/ CloseChan \/ CloseDone
  \/ \E r \in Reqs : CloseCancel(r)

Next ==
  \/ \E r \in Reqs : CallerStep(r) \/ UserStep(r) \/ Deliver(r)
  \/ DeliverStep
  \/ CloseDropSender \/ CloserStep

Spec == Init /\ [][Next]_vars

\* A runnable goroutine is eventually scheduled, and a mutex it waits for is
\* eventually granted; the SPDY layer closes a conn whose Read returned EOF.
Fairness ==
  /\ \A r \in Reqs :
       /\ WF_vars(CallerStep(r))
       /\ WF_vars(caller[r] = "drained" /\ TunnelClose(r))
  /\ WF_vars(DeliverStep)
  /\ WF_vars(CloserStep)

FairSpec == Spec /\ Fairness

-----------------------------------------------------------------------------
(* Properties.                                                             *)

\* The goroutine that took the slot out of the map and has yet to close it.
CallerOwns(r) == caller[r] = "closing"
RxOwns(r) == rx.at = "close" /\ rx.req = r
CloserOwns(r) == closer.at = "close" /\ closer.cur = r

\* A slot is not made yet, or in the map with an open channel, or was taken
\* out by exactly one goroutine that will close it, or is closed for good.
\* Three goroutines race to cancel (the caller, Deliver, CancelAll); `delete`
\* under the mutex picks the one that closes.
SlotOwnership ==
  \A r \in Reqs :
    /\ r \in pending => r \notin closed
    /\ CallerOwns(r) \/ RxOwns(r) \/ CloserOwns(r) => r \notin pending \cup closed
    /\ ~(CallerOwns(r) /\ RxOwns(r))
    /\ ~(CallerOwns(r) /\ CloserOwns(r))
    /\ ~(RxOwns(r) /\ CloserOwns(r))
    /\ caller[r] = "idle" =>
         r \notin pending \cup closed /\ ~RxOwns(r) /\ ~CloserOwns(r)

\* No interleaving of the caller's cancel, Deliver's auto-cleanup and
\* CancelAll closes a channel twice: multiplexor.go promises that cancelling
\* again "is safe".
NoDoubleClose == panic # "close of closed channel"

\* One goroutine closes a slot, once.
OneCloser == SlotOwnership /\ NoDoubleClose

\* Nothing the multiplexor does can bring the process down: neither a second
\* close nor a reply that meets a slot being cancelled.  (Refuted: Deliver
\* sends after releasing the mutex, cancel closes after releasing it.)
NeverPanics == panic = "none"

\* When a tunnel's reader sees a clean end of stream it has every byte the
\* agent sent before it, in order: saturation is never silent.  A tunnel that
\* lost frames ends with the overflow marker or a closed channel instead.
CleanEofIsComplete ==
  \A r \in Reqs :
    (\E i \in DOMAIN got[r] : got[r][i].kind = "eof") =>
      \A i \in DOMAIN got[r] : got[r][i].n = i

\* A watch that cannot keep up loses its oldest events, never the newest: while
\* the slot is in the map and Deliver is not in progress, the last message the
\* agent sent has been read or is still in the buffer.  This holds for the
\* terminal message too, so the consumer always learns that the watch ended.
WatchKeepsNewest ==
  \A r \in Reqs :
    LET seen == got[r] \o ch[r]
    IN  mode[r] = "watch" /\ r \in pending /\ rx.at = "idle" /\ sent[r] > 0
          => seen # <<>> /\ seen[Len(seen)].n = sent[r]

\* A caller that finds its channel closed and empty concludes "agent
\* disconnected mid-flight"; it is right: as long as the agent is not being
\* closed, every slot that is released has a last message in its buffer first.
ClosedMeansAgentClosed ==
  \A r \in Reqs : outcome[r] = "agent closed" => ClosedSignal

\* A slot at its limit loses messages by the policy of its mode, and its reader
\* can tell: multiplexor.go:27-58 on what each mode does when it is saturated.
SaturationIsHonest ==
  CleanEofIsComplete /\ WatchKeepsNewest /\ ClosedMeansAgentClosed

\* Once Agent.Close has returned and the calls that were under way have too,
\* no slot is left in the map, also for a call that found the agent before
\* Close and registered after CancelAll took its snapshot: the sender is
\* dropped before the snapshot, so its Send fails and it cancels its own slot.
NoSlotSurvivesClose ==
  closer.at = "done" /\ (\A r \in Reqs : caller[r] \in {"idle", "done"})
    => pending = {}

\* What makes it so: from its snapshot on, Close has every slot in the map on
\* its list, but for those whose owner is about to cancel them itself.
SweepCoversSlots ==
  /\ closer.at \in {"sweep", "close", "done"} =>
       \A r \in pending : r \in closer.ids \/ caller[r] \in {"registered", "cancel"}
  /\ closer.at = "done" => closer.ids = {}

\* Its user does not leave the goroutine of a request with a message for ever.
ReadsOn(r) == []<>(caller[r] # "handing")

\* Agent.Close wakes everybody: whoever is in a call when the agent is closed
\* returns, including a tunnel reader that only watches its own channel.  The one
\* thing it does not get past is a user that neither takes a message nor closes
\* the body or the conn.
CloseWakesEveryCaller ==
  \A r \in Reqs :
    ReadsOn(r) =>
      (closer.at # "up" /\ caller[r] # "idle" ~> caller[r] = "done" \/ panic # "none")

\* What every caller may rely on (module RequestSlots): its slot is opened,
\* released and sealed once, whoever of the three cancels it, and however
\* Deliver interleaves with that its messages come in order, each at most once.
Box(r) ==
  CASE r \in closed -> "sealed"
    [] r \notin closed /\ r \in pending -> "open"
    [] r \notin closed \cup pending /\ caller[r] = "idle" -> "unused"
    [] r \notin closed \cup pending /\ caller[r] # "idle" -> "released"

Boxes == [r \in Reqs |-> Box(r)]

Slots == INSTANCE RequestSlots WITH
  Capacity <- BufferSize, Marker <- OverflowMsg,
  box <- Boxes, queue <- ch, read <- got, down <- ~Alive

KeepsSlotPromise == Slots!Spec
=============================================================================
