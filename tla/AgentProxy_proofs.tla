--------------------------- MODULE AgentProxy_proofs ---------------------------
(***************************************************************************)
(* Theorems about AgentProxy, for any set of requests, any mix of modes    *)
(* and any buffer sizes: its types, who closes a channel, what is left     *)
(* after Close, that it implements RequestSlots, and what a saturated      *)
(* buffer leaves behind.                                                   *)
(***************************************************************************)
EXTENDS AgentProxy, Integers, TLAPS

USE BufAssumption, MaxMsgsAssumption, MixesAssumption, NoReqAssumption

-----------------------------------------------------------------------------
(* The steps of the multiplexor preserve its types and its buffer bounds.  *)

LEMMA BufferSizeType == \A m \in Modes : BufferSize(m) \in Nat \ {0}
BY DEF Modes, BufferSize

LEMMA MsgFacts ==
  ASSUME NEW k \in Kinds, NEW n \in 0 .. MaxMsgs
  PROVE  [kind |-> k, n |-> n] \in Msg
BY DEF Msg

LEMMA OverflowMsgType == OverflowMsg \in Msg
BY DEF OverflowMsg, Msg, Kinds

LEMMA InitMux == MuxInit => MuxTypeOK
<1> SUFFICES ASSUME MuxInit PROVE MuxTypeOK
  OBVIOUS
<1>1. mode \in [Reqs -> Modes]
  BY DEF MuxInit
<1>2. ASSUME NEW r \in Reqs PROVE Len(ch[r]) <= BufferSize(mode[r])
  <2>1. BufferSize(mode[r]) \in Nat
    BY <1>1, BufferSizeType
  <2>2. ch[r] = <<>>
    BY DEF MuxInit
  <2> QED
    BY <2>1, <2>2
<1> QED
  BY <1>1, <1>2 DEF MuxInit, MuxTypeOK, Panics

LEMMA RegisterType ==
  ASSUME MuxTypeOK, NEW r \in Reqs, Register(r)
  PROVE  MuxTypeOK'
<1>1. ch' \in [Reqs -> Seq(Msg)]
  BY DEF MuxTypeOK, Register
<1>2. \A q \in Reqs : Len(ch'[q]) <= BufferSize(mode'[q])
  BY BufferSizeType DEF MuxTypeOK, Register
<1> QED
  BY <1>1, <1>2 DEF MuxTypeOK, Register

LEMMA ChanSendType ==
  ASSUME MuxTypeOK, NEW r \in Reqs, NEW m \in Msg, ChanSend(r, m)
  PROVE  MuxTypeOK'
<1>1. CASE r \in closed
  BY <1>1 DEF MuxTypeOK, ChanSend, Panics
<1>2. CASE r \notin closed
  <2>1. ch' \in [Reqs -> Seq(Msg)]
    BY <1>2 DEF MuxTypeOK, ChanSend
  <2>2. Len(ch'[r]) <= BufferSize(mode'[r])
    BY <1>2, BufferSizeType DEF MuxTypeOK, ChanSend, Full
  <2>3. \A q \in Reqs \ {r} : ch'[q] = ch[q]
    BY <1>2 DEF MuxTypeOK, ChanSend
  <2> QED
    BY <1>2, <2>1, <2>2, <2>3 DEF MuxTypeOK, ChanSend
<1> QED
  BY <1>1, <1>2

LEMMA ChanTailType ==
  ASSUME MuxTypeOK, NEW r \in Reqs, ch[r] # <<>>,
         ch' = [ch EXCEPT ![r] = Tail(@)],
         UNCHANGED <<mode, pending, closed, panic>>
  PROVE  MuxTypeOK'
<1>1. ch' \in [Reqs -> Seq(Msg)]
  BY DEF MuxTypeOK
<1>2. Len(ch'[r]) <= BufferSize(mode'[r])
  BY BufferSizeType DEF MuxTypeOK
<1>3. \A q \in Reqs \ {r} : ch'[q] = ch[q]
  BY DEF MuxTypeOK
<1> QED
  BY <1>1, <1>2, <1>3 DEF MuxTypeOK

LEMMA ChanTakeType ==
  ASSUME MuxTypeOK, NEW r \in Reqs, ChanTake(r)
  PROVE  MuxTypeOK' /\ Head(ch[r]) \in Msg
<1>1. MuxTypeOK'
  BY ChanTailType DEF ChanTake
<1>2. Head(ch[r]) \in Msg
  BY DEF ChanTake, MuxTypeOK
<1> QED
  BY <1>1, <1>2

LEMMA ChanDropOldestType ==
  ASSUME MuxTypeOK, NEW r \in Reqs, ChanDropOldest(r)
  PROVE  MuxTypeOK'
<1>1. CASE ch[r] = <<>>
  <2>1. ch' = ch
    BY <1>1 DEF ChanDropOldest, MuxTypeOK
  <2> QED
    BY <2>1 DEF ChanDropOldest, MuxTypeOK
<1>2. CASE ch[r] # <<>>
  BY <1>2, ChanTailType DEF ChanDropOldest
<1> QED
  BY <1>1, <1>2

LEMMA CancelType ==
  ASSUME MuxTypeOK, NEW r \in Reqs, CancelDelete(r) \/ CancelClose(r)
  PROVE  MuxTypeOK'
BY DEF MuxTypeOK, CancelDelete, CancelClose, Panics

LEMMA MuxUnchangedType ==
  ASSUME MuxTypeOK, UNCHANGED muxVars
  PROVE  MuxTypeOK'
BY DEF MuxTypeOK, muxVars
-----------------------------------------------------------------------------
(* Type correctness.                                                       *)

LEMMA RxGotoType ==
  ASSUME RxTypeOK, rx.at # "idle", NEW at \in RxAt \cup {"idle"}, RxGoto(at)
  PROVE  RxTypeOK'
<1>1. rx \in [at : RxAt, req : Reqs, msg : Msg]
  BY DEF RxTypeOK, RxIdle
<1>2. CASE at = "idle"
  BY <1>2 DEF RxGoto, RxTypeOK
<1>3. CASE at # "idle"
  BY <1>1, <1>3 DEF RxGoto, RxTypeOK
<1> QED
  BY <1>2, <1>3

LEMMA RxFacts ==
  ASSUME RxTypeOK, rx.at # "idle"
  PROVE  rx.req \in Reqs /\ rx.msg \in Msg
BY DEF RxTypeOK, RxIdle

LEMMA AfterSendType ==
  \A r, m : AfterSend(r, m) \in {"delete", "idle"}
BY DEF AfterSend

LEMMA AppendType ==
  ASSUME NEW f \in [Reqs -> Seq(Msg)], NEW r \in Reqs, NEW m \in Msg
  PROVE  [f EXCEPT ![r] = Append(@, m)] \in [Reqs -> Seq(Msg)]
OBVIOUS

\* What a user may do besides calling.
UserMoves(r) == CallGiveUp(r) \/ HandedOver(r) \/ BodyClosed(r) \/ TunnelClose(r)

LEMMA CallerStepType ==
  ASSUME TypeOK, NEW r \in Reqs, CallerStep(r) \/ UserStep(r)
  PROVE  TypeOK'
<1> USE DEF CallTypeOK, CallerAt, Outcomes, Phases, Goto, Ended
<1>1. CallTypeOK /\ RxTypeOK /\ CloserTypeOK /\ MuxTypeOK
  BY DEF TypeOK
<1>2. UNCHANGED <<rx, closer>> => RxTypeOK' /\ CloserTypeOK'
  BY <1>1 DEF RxTypeOK, CloserTypeOK
<1>3. CASE CallSend(r)
  <2>1. CallTypeOK'
    BY <1>1, <1>3 DEF CallSend
  <2> QED
    BY <1>1, <1>2, <1>3, <2>1, MuxUnchangedType DEF CallSend, TypeOK
<1>4. CASE CallTake(r)
  <2>1. MuxTypeOK' /\ Head(ch[r]) \in Msg
    BY <1>1, <1>4, ChanTakeType DEF CallTake
  <2>2. got' \in [Reqs -> Seq(Msg)]
    BY <1>1, <1>4, <2>1, AppendType DEF CallTake
  <2>3. mode[r] \in Modes
    BY <1>1 DEF MuxTypeOK
  <2>4. caller' \in [Reqs -> CallerAt] /\ outcome' \in [Reqs -> Outcomes]
    BY <1>1, <1>4, <2>3 DEF CallTake, WatchReads, HandshakeReads, Modes
  <2> QED
    BY <1>1, <1>2, <1>4, <2>1, <2>2, <2>4 DEF CallTake, TypeOK
<1>5. CASE CallAtEnd(r) \/ CallAgentClosed(r) \/ CallGiveUp(r) \/ TunnelAtEnd(r)
  <2>1. CallTypeOK'
    BY <1>1, <1>5
       DEF CallAtEnd, CallAgentClosed, CallGiveUp, TunnelAtEnd, callerOnly
  <2>2. UNCHANGED <<muxVars, rx, closer>>
    BY <1>5 DEF CallAtEnd, CallAgentClosed, CallGiveUp, TunnelAtEnd, callerOnly
  <2> QED
    BY <1>1, <1>2, <2>1, <2>2, MuxUnchangedType DEF TypeOK
<1>6. CASE TunnelTake(r)
  <2>1. MuxTypeOK' /\ Head(ch[r]) \in Msg
    BY <1>1, <1>6, ChanTakeType DEF TunnelTake
  <2>2. got' \in [Reqs -> Seq(Msg)]
    BY <1>1, <1>6, <2>1, AppendType DEF TunnelTake
  <2>3. caller' \in [Reqs -> CallerAt] /\ outcome' \in [Reqs -> Outcomes]
    BY <1>1, <1>6 DEF TunnelTake
  <2> QED
    BY <1>1, <1>2, <1>6, <2>1, <2>2, <2>3 DEF TunnelTake, TypeOK
<1>7. CASE TunnelClose(r) \/ HandedOver(r) \/ BodyClosed(r)
  <2>1. CallTypeOK'
    BY <1>1, <1>7 DEF TunnelClose, HandedOver, BodyClosed, callerOnly
  <2>2. UNCHANGED <<muxVars, rx, closer>>
    BY <1>7 DEF TunnelClose, HandedOver, BodyClosed, callerOnly
  <2> QED
    BY <1>1, <1>2, <2>1, <2>2, MuxUnchangedType DEF TypeOK
<1>8. CASE CallCancel(r) \/ CallClose(r)
  <2>1. CallTypeOK'
    BY <1>1, <1>8 DEF CallCancel, CallClose, callerOnly
  <2>2. MuxTypeOK'
    BY <1>1, <1>8, CancelType DEF CallCancel, CallClose
  <2> QED
    BY <1>1, <1>2, <1>8, <2>1, <2>2 DEF CallCancel, CallClose, callerOnly, TypeOK
<1>9. CASE CallRegister(r)
  <2>1. CallTypeOK'
    BY <1>1, <1>9 DEF CallRegister, callerOnly
  <2> QED
    BY <1>1, <1>2, <1>9, <2>1, RegisterType DEF CallRegister, callerOnly, TypeOK
<1> QED
  BY <1>3, <1>4, <1>5, <1>6, <1>7, <1>8, <1>9 DEF CallerStep, UserStep, UserMoves

LEMMA DeliverType ==
  ASSUME TypeOK, NEW r \in Reqs, Deliver(r)
  PROVE  TypeOK'
<1>1. CallTypeOK /\ RxTypeOK /\ CloserTypeOK /\ MuxTypeOK
  BY DEF TypeOK
<1>2. MuxTypeOK'
  BY <1>1, MuxUnchangedType DEF Deliver
<1>3. sent' \in [Reqs -> 0 .. MaxMsgs]
  BY <1>1 DEF CallTypeOK, Deliver
<1>4. PICK reply \in Replies(mode[r], phase[r]) :
        /\ phase' = [phase EXCEPT ![r] = reply[2]]
        /\ rx' = IF Routable(r)
                   THEN [at |-> "send", req |-> r,
                         msg |-> [kind |-> reply[1], n |-> sent[r] + 1]]
                   ELSE rx
  BY DEF Deliver
<1>5. reply[1] \in Kinds /\ reply[2] \in Phases
  BY DEF Replies, Kinds, Phases
<1>6. sent[r] + 1 \in 0 .. MaxMsgs
  BY <1>1 DEF CallTypeOK, Deliver
<1>7. [kind |-> reply[1], n |-> sent[r] + 1] \in Msg
  BY <1>5, <1>6, MsgFacts
<1>8. RxTypeOK'
  BY <1>1, <1>4, <1>7 DEF RxTypeOK, RxAt
<1>9. CallTypeOK'
  BY <1>1, <1>3, <1>4, <1>5 DEF CallTypeOK, Deliver
<1> QED
  BY <1>1, <1>2, <1>8, <1>9 DEF TypeOK, Deliver, CloserTypeOK

LEMMA DeliverStepType ==
  ASSUME TypeOK, DeliverStep
  PROVE  TypeOK'
<1> USE DEF RxAt
<1>1. CallTypeOK /\ RxTypeOK /\ CloserTypeOK /\ MuxTypeOK
  BY DEF TypeOK
<1>2. rx.at # "idle"
  BY DEF DeliverStep, DeliverSend, DeliverEvict, DeliverPush, OverflowSkip,
         OverflowDrain, OverflowMark, DeliverCancel, DeliverClose
<1>3. rx.req \in Reqs /\ rx.msg \in Msg
  BY <1>1, <1>2, RxFacts
<1>4. UNCHANGED rxOnly => CallTypeOK' /\ CloserTypeOK'
  BY <1>1 DEF rxOnly, CallTypeOK, CloserTypeOK
<1>5. CASE DeliverSend
  <2>1. RxTypeOK'
    BY <1>1, <1>2, <1>5, RxGotoType, AfterSendType DEF DeliverSend
  <2> QED
    BY <1>1, <1>3, <1>4, <1>5, <2>1, ChanSendType DEF DeliverSend, TypeOK
<1>6. CASE DeliverEvict
  <2>1. RxTypeOK'
    BY <1>1, <1>2, <1>6, RxGotoType DEF DeliverEvict
  <2> QED
    BY <1>1, <1>3, <1>4, <1>6, <2>1, ChanDropOldestType DEF DeliverEvict, TypeOK
<1>7. CASE DeliverPush
  <2>1. RxTypeOK'
    BY <1>1, <1>2, <1>7, RxGotoType, AfterSendType DEF DeliverPush
  <2> QED
    BY <1>1, <1>3, <1>4, <1>7, <2>1, ChanSendType DEF DeliverPush, TypeOK
<1>8. CASE OverflowSkip
  <2>1. RxTypeOK'
    BY <1>1, <1>2, <1>8, RxGotoType DEF OverflowSkip
  <2> QED
    BY <1>1, <1>4, <1>8, <2>1, MuxUnchangedType DEF OverflowSkip, TypeOK
<1>9. CASE OverflowDrain
  BY <1>1, <1>3, <1>4, <1>9, ChanDropOldestType
     DEF OverflowDrain, TypeOK, RxTypeOK
<1>10. CASE OverflowMark
  <2>1. RxTypeOK'
    BY <1>1, <1>2, <1>10, RxGotoType DEF OverflowMark
  <2> QED
    BY <1>1, <1>3, <1>4, <1>10, <2>1, ChanSendType, OverflowMsgType
       DEF OverflowMark, TypeOK
<1>11. CASE DeliverCancel \/ DeliverClose
  <2>1. RxTypeOK'
    BY <1>1, <1>2, <1>11, RxGotoType DEF DeliverCancel, DeliverClose
  <2> QED
    BY <1>1, <1>3, <1>4, <1>11, <2>1, CancelType
       DEF DeliverCancel, DeliverClose, TypeOK
<1> QED
  BY <1>5, <1>6, <1>7, <1>8, <1>9, <1>10, <1>11 DEF DeliverStep

LEMMA CloseStepType ==
  ASSUME TypeOK, CloseDropSender \/ CloserStep
  PROVE  TypeOK'
<1> USE DEF CloserTypeOK, CloserAt, CloserGoto
<1>1. CallTypeOK /\ RxTypeOK /\ CloserTypeOK /\ MuxTypeOK
  BY DEF TypeOK
<1>2. UNCHANGED closerOnly => CallTypeOK' /\ RxTypeOK'
  BY <1>1 DEF closerOnly, CallTypeOK, RxTypeOK
<1>3. CASE CloseDropSender \/ CloseSignal \/ CloseDone
  <2>1. CloserTypeOK'
    BY <1>1, <1>3 DEF CloseDropSender, CloseSignal, CloseDone
  <2> QED
    BY <1>1, <1>2, <1>3, <2>1, MuxUnchangedType
       DEF CloseDropSender, CloseSignal, CloseDone, TypeOK
<1>4. CASE CloseSnapshot
  <2>1. CloserTypeOK'
    BY <1>1, <1>4 DEF CloseSnapshot, MuxTypeOK
  <2> QED
    BY <1>1, <1>2, <1>4, <2>1, MuxUnchangedType DEF CloseSnapshot, TypeOK
<1>5. ASSUME NEW r \in Reqs, CloseCancel(r) PROVE TypeOK'
  <2>1. CloserTypeOK'
    BY <1>1, <1>5 DEF CloseCancel
  <2> QED
    BY <1>1, <1>2, <1>5, <2>1, CancelType DEF CloseCancel, TypeOK
<1>6. CASE CloseChan
  <2>1. closer.cur \in Reqs /\ CloserTypeOK'
    BY <1>1, <1>6 DEF CloseChan
  <2> QED
    BY <1>1, <1>2, <1>6, <2>1, CancelType DEF CloseChan, TypeOK
<1> QED
  BY <1>3, <1>4, <1>5, <1>6 DEF CloserStep

\* Every variable keeps its type, and no slot's channel ever holds more
\* messages than the buffer Register made it with, whatever the agent sends.
THEOREM TypeCorrect == Spec => []TypeOK
<1>1. Init => TypeOK
  BY InitMux
     DEF Init, TypeOK, CallTypeOK, RxTypeOK, CloserTypeOK, CallerAt, Outcomes,
         Phases, CloserAt
<1>2. TypeOK /\ [Next]_vars => TypeOK'
  <2> SUFFICES ASSUME TypeOK, [Next]_vars PROVE TypeOK'
    OBVIOUS
  <2>1. CASE Next
    BY <2>1, CallerStepType, DeliverType, DeliverStepType, CloseStepType DEF Next
  <2>2. CASE UNCHANGED vars
    BY <2>2, MuxUnchangedType
       DEF vars, TypeOK, CallTypeOK, RxTypeOK, CloserTypeOK
  <2> QED
    BY <2>1, <2>2
<1> QED
  BY <1>1, <1>2, PTL DEF Spec
-----------------------------------------------------------------------------
(* One goroutine closes a slot.  SlotOwnership is inductive: a goroutine    *)
(* becomes the owner only by finding the slot in the map, where, by the     *)
(* induction hypothesis, nobody owns it yet and its channel is open.        *)

LEMMA OwnershipUnchanged ==
  ASSUME SlotOwnership, NoDoubleClose, pending' = pending, closed' = closed,
         panic' # "close of closed channel",
         \A q \in Reqs : /\ caller'[q] = "closing" <=> caller[q] = "closing"
                         /\ caller'[q] = "idle" => caller[q] = "idle",
         rx'.at = "close" => rx' = rx,
         closer'.at = "close" => closer' = closer
  PROVE  OneCloser'
<1>1. \A q \in Reqs : /\ CallerOwns(q)' => CallerOwns(q)
                      /\ RxOwns(q)' => RxOwns(q)
                      /\ CloserOwns(q)' => CloserOwns(q)
  BY DEF CallerOwns, RxOwns, CloserOwns
<1>2. SlotOwnership'
  BY <1>1 DEF SlotOwnership
<1> QED
  BY <1>2 DEF NoDoubleClose, OneCloser

\* What a caller does with a reply depends on its mode, one of three.
LEMMA TakeModes ==
  ASSUME TypeOK, NEW r \in Reqs
  PROVE  mode[r] \in {"unary", "watch", "tunnel"}
BY DEF TypeOK, MuxTypeOK, Modes

LEMMA CallerOwnership ==
  ASSUME TypeOK, OneCloser, NEW r \in Reqs, CallerStep(r) \/ UserStep(r)
  PROVE  OneCloser'
<1> USE DEF OneCloser
<1>1. caller \in [Reqs -> CallerAt]
  BY DEF TypeOK, CallTypeOK
<1>2. CASE CallSend(r) \/ CallTake(r) \/ CallAtEnd(r) \/ CallAgentClosed(r)
           \/ TunnelTake(r) \/ TunnelAtEnd(r) \/ UserMoves(r)
  <2>1. UNCHANGED <<pending, closed, panic, rx, closer>>
    BY <1>2, Zenon DEF CallSend, CallTake, CallAtEnd, CallAgentClosed, TunnelTake,
       TunnelAtEnd, UserMoves, CallGiveUp, HandedOver, BodyClosed, TunnelClose,
       muxVars, callerOnly, ChanTake
  <2>2. \A q \in Reqs \ {r} : caller'[q] = caller[q]
    <3>1. CASE CallTake(r)
      BY <1>1, <3>1, TakeModes DEF CallTake, Goto, Ended, WatchReads, HandshakeReads
    <3>2. CASE ~CallTake(r)
      BY <1>1, <1>2, <3>2 DEF CallSend, CallAtEnd, CallAgentClosed, TunnelTake,
         TunnelAtEnd, UserMoves, CallGiveUp, HandedOver, BodyClosed, TunnelClose,
         Goto, Ended
    <3> QED
      BY <3>1, <3>2
  <2>3. caller[r] \notin {"closing", "idle"} /\ caller'[r] \notin {"closing", "idle"}
    <3>1. CASE CallTake(r)
      BY <1>1, <3>1, TakeModes DEF CallTake, Goto, Ended, WatchReads, HandshakeReads
    <3>2. CASE ~CallTake(r)
      BY <1>1, <1>2, <3>2 DEF CallSend, CallAtEnd, CallAgentClosed, TunnelTake,
         TunnelAtEnd, UserMoves, CallGiveUp, HandedOver, BodyClosed, TunnelClose,
         Goto, Ended
    <3> QED
      BY <3>1, <3>2
  <2> QED
    BY <2>1, <2>2, <2>3, OwnershipUnchanged DEF NoDoubleClose
<1>3. CASE CallCancel(r)
  BY <1>1, <1>3 DEF CallCancel, CancelDelete, CancelFinds, Goto, callerOnly,
     SlotOwnership, NoDoubleClose, CallerOwns, RxOwns, CloserOwns
<1>4. CASE CallClose(r)
  <2>1. r \notin closed
    BY <1>4 DEF CallClose, SlotOwnership, CallerOwns
  <2> QED
    BY <1>1, <1>4, <2>1 DEF CallClose, CancelClose, Goto, callerOnly,
       SlotOwnership, NoDoubleClose, CallerOwns, RxOwns, CloserOwns
<1>5. CASE CallRegister(r)
  BY <1>1, <1>5 DEF CallRegister, Register, Goto, callerOnly,
     SlotOwnership, NoDoubleClose, CallerOwns, RxOwns, CloserOwns
<1> QED
  BY <1>2, <1>3, <1>4, <1>5 DEF CallerStep, UserStep, UserMoves

LEMMA DeliverOwnership ==
  ASSUME TypeOK, OneCloser, (\E r \in Reqs : Deliver(r)) \/ DeliverStep
  PROVE  OneCloser'
<1> USE DEF OneCloser
<1>1. ASSUME NEW r \in Reqs, Deliver(r) PROVE OneCloser'
  <2>1. UNCHANGED <<pending, closed, panic, caller, closer>>
    BY <1>1 DEF Deliver, muxVars
  <2>2. rx'.at # "close" \/ rx' = rx
    BY <1>1 DEF Deliver
  <2> QED
    BY <2>1, <2>2, OwnershipUnchanged DEF NoDoubleClose
<1>2. CASE DeliverSend \/ DeliverEvict \/ DeliverPush \/ OverflowSkip
           \/ OverflowDrain \/ OverflowMark
  <2>1. pending' = pending /\ closed' = closed /\ panic' # "close of closed channel"
    BY <1>2 DEF DeliverSend, DeliverEvict, DeliverPush, OverflowSkip,
       OverflowDrain, OverflowMark, ChanSend, ChanDropOldest, muxVars, NoDoubleClose
  <2>2. UNCHANGED <<caller, closer>>
    BY <1>2 DEF DeliverSend, DeliverEvict, DeliverPush, OverflowSkip,
       OverflowDrain, OverflowMark, rxOnly
  <2>3. rx'.at # "close" \/ rx' = rx
    <3>1. rx \in [at : RxAt, req : Reqs, msg : Msg]
      BY <1>2 DEF TypeOK, RxTypeOK, RxIdle, DeliverSend, DeliverEvict, DeliverPush,
         OverflowSkip, OverflowDrain, OverflowMark
    <3> QED
      BY <1>2, <3>1 DEF DeliverSend, DeliverEvict, DeliverPush, OverflowSkip,
         OverflowDrain, OverflowMark, RxGoto, AfterSend, RxIdle
  <2> QED
    BY <2>1, <2>2, <2>3, OwnershipUnchanged
<1>3. CASE DeliverCancel
  <2>1. rx \in [at : RxAt, req : Reqs, msg : Msg]
    BY <1>3 DEF TypeOK, RxTypeOK, RxIdle, DeliverCancel
  <2>2. IF rx.req \in pending THEN rx'.at = "close" /\ rx'.req = rx.req
                              ELSE rx'.at = "idle"
    BY <1>3, <2>1 DEF DeliverCancel, CancelFinds, RxGoto, RxIdle
  <2>3. pending' = pending \ {rx.req} /\ UNCHANGED <<closed, panic, caller, closer>>
    BY <1>3 DEF DeliverCancel, CancelDelete, rxOnly
  <2> QED
    BY <2>1, <2>2, <2>3
       DEF SlotOwnership, NoDoubleClose, CallerOwns, RxOwns, CloserOwns
<1>4. CASE DeliverClose
  <2>1. rx.req \in Reqs /\ rx'.at = "idle"
    BY <1>4 DEF TypeOK, RxTypeOK, RxIdle, DeliverClose, RxGoto
  <2>2. rx.req \notin closed
    BY <1>4, <2>1 DEF DeliverClose, SlotOwnership, RxOwns
  <2>3. /\ closed' = closed \cup {rx.req}
        /\ UNCHANGED <<pending, panic, caller, closer>>
    BY <1>4, <2>2 DEF DeliverClose, CancelClose, rxOnly
  <2>4. rx.at = "close"
    BY <1>4 DEF DeliverClose
  <2> QED
    BY <2>1, <2>2, <2>3, <2>4
       DEF SlotOwnership, NoDoubleClose, CallerOwns, RxOwns, CloserOwns
<1> QED
  BY <1>1, <1>2, <1>3, <1>4 DEF DeliverStep

LEMMA CloserOwnership ==
  ASSUME TypeOK, OneCloser, CloseDropSender \/ CloserStep
  PROVE  OneCloser'
<1> USE DEF OneCloser
<1>1. CASE CloseDropSender \/ CloseSignal \/ CloseSnapshot \/ CloseDone
  <2>1. closer'.at # "close"
    BY <1>1 DEF CloseDropSender, CloseSignal, CloseSnapshot, CloseDone, CloserGoto,
       TypeOK, CloserTypeOK
  <2>2. UNCHANGED <<pending, closed, panic, caller, rx>>
    BY <1>1 DEF CloseDropSender, CloseSignal, CloseSnapshot, CloseDone, muxVars,
       closerOnly
  <2> QED
    BY <2>1, <2>2, OwnershipUnchanged DEF NoDoubleClose
<1>2. ASSUME NEW r \in Reqs, CloseCancel(r) PROVE OneCloser'
  BY <1>2 DEF CloseCancel, CancelDelete, CancelFinds, closerOnly,
     SlotOwnership, NoDoubleClose, CallerOwns, RxOwns, CloserOwns
<1>3. CASE CloseChan
  <2>1. closer.at = "close" /\ closer.cur \in Reqs /\ closer'.at = "sweep"
    BY <1>3 DEF CloseChan, TypeOK, CloserTypeOK, CloserAt
  <2>2. closer.cur \notin closed
    BY <2>1 DEF SlotOwnership, CloserOwns
  <2>3. /\ closed' = closed \cup {closer.cur}
        /\ UNCHANGED <<pending, panic, caller, rx>>
    BY <1>3, <2>2 DEF CloseChan, CancelClose, closerOnly
  <2> QED
    BY <2>1, <2>2, <2>3
       DEF SlotOwnership, NoDoubleClose, CallerOwns, RxOwns, CloserOwns
<1> QED
  BY <1>1, <1>2, <1>3 DEF CloserStep

\* At every moment at most one of the caller, Deliver and CancelAll is about
\* to close a slot, and that slot is open and out of the map: the process
\* never dies of a second close.
THEOREM OneCloserInvariant == Spec => []OneCloser
<1>1. Init => OneCloser
  BY DEF Init, MuxInit, OneCloser, SlotOwnership, NoDoubleClose, CallerOwns,
     RxOwns, CloserOwns, RxIdle
<1>2. TypeOK /\ OneCloser /\ [Next]_vars => OneCloser'
  <2> SUFFICES ASSUME TypeOK, OneCloser, [Next]_vars PROVE OneCloser'
    OBVIOUS
  <2>1. CASE Next
    BY <2>1, CallerOwnership, DeliverOwnership, CloserOwnership DEF Next
  <2>2. CASE UNCHANGED vars
    BY <2>2 DEF vars, muxVars, OneCloser, SlotOwnership, NoDoubleClose,
       CallerOwns, RxOwns, CloserOwns
  <2> QED
    BY <2>1, <2>2
<1> QED
  BY <1>1, <1>2, TypeCorrect, PTL DEF Spec
-----------------------------------------------------------------------------
(* No slot outlives Close.                                                 *)

LEMMA CallerSweep ==
  ASSUME TypeOK, SweepCoversSlots, NEW r \in Reqs, CallerStep(r) \/ UserStep(r)
  PROVE  SweepCoversSlots'
<1> USE DEF SweepCoversSlots, Goto, Ended
<1>1. caller \in [Reqs -> CallerAt] /\ pending \subseteq Reqs
  BY DEF TypeOK, CallTypeOK, MuxTypeOK
<1>2. CASE CallRegister(r)
  BY <1>1, <1>2 DEF CallRegister, Register, callerOnly
<1>3. CASE CallSend(r)
  BY <1>1, <1>3 DEF CallSend, SenderUp, muxVars
<1>4. CASE CallTake(r)
  <2>1. UNCHANGED <<pending, closer>>
    BY <1>4 DEF CallTake, ChanTake
  <2>2. \A q \in Reqs \ {r} : caller'[q] = caller[q]
    BY <1>1, <1>4, TakeModes DEF CallTake, WatchReads, HandshakeReads
  <2> QED
    BY <1>1, <1>4, <2>1, <2>2 DEF CallTake
<1>5. CASE CallAtEnd(r) \/ CallAgentClosed(r) \/ TunnelTake(r) \/ TunnelAtEnd(r)
           \/ UserMoves(r)
  <2>1. UNCHANGED <<pending, closer>>
    BY <1>5 DEF CallAtEnd, CallAgentClosed, TunnelTake, TunnelAtEnd, UserMoves,
       CallGiveUp, HandedOver, BodyClosed, TunnelClose, muxVars, callerOnly, ChanTake
  <2>2. \A q \in Reqs \ {r} : caller'[q] = caller[q]
    BY <1>1, <1>5 DEF CallAtEnd, CallAgentClosed, TunnelTake, TunnelAtEnd, UserMoves,
       CallGiveUp, HandedOver, BodyClosed, TunnelClose
  <2>3. caller[r] \in {"waiting", "tunnel", "handing", "drained"}
    BY <1>5 DEF CallAtEnd, CallAgentClosed, TunnelTake, TunnelAtEnd, UserMoves,
       CallGiveUp, HandedOver, BodyClosed, TunnelClose
  <2> QED
    BY <1>1, <2>1, <2>2, <2>3
<1>6. CASE CallCancel(r)
  BY <1>1, <1>6 DEF CallCancel, CancelDelete, callerOnly
<1>7. CASE CallClose(r)
  <2>1. UNCHANGED <<pending, closer>>
    BY <1>7 DEF CallClose, CancelClose, callerOnly
  <2> QED
    BY <1>1, <1>7, <2>1 DEF CallClose
<1> QED
  BY <1>2, <1>3, <1>4, <1>5, <1>6, <1>7 DEF CallerStep, UserStep, UserMoves

LEMMA DeliverSweep ==
  ASSUME SweepCoversSlots, (\E r \in Reqs : Deliver(r)) \/ DeliverStep
  PROVE  SweepCoversSlots'
<1>1. pending' \subseteq pending
  BY DEF Deliver, DeliverStep, DeliverSend, DeliverEvict, DeliverPush, OverflowSkip,
     OverflowDrain, OverflowMark, DeliverCancel, DeliverClose, muxVars, ChanSend,
     ChanDropOldest, CancelDelete, CancelClose
<1>2. UNCHANGED <<caller, closer>>
  BY DEF Deliver, DeliverStep, DeliverSend, DeliverEvict, DeliverPush, OverflowSkip,
     OverflowDrain, OverflowMark, DeliverCancel, DeliverClose, rxOnly
<1> QED
  BY <1>1, <1>2 DEF SweepCoversSlots

LEMMA CloserSweep ==
  ASSUME TypeOK, SweepCoversSlots, CloseDropSender \/ CloserStep
  PROVE  SweepCoversSlots'
<1> USE DEF SweepCoversSlots, CloserGoto, closerOnly, muxVars
<1>1. closer \in [at : CloserAt \cup {"close"}, ids : SUBSET Reqs, cur : Reqs \cup {NoReq}]
  BY DEF TypeOK, CloserTypeOK, CloserAt
<1>2. CASE CloseDropSender \/ CloseSignal
  BY <1>1, <1>2 DEF CloseDropSender, CloseSignal
<1>3. CASE CloseSnapshot
  BY <1>1, <1>3 DEF CloseSnapshot
<1>4. ASSUME NEW r \in Reqs, CloseCancel(r) PROVE SweepCoversSlots'
  BY <1>1, <1>4 DEF CloseCancel, CancelDelete
<1>5. CASE CloseChan
  BY <1>1, <1>5 DEF CloseChan, CancelClose
<1>6. CASE CloseDone
  BY <1>1, <1>6 DEF CloseDone
<1> QED
  BY <1>2, <1>3, <1>4, <1>5, <1>6 DEF CloserStep

LEMMA SweepInvariant == Spec => []SweepCoversSlots
<1>1. Init => SweepCoversSlots
  BY DEF Init, SweepCoversSlots
<1>2. TypeOK /\ SweepCoversSlots /\ [Next]_vars => SweepCoversSlots'
  <2> SUFFICES ASSUME TypeOK, SweepCoversSlots, [Next]_vars PROVE SweepCoversSlots'
    OBVIOUS
  <2>1. CASE Next
    BY <2>1, CallerSweep, DeliverSweep, CloserSweep DEF Next
  <2>2. CASE UNCHANGED vars
    BY <2>2 DEF vars, muxVars, SweepCoversSlots
  <2> QED
    BY <2>1, <2>2
<1> QED
  BY <1>1, <1>2, TypeCorrect, PTL DEF Spec

\* When Agent.Close and the calls under way have returned, no slot is left in
\* the map, also for calls that raced with the snapshot of CancelAll.
THEOREM NoSlotSurvivesCloseHolds == Spec => []NoSlotSurvivesClose
<1>1. TypeOK /\ OneCloser /\ SweepCoversSlots => NoSlotSurvivesClose
  BY DEF TypeOK, MuxTypeOK, OneCloser, SlotOwnership, SweepCoversSlots, NoSlotSurvivesClose
<1> QED
  BY <1>1, TypeCorrect, OneCloserInvariant, SweepInvariant, PTL
-----------------------------------------------------------------------------
(* What Deliver knows while it holds a message: the slot's owner has       *)
(* registered it, its mode is the one the branch is for, and the message   *)
(* in hand is newer than every message its reader has or will find.        *)

\* Every message of s is the k-th or an older one.
UpTo(s, k) == \A i \in DOMAIN s : s[i].n <= k

InHand(r) == rx.at \in {"send", "evict", "push"} /\ rx.req = r

\* How many of the messages for r Deliver has done with.
Placed(r) == IF InHand(r) THEN sent[r] - 1 ELSE sent[r]

MessagesInOrder ==
  \A r \in Reqs : /\ InHand(r) => rx.msg.n = sent[r]
                  /\ UpTo(ch[r], Placed(r)) /\ UpTo(got[r], Placed(r))

BranchFitsMode ==
  /\ rx.at \in {"evict", "push"} => mode[rx.req] = "watch"
  /\ rx.at = "drain" => mode[rx.req] = "tunnel"

OwnerIsThere ==
  /\ rx.at # "idle" => caller[rx.req] # "idle"
  /\ \A r \in Reqs : caller[r] = "idle" => ch[r] = <<>>

DeliveryInv == MessagesInOrder /\ BranchFitsMode /\ OwnerIsThere

-----------------------------------------------------------------------------
(* Sequences of numbered messages.                                         *)

LEMMA UpToAppend ==
  ASSUME NEW s \in Seq(Msg), NEW m \in Msg, NEW k \in Int, UpTo(s, k), m.n <= k
  PROVE  UpTo(Append(s, m), k)
BY DEF UpTo

LEMMA UpToTail ==
  ASSUME NEW s \in Seq(Msg), s # <<>>, NEW k \in Int, UpTo(s, k)
  PROVE  UpTo(Tail(s), k) /\ Head(s).n <= k
<1>1. 1 \in DOMAIN s /\ Head(s) = s[1]
  OBVIOUS
<1>2. ASSUME NEW i \in DOMAIN Tail(s) PROVE i + 1 \in DOMAIN s /\ Tail(s)[i] = s[i + 1]
  OBVIOUS
<1> QED
  BY <1>1, <1>2 DEF UpTo

LEMMA UpToMore ==
  ASSUME NEW s \in Seq(Msg), NEW k \in Int, NEW l \in Int, k <= l, UpTo(s, k)
  PROVE  UpTo(s, l)
<1>1. \A i \in DOMAIN s : s[i] \in Msg
  OBVIOUS
<1>2. \A i \in DOMAIN s : s[i].n \in Int
  BY <1>1 DEF Msg
<1> QED
  BY <1>2 DEF UpTo

LEMMA DeliveryTypes ==
  ASSUME TypeOK
  PROVE  /\ ch \in [Reqs -> Seq(Msg)] /\ got \in [Reqs -> Seq(Msg)]
         /\ sent \in [Reqs -> 0 .. MaxMsgs] /\ caller \in [Reqs -> CallerAt]
         /\ mode \in [Reqs -> Modes]
         /\ \A r \in Reqs : Placed(r) \in Int
         /\ rx = RxIdle \/ rx \in [at : RxAt, req : Reqs, msg : Msg]
BY DEF TypeOK, CallTypeOK, MuxTypeOK, RxTypeOK, Placed
-----------------------------------------------------------------------------
(* DeliveryInv is an invariant.                                            *)

\* What a step leaves alone, when it neither places a message nor moves the
\* receive loop.
LEMMA DeliveryUnchanged ==
  ASSUME TypeOK, DeliveryInv, UNCHANGED <<mode, ch, got, sent, rx>>,
         \A r \in Reqs : caller'[r] = "idle" <=> caller[r] = "idle"
  PROVE  DeliveryInv'
<1>1. MessagesInOrder'
  BY DEF DeliveryInv, MessagesInOrder, InHand, Placed, UpTo
<1>2. BranchFitsMode'
  BY DEF DeliveryInv, BranchFitsMode
<1>3. OwnerIsThere'
  <2>1. rx.at # "idle" => rx.req \in Reqs
    BY RxFacts DEF TypeOK
  <2> QED
    BY <2>1 DEF DeliveryInv, OwnerIsThere
<1> QED
  BY <1>1, <1>2, <1>3 DEF DeliveryInv

\* A request that is registered stays so, and one that is not does too: only
\* CallRegister leaves "idle".
LEMMA OnlyRegisterLeavesIdle ==
  ASSUME TypeOK, NEW r \in Reqs,
         CallerStep(r) \/ UserMoves(r)
  PROVE  \A q \in Reqs : caller'[q] = "idle" <=> caller[q] = "idle"
<1>1. caller \in [Reqs -> CallerAt]
  BY DeliveryTypes
<1>2. CASE CallTake(r)
  BY <1>1, <1>2, TakeModes DEF CallTake, Goto, Ended, WatchReads, HandshakeReads
<1>3. CASE CallCancel(r) \/ CallClose(r)
  BY <1>1, <1>3 DEF CallCancel, CallClose, Goto
<1>4. CASE CallSend(r) \/ CallAtEnd(r) \/ CallAgentClosed(r) \/ TunnelTake(r)
           \/ TunnelAtEnd(r) \/ UserMoves(r)
  BY <1>1, <1>4 DEF CallSend, CallAtEnd, CallAgentClosed, TunnelTake, TunnelAtEnd,
     UserMoves, CallGiveUp, HandedOver, BodyClosed, TunnelClose, Goto, Ended
<1> QED
  BY <1>2, <1>3, <1>4 DEF CallerStep

\* A caller that does not read its channel touches neither it nor the loop.
LEMMA CallerLeavesSlot ==
  ASSUME NEW r \in Reqs, CallerStep(r) \/ UserMoves(r),
         ~CallTake(r), ~TunnelTake(r)
  PROVE  UNCHANGED <<mode, ch, got, sent, rx>>
BY DEF CallerStep, CallSend, CallAtEnd, CallAgentClosed, TunnelAtEnd, UserMoves,
   CallGiveUp, HandedOver, BodyClosed, TunnelClose, CallCancel, CallClose,
   CancelDelete, CancelClose, muxVars, callerOnly

LEMMA CallerDelivery ==
  ASSUME TypeOK, DeliveryInv, NEW r \in Reqs, CallerStep(r) \/ UserStep(r)
  PROVE  DeliveryInv'
<1>1. CASE CallTake(r) \/ TunnelTake(r)
  <2>1. /\ ch[r] # <<>> /\ ch' = [ch EXCEPT ![r] = Tail(@)]
        /\ got' = [got EXCEPT ![r] = Append(@, Head(ch[r]))]
        /\ UNCHANGED <<mode, sent, rx>>
    BY <1>1 DEF CallTake, TunnelTake, ChanTake
  <2>2. \A q \in Reqs : caller'[q] = "idle" <=> caller[q] = "idle"
    BY <1>1, OnlyRegisterLeavesIdle DEF CallerStep
  <2>3. ASSUME NEW q \in Reqs PROVE UpTo(ch'[q], Placed(q)) /\ UpTo(got'[q], Placed(q))
    <3>1. UpTo(ch[q], Placed(q)) /\ UpTo(got[q], Placed(q)) /\ Placed(q) \in Int
      BY DeliveryTypes DEF DeliveryInv, MessagesInOrder
    <3>2. CASE q = r
      <4>1. ch[r] \in Seq(Msg) /\ got[r] \in Seq(Msg) /\ Head(ch[r]) \in Msg
        BY <2>1, DeliveryTypes
      <4>2. UpTo(Tail(ch[r]), Placed(r)) /\ Head(ch[r]).n <= Placed(r)
        BY <2>1, <3>1, <3>2, <4>1, UpToTail
      <4>3. UpTo(Append(got[r], Head(ch[r])), Placed(r))
        BY <3>1, <3>2, <4>1, <4>2, UpToAppend
      <4>4. ch'[r] = Tail(ch[r]) /\ got'[r] = Append(got[r], Head(ch[r]))
        BY <2>1, DeliveryTypes
      <4> QED
        BY <3>2, <4>2, <4>3, <4>4
    <3>3. CASE q # r
      BY <2>1, <3>1, <3>3, DeliveryTypes
    <3> QED
      BY <3>2, <3>3
  <2>4. MessagesInOrder'
    BY <2>1, <2>3 DEF DeliveryInv, MessagesInOrder, InHand, Placed, UpTo
  <2>5. BranchFitsMode'
    BY <2>1 DEF DeliveryInv, BranchFitsMode
  <2>6. OwnerIsThere'
    <3>1. rx.at # "idle" => rx.req \in Reqs
      BY RxFacts DEF TypeOK
    <3>2. ASSUME NEW q \in Reqs, caller'[q] = "idle" PROVE ch'[q] = <<>>
      BY <2>1, <2>2, <3>2, DeliveryTypes DEF DeliveryInv, OwnerIsThere
    <3> QED
      BY <2>1, <2>2, <3>1, <3>2 DEF DeliveryInv, OwnerIsThere
  <2> QED
    BY <2>4, <2>5, <2>6 DEF DeliveryInv
<1>2. CASE CallRegister(r)
  <2>1. /\ ch' = [ch EXCEPT ![r] = <<>>] /\ ch[r] = <<>>
        /\ UNCHANGED <<mode, got, sent, rx>>
        /\ caller' = [caller EXCEPT ![r] = "registered"]
    BY <1>2 DEF CallRegister, Register, callerOnly, Goto, DeliveryInv, OwnerIsThere
  <2>2. ch' = ch
    BY <2>1, DeliveryTypes
  <2>3. MessagesInOrder' /\ BranchFitsMode'
    BY <2>1, <2>2 DEF DeliveryInv, MessagesInOrder, BranchFitsMode, InHand, Placed, UpTo
  <2>4. OwnerIsThere'
    <3>1. rx.at # "idle" => rx.req \in Reqs
      BY RxFacts DEF TypeOK
    <3> QED
      BY <2>1, <2>2, <3>1, DeliveryTypes DEF DeliveryInv, OwnerIsThere
  <2> QED
    BY <2>3, <2>4 DEF DeliveryInv
<1>3. CASE (CallerStep(r) \/ UserMoves(r))
           /\ ~CallTake(r) /\ ~TunnelTake(r)
  BY <1>3, CallerLeavesSlot, OnlyRegisterLeavesIdle, DeliveryUnchanged
<1> QED
  BY <1>1, <1>2, <1>3 DEF UserStep, UserMoves

LEMMA CloserDelivery ==
  ASSUME TypeOK, DeliveryInv, CloseDropSender \/ CloserStep
  PROVE  DeliveryInv'
<1>1. UNCHANGED <<mode, ch, got, sent, rx, caller>>
  BY DEF CloseDropSender, CloserStep, CloseSignal, CloseSnapshot, CloseChan, CloseDone,
     CloseCancel, CancelDelete, CancelClose, muxVars, closerOnly
<1> QED
  BY <1>1, DeliveryUnchanged

LEMMA DeliverDelivery ==
  ASSUME TypeOK, OneCloser, DeliveryInv, NEW r \in Reqs, Deliver(r)
  PROVE  DeliveryInv'
<1>1. /\ rx.at = "idle" /\ UNCHANGED <<mode, ch, got, caller>>
      /\ sent' = [sent EXCEPT ![r] = @ + 1]
  BY DEF Deliver, muxVars
<1>2. \/ rx' = rx
      \/ /\ rx'.at = "send" /\ rx'.req = r /\ rx'.msg.n = sent[r] + 1
         /\ Routable(r)
  BY DEF Deliver
<1>3. ASSUME NEW q \in Reqs
      PROVE  /\ InHand(q)' => rx'.msg.n = sent'[q]
             /\ UpTo(ch[q], Placed(q)') /\ UpTo(got[q], Placed(q)')
  <2>1. sent[q] \in Int /\ ch[q] \in Seq(Msg) /\ got[q] \in Seq(Msg)
    BY DeliveryTypes
  <2>2. sent'[q] = IF q = r THEN sent[q] + 1 ELSE sent[q]
    BY <1>1, DeliveryTypes
  <2>3. UpTo(ch[q], sent[q]) /\ UpTo(got[q], sent[q])
    BY <1>1 DEF DeliveryInv, MessagesInOrder, InHand, Placed
  <2>4. Placed(q)' \in Int /\ sent[q] <= Placed(q)'
    BY <1>1, <1>2, <2>1, <2>2 DEF Placed, InHand
  <2>5. InHand(q)' => rx'.msg.n = sent'[q]
    BY <1>1, <1>2, <2>2 DEF InHand
  <2> QED
    BY <2>1, <2>3, <2>4, <2>5, UpToMore
<1>4. MessagesInOrder'
  BY <1>1, <1>3 DEF MessagesInOrder, UpTo
<1>5. BranchFitsMode'
  BY <1>1, <1>2 DEF BranchFitsMode
<1>6. OwnerIsThere'
  BY <1>1, <1>2 DEF OwnerIsThere, DeliveryInv, OneCloser, SlotOwnership, Routable
<1> QED
  BY <1>4, <1>5, <1>6 DEF DeliveryInv

LEMMA ChanSendUpTo ==
  ASSUME TypeOK, NEW r \in Reqs, NEW m \in Msg, ChanSend(r, m),
         NEW k \in Int, UpTo(ch[r], k), m.n <= k
  PROVE  /\ UpTo(ch'[r], k) /\ mode' = mode
         /\ \A q \in Reqs \ {r} : ch'[q] = ch[q]
<1>1. UpTo(Append(ch[r], m), k)
  BY UpToAppend, DeliveryTypes
<1>2. ch'[r] = ch[r] \/ ch'[r] = Append(ch[r], m)
  BY DeliveryTypes DEF ChanSend
<1> QED
  BY <1>1, <1>2, DeliveryTypes DEF ChanSend

LEMMA ChanDropUpTo ==
  ASSUME TypeOK, NEW r \in Reqs, ChanDropOldest(r), NEW k \in Int, UpTo(ch[r], k)
  PROVE  /\ UpTo(ch'[r], k) /\ mode' = mode
         /\ \A q \in Reqs \ {r} : ch'[q] = ch[q]
<1>1. ch'[r] = ch[r] \/ (ch[r] # <<>> /\ ch'[r] = Tail(ch[r]))
  BY DeliveryTypes DEF ChanDropOldest
<1>2. ch[r] # <<>> => UpTo(Tail(ch[r]), k)
  BY UpToTail, DeliveryTypes
<1> QED
  BY <1>1, <1>2, DeliveryTypes DEF ChanDropOldest

\* The receive loop works on the slot of rx.req only.
LEMMA OtherSlots ==
  ASSUME TypeOK, DeliveryInv, rx.at # "idle", UNCHANGED <<mode, got, sent, caller>>,
         \A q \in Reqs \ {rx.req} : ch'[q] = ch[q],
         rx'.at # "idle" => rx'.req = rx.req
  PROVE  /\ OwnerIsThere'
         /\ \A q \in Reqs \ {rx.req} :
              /\ InHand(q)' => rx'.msg.n = sent'[q]
              /\ UpTo(ch'[q], Placed(q)') /\ UpTo(got'[q], Placed(q)')
<1>1. rx.req \in Reqs
  BY RxFacts DEF TypeOK
<1>2. OwnerIsThere'
  BY <1>1 DEF DeliveryInv, OwnerIsThere
<1>3. ASSUME NEW q \in Reqs \ {rx.req}
      PROVE  /\ InHand(q)' => rx'.msg.n = sent'[q]
             /\ UpTo(ch'[q], Placed(q)') /\ UpTo(got'[q], Placed(q)')
  <2>1. ~InHand(q) /\ ~InHand(q)'
    BY <1>3 DEF InHand
  <2>2. Placed(q)' = Placed(q)
    BY <2>1 DEF Placed
  <2> QED
    BY <2>1, <2>2 DEF DeliveryInv, MessagesInOrder
<1> QED
  BY <1>2, <1>3

\* Deliver puts its message down, in the buffer or nowhere.
LEMMA PutDown ==
  ASSUME TypeOK, DeliveryInv, NEW r, r = rx.req, rx.at # "idle", UNCHANGED <<mode, got, sent, caller>>,
         \A q \in Reqs \ {r} : ch'[q] = ch[q],
         rx'.at # "idle" => rx'.req = rx.req,
         rx'.at \notin {"send", "evict", "push"},
         rx'.at = "drain" => mode[r] = "tunnel",
         UpTo(ch'[r], sent[r])
  PROVE  DeliveryInv'
<1>1. r \in Reqs
  BY RxFacts DEF TypeOK
<1>2. ~InHand(r)' /\ sent[r] \in Int /\ got[r] \in Seq(Msg)
  BY <1>1, DeliveryTypes DEF InHand
<1>3. Placed(r)' = sent[r] /\ Placed(r) \in Int
      /\ Placed(r) <= sent[r]
  BY <1>1, <1>2, DeliveryTypes DEF Placed, InHand
<1>4. UpTo(got'[r], Placed(r)')
  BY <1>1, <1>2, <1>3, UpToMore DEF DeliveryInv, MessagesInOrder
<1>5. \A q \in Reqs : InHand(q)' => rx'.msg.n = sent'[q]
  BY DEF InHand
<1>6. MessagesInOrder'
  BY <1>1, <1>3, <1>4, <1>5, OtherSlots DEF MessagesInOrder, UpTo, Placed, InHand
<1>7. BranchFitsMode'
  BY DEF BranchFitsMode
<1> QED
  BY <1>6, <1>7, OtherSlots DEF DeliveryInv

\* A saturated watch: Deliver keeps its message for another try.
LEMMA KeepsMessage ==
  ASSUME TypeOK, DeliveryInv, NEW r, r = rx.req, rx.at \in {"send", "evict"},
         UNCHANGED <<mode, got, sent, caller>>,
         \A q \in Reqs \ {r} : ch'[q] = ch[q],
         rx'.at \in {"evict", "push"}, rx'.req = rx.req, rx'.msg = rx.msg,
         mode[r] = "watch",
         UpTo(ch'[r], sent[r] - 1)
  PROVE  DeliveryInv'
<1>1. r \in Reqs
  BY RxFacts DEF TypeOK
<1>2. /\ InHand(r) /\ InHand(r)'
      /\ Placed(r)' = sent[r] - 1 /\ Placed(r) = sent[r] - 1
  BY DEF InHand, Placed
<1>3. /\ rx'.msg.n = sent'[r]
      /\ UpTo(got'[r], Placed(r)')
  BY <1>1, <1>2 DEF DeliveryInv, MessagesInOrder
<1>4. MessagesInOrder'
  BY <1>1, <1>2, <1>3, OtherSlots DEF MessagesInOrder, UpTo, Placed, InHand
<1>5. BranchFitsMode'
  BY DEF BranchFitsMode
<1> QED
  BY <1>4, <1>5, OtherSlots DEF DeliveryInv

LEMMA RxMoves ==
  ASSUME TypeOK, rx.at # "idle", NEW at \in RxAt \cup {"idle"}, RxGoto(at)
  PROVE  rx'.at = at /\ (at # "idle" => rx'.req = rx.req /\ rx'.msg = rx.msg)
<1>1. rx \in [at : RxAt, req : Reqs, msg : Msg]
  BY DeliveryTypes DEF RxIdle
<1> QED
  BY <1>1 DEF RxGoto, RxIdle

LEMMA DeliverStepDelivery ==
  ASSUME TypeOK, DeliveryInv, DeliverStep
  PROVE  DeliveryInv'
<1> DEFINE r == rx.req
           Others == \A q \in Reqs \ {r} : ch'[q] = ch[q]
<1> USE DEF RxAt
<1>1. UNCHANGED <<got, sent, caller>>
  BY DEF DeliverStep, DeliverSend, DeliverEvict, DeliverPush, OverflowSkip,
     OverflowDrain, OverflowMark, DeliverCancel, DeliverClose, rxOnly
<1>2. rx.at # "idle"
  BY DEF DeliverStep, DeliverSend, DeliverEvict, DeliverPush, OverflowSkip,
     OverflowDrain, OverflowMark, DeliverCancel, DeliverClose
<1>3. r \in Reqs /\ rx.msg \in Msg
  BY <1>2, RxFacts DEF TypeOK
<1>4. mode[r] \in Modes /\ sent[r] \in Nat /\ ch[r] \in Seq(Msg)
  BY <1>3, DeliveryTypes
<1>5. \A m : AfterSend(r, m) \in {"delete", "idle"}
  BY AfterSendType
<1>6. CASE DeliverSend
  <2>1. UpTo(ch[r], sent[r] - 1) /\ rx.msg.n = sent[r]
    BY <1>3, <1>6 DEF DeliverSend, DeliveryInv, MessagesInOrder, InHand, Placed
  <2>2. UpTo(ch[r], sent[r])
    BY <1>4, <2>1, UpToMore
  <2>3. UpTo(ch'[r], sent[r]) /\ mode' = mode /\ Others
    BY <1>3, <1>4, <1>6, <2>1, <2>2, ChanSendUpTo DEF DeliverSend
  <2>4. CASE Full(r) /\ r \notin closed /\ mode[r] = "watch"
    <3>1. rx'.at = "evict" /\ rx'.req = r /\ rx'.msg = rx.msg
      BY <1>2, <1>6, <2>4, RxMoves DEF DeliverSend
    <3>2. ch'[r] = ch[r]
      BY <1>3, <1>6, <2>4, DeliveryTypes DEF DeliverSend, ChanSend
    <3> QED
      BY <1>1, <1>6, <2>1, <2>3, <2>4, <3>1, <3>2, KeepsMessage DEF DeliverSend
  <2>5. CASE ~(Full(r) /\ r \notin closed /\ mode[r] = "watch")
    <3>1. /\ rx'.at \notin {"send", "evict", "push"} /\ (rx'.at # "idle" => rx'.req = r)
          /\ rx'.at = "drain" => mode[r] = "tunnel"
      <4>1. CASE Full(r) /\ r \notin closed /\ mode[r] # "unary"
        BY <1>2, <1>4, <1>6, <2>5, <4>1, RxMoves DEF DeliverSend, Modes
      <4>2. CASE ~(Full(r) /\ r \notin closed /\ mode[r] # "unary")
        BY <1>2, <1>5, <1>6, <4>2, RxMoves DEF DeliverSend
      <4> QED
        BY <4>1, <4>2
    <3> QED
      BY <1>1, <1>2, <2>3, <3>1, PutDown
  <2> QED
    BY <2>4, <2>5
<1>7. CASE DeliverEvict
  <2>1. UpTo(ch[r], sent[r] - 1) /\ mode[r] = "watch"
    BY <1>3, <1>7 DEF DeliverEvict, DeliveryInv, MessagesInOrder, InHand, Placed,
       BranchFitsMode
  <2>2. UpTo(ch'[r], sent[r] - 1) /\ mode' = mode /\ Others
    BY <1>3, <1>4, <1>7, <2>1, ChanDropUpTo DEF DeliverEvict
  <2>3. rx'.at = "push" /\ rx'.req = r /\ rx'.msg = rx.msg
    BY <1>2, <1>7, RxMoves DEF DeliverEvict
  <2> QED
    BY <1>1, <1>7, <2>1, <2>2, <2>3, KeepsMessage DEF DeliverEvict
<1>8. CASE DeliverPush
  <2>1. UpTo(ch[r], sent[r] - 1) /\ rx.msg.n = sent[r]
    BY <1>3, <1>8 DEF DeliverPush, DeliveryInv, MessagesInOrder, InHand, Placed
  <2>2. UpTo(ch[r], sent[r])
    BY <1>4, <2>1, UpToMore
  <2>3. UpTo(ch'[r], sent[r]) /\ mode' = mode /\ Others
    BY <1>3, <1>4, <1>8, <2>1, <2>2, ChanSendUpTo DEF DeliverPush
  <2>4. rx'.at \in {"delete", "idle"} /\ (rx'.at # "idle" => rx'.req = r)
    BY <1>2, <1>5, <1>8, RxMoves DEF DeliverPush
  <2> QED
    BY <1>1, <1>2, <2>3, <2>4, PutDown
<1>9. ASSUME OverflowSkip \/ OverflowDrain \/ OverflowMark \/ DeliverCancel
             \/ DeliverClose
      PROVE  DeliveryInv'
  <2>1. UpTo(ch[r], sent[r])
    BY <1>3, <1>9 DEF OverflowSkip, OverflowDrain, OverflowMark, DeliverCancel,
       DeliverClose, DeliveryInv, MessagesInOrder, InHand, Placed
  <2>2. UpTo(ch'[r], sent[r]) /\ mode' = mode /\ Others
    <3>1. CASE OverflowDrain
      BY <1>3, <1>4, <2>1, <3>1, ChanDropUpTo DEF OverflowDrain
    <3>2. CASE OverflowMark
      BY <1>3, <1>4, <2>1, <3>2, ChanSendUpTo, OverflowMsgType DEF OverflowMark,
         OverflowMsg
    <3>3. CASE OverflowSkip \/ DeliverCancel \/ DeliverClose
      BY <2>1, <3>3 DEF OverflowSkip, DeliverCancel, DeliverClose, CancelDelete,
         CancelClose, muxVars
    <3> QED
      BY <1>9, <3>1, <3>2, <3>3
  <2>3. /\ rx'.at \in {"idle", "delete", "close", "drain"}
        /\ rx'.at # "idle" => rx'.req = r
        /\ rx'.at = "drain" => mode[r] = "tunnel"
    <3>1. CASE OverflowDrain
      BY <3>1 DEF OverflowDrain, DeliveryInv, BranchFitsMode
    <3>2. CASE OverflowSkip \/ OverflowMark \/ DeliverCancel \/ DeliverClose
      BY <1>2, <3>2, RxMoves DEF OverflowSkip, OverflowMark, DeliverCancel, DeliverClose
    <3> QED
      BY <1>9, <3>1, <3>2
  <2> QED
    BY <1>1, <1>2, <2>2, <2>3, PutDown
<1> QED
  BY <1>6, <1>7, <1>8, <1>9 DEF DeliverStep

LEMMA DeliveryInvariant == Spec => []DeliveryInv
<1>1. Init => DeliveryInv
  <2> SUFFICES ASSUME Init PROVE DeliveryInv
    OBVIOUS
  <2>1. MessagesInOrder
    <3>1. \A r \in Reqs : ~InHand(r) /\ ch[r] = <<>> /\ got[r] = <<>>
      BY DEF Init, MuxInit, RxIdle, InHand
    <3>2. \A k : UpTo(<<>>, k)
      BY DEF UpTo
    <3> QED
      BY <3>1, <3>2 DEF MessagesInOrder
  <2>2. BranchFitsMode /\ OwnerIsThere
    BY DEF Init, MuxInit, RxIdle, BranchFitsMode, OwnerIsThere
  <2> QED
    BY <2>1, <2>2 DEF DeliveryInv
<1>2. TypeOK /\ OneCloser /\ DeliveryInv /\ [Next]_vars => DeliveryInv'
  <2> SUFFICES ASSUME TypeOK, OneCloser, DeliveryInv, [Next]_vars PROVE DeliveryInv'
    OBVIOUS
  <2>1. CASE Next
    BY <2>1, CallerDelivery, DeliverDelivery, DeliverStepDelivery, CloserDelivery DEF Next
  <2>2. CASE UNCHANGED vars
    BY <2>2, DeliveryUnchanged DEF vars, muxVars
  <2> QED
    BY <2>1, <2>2
<1> QED
  BY <1>1, <1>2, TypeCorrect, OneCloserInvariant, PTL DEF Spec

-----------------------------------------------------------------------------
(* Every step of AgentProxy is one of RequestSlots, or a stutter.          *)

PromisedStep == [Alive /\ Slots!Next]_(Slots!vars)

LEMMA BoxesUnchanged ==
  ASSUME pending' = pending, closed' = closed,
         \A q \in Reqs : caller'[q] = "idle" <=> caller[q] = "idle"
  PROVE  Boxes' = Boxes
BY DEF Boxes, Box

\* A step that touches no slot, or finds nothing to do on one, is a stutter.
LEMMA Stutters ==
  ASSUME UNCHANGED <<mode, pending, closed, panic, ch, got>>,
         \A q \in Reqs : caller'[q] = "idle" <=> caller[q] = "idle"
  PROVE  PromisedStep
<1>1. Boxes' = Boxes /\ Alive' = Alive
  BY BoxesUnchanged DEF Alive
<1> QED
  BY <1>1 DEF PromisedStep, Slots!vars

\* cancel's first half: Release, or nothing if somebody was faster.
LEMMA CancelReleases ==
  ASSUME OneCloser, Alive, NEW r \in Reqs, CancelDelete(r),
         UNCHANGED got, \A q \in Reqs : caller'[q] = "idle" <=> caller[q] = "idle"
  PROVE  PromisedStep
<1>1. UNCHANGED <<mode, ch, closed, panic, got>> /\ pending' = pending \ {r}
  BY DEF CancelDelete
<1>2. CASE r \in pending
  <2>1. r \notin closed /\ caller[r] # "idle"
    BY <1>2 DEF OneCloser, SlotOwnership
  <2>2. Box(r) = "open" /\ Box(r)' = "released"
    BY <1>1, <1>2, <2>1 DEF Box
  <2>3. \A q \in Reqs \ {r} : Box(q)' = Box(q)
    BY <1>1 DEF Box
  <2>4. Boxes[r] = "open" /\ Boxes' = [Boxes EXCEPT ![r] = "released"]
    BY <2>2, <2>3 DEF Boxes
  <2>5. Slots!Release(r)
    BY <1>1, <2>4 DEF Slots!Release, Alive
  <2> QED
    BY <2>5 DEF PromisedStep, Slots!Next
<1>3. CASE r \notin pending
  BY <1>1, <1>3, Stutters
<1> QED
  BY <1>2, <1>3

\* cancel's second half, which its owner alone takes: Seal.
LEMMA CloseSeals ==
  ASSUME Alive, NEW r \in Reqs, CancelClose(r), r \notin pending \cup closed,
         caller[r] # "idle",
         UNCHANGED got, \A q \in Reqs : caller'[q] = "idle" <=> caller[q] = "idle"
  PROVE  PromisedStep
<1>1. UNCHANGED <<mode, ch, pending, panic, got>> /\ closed' = closed \cup {r}
  BY DEF CancelClose
<1>2. Box(r) = "released" /\ Box(r)' = "sealed"
  BY <1>1 DEF Box
<1>3. \A q \in Reqs \ {r} : Box(q)' = Box(q)
  BY <1>1 DEF Box
<1>4. Boxes[r] = "released" /\ Boxes' = [Boxes EXCEPT ![r] = "sealed"]
  BY <1>2, <1>3 DEF Boxes
<1>5. Slots!Seal(r)
  BY <1>1, <1>4 DEF Slots!Seal, Alive
<1> QED
  BY <1>5 DEF PromisedStep, Slots!Next

\* A non-blocking send: Post, or nothing on a full buffer, or Break.
LEMMA SendPosts ==
  ASSUME TypeOK, DeliveryInv, Alive, InHand(rx.req), ChanSend(rx.req, rx.msg),
         UNCHANGED <<got, caller>>
  PROVE  PromisedStep
<1> DEFINE r == rx.req
           m == rx.msg
<1>1. /\ r \in Reqs /\ m \in Msg /\ caller[r] # "idle"
      /\ m.n = sent[r] /\ UpTo(ch[r], sent[r] - 1) /\ UpTo(got[r], sent[r] - 1)
  BY RxFacts DEF TypeOK, InHand, DeliveryInv, OwnerIsThere, MessagesInOrder, Placed
<1>2. CASE r \in closed
  <2>1. /\ UNCHANGED <<mode, pending, closed, ch, got>>
        /\ ~Alive'
    BY <1>2 DEF ChanSend, Alive
  <2>2. Boxes' = Boxes /\ Boxes[r] = "sealed"
    BY <1>1, <1>2, <2>1, BoxesUnchanged DEF Boxes, Box
  <2>3. Slots!Break
    BY <1>1, <2>1, <2>2 DEF Slots!Break
  <2> QED
    BY <2>3 DEF PromisedStep, Slots!Next
<1>3. CASE r \notin closed /\ Full(r)
  <2>1. UNCHANGED <<mode, pending, closed, panic, ch, got>>
    BY <1>1, <1>3, DeliveryTypes DEF ChanSend
  <2> QED
    BY <2>1, Stutters
<1>4. CASE r \notin closed /\ ~Full(r)
  <2>1. /\ UNCHANGED <<mode, pending, closed, panic, got>>
        /\ ch' = [ch EXCEPT ![r] = Append(@, m)]
    BY <1>1, <1>4, DeliveryTypes DEF ChanSend
  <2>2. Boxes' = Boxes /\ Boxes[r] \in {"open", "released"}
    BY <1>1, <1>4, <2>1, BoxesUnchanged DEF Boxes, Box
  <2>3. Len(ch[r]) < BufferSize(mode[r])
    BY <1>1, <1>4, DeliveryTypes, BufferSizeType DEF Full
  <2>4. Slots!Newest(r, m)
    <3>1. sent[r] \in Int /\ ch[r] \in Seq(Msg) /\ got[r] \in Seq(Msg)
      BY <1>1, DeliveryTypes
    <3>2. /\ \A i \in DOMAIN ch[r] : ch[r][i] \in Msg
          /\ \A i \in DOMAIN got[r] : got[r][i] \in Msg
      BY <3>1
    <3>3. \A x \in Msg : x.n \in Int
      BY DEF Msg
    <3>4. \A i \in DOMAIN ch[r] : ch[r][i].n < m.n
      BY <1>1, <3>1, <3>2, <3>3 DEF UpTo
    <3>5. \A i \in DOMAIN got[r] : got[r][i].n < m.n
      BY <1>1, <3>1, <3>2, <3>3 DEF UpTo
    <3> QED
      BY <3>4, <3>5 DEF Slots!Newest
  <2>5. Slots!Post(r)
    BY <1>1, <2>1, <2>2, <2>3, <2>4 DEF Slots!Post, Alive
  <2> QED
    BY <1>1, <2>5 DEF PromisedStep, Slots!Next
<1> QED
  BY <1>2, <1>3, <1>4

\* A receive by Deliver itself: Discard, or nothing on an empty buffer.
LEMMA DropDiscards ==
  ASSUME TypeOK, Alive, NEW r \in Reqs, ChanDropOldest(r), mode[r] # "unary",
         UNCHANGED <<got, caller>>
  PROVE  PromisedStep
<1>1. UNCHANGED <<mode, pending, closed, panic, got>>
  BY DEF ChanDropOldest
<1>2. CASE ch[r] = <<>>
  <2>1. ch' = ch
    BY <1>2, DeliveryTypes DEF ChanDropOldest
  <2> QED
    BY <1>1, <2>1, Stutters
<1>3. CASE ch[r] # <<>>
  <2>1. ch' = [ch EXCEPT ![r] = Tail(@)]
    BY <1>3 DEF ChanDropOldest
  <2>2. Slots!Discard(r)
    BY <1>1, <1>3, <2>1, BoxesUnchanged DEF Slots!Discard, Alive
  <2> QED
    BY <2>2 DEF PromisedStep, Slots!Next
<1> QED
  BY <1>2, <1>3

LEMMA CallerKeepsPromise ==
  ASSUME TypeOK, OneCloser, DeliveryInv, NEW r \in Reqs, CallerStep(r) \/ UserStep(r)
  PROVE  PromisedStep
<1>1. CASE CallRegister(r)
  <2>1. /\ Alive /\ caller[r] = "idle" /\ caller' = [caller EXCEPT ![r] = "registered"]
        /\ pending' = pending \cup {r} /\ ch' = [ch EXCEPT ![r] = <<>>]
        /\ UNCHANGED <<mode, closed, panic, got>>
    BY <1>1 DEF CallRegister, Register, Goto, callerOnly
  <2>2. ch' = ch /\ r \notin pending \cup closed
    BY <2>1, DeliveryTypes DEF DeliveryInv, OwnerIsThere, OneCloser, SlotOwnership
  <2>3. Box(r) = "unused" /\ Box(r)' = "open"
    BY <2>1, <2>2, DeliveryTypes DEF Box
  <2>4. \A q \in Reqs \ {r} : Box(q)' = Box(q)
    BY <2>1, DeliveryTypes DEF Box
  <2>5. Boxes[r] = "unused" /\ Boxes' = [Boxes EXCEPT ![r] = "open"]
    BY <2>3, <2>4 DEF Boxes
  <2>6. Slots!Open(r)
    BY <2>1, <2>2, <2>5 DEF Slots!Open, Alive
  <2> QED
    BY <2>1, <2>6 DEF PromisedStep, Slots!Next
<1>2. CASE CallTake(r) \/ TunnelTake(r)
  <2>1. /\ Alive /\ ch[r] # <<>> /\ ch' = [ch EXCEPT ![r] = Tail(@)]
        /\ got' = [got EXCEPT ![r] = Append(@, Head(ch[r]))]
        /\ UNCHANGED <<mode, pending, closed, panic>>
    BY <1>2 DEF CallTake, TunnelTake, ChanTake
  <2>2. \A q \in Reqs : caller'[q] = "idle" <=> caller[q] = "idle"
    BY <1>2, OnlyRegisterLeavesIdle DEF CallerStep
  <2>3. Slots!Fetch(r)
    BY <2>1, <2>2, BoxesUnchanged DEF Slots!Fetch, Alive
  <2> QED
    BY <2>1, <2>3 DEF PromisedStep, Slots!Next
<1>3. CASE CallCancel(r)
  <2>1. \A q \in Reqs : caller'[q] = "idle" <=> caller[q] = "idle"
    BY <1>3, OnlyRegisterLeavesIdle DEF CallerStep
  <2>2. Alive /\ CancelDelete(r) /\ UNCHANGED got
    BY <1>3 DEF CallCancel, callerOnly
  <2> QED
    BY <2>1, <2>2, CancelReleases
<1>4. CASE CallClose(r)
  <2>1. \A q \in Reqs : caller'[q] = "idle" <=> caller[q] = "idle"
    BY <1>4, OnlyRegisterLeavesIdle DEF CallerStep
  <2>2. Alive /\ CancelClose(r) /\ caller[r] = "closing" /\ UNCHANGED got
    BY <1>4 DEF CallClose, callerOnly
  <2>3. r \notin pending \cup closed
    BY <2>2 DEF OneCloser, SlotOwnership, CallerOwns
  <2> QED
    BY <2>1, <2>2, <2>3, CloseSeals
<1>5. CASE CallSend(r) \/ CallAtEnd(r) \/ CallAgentClosed(r) \/ TunnelAtEnd(r)
           \/ UserMoves(r)
  <2>1. UNCHANGED <<mode, pending, closed, panic, ch, got>>
    BY <1>5 DEF CallSend, CallAtEnd, CallAgentClosed, TunnelAtEnd, UserMoves,
       CallGiveUp, HandedOver, BodyClosed, TunnelClose, muxVars, callerOnly
  <2>2. \A q \in Reqs : caller'[q] = "idle" <=> caller[q] = "idle"
    BY <1>5, OnlyRegisterLeavesIdle DEF CallerStep
  <2> QED
    BY <2>1, <2>2, Stutters
<1> QED
  BY <1>1, <1>2, <1>3, <1>4, <1>5 DEF CallerStep, UserStep, UserMoves

LEMMA ReceiveLoopKeepsPromise ==
  ASSUME TypeOK, OneCloser, DeliveryInv, (\E r \in Reqs : Deliver(r)) \/ DeliverStep
  PROVE  PromisedStep
<1>1. UNCHANGED <<got, caller>>
  BY DEF Deliver, DeliverStep, DeliverSend, DeliverEvict, DeliverPush, OverflowSkip,
     OverflowDrain, OverflowMark, DeliverCancel, DeliverClose, rxOnly
<1>2. rx.at # "idle" => rx.req \in Reqs /\ rx.msg \in Msg /\ caller[rx.req] # "idle"
  BY RxFacts DEF TypeOK, DeliveryInv, OwnerIsThere
<1>3. CASE (\E r \in Reqs : Deliver(r)) \/ OverflowSkip
  <2>1. UNCHANGED muxVars
    BY <1>3 DEF Deliver, OverflowSkip
  <2> QED
    BY <1>1, <2>1, Stutters DEF muxVars
<1>4. CASE DeliverSend \/ DeliverPush
  BY <1>1, <1>4, SendPosts DEF DeliverSend, DeliverPush, InHand
<1>5. CASE DeliverEvict \/ OverflowDrain
  BY <1>1, <1>2, <1>5, DropDiscards
     DEF DeliverEvict, OverflowDrain, DeliveryInv, BranchFitsMode
<1>6. CASE OverflowMark
  <2> DEFINE r == rx.req
  <2>1. /\ Alive /\ rx.at = "drain" /\ r \in pending /\ r \notin closed /\ ch[r] = <<>>
        /\ ChanSend(r, OverflowMsg)
    BY <1>6 DEF OverflowMark, Routable
  <2>2. r \in Reqs /\ mode[r] = "tunnel"
    BY <1>2, <2>1 DEF DeliveryInv, BranchFitsMode
  <2>3. ~Full(r)
    <3>1. BufferSize(mode[r]) \in Nat \ {0}
      BY <2>2, BufferSizeType DEF Modes
    <3> QED
      BY <2>1, <3>1 DEF Full
  <2>4. /\ ch' = [ch EXCEPT ![r] = Append(@, OverflowMsg)]
        /\ UNCHANGED <<mode, pending, closed, panic>>
    BY <2>1, <2>2, <2>3, DeliveryTypes DEF ChanSend
  <2>5. ch' = [ch EXCEPT ![r] = <<OverflowMsg>>]
    BY <2>1, <2>2, <2>4, DeliveryTypes
  <2>6. Boxes' = Boxes /\ Boxes[r] = "open"
    BY <1>1, <2>1, <2>2, <2>4, BoxesUnchanged DEF Boxes, Box
  <2>7. Slots!Overflow(r)
    BY <1>1, <2>1, <2>2, <2>4, <2>5, <2>6 DEF Slots!Overflow, Alive
  <2> QED
    BY <2>1, <2>2, <2>7 DEF PromisedStep, Slots!Next
<1>7. CASE DeliverCancel
  BY <1>1, <1>2, <1>7, CancelReleases DEF DeliverCancel
<1>8. CASE DeliverClose
  <2>1. rx.req \notin pending \cup closed
    BY <1>2, <1>8 DEF DeliverClose, OneCloser, SlotOwnership, RxOwns
  <2> QED
    BY <1>1, <1>2, <1>8, <2>1, CloseSeals DEF DeliverClose
<1> QED
  BY <1>3, <1>4, <1>5, <1>6, <1>7, <1>8 DEF DeliverStep

LEMMA CloserKeepsPromise ==
  ASSUME TypeOK, OneCloser, CloseDropSender \/ CloserStep
  PROVE  PromisedStep
<1>1. UNCHANGED <<got, caller>>
  BY DEF CloseDropSender, CloserStep, CloseSignal, CloseSnapshot, CloseChan, CloseDone,
     CloseCancel, closerOnly
<1>2. CASE CloseDropSender \/ CloseSignal \/ CloseSnapshot \/ CloseDone
  <2>1. UNCHANGED muxVars
    BY <1>2 DEF CloseDropSender, CloseSignal, CloseSnapshot, CloseDone
  <2> QED
    BY <1>1, <2>1, Stutters DEF muxVars
<1>3. ASSUME NEW r \in Reqs, CloseCancel(r) PROVE PromisedStep
  BY <1>1, <1>3, CancelReleases DEF CloseCancel
<1>4. CASE CloseChan
  <2>1. Alive /\ closer.at = "close" /\ CancelClose(closer.cur)
    BY <1>4 DEF CloseChan
  <2>2. closer.cur \in Reqs
    BY <2>1 DEF TypeOK, CloserTypeOK, CloserAt
  <2>3. closer.cur \notin pending \cup closed /\ caller[closer.cur] # "idle"
    BY <2>1, <2>2 DEF OneCloser, SlotOwnership, CloserOwns
  <2> QED
    BY <1>1, <2>1, <2>2, <2>3, CloseSeals
<1> QED
  BY <1>2, <1>3, <1>4 DEF CloserStep

\* The goroutines of AgentProxy, in every interleaving, keep the promise of
\* RequestSlots to each caller: a slot is opened, released and sealed once and
\* hands its reader messages in the agent's order, each at most once, within
\* its buffer; the overflow marker only enters an open tunnel slot.
THEOREM SlotPromiseKept == Spec => KeepsSlotPromise
<1>1. Init => Slots!Init
  <2> SUFFICES ASSUME Init PROVE Slots!Init
    OBVIOUS
  <2>1. \A r \in Reqs : Box(r) = "unused"
    BY DEF Init, MuxInit, Box
  <2> QED
    BY <2>1 DEF Init, MuxInit, Slots!Init, Boxes, Alive
<1>2. TypeOK /\ OneCloser /\ DeliveryInv /\ [Next]_vars => PromisedStep
  <2> SUFFICES ASSUME TypeOK, OneCloser, DeliveryInv, [Next]_vars PROVE PromisedStep
    OBVIOUS
  <2>1. CASE Next
    BY <2>1, CallerKeepsPromise, ReceiveLoopKeepsPromise, CloserKeepsPromise DEF Next
  <2>2. CASE UNCHANGED vars
    BY <2>2, Stutters DEF vars, muxVars
  <2> QED
    BY <2>1, <2>2
<1>3. PromisedStep => [~(~Alive) /\ Slots!Next]_(Slots!vars)
  BY DEF PromisedStep
<1> QED
  BY <1>1, <1>2, <1>3, TypeCorrect, OneCloserInvariant, DeliveryInvariant, PTL
     DEF Spec, KeepsSlotPromise, Slots!Spec
-----------------------------------------------------------------------------
(* Saturation is honest.  SlotInv(r) is what the slot of r and its three   *)
(* goroutines owe each other, at every step of Deliver.                    *)

\* Where Deliver is on the slot of r.
Rx(r) == IF rx.req = r THEN rx.at ELSE "idle"

\* The kinds of message a slot of each mode meets.
Speaks(m) ==
  CASE m = "unary"  -> {"resp"}
    [] m = "watch"  -> {"event", "closed", "resp"}
    [] m = "tunnel" -> Kinds \ {"event"}
FromMode(s, m) == \A i \in DOMAIN s : s[i].kind \in Speaks(m)
NoEof(s) == \A i \in DOMAIN s : s[i].kind # "eof"

\* The caller reads its channel, and Close has not told it to stop.
Reading(r) == caller[r] \in {"waiting", "handing", "tunnel"} /\ ~ClosedSignal
LastWord(r) == ch[r] # <<>> /\ IsTerminal(ch[r][Len(ch[r])].kind, mode[r])

\* The agent does not answer a request it has not been sent.
FreshCall(r) ==
  /\ caller[r] \in {"idle", "registered"} => phase[r] = "none" /\ Rx(r) = "idle"
  /\ phase[r] = "none" => sent[r] = 0
  /\ caller[r] = "idle" => got[r] = <<>>

KindsFit(r) ==
  /\ FromMode(ch[r], mode[r]) /\ FromMode(got[r], mode[r])
  /\ InHand(r) => rx.msg.kind \in Speaks(mode[r])

\* While its caller reads, only Deliver itself takes the slot out of the map.
StillInMap(r) ==
  /\ Reading(r) /\ Rx(r) \in {"send", "evict", "push", "drain"} => r \in pending
  /\ caller[r] = "registered" /\ ~ClosedSignal => r \in pending

\* ... and it leaves a terminal message behind.
ReleasedWithLastWord(r) ==
  Reading(r) /\ (r \notin pending \/ Rx(r) = "delete") => LastWord(r)

\* Nobody else fills the room that the eviction made.
RoomToPush(r) == Rx(r) = "push" /\ r \notin closed => ~Full(r)

NewestKept(r) ==
  mode[r] = "watch" /\ r \in pending /\ ~InHand(r) /\ sent[r] > 0 =>
    \/ ch[r] # <<>> /\ ch[r][Len(ch[r])].n = sent[r]
    \/ ch[r] = <<>> /\ got[r] # <<>> /\ got[r][Len(got[r])].n = sent[r]

\* A tunnel has lost nothing that was sent for it while it was in the map ...
Numbered(r) ==
  /\ \A i \in DOMAIN got[r] : got[r][i].n = i
  /\ \A i \in DOMAIN ch[r] : ch[r][i].n = Len(got[r]) + i
Whole(r) ==
  /\ Numbered(r)
  /\ Rx(r) = "send" \/ (r \in pending /\ Rx(r) \notin {"drain", "delete"})
       => Len(got[r]) + Len(ch[r]) = Placed(r)
\* ... or terminateWithOverflow is at work or done, and no eof can come.
Cut(r) ==
  /\ NoEof(got[r]) /\ NoEof(ch[r])
  /\ Rx(r) # "send"
  /\ r \in pending => Rx(r) \in {"drain", "delete"}
TunnelTold(r) ==
  mode[r] = "tunnel" =>
    /\ r \in pending /\ Rx(r) # "delete" => NoEof(got[r]) /\ NoEof(ch[r])
    /\ Whole(r) \/ Cut(r)

AgentGone(r) == outcome[r] = "agent closed" => ClosedSignal

SlotInv(r) ==
  /\ FreshCall(r) /\ KindsFit(r) /\ AgentGone(r)
  /\ StillInMap(r) /\ ReleasedWithLastWord(r) /\ RoomToPush(r)
  /\ NewestKept(r) /\ TunnelTold(r)

SaturationInv == \A r \in Reqs : SlotInv(r)

LEMMA RxInHand ==
  \A r : /\ InHand(r) <=> Rx(r) \in {"send", "evict", "push"}
         /\ InHand(r)' <=> Rx(r)' \in {"send", "evict", "push"}
BY DEF InHand, Rx

LEMMA SlotTypes ==
  ASSUME TypeOK, NEW r \in Reqs
  PROVE  /\ ch[r] \in Seq(Msg) /\ got[r] \in Seq(Msg)
         /\ Len(ch[r]) \in Nat /\ Len(got[r]) \in Nat
         /\ sent[r] \in Nat /\ mode[r] \in Modes /\ caller[r] \in CallerAt
         /\ BufferSize(mode[r]) \in Nat \ {0}
         /\ Len(ch[r]) <= BufferSize(mode[r])
         /\ Rx(r) \in RxAt \cup {"idle"}
         /\ Rx(r) # "idle" <=> rx.req = r
         /\ Rx(r) # "idle" => rx.at = Rx(r) /\ rx.msg \in Msg
<1>1. /\ ch[r] \in Seq(Msg) /\ got[r] \in Seq(Msg)
      /\ sent[r] \in Nat /\ mode[r] \in Modes /\ caller[r] \in CallerAt
  BY DeliveryTypes
<1>2. Len(ch[r]) \in Nat /\ Len(got[r]) \in Nat
  BY <1>1
<1>3. BufferSize(mode[r]) \in Nat \ {0}
  BY <1>1, BufferSizeType
<1>4. Len(ch[r]) <= BufferSize(mode[r])
  BY DEF TypeOK, MuxTypeOK
<1>5. /\ Rx(r) \in RxAt \cup {"idle"}
      /\ Rx(r) # "idle" <=> rx.req = r
      /\ Rx(r) # "idle" => rx.at = Rx(r) /\ rx.msg \in Msg
  BY DeliveryTypes DEF Rx, RxIdle, RxAt
<1> QED
  BY <1>1, <1>2, <1>3, <1>4, <1>5

LEMMA SeqTail ==
  ASSUME NEW s \in Seq(Msg), s # <<>>
  PROVE  /\ Len(s) \in Nat \ {0} /\ Len(Tail(s)) = Len(s) - 1
         /\ Tail(s) \in Seq(Msg) /\ Head(s) \in Msg /\ Head(s) = s[1]
         /\ \A i \in DOMAIN Tail(s) : i + 1 \in DOMAIN s /\ Tail(s)[i] = s[i + 1]
         /\ Tail(s) # <<>> => Tail(s)[Len(Tail(s))] = s[Len(s)]
         /\ Tail(s) = <<>> => Len(s) = 1
         /\ DOMAIN s = 1 .. Len(s) /\ DOMAIN Tail(s) = 1 .. Len(s) - 1
<1>1. Len(s) \in Nat \ {0} /\ Len(Tail(s)) = Len(s) - 1
  OBVIOUS
<1>2. Tail(s) \in Seq(Msg) /\ Head(s) \in Msg /\ Head(s) = s[1]
  OBVIOUS
<1>3. DOMAIN s = 1 .. Len(s) /\ DOMAIN Tail(s) = 1 .. Len(s) - 1
  BY <1>1, <1>2
<1>4. \A i \in DOMAIN Tail(s) : i + 1 \in DOMAIN s /\ Tail(s)[i] = s[i + 1]
  OBVIOUS
<1>5. Tail(s) = <<>> => Len(s) = 1
  BY <1>1
<1>6. Tail(s) # <<>> => Tail(s)[Len(Tail(s))] = s[Len(s)]
  <2>1. Tail(s) # <<>> => Len(Tail(s)) \in DOMAIN Tail(s)
    BY <1>2
  <2> QED
    BY <1>1, <1>4, <2>1
<1> QED
  BY <1>1, <1>2, <1>3, <1>4, <1>5, <1>6

LEMMA SeqAppend ==
  ASSUME NEW s \in Seq(Msg), NEW m \in Msg
  PROVE  /\ Len(s) \in Nat /\ Len(Append(s, m)) = Len(s) + 1
         /\ Append(s, m) \in Seq(Msg) /\ Append(s, m) # <<>>
         /\ \A i \in DOMAIN s : Append(s, m)[i] = s[i]
         /\ Append(s, m)[Len(s) + 1] = m
         /\ DOMAIN s = 1 .. Len(s) /\ DOMAIN Append(s, m) = 1 .. Len(s) + 1
<1>1. Len(s) \in Nat /\ Len(Append(s, m)) = Len(s) + 1
  OBVIOUS
<1>2. Append(s, m) \in Seq(Msg) /\ Append(s, m) # <<>>
  BY <1>1
<1>3. DOMAIN s = 1 .. Len(s) /\ DOMAIN Append(s, m) = 1 .. Len(s) + 1
  BY <1>1, <1>2
<1>4. \A i \in DOMAIN s : Append(s, m)[i] = s[i]
  OBVIOUS
<1>5. Append(s, m)[Len(s) + 1] = m
  OBVIOUS
<1> QED
  BY <1>1, <1>2, <1>3, <1>4, <1>5

\* What the two ends of a channel do to the kinds in it.
LEMMA KindsMove ==
  ASSUME NEW s \in Seq(Msg), NEW m \in Msg, NEW k
  PROVE  /\ FromMode(s, k) /\ m.kind \in Speaks(k) => FromMode(Append(s, m), k)
         /\ NoEof(s) /\ m.kind # "eof" => NoEof(Append(s, m))
         /\ s # <<>> /\ FromMode(s, k) => FromMode(Tail(s), k) /\ Head(s).kind \in Speaks(k)
         /\ s # <<>> /\ NoEof(s) => NoEof(Tail(s)) /\ Head(s).kind # "eof"
<1>1. \A i \in DOMAIN Append(s, m) :
        (i \in DOMAIN s /\ Append(s, m)[i] = s[i]) \/ Append(s, m)[i] = m
  BY SeqAppend
<1>2. s # <<>> => /\ 1 \in DOMAIN s /\ Head(s) = s[1]
                  /\ \A i \in DOMAIN Tail(s) : i + 1 \in DOMAIN s /\ Tail(s)[i] = s[i + 1]
  BY SeqTail
<1> QED
  BY <1>1, <1>2 DEF FromMode, NoEof

-----------------------------------------------------------------------------
(* The steps that leave the slot's messages alone.                         *)

\* Of such a step it is enough to know that nobody who reads loses the slot,
\* and that who stops because the agent is gone is right.
LEMMA SlotCalm ==
  ASSUME NEW r \in Reqs, SlotInv(r), UNCHANGED mode,
         ch'[r] = ch[r], got'[r] = got[r], sent'[r] = sent[r], phase'[r] = phase[r],
         Rx(r)' = Rx(r), InHand(r) => rx'.msg = rx.msg,
         r \in pending' => r \in pending,
         r \in closed => r \in closed',
         ClosedSignal => ClosedSignal',
         Reading(r)' => Reading(r),
         ~ClosedSignal' /\ caller'[r] \in {"registered", "waiting", "handing", "tunnel"} =>
           (r \in pending => r \in pending'),
         caller'[r] \in {"idle", "registered"} => caller'[r] = caller[r],
         outcome'[r] = "agent closed" => outcome[r] = "agent closed" \/ ClosedSignal'
  PROVE  SlotInv(r)'
<1>1. InHand(r)' <=> InHand(r)
  BY RxInHand
<1>2. Placed(r)' = Placed(r)
  BY <1>1 DEF Placed
<1>3. FreshCall(r)' /\ AgentGone(r)'
  BY DEF SlotInv, FreshCall, AgentGone
<1>4. KindsFit(r)'
  BY <1>1 DEF SlotInv, KindsFit, FromMode
<1>5. StillInMap(r)'
  BY DEF SlotInv, StillInMap, Reading
<1>6. ReleasedWithLastWord(r)'
  BY DEF SlotInv, ReleasedWithLastWord, LastWord, Reading
<1>7. RoomToPush(r)'
  BY DEF SlotInv, RoomToPush, Full
<1>8. NewestKept(r)'
  BY <1>1 DEF SlotInv, NewestKept
<1>9. TunnelTold(r)'
  BY <1>2 DEF SlotInv, TunnelTold, Whole, Numbered, Cut, NoEof
<1> QED
  BY <1>3, <1>4, <1>5, <1>6, <1>7, <1>8, <1>9 DEF SlotInv

\* The closer may take any slot out of the map, but only after its signal.
LEMMA CloserSlots ==
  ASSUME TypeOK, SaturationInv, CloseDropSender \/ CloserStep
  PROVE  SaturationInv'
<1> SUFFICES ASSUME NEW r \in Reqs PROVE SlotInv(r)'
  BY DEF SaturationInv
<1>1. UNCHANGED <<mode, ch, got, sent, phase, rx, caller, outcome>>
  BY DEF CloseDropSender, CloserStep, CloseSignal, CloseSnapshot, CloseChan, CloseDone,
     CloseCancel, CancelDelete, CancelClose, muxVars, closerOnly
<1>2. closer \in [at : CloserAt \cup {"close"}, ids : SUBSET Reqs, cur : Reqs \cup {NoReq}]
  BY DEF TypeOK, CloserTypeOK, CloserAt
<1>3. ClosedSignal => ClosedSignal'
  <2>1. ASSUME NEW q \in Reqs, CloseCancel(q) PROVE closer'.at \in {"close", "sweep"}
    BY <2>1 DEF CloseCancel
  <2>2. CASE CloseDropSender \/ CloseSignal \/ CloseSnapshot \/ CloseChan \/ CloseDone
    BY <1>2, <2>2 DEF CloseDropSender, CloseSignal, CloseSnapshot, CloseChan, CloseDone,
       CloserGoto, ClosedSignal
  <2> QED
    BY <2>1, <2>2 DEF CloserStep, ClosedSignal
<1>4. /\ pending' \subseteq pending /\ closed \subseteq closed'
      /\ ~ClosedSignal' => pending' = pending
  <2>1. CASE CloseDropSender \/ CloseSignal \/ CloseSnapshot \/ CloseDone \/ CloseChan
    BY <2>1 DEF CloseDropSender, CloseSignal, CloseSnapshot, CloseDone, CloseChan,
       CancelClose, muxVars
  <2>2. ASSUME NEW q \in Reqs, CloseCancel(q)
        PROVE  pending' \subseteq pending /\ closed' = closed /\ ClosedSignal
    BY <2>2 DEF CloseCancel, CancelDelete, ClosedSignal
  <2> QED
    BY <1>3, <2>1, <2>2 DEF CloserStep
<1>5. Rx(r)' = Rx(r)
  BY <1>1 DEF Rx
<1>6. Reading(r)' => Reading(r)
  BY <1>1, <1>3 DEF Reading
<1>7. SlotInv(r)
  BY DEF SaturationInv
<1> QED
  BY <1>1, <1>3, <1>4, <1>5, <1>6, <1>7, SlotCalm

-----------------------------------------------------------------------------
(* The caller's own steps.                                                 *)

\* A slot on which nothing happens: another request's goroutines move.
LEMMA OtherCaller ==
  ASSUME NEW r \in Reqs, NEW q \in Reqs \ {r}, SlotInv(q), TypeOK,
         CallerStep(r) \/ UserStep(r)
  PROVE  SlotInv(q)'
<1>1. /\ caller \in [Reqs -> CallerAt] /\ ch \in [Reqs -> Seq(Msg)]
      /\ got \in [Reqs -> Seq(Msg)]
  BY DeliveryTypes
<1>2. outcome \in [Reqs -> Outcomes] /\ phase \in [Reqs -> Phases]
  BY DEF TypeOK, CallTypeOK
<1>3. UNCHANGED <<mode, sent, rx, closer>>
  BY DEF CallerStep, UserStep, CallRegister, Register, CallSend, CallTake, ChanTake,
     CallAtEnd, CallAgentClosed, TunnelTake, TunnelAtEnd, UserMoves, CallGiveUp,
     HandedOver, BodyClosed, TunnelClose, CallCancel, CallClose, CancelDelete,
     CancelClose, muxVars, callerOnly
<1>4. /\ ch'[q] = ch[q] /\ got'[q] = got[q] /\ phase'[q] = phase[q]
      /\ (q \in pending <=> q \in pending') /\ closed \subseteq closed'
  BY <1>1, <1>2 DEF CallerStep, UserStep, CallRegister, Register, CallSend, CallTake,
     ChanTake, CallAtEnd, CallAgentClosed, TunnelTake, TunnelAtEnd, UserMoves,
     CallGiveUp, HandedOver, BodyClosed, TunnelClose, CallCancel, CallClose,
     CancelDelete, CancelClose, muxVars, callerOnly
<1>5. caller'[q] = caller[q] /\ outcome'[q] = outcome[q]
  <2>1. CASE CallTake(r)
    BY <1>1, <1>2, <2>1, TakeModes
       DEF CallTake, Goto, Ended, WatchReads, HandshakeReads
  <2>2. CASE CallRegister(r) \/ CallSend(r) \/ CallAtEnd(r) \/ CallAgentClosed(r)
             \/ TunnelTake(r) \/ TunnelAtEnd(r) \/ UserMoves(r)
             \/ CallCancel(r) \/ CallClose(r)
    BY <1>1, <1>2, <2>2 DEF CallRegister, CallSend, CallAtEnd, CallAgentClosed,
       TunnelTake, TunnelAtEnd, UserMoves, CallGiveUp, HandedOver, BodyClosed,
       TunnelClose, CallCancel, CallClose, Goto, Ended, muxVars, callerOnly
  <2> QED
    BY <2>1, <2>2 DEF CallerStep, UserStep, UserMoves
<1>6. Rx(q)' = Rx(q) /\ (Reading(q)' => Reading(q)) /\ (ClosedSignal' <=> ClosedSignal)
  BY <1>3, <1>5 DEF Rx, Reading, ClosedSignal
<1> QED
  BY <1>3, <1>4, <1>5, <1>6, SlotCalm

LEMMA RegisterSlot ==
  ASSUME TypeOK, NEW r \in Reqs, SlotInv(r), CallRegister(r)
  PROVE  SlotInv(r)'
<1>1. /\ caller[r] = "idle" /\ caller'[r] = "registered" /\ ch'[r] = <<>>
      /\ r \in pending'
      /\ UNCHANGED <<mode, closed, outcome, got, phase, sent, rx, closer>>
  BY DeliveryTypes DEF CallRegister, Register, Goto, callerOnly
<1>2. phase[r] = "none" /\ sent[r] = 0 /\ got[r] = <<>> /\ Rx(r) = "idle"
  BY <1>1 DEF SlotInv, FreshCall
<1>3. Rx(r)' = "idle" /\ ~InHand(r)' /\ (ClosedSignal' <=> ClosedSignal)
  BY <1>1, <1>2, RxInHand DEF Rx, ClosedSignal
<1>4. FreshCall(r)' /\ AgentGone(r)'
  BY <1>1, <1>2, <1>3 DEF SlotInv, FreshCall, AgentGone
<1>5. KindsFit(r)'
  BY <1>1, <1>2, <1>3 DEF KindsFit, FromMode
<1>6. StillInMap(r)' /\ ReleasedWithLastWord(r)' /\ RoomToPush(r)'
  BY <1>1, <1>3 DEF StillInMap, ReleasedWithLastWord, RoomToPush, Reading
<1>7. NewestKept(r)'
  BY <1>1, <1>2 DEF NewestKept
<1>8. TunnelTold(r)'
  BY <1>1, <1>2, <1>3 DEF TunnelTold, Whole, Numbered, Placed, NoEof
<1> QED
  BY <1>4, <1>5, <1>6, <1>7, <1>8 DEF SlotInv

\* A request the agent gets has its slot in the map, and no reply yet.
LEMMA SendSlot ==
  ASSUME TypeOK, NEW r \in Reqs, SlotInv(r), CallSend(r)
  PROVE  SlotInv(r)'
<1>1. /\ caller[r] = "registered" /\ Rx(r) = "idle"
      /\ UNCHANGED <<mode, pending, ch, closed, got, sent, rx, closer>>
  BY DEF CallSend, muxVars, SlotInv, FreshCall
<1>2. /\ Rx(r)' = Rx(r) /\ (ClosedSignal' <=> ClosedSignal)
      /\ (InHand(r)' <=> InHand(r)) /\ Placed(r)' = Placed(r)
  BY <1>1, RxInHand DEF Rx, ClosedSignal, Placed
<1>3. CASE caller'[r] = "waiting" /\ phase'[r] = "open" /\ UNCHANGED outcome
  <2>1. FreshCall(r)' /\ AgentGone(r)'
    BY <1>2, <1>3 DEF SlotInv, FreshCall, AgentGone
  <2>2. KindsFit(r)'
    BY <1>1, <1>2 DEF SlotInv, KindsFit, FromMode
  <2>3. ~ClosedSignal => r \in pending
    BY <1>1 DEF SlotInv, StillInMap
  <2>4. StillInMap(r)' /\ ReleasedWithLastWord(r)' /\ RoomToPush(r)'
    BY <1>1, <1>2, <1>3, <2>3 DEF StillInMap, ReleasedWithLastWord, RoomToPush, Reading
  <2>5. NewestKept(r)'
    BY <1>1, <1>2 DEF SlotInv, NewestKept
  <2>6. TunnelTold(r)'
    BY <1>1, <1>2 DEF SlotInv, TunnelTold, Whole, Numbered, Cut, NoEof
  <2> QED
    BY <2>1, <2>2, <2>4, <2>5, <2>6 DEF SlotInv
<1>4. CASE caller'[r] = "cancel" /\ outcome'[r] = "send failed" /\ UNCHANGED phase
  BY <1>1, <1>2, <1>4, SlotCalm DEF Reading
<1>5. outcome \in [Reqs -> Outcomes] /\ phase \in [Reqs -> Phases]
  BY DEF TypeOK, CallTypeOK
<1> QED
  BY <1>3, <1>4, <1>5, DeliveryTypes DEF CallSend, Goto, Ended

\* Who gives up, or finds the agent gone, leaves the slot as it is.
LEMMA LeaveSlot ==
  ASSUME TypeOK, OneCloser, NEW r \in Reqs, SlotInv(r),
         CallAtEnd(r) \/ CallAgentClosed(r) \/ TunnelAtEnd(r) \/ CallGiveUp(r)
           \/ BodyClosed(r) \/ TunnelClose(r)
  PROVE  SlotInv(r)'
<1>1. /\ UNCHANGED <<mode, pending, ch, closed, got, sent, phase, rx, closer>>
  BY DEF CallAtEnd, CallAgentClosed, TunnelAtEnd, CallGiveUp, BodyClosed,
     TunnelClose, muxVars,
     callerOnly
<1>2. caller'[r] \in {"done", "cancel", "drained"}
  BY DeliveryTypes DEF CallAtEnd, CallAgentClosed, TunnelAtEnd, CallGiveUp, BodyClosed,
     TunnelClose,
     Goto, Ended
<1>3. Rx(r)' = Rx(r) /\ (ClosedSignal' <=> ClosedSignal) /\ ~Reading(r)'
  BY <1>1, <1>2 DEF Rx, ClosedSignal, Reading
<1>4. outcome'[r] = "agent closed" => outcome[r] = "agent closed" \/ ClosedSignal
  <2>1. outcome \in [Reqs -> Outcomes]
    BY DEF TypeOK, CallTypeOK
  <2>2. CASE CallAtEnd(r) \/ TunnelAtEnd(r)
    <3>1. caller[r] \in {"waiting", "tunnel"} /\ ch[r] = <<>> /\ r \in closed
      BY <2>2 DEF CallAtEnd, TunnelAtEnd, AtEnd
    <3>2. r \notin pending
      BY <3>1 DEF OneCloser, SlotOwnership
    <3> QED
      BY <3>1, <3>2 DEF SlotInv, ReleasedWithLastWord, LastWord, Reading
  <2>3. CASE CallAgentClosed(r)
    BY <2>3 DEF CallAgentClosed
  <2>4. CASE CallGiveUp(r) \/ BodyClosed(r) \/ TunnelClose(r)
    BY <2>1, <2>4 DEF CallGiveUp, BodyClosed, TunnelClose, Ended
  <2> QED
    BY <2>2, <2>3, <2>4
<1> QED
  BY <1>1, <1>2, <1>3, <1>4, SlotCalm

\* A message that is taken off the goroutine's hands lets it read on.
LEMMA HandedSlot ==
  ASSUME TypeOK, NEW r \in Reqs, SlotInv(r), HandedOver(r)
  PROVE  SlotInv(r)'
<1>1. UNCHANGED <<mode, pending, ch, closed, outcome, got, sent, phase, rx, closer>>
  BY DEF HandedOver, muxVars, callerOnly
<1>2. caller[r] = "handing" /\ caller'[r] \in {"waiting", "tunnel"}
  BY DeliveryTypes DEF HandedOver, Goto
<1>3. Rx(r)' = Rx(r) /\ (ClosedSignal' <=> ClosedSignal) /\ (Reading(r)' <=> Reading(r))
  BY <1>1, <1>2 DEF Rx, ClosedSignal, Reading
<1> QED
  BY <1>1, <1>2, <1>3, SlotCalm

LEMMA CancelSlot ==
  ASSUME TypeOK, NEW r \in Reqs, SlotInv(r), CallCancel(r) \/ CallClose(r)
  PROVE  SlotInv(r)'
<1>1. /\ UNCHANGED <<mode, ch, outcome, got, sent, phase, rx, closer>>
      /\ pending' \subseteq pending /\ closed \subseteq closed'
  BY DEF CallCancel, CallClose, CancelDelete, CancelClose, callerOnly
<1>2. caller'[r] \in {"done", "closing"}
  BY DeliveryTypes DEF CallCancel, CallClose, Goto
<1>3. Rx(r)' = Rx(r) /\ (ClosedSignal' <=> ClosedSignal) /\ ~Reading(r)'
  BY <1>1, <1>2 DEF Rx, ClosedSignal, Reading
<1> QED
  BY <1>1, <1>2, <1>3, SlotCalm

\* A caller that goes on reading has not read a terminal message.
LEMMA GoesOnReading ==
  ASSUME TypeOK, NEW r \in Reqs, SlotInv(r), CallTake(r) \/ TunnelTake(r)
  PROVE  /\ caller[r] \in {"waiting", "tunnel"}
         /\ caller'[r] \notin {"idle", "registered"}
         /\ caller'[r] \in {"waiting", "handing", "tunnel"} =>
              ~IsTerminal(Head(ch[r]).kind, mode[r])
         /\ outcome'[r] = "agent closed" => outcome[r] = "agent closed"
<1>1. caller \in [Reqs -> CallerAt]
  BY DeliveryTypes
<1>2. outcome \in [Reqs -> Outcomes]
  BY DEF TypeOK, CallTypeOK
<1>3. ch[r] # <<>> /\ ch[r] \in Seq(Msg)
  BY DeliveryTypes DEF CallTake, TunnelTake, ChanTake
<1>4. Head(ch[r]).kind \in Speaks(mode[r])
  BY <1>3, KindsMove, SeqTail DEF SlotInv, KindsFit
<1>5. CASE CallTake(r) /\ mode[r] = "unary"
  BY <1>1, <1>2, <1>5 DEF CallTake, Ended, Goto
<1>6. CASE CallTake(r) /\ mode[r] = "watch"
  BY <1>1, <1>2, <1>4, <1>6 DEF CallTake, WatchReads, Ended, Goto, IsTerminal
<1>7. CASE CallTake(r) /\ mode[r] = "tunnel"
  BY <1>1, <1>2, <1>7 DEF CallTake, HandshakeReads, Ended, Goto, IsTerminal
<1>8. CASE TunnelTake(r)
  BY <1>1, <1>2, <1>8 DEF TunnelTake, TunnelEnds, Ended, Goto, IsTerminal
<1> QED
  BY <1>5, <1>6, <1>7, <1>8, TakeModes

\* A message moves from the channel to its reader: what was newest stays so,
\* the numbering stays whole, and the last word is the last to be read.
LEMMA TakeSlot ==
  ASSUME TypeOK, NEW r \in Reqs, SlotInv(r), CallTake(r) \/ TunnelTake(r)
  PROVE  SlotInv(r)'
<1> DEFINE s == ch[r]
           g == got[r]
           t == Tail(ch[r])
           a == Append(got[r], Head(ch[r]))
<1>1. /\ s # <<>> /\ ch'[r] = t /\ got'[r] = a
      /\ UNCHANGED <<mode, pending, closed, sent, phase, rx, closer>>
  BY DeliveryTypes DEF CallTake, TunnelTake, ChanTake
<1>2. /\ s \in Seq(Msg) /\ g \in Seq(Msg) /\ Head(s) \in Msg
  BY <1>1, SlotTypes, SeqTail
<1>3. /\ Rx(r)' = Rx(r) /\ (ClosedSignal' <=> ClosedSignal)
      /\ (InHand(r)' <=> InHand(r)) /\ Placed(r)' = Placed(r)
  BY <1>1, RxInHand DEF Rx, ClosedSignal, Placed
<1>4. /\ caller[r] \in {"waiting", "tunnel"}
      /\ caller'[r] \notin {"idle", "registered"}
      /\ Reading(r)' => Reading(r) /\ ~IsTerminal(Head(s).kind, mode[r])
      /\ outcome'[r] = "agent closed" => outcome[r] = "agent closed"
  BY <1>3, GoesOnReading DEF Reading
<1>5. /\ Len(s) \in Nat \ {0} /\ Len(t) = Len(s) - 1
      /\ Head(s) = s[1]
      /\ \A i \in DOMAIN t : i + 1 \in DOMAIN s /\ t[i] = s[i + 1]
      /\ t # <<>> => t[Len(t)] = s[Len(s)]
      /\ t = <<>> => Len(s) = 1
      /\ 1 \in DOMAIN s
  BY <1>1, <1>2, SeqTail
<1>6. /\ Len(g) \in Nat /\ Len(a) = Len(g) + 1 /\ a # <<>>
      /\ \A i \in DOMAIN g : a[i] = g[i]
      /\ a[Len(g) + 1] = Head(s)
      /\ DOMAIN g = 1 .. Len(g) /\ DOMAIN a = 1 .. Len(g) + 1
  BY <1>2, SeqAppend
<1>7. /\ FromMode(s, mode[r]) /\ FromMode(g, mode[r]) =>
           FromMode(t, mode[r]) /\ FromMode(a, mode[r])
      /\ NoEof(s) /\ NoEof(g) => NoEof(t) /\ NoEof(a)
  BY <1>1, <1>2, KindsMove
<1>8. /\ \A i \in DOMAIN ch'[r] : ch'[r][i] = s[i + 1] /\ i + 1 \in DOMAIN s
      /\ DOMAIN got'[r] = 1 .. Len(g) + 1
  BY <1>1, <1>5, <1>6
<1> HIDE DEF s, g, t, a
<1>9. FreshCall(r)' /\ AgentGone(r)'
  BY <1>1, <1>3, <1>4 DEF SlotInv, FreshCall, AgentGone
<1>10. KindsFit(r)'
  BY <1>1, <1>3, <1>7 DEF SlotInv, KindsFit, s, g
<1>11. StillInMap(r)'
  BY <1>1, <1>3, <1>4 DEF SlotInv, StillInMap
<1>12. ReleasedWithLastWord(r)'
  <2> SUFFICES ASSUME Reading(r)', r \notin pending \/ Rx(r) = "delete"
               PROVE  LastWord(r)'
    BY <1>1, <1>3 DEF ReleasedWithLastWord
  <2>1. LastWord(r) /\ ~IsTerminal(Head(s).kind, mode[r])
    BY <1>4 DEF SlotInv, ReleasedWithLastWord
  <2>2. t # <<>>
    BY <1>5, <2>1 DEF LastWord, s
  <2> QED
    BY <1>1, <1>5, <2>1, <2>2 DEF LastWord, s
<1>13. RoomToPush(r)'
  <2>1. BufferSize(mode[r]) \in Nat
    BY SlotTypes
  <2>2. Full(r)' => Full(r)
    BY <1>1, <1>5, <2>1 DEF Full, s
  <2> QED
    BY <1>1, <1>3, <2>2 DEF SlotInv, RoomToPush
<1>14. NewestKept(r)'
  <2> SUFFICES ASSUME mode[r] = "watch", r \in pending, ~InHand(r), sent[r] > 0
               PROVE  \/ t # <<>> /\ t[Len(t)].n = sent[r]
                      \/ t = <<>> /\ a # <<>> /\ a[Len(a)].n = sent[r]
    BY <1>1, <1>3 DEF NewestKept
  <2>1. s[Len(s)].n = sent[r]
    BY <1>1 DEF SlotInv, NewestKept, s
  <2>2. t = <<>> => a[Len(a)] = s[Len(s)]
    BY <1>5, <1>6
  <2> QED
    BY <1>5, <1>6, <2>1, <2>2
<1>15. TunnelTold(r)'
  <2> SUFFICES ASSUME mode[r] = "tunnel"
               PROVE  /\ r \in pending /\ Rx(r) # "delete" => NoEof(a) /\ NoEof(t)
                      /\ Whole(r)' \/ Cut(r)'
    BY <1>1, <1>3 DEF TunnelTold
  <2>1. r \in pending /\ Rx(r) # "delete" => NoEof(a) /\ NoEof(t)
    BY <1>7 DEF SlotInv, TunnelTold, s, g
  <2>2. ASSUME Cut(r) PROVE Cut(r)'
    BY <1>1, <1>3, <1>7, <2>2 DEF Cut, s, g
  <2>3. ASSUME Whole(r) PROVE Whole(r)'
    <3>1. s[1].n = Len(g) + 1
      BY <1>5, <2>3 DEF Whole, Numbered, s, g
    <3>2. \A i \in DOMAIN got'[r] : got'[r][i].n = i
      <4> SUFFICES ASSUME NEW i \in 1 .. Len(g) + 1 PROVE a[i].n = i
        BY <1>1, <1>8
      <4>1. CASE i \in DOMAIN g
        BY <1>6, <2>3, <4>1 DEF Whole, Numbered, g
      <4>2. CASE i \notin DOMAIN g
        BY <1>5, <1>6, <3>1, <4>2
      <4> QED
        BY <4>1, <4>2
    <3>3. \A i \in DOMAIN ch'[r] : ch'[r][i].n = Len(got'[r]) + i
      <4> SUFFICES ASSUME NEW i \in DOMAIN ch'[r] PROVE s[i + 1].n = Len(g) + 1 + i
        BY <1>1, <1>6, <1>8
      <4>1. s[i + 1].n = Len(g) + (i + 1)
        BY <1>8, <2>3 DEF Whole, Numbered, s, g
      <4>2. i \in Nat
        BY <1>1, <1>2 DEF t
      <4> QED
        BY <1>6, <4>1, <4>2
    <3>4. Len(got'[r]) + Len(ch'[r]) = Len(got[r]) + Len(ch[r])
      <4>1. Len(ch'[r]) = Len(s) - 1 /\ Len(got'[r]) = Len(g) + 1
        BY <1>1, <1>5, <1>6
      <4>2. PICK m \in Nat, n \in Nat : m = Len(s) /\ n = Len(g)
        BY <1>5, <1>6
      <4>3. (n + 1) + (m - 1) = n + m
        OBVIOUS
      <4> QED
        BY <4>1, <4>2, <4>3 DEF s, g
    <3> QED
      BY <1>1, <1>3, <2>3, <3>2, <3>3, <3>4 DEF Whole, Numbered
  <2> QED
    BY <2>1, <2>2, <2>3 DEF SlotInv, TunnelTold
<1> QED
  BY <1>9, <1>10, <1>11, <1>12, <1>13, <1>14, <1>15 DEF SlotInv

LEMMA CallerSlots ==
  ASSUME TypeOK, OneCloser, SaturationInv, NEW r \in Reqs, CallerStep(r) \/ UserStep(r)
  PROVE  SaturationInv'
<1>1. \A q \in Reqs : SlotInv(q)
  BY DEF SaturationInv
<1>2. \A q \in Reqs \ {r} : SlotInv(q)'
  BY <1>1, OtherCaller
<1>3. SlotInv(r)'
  BY <1>1, RegisterSlot, SendSlot, LeaveSlot, HandedSlot, CancelSlot, TakeSlot
     DEF CallerStep, UserStep, UserMoves
<1> QED
  BY <1>2, <1>3 DEF SaturationInv

-----------------------------------------------------------------------------
(* Deliver finds the slot.                                                 *)

LEMMA RepliesFit ==
  ASSUME NEW m \in Modes, NEW p, NEW reply \in Replies(m, p)
  PROVE  reply[1] \in Speaks(m) /\ reply[2] # "none" /\ p # "none"
BY DEF Replies, Speaks, Modes, Kinds

LEMMA DeliverSlot ==
  ASSUME TypeOK, OneCloser, NEW r \in Reqs, SlotInv(r), Deliver(r)
  PROVE  SlotInv(r)'
<1>1. /\ rx.at = "idle"
      /\ UNCHANGED <<mode, pending, ch, closed, caller, outcome, got, closer>>
      /\ sent'[r] = sent[r] + 1
  BY DeliveryTypes DEF Deliver, muxVars
<1>2. PICK reply \in Replies(mode[r], phase[r]) :
        /\ phase' = [phase EXCEPT ![r] = reply[2]]
        /\ rx' = IF Routable(r)
                   THEN [at |-> "send", req |-> r,
                         msg |-> [kind |-> reply[1], n |-> sent[r] + 1]]
                   ELSE rx
  BY DEF Deliver
<1>3. reply[1] \in Speaks(mode[r]) /\ reply[2] # "none" /\ phase[r] # "none"
  BY <1>2, RepliesFit, SlotTypes
<1>4. phase'[r] # "none"
  BY <1>2, <1>3 DEF TypeOK, CallTypeOK
<1>5. caller[r] \notin {"idle", "registered"} /\ Rx(r) = "idle" /\ ~InHand(r)
  BY <1>1, <1>3 DEF SlotInv, FreshCall, Rx, InHand
<1>6. /\ Routable(r) => Rx(r)' = "send" /\ InHand(r)' /\ rx'.msg.kind = reply[1]
      /\ ~Routable(r) => Rx(r)' = "idle" /\ ~InHand(r)'
  BY <1>1, <1>2, <1>5 DEF Rx, InHand
<1>7. Routable(r) <=> r \in pending
  BY DEF OneCloser, SlotOwnership, Routable
<1>8. FreshCall(r)' /\ AgentGone(r)'
  BY <1>1, <1>4, <1>5 DEF SlotInv, FreshCall, AgentGone, ClosedSignal
<1>9. KindsFit(r)'
  BY <1>1, <1>3, <1>6 DEF SlotInv, KindsFit, FromMode
<1>10. StillInMap(r)' /\ ReleasedWithLastWord(r)' /\ RoomToPush(r)' /\ NewestKept(r)'
  BY <1>1, <1>5, <1>6, <1>7 DEF SlotInv, StillInMap, ReleasedWithLastWord, RoomToPush,
     NewestKept, Reading, ClosedSignal, LastWord
<1>11. TunnelTold(r)'
  <2> SUFFICES ASSUME mode[r] = "tunnel" PROVE TunnelTold(r)'
    BY <1>1 DEF TunnelTold
  <2>1. (r \in pending /\ Rx(r) # "delete" => NoEof(got[r]) /\ NoEof(ch[r]))'
    BY <1>1, <1>5 DEF SlotInv, TunnelTold, NoEof
  <2>2. ASSUME Cut(r) PROVE Cut(r)'
    BY <1>1, <1>5, <1>6, <1>7, <2>2 DEF Cut, NoEof
  <2>3. ASSUME Whole(r) PROVE Whole(r)'
    <3>1. Numbered(r)'
      BY <1>1, <2>3 DEF Whole, Numbered
    <3>2. r \in pending => Len(got[r]) + Len(ch[r]) = sent[r]
      BY <1>5, <2>3 DEF Whole, Placed
    <3>3. Routable(r) => Placed(r)' = sent[r]
      <4>1. sent[r] \in Nat
        BY SlotTypes
      <4> QED
        BY <1>1, <1>6, <4>1 DEF Placed
    <3> QED
      BY <1>1, <1>6, <1>7, <3>1, <3>2, <3>3 DEF Whole
  <2> QED
    BY <1>1, <2>1, <2>2, <2>3 DEF SlotInv, TunnelTold
<1> QED
  BY <1>8, <1>9, <1>10, <1>11 DEF SlotInv

\* The receive loop moves on another slot, or finds none.
LEMMA OtherRx ==
  ASSUME NEW q \in Reqs, SlotInv(q), Rx(q) = "idle", Rx(q)' = "idle",
         UNCHANGED <<mode, caller, outcome, got, closer>>,
         ch'[q] = ch[q], sent'[q] = sent[q], phase'[q] = phase[q],
         q \in pending <=> q \in pending', closed \subseteq closed'
  PROVE  SlotInv(q)'
<1>1. ~InHand(q) /\ (Reading(q)' => Reading(q)) /\ (ClosedSignal' <=> ClosedSignal)
  BY RxInHand DEF Reading, ClosedSignal
<1> QED
  BY <1>1, SlotCalm

LEMMA DeliverSlots ==
  ASSUME TypeOK, OneCloser, SaturationInv, NEW r \in Reqs, Deliver(r)
  PROVE  SaturationInv'
<1>1. \A q \in Reqs : SlotInv(q)
  BY DEF SaturationInv
<1>2. ASSUME NEW q \in Reqs \ {r} PROVE SlotInv(q)'
  <2>1. /\ UNCHANGED <<mode, pending, ch, closed, caller, outcome, got, closer>>
        /\ sent'[q] = sent[q] /\ phase'[q] = phase[q]
    BY DeliveryTypes DEF Deliver, muxVars, TypeOK, CallTypeOK
  <2>2. Rx(q) = "idle" /\ Rx(q)' = "idle"
    BY DEF Deliver, Rx
  <2> QED
    BY <1>1, <2>1, <2>2, OtherRx
<1> QED
  BY <1>1, <1>2, DeliverSlot DEF SaturationInv

-----------------------------------------------------------------------------
(* Deliver at work on a slot.                                              *)

\* What no step of the receive loop on the slot of r touches.
RxFrame(r) ==
  /\ Rx(r) # "idle"
  /\ UNCHANGED <<mode, caller, outcome, got, phase, sent, closer>>

LEMMA RxFrameKeeps ==
  ASSUME NEW r \in Reqs, SlotInv(r), RxFrame(r)
  PROVE  /\ FreshCall(r)' /\ AgentGone(r)'
         /\ caller[r] \notin {"idle", "registered"}
         /\ Reading(r)' <=> Reading(r)
         /\ FromMode(got'[r], mode'[r])
         /\ Rx(r)' # "send" /\ (Reading(r) => r \in pending') => StillInMap(r)'
         /\ Rx(r)' \in {"idle", "delete", "close"} => StillInMap(r)'
<1>1. caller[r] \notin {"idle", "registered"} /\ (Reading(r)' <=> Reading(r))
  BY DEF SlotInv, FreshCall, RxFrame, Reading, ClosedSignal
<1>2. FreshCall(r)' /\ AgentGone(r)' /\ FromMode(got'[r], mode'[r])
  BY <1>1 DEF SlotInv, FreshCall, AgentGone, KindsFit, RxFrame, ClosedSignal
<1>3. /\ Rx(r)' # "send" /\ (Reading(r) => r \in pending') => StillInMap(r)'
      /\ Rx(r)' \in {"idle", "delete", "close"} => StillInMap(r)'
  BY <1>1 DEF StillInMap, RxFrame
<1> QED
  BY <1>1, <1>2, <1>3

\* The message is placed: it is the newest, and if it is the last one it stays
\* in the buffer for the reader when the slot goes.
LEMMA PlaceSlot ==
  ASSUME TypeOK, OneCloser, DeliveryInv, NEW r \in Reqs, SlotInv(r), RxFrame(r),
         Rx(r) \in {"send", "push"}, ch'[r] = Append(ch[r], rx.msg),
         UNCHANGED <<pending, closed>>,
         Rx(r)' = AfterSend(r, rx.msg)
  PROVE  SlotInv(r)'
<1> DEFINE s == ch[r]
           g == got[r]
           a == Append(ch[r], rx.msg)
<1>1. rx.msg \in Msg /\ s \in Seq(Msg) /\ g \in Seq(Msg)
  BY SlotTypes
<1>2. InHand(r) /\ rx.msg.n = sent[r] /\ rx.msg.kind \in Speaks(mode[r])
  BY RxInHand DEF DeliveryInv, MessagesInOrder, SlotInv, KindsFit
<1>3. Rx(r)' \in {"delete", "idle"} /\ ~InHand(r)'
  BY AfterSendType, RxInHand
<1>4. Rx(r)' = "delete" <=> IsTerminal(rx.msg.kind, mode[r])
  BY DEF AfterSend
<1>5. /\ Len(s) \in Nat /\ Len(a) = Len(s) + 1 /\ a # <<>>
      /\ \A i \in DOMAIN s : a[i] = s[i]
      /\ a[Len(s) + 1] = rx.msg
      /\ DOMAIN s = 1 .. Len(s) /\ DOMAIN a = 1 .. Len(s) + 1
  BY <1>1, SeqAppend
<1>6. FromMode(a, mode[r])
  BY <1>1, <1>2, KindsMove DEF SlotInv, KindsFit
<1>7. NoEof(s) /\ rx.msg.kind # "eof" => NoEof(a)
  BY <1>1, KindsMove
<1>8. ch'[r] = a
  OBVIOUS
<1> HIDE DEF s, g, a
<1>9. FreshCall(r)' /\ AgentGone(r)' /\ StillInMap(r)' /\ FromMode(got'[r], mode'[r])
  BY <1>3, RxFrameKeeps
<1>10. KindsFit(r)'
  BY <1>3, <1>6, <1>8, <1>9 DEF KindsFit, RxFrame
<1>11. ReleasedWithLastWord(r)'
  <2> SUFFICES ASSUME Reading(r)', r \notin pending \/ Rx(r)' = "delete"
               PROVE  LastWord(r)'
    BY DEF ReleasedWithLastWord
  <2>1. Rx(r)' = "delete"
    BY RxFrameKeeps DEF SlotInv, StillInMap
  <2>2. a[Len(a)] = rx.msg
    BY <1>5
  <2> QED
    BY <1>4, <1>5, <1>8, <2>1, <2>2 DEF LastWord, RxFrame
<1>12. RoomToPush(r)'
  BY <1>3 DEF RoomToPush
<1>13. NewestKept(r)'
  <2>1. a[Len(a)].n = sent[r]
    BY <1>2, <1>5
  <2> QED
    BY <1>5, <1>8, <2>1 DEF NewestKept, RxFrame
<1>14. TunnelTold(r)'
  <2> SUFFICES ASSUME mode[r] = "tunnel" PROVE TunnelTold(r)'
    BY DEF TunnelTold, RxFrame
  <2>1. Rx(r) = "send" /\ rx.at = Rx(r) /\ rx.req = r
    BY SlotTypes DEF DeliveryInv, BranchFitsMode
  <2>2. Whole(r)
    BY <2>1 DEF SlotInv, TunnelTold, Cut
  <2>3. sent[r] = Len(g) + Len(s) + 1
    <3>1. Len(g) + Len(s) = sent[r] - 1
      BY <1>2, <2>1, <2>2 DEF Whole, Placed, s, g
    <3>2. sent[r] \in Nat /\ Len(g) \in Nat
      BY SlotTypes DEF g
    <3> QED
      BY <1>5, <3>1, <3>2
  <2>4. (r \in pending /\ Rx(r) # "delete" => NoEof(got[r]) /\ NoEof(ch[r]))'
    <3> SUFFICES ASSUME r \in pending, Rx(r)' # "delete" PROVE NoEof(g) /\ NoEof(a)
      BY <1>8 DEF RxFrame, g
    <3>1. rx.msg.kind # "eof"
      BY <1>4 DEF IsTerminal
    <3>2. NoEof(g) /\ NoEof(s)
      BY <2>1 DEF SlotInv, TunnelTold, s, g
    <3> QED
      BY <1>7, <3>1, <3>2
  <2>5. Whole(r)'
    <3>1. got'[r] = g /\ Len(g) \in Nat
      BY SlotTypes DEF RxFrame, g
    <3>2. \A i \in DOMAIN a : a[i].n = Len(g) + i
      <4> SUFFICES ASSUME NEW i \in 1 .. Len(s) + 1 PROVE a[i].n = Len(g) + i
        BY <1>5
      <4>1. CASE i \in DOMAIN s
        BY <1>5, <2>2, <4>1 DEF Whole, Numbered, s, g
      <4>2. CASE i = Len(s) + 1
        BY <1>2, <1>5, <2>3, <3>1, <4>2
      <4> QED
        BY <1>5, <4>1, <4>2
    <3>3. Numbered(r)'
      BY <1>8, <2>2, <3>1, <3>2 DEF Whole, Numbered, g
    <3>4. Len(g) + Len(a) = sent[r]
      BY <1>5, <2>3, <3>1
    <3>5. Placed(r)' = sent[r]
      BY <1>3 DEF Placed, RxFrame
    <3> QED
      BY <1>8, <3>1, <3>3, <3>4, <3>5 DEF Whole
  <2> QED
    BY <2>4, <2>5 DEF TunnelTold
<1> QED
  BY <1>9, <1>10, <1>11, <1>12, <1>13, <1>14 DEF SlotInv

\* The message is dropped: on a unary slot, which has its one reply already,
\* or because the process dies of a slot somebody else has closed.
LEMMA DropSlot ==
  ASSUME TypeOK, OneCloser, DeliveryInv, NEW r \in Reqs, SlotInv(r), RxFrame(r),
         Rx(r) \in {"send", "push"}, ch'[r] = ch[r], UNCHANGED <<pending, closed>>,
         r \in closed \/ (Full(r) /\ mode[r] = "unary"),
         Rx(r)' = AfterSend(r, rx.msg)
  PROVE  SlotInv(r)'
<1>1. Rx(r)' \in {"delete", "idle"} /\ ~InHand(r)'
  BY AfterSendType, RxInHand
<1>2. FreshCall(r)' /\ AgentGone(r)' /\ StillInMap(r)' /\ FromMode(got'[r], mode'[r])
  BY <1>1, RxFrameKeeps
<1>3. KindsFit(r)' /\ RoomToPush(r)'
  BY <1>1, <1>2 DEF SlotInv, KindsFit, RoomToPush, RxFrame, FromMode
<1>4. mode[r] # "unary" => r \notin pending
  BY DEF OneCloser, SlotOwnership
<1>5. ReleasedWithLastWord(r)'
  <2> SUFFICES ASSUME Reading(r)' PROVE LastWord(r)'
    BY DEF ReleasedWithLastWord
  <2>1. r \in pending /\ r \notin closed
    BY RxFrameKeeps DEF SlotInv, StillInMap, OneCloser, SlotOwnership
  <2>2. Len(ch[r]) >= 1 /\ ch[r] \in Seq(Msg) /\ mode[r] = "unary"
    BY <2>1, SlotTypes DEF Full
  <2>3. ch[r] # <<>> /\ Len(ch[r]) \in DOMAIN ch[r]
    BY <2>2
  <2>4. ch[r][Len(ch[r])].kind = "resp"
    BY <2>2, <2>3 DEF SlotInv, KindsFit, FromMode, Speaks
  <2> QED
    BY <2>3, <2>4 DEF LastWord, RxFrame, IsTerminal
<1>6. NewestKept(r)'
  BY <1>4 DEF NewestKept, RxFrame
<1>7. TunnelTold(r)'
  BY <1>1, <1>4 DEF SlotInv, TunnelTold, Whole, Numbered, Cut, NoEof, RxFrame
<1> QED
  BY <1>2, <1>3, <1>5, <1>6, <1>7 DEF SlotInv

\* A full watch or tunnel slot: Deliver keeps the mutex or its message for the
\* next step, and makes room on a watch.
LEMMA SaturatedSlot ==
  ASSUME TypeOK, OneCloser, DeliveryInv, NEW r \in Reqs, SlotInv(r), RxFrame(r),
         Rx(r) \in {"send", "evict"}, UNCHANGED <<pending, closed>>,
         \/ ch'[r] = ch[r]
         \/ ch[r] # <<>> /\ ch'[r] = Tail(ch[r]) /\ mode[r] = "watch",
         \/ Rx(r)' = "evict" /\ mode[r] = "watch"
         \/ Rx(r)' = "push" /\ mode[r] = "watch" /\ ~Full(r)'
         \/ Rx(r)' = "drain" /\ mode[r] = "tunnel",
         InHand(r)' => rx'.msg = rx.msg
  PROVE  SlotInv(r)'
<1>1. InHand(r) /\ (mode[r] = "watch" => InHand(r)') /\ mode[r] # "unary"
  BY RxInHand
<1>2. Reading(r) => r \in pending
  BY DEF SlotInv, StillInMap
<1>3. FreshCall(r)' /\ AgentGone(r)' /\ StillInMap(r)' /\ FromMode(got'[r], mode'[r])
  BY <1>2, RxFrameKeeps
<1>4. KindsFit(r)'
  <2>1. FromMode(ch'[r], mode[r])
    BY SlotTypes, KindsMove DEF SlotInv, KindsFit
  <2> QED
    BY <1>1, <1>3, <2>1 DEF SlotInv, KindsFit, RxFrame
<1>5. ReleasedWithLastWord(r)' /\ RoomToPush(r)' /\ NewestKept(r)'
  BY <1>1, <1>2, RxFrameKeeps DEF ReleasedWithLastWord, RoomToPush, NewestKept, RxFrame
<1>6. TunnelTold(r)'
  <2> SUFFICES ASSUME mode[r] = "tunnel" PROVE TunnelTold(r)'
    BY DEF TunnelTold, RxFrame
  <2>1. ch'[r] = ch[r] /\ Rx(r)' = "drain"
    OBVIOUS
  <2> QED
    BY <2>1 DEF SlotInv, TunnelTold, Whole, Numbered, Cut, NoEof, RxFrame
<1> QED
  BY <1>3, <1>4, <1>5, <1>6 DEF SlotInv

\* terminateWithOverflow: the mutex is held and no eof has been placed, so the
\* frames it drops are the end of the stream for the reader.
LEMMA DrainSlot ==
  ASSUME TypeOK, OneCloser, DeliveryInv, NEW r \in Reqs, SlotInv(r), RxFrame(r),
         Rx(r) = "drain", r \in pending, UNCHANGED <<pending, closed>>,
         \/ Rx(r)' = "drain" /\ ch[r] # <<>> /\ ch'[r] = Tail(ch[r])
         \/ Rx(r)' = "delete" /\ ch'[r] = <<OverflowMsg>>
  PROVE  SlotInv(r)'
<1>1. mode[r] = "tunnel" /\ ~InHand(r)'
  BY SlotTypes, RxInHand DEF DeliveryInv, BranchFitsMode
<1>2. ch'[r] = <<OverflowMsg>> =>
        /\ DOMAIN ch'[r] = {1} /\ Len(ch'[r]) = 1 /\ ch'[r] # <<>>
        /\ ch'[r][1].kind = "overflow"
  BY DEF OverflowMsg
<1>3. FreshCall(r)' /\ AgentGone(r)' /\ StillInMap(r)' /\ FromMode(got'[r], mode'[r])
  BY RxFrameKeeps
<1>4. NoEof(got[r]) /\ NoEof(ch[r])
  BY <1>1 DEF SlotInv, TunnelTold
<1>5. KindsFit(r)'
  <2>1. "overflow" \in Speaks("tunnel")
    BY DEF Speaks, Kinds
  <2>2. CASE ch'[r] = <<OverflowMsg>>
    BY <1>1, <1>2, <1>3, <2>1, <2>2 DEF KindsFit, FromMode, RxFrame
  <2>3. CASE ch[r] # <<>> /\ ch'[r] = Tail(ch[r])
    BY <1>1, <1>3, <2>3, SlotTypes, KindsMove DEF SlotInv, KindsFit, RxFrame
  <2> QED
    BY <2>2, <2>3
<1>6. ReleasedWithLastWord(r)'
  <2>1. Rx(r)' = "delete" => LastWord(r)'
    BY <1>2 DEF LastWord, IsTerminal
  <2> QED
    BY <2>1 DEF ReleasedWithLastWord
<1>7. RoomToPush(r)' /\ NewestKept(r)'
  BY <1>1 DEF RoomToPush, NewestKept, RxFrame
<1>8. TunnelTold(r)'
  <2>1. NoEof(ch'[r])
    <3>1. CASE ch'[r] = <<OverflowMsg>>
      BY <1>2, <3>1 DEF NoEof
    <3>2. CASE ch[r] # <<>> /\ ch'[r] = Tail(ch[r])
      <4>1. ch[r] \in Seq(Msg) /\ Head(ch[r]) \in Msg
        BY <3>2, SlotTypes, SeqTail
      <4> QED
        BY <1>4, <3>2, <4>1, KindsMove
    <3> QED
      BY <3>1, <3>2
  <2> QED
    BY <1>4, <2>1 DEF TunnelTold, Cut, RxFrame
<1> QED
  BY <1>3, <1>5, <1>6, <1>7, <1>8 DEF SlotInv

\* Deliver leaves a slot that is out of the map, or takes it out itself.
LEMMA ReleaseSlot ==
  ASSUME TypeOK, NEW r \in Reqs, SlotInv(r), RxFrame(r),
         ch'[r] = ch[r], r \in closed => r \in closed',
         Rx(r) \in {"drain", "delete", "close"}, r \notin pending',
         r \in pending => Rx(r) = "delete",
         Rx(r)' \in {"idle", "close"}
  PROVE  SlotInv(r)'
<1>1. ~InHand(r)'
  BY RxInHand
<1>2. FreshCall(r)' /\ AgentGone(r)' /\ StillInMap(r)' /\ FromMode(got'[r], mode'[r])
  BY RxFrameKeeps
<1>3. KindsFit(r)' /\ RoomToPush(r)' /\ NewestKept(r)'
  BY <1>1, <1>2 DEF SlotInv, KindsFit, RoomToPush, NewestKept, RxFrame, FromMode
<1>4. ReleasedWithLastWord(r)'
  BY RxFrameKeeps DEF SlotInv, ReleasedWithLastWord, LastWord, RxFrame
<1>5. TunnelTold(r)'
  BY DEF SlotInv, TunnelTold, Whole, Numbered, Cut, NoEof, RxFrame
<1> QED
  BY <1>2, <1>3, <1>4, <1>5 DEF SlotInv

LEMMA DeliverStepSlots ==
  ASSUME TypeOK, OneCloser, DeliveryInv, SaturationInv, DeliverStep,
         NEW r \in Reqs, rx.req = r
  PROVE  SaturationInv'
<1> USE DEF RxAt
<1>1. rx.at # "idle" /\ UNCHANGED <<mode, caller, outcome, got, phase, sent, closer>>
  BY DEF DeliverStep, DeliverSend, DeliverEvict, DeliverPush, OverflowSkip,
     OverflowDrain, OverflowMark, DeliverCancel, DeliverClose, rxOnly, ChanSend,
     ChanDropOldest, CancelDelete, CancelClose, muxVars
<1>2. r \in Reqs /\ rx.msg \in Msg
  BY <1>1, RxFacts DEF TypeOK
<1>3. Rx(r) = rx.at /\ RxFrame(r) /\ SlotInv(r)
  BY <1>1, <1>2 DEF Rx, RxFrame, SaturationInv
<1>4. ch \in [Reqs -> Seq(Msg)] /\ BufferSize(mode[r]) \in Nat \ {0}
      /\ Len(ch[r]) \in Nat /\ Len(ch[r]) <= BufferSize(mode[r]) /\ mode[r] \in Modes
  BY <1>2, SlotTypes, DeliveryTypes
<1>5. ASSUME NEW at \in RxAt \cup {"idle"}, RxGoto(at)
      PROVE  /\ Rx(r)' = at /\ (at # "idle" => rx'.msg = rx.msg)
             /\ \A q \in Reqs \ {r} : Rx(q)' = "idle"
  <2>1. rx'.at = at /\ (at # "idle" => rx'.req = r /\ rx'.msg = rx.msg)
    BY <1>1, <1>5, RxMoves
  <2>2. at = "idle" => rx' = RxIdle
    BY <1>5 DEF RxGoto
  <2> QED
    BY <1>2, <2>1, <2>2 DEF Rx, RxIdle
<1>6. \A m : AfterSend(r, m) \in RxAt \cup {"idle"}
  BY AfterSendType
<1>7. ASSUME NEW q \in Reqs \ {r} PROVE SlotInv(q)'
  <2>1. Rx(q) = "idle" /\ Rx(q)' = "idle"
    <3>1. CASE OverflowDrain
      BY <3>1 DEF OverflowDrain, Rx
    <3>2. CASE ~OverflowDrain
      <4>1. PICK at \in RxAt \cup {"idle"} : RxGoto(at)
        BY <1>6, <3>2 DEF DeliverStep, DeliverSend, DeliverEvict, DeliverPush,
           OverflowSkip, OverflowMark, DeliverCancel, DeliverClose
      <4> QED
        BY <1>5, <4>1 DEF Rx
    <3> QED
      BY <3>1, <3>2
  <2>2. ch'[q] = ch[q] /\ (q \in pending <=> q \in pending') /\ closed \subseteq closed'
    BY <1>4 DEF DeliverStep, DeliverSend, DeliverEvict, DeliverPush, OverflowSkip,
       OverflowDrain, OverflowMark, DeliverCancel, DeliverClose, ChanSend,
       ChanDropOldest, CancelDelete, CancelClose, muxVars
  <2> QED
    BY <1>1, <2>1, <2>2, OtherRx DEF SaturationInv
<1> SUFFICES SlotInv(r)'
  BY <1>7 DEF SaturationInv
<1>8. CASE DeliverSend \/ DeliverPush
  <2>1. ChanSend(r, rx.msg) /\ Rx(r) \in {"send", "push"}
    BY <1>3, <1>8 DEF DeliverSend, DeliverPush
  <2>2. UNCHANGED <<pending, closed>>
    BY <2>1 DEF ChanSend
  <2>3. CASE r \in closed
    <3>1. ch'[r] = ch[r]
      BY <2>1, <2>3 DEF ChanSend
    <3>2. Rx(r)' = AfterSend(r, rx.msg)
      BY <1>5, <1>6, <1>8, <2>3 DEF DeliverSend, DeliverPush
    <3> QED
      BY <1>2, <1>3, <2>1, <2>2, <2>3, <3>1, <3>2, DropSlot
  <2>4. CASE r \notin closed /\ ~Full(r)
    <3>1. ch'[r] = Append(ch[r], rx.msg)
      BY <1>2, <1>4, <2>1, <2>4 DEF ChanSend
    <3>2. Rx(r)' = AfterSend(r, rx.msg)
      BY <1>5, <1>6, <1>8, <2>4 DEF DeliverSend, DeliverPush
    <3> QED
      BY <1>2, <1>3, <2>1, <2>2, <3>1, <3>2, PlaceSlot
  <2>5. CASE r \notin closed /\ Full(r)
    <3>1. ch'[r] = ch[r]
      BY <1>2, <1>4, <2>1, <2>5 DEF ChanSend
    <3>2. DeliverSend /\ Rx(r) = "send"
      BY <1>3, <1>8, <2>5 DEF DeliverSend, DeliverPush, SlotInv, RoomToPush
    <3>3. CASE mode[r] = "unary"
      <4>1. Rx(r)' = AfterSend(r, rx.msg)
        BY <1>5, <1>6, <3>2, <3>3 DEF DeliverSend
      <4> QED
        BY <1>2, <1>3, <2>1, <2>2, <2>5, <3>1, <3>3, <4>1, DropSlot
    <3>4. CASE mode[r] = "watch"
      <4>1. Rx(r)' = "evict" /\ rx'.msg = rx.msg
        BY <1>5, <2>5, <3>2, <3>4 DEF DeliverSend
      <4> QED
        BY <1>2, <1>3, <2>2, <3>1, <3>2, <3>4, <4>1, SaturatedSlot
    <3>5. CASE mode[r] = "tunnel"
      <4>1. Rx(r)' = "drain" /\ rx'.msg = rx.msg
        BY <1>5, <2>5, <3>2, <3>5 DEF DeliverSend
      <4> QED
        BY <1>2, <1>3, <2>2, <3>1, <3>2, <3>5, <4>1, SaturatedSlot
    <3> QED
      BY <1>4, <3>3, <3>4, <3>5 DEF Modes
  <2> QED
    BY <2>3, <2>4, <2>5
<1>9. CASE DeliverEvict
  <2>1. ChanDropOldest(r) /\ Rx(r) = "evict" /\ mode[r] = "watch"
    BY <1>3, <1>9 DEF DeliverEvict, DeliveryInv, BranchFitsMode
  <2>2. UNCHANGED <<pending, closed>>
    BY <2>1 DEF ChanDropOldest
  <2>3. Rx(r)' = "push" /\ rx'.msg = rx.msg
    BY <1>5, <1>9 DEF DeliverEvict
  <2>4. IF ch[r] = <<>> THEN ch'[r] = ch[r] ELSE ch'[r] = Tail(ch[r])
    BY <1>2, <1>4, <2>1 DEF ChanDropOldest
  <2>5. ~Full(r)'
    <3>1. Full(r)' <=> Len(ch'[r]) >= BufferSize(mode[r])
      BY <1>1 DEF Full
    <3>2. CASE ch[r] = <<>>
      BY <1>4, <2>4, <3>1, <3>2
    <3>3. CASE ch[r] # <<>>
      <4>1. ch'[r] = Tail(ch[r]) /\ Len(Tail(ch[r])) = Len(ch[r]) - 1
        BY <1>2, <1>4, <2>4, <3>3, SeqTail
      <4> QED
        BY <1>4, <3>1, <4>1
    <3> QED
      BY <3>2, <3>3
  <2> QED
    BY <1>2, <1>3, <2>1, <2>2, <2>3, <2>4, <2>5, SaturatedSlot
<1>10. CASE OverflowDrain
  <2>1. /\ Rx(r) = "drain" /\ r \in pending /\ ch[r] # <<>> /\ ChanDropOldest(r)
        /\ rx' = rx
    BY <1>3, <1>10 DEF OverflowDrain, Routable
  <2>2. ch'[r] = Tail(ch[r]) /\ UNCHANGED <<pending, closed>> /\ Rx(r)' = "drain"
    BY <1>2, <1>4, <2>1 DEF ChanDropOldest, Rx
  <2> QED
    BY <1>2, <1>3, <2>1, <2>2, DrainSlot
<1>11. CASE OverflowMark
  <2>1. /\ Rx(r) = "drain" /\ r \in pending /\ r \notin closed /\ ch[r] = <<>>
        /\ ChanSend(r, OverflowMsg)
    BY <1>3, <1>11 DEF OverflowMark, Routable
  <2>2. ~Full(r)
    BY <1>4, <2>1 DEF Full
  <2>3. ch'[r] = <<OverflowMsg>> /\ UNCHANGED <<pending, closed>>
    <3>1. Append(<<>>, OverflowMsg) = <<OverflowMsg>>
      OBVIOUS
    <3> QED
      BY <1>2, <1>4, <2>1, <2>2, <3>1 DEF ChanSend
  <2>4. Rx(r)' = "delete"
    BY <1>5, <1>11 DEF OverflowMark
  <2> QED
    BY <1>2, <1>3, <2>1, <2>3, <2>4, DrainSlot
<1>12. CASE OverflowSkip
  <2>1. Rx(r) = "drain" /\ r \notin pending /\ UNCHANGED muxVars
    BY <1>2, <1>3, <1>12 DEF OverflowSkip, Routable, OneCloser, SlotOwnership
  <2>2. Rx(r)' = "idle"
    BY <1>5, <1>12 DEF OverflowSkip
  <2> QED
    BY <1>2, <1>3, <2>1, <2>2, ReleaseSlot DEF muxVars
<1>13. CASE DeliverCancel
  <2>1. /\ Rx(r) = "delete" /\ pending' = pending \ {r}
        /\ ch' = ch /\ closed' = closed
    BY <1>3, <1>13 DEF DeliverCancel, CancelDelete
  <2>2. Rx(r)' \in {"idle", "close"}
    BY <1>5, <1>13 DEF DeliverCancel
  <2> QED
    BY <1>2, <1>3, <2>1, <2>2, ReleaseSlot
<1>14. CASE DeliverClose
  <2>1. /\ Rx(r) = "close" /\ pending' = pending /\ r \notin pending
        /\ ch' = ch /\ closed \subseteq closed'
    BY <1>2, <1>3, <1>14 DEF DeliverClose, CancelClose, OneCloser, SlotOwnership, RxOwns
  <2>2. Rx(r)' = "idle"
    BY <1>5, <1>14 DEF DeliverClose
  <2> QED
    BY <1>2, <1>3, <2>1, <2>2, ReleaseSlot
<1> QED
  BY <1>8, <1>9, <1>10, <1>11, <1>12, <1>13, <1>14 DEF DeliverStep

LEMMA SaturationInvariant == Spec => []SaturationInv
<1>1. Init => SaturationInv
  <2> SUFFICES ASSUME Init, NEW r \in Reqs PROVE SlotInv(r)
    BY DEF SaturationInv
  <2>1. /\ caller[r] = "idle" /\ outcome[r] = "none" /\ got[r] = <<>>
        /\ phase[r] = "none" /\ sent[r] = 0 /\ ch[r] = <<>> /\ r \notin pending
        /\ Rx(r) = "idle"
    BY DEF Init, MuxInit, RxIdle, Rx
  <2>2. ~InHand(r)
    BY <2>1, RxInHand
  <2>3. FreshCall(r) /\ KindsFit(r) /\ AgentGone(r)
    BY <2>1, <2>2 DEF FreshCall, KindsFit, FromMode, AgentGone
  <2>4. StillInMap(r) /\ ReleasedWithLastWord(r) /\ RoomToPush(r) /\ NewestKept(r)
    BY <2>1 DEF StillInMap, ReleasedWithLastWord, RoomToPush, NewestKept, Reading
  <2>5. TunnelTold(r)
    BY <2>1 DEF TunnelTold, Cut, NoEof
  <2> QED
    BY <2>3, <2>4, <2>5 DEF SlotInv
<1>2. TypeOK /\ OneCloser /\ DeliveryInv /\ SaturationInv /\ [Next]_vars => SaturationInv'
  <2> SUFFICES ASSUME TypeOK, OneCloser, DeliveryInv, SaturationInv, [Next]_vars
               PROVE  SaturationInv'
    OBVIOUS
  <2>1. CASE DeliverStep
    <3>1. rx.at # "idle"
      BY <2>1 DEF DeliverStep, DeliverSend, DeliverEvict, DeliverPush, OverflowSkip,
         OverflowDrain, OverflowMark, DeliverCancel, DeliverClose
    <3> QED
      BY <2>1, <3>1, RxFacts, DeliverStepSlots DEF TypeOK
  <2>2. CASE Next /\ ~DeliverStep
    BY <2>2, CallerSlots, DeliverSlots, CloserSlots DEF Next
  <2>3. CASE UNCHANGED vars
    <3>1. UNCHANGED <<mode, pending, ch, closed, caller, outcome, got, phase, sent, rx, closer>>
      BY <2>3 DEF vars, muxVars
    <3>2. \A r \in Reqs : SlotInv(r) /\ Rx(r)' = Rx(r)
      BY <3>1 DEF SaturationInv, Rx
    <3>3. \A r \in Reqs : (Reading(r)' <=> Reading(r)) /\ (ClosedSignal' <=> ClosedSignal)
      BY <3>1 DEF Reading, ClosedSignal
    <3> QED
      BY <3>1, <3>2, <3>3, SlotCalm DEF SaturationInv
  <2> QED
    BY <2>1, <2>2, <2>3
<1> QED
  BY <1>1, <1>2, TypeCorrect, OneCloserInvariant, DeliveryInvariant, PTL DEF Spec

LEMMA LastOfConcat ==
  ASSUME NEW s \in Seq(Msg), NEW t \in Seq(Msg), t # <<>>
  PROVE  s \o t # <<>> /\ (s \o t)[Len(s \o t)] = t[Len(t)]
<1>1. PICK m \in Nat, n \in Nat \ {0} : m = Len(s) /\ n = Len(t)
  OBVIOUS
<1>2. Len(s \o t) = m + n
  BY <1>1
<1>3. m + n \in 1 .. Len(s) + Len(t) /\ m + n > m /\ (m + n) - m = n
  BY <1>1
<1>4. (s \o t)[m + n] = t[n]
  BY <1>1, <1>3
<1> QED
  BY <1>1, <1>2, <1>4

\* A slot at its limit drops messages, but not behind its reader's back: a clean
\* end of a tunnel follows every frame the agent sent, a watch in the map never
\* loses its newest event, and a closed, empty channel means that the agent is
\* gone (multiplexor.go:27-58 and Deliver).
THEOREM SaturationIsHonestHolds == Spec => []SaturationIsHonest
<1>1. TypeOK /\ SaturationInv => SaturationIsHonest
  <2> SUFFICES ASSUME TypeOK, SaturationInv PROVE SaturationIsHonest
    OBVIOUS
  <2>1. ASSUME NEW r \in Reqs, NEW i \in DOMAIN got[r], got[r][i].kind = "eof"
        PROVE  \A j \in DOMAIN got[r] : got[r][j].n = j
    <3>1. "eof" \in Speaks(mode[r]) /\ mode[r] \in Modes
      BY <2>1, SlotTypes DEF SaturationInv, SlotInv, KindsFit, FromMode
    <3>2. mode[r] = "tunnel"
      BY <3>1 DEF Speaks, Modes
    <3>3. Whole(r)
      BY <2>1, <3>2 DEF SaturationInv, SlotInv, TunnelTold, Cut, NoEof
    <3> QED
      BY <3>3 DEF Whole, Numbered
  <2>2. CleanEofIsComplete
    BY <2>1 DEF CleanEofIsComplete
  <2>3. ASSUME NEW r \in Reqs,
               mode[r] = "watch", r \in pending, rx.at = "idle", sent[r] > 0
        PROVE  /\ got[r] \o ch[r] # <<>>
               /\ (got[r] \o ch[r])[Len(got[r] \o ch[r])].n = sent[r]
    <3>1. got[r] \in Seq(Msg) /\ ch[r] \in Seq(Msg)
      BY SlotTypes
    <3>2. \/ ch[r] # <<>> /\ ch[r][Len(ch[r])].n = sent[r]
          \/ ch[r] = <<>> /\ got[r] # <<>> /\ got[r][Len(got[r])].n = sent[r]
      BY <2>3 DEF SaturationInv, SlotInv, NewestKept, InHand
    <3>3. CASE ch[r] # <<>>
      BY <3>1, <3>2, <3>3, LastOfConcat
    <3>4. CASE ch[r] = <<>>
      <4>1. got[r] \o ch[r] = got[r]
        BY <3>1, <3>4
      <4> QED
        BY <3>2, <3>4, <4>1
    <3> QED
      BY <3>3, <3>4
  <2>4. WatchKeepsNewest
    BY <2>3 DEF WatchKeepsNewest
  <2>5. ClosedMeansAgentClosed
    BY DEF SaturationInv, SlotInv, AgentGone, ClosedMeansAgentClosed
  <2> QED
    BY <2>2, <2>4, <2>5 DEF SaturationIsHonest
<1> QED
  BY <1>1, TypeCorrect, SaturationInvariant, PTL
=============================================================================
