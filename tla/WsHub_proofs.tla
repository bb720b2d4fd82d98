------------------------------ MODULE WsHub_proofs ------------------------------
(***************************************************************************)
(* Theorems about WsHub, for any set of clients, emitters and scopes and   *)
(* any capacities.                                                         *)
(***************************************************************************)
EXTENDS WsHub, TLAPS

USE BuffersAssumption, EventsAssumption, ScopesAssumption

-----------------------------------------------------------------------------
(* Type correctness.                                                       *)

LEMMA InitType == Init => TypeOK
BY DEF Init, TypeOK, AnyScope

LEMMA DeliverType ==
  ASSUME TypeOK, Deliver
  PROVE  TypeOK'
<1> DEFINE n == Len(handled) + 1
           room(c) == c \in clients /\ Matches(scope[c], Head(queue)) /\ ~Full(c)
<1>1. Head(queue) \in AnyScope /\ queue' \in Seq(AnyScope) /\ Len(queue') <= QueueMax
  BY DEF TypeOK, Deliver
<1>2. handled' \in Seq(AnyScope) /\ n \in Nat
  BY <1>1 DEF TypeOK, Deliver
<1>3. send' = [c \in Clients |-> IF room(c) THEN Append(send[c], n) ELSE send[c]]
  BY DEF Deliver
<1>4. ASSUME NEW c \in Clients
      PROVE  send'[c] \in Seq(Nat) /\ Len(send'[c]) <= SendBuf
  <2>1. send[c] \in Seq(Nat) /\ Len(send[c]) <= SendBuf
    BY DEF TypeOK
  <2>2. Append(send[c], n) \in Seq(Nat) /\ Len(Append(send[c], n)) = Len(send[c]) + 1
    BY <1>2, <2>1
  <2>3. room(c) => Len(send[c]) < SendBuf
    BY <2>1 DEF Full
  <2> QED
    BY <1>3, <2>1, <2>2, <2>3
<1>5. send' \in [Clients -> Seq(Nat)]
  BY <1>3, <1>4
<1>6. slow' \subseteq Clients
  BY DEF TypeOK, Deliver, SlowFor
<1> QED
  BY <1>1, <1>2, <1>4, <1>5, <1>6 DEF TypeOK, Deliver

\* A client's goroutine takes the oldest event from its channel, or none.
LEMMA TakeType ==
  ASSUME TypeOK, NEW c \in Clients,
         send' = send \/ (send[c] # <<>> /\ send' = [send EXCEPT ![c] = Tail(@)])
  PROVE  /\ send' \in [Clients -> Seq(Nat)]
         /\ \A d \in Clients : Len(send'[d]) <= SendBuf
         /\ send[c] # <<>> => Head(send[c]) \in Nat
<1>1. \A d \in Clients : send[d] \in Seq(Nat) /\ Len(send[d]) <= SendBuf
  BY DEF TypeOK
<1>2. send[c] # <<>> =>
        /\ Tail(send[c]) \in Seq(Nat) /\ Head(send[c]) \in Nat
        /\ Len(Tail(send[c])) = Len(send[c]) - 1
  BY <1>1
<1>3. ASSUME NEW d \in Clients
      PROVE  send'[d] \in Seq(Nat) /\ Len(send'[d]) <= SendBuf
  <2>1. send'[d] = send[d] \/ (send[c] # <<>> /\ d = c /\ send'[d] = Tail(send[c]))
    BY DEF TypeOK
  <2>2. CASE send'[d] = send[d]
    BY <1>1, <2>2
  <2>3. CASE send[c] # <<>> /\ send'[d] = Tail(send[c])
    <3>1. Len(send[c]) \in Nat /\ Len(send[c]) <= SendBuf
      BY <1>1
    <3>2. Len(Tail(send[c])) <= SendBuf
      BY <1>2, <2>3, <3>1
    <3> QED
      BY <1>2, <2>3, <3>2
  <2> QED
    BY <2>1, <2>2, <2>3
<1>4. send' \in [Clients -> Seq(Nat)]
  BY <1>3 DEF TypeOK
<1> QED
  BY <1>2, <1>3, <1>4

LEMMA StepType == TypeOK /\ [Next]_vars => TypeOK'
<1> SUFFICES ASSUME TypeOK, [Next]_vars PROVE TypeOK'
  OBVIOUS
<1>1. CASE Deliver
  BY <1>1, DeliverType
<1>2. ASSUME NEW e \in Emitters, Post(e) PROVE TypeOK'
  <2>1. emit[e] # "idle" /\ emit[e] \in AnyScope
    BY <1>2 DEF Post, TypeOK
  <2>2. queue' \in Seq(AnyScope) /\ Len(queue') <= QueueMax
    BY <1>2, <2>1 DEF Post, TypeOK
  <2> QED
    BY <1>2, <2>2 DEF Post, TypeOK
<1>3. ASSUME NEW e \in Emitters, NEW s \in AnyScope, Emit(e, s) PROVE TypeOK'
  BY <1>3 DEF Emit, TypeOK
<1>4. ASSUME NEW c \in Clients, Register(c) PROVE TypeOK'
  BY <1>4 DEF Register, TypeOK
<1>5. ASSUME NEW c \in Clients, Unregister(c) PROVE TypeOK'
  BY <1>5 DEF Unregister, TypeOK, Without
<1>6. ASSUME NEW c \in Clients, NEW s \in AnyScope, Upgrade(c, s) PROVE TypeOK'
  BY <1>6 DEF Upgrade, TypeOK, hubVars
<1>7. ASSUME NEW c \in Clients, ReadFails(c) \/ ReadPumpEnds(c) PROVE TypeOK'
  BY <1>7 DEF ReadFails, ReadPumpEnds, TypeOK, hubVars
<1>8. ASSUME NEW c \in Clients, Write(c) PROVE TypeOK'
  <2>1. got' \in [Clients -> Seq(Nat)]
    BY <1>8, TakeType DEF Write, TypeOK
  <2> QED
    BY <1>8, <2>1, TakeType DEF Write, TypeOK, hubVars
<1>9. ASSUME NEW c \in Clients, WriteFails(c) PROVE TypeOK'
  BY <1>9, TakeType DEF WriteFails, TypeOK, hubVars
<1>10. ASSUME NEW c \in Clients, WritePumpEnds(c) PROVE TypeOK'
  BY <1>10 DEF WritePumpEnds, TypeOK, hubVars
<1>11. CASE UNCHANGED vars
  BY <1>11 DEF vars, TypeOK
<1> QED
  BY <1>1, <1>2, <1>3, <1>4, <1>5, <1>6, <1>7, <1>8, <1>9, <1>10, <1>11 DEF Next

\* The state of the hub and its clients is well typed, and the two bounded
\* queues hold no more than their capacity, for any capacity (hub.go:31-38,
\* client.go:49).
THEOREM TypeCorrect == Spec => []TypeOK
<1>1. Init => TypeOK
  BY InitType
<1>2. TypeOK /\ [Next]_vars => TypeOK'
  BY StepType
<1> QED
  BY <1>1, <1>2, PTL DEF Spec

-----------------------------------------------------------------------------
(* Who closes a channel.                                                   *)

\* Before the hub took it in, a client has nothing and nobody writes for it;
\* once it is out of the map again, its channel is closed, and only then.
Life(c) ==
  /\ conn[c] = "none" => reader[c] = "none"
  /\ reader[c] \in {"none", "registering"} =>
       /\ c \notin clients /\ writer[c] = "none" /\ closes[c] = 0
       /\ send[c] = <<>> /\ got[c] = <<>>
  /\ closes[c] <= 1
  /\ c \in clients => closes[c] = 0

LifeInv == \A c \in Clients : Life(c)

LEMMA InitLife == Init => LifeInv
BY DEF Init, LifeInv, Life

LEMMA StepLife == TypeOK /\ LifeInv /\ [Next]_vars => LifeInv'
<1> SUFFICES ASSUME TypeOK, LifeInv, [Next]_vars, NEW d \in Clients PROVE Life(d)'
  BY DEF LifeInv
<1> USE DEF TypeOK, LifeInv, Life
<1>1. CASE Deliver
  BY <1>1 DEF Deliver
<1>2. ASSUME NEW e \in Emitters, Post(e) \/ \E s \in AnyScope : Emit(e, s)
      PROVE  Life(d)'
  BY <1>2 DEF Post, Emit
<1>3. ASSUME NEW c \in Clients, Register(c) PROVE Life(d)'
  BY <1>3 DEF Register
<1>4. ASSUME NEW c \in Clients, Unregister(c) PROVE Life(d)'
  BY <1>4 DEF Unregister, Without, Receiving, Offered
<1>5. ASSUME NEW c \in Clients, NEW s \in AnyScope, Upgrade(c, s) PROVE Life(d)'
  BY <1>5 DEF Upgrade, hubVars
<1>6. ASSUME NEW c \in Clients, ReadFails(c) \/ ReadPumpEnds(c) PROVE Life(d)'
  BY <1>6 DEF ReadFails, ReadPumpEnds, hubVars
<1>7. ASSUME NEW c \in Clients, Write(c) PROVE Life(d)'
  BY <1>7 DEF Write, hubVars
<1>8. ASSUME NEW c \in Clients, WriteFails(c) \/ WritePumpEnds(c) PROVE Life(d)'
  BY <1>8 DEF WriteFails, WritePumpEnds, hubVars
<1>9. CASE UNCHANGED vars
  BY <1>9 DEF vars
<1> QED
  BY <1>1, <1>2, <1>3, <1>4, <1>5, <1>6, <1>7, <1>8, <1>9 DEF Next

LEMMA LifeInvariant == Spec => []LifeInv
<1>1. Init => LifeInv
  BY InitLife
<1>2. TypeOK /\ LifeInv /\ [Next]_vars => LifeInv'
  BY StepLife
<1> QED
  BY <1>1, <1>2, TypeCorrect, PTL DEF Spec

\* A client's channel is closed at most once, and never while the hub may
\* still send to it, whatever number of clients leave in whatever order: the
\* hub does not panic (hub.go:41-47).
THEOREM ChannelClosedOnceHolds == Spec => []ChannelClosedOnce
<1>1. LifeInv => ChannelClosedOnce
  BY DEF LifeInv, Life, ChannelClosedOnce
<1> QED
  BY <1>1, LifeInvariant, PTL

-----------------------------------------------------------------------------
(* What a client is shown.                                                 *)

Increasing(s) == \A i, j \in DOMAIN s : i < j => s[i] < s[j]

\* The frames of a connection, whether or not they end too early.
Shown(c) ==
  /\ Events(got[c]) \subseteq Owed(c)
  /\ Increasing(got[c])
  /\ \A n \in Owed(c), m \in Events(got[c]) : n < m => n \in Events(got[c])

\* What is in the channel continues them.
Continued(c) ==
  /\ Events(send[c]) \subseteq Owed(c)
  /\ Increasing(send[c])
  /\ \A n \in Events(got[c]), m \in Events(send[c]) : n < m
  /\ \A n \in Owed(c), m \in Events(send[c]) :
       n < m => n \in Events(got[c]) \cup Events(send[c])

\* Complete while the hub serves the client.
Complete(c) ==
  c \in clients \ slow => Events(got[c]) \cup Events(send[c]) = Owed(c)

Stream(c) ==
  /\ from[c] <= Len(handled)
  /\ Shown(c)
  /\ writer[c] = "writing" => Continued(c) /\ Complete(c)

StreamInv == \A c \in Clients : Stream(c)

LEMMA StreamHasNoGapFromInv == StreamInv => StreamHasNoGap
BY DEF StreamInv, Stream, Shown, Complete, Increasing, Events, StreamHasNoGap

\* Nobody is owed anything before the hub took it in.
LEMMA EmptyStream ==
  ASSUME NEW c \in Clients, got[c] = <<>>
  PROVE  Shown(c)
BY DEF Shown, Increasing, Events

LEMMA InitStream == Init => StreamInv
BY EmptyStream DEF Init, StreamInv, Stream

LEMMA AppendEvents ==
  ASSUME NEW s \in Seq(Nat), NEW n \in Nat, \A m \in Events(s) : m < n, Increasing(s)
  PROVE  Events(Append(s, n)) = Events(s) \cup {n} /\ Increasing(Append(s, n))
<1>1. /\ DOMAIN Append(s, n) = 1 .. Len(s) + 1 /\ DOMAIN s = 1 .. Len(s)
      /\ Len(s) \in Nat
      /\ Append(s, n)[Len(s) + 1] = n
      /\ \A i \in 1 .. Len(s) : Append(s, n)[i] = s[i]
  OBVIOUS
<1>2. Events(Append(s, n)) = Events(s) \cup {n}
  BY <1>1 DEF Events
<1>3. ASSUME NEW i \in DOMAIN Append(s, n), NEW j \in DOMAIN Append(s, n), i < j
      PROVE  Append(s, n)[i] < Append(s, n)[j]
  <2>1. i \in DOMAIN s
    BY <1>1, <1>3
  <2>2. CASE j \in DOMAIN s
    BY <1>1, <1>3, <2>1, <2>2 DEF Increasing
  <2>3. CASE j = Len(s) + 1
    BY <1>1, <2>1, <2>3 DEF Events
  <2> QED
    BY <1>1, <2>2, <2>3
<1> QED
  BY <1>2, <1>3 DEF Increasing

LEMMA TailEvents ==
  ASSUME NEW s \in Seq(Nat), s # <<>>, Increasing(s)
  PROVE  /\ Events(s) = Events(Tail(s)) \cup {Head(s)}
         /\ \A m \in Events(Tail(s)) : Head(s) < m
         /\ Increasing(Tail(s))
<1>1. /\ Len(s) \in Nat \ {0} /\ DOMAIN s = 1 .. Len(s)
      /\ DOMAIN Tail(s) = 1 .. Len(s) - 1
      /\ Head(s) = s[1]
      /\ \A i \in 1 .. Len(s) - 1 : Tail(s)[i] = s[i + 1]
  OBVIOUS
<1>2. ASSUME NEW i \in DOMAIN s PROVE s[i] \in Events(Tail(s)) \cup {Head(s)}
  <2>1. CASE i = 1
    BY <1>1, <2>1
  <2>2. CASE i # 1
    <3>1. i - 1 \in DOMAIN Tail(s) /\ Tail(s)[i - 1] = s[i]
      BY <1>1, <2>2
    <3> QED
      BY <3>1 DEF Events
  <2> QED
    BY <2>1, <2>2
<1>3. \A i \in DOMAIN Tail(s) : i + 1 \in DOMAIN s /\ Tail(s)[i] = s[i + 1]
  BY <1>1
<1>4. Events(s) = Events(Tail(s)) \cup {Head(s)}
  <2>1. Events(s) \subseteq Events(Tail(s)) \cup {Head(s)}
    BY <1>2 DEF Events
  <2>2. Events(Tail(s)) \subseteq Events(s)
    BY <1>3 DEF Events
  <2>3. Head(s) \in Events(s)
    BY <1>1 DEF Events
  <2> QED
    BY <2>1, <2>2, <2>3
<1>5. \A m \in Events(Tail(s)) : Head(s) < m
  BY <1>1, <1>3 DEF Events, Increasing
<1>6. Increasing(Tail(s))
  BY <1>1, <1>3 DEF Increasing
<1> QED
  BY <1>4, <1>5, <1>6

\* A step that touches neither the hub's order of events nor the client's
\* channel and frames leaves its stream as it was.
LEMMA StreamUntouched ==
  ASSUME NEW d \in Clients, Stream(d),
         got'[d] = got[d], send'[d] = send[d], scope'[d] = scope[d],
         from'[d] = from[d], handled' = handled,
         writer'[d] = "writing" => writer[d] = "writing",
         d \in clients' \ slow' => d \in clients \ slow
  PROVE  Stream(d)'
<1>1. Owed(d)' = Owed(d) /\ Events(got[d])' = Events(got[d]) /\ Events(send[d])' = Events(send[d])
  BY DEF Owed, Events, Matches
<1> QED
  BY <1>1 DEF Stream, Shown, Continued, Complete, Increasing

\* The hub handles an event: it is owed to the clients of its scope, and those
\* that do not get it are slow.
LEMMA DeliverStream ==
  ASSUME TypeOK, Deliver, NEW d \in Clients, Stream(d)
  PROVE  Stream(d)'
<1> DEFINE n == Len(handled) + 1
           owed == Matches(scope[d], Head(queue))
           room == d \in clients /\ owed /\ ~Full(d)
<1>1. /\ handled \in Seq(AnyScope) /\ Len(handled) \in Nat /\ n \in Nat /\ from[d] \in Nat
      /\ handled' = Append(handled, Head(queue)) /\ Len(handled') = n
      /\ handled'[n] = Head(queue) /\ \A i \in 1 .. Len(handled) : handled'[i] = handled[i]
  BY DEF TypeOK, Deliver
<1>2. /\ got' = got /\ writer' = writer /\ scope' = scope /\ from' = from /\ clients' = clients
      /\ send'[d] = IF room THEN Append(send[d], n) ELSE send[d]
      /\ slow = {}
      /\ owed /\ d \in clients /\ Full(d) => d \in slow'
  BY DEF Deliver, Receiving, SlowFor
<1>3. \A m \in Owed(d) : m \in Nat /\ m < n
  BY <1>1 DEF Owed
<1>4. Owed(d)' \subseteq Owed(d) \cup {n} /\ Owed(d) \subseteq Owed(d)'
  BY <1>1, <1>2 DEF Owed
<1>5. n \in Owed(d)' => owed
  BY <1>1, <1>2 DEF Owed
<1>6. Shown(d)'
  <2>1. got'[d] = got[d] /\ Shown(d)
    BY <1>2 DEF Stream
  <2> QED
    BY <1>3, <1>4, <2>1 DEF Shown
<1>7. ASSUME writer[d] = "writing" PROVE Continued(d)' /\ Complete(d)'
  <2>1. Continued(d) /\ Complete(d)
    BY <1>7 DEF Stream
  <2>2. send[d] \in Seq(Nat) /\ Increasing(send[d]) /\ \A m \in Events(send[d]) : m < n
    BY <1>3, <2>1 DEF Continued, TypeOK
  <2>3. CASE room
    <3>1. send'[d] = Append(send[d], n)
      BY <1>2, <2>3
    <3>2. Events(send'[d]) = Events(send[d]) \cup {n} /\ Increasing(send'[d])
      BY <1>1, <2>2, <3>1, AppendEvents
    <3>3. Events(got[d]) \cup Events(send[d]) = Owed(d)
      BY <1>2, <2>1, <2>3 DEF Complete
    <3>4. n \in Owed(d)'
      BY <1>1, <1>2, <2>3 DEF Owed, Stream
    <3>5. Owed(d)' = Owed(d) \cup {n}
      BY <1>4, <3>4
    <3>6. Continued(d)'
      BY <1>2, <1>3, <2>1, <3>2, <3>3, <3>5 DEF Stream, Continued, Shown
    <3> QED
      BY <1>2, <3>2, <3>3, <3>5, <3>6 DEF Complete
  <2>4. CASE ~room
    <3>1. send'[d] = send[d]
      BY <1>2, <2>4
    <3>2. Continued(d)'
      BY <1>2, <1>3, <1>4, <2>1, <2>2, <3>1 DEF Continued
    <3>3. ASSUME d \in clients' \ slow' PROVE Owed(d)' = Owed(d) /\ d \in clients \ slow
      BY <1>2, <1>4, <1>5, <2>4, <3>3
    <3> QED
      BY <1>2, <2>1, <3>1, <3>2, <3>3 DEF Complete
  <2> QED
    BY <2>3, <2>4
<1> QED
  BY <1>1, <1>2, <1>6, <1>7 DEF Stream

\* A frame leaves the channel and is written: its place is behind those that
\* were written and before those that wait.
LEMMA WriteStream ==
  ASSUME TypeOK, NEW c \in Clients, Write(c), NEW d \in Clients, Stream(d)
  PROVE  Stream(d)'
<1>1. UNCHANGED <<clients, slow, scope, from, handled, writer>>
  BY DEF Write, hubVars
<1>2. CASE d # c
  <2>1. got'[d] = got[d] /\ send'[d] = send[d]
    BY <1>2 DEF Write, TypeOK
  <2> QED
    BY <1>1, <2>1, StreamUntouched
<1>3. CASE d = c
  <2>1. Continued(d) /\ Complete(d) /\ Shown(d) /\ send[d] # <<>>
    BY <1>3 DEF Write, Stream
  <2>2. got[d] \in Seq(Nat) /\ send[d] \in Seq(Nat) /\ Head(send[d]) \in Nat
    BY <2>1 DEF TypeOK
  <2>3. send'[d] = Tail(send[d]) /\ got'[d] = Append(got[d], Head(send[d]))
    BY <1>3 DEF Write, TypeOK
  <2>4. /\ Events(send[d]) = Events(send'[d]) \cup {Head(send[d])}
        /\ \A m \in Events(send'[d]) : Head(send[d]) < m
        /\ Increasing(send'[d])
    BY <2>1, <2>2, <2>3, TailEvents DEF Continued
  <2>5. /\ Events(got'[d]) = Events(got[d]) \cup {Head(send[d])}
        /\ Increasing(got'[d])
    BY <2>1, <2>2, <2>3, <2>4, AppendEvents DEF Continued, Shown
  <2>6. Owed(d)' = Owed(d) /\ \A n \in Owed(d) : n \in Nat
    BY <1>1 DEF Owed, Matches, TypeOK
  <2>7. Shown(d)'
    <3>1. Events(got'[d]) \subseteq Owed(d)
      BY <2>1, <2>4, <2>5 DEF Shown, Continued
    <3>2. ASSUME NEW n \in Owed(d), NEW m \in Events(got'[d]), n < m
          PROVE  n \in Events(got'[d])
      <4>1. CASE m \in Events(got[d])
        BY <2>1, <2>5, <3>2, <4>1 DEF Shown
      <4>2. CASE m = Head(send[d])
        <5>1. n \in Events(got[d]) \cup Events(send[d])
          BY <2>1, <2>4, <3>2, <4>2 DEF Continued
        <5>2. n \notin Events(send'[d])
          BY <2>2, <2>4, <2>6, <3>2, <4>2
        <5> QED
          BY <2>4, <2>5, <5>1, <5>2
      <4> QED
        BY <2>5, <4>1, <4>2
    <3> QED
      BY <2>5, <2>6, <3>1, <3>2 DEF Shown
  <2>8. Continued(d)'
    BY <2>1, <2>4, <2>5, <2>6 DEF Continued
  <2>9. Complete(d)'
    BY <1>1, <2>1, <2>4, <2>5, <2>6 DEF Complete
  <2> QED
    BY <1>1, <2>7, <2>8, <2>9 DEF Stream
<1> QED
  BY <1>2, <1>3

LEMMA StepStream == TypeOK /\ LifeInv /\ StreamInv /\ [Next]_vars => StreamInv'
<1> SUFFICES ASSUME TypeOK, LifeInv, StreamInv, [Next]_vars, NEW d \in Clients
             PROVE  Stream(d)'
  BY DEF StreamInv
<1>0. Stream(d)
  BY DEF StreamInv
<1>1. CASE Deliver
  BY <1>0, <1>1, DeliverStream
<1>2. ASSUME NEW e \in Emitters, Post(e) \/ \E s \in AnyScope : Emit(e, s)
      PROVE  Stream(d)'
  BY <1>0, <1>2, StreamUntouched DEF Post, Emit
<1>3. ASSUME NEW c \in Clients, Register(c) PROVE Stream(d)'
  <2>1. CASE d # c
    <3>1. from'[d] = from[d] /\ writer'[d] = writer[d] /\ (d \in clients' => d \in clients)
      BY <1>3, <2>1 DEF Register, TypeOK
    <3> QED
      BY <1>0, <1>3, <3>1, StreamUntouched DEF Register
  <2>2. CASE d = c
    <3>1. got'[d] = <<>> /\ send'[d] = <<>>
      BY <1>3, <2>2 DEF Register, LifeInv, Life
    <3>2. from'[d] = Len(handled) /\ handled' = handled /\ Len(handled) \in Nat
      BY <1>3, <2>2 DEF Register, TypeOK
    <3>3. Owed(d)' = {}
      BY <3>2 DEF Owed
    <3>4. Events(got'[d]) = {} /\ Events(send'[d]) = {}
          /\ Increasing(got'[d]) /\ Increasing(send'[d])
      BY <3>1 DEF Events, Increasing
    <3> QED
      BY <3>2, <3>3, <3>4 DEF Stream, Shown, Continued, Complete
  <2> QED
    BY <2>1, <2>2
<1>4. ASSUME NEW c \in Clients, Unregister(c) PROVE Stream(d)'
  <2>1. d \in clients' \ slow' => d \in clients \ slow
    BY <1>4 DEF Unregister, Without, Receiving
  <2> QED
    BY <1>0, <1>4, <2>1, StreamUntouched DEF Unregister
<1>5. ASSUME NEW c \in Clients, NEW s \in AnyScope, Upgrade(c, s) PROVE Stream(d)'
  <2>1. CASE d # c
    <3>1. scope'[d] = scope[d]
      BY <1>5, <2>1 DEF Upgrade, TypeOK
    <3> QED
      BY <1>0, <1>5, <3>1, StreamUntouched DEF Upgrade, hubVars
  <2>2. CASE d = c
    <3>1. got'[d] = <<>> /\ writer'[d] = "none" /\ from'[d] = from[d] /\ handled' = handled
      BY <1>5, <2>2 DEF Upgrade, LifeInv, Life, hubVars
    <3>2. Shown(d)'
      BY <3>1 DEF Shown, Increasing, Events
    <3> QED
      BY <1>0, <3>1, <3>2 DEF Stream
  <2> QED
    BY <2>1, <2>2
<1>6. ASSUME NEW c \in Clients, ReadFails(c) \/ ReadPumpEnds(c) PROVE Stream(d)'
  BY <1>0, <1>6, StreamUntouched DEF ReadFails, ReadPumpEnds, hubVars
<1>7. ASSUME NEW c \in Clients, Write(c) PROVE Stream(d)'
  BY <1>0, <1>7, WriteStream
<1>8. ASSUME NEW c \in Clients, WriteFails(c) \/ WritePumpEnds(c) PROVE Stream(d)'
  <2>1. UNCHANGED <<clients, slow, scope, from, handled, got>>
    BY <1>8 DEF WriteFails, WritePumpEnds, hubVars
  <2>2. CASE d # c
    <3>1. writer'[d] = writer[d] /\ send'[d] = send[d]
      BY <1>8, <2>2 DEF WriteFails, WritePumpEnds, TypeOK
    <3> QED
      BY <1>0, <2>1, <3>1, StreamUntouched
  <2>3. CASE d = c
    <3>1. writer'[d] = "done"
      BY <1>8, <2>3 DEF WriteFails, WritePumpEnds, TypeOK
    <3>2. Owed(d)' = Owed(d)
      BY <2>1 DEF Owed, Matches
    <3> QED
      BY <1>0, <2>1, <3>1, <3>2 DEF Stream, Shown
  <2> QED
    BY <2>2, <2>3
<1>9. CASE UNCHANGED vars
  BY <1>0, <1>9, StreamUntouched DEF vars
<1> QED
  BY <1>1, <1>2, <1>3, <1>4, <1>5, <1>6, <1>7, <1>8, <1>9 DEF Next

\* What a browser is shown is an initial part of the events of its scope since
\* it registered, in order and without a gap, whatever the capacities and the
\* speed of the clients: the hub drops a client, never an event in the middle
\* of its stream (hub.go:62-77).
THEOREM StreamHasNoGapHolds == Spec => []StreamHasNoGap
<1>1. Init => StreamInv
  BY InitStream
<1>2. TypeOK /\ LifeInv /\ StreamInv /\ [Next]_vars => StreamInv'
  BY StepStream
<1> QED
  BY <1>1, <1>2, TypeCorrect, LifeInvariant, StreamHasNoGapFromInv, PTL DEF Spec
=============================================================================
