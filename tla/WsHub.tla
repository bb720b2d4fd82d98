--------------------------------- MODULE WsHub ---------------------------------
(***************************************************************************)
(* The WebSocket hub: apps/api/internal/websocket/hub.go and client.go.    *)
(*                                                                         *)
(* Emitters put events into the broadcast queue.  One goroutine, Hub.Run,  *)
(* owns the set of clients: it receives on register and unregister, both   *)
(* without a buffer, and hands every event to the clients whose scope it   *)
(* matches, through a bounded channel each.  A client has two goroutines,  *)
(* readPump, which offers its unregistration when the connection ends, and *)
(* writePump, which sends the frames.                                      *)
(*                                                                         *)
(* An event is known by its place in the order in which the hub handled    *)
(* it.  A scope stands for a (tenant, cluster) pair.  The scope of a       *)
(* client is fixed before it registers: no code of the repository calls    *)
(* SetScope later.                                                         *)
(***************************************************************************)
EXTENDS Naturals, Sequences, FiniteSets

CONSTANTS
  Clients,    \* connections
  Emitters,   \* goroutines that broadcast
  Scopes,     \* scopes of events and clients
  Global,     \* no scope
  SendBuf,    \* capacity of a client's channel (256 in the code)
  QueueMax,   \* capacity of the broadcast queue (4096 in the code)
  MaxEvents   \* bound: events the hub handles

ASSUME BuffersAssumption == SendBuf \in Nat \ {0} /\ QueueMax \in Nat \ {0}
ASSUME EventsAssumption == MaxEvents \in Nat
ASSUME ScopesAssumption == Global \notin Scopes

AnyScope == Scopes \cup {Global}

VARIABLES
  clients,  \* Hub.clients
  queue,    \* Hub.broadcast, the scopes of the events in it
  slow,     \* the clients Hub.Run has yet to unregister before it selects again
  emit,     \* per emitter: the event it is about to post, or "idle"
  scope,    \* the scope a client watches
  send,     \* Client.send, the events in it
  closes,   \* how often send was closed
  conn,     \* "none", "open" or "closed"
  reader,   \* ServeWS and then readPump
  writer,   \* writePump
  handled,  \* history: the scopes of the events the hub handled, in order
  from,     \* history: how many of them were handled before it registered
  got       \* history: the events written to the connection

hubVars == <<clients, queue, slow, emit, handled, from>>
vars == <<clients, queue, slow, emit, scope, send, closes, conn, reader,
          writer, handled, from, got>>

Init ==
  /\ clients = {} /\ queue = <<>> /\ slow = {}
  /\ emit = [e \in Emitters |-> "idle"]
  /\ scope = [c \in Clients |-> Global]
  /\ send = [c \in Clients |-> <<>>]
  /\ closes = [c \in Clients |-> 0]
  /\ conn = [c \in Clients |-> "none"]
  /\ reader = [c \in Clients |-> "none"]
  /\ writer = [c \in Clients |-> "none"]
  /\ handled = <<>>
  /\ from = [c \in Clients |-> 0]
  /\ got = [c \in Clients |-> <<>>]

-----------------------------------------------------------------------------
(* Emitters *)

\* Broadcast and BroadcastScoped: nothing to do for an empty house.  The count
\* is read under the mutex and the event posted without it.
Emit(e, s) ==
  /\ emit[e] = "idle" /\ clients # {}
  /\ Len(queue) + Len(handled) < MaxEvents
  /\ emit' = [emit EXCEPT ![e] = s]
  /\ UNCHANGED <<clients, queue, slow, scope, send, closes, conn, reader,
                 writer, handled, from, got>>

\* A full queue drops the event.
Post(e) ==
  /\ emit[e] # "idle"
  /\ queue' = IF Len(queue) < QueueMax THEN Append(queue, emit[e]) ELSE queue
  /\ emit' = [emit EXCEPT ![e] = "idle"]
  /\ UNCHANGED <<clients, slow, scope, send, closes, conn, reader, writer,
                 handled, from, got>>

-----------------------------------------------------------------------------
(* Hub.Run *)

\* The hub receives only in its select, which it reaches again when it has
\* unregistered every slow client.
Receiving == slow = {}

Matches(s, event) == event = Global \/ s = Global \/ s = event

FullOneLater(c) == Len(send[c]) > SendBuf

Full(c) == Len(send[c]) >= SendBuf

SlowForNobody(addressed) == {}

\* Who does not get an event for lack of room.
SlowFor(addressed) == {c \in addressed : Full(c)}

Deliver ==
  LET event == Head(queue)
      addressed == {c \in clients : Matches(scope[c], event)}
      slower == SlowFor(addressed)
      n == Len(handled) + 1
  IN /\ Receiving /\ queue # <<>>
     /\ queue' = Tail(queue)
     /\ handled' = Append(handled, event)
     /\ send' = [c \in Clients |->
                   IF c \in addressed /\ ~Full(c) THEN Append(send[c], n) ELSE send[c]]
     /\ slow' = slower
     /\ UNCHANGED <<clients, emit, scope, closes, conn, reader, writer, from, got>>

\* ServeWS's `hub.register <- client`, received.
Register(c) ==
  /\ Receiving /\ reader[c] = "registering"
  /\ clients' = clients \cup {c}
  /\ from' = [from EXCEPT ![c] = Len(handled)]
  /\ reader' = [reader EXCEPT ![c] = "reading"]
  /\ writer' = [writer EXCEPT ![c] = "writing"]
  /\ UNCHANGED <<queue, slow, emit, scope, send, closes, conn, handled, got>>

\* Who is at `unregister <- c`: a readPump, or the hub itself.
Offered == slow \cup {c \in Clients : reader[c] = "leaving"}

WithAsWell(c) == clients

Without(c) == clients \ {c}

Unregister(c) ==
  /\ Receiving /\ c \in Offered
  /\ clients' = Without(c)
  /\ closes' = [closes EXCEPT ![c] = IF c \in clients THEN @ + 1 ELSE @]
  /\ slow' = slow \ {c}
  /\ reader' = [reader EXCEPT ![c] = IF @ = "leaving" THEN "closing" ELSE @]
  /\ UNCHANGED <<queue, emit, scope, send, conn, writer, handled, from, got>>

-----------------------------------------------------------------------------
(* A client *)

Upgrade(c, s) ==
  /\ conn[c] = "none"
  /\ conn' = [conn EXCEPT ![c] = "open"]
  /\ scope' = [scope EXCEPT ![c] = s]
  /\ reader' = [reader EXCEPT ![c] = "registering"]
  /\ UNCHANGED <<send, closes, writer, got, hubVars>>

\* The peer left, no pong came for a minute, or writePump closed the conn.
ReadFails(c) ==
  /\ reader[c] = "reading"
  /\ reader' = [reader EXCEPT ![c] = "leaving"]
  /\ UNCHANGED <<scope, send, closes, conn, writer, got, hubVars>>

ReadPumpEnds(c) ==
  /\ reader[c] = "closing"
  /\ reader' = [reader EXCEPT ![c] = "done"]
  /\ conn' = [conn EXCEPT ![c] = "closed"]
  /\ UNCHANGED <<scope, send, closes, writer, got, hubVars>>

Write(c) ==
  /\ writer[c] = "writing" /\ send[c] # <<>> /\ conn[c] = "open"
  /\ got' = [got EXCEPT ![c] = Append(@, Head(send[c]))]
  /\ send' = [send EXCEPT ![c] = Tail(@)]
  /\ UNCHANGED <<scope, closes, conn, reader, writer, hubVars>>

\* A frame or a ping cannot be written; the frame was taken from the channel.
WriteFails(c) ==
  /\ writer[c] = "writing"
  /\ \/ UNCHANGED send
     \/ send[c] # <<>> /\ send' = [send EXCEPT ![c] = Tail(@)]
  /\ writer' = [writer EXCEPT ![c] = "done"]
  /\ conn' = [conn EXCEPT ![c] = "closed"]
  /\ UNCHANGED <<scope, closes, reader, got, hubVars>>

\* The channel is closed and drained: a close frame, and the end.
WritePumpEnds(c) ==
  /\ writer[c] = "writing" /\ send[c] = <<>> /\ closes[c] > 0
  /\ writer' = [writer EXCEPT ![c] = "done"]
  /\ conn' = [conn EXCEPT ![c] = "closed"]
  /\ UNCHANGED <<scope, send, closes, reader, got, hubVars>>

Next ==
  \/ Deliver
  \/ \E e \in Emitters : Post(e) \/ \E s \in AnyScope : Emit(e, s)
  \/ \E c \in Clients :
       \/ Register(c) \/ Unregister(c)
       \/ \E s \in AnyScope : Upgrade(c, s)
       \/ ReadFails(c) \/ ReadPumpEnds(c)
       \/ Write(c) \/ WriteFails(c) \/ WritePumpEnds(c)

Spec == Init /\ [][Next]_vars

\* The hub's goroutine runs, and so do the two of every client; an offer on an
\* unbuffered channel that keeps being received from is taken in the end.
FairSpec ==
  /\ Spec
  /\ WF_vars(Deliver)
  /\ \A c \in Clients :
       /\ SF_vars(Register(c)) /\ SF_vars(Unregister(c))
       /\ WF_vars(ReadPumpEnds(c)) /\ WF_vars(WritePumpEnds(c))

-----------------------------------------------------------------------------

\* The state is well typed and no channel holds more than its capacity.
TypeOK ==
  /\ clients \subseteq Clients /\ slow \subseteq Clients
  /\ queue \in Seq(AnyScope) /\ Len(queue) <= QueueMax
  /\ handled \in Seq(AnyScope)
  /\ emit \in [Emitters -> AnyScope \cup {"idle"}]
  /\ scope \in [Clients -> AnyScope]
  /\ send \in [Clients -> Seq(Nat)]
  /\ \A c \in Clients : Len(send[c]) <= SendBuf
  /\ closes \in [Clients -> Nat]
  /\ conn \in [Clients -> {"none", "open", "closed"}]
  /\ reader \in [Clients -> {"none", "registering", "reading", "leaving",
                             "closing", "done"}]
  /\ writer \in [Clients -> {"none", "writing", "done"}]
  /\ from \in [Clients -> Nat]
  /\ got \in [Clients -> Seq(Nat)]

Events(s) == {s[i] : i \in DOMAIN s}

\* What a client that reads everything is owed: the events of its scope that
\* were handled since it registered.
Owed(c) == {n \in (from[c] + 1)..Len(handled) : Matches(scope[c], handled[n])}

\* What a browser is shown has no gap: the frames of a connection are events
\* of its scope, in order, and between two of them none is missing.  The hub
\* skips a client that is full only because it unregisters it next; a client
\* in the map has all it is owed, on the wire or in its channel
\* (hub.go:62-77).
StreamHasNoGap ==
  \A c \in Clients :
    /\ Events(got[c]) \subseteq Owed(c)
    /\ \A i, j \in DOMAIN got[c] : i < j => got[c][i] < got[c][j]
    /\ \A i \in DOMAIN got[c], n \in Owed(c) : n < got[c][i] => n \in Events(got[c])
    /\ c \in clients \ slow /\ writer[c] = "writing" =>
         Events(got[c]) \cup Events(send[c]) = Owed(c)

\* The hub never panics: it closes a client's channel at most once, whoever
\* asks, and sends only to clients whose channel is open (hub.go:41-47).
ChannelClosedOnce ==
  \A c \in Clients : closes[c] <= 1 /\ (c \in clients => closes[c] = 0)

\* hub.go:73 "Unregister slow clients synchronously to avoid goroutine leak":
\* a client found slow leaves the map.
SlowClientsLeave == \A c \in Clients : c \in slow ~> c \notin clients
=============================================================================
