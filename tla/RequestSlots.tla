------------------------------ MODULE RequestSlots ------------------------------
(***************************************************************************)
(* What the multiplexor of one agent promises its callers, without mutex,  *)
(* map or goroutines: a slot per request, opened once, released once and   *)
(* sealed once, that hands its reader the agent's messages in the order    *)
(* they were sent, each at most once, and never more than its buffer       *)
(* holds.  A stream mode may lose its oldest messages; a tunnel that does  *)
(* may tell its reader so with the overflow marker.                        *)
(*                                                                         *)
(* A message carries the number n the agent gave it.  Module AgentProxy    *)
(* implements this specification.                                          *)
(***************************************************************************)
EXTENDS Naturals, Sequences

CONSTANTS
  Reqs,         \* request ids
  Msg,          \* messages, records with a field n
  Capacity(_),  \* the buffer of a slot of each mode
  Marker        \* the overflow marker, whose n is 0

VARIABLES
  mode,    \* "unary", "watch" or "tunnel"
  box,     \* "unused", "open", "released" (out of the map) or "sealed"
  queue,   \* the messages a slot holds
  read,    \* the messages its reader took
  down     \* the process ended in a panic

vars == <<mode, box, queue, read, down>>

Init ==
  /\ box = [r \in Reqs |-> "unused"]
  /\ queue = [r \in Reqs |-> <<>>]
  /\ read = [r \in Reqs |-> <<>>]
  /\ down = FALSE

Open(r) ==
  /\ box[r] = "unused"
  /\ box' = [box EXCEPT ![r] = "open"]
  /\ UNCHANGED <<mode, queue, read, down>>

\* A message newer than all that its reader has seen or will see.
Newest(r, m) ==
  /\ \A i \in DOMAIN read[r] : read[r][i].n < m.n
  /\ \A i \in DOMAIN queue[r] : queue[r][i].n < m.n

\* The multiplexor looked the slot up before somebody released it: it may
\* still post, but never to a sealed slot.
Post(r) ==
  /\ box[r] \in {"open", "released"}
  /\ Len(queue[r]) < Capacity(mode[r])
  /\ \E m \in Msg : Newest(r, m) /\ queue' = [queue EXCEPT ![r] = Append(@, m)]
  /\ UNCHANGED <<mode, box, read, down>>

Discard(r) ==
  /\ mode[r] # "unary" /\ queue[r] # <<>>
  /\ queue' = [queue EXCEPT ![r] = Tail(@)]
  /\ UNCHANGED <<mode, box, read, down>>

Overflow(r) ==
  /\ mode[r] = "tunnel" /\ box[r] = "open" /\ queue[r] = <<>>
  /\ queue' = [queue EXCEPT ![r] = <<Marker>>]
  /\ UNCHANGED <<mode, box, read, down>>

Fetch(r) ==
  /\ queue[r] # <<>>
  /\ read' = [read EXCEPT ![r] = Append(@, Head(queue[r]))]
  /\ queue' = [queue EXCEPT ![r] = Tail(@)]
  /\ UNCHANGED <<mode, box, down>>

Release(r) ==
  /\ box[r] = "open"
  /\ box' = [box EXCEPT ![r] = "released"]
  /\ UNCHANGED <<mode, queue, read, down>>

Seal(r) ==
  /\ box[r] = "released"
  /\ box' = [box EXCEPT ![r] = "sealed"]
  /\ UNCHANGED <<mode, queue, read, down>>

\* A send on a sealed slot panics.
Break ==
  /\ \E r \in Reqs : box[r] = "sealed"
  /\ down' = TRUE
  /\ UNCHANGED <<mode, box, queue, read>>

Next ==
  \/ Break
  \/ \E r \in Reqs :
       \/ Open(r) \/ Post(r) \/ Discard(r) \/ Overflow(r) \/ Fetch(r)
       \/ Release(r) \/ Seal(r)

Spec == Init /\ [][~down /\ Next]_vars
=============================================================================
