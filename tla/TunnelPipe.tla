------------------------------- MODULE TunnelPipe -------------------------------
(***************************************************************************)
(* What a tunnel promises the SPDY layer at one end and the apiserver at   *)
(* the other, without frames, acks, queues or goroutines: two pipes, which *)
(* invent and repeat no byte.  The one to the apiserver may lose bytes,    *)
(* but its writer is never more than the window ahead of what arrived; the *)
(* one from the apiserver may lose bytes too, but then it does not end     *)
(* with the end of the source: a reader that is told so has had them all,  *)
(* and there will be no more.                                              *)
(*                                                                         *)
(* Module TunnelFlow implements this specification.                        *)
(***************************************************************************)
EXTENDS Naturals

CONSTANTS
  Window,  \* how far the writer may be ahead of what arrived
  Sizes    \* the sizes a chunk may have

VARIABLES
  wrote,     \* bytes that Write reported as sent
  arrived,   \* of these, bytes the apiserver got
  produced,  \* bytes taken from the apiserver
  drained,   \* no more will be taken from it
  read,      \* bytes that Read returned
  verdict    \* what Read last said: "reading", "complete" or "short"

vars == <<wrote, arrived, produced, drained, read, verdict>>

Init ==
  /\ wrote = 0 /\ arrived = 0 /\ produced = 0 /\ read = 0
  /\ drained = FALSE
  /\ verdict = "reading"

Send(n) ==
  /\ wrote + n <= arrived + Window
  /\ wrote' = wrote + n
  /\ UNCHANGED <<arrived, produced, drained, read, verdict>>

Arrive(n) ==
  /\ arrived + n <= wrote
  /\ arrived' = arrived + n
  /\ UNCHANGED <<wrote, produced, drained, read, verdict>>

\* A chunk that the stream did not take is the last.
Produce(n) ==
  /\ ~drained
  /\ produced' = produced + n
  /\ drained' \in BOOLEAN
  /\ UNCHANGED <<wrote, arrived, read, verdict>>

Drain ==
  /\ ~drained
  /\ drained' = TRUE
  /\ UNCHANGED <<wrote, arrived, produced, read, verdict>>

Return(n) ==
  /\ verdict = "reading" /\ read + n <= produced
  /\ read' = read + n
  /\ UNCHANGED <<wrote, arrived, produced, drained, verdict>>

EndOfSource ==
  /\ verdict = "reading" /\ drained /\ read = produced
  /\ verdict' = "complete"
  /\ UNCHANGED <<wrote, arrived, produced, drained, read>>

\* Closed here, cancelled, saturated or disconnected.
CutShort ==
  /\ verdict = "reading"
  /\ verdict' = "short"
  /\ UNCHANGED <<wrote, arrived, produced, drained, read>>

Next ==
  \/ \E n \in Sizes : Send(n) \/ Arrive(n) \/ Produce(n) \/ Return(n)
  \/ Drain \/ EndOfSource \/ CutShort

Spec == Init /\ [][Next]_vars
=============================================================================
