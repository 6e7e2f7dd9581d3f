---------------------------- MODULE EventChannel ----------------------------
(***************************************************************************)
(* What an asynchronous scan promises its client, with no thread, queue    *)
(* or pipe in sight: the scan emits events, each is handed to its callback *)
(* at most once and in the order of emission, nothing is handed over once  *)
(* the client has closed the scan, and until then every event is handed    *)
(* over eventually.  AsyncScan is shown to implement this module.          *)
(***************************************************************************)
EXTENDS Naturals, Sequences

CONSTANT EventType       \* enum event_type, libmediascan.h

VARIABLES sent,          \* the events emitted so far, oldest first
          delivered,     \* the events whose callback was called, oldest first
          closed         \* the client has called ms_destroy

vars == <<sent, delivered, closed>>

Pending == Len(delivered) < Len(sent)

Init == sent = <<>> /\ delivered = <<>> /\ closed = FALSE

(* The scan emits an event; it may still do so while it is being closed.   *)
Emit == \E k \in EventType : sent' = Append(sent, k) /\ UNCHANGED <<delivered, closed>>

(* The oldest event not yet delivered reaches its callback.                *)
Deliver ==
  /\ Pending /\ ~closed
  /\ delivered' = Append(delivered, sent[Len(delivered) + 1])
  /\ UNCHANGED <<sent, closed>>

(* With nothing outstanding, an event may reach its callback as it is sent.*)
EmitDirect ==
  /\ ~Pending /\ ~closed
  /\ \E k \in EventType : sent' = Append(sent, k) /\ delivered' = Append(delivered, k)
  /\ UNCHANGED closed

(* The events still pending are discarded.                                 *)
Close == ~closed /\ closed' = TRUE /\ UNCHANGED <<sent, delivered>>

Next == Emit \/ Deliver \/ EmitDirect \/ Close

Spec == Init /\ [][Next]_vars /\ WF_vars(Deliver)
=============================================================================
