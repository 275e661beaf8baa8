----------------------------- MODULE EventStream -----------------------------
(***************************************************************************)
(* What the event FIFO path promises to the application: the packets the   *)
(* Ex10 emits, numbered in order of emission, are delivered in that order, *)
(* each at most once.  Without failures and while the use case stays open, *)
(* none is lost and each is delivered.                                     *)
(***************************************************************************)
EXTENDS Naturals

CONSTANT MayLose   \* may packets be lost on the way?

VARIABLES
    emitted,     \* number of packets emitted so far
    stream,      \* packets emitted and neither delivered nor lost
    delivered    \* the last packet delivered, 0 if none

vars == <<emitted, stream, delivered>>

Init == emitted = 0 /\ stream = {} /\ delivered = 0

Emit ==
    /\ emitted' = emitted + 1
    /\ stream' = stream \cup {emitted'}
    /\ UNCHANGED delivered

(* The first of the packets on their way. *)
Deliver ==
    \E packet \in stream :
        /\ \A other \in stream : packet <= other
        /\ delivered' = packet /\ stream' = stream \ {packet}
        /\ UNCHANGED emitted

(* A run of neighbouring packets - the contents of some buffers - is gone. *)
Lose ==
    /\ MayLose
    /\ \E first, last \in 1..emitted :
        stream' = {packet \in stream : packet < first \/ packet > last}
    /\ UNCHANGED <<emitted, delivered>>

Next == Emit \/ Deliver \/ Lose

SafetySpec == Init /\ [][Next]_vars

Spec == SafetySpec /\ WF_vars(Deliver)
=============================================================================
