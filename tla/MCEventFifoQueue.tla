--------------------------- MODULE MCEventFifoQueue ---------------------------
(* Model-checking instance of EventFifoQueue: three nodes, so that the     *)
(* list, the monitor thread and the iterator can each hold one.            *)
EXTENDS EventFifoQueue
=============================================================================
