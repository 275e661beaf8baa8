---------------------------- MODULE MCEventPipeline ----------------------------
(* Model-checking instance of EventPipeline: pools small enough to run     *)
(* empty, a FIFO of two packets, more packets than all of them can hold.   *)
EXTENDS EventPipeline
=============================================================================
