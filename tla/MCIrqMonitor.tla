----------------------------- MODULE MCIrqMonitor -----------------------------
(* Model-checking instance of IrqMonitor: the state space is finite as it  *)
(* stands, and both failure switches are on.                               *)
EXTENDS IrqMonitor
=============================================================================
