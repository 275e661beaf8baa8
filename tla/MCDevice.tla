------------------------------ MODULE MCDevice -------------------------------
(* Model-checking instance of Device: images of two chunks.                *)
EXTENDS Device
=============================================================================
