------------------------------ MODULE MCRfPower ------------------------------
(* Model-checking instance of RfPower: batches of two measurements, three  *)
(* quiet ones required, so that a row may span two batches.                *)
EXTENDS RfPower
=============================================================================
