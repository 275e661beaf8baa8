------------------------------ MODULE MCActiveRegion ------------------------------
EXTENDS ActiveRegion
Cards == {[i \in 0 .. 49 |-> 7 * i + 5], [i \in 0 .. 49 |-> 32767 - i * i]}
=============================================================================
