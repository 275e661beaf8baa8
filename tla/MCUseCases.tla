------------------------------ MODULE MCUseCases ------------------------------
(* Model-checking instance of UseCases.                                    *)
EXTENDS UseCases, Sequences

Configuration(a, p, m) == [antenna |-> a, power |-> p, rf_mode |-> m]
Round(a, p) == [type_id |-> "round", config |-> Configuration(a, p, a)]
Ramp(a, p) == [type_id |-> "ramp", config |-> Configuration(a, p, 1)]
CwOff == [type_id |-> "cw_off", config |-> Configuration(0, 0, 0)]
Select == [type_id |-> "select", config |-> Configuration(0, 0, 0)]
TwoAntennas == {<<Ramp(1, 1), Round(1, 2), Select, Round(2, 1), CwOff>>}

TwoLevels == <<1, 2>>
RoundsOrDuration ==
    {[rounds |-> 3, tags |-> 0, duration |-> FALSE], [rounds |-> 0, tags |-> 1, duration |-> TRUE]}
TimeAndTags == {[duration |-> 2, rounds |-> 0, tags |-> 0], [duration |-> 3, rounds |-> 0, tags |-> 2]}
=============================================================================
