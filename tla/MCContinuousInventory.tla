------------------------- MODULE MCContinuousInventory -------------------------
(* Model-checking instances of ContinuousInventory: two runs whose limits  *)
(* or subscriber end them; one in which commands and the subscriber fail,  *)
(* with buffers for one packet each; two runs whose subscriber fails.      *)
EXTENDS ContinuousInventory

Conditions(rounds, tags, duration) ==
    [max_number_of_rounds |-> rounds, max_number_of_tags |-> tags,
     max_duration |-> duration]

Limits ==
    [StopConditions |-> {Conditions(2, 2, FALSE), Conditions(0, 0, FALSE)},
     EventBuffers |-> 4, ResultBuffers |-> 1, FifoSize |-> 3,
     FifoThreshold |-> 2, ClientMayStop |-> TRUE, ClientMayFail |-> FALSE,
     MaxEmitted |-> 3, RoundLimit |-> 3, MaxRuns |-> 2, MaxFailures |-> 0]

Faults ==
    [StopConditions |-> {Conditions(2, 0, TRUE)},
     EventBuffers |-> 1, ResultBuffers |-> 1, FifoSize |-> 2,
     FifoThreshold |-> 1, ClientMayStop |-> FALSE, ClientMayFail |-> TRUE,
     MaxEmitted |-> 2, RoundLimit |-> 2, MaxRuns |-> 1, MaxFailures |-> 2]

FailingClient ==
    [StopConditions |-> {Conditions(1, 0, FALSE)},
     EventBuffers |-> 3, ResultBuffers |-> 1, FifoSize |-> 3,
     FifoThreshold |-> 1, ClientMayStop |-> FALSE, ClientMayFail |-> TRUE,
     MaxEmitted |-> 2, RoundLimit |-> 2, MaxRuns |-> 2, MaxFailures |-> 0]

LimitsAndFaults == {Limits, Faults}
OnlyFailingClient == {FailingClient}
=============================================================================
