---------------------------- MODULE InventoryRuns ----------------------------
(***************************************************************************)
(* What continuous_inventory() promises to its caller: a run reports tags  *)
(* to the subscriber and returns, either with an error or after a summary  *)
(* whose number of tags is the number reported.                            *)
(***************************************************************************)
EXTENDS Naturals

VARIABLES
    run,             \* "idle" or "ongoing"
    reported,        \* tags reported to the subscriber in this run
    returned,        \* by the last run: "none", "error" or "summary"
    number_of_tags   \* in that summary

vars == <<run, reported, returned, number_of_tags>>

Init == run = "idle" /\ reported = 0 /\ returned = "none" /\ number_of_tags = 0

Start ==
    /\ run = "idle" /\ run' = "ongoing"
    /\ reported' = 0 /\ returned' = "none" /\ number_of_tags' = 0

Report ==
    /\ run = "ongoing"
    /\ reported' = reported + 1
    /\ UNCHANGED <<run, returned, number_of_tags>>

(* The subscriber's error may end the run with the tag it was given. *)
Fails ==
    /\ run = "ongoing" /\ run' = "idle"
    /\ returned' = "error"
    /\ reported' \in {reported, reported + 1}
    /\ UNCHANGED number_of_tags

Succeeds ==
    /\ run = "ongoing" /\ run' = "idle"
    /\ returned' = "summary" /\ number_of_tags' = reported
    /\ UNCHANGED reported

Next == Start \/ Report \/ Fails \/ Succeeds

SafetySpec == Init /\ [][Next]_vars
=============================================================================
