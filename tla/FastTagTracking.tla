----------------------------- MODULE FastTagTracking -----------------------------
(***************************************************************************)
(* The fast tag tracking use case                                          *)
(* (ex10_fast_tag_tracking_use_case_gen2x.c): full EPC rounds, which build *)
(* the set of known stored CRCs, alternate with fast rounds, in which a    *)
(* tag tells its CRC only.  Both are runs of the continuous inventory,     *)
(* with stop conditions and a callback made for them: here such a run is   *)
(* what ContinuousInventory shows of it, tags that are reported and rounds *)
(* that end, until a condition holds at the end of a round.  Its packets   *)
(* are handled on the thread of the application, which is the only one.    *)
(*                                                                         *)
(* Time is counted from start_time_us in the length of a round, modulo     *)
(* Clock as the counter of the Ex10 is modulo 2^32; Delay units may pass   *)
(* between the check of the conditions and their update.                   *)
(***************************************************************************)
EXTENDS Integers, FiniteSets

CONSTANTS
    Crcs,                       \* the stored CRCs that may be read
    StopConditionSets,          \* records: duration, rounds, tags (0 = no limit)
    Clock,                      \* modulus of the clock
    ClientMayStop,              \* may the client stop, force a full round?
    MaxTags, MaxDelay,          \* bounds: tags read, delays in a run
    MaxRuns, MaxFailures        \* bounds: runs, calls that fail

FastTagTrackingConstants ==
    /\ {Clock, MaxTags, MaxDelay, MaxRuns, MaxFailures} \subseteq Nat /\ Clock > 0
    /\ \A s \in StopConditionSets : s.duration \in 0..(Clock - 1) /\ s.rounds \in Nat /\ s.tags \in Nat
    /\ ClientMayStop \in BOOLEAN

VARIABLES
    pc,                         \* where fast_tag_tracking_inventory() is
    stop_conditions, clear_new, \* parameters of the run
    known, new,                 \* the two bit fields
    force_full_round, switch_to_full_round, stop_inventory, stop_reason,
    fast_round_count, round_count, tag_count,
    inner,                      \* stop conditions of the continuous inventory
    inner_stop,                 \* its subscriber asked it to stop
    inner_start,                \* when it began
    inner_tags, inner_rounds,   \* what it counted
    elapsed,                    \* time since start_time_us
    result,                     \* of the run: success or error
    seen,                       \* how often each CRC was read since new is empty
    reported,                   \* CRCs the client got in this fast run
    delay, runs, failures

flags == <<force_full_round, switch_to_full_round, stop_inventory>>
fields == <<known, new, seen>>
counters == <<fast_round_count, round_count, tag_count>>
inventory == <<inner, inner_stop, inner_start, inner_tags, inner_rounds>>
run == <<stop_conditions, clear_new, runs>>
vars == <<pc, run, fields, flags, stop_reason, counters, inventory, elapsed, result, reported,
          delay, failures>>

NoLimit == [duration |-> 0, rounds |-> 0, tags |-> 0]
Never == [c \in Crcs |-> 0]

Init ==
    /\ pc = "idle" /\ stop_conditions = NoLimit /\ clear_new = FALSE
    /\ known = {} /\ new = {} /\ seen = Never
    /\ force_full_round = FALSE /\ switch_to_full_round = FALSE /\ stop_inventory = FALSE
    /\ stop_reason = "None" /\ fast_round_count = 0 /\ round_count = 0 /\ tag_count = 0
    /\ inner = NoLimit /\ inner_stop = FALSE /\ inner_start = 0 /\ inner_tags = 0 /\ inner_rounds = 0
    /\ elapsed = 0 /\ result = "success" /\ reported = {} /\ delay = 0 /\ runs = 0 /\ failures = 0

MayFail == failures < MaxFailures /\ failures' = failures + 1
Full == pc \in {"full_build", "full_switch"}
Fast == pc = "fast"
Empty(field) == field' = {} /\ seen' = Never

-----------------------------------------------------------------------------
(* A run of the continuous inventory begins, with conditions of its own.   *)
Begins(conditions) ==
    /\ inner' = conditions /\ inner_stop' = FALSE /\ inner_start' = elapsed
    /\ inner_tags' = 0 /\ inner_rounds' = 0 /\ reported' = {}

(* run_full_epc_inventory(): one round, whatever the conditions of the run.*)
BeginFull == known' = {} /\ Begins([NoLimit EXCEPT !.rounds = 1])

Return(outcome) == pc' = "idle" /\ result' = outcome

(* fast_tag_tracking_inventory(): what is up to the select command. *)
FastTagTrackingInventory ==
    /\ pc = "idle" /\ runs < MaxRuns /\ runs' = runs + 1
    /\ elapsed' = 0 /\ delay' = 0
    /\ \/ /\ stop_conditions' \in StopConditionSets /\ clear_new' \in BOOLEAN /\ result' = "success"
          /\ \/ /\ pc' = "full_build" /\ BeginFull /\ UNCHANGED <<new, seen>>
             \/ /\ pc' = "check" /\ UNCHANGED <<known, inventory, reported>>
                /\ IF clear_new' THEN Empty(new) ELSE UNCHANGED <<new, seen>>
          /\ UNCHANGED failures
       \/ /\ MayFail /\ Return("error")
          /\ UNCHANGED <<stop_conditions, clear_new, fields, inventory, reported>>
    /\ UNCHANGED <<flags, stop_reason, counters>>

(* check_stop_conditions(): a reason that is there is kept.                *)
Reason ==
    IF stop_reason # "None" THEN stop_reason
    ELSE IF stop_conditions.rounds > 0 /\ round_count >= stop_conditions.rounds THEN "MaxNumberOfRounds"
    ELSE IF stop_conditions.tags > 0 /\ tag_count >= stop_conditions.tags THEN "MaxNumberOfTags"
    ELSE IF stop_conditions.duration > 0 /\ elapsed >= stop_conditions.duration THEN "MaxDuration"
    ELSE IF stop_inventory THEN "Host" ELSE "None"

CheckStopConditions ==
    /\ pc = "check" /\ stop_reason' = Reason
    /\ IF stop_reason' # "None" THEN Return(result) ELSE pc' = "update" /\ UNCHANGED result
    /\ UNCHANGED <<run, fields, flags, counters, inventory, elapsed, reported, delay, failures>>

Delays ==
    /\ pc = "update" /\ delay < MaxDelay /\ delay' = delay + 1 /\ elapsed' = (elapsed + 1) % Clock
    /\ UNCHANGED <<pc, run, fields, flags, stop_reason, counters, inventory, result, reported, failures>>

(* update_stop_conditions(): what is left of each, modulo the word.        *)
Left ==
    LET Rest(limit, used) == IF limit = 0 THEN 0 ELSE (limit - used) % Clock
    IN [duration |-> Rest(stop_conditions.duration, elapsed),
        rounds |-> Rest(stop_conditions.rounds, round_count),
        tags |-> Rest(stop_conditions.tags, tag_count)]

RunFastInventory ==
    /\ pc = "update"
    /\ \/ pc' = "fast" /\ Begins(Left) /\ UNCHANGED <<result, failures>>
       \/ MayFail /\ Return("error") /\ UNCHANGED <<inventory, reported>>
    /\ UNCHANGED <<run, fields, flags, stop_reason, counters, elapsed, delay>>

-----------------------------------------------------------------------------
(* The client's callback: it may ask to stop, by stop_inventory() or by    *)
(* its result, to force a full round, or report an error.  Any of them     *)
(* ends the continuous inventory, an error at once.                        *)
Client(asks) ==
    \/ /\ UNCHANGED <<force_full_round, stop_inventory, failures, pc, result>>
       /\ inner_stop' = (inner_stop \/ asks \/ stop_inventory \/ (Fast /\ force_full_round))
    \/ /\ ClientMayStop /\ inner_stop' = TRUE /\ UNCHANGED <<failures, pc, result>>
       /\ \/ stop_inventory' = TRUE /\ UNCHANGED force_full_round
          \/ force_full_round' = TRUE /\ UNCHANGED stop_inventory
          \/ UNCHANGED <<stop_inventory, force_full_round>>
    \/ MayFail /\ Return("error") /\ UNCHANGED <<inner_stop, stop_inventory, force_full_round>>

TagIsRead == inner_tags < MaxTags /\ inner_tags' = inner_tags + 1

(* full_epc_callback(): the bit fields are built. *)
FullEpcCallback(crc) ==
    /\ Full /\ crc \notin known /\ TagIsRead
    /\ known' = known \cup {crc} /\ Client(FALSE)
    /\ UNCHANGED <<run, new, seen, switch_to_full_round, stop_reason, counters, inner, inner_start,
                   inner_rounds, elapsed, reported, delay>>

(* fast_inventory_callback(): a CRC that is not known is new when it was   *)
(* read before, else it may be noise, and the client is not told.          *)
(* A mistake: noise is taken for a new tag. *)
FastCallbackTrusting(crc) ==
    /\ Fast /\ TagIsRead /\ tag_count' = tag_count + 1
    /\ seen' = [seen EXCEPT ![crc] = IF @ < 2 THEN @ + 1 ELSE @]
    /\ reported' = reported \cup {crc} /\ UNCHANGED new
    /\ switch_to_full_round' = (switch_to_full_round \/ crc \notin known)
    /\ Client(crc \notin known)
    /\ UNCHANGED <<run, known, stop_reason, fast_round_count, round_count, inner, inner_start,
                   inner_rounds, elapsed, delay>>

FastInventoryCallback(crc) ==
    /\ Fast /\ TagIsRead /\ tag_count' = tag_count + 1
    /\ seen' = [seen EXCEPT ![crc] = IF @ < 2 THEN @ + 1 ELSE @]
    /\ IF crc \in known \cup new
       THEN /\ reported' = reported \cup {crc} /\ UNCHANGED new
            /\ switch_to_full_round' = (switch_to_full_round \/ crc \notin known)
            /\ Client(crc \notin known)
       ELSE /\ new' = new \cup {crc}
            /\ UNCHANGED <<pc, result, reported, flags, inner_stop, failures>>
    /\ UNCHANGED <<run, known, stop_reason, fast_round_count, round_count, inner, inner_start,
                   inner_rounds, elapsed, delay>>

-----------------------------------------------------------------------------
(* A round of the continuous inventory ends, one unit later.               *)
Over ==
    \/ inner.rounds > 0 /\ inner_rounds' >= inner.rounds
    \/ inner.tags > 0 /\ inner_tags >= inner.tags
    \/ inner.duration > 0 /\ (elapsed' - inner_start) % Clock >= inner.duration
    \/ inner_stop

(* The summary that ends it is counted by the fast callback, which forgets *)
(* what is new each tenth time.  (The branch that would count round_count  *)
(* is behind another one for the same packet.)                             *)
CountSummary ==
    /\ fast_round_count' = IF Fast THEN (fast_round_count + 1) % 10 ELSE fast_round_count
    /\ IF Fast /\ fast_round_count = 9 THEN Empty(new) ELSE UNCHANGED <<new, seen>>

RoundEnds ==
    /\ Full \/ Fast
    /\ elapsed' = (elapsed + 1) % Clock
    /\ inner_rounds' = IF inner.rounds > 0 THEN inner_rounds + 1 ELSE 0
    /\ IF Over THEN CountSummary /\ pc' = (CASE pc = "full_build" -> "built" [] pc = "full_switch" -> "reset"
                                             [] Fast -> "switch")
       ELSE UNCHANGED <<pc, fast_round_count, new, seen>>
    /\ UNCHANGED <<run, known, flags, stop_reason, round_count, tag_count, inner, inner_stop,
                   inner_start, inner_tags, result, reported, delay, failures>>

-----------------------------------------------------------------------------
(* fast_tag_tracking_inventory(), after each of these runs.                *)
Built ==
    /\ pc = "built" /\ pc' = "check"
    /\ IF clear_new THEN Empty(new) ELSE UNCHANGED <<new, seen>>
    /\ UNCHANGED <<run, known, flags, stop_reason, counters, inventory, elapsed, result, reported, delay,
                   failures>>

Switch ==
    /\ pc = "switch"
    /\ IF switch_to_full_round \/ force_full_round
       THEN /\ Empty(new)
            /\ \/ pc' = "full_switch" /\ BeginFull /\ UNCHANGED <<result, failures>>
               \/ MayFail /\ Return("error") /\ known' = {} /\ UNCHANGED <<inventory, reported>>
       ELSE pc' = "check" /\ UNCHANGED <<fields, inventory, result, reported, failures>>
    /\ UNCHANGED <<run, flags, stop_reason, counters, elapsed, delay>>

Reset ==
    /\ pc = "reset" /\ pc' = "check" /\ force_full_round' = FALSE /\ switch_to_full_round' = FALSE
    /\ UNCHANGED <<run, fields, stop_inventory, stop_reason, counters, inventory, elapsed, result,
                   reported, delay, failures>>

Proceeds == CheckStopConditions \/ RunFastInventory \/ RoundEnds \/ Built \/ Switch \/ Reset
Next ==
    \/ FastTagTrackingInventory \/ Delays \/ Proceeds
    \/ \E crc \in Crcs : FullEpcCallback(crc) \/ FastInventoryCallback(crc)

(* The application goes on, and rounds end.                                *)
Fairness == WF_vars(Proceeds)
Spec == Init /\ [][Next]_vars /\ Fairness

-----------------------------------------------------------------------------
(* Properties.                                                             *)

(* "The assumption is that a real new tag will be read at least twice"     *)
(* (ex10_fast_tag_tracking_use_case_gen2x.h:52-54): over all switches      *)
(* between full and fast rounds, the client is told in fast rounds of no   *)
(* CRC but known ones and those that were read again.                      *)
NoiseIsNotReported ==
    Fast => \A crc \in reported : crc \in known \/ seen[crc] >= 2

(* The first run that returns without an error does so for a cause: its    *)
(* time or number of tags is reached, or the client asked.                 *)
StopsForCause ==
    pc = "idle" /\ runs = 1 /\ result = "success" =>
        \/ stop_inventory
        \/ stop_conditions.tags > 0 /\ tag_count >= stop_conditions.tags
        \/ stop_conditions.duration > 0 /\ elapsed >= stop_conditions.duration

(* Running leads to Rests: a run with a limit of time returns, when no     *)
(* time passes between the check of the limit and its update.  (Else what  *)
(* is left may be nothing, which is no limit, or less, which is nearly a   *)
(* turn of the clock.)                                                     *)
Running == pc # "idle" /\ stop_conditions.duration > 0
Rests == pc = "idle" \/ delay > 0

=============================================================================
