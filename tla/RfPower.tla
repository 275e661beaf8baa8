------------------------------- MODULE RfPower -------------------------------
(***************************************************************************)
(* Ramping the transmitter up and down (ex10_rf_power.c) with the modules  *)
(* that look at it: the ramp module manager keeps one callback before and  *)
(* one after a ramp; listen before talk measures the channel before it,    *)
(* antenna disconnect the reverse power after it (ex10_modules/).          *)
(*                                                                         *)
(* One thread calls cw_on(); the Ex10 may ramp down on its own timers at   *)
(* any moment.  An operation is started and waited for in one step; a step *)
(* that fails (MayFail) fails before or after its effect.  A measured RSSI *)
(* is quiet, under lbt_pass_threshold_cdbm, or noisy.                      *)
(***************************************************************************)
EXTENDS Naturals, FiniteSets

CONSTANTS
    Entries,                    \* RF_SYNTHESIZER_CONTROL_REG_ENTRIES
    passes_required,
    max_rssi_measurements,
    MaxFailures                 \* bound on the commands that fail

ASSUME RfPowerConstants ==
    /\ {Entries, passes_required, max_rssi_measurements, MaxFailures} \subseteq Nat
    /\ Entries > 0 /\ passes_required > 0
    \* uint8_t; under_limit_count, one batch further, does not wrap either
    /\ passes_required + Entries < 256

VARIABLES
    cw,                         \* Ex10: the transmitter is on
    pre_ramp_callback,          \* "none" or "lbt"
    post_ramp_callback,         \* "none" or "disconnect"
    antenna_stored, power_stored,    \* the variables stored for the two
    pc, result,                 \* cw_on(), and what the last call returned
    off_time,                   \* there is an off time to observe
    total_num_rssi_measurements, under_limit_count,
    noisy_seen,                 \* highest_rssi is above the threshold
    failures,
    \* observations
    heard,                      \* quiet measurements in a row that were made
    measuring_failed,           \* listening ended on an error
    came_up, status_lost,       \* in this call: on at some time; read failed
    checked, told               \* this ramp: checked; an error was returned

manager == <<pre_ramp_callback, post_ramp_callback, antenna_stored, power_stored>>
listening == <<total_num_rssi_measurements, under_limit_count, noisy_seen, heard,
               measuring_failed>>
ramp == <<checked, told>>
call == <<off_time, came_up, status_lost>>
vars == <<cw, manager, pc, result, call, listening, ramp, failures>>

Init ==
    /\ cw = FALSE
    /\ pre_ramp_callback = "none" /\ post_ramp_callback = "none"
    /\ antenna_stored = FALSE /\ power_stored = FALSE
    /\ pc = "idle" /\ result = "none" /\ off_time = FALSE
    /\ total_num_rssi_measurements = 0 /\ under_limit_count = 0
    /\ noisy_seen = FALSE /\ heard = 0 /\ measuring_failed = FALSE
    /\ came_up = FALSE /\ status_lost = FALSE
    /\ checked = FALSE /\ told = FALSE
    /\ failures = 0

MayFail == failures < MaxFailures /\ failures' = failures + 1

Returns(r) == pc' = "idle" /\ result' = r /\ told' = (told \/ r # "success")

-----------------------------------------------------------------------------
(* The ramp module manager.  The modules register one callback, or both.   *)
Register ==
    /\ pc = "idle"
    /\ IF pre_ramp_callback # "none" \/ post_ramp_callback # "none"
       THEN UNCHANGED <<pre_ramp_callback, post_ramp_callback>>
       ELSE \E lbt, disconnect \in BOOLEAN :
            /\ lbt \/ disconnect
            /\ pre_ramp_callback' = IF lbt THEN "lbt" ELSE "none"
            /\ post_ramp_callback' = IF disconnect THEN "disconnect" ELSE "none"
    /\ UNCHANGED <<cw, antenna_stored, power_stored, pc, result, call, listening,
                   ramp, failures>>

Unregister ==
    /\ pc = "idle"
    /\ pre_ramp_callback' = "none" /\ post_ramp_callback' = "none"
    /\ UNCHANGED <<cw, antenna_stored, power_stored, pc, result, call, listening,
                   ramp, failures>>

StoreVariables ==
    /\ pc = "idle"
    /\ \/ antenna_stored' = TRUE /\ UNCHANGED power_stored
       \/ power_stored' = TRUE /\ UNCHANGED antenna_stored
    /\ UNCHANGED <<cw, pre_ramp_callback, post_ramp_callback, pc, result, call,
                   listening, ramp, failures>>

-----------------------------------------------------------------------------
(* cw_on().  A transmitter that is on is left alone; get_cw_is_on() does   *)
(* not look at the result of its read.                                     *)
CwOn ==
    /\ pc = "idle"
    /\ came_up' = cw
    /\ \E is_on \in BOOLEAN :
        /\ \/ is_on = cw /\ status_lost' = FALSE /\ UNCHANGED failures
           \/ is_on # cw /\ status_lost' = TRUE /\ MayFail
        /\ IF is_on THEN Returns("success")
           ELSE pc' = "timer" /\ UNCHANGED <<result, told>>
    /\ off_time' \in BOOLEAN
    /\ UNCHANGED <<cw, manager, listening, checked>>

StopsWith(r) ==
    /\ Returns(r)
    /\ UNCHANGED <<cw, manager, call, checked>>

(* The off time first, so that listening is close to the ramp.             *)
ObserveOffTime ==
    /\ pc = "timer"
    /\ \/ /\ pc' = "pre"
          /\ UNCHANGED <<cw, manager, result, call, ramp, failures>>
       \/ off_time /\ MayFail /\ StopsWith("error")
    /\ UNCHANGED listening

(* call_pre_ramp_callback() *)
PreRamp ==
    /\ pc = "pre"
    /\ heard' = 0 /\ measuring_failed' = FALSE
    /\ total_num_rssi_measurements' = 0 /\ under_limit_count' = 0
    /\ noisy_seen' = FALSE
    /\ IF pre_ramp_callback = "lbt" /\ ~antenna_stored THEN StopsWith("error")
       ELSE /\ pc' = IF pre_ramp_callback = "none" THEN "ramp" ELSE "listen"
            /\ UNCHANGED <<cw, manager, result, call, ramp>>
    /\ UNCHANGED failures

-----------------------------------------------------------------------------
(* multi_listen_before_talk_rssi(): batches of measurements until enough   *)
(* quiet ones in a row.                                                    *)
num_measurements == IF passes_required > Entries THEN Entries ELSE passes_required
Batch == [1..num_measurements -> {"quiet", "noisy"}]

(* How many quiet ones are in a row at the end of a batch, after n before. *)
InARow(batch, n) ==
    LET after == CHOOSE k \in 0..num_measurements :
                    /\ \A i \in k + 1 .. num_measurements : batch[i] = "quiet"
                    /\ k > 0 => batch[k] = "noisy"
    IN IF after = 0 THEN n + num_measurements ELSE num_measurements - after

(* A mistake: all quiet ones are counted, in a row or not. *)
count_all(batch, n) ==
    n + Cardinality({i \in 1..num_measurements : batch[i] = "quiet"})

count_under_rssi_limit(batch, n) == InARow(batch, n)

(* The RSSI returned is compared with the threshold by the caller: above   *)
(* it only if the highest of the noisy ones is returned.                   *)
Verdict(noisy) ==
    IF noisy THEN StopsWith("above_threshold")
    ELSE pc' = "ramp" /\ UNCHANGED <<cw, manager, result, call, ramp>>

(* A mistake: the measurements made are not counted. *)
ListenForever ==
    /\ pc = "listen"
    /\ \E batch \in Batch :
        /\ under_limit_count' = InARow(batch, under_limit_count)
        /\ noisy_seen' = (noisy_seen \/ \E i \in DOMAIN batch : batch[i] = "noisy")
    /\ IF under_limit_count' >= passes_required THEN Verdict(FALSE)
       ELSE UNCHANGED <<cw, manager, pc, result, call, ramp>>
    /\ UNCHANGED <<total_num_rssi_measurements, heard, measuring_failed, failures>>

(* The read of the measurements may fail unnoticed: those that are counted *)
(* are then not those that were made.                                      *)
Listen ==
    /\ pc = "listen" /\ total_num_rssi_measurements < max_rssi_measurements
    /\ total_num_rssi_measurements' = total_num_rssi_measurements + num_measurements
    /\ \E batch \in Batch :
        LET under == count_under_rssi_limit(batch, under_limit_count)
            noisy == noisy_seen \/ \E i \in DOMAIN batch : batch[i] = "noisy"
        IN /\ under_limit_count' = under /\ noisy_seen' = noisy
           /\ \/ heard' = InARow(batch, heard)
                 /\ UNCHANGED <<failures, measuring_failed>>
              \/ heard' = 0 /\ measuring_failed' = TRUE /\ MayFail
           /\ IF under >= passes_required THEN Verdict(FALSE)
              ELSE UNCHANGED <<cw, manager, pc, result, call, ramp>>

(* The limit of measurements: the highest noisy RSSI is returned.          *)
ListenGivesUp ==
    /\ pc = "listen" /\ total_num_rssi_measurements >= max_rssi_measurements
    /\ Verdict(noisy_seen)
    /\ UNCHANGED <<listening, failures>>

(* So it is when a measurement fails.  INT16_MIN is not above anything.    *)
ListenFails ==
    /\ pc = "listen" /\ total_num_rssi_measurements < max_rssi_measurements
    /\ MayFail /\ measuring_failed' = TRUE
    /\ Verdict(noisy_seen)
    /\ UNCHANGED <<total_num_rssi_measurements, under_limit_count, noisy_seen, heard>>

-----------------------------------------------------------------------------
(* The transmitter is up; nobody has looked at it yet. *)
Up == cw' = TRUE /\ came_up' = TRUE /\ checked' = FALSE

(* The aggregate op: set_buffer(), run_aggregate_op(), and waiting for it.  *)
RunAggregateOp ==
    /\ pc = "ramp"
    /\ \/ Up /\ pc' = "post" /\ told' = FALSE /\ UNCHANGED <<result, failures>>
       \/ MayFail /\ pc' = "idle" /\ result' = "error" /\ told' = TRUE
          /\ (Up \/ UNCHANGED <<cw, came_up, checked>>)
    /\ UNCHANGED <<manager, off_time, status_lost, listening>>

(* A mistake: a measurement that fails is taken for a good one.            *)
PostRampTrusts ==
    /\ pc = "post"
    /\ \/ /\ checked' = TRUE /\ pc' = "idle" /\ result' = "success"
          /\ UNCHANGED <<cw, failures>>
       \/ /\ pc' = "idle" /\ result' = "success" /\ MayFail /\ UNCHANGED <<checked, cw>>
    /\ UNCHANGED <<manager, call, listening, told>>

(* get_return_loss_threshold_exceeded(): the measured reverse power, or    *)
(* anything that keeps it from being measured.                             *)
PostRamp ==
    /\ pc = "post"
    /\ \/ /\ post_ramp_callback = "none" \/ power_stored
          /\ checked' = TRUE /\ Returns("success") /\ UNCHANGED failures
       \/ /\ post_ramp_callback # "none"
          /\ pc' = "down"
          /\ UNCHANGED <<checked, result, told>>
          /\ UNCHANGED failures \/ MayFail
    /\ UNCHANGED <<cw, manager, call, listening>>

(* ... and then stop_op_and_ramp_down(), with its result ignored. *)
Disconnected ==
    /\ pc = "down" /\ Returns("above_threshold")
    /\ \/ cw' = FALSE /\ UNCHANGED failures
       \/ cw' \in {cw, FALSE} /\ MayFail
    /\ UNCHANGED <<manager, call, checked, listening>>

StopOpAndRampDown ==
    /\ pc = "idle"
    /\ \/ cw' = FALSE /\ Returns("success") /\ UNCHANGED failures
       \/ cw' \in {cw, FALSE} /\ Returns("error") /\ MayFail
    /\ came_up' = TRUE /\ status_lost' = FALSE
    /\ UNCHANGED <<manager, off_time, checked, listening>>

(* The Ex10 ramps down on the timers of the region. *)
RampsDown ==
    /\ cw /\ cw' = FALSE
    /\ UNCHANGED <<manager, pc, result, call, ramp, listening, failures>>

-----------------------------------------------------------------------------
CwOnStep ==
    \/ ObserveOffTime \/ PreRamp \/ Listen \/ ListenGivesUp \/ ListenFails
    \/ RunAggregateOp \/ PostRamp \/ Disconnected

Next ==
    \/ Register \/ Unregister \/ StoreVariables
    \/ CwOn \/ CwOnStep \/ StopOpAndRampDown \/ RampsDown

Spec == Init /\ [][Next]_vars /\ WF_vars(CwOnStep)

-----------------------------------------------------------------------------
(* Types. *)
TypeOK ==
    /\ cw \in BOOLEAN /\ antenna_stored \in BOOLEAN /\ power_stored \in BOOLEAN
    /\ off_time \in BOOLEAN /\ noisy_seen \in BOOLEAN /\ measuring_failed \in BOOLEAN
    /\ came_up \in BOOLEAN /\ status_lost \in BOOLEAN
    /\ checked \in BOOLEAN /\ told \in BOOLEAN
    /\ pre_ramp_callback \in {"none", "lbt"}
    /\ post_ramp_callback \in {"none", "disconnect"}
    /\ pc \in {"idle", "timer", "pre", "listen", "ramp", "post", "down"}
    /\ result \in {"none", "success", "error", "above_threshold"}
    /\ total_num_rssi_measurements \in Nat /\ under_limit_count \in Nat
    /\ heard \in Nat
    /\ failures \in 0 .. MaxFailures

(* With the module on, nothing is transmitted before passes_required quiet *)
(* measurements in a row, over batches, as long as no measurement fails.   *)
ListensFirst ==
    [][ cw' /\ ~cw => \/ pre_ramp_callback = "none" \/ measuring_failed
                      \/ heard >= passes_required ]_vars

(* Of a transmitter that is left on without its check after the ramp       *)
(* having gone well, some call has told with an error since it came up;    *)
(* and cw_on() returns success only if the transmitter has been on in the  *)
(* call, unless the read of its status failed.                             *)
UncheckedIsTold == pc = "idle" /\ cw /\ ~checked => told
SuccessMeansOn ==
    pc = "idle" /\ result = "success" => came_up \/ status_lost
ResultIsTrue == UncheckedIsTold /\ SuccessMeansOn

(* Every call ends: listening is bounded by max_rssi_measurements.         *)
CallEnds == pc # "idle" ~> pc = "idle"
=============================================================================
