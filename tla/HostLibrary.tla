------------------------------ MODULE HostLibrary ------------------------------
(***************************************************************************)
(* The parts of the host library that translate between what an            *)
(* application means and what the Ex10 is given: Gen2 commands, calibrated *)
(* powers and RSSI, register lists and event packets, the active region,   *)
(* aggregate operations.  None calls another; an application that works    *)
(* with one leaves what the others keep as it was at the start.            *)
(***************************************************************************)
EXTENDS Integers

CONSTANTS
    Components,                                 \* of which one is used
    MaxTxCommandCount, TxBufferBytes, EncodeBytes, Applications, TransactionIds, RepLens,
    Parts, DefaultParameters, Luts, DrmModes, MaxPower, BoostRatio, MaxSetups, Powers,
    PowerStep, TxFrequencies, Temperatures, RawRssis,
    Burst, MinRoom, AddressLimit, MaxCommand, Reads, Writes, Events, DataLengths, MaxFifo,
    RegionNames, SingleFrequencies, Randoms, TcxoKhz, MaxRequests, MaxRamps,
    BufferLength, RampConfigs, CoarseStep, UserWrites, MaxUserInstructions,
    MaxGen2Calls, MaxCalls, MaxFailures         \* bounds

VARIABLES
    component,
    encoded, local, device, enables, gen2_result, cmd_index, halted_sent, meant, held,
    checked, calls, failures, torn, part, cal_version, params, rssi_comp,
    rx_baseband_filter, drm_status, analog_offset, analog_freq, setups, memory, fifo,
    logged, intact, expected, call, at, command, sent, buffers, before, region,
    overridden, custom_active_region, channel_hop_table, channel_table_khz,
    active_channel_index, cw_timers, radiated, asked, single, timed, customised,
    requests, pc, caller, wanted, believed, build, last, result, buffer, sequence_at,
    regs, written, cw, coarse, fine, loop, lost

G == INSTANCE Gen2TxCommandManager WITH
        result <- gen2_result, sent <- halted_sent, MaxCalls <- MaxGen2Calls
C == INSTANCE Calibration WITH Frequencies <- TxFrequencies
T == INSTANCE Commands
R == INSTANCE ActiveRegion WITH Frequencies <- SingleFrequencies
A == INSTANCE AggregateOp WITH at <- sequence_at, PowerConfigs <- RampConfigs

ASSUME HostLibraryConstants ==
    /\ G!ManagerConstants /\ C!CalibrationConstants /\ T!CommandsConstants /\ A!AggregateOpConstants
ASSUME CommandsAreTyped == \A app \in Applications : \A spec \in app : G!IsTyped(spec)

OthersOfG ==
    <<part, cal_version, params, rssi_comp, rx_baseband_filter, drm_status,
      analog_offset, analog_freq, setups, memory, fifo, logged, intact, expected, call,
      at, command, sent, buffers, before, region, overridden, custom_active_region,
      channel_hop_table, channel_table_khz, active_channel_index, cw_timers, radiated,
      asked, single, timed, customised, requests, pc, caller, wanted, believed, build,
      last, result, buffer, sequence_at, regs, written, cw, coarse, fine, loop, lost>>
OthersOfC ==
    <<encoded, local, device, enables, gen2_result, cmd_index, halted_sent, meant, held,
      checked, calls, failures, torn, memory, fifo, logged, intact, expected, call, at,
      command, sent, buffers, before, region, overridden, custom_active_region,
      channel_hop_table, channel_table_khz, active_channel_index, cw_timers, radiated,
      asked, single, timed, customised, requests, pc, caller, wanted, believed, build,
      last, result, buffer, sequence_at, regs, written, cw, coarse, fine, loop, lost>>
OthersOfT ==
    <<encoded, local, device, enables, gen2_result, cmd_index, halted_sent, meant, held,
      checked, torn, part, cal_version, params, rssi_comp, rx_baseband_filter,
      drm_status, analog_offset, analog_freq, setups, region, overridden,
      custom_active_region, channel_hop_table, channel_table_khz, active_channel_index,
      cw_timers, radiated, asked, single, timed, customised, requests, pc, caller,
      wanted, believed, build, last, result, buffer, sequence_at, regs, written, cw,
      coarse, fine, loop, lost>>
OthersOfR ==
    <<encoded, local, device, enables, gen2_result, cmd_index, halted_sent, meant, held,
      checked, calls, failures, torn, part, cal_version, params, rssi_comp,
      rx_baseband_filter, drm_status, analog_offset, analog_freq, setups, memory, fifo,
      logged, intact, expected, call, at, command, sent, buffers, before, pc, caller,
      wanted, believed, build, last, result, buffer, sequence_at, regs, written, cw,
      coarse, fine, loop, lost>>
OthersOfA ==
    <<encoded, local, device, enables, gen2_result, cmd_index, halted_sent, meant, held,
      checked, torn, part, cal_version, params, rssi_comp, rx_baseband_filter,
      drm_status, analog_offset, analog_freq, setups, memory, fifo, logged, intact,
      expected, call, at, command, sent, buffers, before, region, overridden,
      custom_active_region, channel_hop_table, channel_table_khz, active_channel_index,
      cw_timers, radiated, asked, single, timed, customised, requests>>

vars == <<component, G!vars, OthersOfG>>

Gen2 == component = "gen2" /\ UNCHANGED <<component, OthersOfG>>
Calibration == component = "calibration" /\ UNCHANGED <<component, OthersOfC>>
Commands == component = "commands" /\ UNCHANGED <<component, OthersOfT>>
ActiveRegion == component = "region" /\ UNCHANGED <<component, OthersOfR>>
AggregateOp == component = "aggregate_op" /\ UNCHANGED <<component, OthersOfA>>

\* What a component that is not used would start from does not matter.
Init ==
    /\ component \in Components
    /\ G!Init /\ C!Init /\ T!Init /\ R!Init /\ A!Init
    /\ component = "gen2" \/ DOMAIN encoded = CHOOSE app \in Applications : TRUE
    /\ component = "calibration" \/ part = CHOOSE p \in Parts : TRUE

Next ==
    \/ Gen2 /\ G!Next
    \/ Calibration /\ C!Next
    \/ Commands /\ T!Next
    \/ ActiveRegion /\ R!Next
    \/ AggregateOp /\ A!Next

Spec == Init /\ [][Next]_vars

-----------------------------------------------------------------------------
(* Properties: those of the component in use, stated in its module.        *)

(* Gen2 commands: what was encoded is decoded, and a tag's answer is read  *)
(* as what it is, whatever the list went through (Gen2TxCommandManager).   *)
CommandsSurvive == component = "gen2" => G!DecodeInvertsEncode /\ G!AnswersAreRead

(* The chip holds, enables and sends the commands the application gave,    *)
(* as long as no transfer was lost (Gen2TxCommandManager).                 *)
ChipSendsWhatWasMeant ==
    component = "gen2" => G!ChipHoldsWhatWasMeant /\ G!MasksNameTheirKind /\ G!SentAlone

(* Calibrated transmission: the attenuator nearest to the power, and       *)
(* targets of the power detectors that lie on the curve of the part and    *)
(* follow the power (Calibration).                                         *)
PowerIsReached ==
    component = "calibration" =>
        C!AttenuatorIsNearest /\ C!TargetsFollowPower /\ C!TargetIsOnTheCurve

(* RSSI: converting there and back is exact to the step of the chip, and a *)
(* calibrated mode gets its own offset (Calibration).                      *)
RssiIsRecovered == component = "calibration" => C!RssiRoundTrips /\ C!CalibratedModeIsExact

(* Register lists and event packets come through the SPI transfers that    *)
(* carry them (Commands).                                                  *)
TransfersAreTrue == component = "commands" => T!TransfersAreFaithful /\ T!EventsSurvive

(* The reader hops over the channels it was given, and keeps to what was   *)
(* asked for a region (ActiveRegion).                                      *)
RegionIsKept == component = "region" => R!EveryChannelInTurn /\ R!TimersAsAsked

(* The chip runs the sequence that was built, which is ready for each of   *)
(* its operations, fits, and does what the ops layer does (AggregateOp).   *)
RunsWhatWasBuilt ==
    component = "aggregate_op" =>
        A!RunsWhatWasBuilt /\ A!OpsAreReady /\ A!OpsAgree /\ A!NeverOverflows

(* Ramping up and changing the power end at the power asked for, and go    *)
(* there by steps the board allows (AggregateOp).                          *)
PowerInSteps == A!SuccessMeansConfigured /\ A!StepIsBounded
=============================================================================
