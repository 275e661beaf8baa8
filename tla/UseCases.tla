-------------------------------- MODULE UseCases --------------------------------
(***************************************************************************)
(* The use cases next to the continuous inventory, one of which the        *)
(* application chooses and stays with: they share the Ex10, its FIFO and   *)
(* the event FIFO queue, and each registers its own callbacks with the     *)
(* protocol, so that no two of them are initialized at once.  What a       *)
(* module other than the chosen one keeps stays as it was at the start.    *)
(***************************************************************************)
EXTENDS Integers

CONSTANTS
    ChosenUseCases,                         \* of which one is run
    ActivitySequences, PowerLevels, Crcs, Clock, ClientMayStop,
    SweepConditions, TrackingConditions,    \* stop conditions of the two
    ResultBuffers, MayStop, MayTimeOut,
    AccessTags, TrackedTags, MaxTags,       \* bounds: as in the use cases
    MaxExpiries, MaxRounds, MaxRuns, MaxFailures, MaxDelay

VARIABLES
    use_case, op, halted_tag, event_fifo, done_reason, round_done, irq_pending, state,
    tag_halted_callback, pc, num_bytes, queue, ex10_result, tag_read, expects, offered,
    misdirected, tags, expiries, runs, failures, cw, iterator, sweep_power, stop_reason,
    round_count, tag_count, sweep_conditions, next_step, swept, first, summaries, published,
    told, rounds, tracking_pc, stop_conditions, clear_new, known, new, force_full_round,
    switch_to_full_round, stop_inventory, fast_round_count, inner, inner_stop, inner_start,
    inner_tags, inner_rounds, elapsed, result, seen, reported, delay, sequence_cw, rf_mode,
    activity_sequence, activity_iter, inventory_round_pending, antenna, tx_power_cdbm,
    post_callback_lock, activity, loaded, performed, completed

TA == INSTANCE TagAccess WITH MaxTags <- AccessTags, MaxRuns <- 1
PS == INSTANCE PowerSweep WITH
        StopConditionSets <- SweepConditions, stop_conditions <- sweep_conditions,
        tx_power_cdbm <- sweep_power
FT == INSTANCE FastTagTracking WITH
        StopConditionSets <- TrackingConditions, MaxTags <- TrackedTags, MaxRuns <- 1,
        pc <- tracking_pc
AS == INSTANCE ActivitySequence WITH cw <- sequence_cw

ASSUME UseCasesConstants ==
    /\ TA!TagAccessConstants /\ PS!PowerSweepConstants
    /\ FT!FastTagTrackingConstants /\ AS!ActivityConstants

OthersOfTA ==
    <<cw, iterator, sweep_power, stop_reason, round_count, tag_count, sweep_conditions,
      next_step, swept, first, summaries, published, told, rounds, tracking_pc,
      stop_conditions, clear_new, known, new, force_full_round, switch_to_full_round,
      stop_inventory, fast_round_count, inner, inner_stop, inner_start, inner_tags,
      inner_rounds, elapsed, result, seen, reported, delay, sequence_cw, rf_mode,
      activity_sequence, activity_iter, inventory_round_pending, antenna, tx_power_cdbm,
      post_callback_lock, activity, loaded, performed, completed>>
OthersOfPS ==
    <<halted_tag, tag_halted_callback, tag_read, expects, offered, misdirected, tracking_pc,
      stop_conditions, clear_new, known, new, force_full_round, switch_to_full_round,
      stop_inventory, fast_round_count, inner, inner_stop, inner_start, inner_tags,
      inner_rounds, elapsed, result, seen, reported, delay, sequence_cw, rf_mode,
      activity_sequence, activity_iter, inventory_round_pending, antenna, tx_power_cdbm,
      post_callback_lock, activity, loaded, performed, completed>>
OthersOfFT ==
    <<op, halted_tag, event_fifo, done_reason, round_done, irq_pending, state,
      tag_halted_callback, pc, num_bytes, queue, ex10_result, tag_read, expects, offered,
      misdirected, tags, expiries, cw, iterator, sweep_power, sweep_conditions, next_step,
      swept, first, summaries, published, told, rounds, sequence_cw, rf_mode,
      activity_sequence, activity_iter, inventory_round_pending, antenna, tx_power_cdbm,
      post_callback_lock, activity, loaded, performed, completed>>
OthersOfAS ==
    <<halted_tag, state, tag_halted_callback, tag_read, expects, offered, misdirected, cw,
      iterator, sweep_power, stop_reason, round_count, tag_count, sweep_conditions,
      next_step, swept, first, summaries, published, told, rounds, tracking_pc,
      stop_conditions, clear_new, known, new, force_full_round, switch_to_full_round,
      stop_inventory, fast_round_count, inner, inner_stop, inner_start, inner_tags,
      inner_rounds, elapsed, result, seen, reported, delay>>

vars == <<use_case, TA!vars, OthersOfTA>>

TagAccess == use_case = "tag_access" /\ UNCHANGED <<use_case, OthersOfTA>>
PowerSweep == use_case = "power_sweep" /\ UNCHANGED <<use_case, OthersOfPS>>
FastTagTracking == use_case = "fast_tag_tracking" /\ UNCHANGED <<use_case, OthersOfFT>>
ActivitySequence == use_case = "activity_sequence" /\ UNCHANGED <<use_case, OthersOfAS>>

Init == use_case \in ChosenUseCases /\ TA!Init /\ PS!Init /\ FT!Init /\ AS!Init

Next ==
    \/ TagAccess /\ TA!Next
    \/ PowerSweep /\ PS!Next
    \/ FastTagTracking /\ FT!Next
    \/ ActivitySequence /\ AS!Next

(* The fairness of each, for the one that is chosen.                       *)
EndsRound ==
    \/ TagAccess /\ TA!EndsRound
    \/ PowerSweep /\ PS!EndsRound
    \/ ActivitySequence /\ AS!EndsRound
Handles ==
    \/ TagAccess /\ TA!Handles
    \/ PowerSweep /\ PS!Handles
    \/ ActivitySequence /\ AS!Handles
Publishes ==
    \/ TagAccess /\ TA!Publishes
    \/ PowerSweep /\ PS!PublishPackets
    \/ FastTagTracking /\ FT!Proceeds
    \/ ActivitySequence /\ AS!Publishes
Starts ==
    \/ TagAccess /\ TA!StartInventory
    \/ PowerSweep /\ PS!StartInventory
    \/ ActivitySequence /\ AS!Walks("app")
Commands ==
    \/ TagAccess /\ TA!SendHaltedSequence
    \/ ActivitySequence /\ AS!AppChecksOp
Resumes == TagAccess /\ TA!ContinueFromHalted

Fairness ==
    /\ WF_vars(EndsRound) /\ WF_vars(Handles) /\ WF_vars(Publishes)
    /\ SF_vars(Starts) /\ SF_vars(Commands) /\ SF_vars(Resumes)

Spec == Init /\ [][Next]_vars /\ Fairness

-----------------------------------------------------------------------------
(* Properties: those of the chosen use case, stated in its module.         *)

(* Tag access: each sequence and each resume reaches its tag, and a run    *)
(* that succeeds has shown the callback every tag (see TagAccess).         *)
AccessReachesTags ==
    use_case = "tag_access" => TA!ReachesItsTag /\ TA!SuccessMeansComplete

(* Power sweep: completed rounds have the powers in turn, and a run that   *)
(* succeeds is over, with one summary that is right (see PowerSweep).      *)
PowersAreSwept ==
    use_case = "power_sweep" => PS!LevelsInTurn /\ PS!SuccessMeansStopped

(* Fast tag tracking: a CRC that was read once is not reported as a new    *)
(* tag, and a run stops for a cause (see FastTagTracking).                 *)
TagsAreTracked ==
    use_case = "fast_tag_tracking" => FT!NoiseIsNotReported /\ FT!StopsForCause

(* Activity sequence: all activities are performed, once and in order, and *)
(* each round with its own configuration (see ActivitySequence).           *)
SequenceIsPerformed ==
    use_case = "activity_sequence" => AS!PerformedInOrder /\ AS!RoundAsConfigured

(* A run that blocks its caller returns, as far as the use case's module   *)
(* says that it does (Running and Rests there).                            *)
UseCaseEnds ==
    (\/ use_case = "tag_access" /\ TA!Running
     \/ use_case = "power_sweep" /\ PS!Running
     \/ use_case = "fast_tag_tracking" /\ FT!Running
     \/ use_case = "activity_sequence" /\ AS!Running)
    ~> (\/ use_case = "tag_access" /\ TA!Rests
        \/ use_case = "power_sweep" /\ PS!Rests
        \/ use_case = "fast_tag_tracking" /\ FT!Rests
        \/ use_case = "activity_sequence" /\ AS!Rests)

=============================================================================
