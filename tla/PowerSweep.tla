-------------------------------- MODULE PowerSweep --------------------------------
(***************************************************************************)
(* The power sweep use case                                                *)
(* (ex10_continuous_inventory_power_sweep_use_case.c): inventory rounds    *)
(* one after the other, each at the next power of a list.  The IRQ_N       *)
(* monitor thread changes the power between two rounds, while the          *)
(* regulatory timers may turn the transmitter off at any time, and pushes  *)
(* the summary that ends the run; the application publishes packets.       *)
(*                                                                         *)
(* The threads are those of ActivitySequence.  Target and Q of a round are *)
(* left out: no property tells them apart.                                 *)
(***************************************************************************)
EXTENDS Integers, Sequences, FiniteSets

CONSTANTS
    PowerLevels,                \* the sequence of powers of the sweep
    StopConditionSets,          \* records: rounds, tags (0 = no limit), duration
    ResultBuffers,              \* size of the pool of Ex10ResultPackets
    MaxTags, MaxExpiries,       \* bounds: tags, expiries of the dwell time
    MaxRounds,                  \* bound: rounds of a run; a duration is over by then
    MaxRuns, MaxFailures,       \* bounds: runs, commands that fail
    MayStop                     \* may the subscriber ask to stop?

PowerSweepConstants ==
    /\ PowerLevels \in Seq(Nat \ {0}) \ {<<>>} /\ ResultBuffers # 0
    /\ \A s \in StopConditionSets : s.rounds \in Nat /\ s.tags \in Nat /\ s.duration \in BOOLEAN
    /\ {ResultBuffers, MaxTags, MaxExpiries, MaxRounds, MaxRuns, MaxFailures} \subseteq Nat
    /\ MayStop \in BOOLEAN

Off == 0

VARIABLES
    op, cw,                     \* Ex10: a round runs, power of the transmitter
    event_fifo, done_reason,    \* Ex10: FIFO, inventory_op_summary
    round_done, irq_pending,    \* Ex10: interrupt status, edge of IRQ_N
    iterator, tx_power_cdbm,    \* psucc.iterator, inventory_params
    state, stop_reason,         \* inventory_state
    round_count, tag_count,
    stop_conditions,
    pc,                         \* of the threads "app" and "irq"
    next_step,                  \* of the monitor thread after an error's summary
    num_bytes,                  \* level of the FIFO when the status was read
    queue, ex10_result,         \* event FIFO queue; success, stop, error or none
    swept, first,               \* powers the completed rounds had; first level
    summaries, published, told, \* of the run: summaries, tags the subscriber got,
                                \* tags the summary tells of
    tags, expiries, rounds, runs, failures

chip == <<op, cw, event_fifo, done_reason, round_done, irq_pending>>
sweep == <<iterator, tx_power_cdbm>>
inventory_state == <<state, stop_reason, round_count, tag_count>>
account == <<summaries, published, told>>
run == <<stop_conditions, first, runs>>
vars == <<chip, sweep, inventory_state, run, pc, next_step, num_bytes, queue, ex10_result,
          swept, account, tags, expiries, rounds, failures>>

Init ==
    /\ op = FALSE /\ cw = Off /\ event_fifo = <<>> /\ done_reason = "None"
    /\ round_done = FALSE /\ irq_pending = FALSE
    /\ iterator = 0 /\ tx_power_cdbm = PowerLevels[1]
    /\ state = "Idle" /\ stop_reason = "None" /\ round_count = 0 /\ tag_count = 0
    /\ stop_conditions = [rounds |-> 0, tags |-> 0, duration |-> FALSE]
    /\ pc = [t \in {"app", "irq"} |-> "idle"] /\ next_step = "fifo" /\ num_bytes = 0
    /\ queue = <<>> /\ ex10_result = "success" /\ swept = <<>> /\ first = 0
    /\ summaries = 0 /\ published = 0 /\ told = 0
    /\ tags = 0 /\ expiries = 0 /\ rounds = 0 /\ runs = 0 /\ failures = 0

Goto(t, step) == pc' = [pc EXCEPT ![t] = step]
At(t, step) == pc[t] = step
MayFail == failures < MaxFailures /\ failures' = failures + 1

-----------------------------------------------------------------------------
(* The Ex10.  *)
EndRound(reason) ==
    /\ op' = FALSE /\ done_reason' = reason /\ round_done' = TRUE /\ irq_pending' = TRUE
    /\ event_fifo' = Append(event_fifo, "InventoryRoundSummary")

UnchangedByChip ==
    UNCHANGED <<sweep, inventory_state, run, pc, next_step, num_bytes, queue, ex10_result,
                account, rounds>>

EndsRound ==
    /\ op
    /\ \/ cw # Off /\ EndRound("Done") /\ swept' = Append(swept, cw) /\ UNCHANGED failures
       \/ cw = Off /\ EndRound("TxNotRampedUp") /\ UNCHANGED <<swept, failures>>
       \/ MayFail /\ EndRound("EventFifoFull") /\ UNCHANGED swept
    /\ UNCHANGED <<cw, tags, expiries>> /\ UnchangedByChip

DwellTimeEnds ==
    /\ cw # Off /\ expiries < MaxExpiries /\ cw' = Off /\ expiries' = expiries + 1
    /\ IF op THEN EndRound("Regulatory")
       ELSE UNCHANGED <<op, event_fifo, done_reason, round_done, irq_pending>>
    /\ UNCHANGED <<swept, tags, failures>> /\ UnchangedByChip

ReadsTag ==
    /\ op /\ cw # Off /\ tags < MaxTags
    /\ tags' = tags + 1 /\ event_fifo' = Append(event_fifo, "TagRead") /\ irq_pending' = TRUE
    /\ UNCHANGED <<op, cw, done_reason, round_done, swept, expiries, failures>> /\ UnchangedByChip

-----------------------------------------------------------------------------
(* interrupt_handler() of Ex10Protocol, and of the use case in between.    *)
HandlerReadsStatus ==
    /\ At("irq", "idle") /\ irq_pending
    /\ Goto("irq", IF round_done THEN "round" ELSE "fifo")
    /\ num_bytes' = Len(event_fifo) /\ round_done' = FALSE /\ irq_pending' = FALSE
    /\ UNCHANGED <<op, cw, event_fifo, done_reason, sweep, inventory_state, run, next_step, queue,
                   ex10_result, swept, account, tags, expiries, rounds, failures>>

PushError ==
    queue' = IF Cardinality({i \in DOMAIN queue : queue[i][1] = "Ex10Result"}) < ResultBuffers
             THEN Append(queue, <<"Ex10Result">>) ELSE queue

(* handle_continuous_inventory_error(): the result is queued, the summary  *)
(* inserted in the FIFO of the Ex10, and the caller goes on with step.     *)
HandleError(step) ==
    /\ PushError /\ state' = "Idle" /\ Goto("irq", "error_summary") /\ next_step' = step

(* check_stop_conditions(): the first reason is kept.                      *)
Reason(count, elapsed) ==
    IF stop_reason # "None" THEN stop_reason
    ELSE IF stop_conditions.rounds > 0 /\ count >= stop_conditions.rounds THEN "MaxNumberOfRounds"
    ELSE IF stop_conditions.tags > 0 /\ tag_count >= stop_conditions.tags THEN "MaxNumberOfTags"
    ELSE IF elapsed THEN "MaxDuration"
    ELSE IF state = "StopRequested" THEN "Host" ELSE "None"

(* update_current_power_sweep_level() and get_current_power_sweep_level(). *)
NextLevel ==
    /\ iterator' = (iterator + 1) % Len(PowerLevels)
    /\ tx_power_cdbm' = PowerLevels[iterator' + 1]

(* What the handler does when the round ended without an error: it stops,  *)
(* or, after a complete round, takes the next level, and goes on.          *)
AfterRound(count, complete) ==
    \E elapsed \in BOOLEAN :
        /\ elapsed => stop_conditions.duration
        /\ stop_conditions.duration /\ rounds >= MaxRounds => elapsed
        /\ stop_reason' = Reason(count, elapsed)
        /\ IF stop_reason' # "None"
           THEN state' = "Idle" /\ Goto("irq", "summary") /\ UNCHANGED sweep
           ELSE /\ UNCHANGED state
                /\ IF complete THEN Goto("irq", "get_cw_is_on") /\ NextLevel
                   ELSE Goto("irq", "continue") /\ UNCHANGED sweep
        /\ UNCHANGED <<next_step, queue>>

RoundDone ==
    /\ At("irq", "round")
    /\ \/ /\ done_reason = "Done" /\ round_count' = round_count + 1
          /\ AfterRound(round_count', TRUE) /\ UNCHANGED failures
       \/ /\ done_reason = "TxNotRampedUp" /\ AfterRound(round_count, FALSE)
          /\ UNCHANGED <<round_count, failures>>
       \/ /\ done_reason = "Regulatory" /\ Goto("irq", "overshoot")
          /\ UNCHANGED <<sweep, state, stop_reason, round_count, next_step, queue, failures>>
       \/ /\ done_reason = "EventFifoFull" /\ HandleError("fifo")
          /\ UNCHANGED <<sweep, stop_reason, round_count, failures>>
       \/ /\ MayFail /\ PushError /\ Goto("irq", "fifo")
          /\ UNCHANGED <<sweep, state, stop_reason, round_count, next_step>>
    /\ UNCHANGED <<chip, tag_count, run, num_bytes, ex10_result, swept, account, tags, expiries,
                   rounds>>

UpdateTimerOvershoot ==
    /\ At("irq", "overshoot")
    /\ \/ AfterRound(round_count, FALSE) /\ UNCHANGED failures
       \/ MayFail /\ HandleError("fifo") /\ UNCHANGED <<sweep, stop_reason>>
    /\ UNCHANGED <<chip, round_count, tag_count, run, num_bytes, ex10_result, swept, account, tags,
                   expiries, rounds>>

(* push_continuous_inventory_summary_packet(): insert_fifo_event() with an *)
(* interrupt.  That it fails is an Ex10Result, or after an error lost.     *)
(* A mistake: the packet is inserted without an interrupt. *)
InsertSilently ==
    /\ At("irq", "summary") \/ At("irq", "error_summary")
    /\ Goto("irq", IF At("irq", "summary") THEN "fifo" ELSE next_step)
    /\ \/ /\ event_fifo' = Append(event_fifo, "ContinuousInventorySummary") /\ UNCHANGED irq_pending
          /\ summaries' = summaries + 1 /\ UNCHANGED <<queue, failures>>
       \/ /\ MayFail /\ UNCHANGED <<event_fifo, irq_pending, summaries>>
          /\ IF At("irq", "summary") THEN PushError ELSE UNCHANGED queue
    /\ UNCHANGED <<op, cw, done_reason, round_done, sweep, inventory_state, run, next_step, num_bytes,
                   ex10_result, swept, published, told, tags, expiries, rounds>>

InsertSummary ==
    /\ At("irq", "summary") \/ At("irq", "error_summary")
    /\ Goto("irq", IF At("irq", "summary") THEN "fifo" ELSE next_step)
    /\ \/ /\ event_fifo' = Append(event_fifo, "ContinuousInventorySummary") /\ irq_pending' = TRUE
          /\ summaries' = summaries + 1 /\ UNCHANGED <<queue, failures>>
       \/ /\ MayFail /\ UNCHANGED <<event_fifo, irq_pending, summaries>>
          /\ IF At("irq", "summary") THEN PushError ELSE UNCHANGED queue
    /\ UNCHANGED <<op, cw, done_reason, round_done, sweep, inventory_state, run, next_step, num_bytes,
                   ex10_result, swept, published, told, tags, expiries, rounds>>

(* get_cw_is_on(), then round_done_update_power(), which finds nothing to  *)
(* do when the transmitter has gone off in between.  The handler goes on   *)
(* with the next round after an error, too.                                *)
GetCwIsOn ==
    /\ At("irq", "get_cw_is_on") /\ Goto("irq", IF cw = Off THEN "continue" ELSE "update_power")
    /\ UNCHANGED <<chip, sweep, inventory_state, run, next_step, num_bytes, queue, ex10_result, swept,
                   account, tags, expiries, rounds, failures>>

(* A mistake: the power is left to start_inventory(). *)
RoundDoneKeepPower ==
    /\ At("irq", "update_power")
    /\ Goto("irq", "continue")
    /\ UNCHANGED <<chip, sweep, inventory_state, run, next_step, num_bytes, queue, ex10_result, swept,
                   account, tags, expiries, rounds, failures>>

RoundDoneUpdatePower ==
    LET changed == IF cw = Off THEN Off ELSE tx_power_cdbm
    IN /\ At("irq", "update_power")
       /\ \/ cw' = changed /\ Goto("irq", "continue") /\ UNCHANGED <<state, next_step, queue, failures>>
          \/ MayFail /\ cw' \in {cw, changed} /\ HandleError("continue")
       /\ UNCHANGED <<op, event_fifo, done_reason, round_done, irq_pending, sweep, stop_reason,
                      round_count, tag_count, run, num_bytes, ex10_result, swept, account, tags,
                      expiries, rounds>>

(* start_inventory(): the transmitter, when it is off, is turned on with   *)
(* the power of inventory_params; then the round is started.               *)
StartsRound ==
    /\ ~op /\ rounds < MaxRounds /\ op' = TRUE /\ rounds' = rounds + 1
    /\ cw' = IF cw = Off THEN tx_power_cdbm ELSE cw

ContinueInventory ==
    /\ At("irq", "continue")
    /\ \/ StartsRound /\ Goto("irq", "fifo") /\ UNCHANGED <<state, next_step, queue, failures>>
       \/ /\ MayFail /\ HandleError("fifo")
          /\ cw' \in {cw, IF cw = Off THEN tx_power_cdbm ELSE cw} /\ UNCHANGED <<op, rounds>>
    /\ UNCHANGED <<event_fifo, done_reason, round_done, irq_pending, sweep, stop_reason, round_count,
                   tag_count, run, num_bytes, ex10_result, swept, account, tags, expiries>>

(* fifo_data_handler(): tags are counted, and their number entered in the  *)
(* summary, before the packets are queued.                                 *)
TagsUpTo(node, i) == Cardinality({j \in 1..i : node[j] = "TagRead"})

ReadEventFifo ==
    LET node == SubSeq(event_fifo, 1, num_bytes)
    IN /\ At("irq", "fifo") /\ Goto("irq", "idle")
       /\ event_fifo' = SubSeq(event_fifo, num_bytes + 1, Len(event_fifo))
       /\ tag_count' = tag_count + TagsUpTo(node, Len(node))
       /\ queue' = queue \o [i \in DOMAIN node |->
                IF node[i] = "ContinuousInventorySummary" THEN <<node[i], tag_count + TagsUpTo(node, i)>>
                ELSE <<node[i]>>]
       /\ UNCHANGED <<op, cw, done_reason, round_done, irq_pending, sweep, state, stop_reason,
                      round_count, run, next_step, num_bytes, ex10_result, swept, account,
                      tags, expiries, rounds, failures>>

-----------------------------------------------------------------------------
(* The application.  After an error it takes the Ex10 down and up again.   *)
AtRest == At("app", "idle") /\ At("irq", "idle") /\ ~irq_pending

Reinit ==
    /\ At("app", "idle") /\ At("irq", "idle") /\ ex10_result = "error"
    /\ op' = FALSE /\ cw' = Off /\ event_fifo' = <<>> /\ done_reason' = "None"
    /\ round_done' = FALSE /\ irq_pending' = FALSE
    /\ queue' = <<>> /\ state' = "Idle" /\ ex10_result' = "none"
    /\ UNCHANGED <<sweep, stop_reason, round_count, tag_count, run, pc, next_step, num_bytes, swept,
                   account, tags, expiries, rounds, failures>>

ContinuousInventory ==
    /\ AtRest /\ ~op /\ queue = <<>> /\ ex10_result # "error" /\ runs < MaxRuns /\ runs' = runs + 1
    /\ stop_conditions' \in StopConditionSets
    /\ state' = "Ongoing" /\ stop_reason' = "None" /\ round_count' = 0 /\ tag_count' = 0
    /\ tx_power_cdbm' = PowerLevels[iterator + 1] /\ first' = iterator
    /\ ex10_result' = "success" /\ Goto("app", "start")
    /\ swept' = <<>> /\ summaries' = 0 /\ published' = 0 /\ told' = 0
    /\ tags' = 0 /\ expiries' = 0 /\ rounds' = 0
    /\ UNCHANGED <<chip, iterator, next_step, num_bytes, queue, failures>>

StartInventory ==
    /\ At("app", "start") /\ At("irq", "idle")
    /\ \/ StartsRound /\ Goto("app", "publish") /\ UNCHANGED <<state, ex10_result, failures>>
       \/ /\ MayFail /\ Goto("app", "idle") /\ ex10_result' = "error" /\ state' = "Idle"
          /\ cw' \in {cw, IF cw = Off THEN tx_power_cdbm ELSE cw} /\ UNCHANGED <<op, rounds>>
    /\ UNCHANGED <<event_fifo, done_reason, round_done, irq_pending, sweep, stop_reason, round_count,
                   tag_count, run, next_step, num_bytes, queue, swept, account, tags,
                   expiries>>

(* publish_packets(): the subscriber gets the tags and the summary, and    *)
(* may ask to stop; the run ends with the summary or an error.             *)
PublishPackets ==
    LET packet == Head(queue)[1]
    IN /\ At("app", "publish") /\ queue # <<>> /\ queue' = Tail(queue)
       /\ published' = published + (IF packet = "TagRead" THEN 1 ELSE 0)
       /\ \/ /\ packet = "Ex10Result" /\ ex10_result' = "error" /\ UNCHANGED state
          \/ /\ packet # "Ex10Result" /\ ex10_result = "success" /\ UNCHANGED <<ex10_result, state>>
          \/ /\ packet \in {"TagRead", "ContinuousInventorySummary"} /\ MayStop
             /\ ex10_result' = "stop" /\ state' = "StopRequested"
          \/ /\ packet # "Ex10Result" /\ ex10_result = "stop" /\ UNCHANGED ex10_result
             /\ state' = IF packet = "InventoryRoundSummary" THEN state ELSE "StopRequested"
       /\ IF packet \in {"Ex10Result", "ContinuousInventorySummary"} THEN Goto("app", "idle")
          ELSE UNCHANGED pc
       /\ told' = IF packet = "ContinuousInventorySummary" THEN Head(queue)[2] ELSE told
    /\ UNCHANGED <<chip, sweep, stop_reason, round_count, tag_count, run, next_step, num_bytes, swept,
                   summaries, tags, expiries, rounds, failures>>

-----------------------------------------------------------------------------
Handles ==
    \/ HandlerReadsStatus \/ RoundDone \/ UpdateTimerOvershoot \/ InsertSummary \/ GetCwIsOn
    \/ RoundDoneUpdatePower \/ ContinueInventory \/ ReadEventFifo
Next ==
    \/ EndsRound \/ DwellTimeEnds \/ ReadsTag \/ Handles
    \/ Reinit \/ ContinuousInventory \/ StartInventory \/ PublishPackets

Fairness ==
    /\ WF_vars(EndsRound) /\ WF_vars(Handles) /\ SF_vars(StartInventory) /\ WF_vars(PublishPackets)

Spec == Init /\ [][Next]_vars /\ Fairness

-----------------------------------------------------------------------------
(* Properties.                                                             *)
Level(i) == PowerLevels[((first + i - 1) % Len(PowerLevels)) + 1]
Returned == At("app", "idle") /\ runs > 0

(* The rounds that are completed have the powers of the list in turn, from *)
(* the one the run began with, each once, however often the regulatory     *)
(* timers cut rounds or turn the transmitter off between two of them.      *)
LevelsInTurn == failures = 0 => \A i \in DOMAIN swept : swept[i] = Level(i)

(* A run that returns without an error has inserted one summary, no round  *)
(* runs any more or is started, and the summary tells the tags that have   *)
(* been published, which are all that were read; a run that its number of  *)
(* rounds ended has completed just that many.                              *)
SuccessMeansStopped ==
    Returned /\ ex10_result \in {"success", "stop"} =>
        /\ ~op /\ summaries = 1 /\ state # "Ongoing"
        /\ told = published /\ published = tags
        /\ stop_reason = "MaxNumberOfRounds" => Len(swept) = stop_conditions.rounds

(* Running leads to Rests: the run returns.                                *)
Running == ~At("app", "idle")
Rests == At("app", "idle")

=============================================================================
