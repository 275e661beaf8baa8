---------------------------- MODULE ActivitySequence ----------------------------
(***************************************************************************)
(* The activity sequence use case (ex10_activity_sequence_use_case.c): a   *)
(* list of inventory rounds, power ramps, ramp downs and selects.  The     *)
(* thread of the application walks the list up to the first round and then *)
(* publishes packets; the IRQ_N monitor thread, inside Ex10Protocol's      *)
(* interrupt_handler(), walks on at each end of a round.  Both run         *)
(* continue_activity_sequence(): its steps take the thread as a parameter. *)
(*                                                                         *)
(* The monitor thread (a cooperative Zephyr thread of higher priority, see *)
(* gpio_driver.c:89) holds the host lock until it is idle, so a command of *)
(* the application is a step taken while pc["irq"] is "idle"; it yields    *)
(* only in commands, so its own updates of memory are not interrupted,     *)
(* while those of the application are.  Callbacks do not change the list.  *)
(***************************************************************************)
EXTENDS Integers, Sequences, FiniteSets

CONSTANTS
    ActivitySequences,          \* the sequences the application may run
    ResultBuffers,              \* size of the pool of Ex10ResultPackets
    MaxTags, MaxExpiries,       \* bounds: tags, expiries of the dwell time
    MaxRuns, MaxFailures,       \* bounds: runs, commands that fail
    MayStop, MayTimeOut         \* is the subscriber, a timeout to end a run?

Types == {"round", "ramp", "cw_off", "select"}

ActivityConstants ==
    /\ \A s \in ActivitySequences :
            /\ s \in Seq({s[i] : i \in DOMAIN s}) \ {<<>>}
            /\ \A i \in DOMAIN s : s[i].type_id \in Types
    /\ {ResultBuffers, MaxTags, MaxExpiries, MaxRuns, MaxFailures} \subseteq Nat
    /\ {MayStop, MayTimeOut} \subseteq BOOLEAN

None == [type_id |-> "none"]
Off == [antenna |-> 0, power |-> 0]
CwOf(config) == [antenna |-> config.antenna, power |-> config.power]

VARIABLES
    op, cw, rf_mode,            \* Ex10: a round runs, transmitter, RF mode
    event_fifo, done_reason,    \* Ex10: FIFO, inventory_op_summary
    round_done, irq_pending,    \* Ex10: interrupt status, edge of IRQ_N
    activity_sequence, activity_iter, inventory_round_pending,
    antenna, tx_power_cdbm,     \* sequence_state
    post_callback_lock,
    pc,                         \* of the threads "app" and "irq"
    activity,                   \* local to each: the activity at hand
    num_bytes, loaded,          \* locals: level of the FIFO, the counter
    queue, ex10_result,         \* event FIFO queue; success, stop or error
    performed, completed, \* in this run
    tags, expiries, runs, failures

chip == <<op, cw, rf_mode, event_fifo, done_reason, round_done, irq_pending>>
walk == <<activity_sequence, activity_iter, activity, performed>>
power == <<antenna, tx_power_cdbm>>
publish == <<loaded, ex10_result, runs>>
counts == <<tags, expiries>>
vars == <<chip, walk, inventory_round_pending, power, post_callback_lock, pc, num_bytes,
          queue, publish, completed, counts, failures>>

Init ==
    /\ op = FALSE /\ cw = Off /\ rf_mode = 0 /\ event_fifo = <<>> /\ done_reason = "None"
    /\ round_done = FALSE /\ irq_pending = FALSE
    /\ activity_sequence = <<>> /\ activity_iter = 0 /\ inventory_round_pending = 0
    /\ antenna = 0 /\ tx_power_cdbm = 0 /\ post_callback_lock = FALSE
    /\ pc = [t \in {"app", "irq"} |-> "idle"] /\ num_bytes = 0 /\ loaded = 0
    /\ activity = [t \in {"app", "irq"} |-> None]
    /\ queue = <<>> /\ ex10_result = "success"
    /\ performed = <<>> /\ completed = 0
    /\ tags = 0 /\ expiries = 0 /\ runs = 0 /\ failures = 0

Goto(t, step) == pc' = [pc EXCEPT ![t] = step]
At(t, step) == pc[t] = step
(* A host command of the application waits for the monitor thread.         *)
Command(t, step) == At(t, step) /\ (t = "app" => pc["irq"] = "idle")

-----------------------------------------------------------------------------
(* The Ex10.  A round ends with a packet, its reason and an interrupt; one *)
(* that finds the transmitter off ends at once.                            *)
EndRound(reason) ==
    /\ op' = FALSE /\ done_reason' = reason /\ round_done' = TRUE /\ irq_pending' = TRUE
    /\ event_fifo' = Append(event_fifo, "InventoryRoundSummary")

EndsRound ==
    /\ op
    /\ \/ cw # Off /\ EndRound("Done") /\ UNCHANGED failures
       \/ cw = Off /\ EndRound("TxNotRampedUp") /\ UNCHANGED failures
       \/ /\ failures < MaxFailures /\ failures' = failures + 1
          /\ EndRound("LmacOverload")
    /\ UNCHANGED <<cw, rf_mode, walk, inventory_round_pending, power, post_callback_lock, pc,
                   num_bytes, queue, publish, completed, counts>>

(* The regulatory timers turn the transmitter off, whatever the host does. *)
DwellTimeEnds ==
    /\ cw # Off /\ expiries < MaxExpiries
    /\ cw' = Off /\ expiries' = expiries + 1
    /\ IF op THEN EndRound("Regulatory")
       ELSE UNCHANGED <<op, event_fifo, done_reason, round_done, irq_pending>>
    /\ UNCHANGED <<rf_mode, walk, inventory_round_pending, power, post_callback_lock, pc,
                   num_bytes, queue, publish, completed, tags, failures>>

ReadsTag ==
    /\ op /\ cw # Off /\ tags < MaxTags
    /\ tags' = tags + 1 /\ event_fifo' = Append(event_fifo, "TagRead") /\ irq_pending' = TRUE
    /\ UNCHANGED <<op, cw, rf_mode, done_reason, round_done, walk, inventory_round_pending,
                   power, post_callback_lock, pc, num_bytes, queue, publish, completed, expiries, failures>>

-----------------------------------------------------------------------------
(* handle_fifo_handler_error() on the monitor thread, the returned result  *)
(* on that of the application; a callback's lock is given up.              *)
PushError ==
    queue' = IF Len(SelectSeq(queue, LAMBDA p : p = "Ex10Result")) < ResultBuffers
             THEN Append(queue, "Ex10Result") ELSE queue

Fail(t) ==
    IF t = "irq"
    THEN Goto(t, "fifo") /\ PushError /\ post_callback_lock' = FALSE /\ UNCHANGED ex10_result
    ELSE /\ Goto(t, "idle") /\ ex10_result' = "error" /\ UNCHANGED queue
         /\ post_callback_lock' = (post_callback_lock /\ ~At(t, "callback"))

MayFail(t) == failures < MaxFailures /\ failures' = failures + 1 /\ Fail(t)

(* Where a thread goes on after continue_activity_sequence().              *)
Finish(t) ==
    IF t = "irq" THEN Goto(t, "fifo") /\ post_callback_lock' = FALSE
    ELSE Goto(t, "peek_first") /\ UNCHANGED post_callback_lock

Continues(t, step) == Goto(t, step) /\ UNCHANGED <<queue, ex10_result, failures, post_callback_lock>>
Finishes(t) == Finish(t) /\ UNCHANGED <<queue, ex10_result, failures>>
Fails(t) == Fail(t) /\ UNCHANGED failures

Count == Len(activity_sequence)
Current == activity_sequence[activity_iter + 1]

(* get_basic_inventory_round_config() is not NULL. *)
HasRound == activity_iter < Count /\ Current.type_id = "round"

(* What the steps of the walk leave alone. *)
UnchangedByWalk ==
    UNCHANGED <<event_fifo, done_reason, round_done, irq_pending, num_bytes, loaded, runs,
                completed, counts>>

-----------------------------------------------------------------------------
(* continue_activity_sequence(): while activities are left, the operation  *)
(* that runs is waited for and the next activity looked up.                *)
NextActivity(t) ==
    /\ At(t, "next")
    /\ IF activity_iter >= Count THEN Finishes(t) ELSE Continues(t, "wait")
    /\ UNCHANGED <<op, cw, rf_mode, walk, inventory_round_pending, power>>
    /\ UnchangedByWalk

WaitOp(t) ==
    /\ Command(t, "wait")
    /\ \/ /\ ~op
          /\ activity' = [activity EXCEPT ![t] = Current] /\ Continues(t, "perform")
       \/ MayFail(t) /\ UNCHANGED activity
    /\ UNCHANGED <<op, cw, rf_mode, activity_sequence, activity_iter, performed,
                   inventory_round_pending, power>>
    /\ UnchangedByWalk

(* perform_activity_action().  A round counts as pending from here on.     *)
Perform(t) ==
    /\ Command(t, "perform")
    /\ performed' = Append(performed, activity_iter)
    /\ CASE activity[t].type_id = "round" ->
                /\ inventory_round_pending' = inventory_round_pending + 1
                /\ Continues(t, "update") /\ UNCHANGED cw
         [] activity[t].type_id = "ramp" ->
                Continues(t, "update") /\ UNCHANGED <<inventory_round_pending, cw>>
         [] activity[t].type_id = "cw_off" ->
                /\ UNCHANGED inventory_round_pending
                /\ \/ Continues(t, "after") /\ cw' = Off
                   \/ MayFail(t) /\ cw' \in {cw, Off}
         [] activity[t].type_id = "select" ->
                /\ UNCHANGED <<inventory_round_pending, cw>>
                /\ \/ cw # Off /\ Continues(t, "after")
                   \/ cw = Off /\ Fails(t)
                   \/ MayFail(t)
    /\ UNCHANGED <<op, rf_mode, activity_sequence, activity_iter, activity, power>>
    /\ UnchangedByWalk

(* update_power_from_sequence(): the mode is set, and the transmitter      *)
(* found off, on the same antenna or on another.                           *)
Update(t) ==
    /\ Command(t, "update")
    /\ \/ /\ rf_mode' = activity[t].config.rf_mode
          /\ Continues(t, IF cw = Off THEN "ramp_up"
                          ELSE IF antenna # activity[t].config.antenna THEN "ramp_down" ELSE "dynamic")
       \/ MayFail(t) /\ rf_mode' \in {rf_mode, activity[t].config.rf_mode}
    /\ UNCHANGED <<op, cw, walk, inventory_round_pending, power>>
    /\ UnchangedByWalk

RampDown(t) ==
    /\ Command(t, "ramp_down")
    /\ \/ Continues(t, "ramp_up") /\ cw' = Off
       \/ MayFail(t) /\ cw' \in {cw, Off}
    /\ UNCHANGED <<op, rf_mode, walk, inventory_round_pending, power>>
    /\ UnchangedByWalk

(* The new power and antenna are remembered, after a failed cw_on() too,   *)
(* but not when the configuration cannot be built or the power not changed.*)
Remember(t) == antenna' = activity[t].config.antenna /\ tx_power_cdbm' = activity[t].config.power
Powered(t) == Continues(t, IF activity[t].type_id = "round" THEN "start" ELSE "after")

(* dynamic_power_change(), from tx_power_cdbm to the new power.            *)
ChangePower(t) ==
    LET changed == IF cw = Off THEN Off ELSE [cw EXCEPT !.power = activity[t].config.power]
    IN /\ Command(t, "dynamic")
       /\ \/ Powered(t) /\ Remember(t) /\ cw' = changed
          \/ MayFail(t) /\ UNCHANGED power /\ cw' \in {cw, changed}
       /\ UNCHANGED <<op, rf_mode, walk, inventory_round_pending>>
       /\ UnchangedByWalk

RampUp(t) ==
    /\ Command(t, "ramp_up")
    /\ \/ Powered(t) /\ Remember(t) /\ cw' = CwOf(activity[t].config)
       \/ MayFail(t) /\ Remember(t) /\ cw' \in {cw, CwOf(activity[t].config)}
       \/ MayFail(t) /\ UNCHANGED <<power, cw>>
    /\ UNCHANGED <<op, rf_mode, walk, inventory_round_pending>>
    /\ UnchangedByWalk

(* start_inventory(): with the transmitter off it ramps up by itself; then *)
(* it refuses a second operation and starts the round.                     *)
StartInventory(t) ==
    /\ Command(t, "start")
    /\ \/ /\ rf_mode' = activity[t].config.rf_mode
          /\ cw' = IF cw = Off THEN CwOf(activity[t].config) ELSE cw
          /\ Continues(t, "run")
       \/ /\ MayFail(t)
          /\ rf_mode' \in {rf_mode, activity[t].config.rf_mode}
          /\ cw' \in {cw, IF cw = Off THEN CwOf(activity[t].config) ELSE cw}
    /\ UNCHANGED <<op, walk, inventory_round_pending, power>>
    /\ UnchangedByWalk

RunInventory(t) ==
    /\ Command(t, "run")
    /\ \/ ~op /\ op' = TRUE /\ Finishes(t)
       \/ op /\ Fails(t) /\ UNCHANGED op
       \/ MayFail(t) /\ op' \in {op, TRUE}
    /\ UNCHANGED <<cw, rf_mode, walk, inventory_round_pending, power>>
    /\ UnchangedByWalk

(* The activity is over: the iterator moves, the callback runs, and may    *)
(* take its time or fail.                                                  *)
AfterActivity(t) ==
    /\ At(t, "after")
    /\ activity_iter' = activity_iter + 1 /\ post_callback_lock' = TRUE
    /\ Goto(t, "callback")
    /\ UNCHANGED <<op, cw, rf_mode, activity_sequence, activity, performed, inventory_round_pending,
                   power, queue, ex10_result, failures>>
    /\ UnchangedByWalk

PostActivityCallback(t) ==
    /\ At(t, "callback")
    /\ \/ Goto(t, "next") /\ post_callback_lock' = FALSE
          /\ UNCHANGED <<queue, ex10_result, failures>>
       \/ MayFail(t)
    /\ UNCHANGED <<op, cw, rf_mode, walk, inventory_round_pending, power>>
    /\ UnchangedByWalk

Walks(t) ==
    \/ NextActivity(t) \/ WaitOp(t) \/ Perform(t) \/ Update(t) \/ RampDown(t) \/ ChangePower(t) \/ RampUp(t)
    \/ StartInventory(t) \/ RunInventory(t) \/ AfterActivity(t) \/ PostActivityCallback(t)

-----------------------------------------------------------------------------
(* interrupt_handler() of Ex10Protocol, and of the use case in between.    *)
HandlerReadsStatus ==
    /\ At("irq", "idle") /\ irq_pending
    /\ Goto("irq", IF round_done THEN "round" ELSE "fifo")
    /\ num_bytes' = Len(event_fifo) /\ round_done' = FALSE /\ irq_pending' = FALSE
    /\ UNCHANGED <<op, cw, rf_mode, event_fifo, done_reason, walk, inventory_round_pending,
                   power, post_callback_lock, queue, publish, completed, counts, failures>>

(* inventory_summary_switching().  A round that was cut is started again,  *)
(* with its configuration, but not counted as pending again.               *)
Restarts ==
    Continues("irq", "start") /\ activity' = [activity EXCEPT !["irq"] = Current]

(* A mistake: a round that never had the transmitter on is over, too. *)
SwitchWithoutRamp ==
    /\ At("irq", "round")
    /\ \/ done_reason = "Regulatory" /\ Restarts
          /\ UNCHANGED <<activity_iter, completed>>
       \/ /\ done_reason \in {"Done", "TxNotRampedUp"} /\ post_callback_lock' = TRUE
          /\ activity_iter' = activity_iter + 1
          /\ completed' = IF done_reason = "Done" THEN completed + 1 ELSE completed
          /\ Goto("irq", "round_callback")
          /\ UNCHANGED <<queue, ex10_result, failures, activity>>
       \/ /\ \/ done_reason = "LmacOverload" /\ Fails("irq")
             \/ MayFail("irq")
          /\ UNCHANGED <<activity_iter, activity, completed>>
    /\ UNCHANGED <<chip, activity_sequence, performed, inventory_round_pending, power,
                   num_bytes, loaded, runs, counts>>

Switch ==
    /\ At("irq", "round")
    /\ \/ /\ done_reason \in {"Regulatory", "TxNotRampedUp"}
          /\ Restarts
          /\ UNCHANGED <<activity_iter, completed>>
       \/ /\ done_reason = "Done" /\ post_callback_lock' = TRUE
          /\ activity_iter' = activity_iter + 1 /\ completed' = completed + 1
          /\ Goto("irq", "round_callback")
          /\ UNCHANGED <<queue, ex10_result, failures, activity>>
       \/ /\ \/ done_reason = "LmacOverload" /\ Fails("irq")
             \/ MayFail("irq")
          /\ UNCHANGED <<activity_iter, activity, completed>>
    /\ UNCHANGED <<chip, activity_sequence, performed, inventory_round_pending, power,
                   num_bytes, loaded, runs, counts>>

(* After the callback the lock is kept until the walk ends, or an activity *)
(* that is no round has given it up.                                       *)
RoundCallback ==
    /\ At("irq", "round_callback")
    /\ \/ /\ Goto("irq", "next")
          /\ UNCHANGED <<queue, ex10_result, failures, post_callback_lock>>
       \/ MayFail("irq")
    /\ UNCHANGED <<op, cw, rf_mode, walk, inventory_round_pending, power>>
    /\ UnchangedByWalk

(* fifo_data_handler() queues what is read.                                *)
ReadEventFifo ==
    /\ At("irq", "fifo") /\ Goto("irq", "idle")
    /\ event_fifo' = SubSeq(event_fifo, num_bytes + 1, Len(event_fifo))
    /\ queue' = queue \o SubSeq(event_fifo, 1, num_bytes)
    /\ UNCHANGED <<op, cw, rf_mode, done_reason, round_done, irq_pending, walk,
                   inventory_round_pending, power, post_callback_lock, num_bytes, publish,
                   completed, counts, failures>>

-----------------------------------------------------------------------------
(* The application starts again, and anew, only when the one before is     *)
(* over on all sides.  (The code does not see to it: a run that is started *)
(* after a stop finds its iterator moved by the end of the old round.)     *)
AtRest ==
    At("app", "idle") /\ At("irq", "idle") /\ ~op /\ event_fifo = <<>> /\ ~irq_pending

RunActivitySequence ==
    /\ AtRest /\ queue = <<>> /\ runs < MaxRuns /\ runs' = runs + 1
    /\ activity_sequence' \in ActivitySequences
    /\ activity_iter' = 0 /\ inventory_round_pending' = 0
    /\ Goto("app", "check_op") /\ ex10_result' = "success"
    /\ performed' = <<>> /\ completed' = 0
    /\ UNCHANGED <<chip, activity, power, post_callback_lock, num_bytes, loaded, queue, counts,
                   failures>>

(* init(), called again: what was queued is dropped.                       *)
Reinit ==
    /\ AtRest /\ queue # <<>> /\ queue' = <<>>
    /\ activity_iter' = 0 /\ inventory_round_pending' = 0
    /\ UNCHANGED <<chip, activity_sequence, activity, performed, power, post_callback_lock, pc,
                   num_bytes, loaded, ex10_result, runs, completed, counts, failures>>

AppChecksOp ==
    /\ Command("app", "check_op")
    /\ IF op THEN Goto("app", "idle") /\ ex10_result' = "error"
       ELSE Goto("app", "next") /\ UNCHANGED ex10_result
    /\ UNCHANGED <<chip, walk, inventory_round_pending, power, post_callback_lock, num_bytes,
                   queue, loaded, runs, completed, counts, failures>>

UnchangedByPublish ==
    UNCHANGED <<chip, walk, power, post_callback_lock, num_bytes, runs, completed, counts, failures>>

(* publish_packets().  At the top of the loop the timeout is looked at,    *)
(* and the first packet waited for; the timed wait does not time out       *)
(* (EventFifoQueue).                                                       *)
PublishTimesOut ==
    /\ At("app", "peek_first") /\ MayTimeOut
    /\ Goto("app", "idle") /\ ex10_result' = "error"
    /\ UNCHANGED <<inventory_round_pending, queue, loaded>> /\ UnchangedByPublish

(* An Ex10ResultPacket ends the run, and stays at the front of the queue.  *)
(* The counter is tested, loaded and stored apart: the monitor thread may  *)
(* count in between.                                                       *)
Peek ==
    /\ \/ At("app", "peek_first") /\ queue # <<>>
       \/ At("app", "peek")
    /\ IF queue = <<>> THEN Goto("app", "check") /\ UNCHANGED <<ex10_result, loaded>>
       ELSE CASE Head(queue) = "Ex10Result" ->
                    Goto("app", "idle") /\ ex10_result' = "error" /\ UNCHANGED loaded
              [] Head(queue) = "InventoryRoundSummary" ->
                    /\ Goto("app", IF inventory_round_pending > 0 THEN "count" ELSE "deliver")
                    /\ loaded' = inventory_round_pending /\ UNCHANGED ex10_result
              [] OTHER ->
                    Goto("app", "deliver") /\ UNCHANGED <<ex10_result, loaded>>
    /\ UNCHANGED <<inventory_round_pending, queue>> /\ UnchangedByPublish

CountDown ==
    /\ At("app", "count") /\ Goto("app", "deliver")
    /\ inventory_round_pending' = loaded - 1
    /\ UNCHANGED <<queue, ex10_result, loaded>> /\ UnchangedByPublish

(* The subscriber may ask to stop; all that is queued is still delivered.  *)
Deliver ==
    /\ At("app", "deliver") /\ Goto("app", "peek")
    /\ queue' = Tail(queue)
    /\ ex10_result' \in {ex10_result} \cup (IF MayStop THEN {"stop"} ELSE {})
    /\ UNCHANGED <<inventory_round_pending, loaded>> /\ UnchangedByPublish

Over ==
    /\ ~post_callback_lock /\ inventory_round_pending = 0 /\ activity_iter >= Count

CheckEnd ==
    /\ At("app", "check")
    /\ Goto("app", IF ex10_result # "success" \/ Over THEN "idle" ELSE "peek_first")
    /\ UNCHANGED <<inventory_round_pending, queue, ex10_result, loaded>> /\ UnchangedByPublish

-----------------------------------------------------------------------------
Publishes == Peek \/ CountDown \/ Deliver \/ CheckEnd
Handles == HandlerReadsStatus \/ Switch \/ RoundCallback \/ ReadEventFifo \/ Walks("irq")
Next ==
    \/ EndsRound \/ DwellTimeEnds \/ ReadsTag
    \/ Handles \/ RunActivitySequence \/ Reinit \/ AppChecksOp \/ Walks("app")
    \/ Publishes \/ PublishTimesOut

(* A round ends; both threads run; a command of the application waits for  *)
(* the monitor thread, which needs an interrupt to run again.              *)
Fairness ==
    /\ WF_vars(EndsRound) /\ WF_vars(Handles) /\ WF_vars(Publishes)
    /\ SF_vars(Walks("app")) /\ SF_vars(AppChecksOp)

Spec == Init /\ [][Next]_vars /\ Fairness

-----------------------------------------------------------------------------
(* Properties.                                                             *)
Rounds == Cardinality({i \in DOMAIN activity_sequence : activity_sequence[i].type_id = "round"})
Returned == At("app", "idle") /\ runs > 0

(* The two threads together perform each activity once, in its order; and  *)
(* a run that returns without an error or a stop has performed them all,   *)
(* with each of its rounds run to its own end, however often they were cut *)
(* by the regulatory timers ("this function will block until the inventory *)
(* sequence completes", ex10_activity_sequence_use_case.h:159-162).        *)
PerformedInOrder ==
    /\ \A i \in DOMAIN performed : performed[i] = i - 1
    /\ Returned /\ ex10_result = "success" =>
            Len(performed) = Count /\ completed = Rounds /\ ~op

(* A round that is running with the transmitter on has the antenna, the    *)
(* power and the mode of its own activity, though the one before may have  *)
(* left other ones, and the transmitter may go off between any two steps   *)
(* ("ensures that the antenna, rf_mode, and power are updated even if CW   *)
(* is on", ex10_activity_sequence_use_case.c:327-328).                     *)
RoundAsConfigured ==
    op /\ cw # Off /\ HasRound =>
        cw = CwOf(Current.config) /\ rf_mode = Current.config.rf_mode

(* Running leads to Rests: a run whose sequence has a round returns, for   *)
(* its last packet wakes the application after the walk is over.           *)
Running == ~At("app", "idle") /\ Rounds > 0
Rests == At("app", "idle")

=============================================================================
