-------------------------- MODULE ContinuousInventory --------------------------
(***************************************************************************)
(* The continuous inventory use case (ex10_continuous_inventory_use_case.c)*)
(* between its two threads and the Ex10: the application starts the first  *)
(* round and publishes packets; the IRQ_N monitor thread, inside           *)
(* Ex10Protocol's interrupt_handler(), restarts rounds, checks the stop    *)
(* conditions, inserts the summary packet and counts tags.                 *)
(*                                                                         *)
(* The monitor thread holds the host lock from the status read until it    *)
(* is idle again (IrqMonitor), so a host command of the application is a   *)
(* step taken while irqPc is "idle".  The use case is open throughout.     *)
(* Packets are tag reads, the summary, and Ex10ResultPackets; a queued     *)
(* node is the sequence of its packets not yet removed (EventPipeline).    *)
(* start_inventory() is two commands: is an operation running, start one.  *)
(***************************************************************************)
EXTENDS Integers, Sequences, FiniteSets

CONSTANT Setups                          \* the instances that are checked

VARIABLE setup                           \* one of them, throughout
StopConditions == setup.StopConditions   \* what the application may ask for
EventBuffers == setup.EventBuffers       \* sizes of the two buffer pools
ResultBuffers == setup.ResultBuffers
FifoSize == setup.FifoSize               \* Ex10 event FIFO, in packets
FifoThreshold == setup.FifoThreshold
ClientMayStop == setup.ClientMayStop     \* what the subscriber may answer
ClientMayFail == setup.ClientMayFail
MaxEmitted == setup.MaxEmitted           \* bound: tags emitted in one run
RoundLimit == setup.RoundLimit           \* bound: round_count saturates
MaxRuns == setup.MaxRuns                 \* bounds: runs, failing commands
MaxFailures == setup.MaxFailures

ASSUME InventoryConstants ==
    \A s \in Setups :
        /\ {s.EventBuffers, s.ResultBuffers, s.FifoSize, s.FifoThreshold,
            s.MaxEmitted, s.RoundLimit, s.MaxRuns, s.MaxFailures} \subseteq Nat
        /\ {s.ClientMayStop, s.ClientMayFail} \subseteq BOOLEAN
        /\ \A c \in s.StopConditions :
            /\ c.max_number_of_rounds \in 0..s.RoundLimit  \* 0 for no limit
            /\ c.max_number_of_tags \in Nat
            /\ c.max_duration \in BOOLEAN        \* is there a max_duration_us?

Packet(type, tags) == [packet_type |-> type, number_of_tags |-> tags]
TagRead == Packet("TagRead", 0)
Ex10ResultPacket == Packet("Ex10ResultPacket", 0)
Summary(tags) == Packet("ContinuousInventorySummary", tags)
NoSummary == -1

VARIABLES
    op,                      \* Ex10: "Idle" or "StartInventoryRoundOp"
    event_fifo, emitted,     \* Ex10: FIFO, tags emitted in this run
    round_done, fifo_irq,    \* Ex10: interrupt status, the latter any other bit
    irq_pending,             \* an edge of IRQ_N on its way to the handler
    earlier,                 \* tags emitted before the current round began
    expired, overdue,        \* max_duration_us is over; so is twice that time
    stop_conditions,         \* those of this run
    state, stop_reason, round_count, tag_count,  \* inventory_state
    irqPc, num_bytes,        \* the monitor thread, FIFO level it read
    queue,                   \* nodes of the event FIFO queue
    appPc, ex10_result,      \* the application; "success", "stop" or "error"
    reported, summary_tags,  \* tags reported in this run, number in its summary
    runs, failures

chip == <<op, event_fifo, emitted, earlier>>
irqLine == <<round_done, fifo_irq, irq_pending>>
clock == <<expired, overdue, stop_conditions, setup>>
inventory_state == <<state, stop_reason, round_count, tag_count>>
handler == <<irqPc, num_bytes>>
app == <<appPc, ex10_result, reported, summary_tags, runs>>
vars == <<chip, irqLine, clock, inventory_state, handler, queue, app, failures>>

Init ==
    /\ setup \in Setups
    /\ op = "Idle" /\ event_fifo = <<>> /\ emitted = 0 /\ earlier = 0
    /\ round_done = FALSE /\ fifo_irq = FALSE /\ irq_pending = FALSE
    /\ expired = FALSE /\ overdue = FALSE
    /\ stop_conditions \in StopConditions
    /\ state = "InvIdle" /\ stop_reason = "SRNone"
    /\ round_count = 0 /\ tag_count = 0
    /\ irqPc = "idle" /\ num_bytes = 0
    /\ queue = <<>>
    /\ appPc = "idle" /\ ex10_result = "success"
    /\ reported = 0 /\ summary_tags = NoSummary
    /\ runs = 0 /\ failures = 0

MayFail == failures < MaxFailures /\ failures' = failures + 1

-----------------------------------------------------------------------------
(* The Ex10.  An edge of IRQ_N when the first status bit is set. *)
SetStatus(round, fifo) ==
    /\ round_done' = round /\ fifo_irq' = fifo
    /\ irq_pending' = (irq_pending \/
            ((round \/ fifo) /\ ~(round_done \/ fifo_irq)))

(* It keeps room in its FIFO for one packet inserted by the host. *)
EmitsTag ==
    /\ op # "Idle" /\ emitted < MaxEmitted /\ Len(event_fifo) + 1 < FifoSize
    /\ emitted' = emitted + 1
    /\ event_fifo' = Append(event_fifo, TagRead)
    /\ SetStatus(round_done, fifo_irq \/ Len(event_fifo) + 1 >= FifoThreshold)
    /\ UNCHANGED <<op, earlier, clock, inventory_state, handler, queue, app,
                   failures>>

EndsRound ==
    /\ op # "Idle" /\ op' = "Idle"
    /\ SetStatus(TRUE, fifo_irq)
    /\ UNCHANGED <<event_fifo, emitted, earlier, clock, inventory_state,
                   handler, queue, app, failures>>

TimePasses ==
    /\ stop_conditions.max_duration /\ appPc # "idle"
    /\ expired' = TRUE /\ overdue' = expired /\ UNCHANGED <<stop_conditions, setup>>
    /\ UNCHANGED <<chip, irqLine, inventory_state, handler, queue, app, failures>>

-----------------------------------------------------------------------------
(* The buffer pools: the nodes that are not queued are free. *)
IsError(node) == Head(node).packet_type = "Ex10ResultPacket"
Errors == {i \in DOMAIN queue : IsError(queue[i])}
FreeEventBuffers == EventBuffers - Cardinality(DOMAIN queue \ Errors)
FreeResultBuffers == ResultBuffers - Cardinality(Errors)

(* push_ex10_result_packet(), and the same in Ex10Protocol: an error is    *)
(* queued, silently not without a free buffer.                             *)
PushError ==
    queue' = IF FreeResultBuffers > 0 THEN Append(queue, <<Ex10ResultPacket>>)
                                      ELSE queue

-----------------------------------------------------------------------------
(* interrupt_handler() of Ex10Protocol. *)
(* A mistake: any interrupt is taken for the end of a round. *)
HandlerReadsAnyStatus ==
    /\ irqPc = "idle" /\ irq_pending /\ irqPc' = "round"
    /\ num_bytes' = Len(event_fifo)
    /\ round_done' = FALSE /\ fifo_irq' = FALSE /\ irq_pending' = FALSE
    /\ UNCHANGED <<chip, clock, inventory_state, queue, app, failures>>

HandlerReadsStatus ==
    /\ irqPc = "idle" /\ irq_pending
    /\ irqPc' = IF round_done THEN "round" ELSE "fifo"
    /\ num_bytes' = Len(event_fifo)
    /\ round_done' = FALSE /\ fifo_irq' = FALSE /\ irq_pending' = FALSE
    /\ UNCHANGED <<chip, clock, inventory_state, queue, app, failures>>

HandlerReadFails ==
    /\ irqPc = "idle" /\ irq_pending /\ irq_pending' = FALSE
    /\ MayFail /\ PushError
    /\ \/ round_done' = FALSE /\ fifo_irq' = FALSE
       \/ UNCHANGED <<round_done, fifo_irq>>
    /\ UNCHANGED <<chip, clock, inventory_state, handler, app>>

(* The use case's interrupt_handler(): why has the round ended?  Done and  *)
(* Host count as a round; Regulatory, Unsupported and TxNotRampedUp do not;*)
(* the other reasons, or update_timer_overshoot(), are an error.           *)
RoundDone ==
    /\ irqPc = "round" /\ irqPc' = "decide"
    /\ round_count' = IF round_count < RoundLimit THEN round_count + 1
                                                  ELSE round_count
    /\ UNCHANGED <<chip, irqLine, clock, state, stop_reason, tag_count,
                   num_bytes, queue, app, failures>>

RoundCut ==
    /\ irqPc = "round"
    /\ \/ irqPc' = "decide" /\ UNCHANGED failures
       \/ irqPc' = "error" /\ MayFail
    /\ UNCHANGED <<chip, irqLine, clock, inventory_state, num_bytes, queue, app>>

(* Its registers cannot be read: an error packet, no summary.              *)
RoundReadFails ==
    /\ irqPc = "round" /\ irqPc' = "fifo"
    /\ MayFail /\ PushError
    /\ UNCHANGED <<chip, irqLine, clock, inventory_state, num_bytes, app>>

(* Two of the limits that the application may set, 0 for none.             *)
EnoughRounds ==
    /\ stop_conditions.max_number_of_rounds > 0
    /\ round_count >= stop_conditions.max_number_of_rounds

EnoughTags ==
    /\ stop_conditions.max_number_of_tags > 0
    /\ tag_count >= stop_conditions.max_number_of_tags

(* A mistake: the host's request is not looked at. *)
StopReasonNotHost ==
    IF EnoughRounds THEN "SRMaxNumberOfRounds"
    ELSE IF stop_conditions.max_duration /\ expired THEN "SRMaxDuration"
    ELSE "SRNone"

(* check_stop_conditions(): the reason to stop, "SRNone" to go on.         *)
StopReason ==
    IF stop_reason # "SRNone" THEN stop_reason
    ELSE IF EnoughRounds THEN "SRMaxNumberOfRounds"
    ELSE IF EnoughTags THEN "SRMaxNumberOfTags"
    ELSE IF stop_conditions.max_duration /\ expired THEN "SRMaxDuration"
    ELSE IF state = "InvStopRequested" THEN "SRHost" ELSE "SRNone"

Decide ==
    /\ irqPc = "decide"
    /\ stop_reason' = StopReason
    /\ IF StopReason = "SRNone"
       THEN irqPc' = "continue" /\ UNCHANGED state
       ELSE irqPc' = "summary" /\ state' = "InvIdle"
    /\ UNCHANGED <<chip, irqLine, clock, round_count, tag_count, num_bytes,
                   queue, app, failures>>

(* continue_continuous_inventory().  start_inventory() refuses to start a  *)
(* second operation; a command that fails may have started it.             *)
StartRound == op' = "StartInventoryRoundOp" /\ earlier' = emitted

Continue ==
    /\ irqPc = "continue"
    /\ \/ /\ op = "Idle" /\ StartRound /\ irqPc' = "fifo" /\ UNCHANGED failures
       \/ /\ op # "Idle" /\ irqPc' = "error"
          /\ UNCHANGED <<op, earlier, failures>>
       \/ /\ MayFail /\ irqPc' = "error"
          /\ StartRound \/ UNCHANGED <<op, earlier>>
    /\ UNCHANGED <<event_fifo, emitted, irqLine, clock, inventory_state,
                   num_bytes, queue, app>>

(* handle_continuous_inventory_error() *)
HandleError ==
    /\ irqPc = "error" /\ irqPc' = "error_summary"
    /\ PushError /\ state' = "InvIdle"
    /\ UNCHANGED <<chip, irqLine, clock, stop_reason, round_count, tag_count,
                   num_bytes, app, failures>>

(* Two mistakes: the summary is queued on the host, past the tags that are *)
(* still in the Ex10; trigger_irq is not set.                              *)
QueueSummary ==
    /\ irqPc \in {"summary", "error_summary"} /\ irqPc' = "fifo"
    /\ queue' = Append(queue, <<Summary(tag_count)>>)
    /\ UNCHANGED <<chip, irqLine, clock, inventory_state, num_bytes, app, failures>>

InsertSummaryQuietly ==
    /\ irqPc \in {"summary", "error_summary"} /\ irqPc' = "fifo"
    /\ event_fifo' = Append(event_fifo, Summary(tag_count))
    /\ UNCHANGED <<op, emitted, earlier, irqLine, clock, inventory_state,
                   num_bytes, queue, app, failures>>

(* push_continuous_inventory_summary_packet(): insert_fifo_event() with    *)
(* trigger_irq set.  The tags counted so far are those read so far.        *)
InsertSummary ==
    /\ irqPc \in {"summary", "error_summary"} /\ irqPc' = "fifo"
    /\ event_fifo' = Append(event_fifo, Summary(tag_count))
    /\ SetStatus(round_done, TRUE)
    /\ UNCHANGED <<op, emitted, earlier, clock, inventory_state, num_bytes,
                   queue, app, failures>>

(* The insertion fails: reported, unless an error is being handled.        *)
InsertSummaryFails ==
    /\ irqPc \in {"summary", "error_summary"} /\ irqPc' = "fifo"
    /\ MayFail
    /\ IF irqPc = "summary" THEN PushError ELSE UNCHANGED queue
    /\ UNCHANGED <<chip, irqLine, clock, inventory_state, num_bytes, app>>

(* fifo_data_handler(): tags are counted, a summary gets the count so far. *)
IsTag(packet) == packet.packet_type = "TagRead"
TagsIn(packets) == Cardinality({i \in DOMAIN packets : IsTag(packets[i])})

(* A mistake: the summary keeps the count it was inserted with. *)
CountedAtInsertion(packets) == packets

Counted(packets) ==
    [i \in DOMAIN packets |->
        IF IsTag(packets[i]) THEN packets[i]
        ELSE Summary(tag_count + TagsIn(SubSeq(packets, 1, i)))]

Unread == SubSeq(event_fifo, num_bytes + 1, Len(event_fifo))

(* read_event_fifo() and fifo_data_handler().  Without a free buffer the   *)
(* packets stay in the Ex10 and the application gets an error.             *)
ReadEventFifo ==
    /\ irqPc = "fifo" /\ irqPc' = "idle"
    /\ IF num_bytes > 0 /\ FreeEventBuffers > 0
       THEN LET packets == SubSeq(event_fifo, 1, num_bytes) IN
            /\ event_fifo' = Unread
            /\ tag_count' = tag_count + TagsIn(packets)
            /\ queue' = Append(queue, Counted(packets))
       ELSE /\ IF num_bytes > 0 THEN PushError ELSE UNCHANGED queue
            /\ UNCHANGED <<event_fifo, tag_count>>
    /\ UNCHANGED <<op, emitted, earlier, irqLine, clock, state, stop_reason,
                   round_count, num_bytes, app, failures>>

ReadEventFifoFails ==
    /\ irqPc = "fifo" /\ irqPc' = "idle"
    /\ num_bytes > 0 /\ FreeEventBuffers > 0
    /\ MayFail /\ PushError
    /\ event_fifo' \in {event_fifo, Unread}
    /\ UNCHANGED <<op, emitted, earlier, irqLine, clock, inventory_state,
                   num_bytes, app>>

-----------------------------------------------------------------------------
(* The application: continuous_inventory(). *)
HostFree == irqPc = "idle"

(* Returns without having published anything: the state goes back to idle. *)
Refused ==
    /\ appPc' = "idle" /\ ex10_result' = "error" /\ state' = "InvIdle"

(* set_use_case_parameters() and set_inventory_timer_start(). *)
AppRuns ==
    /\ appPc = "idle" /\ runs < MaxRuns
    /\ state' = "InvOngoing" /\ stop_reason' = "SRNone"
    /\ round_count' = 0 /\ tag_count' = 0
    /\ expired' = FALSE /\ overdue' = FALSE
    /\ stop_conditions' \in StopConditions
    /\ emitted' = 0 /\ earlier' = 0
    /\ appPc' = "check_op" /\ ex10_result' = "success"
    /\ reported' = 0 /\ summary_tags' = NoSummary
    /\ runs' = runs + 1
    /\ UNCHANGED <<op, event_fifo, setup, irqLine, handler, queue, failures>>

(* is_op_currently_running(), which ignores that its read may fail.        *)
AppChecksOp ==
    /\ appPc = "check_op" /\ HostFree
    /\ \E running \in BOOLEAN :
        /\ \/ running = (op # "Idle") /\ UNCHANGED failures
           \/ running # (op # "Idle") /\ MayFail
        /\ IF running THEN Refused
           ELSE appPc' = "start" /\ UNCHANGED <<ex10_result, state>>
    /\ UNCHANGED <<chip, irqLine, clock, stop_reason, round_count, tag_count,
                   handler, queue, reported, summary_tags, runs>>

(* The Ex10 refuses to start an operation while another one is running.    *)
AppStartsRound ==
    /\ appPc = "start" /\ HostFree
    /\ \/ /\ op = "Idle" /\ StartRound /\ appPc' = "publish"
          /\ UNCHANGED <<ex10_result, state, failures>>
       \/ op # "Idle" /\ Refused /\ UNCHANGED <<op, earlier, failures>>
       \/ op = "Idle" /\ Refused /\ MayFail /\ (StartRound \/ UNCHANGED <<op, earlier>>)
    /\ UNCHANGED <<event_fifo, emitted, irqLine, clock, stop_reason,
                   round_count, tag_count, handler, queue, reported,
                   summary_tags, runs>>

-----------------------------------------------------------------------------
(* publish_packets(), the top of the loop.  The error of a reboot is       *)
(* overwritten by that of the timeout: an error in any case.               *)
PublishTimesOut ==
    /\ appPc = "publish" /\ overdue
    /\ appPc' = "idle" /\ ex10_result' = "error"
    /\ UNCHANGED <<chip, irqLine, clock, inventory_state, handler, queue,
                   reported, summary_tags, runs, failures>>

(* packet_wait_with_timeout(200): it returns for a packet only, its timed  *)
(* wait never times out on this port (TimedWaitReturns of EventFifoQueue). *)
PublishWaits ==
    /\ appPc = "publish" /\ ~overdue /\ appPc' = "peek"
    /\ UNCHANGED <<chip, irqLine, clock, inventory_state, handler, queue,
                   ex10_result, reported, summary_tags, runs, failures>>

(* packet_remove(): a node whose last packet is removed is popped; if      *)
(* there was no free event buffer before, the reading is restarted.        *)
RemovePacket(next) ==
    LET node == Head(queue) IN
    /\ queue' = IF Len(node) > 1 THEN <<Tail(node)>> \o Tail(queue)
                                 ELSE Tail(queue)
    /\ appPc' = IF Len(node) = 1 /\ ~IsError(node) /\ FreeEventBuffers = 0
                THEN IF next = "idle" THEN "restart_idle" ELSE "restart_publish"
                ELSE next

(* What ex10_result is after the subscriber's answer: it may ask to stop   *)
(* without an error, or fail; ex10_result keeps that for the next packet.  *)
Answers == {ex10_result} \cup (IF ClientMayStop THEN {"stop"} ELSE {})
                         \cup (IF ClientMayFail THEN {"error"} ELSE {})

(* The packet filter is on: the subscriber does not see Ex10ResultPackets. *)
PublishError ==
    /\ appPc = "peek" /\ queue # <<>> /\ IsError(Head(queue))
    /\ ex10_result' = "error" /\ RemovePacket("idle")
    /\ UNCHANGED <<chip, irqLine, clock, inventory_state, handler, reported,
                   summary_tags, runs, failures>>

(* The packet is removed before the loop looks at the result.              *)
PublishPacket ==
    /\ appPc = "peek" /\ queue # <<>> /\ ~IsError(Head(queue))
    /\ ex10_result' \in Answers
    /\ state' = IF ex10_result' = "success" THEN state ELSE "InvStopRequested"
    /\ LET packet == Head(Head(queue)) IN
       /\ RemovePacket(IF ex10_result' = "error" \/ ~IsTag(packet)
                       THEN "idle" ELSE "publish")
       /\ IF IsTag(packet)
          THEN reported' = reported + 1 /\ UNCHANGED summary_tags
          ELSE summary_tags' = packet.number_of_tags /\ UNCHANGED reported
    /\ UNCHANGED <<chip, irqLine, clock, stop_reason, round_count, tag_count,
                   handler, runs, failures>>

(* event_fifo_buffer_pop(): insert_fifo_event(true, NULL).                 *)
RestartReading ==
    /\ appPc \in {"restart_idle", "restart_publish"} /\ HostFree
    /\ appPc' = IF appPc = "restart_idle" THEN "idle" ELSE "publish"
    /\ \/ SetStatus(round_done, TRUE) /\ UNCHANGED <<queue, failures>>
       \/ MayFail /\ PushError /\ UNCHANGED irqLine
    /\ UNCHANGED <<chip, clock, inventory_state, handler, ex10_result,
                   reported, summary_tags, runs>>

-----------------------------------------------------------------------------
HandlerStep ==
    \/ HandlerReadsStatus \/ HandlerReadFails
    \/ RoundDone \/ RoundCut \/ RoundReadFails
    \/ Decide \/ Continue \/ HandleError \/ InsertSummary \/ InsertSummaryFails
    \/ ReadEventFifo \/ ReadEventFifoFails

HostCommand == AppChecksOp \/ AppStartsRound \/ RestartReading

PublishStep ==
    \/ PublishTimesOut \/ PublishWaits \/ PublishError \/ PublishPacket

Next ==
    \/ EmitsTag \/ EndsRound \/ TimePasses
    \/ HandlerStep \/ AppRuns \/ HostCommand \/ PublishStep

(* A round ends; one that is cut again and again is done at last; both     *)
(* threads run; a host command of the application waits for the handler,   *)
(* which needs an edge to run again.  Nothing says that time passes.       *)
Fairness ==
    /\ WF_vars(EndsRound) /\ SF_vars(RoundDone) /\ WF_vars(HandlerStep)
    /\ SF_vars(HostCommand) /\ WF_vars(PublishStep)

Spec == Init /\ [][Next]_vars /\ Fairness

-----------------------------------------------------------------------------
Ended == appPc = "idle" /\ summary_tags # NoSummary

(* Nothing fails: no command and not the subscriber, no shortage of        *)
(* buffers, and no limit of time, past which a run is given up (overdue).  *)
FaultFree ==
    /\ MaxFailures = 0 /\ ~ClientMayFail
    /\ EventBuffers > MaxEmitted
    /\ \A c \in StopConditions : ~c.max_duration

(* While nothing fails, rounds are run one after the other and only when   *)
(* the inventory asks for one.  InvIdle says "continuous inventory is not  *)
(* in progress" (line 44): no round runs and none is about to be started;  *)
(* and the monitor thread never continues with a round while one runs: an  *)
(* end of a round is handled once, whatever else raises interrupts.        *)
IdleMeansIdle ==
    state = "InvIdle" => op = "Idle" /\ irqPc \notin {"decide", "continue"}
NoDoubleStart == irqPc = "continue" => op = "Idle"
NoStrayRound == FaultFree => IdleMeansIdle /\ NoDoubleStart

(* While nothing fails, the summary is the last packet of a run: when the  *)
(* application returns after it, no round runs, no tag is on its way in    *)
(* the Ex10 or the queue, and no end of a round is left to be handled: the *)
(* next run starts clean.                                                  *)
SummaryIsLast ==
    FaultFree /\ Ended =>
        op = "Idle" /\ event_fifo = <<>> /\ queue = <<>> /\ ~round_done

(* A run returns without an error only after its own stop conditions are   *)
(* met ("run inventory rounds continuously until the specified stop        *)
(* conditions are met", ex10_continuous_inventory_use_case.h:148-149).     *)
SuccessMeansStopped ==
    Ended /\ ex10_result # "error" => stop_reason # "SRNone"

(* A run with a limit on its rounds comes to an end, with or without an    *)
(* error, though the packet that says so passes the threads, the pools and *)
(* the Ex10, and may be lost on the way.                                   *)
RunEnds ==
    appPc # "idle" /\ stop_conditions.max_number_of_rounds > 0 ~> appPc = "idle"

(* "If the callback Ex10Result indicates an error, then the inventory      *)
(* sequence will terminate" (ex10_continuous_inventory_use_case.h:71-72);  *)
(* so it does when the subscriber asks to stop without an error.  And a    *)
(* limit on the tags is exceeded by the tags of one round at most: those   *)
(* of the round that has just ended are not yet counted, those of all      *)
(* earlier rounds are.                                                     *)
RequestIsHonoured ==
    FaultFree /\ state = "InvStopRequested"
        ~> op = "Idle" /\ ~round_done /\ irqPc = "idle"
NoRoundBeyondLimit ==
    [][ FaultFree /\ irqPc = "continue" /\ op' # op =>
            \/ stop_conditions.max_number_of_tags = 0
            \/ earlier < stop_conditions.max_number_of_tags ]_vars
StopIsHonoured == RequestIsHonoured /\ NoRoundBeyondLimit

(* What the caller is promised: the summary counts the reported tags.      *)
Returned ==
    IF appPc # "idle" \/ runs = 0 THEN "none"
    ELSE IF ex10_result = "error" THEN "error"
    ELSE IF summary_tags = NoSummary THEN "none" ELSE "summary"

Runs == INSTANCE InventoryRuns WITH
    run            <- IF appPc = "idle" THEN "idle" ELSE "ongoing",
    returned       <- Returned,
    number_of_tags <- IF Returned = "summary" THEN summary_tags ELSE 0

ImplementsRuns == Runs!SafetySpec
=============================================================================
