-------------------------------- MODULE TagAccess --------------------------------
(***************************************************************************)
(* The tag access use case (ex10_tag_access_use_case.c): one inventory     *)
(* round that halts on each tag.  The IRQ_N monitor thread starts a round  *)
(* that the regulatory timers cut again, and keeps track of whether the    *)
(* Ex10 is halted; the thread of the application calls the client's        *)
(* callback for each TagRead, and resumes the round.                       *)
(*                                                                         *)
(* As in ActivitySequence, a command of the application waits until the    *)
(* monitor thread is idle, and the monitor thread yields in commands only. *)
(*                                                                         *)
(* The client's callback is external.  It is the one the headers describe: *)
(* it takes the TagRead and the Halted packet off the queue, lets the use  *)
(* case execute the access commands, and takes off the reply and the       *)
(* second Halted packet.  When it finds another packet it returns.         *)
(***************************************************************************)
EXTENDS Integers, Sequences, FiniteSets

CONSTANTS
    ResultBuffers,              \* size of the pool of Ex10ResultPackets
    MaxTags, MaxExpiries,       \* bounds: tags, expiries of the dwell time
    MaxRuns, MaxFailures,       \* bounds: runs, commands that fail
    MayTimeOut                  \* is the inventory timeout set?

TagAccessConstants ==
    /\ {ResultBuffers, MaxTags, MaxExpiries, MaxRuns, MaxFailures} \subseteq Nat
    /\ MayTimeOut \in BOOLEAN

VARIABLES
    op, halted_tag,             \* Ex10: a round runs, the tag it is halted on or 0
    event_fifo, done_reason,    \* Ex10: FIFO, inventory_op_summary
    round_done, irq_pending,    \* Ex10: interrupt status, edge of IRQ_N
    state,                      \* tag_access_state.state
    tag_halted_callback,        \* is one registered?
    pc,                         \* of the threads "app" and "irq"
    num_bytes,                  \* level of the FIFO when the status was read
    queue, ex10_result,         \* event FIFO queue; success or error
    tag_read, expects,          \* the callback's packet; what it is to do still
    offered, misdirected,       \* tags the callback got; commands to another tag
    tags, expiries, runs, failures

chip == <<op, halted_tag, event_fifo, done_reason, round_done, irq_pending>>
callback == <<tag_read, expects>>
ghosts == <<offered, misdirected>>
vars == <<chip, state, tag_halted_callback, pc, num_bytes, queue, ex10_result, callback, ghosts,
          tags, expiries, runs, failures>>

Packet(type) == [packet_type |-> type]
TagRead(tag, halted) == [packet_type |-> "TagRead", tag |-> tag, halted_on_tag |-> halted]
Summary(reason) == [packet_type |-> "InventoryRoundSummary", reason |-> reason]
NoTag == TagRead(0, FALSE)

Init ==
    /\ op = FALSE /\ halted_tag = 0 /\ event_fifo = <<>> /\ done_reason = "None"
    /\ round_done = FALSE /\ irq_pending = FALSE
    /\ state = "Idle" /\ tag_halted_callback = FALSE
    /\ pc = [t \in {"app", "irq"} |-> "idle"] /\ num_bytes = 0
    /\ queue = <<>> /\ ex10_result = "success"
    /\ tag_read = NoTag /\ expects = <<>> /\ offered = {} /\ misdirected = FALSE
    /\ tags = 0 /\ expiries = 0 /\ runs = 0 /\ failures = 0

Goto(t, step) == pc' = [pc EXCEPT ![t] = step]
At(t, step) == pc[t] = step
Command(step) == At("app", step) /\ At("irq", "idle")
MayFail == failures < MaxFailures /\ failures' = failures + 1

-----------------------------------------------------------------------------
(* The Ex10.  It halts on a tag, or fails to and goes on; it ends the      *)
(* round, with its own reason or because the transmitter had to go off,    *)
(* which loses the tag.                                                    *)
EndRound(reason) ==
    /\ op' = FALSE /\ halted_tag' = 0 /\ done_reason' = reason
    /\ round_done' = TRUE /\ irq_pending' = TRUE
    /\ event_fifo' = Append(event_fifo, Summary(reason))

UnchangedByChip ==
    UNCHANGED <<state, tag_halted_callback, pc, num_bytes, queue, ex10_result, callback, ghosts,
                runs, failures>>

ReadsTag ==
    /\ op /\ halted_tag = 0 /\ tags < MaxTags /\ tags' = tags + 1 /\ irq_pending' = TRUE
    /\ \/ /\ halted_tag' = tags'
          /\ event_fifo' = event_fifo \o <<TagRead(tags', TRUE), Packet("Halted")>>
       \/ /\ UNCHANGED halted_tag
          /\ event_fifo' = Append(event_fifo, TagRead(tags', FALSE))
    /\ UNCHANGED <<op, done_reason, round_done, expiries>> /\ UnchangedByChip

EndsRound ==
    /\ op /\ halted_tag = 0 /\ EndRound("Done")
    /\ UNCHANGED <<tags, expiries>> /\ UnchangedByChip

DwellTimeEnds ==
    /\ op /\ expiries < MaxExpiries /\ expiries' = expiries + 1 /\ EndRound("Regulatory")
    /\ UNCHANGED tags /\ UnchangedByChip

(* The application stops the round that an error left running.             *)
StopOp ==
    /\ op /\ Command("idle") /\ EndRound("Host")
    /\ UNCHANGED <<tags, expiries>> /\ UnchangedByChip

-----------------------------------------------------------------------------
(* interrupt_handler() of Ex10Protocol, and of the use case in between.    *)
HandlerReadsStatus ==
    /\ At("irq", "idle") /\ irq_pending
    /\ Goto("irq", IF round_done THEN "round" ELSE "fifo")
    /\ num_bytes' = Len(event_fifo) /\ round_done' = FALSE /\ irq_pending' = FALSE
    /\ UNCHANGED <<op, halted_tag, event_fifo, done_reason, state, tag_halted_callback, queue,
                   ex10_result, callback, ghosts, tags, expiries, runs, failures>>

PushError ==
    queue' = IF Cardinality({i \in DOMAIN queue : queue[i].packet_type = "Ex10Result"}) < ResultBuffers
             THEN Append(queue, Packet("Ex10Result")) ELSE queue

(* The summary is read: a round that was cut is to start again; in the     *)
(* same run of the handler a tag that was halted on is noted as lost.      *)
RoundDone ==
    /\ At("irq", "round")
    /\ \/ /\ Goto("irq", IF done_reason = "Regulatory" THEN "restart" ELSE "lost")
          /\ UNCHANGED <<queue, failures>>
       \/ MayFail /\ Goto("irq", "fifo") /\ PushError
    /\ UNCHANGED <<chip, state, tag_halted_callback, num_bytes, ex10_result, callback, ghosts, tags,
                   expiries, runs>>

(* update_timer_overshoot() and start_inventory(). *)
Restart ==
    /\ At("irq", "restart") /\ Goto("irq", "lost")
    /\ \/ ~op /\ op' = TRUE /\ UNCHANGED <<state, queue, failures>>
       \/ op /\ state' = "Idle" /\ PushError /\ UNCHANGED <<op, failures>>
       \/ MayFail /\ state' = "Idle" /\ PushError /\ op' \in {op, TRUE}
    /\ UNCHANGED <<halted_tag, event_fifo, done_reason, round_done, irq_pending, tag_halted_callback,
                   num_bytes, ex10_result, callback, ghosts, tags, expiries, runs>>

TagLost ==
    /\ At("irq", "lost") /\ Goto("irq", "fifo")
    /\ state' = IF state = "Halted" THEN "TagLostRegulatory" ELSE state
    /\ UNCHANGED <<chip, tag_halted_callback, num_bytes, queue, ex10_result, callback, ghosts, tags,
                   expiries, runs, failures>>

(* fifo_data_handler(): a TagRead that tells of a halt sets the state      *)
(* before the packets are queued.                                          *)
ReadEventFifo ==
    LET node == SubSeq(event_fifo, 1, num_bytes)
    IN /\ At("irq", "fifo") /\ Goto("irq", "idle")
       /\ event_fifo' = SubSeq(event_fifo, num_bytes + 1, Len(event_fifo))
       /\ state' = IF \E i \in DOMAIN node : node[i].packet_type = "TagRead" /\ node[i].halted_on_tag
                   THEN "Halted" ELSE state
       /\ queue' = queue \o node
       /\ UNCHANGED <<op, halted_tag, done_reason, round_done, irq_pending, tag_halted_callback,
                      num_bytes, ex10_result, callback, ghosts, tags, expiries, runs, failures>>

-----------------------------------------------------------------------------
(* The application runs the use case when all is at rest; it calls init()  *)
(* anew when the run before left packets in the queue.                     *)
AtRest == At("app", "idle") /\ At("irq", "idle") /\ ~op /\ event_fifo = <<>> /\ ~irq_pending

Reinit ==
    /\ AtRest /\ queue # <<>> /\ queue' = <<>> /\ state' = "Idle"
    /\ UNCHANGED <<chip, tag_halted_callback, pc, num_bytes, ex10_result, callback, ghosts, tags,
                   expiries, runs, failures>>

RunInventory ==
    /\ AtRest /\ queue = <<>> /\ runs < MaxRuns /\ runs' = runs + 1
    /\ state' = "Ongoing" /\ ex10_result' = "success" /\ Goto("app", "start")
    /\ tag_halted_callback' \in BOOLEAN
    /\ offered' = {} /\ misdirected' = FALSE /\ tags' = 0 /\ expiries' = 0
    /\ UNCHANGED <<chip, num_bytes, queue, callback, failures>>

Return(result) == Goto("app", "idle") /\ ex10_result' = result

(* set_rf_mode() and start_inventory(): only the second resets the state.  *)
StartInventory ==
    /\ Command("start")
    /\ \/ ~op /\ op' = TRUE /\ Goto("app", "peek") /\ UNCHANGED <<state, ex10_result, failures>>
       \/ MayFail /\ Return("error") /\ UNCHANGED <<state, op>>
       \/ MayFail /\ Return("error") /\ state' = "Idle" /\ op' \in {op, TRUE}
    /\ UNCHANGED <<halted_tag, event_fifo, done_reason, round_done, irq_pending, tag_halted_callback,
                   num_bytes, queue, callback, ghosts, tags, expiries, runs>>

UnchangedByPublish ==
    UNCHANGED <<chip, state, tag_halted_callback, num_bytes, misdirected, tags, expiries, runs,
                failures>>

PublishTimesOut ==
    /\ At("app", "peek") /\ MayTimeOut /\ Return("error")
    /\ UNCHANGED <<queue, callback, offered>> /\ UnchangedByPublish

(* What a callback does after it took its TagRead off the queue.           *)
Access == <<"Halted", "execute", "Gen2Transaction", "Halted">>

(* publish_packets(): the first packet of the queue.  All but a TagRead    *)
(* are removed, an error and the end of the round leave the loop.          *)
Peek ==
    /\ At("app", "peek") /\ queue # <<>>
    /\ CASE Head(queue).packet_type = "TagRead" /\ tag_halted_callback ->
                /\ Goto("app", "callback") /\ tag_read' = Head(queue)
                /\ expects' = IF Head(queue).halted_on_tag THEN Access ELSE <<>>
                /\ offered' = offered \cup {Head(queue).tag}
                /\ queue' = Tail(queue) /\ UNCHANGED ex10_result
         [] Head(queue).packet_type = "TagRead" /\ ~tag_halted_callback ->
                /\ Goto("app", "send_resume") /\ tag_read' = Head(queue) /\ queue' = Tail(queue)
                /\ UNCHANGED <<expects, offered, ex10_result>>
         [] Head(queue).packet_type = "Ex10Result" ->
                Return("error") /\ queue' = Tail(queue) /\ UNCHANGED <<callback, offered>>
         [] Head(queue).packet_type = "InventoryRoundSummary" /\ Head(queue).reason # "Regulatory" ->
                Return(ex10_result) /\ queue' = Tail(queue) /\ UNCHANGED <<callback, offered>>
         [] OTHER ->
                queue' = Tail(queue) /\ UNCHANGED <<pc, ex10_result, callback, offered>>
    /\ UnchangedByPublish

(* The callback calls get_fifo_packet(), which spins until there is one,   *)
(* and remove_fifo_packet() or remove_halted_packet(); the latter removes  *)
(* whatever there is.                                                      *)
CallbackPacket ==
    /\ At("app", "callback") /\ expects # <<>> /\ Head(expects) # "execute" /\ queue # <<>>
    /\ expects' = IF Head(queue).packet_type = Head(expects) THEN Tail(expects) ELSE <<>>
    /\ queue' = Tail(queue)
    /\ UNCHANGED <<pc, ex10_result, tag_read, offered>> /\ UnchangedByPublish

(* execute_access_commands() tests the state, and then waits for the host  *)
(* lock to send the sequence.                                              *)
ExecuteAccessCommands ==
    /\ At("app", "callback") /\ expects # <<>> /\ Head(expects) = "execute"
    /\ IF state = "Halted" THEN expects' = Tail(expects) /\ Goto("app", "go")
       ELSE expects' = <<>> /\ UNCHANGED pc
    /\ UNCHANGED <<queue, ex10_result, tag_read, offered>> /\ UnchangedByPublish

(* The write of HaltedControl has effect on an Ex10 that is halted.  Did   *)
(* it reach another tag than the callback's?                               *)
Reaches == misdirected' = (misdirected \/ (tag_halted_callback /\ halted_tag \notin {0, tag_read.tag}))

SendHaltedSequence ==
    /\ Command("go") /\ Goto("app", "callback")
    /\ \/ /\ Reaches /\ UNCHANGED <<expects, failures>>
          /\ event_fifo' = IF halted_tag = 0 THEN event_fifo
                           ELSE event_fifo \o <<Packet("Gen2Transaction"), Packet("Halted")>>
          /\ irq_pending' = (irq_pending \/ halted_tag # 0)
       \/ MayFail /\ expects' = <<>> /\ UNCHANGED <<misdirected, event_fifo, irq_pending>>
    /\ UNCHANGED <<op, halted_tag, done_reason, round_done, state, tag_halted_callback, num_bytes,
                   queue, ex10_result, tag_read, offered, tags, expiries, runs>>

(* The callback returns, with an error of its own or not; then no packet   *)
(* is to be left.                                                          *)
CallbackReturns ==
    /\ At("app", "callback") /\ expects = <<>>
    /\ \/ Goto("app", "drained") /\ UNCHANGED <<ex10_result, failures>>
       \/ MayFail /\ Return("error")
    /\ UNCHANGED <<chip, state, tag_halted_callback, num_bytes, queue, callback, ghosts, tags,
                   expiries, runs>>

Drained ==
    /\ At("app", "drained")
    /\ IF queue # <<>> THEN Return("error") ELSE Goto("app", "still_halted") /\ UNCHANGED ex10_result
    /\ UNCHANGED <<queue, callback, offered>> /\ UnchangedByPublish

(* A mistake: a tag that was not halted on is resumed, too. *)
ResumeAnyTag ==
    /\ At("app", "still_halted")
    /\ Goto("app", IF state # "TagLostRegulatory" THEN "send_resume" ELSE "peek")
    /\ UNCHANGED <<queue, ex10_result, callback, offered>> /\ UnchangedByPublish

StillHalted ==
    /\ At("app", "still_halted")
    /\ Goto("app", IF tag_read.halted_on_tag /\ state # "TagLostRegulatory"
                   THEN "send_resume" ELSE "peek")
    /\ UNCHANGED <<queue, ex10_result, callback, offered>> /\ UnchangedByPublish

ContinueFromHalted ==
    /\ Command("send_resume")
    /\ \/ Goto("app", "peek") /\ halted_tag' = 0 /\ Reaches /\ UNCHANGED <<ex10_result, failures>>
       \/ MayFail /\ Return("error") /\ halted_tag' \in {halted_tag, 0} /\ UNCHANGED misdirected
    /\ UNCHANGED <<op, event_fifo, done_reason, round_done, irq_pending, state, tag_halted_callback,
                   num_bytes, queue, callback, offered, tags, expiries, runs>>

-----------------------------------------------------------------------------
Handles == HandlerReadsStatus \/ RoundDone \/ Restart \/ TagLost \/ ReadEventFifo
Publishes ==
    \/ Peek \/ CallbackPacket \/ ExecuteAccessCommands \/ CallbackReturns \/ Drained \/ StillHalted
Commands == StartInventory \/ SendHaltedSequence \/ ContinueFromHalted
Next ==
    \/ ReadsTag \/ EndsRound \/ DwellTimeEnds \/ StopOp
    \/ Handles \/ RunInventory \/ Reinit \/ Publishes \/ PublishTimesOut \/ Commands

Fairness ==
    /\ WF_vars(EndsRound) /\ WF_vars(Handles) /\ WF_vars(Publishes)
    /\ SF_vars(StartInventory) /\ SF_vars(SendHaltedSequence) /\ SF_vars(ContinueFromHalted)

Spec == Init /\ [][Next]_vars /\ Fairness

-----------------------------------------------------------------------------
(* Properties.                                                             *)

(* As long as the regulatory timers do not cut the round, each access      *)
(* sequence and each resume that takes effect reaches the tag of the       *)
(* callback's packet, though the Ex10 has run ahead of the queue.          *)
ReachesItsTag == expiries = 0 => ~misdirected

(* A run that returns success has seen the round end for good, and its     *)
(* callback, when no timer cut the round, all tags that were read.         *)
SuccessMeansComplete ==
    At("app", "idle") /\ runs > 0 /\ ex10_result = "success" =>
        /\ ~op /\ At("irq", "idle")
        /\ tag_halted_callback /\ expiries = 0 => offered = 1..tags

(* Running leads to Rests: a run returns as long as no timer cuts the      *)
(* round and no command fails.  (Else the callback of a lost tag may       *)
(* remove the summary that ends the run, or the Ex10ResultPacket: without  *)
(* a timeout the run goes on.)                                             *)
Running == ~At("app", "idle")
Rests == At("app", "idle") \/ expiries > 0 \/ failures > 0

=============================================================================
