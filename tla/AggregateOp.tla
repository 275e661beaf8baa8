------------------------------ MODULE AggregateOp ------------------------------
(***************************************************************************)
(* Operation sequences that the host builds in memory, sets into the       *)
(* register aggregate_op_buffer and has the chip run: cw_on()              *)
(* (ex10_rf_power.c), which ramps the transmitter up, update_power()       *)
(* (ex10_dynamic_power_ramp.c), which moves a transmitter that is on to    *)
(* another power, and the sequences of the application.  Setting a buffer  *)
(* writes the bytes of the sequence only: what an earlier, longer one has  *)
(* left behind them stays.                                                 *)
(***************************************************************************)
EXTENDS Ops, FiniteSets

CONSTANTS
    PowerConfigs,               \* what calibration gives for the powers
    CoarseStep,                 \* get_max_coarse_gain_step_size()
    UserWrites,                 \* lengths of the writes of the application
    MaxUserInstructions, MaxCalls, MaxFailures           \* bounds

AggregateOpConstants ==
    /\ BufferLength \in Nat \ {0}
    /\ CoarseStep \in Nat \ {0}
    /\ {MaxUserInstructions, MaxCalls, MaxFailures} \subseteq Nat

VARIABLES
    pc,                         \* where the host is
    caller,                     \* who builds
    wanted, believed,           \* power asked for, power held to be set
    build,                      \* the buffer in memory
    last,                       \* the composite of the application appended last
    result,                     \* result of the last call
    buffer,                     \* the chip's register: index -> instruction
    at,                         \* index the chip is at
    regs, written,              \* the chip's registers; those written in this run
    cw, coarse, fine, loop,     \* transmitter: on, gains, target of the last loop
    calls, failures, lost       \* lost: something has failed

host == <<pc, caller, wanted, believed, build, last, result>>
chip == <<at, regs, written, cw, coarse, fine, loop>>
counters == <<calls, failures, lost>>
vars == <<host, buffer, chip, counters>>

None == [tx_atten |-> 0]
Empty == [i \in {} |-> None]
NoCall == [f |-> "none", start |-> 0, num |-> 0]
NewBuild == Built(<< >>, "Reserved", TRUE)       \* every caller zeroes its memory

Init ==
    /\ pc = "idle" /\ caller = "nobody" /\ wanted = None /\ believed = None
    /\ build = NewBuild /\ last = NoCall /\ result = "none"
    /\ buffer = Empty /\ at = 0 /\ regs = Empty /\ written = {}
    /\ cw = FALSE /\ coarse = 0 /\ fine = 0 /\ loop = 0
    /\ calls = 0 /\ failures = 0 /\ lost = FALSE

-----------------------------------------------------------------------------
(* cw_on().                                                                *)
cw_on_sequence(config) ==
    <<Plain("HostMutexOn")>> \o append_set_clear_gpio_pins(Pins)
        \o append_lock_synthesizer("dividers")
        \o append_set_tx_fine_gain(config.tx_scalar)
        \o append_set_regulatory_timers("timers")
        \o append_droop_compensation("defaults")
        \o append_set_tx_coarse_gain(config.tx_atten)
        \o (IF config.boost_adc_target # 0 THEN append_boost_tx_ramp_up(config)
            ELSE append_tx_ramp_up_and_power_control(config))
        \o append_run_sjc \o <<Plain("Exit")>>

(* update_power().  The coarse gain moves in steps, never past the last.   *)
MinOf(a, b) == IF a < b THEN a ELSE b
MaxOf(a, b) == IF a > b THEN a ELSE b
(* A mistake: all at once. *)
OneJump(old, new) == IF old = new THEN << >> ELSE <<new>>
CoarseGains(old, new) ==
    LET distance == IF new >= old THEN new - old ELSE old - new
    IN [k \in 1 .. (distance + CoarseStep - 1) \div CoarseStep |->
            IF new >= old THEN MinOf(old + k * CoarseStep, new)
            ELSE MaxOf(old - k * CoarseStep, new)]

append_delay_time_us == append_start_timer_op(0) \o append_wait_timer_op
append_dynamic_ramp_transmit_power(old, new) ==
    LET gains == CoarseGains(old.tx_atten, new.tx_atten)
    IN append_droop_compensation("off") \o append_set_tx_fine_gain(new.tx_scalar)
        \o FlattenSeq([k \in DOMAIN gains |-> append_delay_time_us
                                        \o append_set_tx_coarse_gain(gains[k])])
        \o append_droop_compensation("on")
        \o <<Write("dc_offset", 4, new.dc_offset), RunOp("SetDcOffset")>>
        \o append_power_control(new) \o append_run_sjc

Idle(calls_left) == pc = "idle" /\ calls < calls_left /\ calls' = calls + 1

Return(r) == pc' = "idle" /\ result' = r

(* The transmitter is on: an early return.  An append that fails: an error. *)
CwOn(config) ==
    /\ Idle(MaxCalls)
    /\ caller' = "cw_on" /\ wanted' = config
    /\ build' = Appended(NewBuild, cw_on_sequence(config))
    /\ CASE cw -> Return("already on")
         [] ~cw /\ build'.ok -> pc' = "set" /\ result' = "none"
         [] ~cw /\ ~build'.ok -> Return("AggBufferOverflow")
    /\ UNCHANGED <<believed, last, buffer, chip, failures, lost>>

(* Called while the transmitter is on, with the power that was set last.   *)
(* The results of append_exit_instruction() and set_buffer() are ignored.  *)
UpdatePower(config) ==
    /\ Idle(MaxCalls)
    /\ cw /\ believed # None
    /\ caller' = "update_power" /\ wanted' = config
    /\ LET b == Appended(NewBuild, append_dynamic_ramp_transmit_power(believed, config))
       IN /\ build' = append_instruction(b, Plain("Exit"))
          /\ IF b.ok THEN pc' = "set" /\ result' = "none"
             ELSE Return("AggBufferOverflow")
    /\ UNCHANGED <<believed, last, buffer, chip, failures, lost>>

-----------------------------------------------------------------------------
(* The application builds a sequence of its own and sets it: a bound, in a  *)
(* behaviour of its own.                                                   *)
BeginUser ==
    /\ pc = "idle" /\ calls = 0 /\ calls' = MaxCalls
    /\ pc' = "user" /\ caller' = "user"
    /\ UNCHANGED <<wanted, believed, build, last, result, buffer, chip, failures, lost>>

UserAppends(is, call) ==
    /\ pc = "user" /\ Len(build.span) < MaxUserInstructions
    /\ build' = Appended(build, is)
    /\ last' = IF build'.ok THEN call ELSE NoCall
    /\ result' = IF build'.ok THEN "ok" ELSE "refused"
    /\ pc' = IF build'.ok THEN "user" ELSE "idle"
    /\ UNCHANGED <<caller, wanted, believed, buffer, chip, counters>>

Instructions == {Write("user", n, 0) : n \in UserWrites}
                    \cup {Plain(t) : t \in {"Identifier", "Reset", "HostMutexOff"}}
AppendInstruction(i) == UserAppends(<<i>>, NoCall)
AppendGoTo(index) == UserAppends(<<GoToIndex(index)>>, NoCall)

(* A packet whose bytes do not fit the local copy is refused.              *)
AppendFifoEvent(bytes) ==
    /\ Padded(bytes) <= 64
    /\ UserAppends(append_insert_fifo_event(bytes), NoCall)

Call(f) == [f |-> f, start |-> 0, num |-> 0]
AppendComposite(f) == UserAppends(BuilderCalls[f], Call(f))
AppendMeasureAuxAdc(start, num) ==
    /\ start < AdcEntries
    /\ UserAppends(append_measure_aux_adc(start, num),
                   [f |-> "measure_aux_adc", start |-> start, num |-> num])
AppendSetAuxDac(start, num) ==
    /\ start + num <= DacEntries
    /\ UserAppends(append_set_aux_dac(start, num, "values"),
                   [f |-> "set_aux_dac", start |-> start, num |-> num])
AppendOther(f) ==
    UserAppends(CASE f = "sjc_settings" -> append_sjc_settings
                  [] f = "ramp_transmit_power" ->
                        append_ramp_transmit_power(SomeConfig, "timers"), NoCall)

UserSets ==
    /\ pc = "user" /\ pc' = "set" /\ last' = NoCall
    /\ UNCHANGED <<caller, wanted, believed, build, result, buffer, chip, counters>>

-----------------------------------------------------------------------------
(* Transfers.                                                              *)
Fails == failures < MaxFailures /\ failures' = failures + 1 /\ lost' = TRUE
Works == UNCHANGED <<failures, lost>>

(* A write over the first bytes; instructions it cuts off are gone.        *)
Overwritten(span) ==
    LET Kept == {i \in DOMAIN buffer : i >= Length(span)}
    IN [i \in Starts(span) \cup Kept |->
            IF i \in Kept THEN buffer[i]
            ELSE span[CHOOSE k \in DOMAIN span : Start(span)[k] = i]]

(* A mistake: cw_on() runs the buffer even if it could not be set. *)
RunsAnyway == pc' = "run" /\ UNCHANGED result
NextOfFailedSet ==
    IF caller = "update_power" THEN RunsAnyway
    ELSE Return("AggBufferOverflow")

set_buffer ==
    /\ pc = "set"
    /\ \/ /\ Works /\ buffer' = Overwritten(build.span)
          /\ IF caller = "user" THEN Return("ok") ELSE pc' = "run" /\ UNCHANGED result
       \/ /\ Fails /\ UNCHANGED buffer
          /\ NextOfFailedSet
    /\ UNCHANGED <<caller, wanted, believed, build, last, chip, calls>>

clear_buffer ==
    /\ Idle(MaxCalls)
    /\ \/ Works /\ buffer' = Empty /\ result' = "ok"
       \/ Fails /\ UNCHANGED buffer /\ result' = "failed"
    /\ caller' = "user"
    /\ UNCHANGED <<pc, wanted, believed, build, last, chip>>

(* A start that fails never reaches the chip.                              *)
run_aggregate_op ==
    /\ pc = "run"
    /\ \/ Works /\ pc' = "wait" /\ at' = 0 /\ written' = {} /\ UNCHANGED result
       \/ Fails /\ Return("failed") /\ UNCHANGED <<at, written>>
    /\ UNCHANGED <<caller, wanted, believed, build, last, buffer, regs, cw, coarse,
                   fine, loop, calls>>

-----------------------------------------------------------------------------
(* The chip runs the buffer, the host waits for the end.                   *)
Current == buffer[at]
Register(r) == IF r \in DOMAIN regs THEN regs[r] ELSE 0

WriteInstruction ==
    /\ Current.type = "Write"
    /\ LET names == {p[1] : p \in ToSet(Current.regs)}
           Value(r) == (CHOOSE p \in ToSet(Current.regs) : p[1] = r)[2]
       IN /\ written' = written \cup names
          /\ regs' = [r \in DOMAIN regs \cup names |->
                        IF r \in names THEN Value(r) ELSE regs[r]]
    /\ UNCHANGED <<cw, coarse, fine, loop>>

RunInstruction ==
    /\ Current.type = "RunOp"
    /\ coarse' = IF Current.op = "SetTxCoarseGain" THEN Register("tx_coarse_gain") ELSE coarse
    /\ fine' = IF Current.op = "SetTxFineGain" THEN Register("tx_fine_gain") ELSE fine
    /\ cw' = (Current.op # "TxRampDown" /\ (cw \/ Current.op = "TxRampUp"))
    /\ loop' = IF Current.op = "PowerControlLoop"
               THEN Register("power_control_loop_adc_target") ELSE loop
    /\ UNCHANGED <<regs, written>>

OtherInstruction ==
    /\ Current.type \notin {"Write", "RunOp", "Exit"}
    /\ UNCHANGED <<regs, written, cw, coarse, fine, loop>>

(* The chip meets the end, an operation that fails or no instruction.      *)
Done(success) ==
    /\ Return(IF success \/ caller = "update_power" THEN "ok" ELSE "failed")
    /\ believed' = IF result' = "ok" THEN wanted ELSE believed

ChipSteps ==
    /\ pc = "wait" /\ at \in DOMAIN buffer
    /\ WriteInstruction \/ RunInstruction \/ OtherInstruction
    /\ at' = at + Size(Current)
    /\ UNCHANGED <<host, buffer, counters>>

ChipExits ==
    /\ pc = "wait" /\ at \in DOMAIN buffer /\ Current.type = "Exit"
    /\ Works /\ Done(TRUE)
    /\ UNCHANGED <<caller, wanted, build, last, buffer, chip, calls>>

ChipFails ==
    /\ pc = "wait"
    /\ \/ at \notin DOMAIN buffer /\ UNCHANGED failures /\ lost' = TRUE
       \/ at \in DOMAIN buffer /\ Current.type = "RunOp" /\ Fails
    /\ Done(FALSE)
    /\ UNCHANGED <<caller, wanted, build, last, buffer, chip, calls>>

(* Between calls the transmitter may be ramped down.                       *)
RampsDown ==
    /\ pc = "idle" /\ cw /\ cw' = FALSE
    /\ UNCHANGED <<host, buffer, at, regs, written, coarse, fine, loop, counters>>

Next ==
    \/ \E config \in PowerConfigs : CwOn(config) \/ UpdatePower(config)
    \/ BeginUser \/ UserSets
    \/ \E i \in Instructions : AppendInstruction(i)
    \/ \E index \in 0 .. Length(build.span) + 1 : AppendGoTo(index)
    \/ \E bytes \in {8, 13, 64, 65} : AppendFifoEvent(bytes)
    \/ \E f \in DOMAIN BuilderCalls : AppendComposite(f)
    \/ \E start \in {0, 1, 14, 15}, num \in {0, 1, 2, 20} :
            AppendMeasureAuxAdc(start, num) \/ AppendSetAuxDac(start, num)
    \/ \E f \in {"sjc_settings", "ramp_transmit_power"} : AppendOther(f)
    \/ set_buffer \/ clear_buffer \/ run_aggregate_op
    \/ ChipSteps \/ ChipExits \/ ChipFails \/ RampsDown

Spec == Init /\ [][Next]_vars

-----------------------------------------------------------------------------
(* Properties.                                                             *)

(* A composite of the builder and the function of the ops layer that its   *)
(* header refers to (aggregate_op_builder.h: "@see ops layer ...") write   *)
(* the same values to the same registers and run the same operation.       *)
(* Listening before talk is left out: the builder writes neither           *)
(* lbt_control nor rx_gain_control.                                        *)
CallOf(Table, Adc(_, _), Dac(_, _), call) ==
    CASE call.f = "measure_aux_adc" -> Adc(call.start, call.num)
      [] call.f = "set_aux_dac" -> Dac(call.start, call.num)
      [] OTHER -> Table[call.f]
OpsAgree ==
    last.f \notin {"none", "listen_before_talk"} =>
        LET is == CallOf(BuilderCalls, append_measure_aux_adc,
                         LAMBDA s, n : append_set_aux_dac(s, n, "values"), last)
        IN /\ is = SubSeq(build.span, Len(build.span) - Len(is) + 1, Len(build.span))
           /\ Effect(is) = CallOf(OpsCalls, measure_aux_adc,
                                  LAMBDA s, n : set_aux_dac(s, n, "values"), last)

(* The chip runs the instructions of the sequence that was built last and  *)
(* stops at its end, whatever longer sequence the register held before;    *)
(* update_power() may not, once a transfer has failed.                     *)
RunsWhatWasBuilt ==
    pc = "wait" /\ (caller = "cw_on" \/ ~lost) =>
        \E k \in DOMAIN build.span :
            /\ at \in DOMAIN buffer /\ Current = build.span[k]
            /\ Start(build.span)[k] = at

(* When a sequence runs an operation, it has written every register that   *)
(* the ops layer writes with that operation.                               *)
Parameters(op) ==
    {p[1] : p \in UNION {OpsCalls[f].regs : f \in {g \in DOMAIN OpsCalls :
                                                        op \in ToSet(OpsCalls[g].ops)}}}
OpsAreReady ==
    pc = "wait" /\ at \in DOMAIN buffer /\ Current.type = "RunOp"
        /\ (caller = "cw_on" \/ ~lost) => Parameters(Current.op) \subseteq written

(* cw_on() and update_power() return success with the transmitter on, at   *)
(* the gains asked for, regulated to the target asked for; update_power()  *)
(* as long as nothing fails.                                               *)
Configured ==
    /\ cw' /\ coarse' = wanted.tx_atten /\ fine' = wanted.tx_scalar
    /\ wanted.adc_target # 0 => loop' = wanted.adc_target
SuccessMeansConfigured ==
    [][pc = "wait" /\ pc' = "idle" /\ result' = "ok" /\ (caller = "cw_on" \/ ~lost')
        => Configured]_vars

(* ex10_dynamic_power_ramp.h:32-35,71-73: while the transmitter is on the  *)
(* coarse gain changes by at most the step of the board, and stays between *)
(* the old power and the new one.                                          *)
StepIsBounded ==
    [][cw /\ cw' /\ ~lost =>
        /\ coarse' - coarse \in -CoarseStep .. CoarseStep
        /\ coarse' # coarse => MinOf(believed.tx_atten, wanted.tx_atten) <= coarse'
                               /\ coarse' <= MaxOf(believed.tx_atten, wanted.tx_atten)]_vars

(* Ramping up and changing the power never need more than the register.    *)
NeverOverflows ==
    caller \in {"cw_on", "update_power"} /\ result = "AggBufferOverflow" => lost

=============================================================================
