--------------------------- MODULE AggregateOpBuilder ---------------------------
(***************************************************************************)
(* What aggregate_op_builder.c appends to a buffer and what ex10_ops.c     *)
(* writes to the chip.  A buffer is the sequence of its instructions; the  *)
(* index of an instruction is the number of bytes before it.               *)
(***************************************************************************)
EXTENDS Integers, SequencesExt

CONSTANT BufferLength           \* bytes of the register aggregate_op_buffer

AdcEntries == 15                \* channels of the auxiliary ADC
DacEntries == 2                 \* channels of the auxiliary DAC

(* Instructions.  A write carries the registers it covers and their values. *)
Write(reg, length, value) ==
    [type |-> "Write", length |-> length, regs |-> <<<<reg, value>>>>]
RunOp(op) == [type |-> "RunOp", op |-> op]
Plain(type) == [type |-> type]
InsertFifoEvent(bytes) == [type |-> "InsertFifoEvent", length |-> bytes]
GoToIndex(index) == [type |-> "GoToIndex", index |-> index]

Size(i) ==
    CASE i.type = "Write" -> 5 + i.length
      [] i.type = "InsertFifoEvent" -> 2 + i.length
      [] i.type = "GoToIndex" -> 4
      [] i.type = "Identifier" -> 3
      [] i.type \in {"RunOp", "Reset"} -> 2
      [] i.type \in {"Exit", "HostMutexOn", "HostMutexOff"} -> 1

(* Start(span)[k] is the index of the k-th instruction.                    *)
Start(span) ==
    LET start[k \in 1 .. Len(span) + 1] ==
            IF k = 1 THEN 0 ELSE start[k - 1] + Size(span[k - 1])
    IN start
Length(span) == Start(span)[Len(span) + 1]
Starts(span) == {Start(span)[k] : k \in DOMAIN span}

(* A buffer being built: its instructions, the byte that follows them in    *)
(* memory and whether every append so far has succeeded.                   *)
Built(span, beyond, ok) == [span |-> span, beyond |-> beyond, ok |-> ok]

-----------------------------------------------------------------------------
(* Appending an instruction.                                               *)
aggregate_buffer_overflow(b, size) == Length(b.span) + size >= BufferLength

(* The scan of the buffer meets an instruction at the index, or runs to    *)
(* the end of the span and looks at the byte after it.                     *)
get_instruction_from_index(index, b) ==
    index \in Starts(b.span) \/ b.beyond # "Reserved"

append_instruction(b, i) ==
    IF \/ aggregate_buffer_overflow(b, Size(i))
       \/ /\ i.type = "GoToIndex"
          /\ i.index < Length(b.span)
          /\ ~get_instruction_from_index(i.index, b)
    THEN [b EXCEPT !.ok = FALSE]
    ELSE [b EXCEPT !.span = Append(@, i)]

(* A caller gives up at the first append that fails.                       *)
Appended(b, is) ==
    FoldLeft(LAMBDA c, i : IF c.ok THEN append_instruction(c, i) ELSE c, b, is)

-----------------------------------------------------------------------------
(* The composites: what each of them appends, if it fits.                  *)
append_set_rf_mode(mode) == <<Write("rf_mode", 2, mode), RunOp("SetRfMode")>>

channel_enable_bits(start, num) ==
    LET n == IF num <= AdcEntries - start THEN num ELSE AdcEntries - start
    IN (2 ^ n - 1) * 2 ^ start

append_measure_aux_adc(start, num) ==
    <<Write("aux_adc_control", 2, channel_enable_bits(start, num)),
      RunOp("MeasureAdc")>>

append_set_gpio(levels, enables) ==
    <<Write("gpio_output_level", 4, levels),
      Write("gpio_output_enable", 4, enables), RunOp("SetGpio")>>

(* One write over four registers that follow each other.                   *)
SetClearRegisters == <<"gpio_output_level_set", "gpio_output_level_clear",
                       "gpio_output_enable_set", "gpio_output_enable_clear">>
GpioPinsSetClear(pins) == <<pins.output_level_set, pins.output_level_clear,
                            pins.output_enable_set, pins.output_enable_clear>>
append_set_clear_gpio_pins(pins) ==
    <<[type |-> "Write", length |-> 16,
       regs |-> [k \in 1 .. 4 |->
                    <<SetClearRegisters[k], GpioPinsSetClear(pins)[k]>>]],
      RunOp("SetClearGpioPins")>>

append_lock_synthesizer(dividers) ==
    <<Write("rf_synthesizer_control", 5 * 4, dividers), RunOp("LockSynthesizer")>>

append_sjc_settings ==
    <<Write("sjc_control", 2, "control"), Write("sjc_gain_control", 4, "gain"),
      Write("sjc_initial_settling_time", 2, "initial"),
      Write("sjc_residue_settling_time", 2, "residue"),
      Write("sjc_cdac_i", 4, "cdac"), Write("sjc_cdac_q", 4, "cdac"),
      Write("sjc_residue_threshold", 2, "threshold")>>
append_run_sjc == <<RunOp("RxRunSjc")>>

append_set_tx_coarse_gain(tx_atten) ==
    <<Write("tx_coarse_gain", 4, tx_atten), RunOp("SetTxCoarseGain")>>
append_set_tx_fine_gain(tx_scalar) ==
    <<Write("tx_fine_gain", 4, tx_scalar), RunOp("SetTxFineGain")>>

append_set_regulatory_timers(timers) ==
    <<Write("nominal_stop_time", 2, timers), Write("extended_stop_time", 2, timers),
      Write("regulatory_stop_time", 2, timers), Write("tx_mutex_time", 2, 1500),
      Write("etsi_burst_off_time", 4, timers)>>

append_tx_ramp_up(dc_offset) ==
    <<Write("dc_offset", 4, dc_offset), RunOp("TxRampUp")>>
append_tx_ramp_down == <<RunOp("TxRampDown")>>

append_power_control_settings(config, use_boost) ==
    IF config.adc_target = 0 THEN << >>
    ELSE <<Write("power_control_loop_aux_adc_control", 4, use_boost),
           Write("power_control_loop_gain_divisor", 4, "divisor"),
           Write("power_control_loop_max_iterations", 4, "iterations"),
           Write("power_control_loop_adc_target", 4,
                 IF use_boost THEN config.boost_adc_target ELSE config.adc_target),
           Write("power_control_loop_adc_thresholds", 4, "thresholds")>>

PowerControlLoop(config) ==
    IF config.adc_target = 0 THEN << >> ELSE <<RunOp("PowerControlLoop")>>
append_power_control(config) ==
    append_power_control_settings(config, FALSE) \o PowerControlLoop(config)

append_tx_ramp_up_and_power_control(config) ==
    <<Write("dc_offset", 4, config.dc_offset)>>
        \o append_power_control_settings(config, FALSE)
        \o <<RunOp("TxRampUp")>> \o PowerControlLoop(config)

(* The loop runs whatever the settings are.                                *)
append_boost_tx_ramp_up(config) ==
    <<Write("dc_offset", 4, config.dc_offset)>>
        \o append_power_control_settings(config, TRUE)
        \o <<Write("delay_us", 4, 840), RunOp("TxRampUp"), RunOp("UsTimerStart"),
             RunOp("PowerControlLoop")>>
        \o append_power_control_settings(config, FALSE)
        \o <<RunOp("UsTimerWait"), RunOp("PowerControlLoop")>>

append_start_log_test(period, repeat) ==
    <<Write("log_test_period", 4, period), Write("log_test_word_repeat", 4, repeat),
      RunOp("LogTest")>>
append_set_atest_mux(mux) == <<Write("a_test_mux", 4 * 4, mux), RunOp("SetATestMux")>>

append_set_aux_dac(start, num, values) ==
    <<Write("aux_dac_control", 2, channel_enable_bits(start, num)),
      Write("aux_dac_settings", 2 * num, <<start, num, values>>), RunOp("SetDac")>>

append_radio_power_control(enable) ==
    <<Write("analog_enable", 4, enable), RunOp("RadioPowerControl")>>
append_set_analog_rx_config(gains) ==
    <<Write("rx_gain_control", 2, gains), RunOp("SetRxGain")>>
append_measure_rssi(count) ==
    <<Write("measure_rssi_count", 2, count), RunOp("MeasureRssi")>>
append_hpf_override_test(mode) ==
    <<Write("hpf_override_settings", 4, mode), RunOp("HpfOverrideTest")>>

(* One entry of the synthesizer and of the offsets, no lbt_control.        *)
append_listen_before_talk(dividers, offset, count) ==
    <<Write("rf_synthesizer_control", 4, dividers),
      Write("measure_rssi_count", 2, count), Write("lbt_offset", 4, offset),
      RunOp("ListenBeforeTalk")>>

append_start_timer_op(delay) == <<Write("delay_us", 4, delay), RunOp("UsTimerStart")>>
append_wait_timer_op == <<RunOp("UsTimerWait")>>

append_start_event_fifo_test(period, words) ==
    <<Write("event_fifo_test_period", 4, period),
      Write("event_fifo_test_payload_num_words", 4, words), RunOp("EventFifoTest")>>

(* The packet is padded to words; the local copy has 64 bytes.             *)
Padded(bytes) == 4 * ((bytes + 3) \div 4)
append_insert_fifo_event(bytes) == <<InsertFifoEvent(Padded(bytes))>>

append_enable_sdd_logs(enables, speed) ==
    <<Write("log_enables", 4, enables), Write("log_speed", 2, speed)>>
append_start_inventory_round(configs, configs_2) ==
    <<Write("inventory_round_control", 4, configs),
      Write("inventory_round_control_2", 4, configs_2), RunOp("StartInventoryRound")>>
append_start_prbs == <<RunOp("RunPrbsData")>>
append_start_ber_test(mode, control) ==
    <<Write("ber_mode", 1, mode), Write("ber_control", 4, control), RunOp("BerTest")>>

append_ramp_transmit_power(config, timers) ==
    append_set_tx_coarse_gain(config.tx_atten)
        \o append_set_tx_fine_gain(config.tx_scalar)
        \o append_set_regulatory_timers(timers)
        \o append_tx_ramp_up(config.dc_offset) \o append_power_control(config)

append_droop_compensation(compensation) ==
    <<Write("power_droop_compensation", 4, compensation)>>

=============================================================================
