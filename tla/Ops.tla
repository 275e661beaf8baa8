---------------------------------- MODULE Ops ----------------------------------
(***************************************************************************)
(* The operations of the chip as ex10_ops.c starts them: the registers     *)
(* that a function writes and the operation it then runs, in one transfer; *)
(* and, call by call, what aggregate_op_builder.c appends in its place.    *)
(***************************************************************************)
EXTENDS AggregateOpBuilder

Direct(regs, op) == [regs |-> regs, ops |-> <<op>>]
start_op(op) == Direct({}, op)

start_log_test(period, repeat) ==
    Direct({<<"log_test_period", period>>, <<"log_test_word_repeat", repeat>>}, "LogTest")
set_atest_mux(mux) == Direct({<<"a_test_mux", mux>>}, "SetATestMux")

(* The channels beyond the last one are left out.                          *)
Clamped(start, num, entries) == IF num <= entries - start THEN num ELSE entries - start
Bits(start, num) == (2 ^ num - 1) * 2 ^ start
measure_aux_adc(start, num) ==
    Direct({<<"aux_adc_control", Bits(start, Clamped(start, num, AdcEntries))>>},
           "MeasureAdc")
set_aux_dac(start, num, values) ==
    LET n == Clamped(start, num, DacEntries)
    IN Direct({<<"aux_dac_control", Bits(start, n)>>,
               <<"aux_dac_settings", <<start, n, values>>>>}, "SetDac")

set_rf_mode(mode) == Direct({<<"rf_mode", mode>>}, "SetRfMode")
tx_ramp_up(dc_offset) == Direct({<<"dc_offset", dc_offset>>}, "TxRampUp")
tx_ramp_down == start_op("TxRampDown")
set_tx_coarse_gain(tx_atten) == Direct({<<"tx_coarse_gain", tx_atten>>}, "SetTxCoarseGain")
set_tx_fine_gain(tx_scalar) == Direct({<<"tx_fine_gain", tx_scalar>>}, "SetTxFineGain")
radio_power_control(enable) == Direct({<<"analog_enable", enable>>}, "RadioPowerControl")
set_analog_rx_config(gains) == Direct({<<"rx_gain_control", gains>>}, "SetRxGain")
measure_rssi(count) == Direct({<<"measure_rssi_count", count>>}, "MeasureRssi")
run_listen_before_talk(settings, gains, offsets, dividers, count) ==
    Direct({<<"lbt_control", settings>>, <<"rx_gain_control", gains>>,
            <<"lbt_offset", offsets>>, <<"rf_synthesizer_control", dividers>>,
            <<"measure_rssi_count", count>>}, "ListenBeforeTalk")
start_timer_op(delay) == Direct({<<"delay_us", delay>>}, "UsTimerStart")
wait_timer_op == start_op("UsTimerWait")
lock_synthesizer(dividers) ==
    Direct({<<"rf_synthesizer_control", dividers>>}, "LockSynthesizer")
start_event_fifo_test(period, words) ==
    Direct({<<"event_fifo_test_period", period>>,
            <<"event_fifo_test_payload_num_words", words>>}, "EventFifoTest")
enable_sdd_logs(enables, speed) ==
    [regs |-> {<<"log_enables", enables>>, <<"log_speed", speed>>}, ops |-> << >>]
run_sjc == start_op("RxRunSjc")
set_gpio(levels, enables) ==
    Direct({<<"gpio_output_enable", enables>>, <<"gpio_output_level", levels>>}, "SetGpio")
set_clear_gpio_pins(pins) ==
    Direct({<<"gpio_output_level_set", pins.output_level_set>>,
            <<"gpio_output_level_clear", pins.output_level_clear>>,
            <<"gpio_output_enable_set", pins.output_enable_set>>,
            <<"gpio_output_enable_clear", pins.output_enable_clear>>},
           "SetClearGpioPins")
start_inventory_round(configs, configs_2) ==
    Direct({<<"inventory_round_control", configs>>,
            <<"inventory_round_control_2", configs_2>>}, "StartInventoryRound")
start_prbs == start_op("RunPrbsData")
start_hpf_override_test_op(mode) ==
    Direct({<<"hpf_override_settings", mode>>}, "HpfOverrideTest")
start_ber_test(mode, control) ==
    Direct({<<"ber_mode", mode>>, <<"ber_control", control>>}, "BerTest")
run_power_control_loop(config) ==
    Direct({<<"power_control_loop_aux_adc_control", FALSE>>,
            <<"power_control_loop_gain_divisor", "divisor">>,
            <<"power_control_loop_max_iterations", "iterations">>,
            <<"power_control_loop_adc_target", config.adc_target>>,
            <<"power_control_loop_adc_thresholds", "thresholds">>}, "PowerControlLoop")

-----------------------------------------------------------------------------
(* The calls both layers offer, and their arguments.                       *)
Pins == [output_level_set |-> "set", output_level_clear |-> "clear",
         output_enable_set |-> "drive", output_enable_clear |-> "release"]
SomeConfig == [tx_atten |-> 6, tx_scalar |-> 1152, dc_offset |-> 1,
               adc_target |-> 700, boost_adc_target |-> 0]

OpsCalls ==
    [set_rf_mode |-> set_rf_mode("mode"), set_gpio |-> set_gpio("levels", "enables"),
     set_clear_gpio_pins |-> set_clear_gpio_pins(Pins),
     lock_synthesizer |-> lock_synthesizer("dividers"), run_sjc |-> run_sjc,
     set_tx_coarse_gain |-> set_tx_coarse_gain(6), set_tx_fine_gain |-> set_tx_fine_gain(1152),
     tx_ramp_up |-> tx_ramp_up(1), tx_ramp_down |-> tx_ramp_down,
     power_control |-> run_power_control_loop(SomeConfig),
     start_log_test |-> start_log_test("period", "repeat"),
     set_atest_mux |-> set_atest_mux("mux"), radio_power_control |-> radio_power_control(TRUE),
     set_analog_rx_config |-> set_analog_rx_config("gains"),
     measure_rssi |-> measure_rssi("count"), hpf_override_test |-> start_hpf_override_test_op("mode"),
     start_timer_op |-> start_timer_op("delay"), wait_timer_op |-> wait_timer_op,
     start_event_fifo_test |-> start_event_fifo_test("period", "words"),
     enable_sdd_logs |-> enable_sdd_logs("enables", "speed"),
     start_inventory_round |-> start_inventory_round("configs", "configs_2"),
     start_prbs |-> start_prbs, start_ber_test |-> start_ber_test("mode", "control"),
     listen_before_talk |->
        run_listen_before_talk("settings", "gains", "offset", "dividers", "count")]

BuilderCalls ==
    [set_rf_mode |-> append_set_rf_mode("mode"),
     set_gpio |-> append_set_gpio("levels", "enables"),
     set_clear_gpio_pins |-> append_set_clear_gpio_pins(Pins),
     lock_synthesizer |-> append_lock_synthesizer("dividers"), run_sjc |-> append_run_sjc,
     set_tx_coarse_gain |-> append_set_tx_coarse_gain(6),
     set_tx_fine_gain |-> append_set_tx_fine_gain(1152),
     tx_ramp_up |-> append_tx_ramp_up(1), tx_ramp_down |-> append_tx_ramp_down,
     power_control |-> append_power_control(SomeConfig),
     start_log_test |-> append_start_log_test("period", "repeat"),
     set_atest_mux |-> append_set_atest_mux("mux"),
     radio_power_control |-> append_radio_power_control(TRUE),
     set_analog_rx_config |-> append_set_analog_rx_config("gains"),
     measure_rssi |-> append_measure_rssi("count"),
     hpf_override_test |-> append_hpf_override_test("mode"),
     start_timer_op |-> append_start_timer_op("delay"), wait_timer_op |-> append_wait_timer_op,
     start_event_fifo_test |-> append_start_event_fifo_test("period", "words"),
     enable_sdd_logs |-> append_enable_sdd_logs("enables", "speed"),
     start_inventory_round |-> append_start_inventory_round("configs", "configs_2"),
     start_prbs |-> append_start_prbs, start_ber_test |-> append_start_ber_test("mode", "control"),
     listen_before_talk |-> append_listen_before_talk("dividers", "offset", "count")]

(* What the instructions of a builder do when the chip runs them.          *)
Effect(is) ==
    [regs |-> UNION {ToSet(is[k].regs) : k \in {j \in DOMAIN is : is[j].type = "Write"}},
     ops |-> LET runs == SelectSeq(is, LAMBDA i : i.type = "RunOp")
             IN [k \in DOMAIN runs |-> runs[k].op]]

=============================================================================
