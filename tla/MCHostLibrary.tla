------------------------------ MODULE MCHostLibrary ------------------------------
(* Model-checking instance of HostLibrary.                                 *)
EXTENDS HostLibrary, Sequences

Gen2Codes == INSTANCE Gen2Commands
Event == INSTANCE EventPackets

(* Gen2 commands.                                                          *)
Select(pointer, mask) ==
    [command |-> "Gen2Select",
     args |-> [target |-> 4, action |-> 1, memory_bank |-> 1, bit_pointer |-> pointer,
               bit_count |-> Len(mask), mask |-> mask, truncate |-> 1]]
Read(pointer, count) ==
    [command |-> "Gen2Read",
     args |-> [memory_bank |-> 3, word_pointer |-> pointer, word_count |-> count]]
Password(kill) == [command |-> kill, args |-> [password |-> 43981]]
Lock == [command |-> "Gen2Lock",
         args |-> [f \in {Gen2Codes!LockFlags[i] : i \in DOMAIN Gen2Codes!LockFlags} |-> IF f \in {Gen2Codes!LockFlags[2], Gen2Codes!LockFlags[13]} THEN 1 ELSE 0]]
BlockWrite(data) ==
    [command |-> "Gen2BlockWrite",
     args |-> [memory_bank |-> 3, word_pointer |-> 128, word_count |-> 1, data |-> data]]
Permalock(read_lock) ==
    [command |-> "Gen2BlockPermalock",
     args |-> [read_lock |-> read_lock, memory_bank |-> 3, block_pointer |-> 0,
               block_range |-> 1, mask |-> IF read_lock = 0 THEN << >> ELSE Gen2Codes!BitsOf(129, 16)]]
Authenticate ==
    [command |-> "Gen2Authenticate",
     args |-> [send_rep |-> 1, inc_rep_len |-> 1, csi |-> 1, length |-> 4,
               message |-> <<1, 0, 0, 1>>, rep_len_bits |-> 64]]
MarginRead ==
    [command |-> "Gen2MarginRead",
     args |-> [memory_bank |-> 1, bit_pointer |-> 32, bit_length |-> 3, mask |-> <<1, 0, 1>>]]

(* Pointers of one and of two bytes; spans of no bit, of part of a byte    *)
(* and of more; a memory bank that does not fit its field; a missing span. *)
AllCommands ==
    {{Select(0, << >>), Read(128, 2)},
     {Select(16383, <<1, 1, 0>>), Password("Gen2Access")},
     {Password("Gen2Kill_1"), Password("Gen2Kill_2")},
     {Lock, Authenticate},
     {BlockWrite(Gen2Codes!BitsOf(48879, 16)), [Read(0, 1) EXCEPT !.args.memory_bank = 4]},
     {Permalock(0),
      [Select(0, << >>) EXCEPT !.args = [a \in DOMAIN @ \ {"mask"} |-> @[a]]]},
     {MarginRead, Permalock(1)},
     {[command |-> "Gen2Write", args |-> [memory_bank |-> 1, word_pointer |-> 2, data |-> 4660]]}}

(* A calibration, its versions (Supported, Erased) and the tables of the   *)
(* RSSI.                                                                   *)
Current == 5
Blank == 255
Unset == 25500          \* an attenuation without a calibrated power (Cleared)
Band(shift) ==
    [freqs |-> <<860, 868, 900, 928>>, fwd_pwr_shifts |-> <<-20, 0, shift, 40>>,
     coarse_attn_cal |-> <<Unset, 3100, 2800, 2450, 2000, 1600, 1150, 600, 200>>,
     fwd_power_temp_slope |-> -2, cal_temp |-> 300, lo_pdet_temp_slope |-> [d \in 0 .. 2 |-> d - 1],
     lo_pdet_freq_adc_shifts |->
        [d \in 0 .. 2 |-> <<10 * d, 0, shift, -10>>],
     pdet_adc_lut |->
        [d \in 0 .. 2 |->
            CASE d = 0 -> <<1000, 990, 980, 970, 960, 900, 700, 300, 150>>
              [] d = 1 -> <<1000, 970, 930, 850, 600, 400, 250, 130, 100>>
              [] d = 2 -> <<1000, 850, 650, 450, 260, 180, 130, 105, 100>>],
     valid_min_adc |-> 200, valid_max_adc |-> 900, behind |-> 0]
Values(version, modes, shift) ==
    [version |-> version,
     power |-> [lower |-> Band(shift), upper |-> Band(0), tx_scalar |-> 1100,
                dc_offset |-> [i \in 1 .. 9 |-> i],
                control_loop_params |-> [error_threshold |-> 4, loop_gain_divisor |-> 300,
                                         max_iterations |-> 8]],
     rssi |-> [modes |-> modes, values |-> [i \in DOMAIN modes |-> 7 * i - 20],
               gains |-> [f \in {"rx_atten", "pga1_gain", "antenna", "band"} |->
                            IF f = "band" THEN <<-3, 4>> ELSE <<-64, 30>>],
               temp_intercept |-> 300, default_cdbm |-> -5500, default_log2 |-> 700]]
AllModes == <<7, 5, 13, 3, 1>>
E310Modes == <<146, 141, 185, 123>>
SomeParts ==
    {Values(Current, AllModes, 30), Values(Current, E310Modes, -30), Values(Blank, << >>, 0)}
NoParameters == [Values(0, << >>, 0) EXCEPT !.power = Values(0, << >>, 0).power]

Lut(rf_modes, rx_mode) ==
    [rf_modes |-> rf_modes, rx_mode |-> rx_mode, blf_khz |-> <<250, 320, 160, 320, 640, 426>>,
     correction |-> <<12, -4, 30, 8, -16, 5>>,
     modes |-> [drm |-> <<[mode_id |-> 146, blf |-> 250], [mode_id |-> 141, blf |-> 320]>>,
                non_drm |-> <<[mode_id |-> 185, blf |-> 160], [mode_id |-> 123, blf |-> 320],
                              [mode_id |-> 124, blf |-> 640]>>],
     lbt_correction |-> -9, lbt_shift |-> 400]
TwoLuts ==
    <<Lut(<<146, 141, 185, 123, 124, 102>>, <<1, 2, 3, 4, 5, 6>>),
      Lut(<<146, 141, 185, 123, 124, 4141>>, <<1, 2, 3, 4, 5, 6>>)>>
TwoFilters == <<{141, 146}, {141, 146, 4141}>>
SomePowers == {100 * i : i \in 6 .. 34}
SomeRaws == {74 * i : i \in 0 .. 20}

(* Register lists and packets.                                             *)
Packet(type, length) ==
    Event!EventFifoPacket(type, [i \in 1 .. Event!get_static_payload_length[type] |-> 20 + i],
                    [i \in 1 .. length |-> 60 + i])
SomeEvents == {Packet("TagRead", 5), Packet("HelloWorld", 0), Packet("TxRampUp", 4)}
Register(address, length) == [address |-> address, length |-> length]
SomeReads ==
    {<<Register(0, 2), Register(8, 1)>>,
     <<Register(0, 4), Register(4, 26), Register(30, 2)>>,
     [i \in 1 .. 6 |-> Register(i, 1)], <<Register(3, 19), Register(28, 4)>>,
     <<Register(20, 11)>>}
SomeWrites == SomeReads

(* Generators, and powers with and without a target.                       *)
Cards == {[i \in 0 .. 49 |-> 7 * i + 5], [i \in 0 .. 49 |-> 32767 - i * i]}
Config(atten, target, boost) ==
    [tx_atten |-> atten, tx_scalar |-> 1152 + atten, dc_offset |-> atten,
     adc_target |-> target, boost_adc_target |-> boost]
SomeConfigs == {Config(0, 900, 0), Config(6, 700, 900), Config(18, 0, 0), Config(30, 100, 0)}
==============================================================================
