------------------------------ MODULE Calibration ------------------------------
(***************************************************************************)
(* What the host makes of the calibration of a part (calibration.c): the   *)
(* attenuator, the power detector and its ADC count for a transmit power,  *)
(* and the power in cdBm for a received signal strength.                   *)
(*                                                                         *)
(* Powers are in hundredths of a dB throughout, the floats of the source   *)
(* included; quotients are truncated as in C.  A table that was skipped    *)
(* during calibration holds Cleared.  Sequences start at 1 where the       *)
(* arrays of the source start at 0.                                        *)
(***************************************************************************)
EXTENDS Integers, Sequences, FiniteSets, SequencesExt, FiniteSetsExt

CONSTANTS
    Parts,                      \* calibrations a part may come with
    DefaultParameters,          \* calibration_parameters_default
    Luts,                       \* RSSI compensation tables, the default first
    DrmModes,                   \* of the baseband filters, the default first
    MaxPower,                   \* get_max_power_cdbm(): region and board
    BoostRatio,                 \* boost_ratio_cdb
    MaxSetups,                  \* bound: calls that change what is kept
    Powers, PowerStep, Frequencies, Temperatures, RawRssis    \* arguments of the queries

VARIABLES
    part,                       \* the information page of the Ex10
    cal_version,
    params,                     \* calibration_parameters, group by group
    rssi_comp, rx_baseband_filter,
    drm_status,                 \* of the baseband filter
    analog_offset, analog_freq, \* of the DRM and the other calibration modes
    setups

vars == <<part, cal_version, params, rssi_comp, rx_baseband_filter, drm_status,
          analog_offset, analog_freq, setups>>

Magnitude(n) == IF n < 0 THEN -n ELSE n
Quotient(n, d) ==
    IF (n < 0) = (d < 0) THEN Magnitude(n) \div Magnitude(d) ELSE -(Magnitude(n) \div Magnitude(d))
uint16(n) == n % 65536
int16(n) == ((n + 32768) % 65536) - 32768
Indices(a, b) == [i \in 1 .. b - a + 1 |-> a + i - 1]
FirstIndex(s, Test(_), none) ==
    LET good == {i \in DOMAIN s : Test(s[i])} IN IF good = {} THEN none ELSE Min(good)

None == 0                       \* a NULL table
Supported == 5
Erased == 255
Cleared == 25500
Groups == {"version", "power", "rssi"}
FilterKinds == {"drm", "non_drm"}

-----------------------------------------------------------------------------
(* Initialization.                                                         *)
parameters_used(p) == IF p.version = Supported THEN p ELSE DefaultParameters
get_params == parameters_used(params)

convert_legacy_rf_mode_to_new_rf_mode(mode) ==
    CASE mode = 1 -> 124 [] mode = 3 -> 123 [] mode = 5 -> 141 [] mode = 7 -> 146
      [] mode = 11 -> 102 [] mode = 12 -> 125 [] mode = 13 -> 185 [] mode = 15 -> 147
      [] OTHER -> mode

check_sorted_by_blf(modes) == \A i \in 2 .. Len(modes) : modes[i - 1].blf <= modes[i].blf

RxMode(lut, mode) == lut.rx_mode[FirstIndex(lut.rf_modes, LAMBDA m : m = mode, None)]
IndexInFlash(p, mode) ==
    FirstIndex(p.rssi.modes, LAMBDA m : convert_legacy_rf_mode_to_new_rf_mode(m) = mode, None)
IsCalibrated(p, lut, mode) == IndexInFlash(p, mode) # None /\ mode \in ToSet(lut.rf_modes)

(* A calibration mode that the part lacks keeps the offset it had.         *)
fill_calibration_offsets(p, lut, modes, old) ==
    [i \in DOMAIN modes |->
        IF IsCalibrated(p, lut, modes[i].mode_id)
        THEN p.rssi.values[IndexInFlash(p, modes[i].mode_id)]
                - lut.correction[RxMode(lut, modes[i].mode_id)]
        ELSE old[i]]
AnyFound(p, lut, modes) == \E i \in DOMAIN modes : IsCalibrated(p, lut, modes[i].mode_id)

(* The second kind is left alone where the first has no mode at all.       *)
init_analog_offsets(p, lut) ==
    LET filled == IF ~(check_sorted_by_blf(lut.modes.drm) /\ check_sorted_by_blf(lut.modes.non_drm))
                  THEN {} ELSE IF AnyFound(p, lut, lut.modes.drm) THEN FilterKinds ELSE {"drm"}
    IN /\ analog_offset' = [k \in FilterKinds |->
                IF k \in filled
                THEN fill_calibration_offsets(p, lut, lut.modes[k], analog_offset[k])
                ELSE analog_offset[k]]
       /\ analog_freq' = [k \in FilterKinds |->
                IF k \in filled THEN [i \in DOMAIN lut.modes[k] |-> lut.modes[k][i].blf]
                ELSE analog_freq[k]]

Init ==
    /\ part \in Parts
    /\ cal_version = 0 /\ params = DefaultParameters
    /\ rssi_comp = None /\ rx_baseband_filter = None /\ drm_status = "auto"
    /\ analog_offset = [drm |-> <<0, 0>>, non_drm |-> <<0, 0, 0>>]
    /\ analog_freq = analog_offset
    /\ setups = 0

Setup == setups < MaxSetups /\ setups' = setups + 1 /\ UNCHANGED part

(* The read of the version or of the customer's version failed.           *)
cal_init_fails(version) ==
    /\ Setup /\ cal_version' = version
    /\ UNCHANGED <<params, rssi_comp, rx_baseband_filter, drm_status, analog_offset,
                   analog_freq>>

(* get_ex10_cal_v5()->init() reads the groups and ignores failures: what   *)
(* was missed stays as it was.                                             *)
ReadGroups(missed) ==
    IF part.version # Supported THEN params
    ELSE [g \in Groups |-> IF g \in missed THEN params[g] ELSE part[g]]
cal_init(missed) ==
    LET p == parameters_used(ReadGroups(missed))
    IN /\ Setup
       /\ cal_version' = part.version
       /\ params' = ReadGroups(missed)
       /\ rssi_comp' = IF rssi_comp = None THEN 1 ELSE rssi_comp
       /\ rx_baseband_filter' = IF rx_baseband_filter = None THEN 1 ELSE rx_baseband_filter
       /\ init_analog_offsets(p, Luts[rssi_comp']) /\ UNCHANGED drm_status

set_rssi_compensation_lut(lut) ==
    /\ Setup /\ rssi_comp' = lut
    /\ UNCHANGED <<cal_version, params, rx_baseband_filter, drm_status, analog_offset,
                   analog_freq>>
set_rx_baseband_filter(filter) ==
    /\ Setup /\ rx_baseband_filter' = filter
    /\ UNCHANGED <<cal_version, params, rssi_comp, drm_status, analog_offset, analog_freq>>
set_drm_status(status) ==
    /\ Setup /\ drm_status' = status
    /\ UNCHANGED <<cal_version, params, rssi_comp, rx_baseband_filter, analog_offset,
                   analog_freq>>

Next ==
    \/ \E version \in {cal_version, part.version} : cal_init_fails(version)
    \/ \E missed \in SUBSET Groups : cal_init(missed)
    \/ \E lut \in DOMAIN Luts : set_rssi_compensation_lut(lut)
    \/ \E filter \in DOMAIN DrmModes : set_rx_baseband_filter(filter)
    \/ \E status \in {"auto", "on", "off"} : set_drm_status(status)

Spec == Init /\ [][Next]_vars

-----------------------------------------------------------------------------
(* Received signal strength.                                               *)
interpolate(x, y, new) ==
    LET i == Min({j \in 2 .. Len(x) : x[j] >= new})
    IN IF new < x[1] THEN y[1]
       ELSE IF new > x[Len(x)] THEN y[Len(x)]
       ELSE IF x[i] = new THEN y[i]
       ELSE Quotient((x[i] - new) * y[i - 1], x[i] - x[i - 1])
                + Quotient((new - x[i - 1]) * y[i], x[i] - x[i - 1])

(* One gain per field of RxGainControl, the antenna and the band.          *)
get_gain_offset(p, settings) ==
    FoldFunction(+, 0, [f \in DOMAIN settings |-> p.rssi.gains[f][settings[f]]])

rf_mode_is_drm(mode) ==
    drm_status = "on" \/ (drm_status = "auto" /\ mode \in DrmModes[rx_baseband_filter])
get_analog_baseband_freq_offset(freq, kind) ==
    interpolate(analog_freq[kind], analog_offset[kind], freq)
get_mode_rssi_offset(mode, freq) ==
    IF None \in {rssi_comp, rx_baseband_filter} THEN -1
    ELSE IF mode \notin ToSet(Luts[rssi_comp].rf_modes) THEN 0
    ELSE get_analog_baseband_freq_offset(
                Magnitude(freq), IF rf_mode_is_drm(mode) THEN "drm" ELSE "non_drm")
            + Luts[rssi_comp].correction[RxMode(Luts[rssi_comp], mode)]
get_lbt_baseband_offset ==
    get_analog_baseband_freq_offset(Luts[rssi_comp].lbt_shift, "non_drm")
        + Luts[rssi_comp].lbt_correction
get_rf_mode_baseband_freq_khz(mode) ==
    IF rssi_comp = None \/ mode \notin ToSet(Luts[rssi_comp].rf_modes) THEN 0
    ELSE Luts[rssi_comp].blf_khz[RxMode(Luts[rssi_comp], mode)]

get_temp_offset(p, temp) ==
    IF temp = 0 THEN 0 ELSE Quotient(-616 * (temp - p.rssi.temp_intercept) + 500, 1000)

log2_to_cdbm(p, log2) ==
    Quotient((log2 - p.rssi.default_log2) * 470 + p.rssi.default_cdbm * 100 + 50, 100)
cdbm_to_log2(p, cdbm) ==
    uint16(Quotient((cdbm - p.rssi.default_cdbm) * 100 + 235, 470) + p.rssi.default_log2)

Offsets(mode, settings, temp) ==
    get_gain_offset(get_params, settings) + get_temp_offset(get_params, temp)
        + get_mode_rssi_offset(mode, get_rf_mode_baseband_freq_khz(mode))
get_compensated_rssi(raw, mode, settings, temp) ==
    IF cal_version # Supported THEN raw
    ELSE log2_to_cdbm(get_params, uint16(raw - Offsets(mode, settings, temp)))
(* A mistake: the corrections taken away once more. *)
get_rssi_log2_minus(cdbm, mode, settings, temp) ==
    IF cal_version # Supported THEN 0
    ELSE LET log2 == int16(cdbm_to_log2(get_params, cdbm)) - Offsets(mode, settings, temp)
         IN IF log2 <= 0 THEN 0 ELSE log2
get_rssi_log2(cdbm, mode, settings, temp) ==
    IF cal_version # Supported THEN 0
    ELSE LET log2 == int16(cdbm_to_log2(get_params, cdbm)) + Offsets(mode, settings, temp)
         IN IF log2 <= 0 THEN 0 ELSE log2
LbtOffsets(settings, temp) ==
    get_gain_offset(get_params, settings) + get_temp_offset(get_params, temp)
        + get_lbt_baseband_offset
get_compensated_lbt_rssi(raw, settings, temp) ==
    IF cal_version # Supported \/ rssi_comp = None THEN raw
    ELSE log2_to_cdbm(get_params, uint16(raw - LbtOffsets(settings, temp)))

-----------------------------------------------------------------------------
(* The tables of the source, and what parts come with.                     *)

Small == -4096 .. 4095          \* far within the int16_t that corrections are

(* A table names its calibration modes in the order of their frequencies   *)
(* (rssi_compensation_lut.h:120), each with the frequency it has among all *)
(* modes.                                                                  *)
LutIsMade(lut) ==
    /\ lut.modes \in [FilterKinds -> Seq([mode_id : Nat, blf : Nat])]
    /\ Len(lut.modes.drm) = 2 /\ Len(lut.modes.non_drm) = 3
    /\ \A k \in FilterKinds : \A i, j \in DOMAIN lut.modes[k] :
            i < j => lut.modes[k][i].blf < lut.modes[k][j].blf
    /\ \A k \in FilterKinds : \A i \in DOMAIN lut.modes[k] :
            LET m == lut.modes[k][i]
            IN m.mode_id \in ToSet(lut.rf_modes) /\ lut.blf_khz[RxMode(lut, m.mode_id)] = m.blf
    /\ \A mode \in ToSet(lut.rf_modes) :
            lut.blf_khz[RxMode(lut, mode)] \in Nat /\ lut.correction[RxMode(lut, mode)] \in Small
    /\ lut.lbt_shift \in Nat /\ lut.lbt_correction \in Small

(* All tables have the calibration modes of the default one, and correct   *)
(* them alike.                                                             *)
AsDefault(lut) ==
    /\ lut.modes = Luts[1].modes
    /\ \A k \in FilterKinds : \A i \in DOMAIN lut.modes[k] :
            LET mode == lut.modes[k][i].mode_id
            IN lut.correction[RxMode(lut, mode)] = Luts[1].correction[RxMode(Luts[1], mode)]

Flashed(p, k, i) == IndexInFlash(p, Luts[1].modes[k][i].mode_id)
(* What a part or the default holds of the modes that a table calibrates.  *)
ModesAreMeasured(p) ==
    /\ DOMAIN p = Groups
    /\ \A k \in FilterKinds : \A i \in DOMAIN Luts[1].modes[k] :
            Flashed(p, k, i) # None => p.rssi.values[Flashed(p, k, i)] \in Small

(* Powers fall with the attenuation, but for those that were skipped at    *)
(* the start; shifts are given at rising frequencies.                      *)
TableIsMeasured(t) ==
    /\ t.coarse_attn_cal \in Seq(Int)
    /\ \E i \in DOMAIN t.coarse_attn_cal : t.coarse_attn_cal[i] # Cleared
    /\ \A i, j \in DOMAIN t.coarse_attn_cal :
            /\ t.coarse_attn_cal[i] <= Cleared
            /\ i < j /\ t.coarse_attn_cal[i] # Cleared => t.coarse_attn_cal[j] < t.coarse_attn_cal[i]
    /\ t.freqs \in Seq(Nat) /\ Len(t.freqs) >= 2
    /\ \A i, j \in DOMAIN t.freqs : i < j => t.freqs[i] < t.freqs[j]
    /\ t.fwd_pwr_shifts \in [DOMAIN t.freqs -> Int]
    /\ {t.fwd_power_temp_slope, t.cal_temp} \subseteq Int

(* A part is calibrated with no mode of the second kind alone.             *)
PartIsMeasured(p) ==
    /\ \A i \in DOMAIN Luts[1].modes.non_drm :
            Flashed(p, "non_drm", i) # None =>
                \E j \in DOMAIN Luts[1].modes.drm : Flashed(p, "drm", j) # None
    /\ \A n \in {1, 2} : \A s \in [DOMAIN p.rssi.gains -> {n}] : get_gain_offset(p, s) \in Small
    /\ \A band \in {"lower", "upper"} : TableIsMeasured(p.power[band])
    /\ \A temp \in Temperatures : temp - p.rssi.temp_intercept \in Small
    /\ {p.rssi.default_log2, p.rssi.default_cdbm} \subseteq Int

CalibrationConstants ==
    /\ DefaultParameters.version # Supported
    /\ 1 \in DOMAIN Luts
    /\ \A i \in DOMAIN Luts : i # None /\ LutIsMade(Luts[i]) /\ AsDefault(Luts[i])
    /\ \A p \in Parts \cup {DefaultParameters} : ModesAreMeasured(p)
    /\ \A p \in Parts : p.version = Supported => PartIsMeasured(p)
    /\ RawRssis \subseteq 0 .. 4095 /\ Temperatures \subseteq Int
    /\ Powers \subseteq Int /\ Frequencies \subseteq Nat

-----------------------------------------------------------------------------
(* Transmit power.  A setting is what power depends on: frequency,         *)
(* temperature, whether to compensate it, and the band.                    *)
Interpolated(x, y, new) ==
    LET i == Min({j \in 2 .. Len(x) : x[j] >= new})
    IN IF new < x[1] THEN y[1]
       ELSE IF new > x[Len(x)] THEN y[Len(x)]
       ELSE y[i - 1] + Quotient((new - x[i - 1]) * (y[i] - y[i - 1]), x[i] - x[i - 1])

Table(at) == get_params.power[at.band]
TempShift(slope, at) == IF at.temp_comp_enabled THEN slope * (at.temp - Table(at).cal_temp) ELSE 0
compensate_coarse_freq_v5(at) == Interpolated(Table(at).freqs, Table(at).fwd_pwr_shifts, at.freq)
compensate_pdet_freq_v5(at, d) ==
    Interpolated(Table(at).freqs, Table(at).lo_pdet_freq_adc_shifts[d], at.freq)
compensate_pdet_temp_v5(at, d) == TempShift(Table(at).lo_pdet_temp_slope[d], at)

FirstValid(powers, none) == FirstIndex(powers, LAMBDA p : p < Cleared, none)
(* The first entry that is as near as the next one is taken, or the last.  *)
(* A mistake: the first entry that is not above the power. *)
NotAboveIt(powers, p, i) == i = Len(powers) \/ powers[i] <= p
NoFurther(powers, p, i) ==
    i = Len(powers) \/ Magnitude(powers[i] - p) <= Magnitude(powers[i + 1] - p)
CompensatedPower(power, at) ==
    power - TempShift(Table(at).fwd_power_temp_slope, at) - compensate_coarse_freq_v5(at)
choose_coarse_atten_v5(power, at) ==
    LET powers == Table(at).coarse_attn_cal
        start == FirstValid(powers, None)
        p == CompensatedPower(power, at)
    IN IF start = None THEN Len(powers) - 1
       ELSE IF p > powers[start] THEN start - 1
       ELSE Min({i \in start .. Len(powers) : NoFurther(powers, p, i)}) - 1

(* The detectors are tried from the last, which is for the highest powers. *)
Detectors == <<2, 1, 0>>
ChannelEnableBitsNone == 3
PdetPower(power, at, d) ==
    power - compensate_pdet_temp_v5(at, d) + compensate_pdet_freq_v5(at, d)

valid_pdet_adcs(t, adcs, n) ==
    {adcs[n.i_1], adcs[n.i_2]} \subseteq t.valid_min_adc .. t.valid_max_adc
Pair(i_1, i_2, found) == [i_1 |-> i_1, i_2 |-> i_2, found |-> found]
(* The pair of entries next to a power.  The pair whose counts are tested  *)
(* is the one found so far, not the one that is then taken; the last entry *)
(* of the table is not looked at.                                          *)
ForwardPair(t, adcs, p) ==
    LET powers == t.coarse_attn_cal
        first == FirstValid(SubSeq(powers, 1, Len(powers) - 1), Len(powers))
        look(n, i) ==
            IF n.found THEN n
            ELSE IF powers[i] <= p /\ p <= powers[i - 1] /\ valid_pdet_adcs(t, adcs, n)
            THEN Pair(i - 1, i, TRUE)
            ELSE IF Magnitude(p - powers[i]) < Magnitude(p - powers[n.i_2])
            THEN Pair(n.i_2, i, FALSE) ELSE n
    IN FoldLeft(look, Pair(first, first + 1, FALSE), Indices(first + 1, Len(adcs) - 1))

AdcOnLine(t, adcs, n, p) ==
    LET powers == t.coarse_attn_cal
    IN uint16(adcs[n.i_2] + Quotient((adcs[n.i_1] - adcs[n.i_2]) * (p - powers[n.i_2]),
                                     powers[n.i_1] - powers[n.i_2]))

Target(detector, adc) == [detector |-> detector, adc |-> adc]
(* No detector has the power: the one that comes nearest to the middle.    *)
NearestTarget(t, adc) ==
    LET distance(d) == Magnitude(t.valid_max_adc + t.valid_min_adc - 2 * adc[d])
        closer(best, d) == IF distance(d) < distance(best) THEN d ELSE best
        used == FoldLeft(closer, 0, Detectors)
    IN IF \A d \in 0 .. 2 : adc[d] <= t.valid_min_adc THEN Target(0, t.valid_min_adc)
       ELSE IF \A d \in 0 .. 2 : adc[d] >= t.valid_max_adc THEN Target(2, t.valid_max_adc)
       ELSE Target(used, adc[used])

power_to_adc(power, at) ==
    LET t == Table(at)
        pair == [d \in 0 .. 2 |-> ForwardPair(t, t.pdet_adc_lut[d], PdetPower(power, at, d))]
        adc == [d \in 0 .. 2 |->
                    AdcOnLine(t, t.pdet_adc_lut[d], pair[d], PdetPower(power, at, d))]
        found == {d \in 0 .. 2 : pair[d].found}
    IN IF found # {} THEN Target(Max(found), adc[Max(found)]) ELSE NearestTarget(t, adc)

(* Reflected power: no entry is skipped, the pair found is the pair tested *)
(* and, with no such pair, the last one.                                   *)
ReversePair(t, p) ==
    LET powers == t.coarse_attn_cal
        first == FirstValid(SubSeq(powers, 1, Len(powers) - 1), Len(powers))
        around == {i \in first .. Len(powers) - 1 : powers[i + 1] <= p /\ p <= powers[i]}
        i_1 == IF around = {} THEN Len(powers) - 1 ELSE Min(around)
    IN Pair(i_1, i_1 + 1, around # {})

(* The entry "closest" to the power: the difference keeps its sign, so     *)
(* that it is the first entry of the detector with the lowest power.       *)
ClosestEntry(t, p) ==
    LET powers == t.coarse_attn_cal
        first == FirstValid(SubSeq(powers, 1, Len(powers) - 1), Len(powers))
        closer(best, d) ==
            FoldLeft(LAMBDA b, i : IF p[d] - powers[i] < b.power
                                   THEN [power |-> p[d] - powers[i], block |-> d, index |-> i]
                                   ELSE b,
                     best, Indices(first, Len(powers) - 1))
    IN FoldLeft(closer, [power |-> 6553500, block |-> 0, index |-> 1], Detectors)

(* Both searches go one entry beyond the table: into the next one, or into *)
(* the power that lies behind the last.                                    *)
WithNext(t, d) == Append(t.pdet_adc_lut[d], IF d = 2 THEN t.behind ELSE t.pdet_adc_lut[d + 1][1])
LowestValid(t) ==
    FoldLeft(LAMBDA low, v : IF v >= t.valid_min_adc /\ v <= low THEN v ELSE low,
             t.pdet_adc_lut[0][1], WithNext(t, 0))
HighestValid(t) ==
    FoldLeft(LAMBDA high, v : IF v <= t.valid_max_adc /\ v >= high THEN v ELSE high,
             t.pdet_adc_lut[2][1], WithNext(t, 2))

reverse_power_to_adc(power, at) ==
    LET t == Table(at)
        powers == t.coarse_attn_cal
        p == [d \in 0 .. 2 |-> PdetPower(power, at, d)]
        pair == [d \in 0 .. 2 |-> ReversePair(t, p[d])]
        valid == {d \in 0 .. 2 : valid_pdet_adcs(t, t.pdet_adc_lut[d], pair[d])}
        closest == ClosestEntry(t, p)
        first == FirstValid(SubSeq(powers, 1, Len(powers) - 1), Len(powers))
    IN IF valid # {}
       THEN Target(Max(valid), AdcOnLine(t, t.pdet_adc_lut[Max(valid)], pair[Max(valid)],
                                         p[Max(valid)]))
       ELSE IF power < Magnitude(powers[Len(powers)]) THEN Target(0, LowestValid(t))
       ELSE IF power > Magnitude(powers[first]) THEN Target(2, HighestValid(t))
       ELSE Target(0, t.pdet_adc_lut[closest.block][closest.index])

(* What a ramp is configured with.                                         *)
NoTarget == Target(ChannelEnableBitsNone, 0)
PowerConfigs(tx_atten, tx_scalar, dc_offset, target, boost, loop) ==
    [tx_atten |-> tx_atten, tx_scalar |-> tx_scalar, dc_offset |-> dc_offset,
     target |-> target, boost |-> boost,
     loop_stop_threshold |-> loop.error_threshold,
     op_error_threshold |-> 6 * loop.error_threshold,
     loop_gain_divisor |-> loop.loop_gain_divisor, max_iterations |-> loop.max_iterations]
control_loop ==
    IF cal_version = Supported THEN get_params.power.control_loop_params
    ELSE [error_threshold |-> 5, loop_gain_divisor |-> 400, max_iterations |-> 10]

(* Without calibration: 31 dBm are what attenuation 0 transmits.           *)
default_power_control_params(power) ==
    PowerConfigs(Max({0, Min({30, 31 - Quotient(power, 100)})}), 1152, 0, NoTarget, NoTarget,
                 control_loop)
boost_tx_power_cdbm(power) == Min({power + BoostRatio, MaxPower})
adc_or_unsupported(power, at) ==
    IF cal_version # Supported THEN Target(ChannelEnableBitsNone, 65535)
    ELSE power_to_adc(power, at)
get_power_control_params(power, with_boost, at) ==
    LET boosted == boost_tx_power_cdbm(power)
        tx_atten == choose_coarse_atten_v5(IF with_boost THEN boosted ELSE power, at)
    IN IF cal_version = Erased THEN default_power_control_params(power)
       ELSE PowerConfigs(tx_atten, get_params.power.tx_scalar,
                get_params.power.dc_offset[tx_atten + 1],
                adc_or_unsupported(power, at),
                IF with_boost /\ boosted # power THEN adc_or_unsupported(boosted, at)
                ELSE NoTarget,
                control_loop)

-----------------------------------------------------------------------------
(* The calibration of the part has been read without a failure.            *)
Calibrated == cal_version = Supported /\ params = part
Settings ==
    [freq : Frequencies, temp : Temperatures, temp_comp_enabled : BOOLEAN,
     band : {"lower", "upper"}]
RxSettings == [DOMAIN get_params.rssi.gains -> {1}] \cup [DOMAIN get_params.rssi.gains -> {2}]

(* The attenuation chosen is, of the settings that were calibrated, the    *)
(* one whose power is nearest to what is asked for; it never needs more    *)
(* attenuation for more power ("Search coarse power calibration table for  *)
(* most appropriate value", calibration.c:899).                            *)
AttenuatorIsNearest ==
    Calibrated => \A at \in Settings : \A power \in Powers :
        LET powers == Table(at).coarse_attn_cal
            chosen == choose_coarse_atten_v5(power, at) + 1
            p == CompensatedPower(power, at)
        IN /\ powers[chosen] # Cleared
           /\ \A i \in DOMAIN powers :
                powers[i] # Cleared =>
                    Magnitude(powers[chosen] - p) <= Magnitude(powers[i] - p)

(* Within the powers that were calibrated, more power never takes more     *)
(* attenuation, and a higher target: of the same detector a higher count,  *)
(* or a detector for higher powers; the boost of a power is no lower than  *)
(* the power ("Searching for correct power detector block to use for power *)
(* ramp", calibration.c:1219; "calculate our boost target", :1661).        *)
NotAbove(a, b) == a.detector < b.detector \/ (a.detector = b.detector /\ a.adc <= b.adc)
TargetsFollowPower ==
    \A at \in Settings, with_boost \in BOOLEAN : \A p \in Powers :
        LET less == get_power_control_params(p, with_boost, at)
            more == get_power_control_params(p + PowerStep, with_boost, at)
        IN /\ Calibrated \/ cal_version = Erased => more.tx_atten <= less.tx_atten
           /\ Calibrated =>
                /\ NotAbove(less.target, more.target)
                /\ less.boost # NoTarget /\ p < MaxPower => NotAbove(less.target, less.boost)

(* There too a target is on the curve of its detector, between the counts  *)
(* of the entries around the power; so is a target for reflected power,    *)
(* where a detector has valid counts around it ("Search LUT for nearest    *)
(* element(s)", calibration.c:1239, :1449).                                *)
OnTheCurve(target, power, at) ==
    LET powers == Table(at).coarse_attn_cal
        adcs == Table(at).pdet_adc_lut[target.detector]
        p == PdetPower(power, at, target.detector)
    IN \A i \in FirstValid(powers, 1) + 1 .. Len(adcs) - 1 :
        powers[i] <= p /\ p <= powers[i - 1] => target.adc \in adcs[i] .. adcs[i - 1]
IsMeasurable(power, at) ==
    \E d \in 0 .. 2 : LET pair == ReversePair(Table(at), PdetPower(power, at, d))
                       IN pair.found /\ valid_pdet_adcs(Table(at), Table(at).pdet_adc_lut[d], pair)
TargetIsOnTheCurve ==
    Calibrated => \A at \in Settings : \A power \in Powers :
        /\ OnTheCurve(power_to_adc(power, at), power, at)
        /\ IsMeasurable(power, at) => OnTheCurve(reverse_power_to_adc(power, at), power, at)

(* A strength that is converted to cdBm and back is off by one at most, if *)
(* what the corrections leave is not negative (else it is taken for a huge *)
(* one); and listening before talking hears a signal as strong as reading. *)
RssiRoundTrips ==
    Calibrated => \A s \in RxSettings, temp \in Temperatures :
        \A mode \in ToSet(Luts[rssi_comp].rf_modes) : \A raw \in RawRssis :
            raw >= Offsets(mode, s, temp) =>
                LET cdbm == get_compensated_rssi(raw, mode, s, temp)
                    heard == raw - Offsets(mode, s, temp) + LbtOffsets(s, temp)
                IN /\ Magnitude(get_rssi_log2(cdbm, mode, s, temp) - raw) <= 1
                   /\ get_compensated_lbt_rssi(heard, s, temp) = cdbm

(* At a calibration mode the correction is the value that was measured for *)
(* it, whichever table is in use: the digital correction taken out when    *)
(* the calibration is read is put back in full ("Derive the analog offset  *)
(* as calibration value - digital correction", calibration.c:211).         *)
CalibratedModeIsExact ==
    Calibrated /\ rx_baseband_filter # None => \A k \in FilterKinds :
        \A m \in ToSet(Luts[rssi_comp].modes[k]) :
            LET i == IndexInFlash(part, m.mode_id)
            IN i # None /\ rf_mode_is_drm(m.mode_id) = (k = "drm") =>
                get_mode_rssi_offset(m.mode_id, get_rf_mode_baseband_freq_khz(m.mode_id))
                    = part.rssi.values[i]
=============================================================================
