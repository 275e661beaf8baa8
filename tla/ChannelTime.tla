----------------------------- MODULE ChannelTime -----------------------------
(***************************************************************************)
(* How long the reader transmits on a channel: start_inventory() reads     *)
(* from the Ex10 when it last transmitted (ex10_active_region.c), keeps    *)
(* the time spent on each channel (ex10_off_time_helpers.c), derives the   *)
(* timers of the next ramp from it (ex10_regulatory_etsi_lower.c, and the  *)
(* same code for Japan) and lets cw_on() observe an off time and ramp up   *)
(* (ex10_rf_power.c).                                                      *)
(*                                                                         *)
(* The Ex10 keeps time, ends a ramp on its timers and remembers its last   *)
(* ramp up and down.  Time passes between any two steps of the host.       *)
(* Milliseconds are the unit; the Ex10's clock is modulo ClockModulus, the *)
(* host subtracts and adds modulo Word.  Of the timers, the extended one,  *)
(* which bounds tag accesses only, is left out.                            *)
(*                                                                         *)
(* Some calls of the host fail and return.  Others fail and are ignored:   *)
(* the reads of the timestamp and of CwIsOn go on with any value.          *)
(***************************************************************************)
EXTENDS Integers

CONSTANTS
    Length,             \* len_channel_hop_table
    Nominal,            \* the region's nominal_ms
    Regulatory,         \* the region's regulatory_ms
    Off,                \* the region's off_same_channel_ms
    DefaultOvershoot,   \* default_hw_overshoot_ms
    Lag,                \* most that the Ex10 needs beyond its nominal timer
    ClockModulus,       \* UINT32_MAX / 1000: microseconds, divided by 1000
    Word,               \* 2^32
    Horizon,            \* bound on the time that passes
    MaxFailures         \* bound on the calls that fail, ignored or not

ASSUME TimersAssumption ==
    /\ Length \in Nat \ {0}
    /\ Nominal \in Nat \ {0}
    /\ Regulatory \in Nat
    /\ Off \in Nat \ {0}
    /\ DefaultOvershoot \in Nat
    /\ Nominal + DefaultOvershoot < 65536
    /\ Lag \in Nat
    \* in the tables 3800 + 99 + Lag <= 4000
    /\ Nominal + (Off - 1) + Lag <= Regulatory
    /\ Regulatory < 65536

ASSUME ClockAssumption ==
    /\ ClockModulus \in Nat
    /\ Off < ClockModulus
    /\ Word \in Nat
    /\ ClockModulus <= Word
    /\ Regulatory < Word
    /\ Horizon \in Nat
    /\ MaxFailures \in Nat

Channels == 0 .. Length - 1
DeviceTime == 0 .. ClockModulus - 1
NoChannel == Length     \* channel_index_invalid: a frequency not in the table

VARIABLES
    \* the host
    pc,                    \* where start_inventory() is
    retried,               \* it has ramped up a second time
    channel_last_start,
    channel_last_end,
    channel_total_time,
    active_channel_index,
    hw_overshoot_ms,
    timers,                \* cw_config.timer: nominal, regulatory, off
    failures,
    \* the Ex10
    clock,                 \* timestamp, in milliseconds
    cw_on,                 \* the transmitter is on
    last_ramp_up,          \* time and channel registers
    last_ramp_down,
    dwell_time,            \* the nominal timer of the last ramp
    transmit_timer,        \* its regulatory timer
    op_timer,              \* the timer op: real time of its expiry
    regulatory_done,       \* a round ended with InventorySummaryRegulatory
    \* observations: real time, and the real use of each channel
    now,
    up_since,              \* when the last ramp up was
    off_since,             \* when each channel was last left
    occupied,              \* how long it was held until then, or until the
                           \* last ramp up; short gaps count as held
    tracked,               \* the last ramp has been tracked
    mistracked,            \* some ramp has been tracked twice, or while it
                           \* was still up
    misread,               \* the timers are for a time that was not read
    unsure                 \* the channels that were ramped up with such
                           \* timers, and not left for the off time since

historyVars == <<channel_last_start, channel_last_end, channel_total_time>>
hostVars == <<pc, retried, historyVars, active_channel_index, hw_overshoot_ms,
              timers, failures>>
rampVars == <<cw_on, last_ramp_up, last_ramp_down, dwell_time, transmit_timer,
              regulatory_done>>
timeVars == <<clock, now>>
useVars == <<up_since, off_since, occupied, unsure>>
vars == <<hostVars, rampVars, op_timer, timeVars, useVars, tracked, mistracked,
          misread>>

Least(a, b) == IF a <= b THEN a ELSE b
AtLeastOne(x) == IF x > 0 THEN x ELSE 1

(***************************************************************************)
(* Unsigned arithmetic of the host.                                        *)
(***************************************************************************)
Minus(a, b) == IF a >= b THEN a - b ELSE Word + a - b
Plus(a, b) == IF a + b < Word THEN a + b ELSE a + b - Word

\* The timers of a region, and cw_config.timer outside of its scope.
NoTimers == [nominal |-> Nominal, regulatory |-> Regulatory, off |-> 0]

next_index ==
    IF active_channel_index + 1 = Length THEN 0 ELSE active_channel_index + 1

(***************************************************************************)
(* ex10_off_time_helpers.c                                                 *)
(***************************************************************************)
get_off_time_observed(elapsed) == elapsed >= Off

\* Mutant: a short gap is not counted.
total_without_gap(c, up) ==
    IF get_off_time_observed(Minus(up, channel_last_end[c])) THEN 0
    ELSE channel_total_time[c]

\* The total after set_channel_index_start() and set_channel_index_end(): a
\* gap shorter than the off time counts as time on the channel.
total_at_start(c, up) ==
    LET since_off == Minus(up, channel_last_end[c])
    IN  IF get_off_time_observed(since_off) THEN 0
        ELSE Plus(channel_total_time[c], since_off)

(***************************************************************************)
(* get_regulatory_timers() of the region, then compensate_timer_overshoot()*)
(***************************************************************************)
compensated(nominal) ==
    IF hw_overshoot_ms < nominal THEN nominal - hw_overshoot_ms ELSE 1

\* Mutant: the nominal timer is not reduced by what has been used.
TimersUnreduced(c, time) ==
    LET since_off == Minus(time, channel_last_end[c])
    IN  IF ~get_off_time_observed(since_off) /\ channel_total_time[c] >= Nominal
        THEN [NoTimers EXCEPT !.off = Off - since_off]
        ELSE NoTimers

TimersFor(c, time) ==
    LET since_off == Minus(time, channel_last_end[c])
        total == channel_total_time[c] % 65536
    IN  IF channel_last_start[c] > channel_last_end[c]
             \/ get_off_time_observed(since_off)
        THEN NoTimers
        ELSE IF total >= Nominal
        THEN [NoTimers EXCEPT !.off = Off - since_off]
        ELSE [NoTimers EXCEPT !.nominal = Nominal - total,
                              !.regulatory = AtLeastOne(Regulatory - total)]

Init ==
    /\ pc = "idle"
    /\ retried = FALSE
    /\ channel_last_start = [c \in Channels |-> 0]
    /\ channel_last_end = [c \in Channels |-> 0]
    /\ channel_total_time = [c \in Channels |-> 0]
    /\ active_channel_index = 0
    /\ hw_overshoot_ms = DefaultOvershoot
    /\ timers = NoTimers
    /\ failures = 0
    \* The Ex10 has been silent for the off time since it was powered up.
    /\ clock = Off
    /\ cw_on = FALSE
    /\ last_ramp_up = [ms |-> 0, channel |-> NoChannel]
    /\ last_ramp_down = [ms |-> 0, channel |-> NoChannel]
    /\ dwell_time = 0
    /\ transmit_timer = 0
    /\ op_timer = 0
    /\ regulatory_done = FALSE
    /\ now = Off
    /\ up_since = 0
    /\ off_since = [c \in Channels |-> 0]
    /\ occupied = [c \in Channels |-> 0]
    /\ tracked = FALSE
    /\ mistracked = FALSE
    /\ misread = FALSE
    /\ unsure = {}

(***************************************************************************)
(* Transfers that fail.                                                    *)
(***************************************************************************)
Fails == failures < MaxFailures /\ failures' = failures + 1

\* get_cw_is_on() answers is_on: the result of its read is ignored, and a
\* read that fails leaves any value.
get_cw_is_on(is_on) == IF is_on = cw_on THEN UNCHANGED failures ELSE Fails

\* So does the read of the timestamp.
read_timestamp(time) ==
    \/ time = clock /\ misread' = FALSE /\ UNCHANGED failures
    \/ Fails /\ misread' = TRUE

\* The end of cw_config's scope.
DropTimers == timers' = NoTimers /\ misread' = FALSE

(***************************************************************************)
(* start_inventory()                                                       *)
(***************************************************************************)

\* update_channel_time_tracking()
Track ==
    LET up == last_ramp_up.channel
        down == last_ramp_down.channel
        ramped == up # NoChannel /\ down # NoChannel
        started == [channel_total_time EXCEPT
                       ![up] = total_at_start(up, last_ramp_up.ms)]
        start == [channel_last_start EXCEPT ![up] = last_ramp_up.ms]
        time_on == Minus(last_ramp_down.ms, start[down])
    IN  /\ tracked' = ramped
        /\ mistracked' = (mistracked \/ cw_on \/ (ramped /\ tracked))
        /\ IF ramped
           THEN /\ channel_last_start' = start
                /\ channel_last_end' =
                      [channel_last_end EXCEPT ![down] = last_ramp_down.ms]
                /\ channel_total_time' =
                      [started EXCEPT ![down] = Plus(@, time_on)]
           ELSE UNCHANGED historyVars

\* CW is off, or so it seems: track the last ramp.
StartWithCwOff ==
    /\ pc = "idle"
    /\ get_cw_is_on(FALSE)
    /\ Track
    /\ pc' = "tracked"
    /\ regulatory_done' = FALSE
    /\ UNCHANGED <<retried, active_channel_index, hw_overshoot_ms, timers,
                   cw_on, last_ramp_up, last_ramp_down, dwell_time,
                   transmit_timer, op_timer, timeVars, useVars, misread>>

\* CW is on, or so it seems: go straight to run_inventory().
StartWithCwOn ==
    /\ pc = "idle"
    /\ get_cw_is_on(TRUE)
    /\ pc' = "inventory"
    /\ regulatory_done' = FALSE
    /\ UNCHANGED <<retried, historyVars, active_channel_index, hw_overshoot_ms,
                   timers, cw_on, last_ramp_up, last_ramp_down, dwell_time,
                   transmit_timer, op_timer, timeVars, useVars, tracked,
                   mistracked, misread>>

\* run_inventory() starts the round, or fails; start_inventory() returns.
StartsRound ==
    /\ pc = "inventory"
    /\ pc' = "idle"
    /\ retried' = FALSE
    /\ UNCHANGED <<historyVars, active_channel_index, hw_overshoot_ms, timers,
                   failures, rampVars, op_timer, timeVars, useVars, tracked,
                   mistracked, misread>>

\* The transmitter ramped down meanwhile and SendSelectOp fails with
\* ErrorInvalidTxState: track that ramp and ramp up again, once.
SelectFindsCwOff ==
    /\ pc = "inventory"
    /\ ~cw_on
    /\ ~retried
    /\ Track
    /\ pc' = "tracked"
    /\ retried' = TRUE
    /\ UNCHANGED <<active_channel_index, hw_overshoot_ms, timers, failures,
                   rampVars, op_timer, timeVars, useVars, misread>>

\* build_cw_configs(): the timers of the next channel at the device's time.
BuildCwConfig ==
    /\ pc = "tracked"
    /\ \E time \in DeviceTime :
          /\ read_timestamp(time)
          /\ LET t == TimersFor(next_index, time)
             IN  timers' = [t EXCEPT !.nominal = compensated(@)]
    /\ pc' = "built"
    /\ UNCHANGED <<retried, historyVars, active_channel_index, hw_overshoot_ms,
                   rampVars, op_timer, timeVars, useVars, tracked, mistracked>>

(***************************************************************************)
(* cw_on()                                                                 *)
(***************************************************************************)
\* It asks for CW once more: on, or so it seems, there is nothing to do.
FindsCwOn ==
    /\ pc = "built"
    /\ get_cw_is_on(TRUE)
    /\ DropTimers
    /\ pc' = "inventory"
    /\ UNCHANGED <<retried, historyVars, active_channel_index, hw_overshoot_ms,
                   rampVars, op_timer, timeVars, useVars, tracked, mistracked>>

FindsCwOff ==
    /\ pc = "built"
    /\ get_cw_is_on(FALSE)
    /\ pc' = "configured"
    /\ UNCHANGED <<retried, historyVars, active_channel_index, hw_overshoot_ms,
                   timers, rampVars, op_timer, timeVars, useVars, tracked,
                   mistracked, misread>>

\* start_timer_op() with the off time to observe.
StartOffTimer ==
    /\ pc = "configured"
    /\ timers.off > 0
    /\ op_timer' = now + timers.off
    /\ pc' = "off_time"
    /\ UNCHANGED <<retried, historyVars, active_channel_index, hw_overshoot_ms,
                   timers, failures, rampVars, timeVars, useVars, tracked,
                   mistracked, misread>>

\* Mutant: wait_timer_op() is not waited for.
OffTimeIsStarted ==
    \/ pc = "configured" /\ timers.off = 0
    \/ pc = "off_time"

\* No off time to observe, or wait_timer_op() has completed.
OffTimeIsOver ==
    \/ pc = "configured" /\ timers.off = 0
    \/ pc = "off_time" /\ now >= op_timer

\* The pre-ramp callback, such as listen before talk, agrees.
PreRampCallback ==
    /\ OffTimeIsOver
    /\ op_timer' = 0
    /\ pc' = "ramp"
    /\ UNCHANGED <<retried, historyVars, active_channel_index, hw_overshoot_ms,
                   timers, failures, rampVars, timeVars, useVars, tracked,
                   mistracked, misread>>

\* build_cw_configs(), the timer op or the pre-ramp callback fails:
\* start_inventory() returns before the ramp up.  The second time it ignores
\* the result of build_cw_configs(), which by then has computed the timers:
\* what comes before them fails only in the region that is not defined.
FailsBeforeRamp ==
    /\ \/ pc = "tracked" /\ ~retried
       \/ pc \in {"configured", "off_time"}
    /\ Fails
    /\ DropTimers
    /\ op_timer' = 0
    /\ retried' = FALSE
    /\ pc' = "idle"
    /\ UNCHANGED <<historyVars, active_channel_index, hw_overshoot_ms,
                   rampVars, timeVars, useVars, tracked, mistracked>>

\* The aggregate op sets the timers and ramps up on channel c.  An Ex10 that
\* transmits refuses to.
RampUp(c) ==
    LET since_off == now - off_since[c]
    IN  /\ ~cw_on
        /\ cw_on' = TRUE
        /\ last_ramp_up' = [ms |-> clock, channel |-> c]
        /\ dwell_time' = timers.nominal
        /\ transmit_timer' = timers.regulatory
        /\ up_since' = now
        /\ occupied' = [occupied EXCEPT
              ![c] = IF since_off >= Off THEN 0 ELSE @ + since_off]
        /\ unsure' = IF since_off >= Off THEN unsure \ {c}
                     ELSE IF misread THEN unsure \cup {c} ELSE unsure
        /\ tracked' = FALSE
        /\ UNCHANGED <<last_ramp_down, off_since>>

\* run_aggregate_op() succeeds; the post-ramp callback may then fail.
AggregateOp ==
    /\ pc = "ramp"
    /\ RampUp(next_index)
    /\ active_channel_index' = next_index
    /\ DropTimers
    /\ \/ pc' = "inventory" /\ UNCHANGED <<retried, failures>>
       \/ pc' = "idle" /\ retried' = FALSE /\ Fails
    /\ UNCHANGED <<historyVars, hw_overshoot_ms, regulatory_done, op_timer,
                   timeVars, mistracked>>

\* run_aggregate_op() fails, before or after its ramp up: cw_on() returns
\* without update_active_channel().
AggregateOpFails ==
    /\ pc = "ramp"
    /\ IF cw_on THEN UNCHANGED failures ELSE Fails
    /\ DropTimers
    /\ retried' = FALSE
    /\ pc' = "idle"
    /\ \/ RampUp(next_index)
       \/ UNCHANGED <<cw_on, last_ramp_up, last_ramp_down, dwell_time,
                      transmit_timer, useVars, tracked>>
    /\ UNCHANGED <<historyVars, active_channel_index, hw_overshoot_ms,
                   regulatory_done, op_timer, timeVars, mistracked>>

(***************************************************************************)
(* update_timer_overshoot(), called by the use case's interrupt handler    *)
(* when a round ended because of the nominal timer.                        *)
(***************************************************************************)
TotalOn ==
    LET up == last_ramp_up.ms
        down == last_ramp_down.ms
    IN  (IF down < up THEN (ClockModulus - up) + down ELSE down - up) % 65536

\* Mutant: the compensation already in the nominal timer is forgotten.
UpdateOvershootTwice ==
    /\ pc = "idle"
    /\ regulatory_done
    /\ regulatory_done' = FALSE
    /\ hw_overshoot_ms' = hw_overshoot_ms + (TotalOn - dwell_time)
    /\ UNCHANGED <<pc, retried, historyVars, active_channel_index, timers,
                   failures, cw_on, last_ramp_up, last_ramp_down, dwell_time,
                   transmit_timer, op_timer, timeVars, useVars, tracked,
                   mistracked, misread>>

UpdateOvershoot ==
    /\ pc = "idle"
    /\ regulatory_done
    /\ regulatory_done' = FALSE
    /\ LET expected == dwell_time + hw_overshoot_ms
           over == expected - TotalOn
       IN  hw_overshoot_ms' =
              IF TotalOn >= expected
              THEN Least(hw_overshoot_ms + (TotalOn - expected), 65535)
              ELSE IF hw_overshoot_ms > over THEN hw_overshoot_ms - over
              ELSE 0
    /\ UNCHANGED <<pc, retried, historyVars, active_channel_index, timers,
                   failures, cw_on, last_ramp_up, last_ramp_down, dwell_time,
                   transmit_timer, op_timer, timeVars, useVars, tracked,
                   mistracked, misread>>

(***************************************************************************)
(* The Ex10                                                                *)
(***************************************************************************)
\* The transmitter ramps down: by its timers, or because the host stops it.
RampDown ==
    LET c == last_ramp_up.channel
        time_on == now - up_since
    IN  /\ cw_on
        /\ cw_on' = FALSE
        /\ last_ramp_down' = [ms |-> clock, channel |-> c]
        /\ occupied' = [occupied EXCEPT ![c] = @ + time_on]
        /\ off_since' = [off_since EXCEPT ![c] = now]
        /\ \E byTimer \in BOOLEAN :
              /\ byTimer => time_on >= dwell_time /\ pc = "idle"
              /\ regulatory_done' = byTimer
        /\ UNCHANGED <<hostVars, last_ramp_up, dwell_time, transmit_timer,
                       op_timer, timeVars, up_since, unsure, tracked,
                       mistracked, misread>>

\* A millisecond passes, unless the transmitter has to ramp down before.
Tick ==
    /\ now < Horizon
    /\ cw_on => now - up_since < Least(dwell_time + Lag, transmit_timer)
    /\ now' = now + 1
    /\ clock' = IF clock + 1 = ClockModulus THEN 0 ELSE clock + 1
    /\ UNCHANGED <<hostVars, rampVars, op_timer, useVars, tracked, mistracked,
                   misread>>

Next ==
    \/ StartWithCwOff \/ StartWithCwOn \/ StartsRound \/ SelectFindsCwOff
    \/ BuildCwConfig \/ FindsCwOn \/ FindsCwOff
    \/ StartOffTimer \/ PreRampCallback
    \/ FailsBeforeRamp \/ AggregateOp \/ AggregateOpFails \/ UpdateOvershoot
    \/ RampDown \/ Tick

Spec == Init /\ [][Next]_vars

-----------------------------------------------------------------------------
Uint16 == {n \in Nat : n <= 65535}
Ramp == [ms : DeviceTime, channel : Channels \cup {NoChannel}]

(* Every variable has a value that its C type, or the observation, allows. *)
TypeOK ==
    /\ pc \in {"idle", "tracked", "built", "configured", "off_time",
               "ramp", "inventory"}
    /\ retried \in BOOLEAN
    /\ channel_last_start \in [Channels -> DeviceTime]
    /\ channel_last_end \in [Channels -> DeviceTime]
    /\ channel_total_time \in [Channels -> 0 .. Word - 1]
    /\ active_channel_index \in Channels
    /\ hw_overshoot_ms \in Uint16
    /\ timers \in [nominal : 1 .. Nominal, regulatory : 1 .. Regulatory,
                   off : 0 .. Off]
    /\ failures \in Nat
    /\ clock \in DeviceTime
    /\ cw_on \in BOOLEAN
    /\ last_ramp_up \in Ramp
    /\ last_ramp_down \in Ramp
    /\ dwell_time \in 0 .. Nominal
    /\ transmit_timer \in 0 .. Regulatory
    /\ op_timer \in Nat
    /\ regulatory_done \in BOOLEAN
    /\ now \in Nat
    /\ up_since \in Nat
    /\ off_since \in [Channels -> Nat]
    /\ occupied \in [Channels -> Nat]
    /\ tracked \in BOOLEAN
    /\ mistracked \in BOOLEAN
    /\ misread \in BOOLEAN
    /\ unsure \subseteq Channels

\* How long channel c has been held, until now or until it was left.
Held(c) ==
    IF cw_on /\ c = last_ramp_up.channel THEN occupied[c] + (now - up_since)
    ELSE occupied[c]

(* The regulatory limit of transmit time (ex10_regulatory.h:52): a channel *)
(* is never held for longer, counting gaps shorter than the off time, over *)
(* any number of ramps and whatever of them is cut short.  This is what    *)
(* the reduced timers, the off time and the overshoot compensation are     *)
(* for.  It holds as long as no ramp has been tracked twice, or while it   *)
(* was up; and where timers were computed for a time that could not be     *)
(* read, it holds again from the next off time of that channel.            *)
LimitIsKept ==
    ~mistracked => \A c \in Channels \ unsure : Held(c) <= Regulatory

(* When the host computes timers from its history, the history is what     *)
(* happened on every channel, also after races with the ramp down, failed  *)
(* ramps and ramps with the timers of a time that was not read: a total    *)
(* too small would allow too much time.                                    *)
HistoryIsTrue ==
    tracked /\ ~mistracked =>
        /\ channel_total_time = occupied
        /\ channel_last_end = off_since

(* A channel that was held for its nominal time is left alone for the off  *)
(* time before it is used again (ex10_regulatory.h:56), also when it was   *)
(* held for too long: only a ramp whose own timers were computed for a     *)
(* time that could not be read may be too early.  The host compares 16     *)
(* bits of the time held.                                                  *)
OffTimeIsObserved ==
    [][ \A c \in Channels :
            /\ ~cw_on /\ cw_on' /\ last_ramp_up'.channel = c
            /\ ~mistracked /\ ~misread
            /\ Nominal <= occupied[c] /\ occupied[c] <= 65535
            => now - off_since[c] >= Off ]_vars

(* However many ramps update_timer_overshoot() learns from, it never       *)
(* compensates for more than the device's lag, apart from its default.     *)
OvershootIsBounded ==
    hw_overshoot_ms = DefaultOvershoot \/ hw_overshoot_ms <= Lag

=============================================================================
