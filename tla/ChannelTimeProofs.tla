-------------------------- MODULE ChannelTimeProofs --------------------------
(***************************************************************************)
(* Proofs about ChannelTime, for any number of channels, any timers that   *)
(* leave room for one off time and the device's lag, any number of failed  *)
(* calls and reads, and all the time until the device's clock wraps.       *)
(***************************************************************************)
EXTENDS ChannelTime, TLAPS

(* The device's clock does not wrap within the time that is looked at:     *)
(* a ramp that is up when it does ends before it starts, as the host sees  *)
(* it.  A hypothesis of the theorems.                                      *)
NoRollover == Horizon < ClockModulus

last == last_ramp_up.channel

\* The clock has not wrapped.
ClockInv == clock = now /\ now < ClockModulus

\* The registers of the Ex10 against what really happened.
RampInv ==
    /\ \A c \in Channels : off_since[c] <= now
    /\ last_ramp_up.ms = up_since
    /\ up_since <= now
    /\ cw_on => last # NoChannel /\ off_since[last] <= up_since
    /\ ~cw_on => last_ramp_down.channel = last
    /\ ~cw_on /\ last # NoChannel =>
          /\ last_ramp_down.ms = off_since[last]
          /\ up_since <= off_since[last]
    /\ tracked /\ ~mistracked => ~cw_on /\ last # NoChannel

Preparing == {"tracked", "built", "configured", "off_time", "ramp"}

\* While the host prepares a ramp, the transmitter is off and tracked,
\* unless a start that misread CwIsOn has tracked a ramp that was up.
PreparingInv ==
    pc \in Preparing /\ ~mistracked => ~cw_on /\ (tracked \/ last = NoChannel)

\* What the host's history says of a channel is what happened.
Recorded(c) ==
    /\ channel_total_time[c] = occupied[c]
    /\ channel_last_end[c] = off_since[c]

\* How long c will be held by a ramp up at time t.
HeldAt(c, t) ==
    IF t - channel_last_end[c] >= Off THEN 0
    ELSE channel_total_time[c] + (t - channel_last_end[c])

\* A ramp that has not been tracked is missing from the history of its
\* channel, and nothing else is.
HistoryInv ==
    /\ \A c \in Channels : channel_last_start[c] <= channel_last_end[c]
    /\ \A c \in Channels : c # last \/ tracked => Recorded(c)
    /\ ~tracked /\ last # NoChannel =>
          /\ channel_last_end[last] <= up_since
          /\ cw_on => /\ channel_last_end[last] = off_since[last]
                      /\ occupied[last] = HeldAt(last, up_since)
          /\ ~cw_on => occupied[last] = HeldAt(last, up_since)
                                        + (off_since[last] - up_since)

\* The nominal timer fits what is left of the channel's time.  A total of
\* more than 16 bits, which needs many misread times, looks small.
Fits(c) ==
    \/ now - off_since[c] >= Off
    \/ occupied[c] + timers.nominal <= Nominal
    \/ occupied[c] >= 65536

\* Timers that are for the time that was read fit.
TimersInv ==
    ~misread =>
        /\ pc \in {"built", "configured"} /\ timers.off = 0 => Fits(next_index)
        /\ pc \in {"built", "configured"} /\ timers.off > 0 =>
              off_since[next_index] + Off <= now + timers.off
        /\ pc = "off_time" => off_since[next_index] + Off <= op_timer
        /\ pc = "ramp" => Fits(next_index)

\* The use of every channel, with what a running ramp may still add.  No
\* channel was held for longer than there was time.
UseInv ==
    /\ \A c \in Channels :
          occupied[c] <= IF cw_on /\ c = last THEN up_since ELSE off_since[c]
    /\ \A c \in Channels \ unsure :
          ~cw_on \/ c # last => occupied[c] <= Regulatory
    /\ cw_on /\ last \notin unsure =>
          occupied[last] + dwell_time <= Nominal + Off - 1

DwellInv ==
    /\ cw_on => now - up_since <= dwell_time + Lag
    /\ regulatory_done =>
          /\ pc = "idle" /\ ~cw_on /\ last # NoChannel
          /\ dwell_time <= off_since[last] - up_since
          /\ off_since[last] - up_since <= dwell_time + Lag

Inv ==
    /\ TypeOK
    /\ ClockInv
    /\ RampInv
    /\ PreparingInv
    /\ DwellInv
    /\ OvershootIsBounded
    /\ ~mistracked => HistoryInv /\ TimersInv /\ UseInv

-----------------------------------------------------------------------------
(* The next channel of the table is a channel of the table.                *)
LEMMA NextIndexIsChannel == TypeOK => next_index \in Channels
BY TimersAssumption DEF TypeOK, next_index, Channels

(* Unsigned arithmetic stays within a word.                                *)
LEMMA MinusType ==
    ASSUME NEW a \in DeviceTime, NEW b \in DeviceTime
    PROVE  /\ Minus(a, b) \in 0 .. Word - 1
           /\ a >= b => Minus(a, b) = a - b
BY ClockAssumption DEF Minus, DeviceTime

LEMMA PlusType ==
    ASSUME NEW a \in 0 .. Word - 1, NEW b \in 0 .. Word - 1
    PROVE  /\ Plus(a, b) \in 0 .. Word - 1
           /\ a + b < Word => Plus(a, b) = a + b
BY ClockAssumption DEF Plus

(* A 16-bit total is the total as long as it fits.                         *)
LEMMA Short ==
    ASSUME NEW n \in Nat
    PROVE  /\ n % 65536 \in Uint16
           /\ n < 65536 => n % 65536 = n
BY DEF Uint16

(* The timers of a channel are timers: none of them is turned off.         *)
LEMMA TimersForType ==
    ASSUME TypeOK, NEW c \in Channels, NEW time \in DeviceTime
    PROVE  TimersFor(c, time) \in [nominal : 1 .. Nominal,
                                    regulatory : 1 .. Regulatory,
                                    off : 0 .. Off]
<1> DEFINE since_off == Minus(time, channel_last_end[c])
           total == channel_total_time[c] % 65536
<1>1. since_off \in Nat
  <2>1. time \in DeviceTime /\ channel_last_end[c] \in DeviceTime
    BY DEF TypeOK
  <2>2. since_off \in 0 .. Word - 1
    BY <2>1, MinusType
  <2> QED BY <2>2, ClockAssumption
<1>2. total \in Nat
  <2>1. channel_total_time[c] \in 0 .. Word - 1
    BY DEF TypeOK
  <2>2. channel_total_time[c] \in Nat
    BY <2>1, ClockAssumption
  <2> QED BY <2>2, Short DEF Uint16
<1>3. Regulatory >= 1 /\ Regulatory \in Nat /\ Nominal \in Nat /\ Nominal >= 1
        /\ Off \in Nat /\ Off >= 1
  BY TimersAssumption
<1> HIDE DEF since_off, total
<1>4. NoTimers \in [nominal : 1 .. Nominal, regulatory : 1 .. Regulatory,
                    off : 0 .. Off]
  BY <1>3 DEF NoTimers
<1>5. CASE \/ channel_last_start[c] > channel_last_end[c]
           \/ get_off_time_observed(since_off)
  BY <1>4, <1>5 DEF TimersFor, since_off
<1>6. CASE /\ ~(channel_last_start[c] > channel_last_end[c])
           /\ ~get_off_time_observed(since_off)
           /\ total >= Nominal
  <2>1. TimersFor(c, time) = [NoTimers EXCEPT !.off = Off - since_off]
    BY <1>6 DEF TimersFor, since_off, total
  <2>2. Off - since_off \in 0 .. Off
    BY <1>1, <1>3, <1>6 DEF get_off_time_observed
  <2> QED BY <1>3, <2>1, <2>2 DEF NoTimers
<1>7. CASE /\ ~(channel_last_start[c] > channel_last_end[c])
           /\ ~get_off_time_observed(since_off)
           /\ ~(total >= Nominal)
  <2>1. TimersFor(c, time) =
          [NoTimers EXCEPT !.nominal = Nominal - total,
                           !.regulatory = AtLeastOne(Regulatory - total)]
    BY <1>7 DEF TimersFor, since_off, total
  <2>2. Nominal - total \in 1 .. Nominal
    BY <1>2, <1>3, <1>7
  <2>3. AtLeastOne(Regulatory - total) \in 1 .. Regulatory
    BY <1>2, <1>3 DEF AtLeastOne
  <2>4. TimersFor(c, time) =
          [nominal |-> Nominal - total, off |-> 0,
           regulatory |-> AtLeastOne(Regulatory - total)]
    BY <2>1 DEF NoTimers
  <2>5. 0 \in 0 .. Off
    BY <1>3
  <2> QED BY <2>2, <2>3, <2>4, <2>5
<1> QED BY <1>5, <1>6, <1>7

(* Tracking keeps the history well typed, whatever the registers say.      *)
LEMMA TrackType ==
    ASSUME TypeOK, Track
    PROVE  /\ channel_last_start' \in [Channels -> DeviceTime]
           /\ channel_last_end' \in [Channels -> DeviceTime]
           /\ channel_total_time' \in [Channels -> 0 .. Word - 1]
           /\ tracked' \in BOOLEAN
           /\ mistracked' \in BOOLEAN
<1> DEFINE up == last_ramp_up.channel
           down == last_ramp_down.channel
           ramped == up # NoChannel /\ down # NoChannel
<1>1. /\ last_ramp_up.ms \in DeviceTime /\ up \in Channels \cup {NoChannel}
      /\ last_ramp_down.ms \in DeviceTime /\ down \in Channels \cup {NoChannel}
  BY DEF TypeOK, Ramp
<1>2. tracked' \in BOOLEAN /\ mistracked' \in BOOLEAN
  BY DEF Track, TypeOK
<1>3. CASE ~ramped
  BY <1>2, <1>3 DEF Track, TypeOK, historyVars
<1>4. CASE ramped
  <2> DEFINE started == [channel_total_time EXCEPT
                            ![up] = total_at_start(up, last_ramp_up.ms)]
             start == [channel_last_start EXCEPT ![up] = last_ramp_up.ms]
             time_on == Minus(last_ramp_down.ms, start[down])
  <2>1. up \in Channels /\ down \in Channels
    BY <1>1, <1>4
  <2>2. start \in [Channels -> DeviceTime]
    BY <1>1 DEF TypeOK
  <2>3. time_on \in 0 .. Word - 1
    <3>1. start[down] \in DeviceTime
      BY <2>1, <2>2
    <3> QED BY <1>1, <3>1, MinusType
  <2>4. total_at_start(up, last_ramp_up.ms) \in 0 .. Word - 1
    <3>1. channel_last_end[up] \in DeviceTime
          /\ channel_total_time[up] \in 0 .. Word - 1
      BY <2>1 DEF TypeOK
    <3>2. Minus(last_ramp_up.ms, channel_last_end[up]) \in 0 .. Word - 1
      BY <1>1, <3>1, MinusType
    <3>3. Plus(channel_total_time[up],
               Minus(last_ramp_up.ms, channel_last_end[up])) \in 0 .. Word - 1
      BY <3>1, <3>2, PlusType
    <3>4. 0 \in 0 .. Word - 1
      BY ClockAssumption, TimersAssumption
    <3> QED BY <3>3, <3>4 DEF total_at_start
  <2>5. started \in [Channels -> 0 .. Word - 1]
    BY <2>4 DEF TypeOK
  <2>6. Plus(started[down], time_on) \in 0 .. Word - 1
    <3>1. started[down] \in 0 .. Word - 1
      BY <2>1, <2>5
    <3> QED BY <2>3, <3>1, PlusType
  <2>7. /\ channel_last_start' = start
        /\ channel_last_end' =
              [channel_last_end EXCEPT ![down] = last_ramp_down.ms]
        /\ channel_total_time' =
              [started EXCEPT ![down] = Plus(started[down], time_on)]
    BY <1>4 DEF Track
  <2>8. channel_last_end' \in [Channels -> DeviceTime]
    BY <1>1, <2>7 DEF TypeOK
  <2>9. channel_total_time' \in [Channels -> 0 .. Word - 1]
    <3> HIDE DEF started, time_on
    <3> QED BY <2>5, <2>6, <2>7
  <2> QED BY <1>2, <2>2, <2>7, <2>8, <2>9
<1> QED BY <1>3, <1>4

(* Every step keeps the types.                                             *)
LEMMA TypeStep == TypeOK /\ RampInv /\ [Next]_vars => TypeOK'
<1> SUFFICES ASSUME TypeOK, RampInv, [Next]_vars PROVE TypeOK'
  OBVIOUS
<1> USE DEF hostVars, historyVars, rampVars, timeVars, useVars
\* Whatever a call makes of the failures.
<1> DEFINE FailuresType == failures' \in Nat
<1>0. failures' \in {failures, failures + 1} => FailuresType
  BY DEF TypeOK
<1>21. Fails => FailuresType
  BY <1>0 DEF Fails
<1>22. \A on \in BOOLEAN : get_cw_is_on(on) => FailuresType
  BY <1>0, <1>21 DEF get_cw_is_on
<1>1. CASE StartWithCwOff
  <2>1. FailuresType /\ Track
    BY <1>1, <1>22 DEF StartWithCwOff
  <2> QED BY <1>1, <2>1, TrackType DEF StartWithCwOff, TypeOK
<1>2. CASE StartWithCwOn
  <2>1. FailuresType
    BY <1>2, <1>22 DEF StartWithCwOn
  <2> QED BY <1>2, <2>1 DEF StartWithCwOn, TypeOK
<1>3. CASE StartsRound
  BY <1>3 DEF StartsRound, TypeOK
<1>4. CASE SelectFindsCwOff
  BY <1>4, TrackType DEF SelectFindsCwOff, TypeOK
<1>5. CASE BuildCwConfig
  <2>1. PICK time \in DeviceTime :
          /\ read_timestamp(time)
          /\ timers' = [TimersFor(next_index, time) EXCEPT
                           !.nominal = compensated(@)]
    BY <1>5 DEF BuildCwConfig
  <2> DEFINE t == TimersFor(next_index, time)
  <2>2. t \in [nominal : 1 .. Nominal, regulatory : 1 .. Regulatory,
               off : 0 .. Off]
    BY NextIndexIsChannel, TimersForType
  <2>3. timers' = [t EXCEPT !.nominal = compensated(t.nominal)]
    BY <2>1
  <2> HIDE DEF t
  <2>4. \A n \in 1 .. Nominal : compensated(n) \in 1 .. Nominal
    BY TimersAssumption DEF compensated, TypeOK, Uint16
  <2>5. timers' \in [nominal : 1 .. Nominal, regulatory : 1 .. Regulatory,
                     off : 0 .. Off]
    BY <2>2, <2>3, <2>4
  <2>6. FailuresType /\ misread' \in BOOLEAN
    BY <1>0, <1>21, <2>1 DEF read_timestamp
  <2> QED BY <1>5, <2>5, <2>6 DEF BuildCwConfig, TypeOK
<1>6. CASE StartOffTimer
  <2>1. now + timers.off \in Nat
    BY TimersAssumption DEF TypeOK
  <2> QED BY <1>6, <2>1 DEF StartOffTimer, TypeOK
<1>7. NoTimers \in [nominal : 1 .. Nominal, regulatory : 1 .. Regulatory,
                    off : 0 .. Off]
  BY TimersAssumption DEF NoTimers
<1>8. CASE PreRampCallback
  BY <1>8 DEF PreRampCallback, TypeOK
<1>23. CASE FindsCwOn
  <2>1. FailuresType /\ DropTimers
    BY <1>22, <1>23 DEF FindsCwOn
  <2> QED BY <1>7, <1>23, <2>1 DEF FindsCwOn, DropTimers, TypeOK
<1>24. CASE FindsCwOff
  <2>1. FailuresType
    BY <1>22, <1>24 DEF FindsCwOff
  <2> QED BY <1>24, <2>1 DEF FindsCwOff, TypeOK
\* A step that may fail, and then returns from start_inventory().
<1>9. ASSUME DropTimers, failures' \in {failures, failures + 1},
             retried' \in {retried, FALSE}
      PROVE  /\ timers' \in [nominal : 1 .. Nominal,
                              regulatory : 1 .. Regulatory, off : 0 .. Off]
             /\ failures' \in Nat
             /\ retried' \in BOOLEAN
             /\ misread' \in BOOLEAN
  <2>1. failures' \in Nat
    BY <1>9 DEF TypeOK
  <2>2. retried' \in BOOLEAN
    BY <1>9 DEF TypeOK
  <2>3. timers' = NoTimers /\ misread' = FALSE
    BY <1>9 DEF DropTimers
  <2> QED BY <1>7, <2>1, <2>2, <2>3
<1>10. CASE FailsBeforeRamp
  <2>1. /\ DropTimers /\ failures' = failures + 1 /\ retried' = FALSE
        /\ pc' = "idle" /\ op_timer' = 0
        /\ UNCHANGED <<historyVars, active_channel_index, hw_overshoot_ms,
                       rampVars, timeVars, useVars, tracked, mistracked>>
    BY <1>10 DEF FailsBeforeRamp, Fails
  <2> QED BY <1>9, <2>1 DEF TypeOK
<1>11. ASSUME RampUp(next_index)
      PROVE  /\ cw_on' \in BOOLEAN
             /\ last_ramp_up' \in Ramp
             /\ last_ramp_down' \in Ramp
             /\ dwell_time' \in 0 .. Nominal
             /\ transmit_timer' \in 0 .. Regulatory
             /\ up_since' \in Nat
             /\ off_since' \in [Channels -> Nat]
             /\ occupied' \in [Channels -> Nat]
             /\ tracked' \in BOOLEAN
             /\ unsure' \subseteq Channels
  <2>1. next_index \in Channels
    BY NextIndexIsChannel
  <2>2. timers.nominal \in 0 .. Nominal /\ timers.regulatory \in 0 .. Regulatory
    BY TimersAssumption DEF TypeOK
  <2>3. off_since[next_index] \in Nat /\ occupied[next_index] \in Nat
    BY <2>1 DEF TypeOK
  <2>4. occupied' \in [Channels -> Nat]
    <3> DEFINE held == IF now - off_since[next_index] >= Off THEN 0
                       ELSE occupied[next_index]
                            + (now - off_since[next_index])
    <3>1. now \in Nat /\ Off \in Nat
      BY TimersAssumption DEF TypeOK
    <3>2. occupied' = [occupied EXCEPT ![next_index] = held]
      BY <1>11, <2>1 DEF RampUp, TypeOK
    <3>3. off_since[next_index] <= now
      BY <2>1 DEF RampInv
    <3>4. held \in Nat
      BY <2>3, <3>1, <3>3
    <3> HIDE DEF held
    <3> QED BY <3>2, <3>4 DEF TypeOK
  <2>5. last_ramp_up' \in Ramp
    BY <1>11, <2>1 DEF RampUp, TypeOK, Ramp
  <2>6. unsure' \subseteq Channels
    BY <1>11, <2>1 DEF RampUp, TypeOK
  <2>7. /\ cw_on' \in BOOLEAN /\ tracked' \in BOOLEAN
        /\ last_ramp_down' \in Ramp /\ off_since' \in [Channels -> Nat]
        /\ up_since' \in Nat
        /\ dwell_time' \in 0 .. Nominal /\ transmit_timer' \in 0 .. Regulatory
    BY <1>11, <2>2 DEF RampUp, TypeOK
  <2> QED BY <2>4, <2>5, <2>6, <2>7
<1>12. ASSUME RampUp(next_index), pc' \in {"idle", "inventory"},
              active_channel_index' \in {next_index, active_channel_index},
              DropTimers,
              failures' \in {failures, failures + 1},
              retried' \in {retried, FALSE},
              UNCHANGED <<historyVars, hw_overshoot_ms, regulatory_done,
                          op_timer, timeVars, mistracked>>
       PROVE  TypeOK'
  <2>1. active_channel_index' \in Channels
    BY <1>12, NextIndexIsChannel DEF TypeOK
  <2>2. /\ timers' \in [nominal : 1 .. Nominal,
                         regulatory : 1 .. Regulatory, off : 0 .. Off]
        /\ failures' \in Nat
        /\ retried' \in BOOLEAN
        /\ misread' \in BOOLEAN
    BY <1>9, <1>12
  <2> QED BY <1>11, <1>12, <2>1, <2>2 DEF TypeOK
<1>13. CASE AggregateOp
  BY <1>13, <1>12 DEF AggregateOp, Fails
<1>14. CASE AggregateOpFails
  <2>1. failures' \in {failures, failures + 1}
    BY <1>14 DEF AggregateOpFails, Fails
  <2>2. CASE RampUp(next_index)
    BY <1>14, <1>12, <2>1, <2>2 DEF AggregateOpFails
  <2>3. CASE UNCHANGED <<cw_on, last_ramp_up, last_ramp_down, dwell_time,
                         transmit_timer, useVars, tracked>>
    <3>1. /\ DropTimers /\ retried' = FALSE /\ pc' = "idle"
          /\ UNCHANGED <<historyVars, active_channel_index, hw_overshoot_ms,
                         regulatory_done, op_timer, timeVars, mistracked>>
      BY <1>14 DEF AggregateOpFails
    <3> QED BY <1>9, <2>1, <2>3, <3>1 DEF TypeOK
  <2> QED BY <1>14, <2>2, <2>3 DEF AggregateOpFails
<1>15. CASE UpdateOvershoot
  <2>1. TotalOn \in Nat
    <3>1. /\ last_ramp_up.ms \in DeviceTime
          /\ last_ramp_down.ms \in DeviceTime
      BY DEF TypeOK, Ramp
    <3> DEFINE on == IF last_ramp_down.ms < last_ramp_up.ms
                     THEN (ClockModulus - last_ramp_up.ms) + last_ramp_down.ms
                     ELSE last_ramp_down.ms - last_ramp_up.ms
    <3>2. on \in Nat
      BY <3>1, ClockAssumption DEF DeviceTime
    <3> HIDE DEF on
    <3>3. on % 65536 \in Nat
      BY <3>2
    <3> QED BY <3>3 DEF TotalOn, on
  <2>2. /\ hw_overshoot_ms \in Nat /\ hw_overshoot_ms <= 65535
        /\ dwell_time \in Nat
    BY TimersAssumption DEF TypeOK, Uint16
  <2>3. hw_overshoot_ms' \in Uint16
    BY <1>15, <2>1, <2>2 DEF UpdateOvershoot, Least, Uint16
  <2>4. pc' = pc /\ regulatory_done' = FALSE /\ timers' = timers
    BY <1>15 DEF UpdateOvershoot
  <2>5. UNCHANGED <<retried, historyVars, active_channel_index, failures,
                    cw_on, last_ramp_up, last_ramp_down, dwell_time,
                    transmit_timer, op_timer, timeVars, useVars, tracked,
                    mistracked, misread>>
    BY <1>15 DEF UpdateOvershoot
  <2> QED BY <2>3, <2>4, <2>5 DEF TypeOK
<1>16. CASE RampDown
  <2> DEFINE c == last_ramp_up.channel
  <2>1. cw_on /\ c \in Channels
    BY <1>16 DEF RampDown, RampInv, TypeOK, Ramp, last
  <2>2. occupied[c] + (now - up_since) \in Nat
    BY <2>1 DEF RampInv, TypeOK
  <2>3. occupied' \in [Channels -> Nat] /\ off_since' \in [Channels -> Nat]
    BY <1>16, <2>1, <2>2 DEF RampDown, TypeOK
  <2>4. last_ramp_down' \in Ramp /\ regulatory_done' \in BOOLEAN
    BY <1>16, <2>1 DEF RampDown, TypeOK, Ramp
  <2> QED BY <1>16, <2>3, <2>4 DEF RampDown, TypeOK
<1>17. CASE Tick
  <2>1. now' \in Nat /\ clock' \in DeviceTime
    BY <1>17, ClockAssumption DEF Tick, TypeOK, DeviceTime
  <2>2. UNCHANGED <<hostVars, rampVars, op_timer, useVars, tracked, mistracked,
                    misread>>
    BY <1>17 DEF Tick
  <2> QED BY <2>1, <2>2 DEF TypeOK
<1>18. CASE UNCHANGED vars
  BY <1>18 DEF vars, TypeOK
<1> QED
  BY <1>1, <1>2, <1>3, <1>4, <1>5, <1>6, <1>8, <1>13, <1>14, <1>15, <1>16,
     <1>17, <1>18, <1>10, <1>23, <1>24 DEF Next

-----------------------------------------------------------------------------
(* A ramp up, from any place of the host, on a channel that is off.        *)
LEMMA RampUpDevice ==
    ASSUME TypeOK, ClockInv, RampInv, NEW c \in Channels, RampUp(c),
           UNCHANGED timeVars
    PROVE  RampInv' /\ cw_on' /\ now' - up_since' <= dwell_time' + Lag
<1>1. /\ cw_on' = TRUE /\ tracked' = FALSE
      /\ last_ramp_up' = [ms |-> clock, channel |-> c]
      /\ dwell_time' = timers.nominal /\ up_since' = now
      /\ UNCHANGED <<last_ramp_down, off_since, now, clock>>
  BY DEF RampUp, timeVars
<1>2. last' = c /\ last_ramp_up'.ms = up_since' /\ c # NoChannel
  BY <1>1 DEF last, ClockInv, Channels, NoChannel
<1>3. off_since[c] <= now
  BY DEF RampInv
<1>4. RampInv'
  BY <1>1, <1>2, <1>3 DEF RampInv, TypeOK
<1>5. timers.nominal \in Nat /\ now \in Nat /\ Lag \in Nat
  BY TimersAssumption DEF TypeOK
<1> QED BY <1>1, <1>4, <1>5

(* What holds of the Ex10, and of the host's place, is kept by every step. *)
LEMMA DeviceStep ==
    ASSUME NoRollover, Inv, [Next]_vars
    PROVE  /\ ClockInv'
           /\ RampInv'
           /\ PreparingInv'
           /\ DwellInv'
<1>1. TypeOK /\ ClockInv /\ RampInv /\ PreparingInv /\ DwellInv
  BY DEF Inv
<1>2. CASE Tick
  <2>1. now \in Nat /\ now < Horizon /\ now' = now + 1
    BY <1>1, <1>2 DEF Tick, TypeOK
  <2>2. ClockInv'
    BY <1>1, <1>2, <2>1, ClockAssumption DEF NoRollover, Tick, ClockInv
  <2>3. /\ UNCHANGED <<pc, cw_on, last_ramp_up, last_ramp_down, dwell_time,
                       regulatory_done, up_since, off_since, tracked, mistracked>>
        /\ last' = last
    BY <1>2 DEF Tick, hostVars, rampVars, useVars, last
  <2>4. \A c \in Channels : off_since[c] <= now + 1
    BY <1>1, <2>1 DEF RampInv, TypeOK
  <2>5. up_since \in Nat /\ up_since <= now /\ up_since <= now + 1
    BY <1>1, <2>1 DEF RampInv, TypeOK
  <2>6. RampInv'
    BY <1>1, <2>1, <2>3, <2>4, <2>5 DEF RampInv
  <2>7. cw_on' => now' - up_since' <= dwell_time' + Lag
    <3>1. cw_on => now - up_since < Least(dwell_time + Lag, transmit_timer)
      BY <1>2 DEF Tick
    <3>2. dwell_time \in Nat /\ transmit_timer \in Nat /\ Lag \in Nat
      BY <1>1, TimersAssumption DEF TypeOK
    <3>3. Least(dwell_time + Lag, transmit_timer) <= dwell_time + Lag
      BY <3>2 DEF Least
    <3> HIDE DEF Least
    <3>4. Least(dwell_time + Lag, transmit_timer) \in Nat
      BY <3>2 DEF Least
    <3> QED BY <2>1, <2>3, <2>5, <3>1, <3>2, <3>3, <3>4
  <2>8. PreparingInv' /\ DwellInv'
    BY <1>1, <2>3, <2>7 DEF PreparingInv, DwellInv
  <2> QED BY <2>2, <2>6, <2>8
<1>3. CASE RampDown
  <2> DEFINE c == last_ramp_up.channel
  <2>1. cw_on /\ c \in Channels /\ c # NoChannel
    BY <1>1, <1>3 DEF RampDown, RampInv, TypeOK, Ramp, last
  <2>2. /\ cw_on' = FALSE
        /\ last_ramp_down' = [ms |-> clock, channel |-> c]
        /\ off_since' = [off_since EXCEPT ![c] = now]
        /\ UNCHANGED <<pc, last_ramp_up, dwell_time, clock, now, up_since,
                       tracked, mistracked>>
        /\ regulatory_done' => now - up_since >= dwell_time /\ pc = "idle"
    BY <1>3 DEF RampDown, hostVars, timeVars
  <2>3. last' = c /\ last = c
    BY <2>2 DEF last
  <2>4. off_since'[c] = now /\ \A d \in Channels : off_since'[d] <= now
    BY <1>1, <2>1, <2>2 DEF RampInv, TypeOK
  <2>5. ClockInv'
    BY <1>1, <2>2 DEF ClockInv
  <2>6. last_ramp_down'.ms = now /\ last_ramp_down'.channel = c
    BY <1>1, <2>2 DEF ClockInv
  <2>7. up_since <= now /\ (~tracked \/ mistracked)
    BY <1>1, <2>1 DEF RampInv
  <2>8. RampInv'
    BY <1>1, <2>1, <2>2, <2>3, <2>4, <2>6, <2>7 DEF RampInv
  <2>9. now - up_since <= dwell_time + Lag
    BY <1>1, <2>1 DEF DwellInv
  <2>10. dwell_time \in Nat /\ now \in Nat /\ up_since \in Nat
    BY <1>1, TimersAssumption DEF TypeOK
  <2>11. DwellInv'
    BY <2>1, <2>2, <2>3, <2>4, <2>9, <2>10 DEF DwellInv
  <2>12. PreparingInv'
    BY <1>1, <2>1, <2>2 DEF PreparingInv
  <2> QED BY <2>5, <2>8, <2>11, <2>12
<1>4. ASSUME pc = "ramp", pc' \in {"idle", "inventory"},
             RampUp(next_index), UNCHANGED <<timeVars, regulatory_done>>
      PROVE  ClockInv' /\ RampInv' /\ PreparingInv' /\ DwellInv'
  <2>1. ~cw_on /\ next_index \in Channels
    BY <1>1, <1>4, NextIndexIsChannel DEF RampUp
  <2>2. RampInv' /\ cw_on' /\ now' - up_since' <= dwell_time' + Lag
    BY <1>1, <1>4, <2>1, RampUpDevice
  <2>3. ClockInv' /\ PreparingInv'
    BY <1>1, <1>4 DEF ClockInv, PreparingInv, Preparing, timeVars
  <2>4. ~regulatory_done'
    BY <1>1, <1>4 DEF DwellInv
  <2> QED BY <2>2, <2>3, <2>4 DEF DwellInv
<1>5. CASE AggregateOp
  <2>1. pc = "ramp" /\ pc' \in {"idle", "inventory"} /\ RampUp(next_index)
        /\ UNCHANGED <<timeVars, regulatory_done>>
    BY <1>5 DEF AggregateOp
  <2> QED BY <1>4, <2>1
<1>6. CASE AggregateOpFails
  <2>1. pc = "ramp" /\ pc' = "idle"
        /\ UNCHANGED <<timeVars, regulatory_done, mistracked>>
    BY <1>6 DEF AggregateOpFails
  <2>2. CASE RampUp(next_index)
    BY <1>4, <2>1, <2>2
  <2>3. CASE UNCHANGED <<cw_on, last_ramp_up, last_ramp_down, dwell_time,
                         transmit_timer, useVars, tracked>>
    <3>1. last' = last
      BY <2>3 DEF last
    <3> QED BY <1>1, <2>1, <2>3, <3>1
            DEF ClockInv, RampInv, PreparingInv, Preparing, DwellInv, timeVars,
                useVars
  <2> QED BY <1>6, <2>2, <2>3 DEF AggregateOpFails
<1>7. ASSUME Track, pc' = "tracked",
             regulatory_done' => regulatory_done /\ pc # "idle",
             UNCHANGED <<cw_on, last_ramp_up, last_ramp_down, dwell_time,
                         timeVars, useVars>>
      PROVE  ClockInv' /\ RampInv' /\ PreparingInv' /\ DwellInv'
  <2>1. last' = last /\ (~mistracked' => ~cw_on)
        /\ (~cw_on => (tracked' <=> last # NoChannel))
    <3>1. tracked' = (/\ last_ramp_up.channel # NoChannel
                      /\ last_ramp_down.channel # NoChannel)
      BY <1>7 DEF Track
    <3>2. ~mistracked' => ~cw_on
      BY <1>7 DEF Track
    <3> QED BY <1>1, <1>7, <3>1, <3>2 DEF last, RampInv
  <2>2. ClockInv' /\ RampInv'
    BY <1>1, <1>7, <2>1 DEF ClockInv, RampInv, timeVars, useVars
  <2>3. PreparingInv' /\ DwellInv'
    BY <1>1, <1>7, <2>1 DEF PreparingInv, DwellInv, useVars, timeVars
  <2> QED BY <2>2, <2>3
<1>8. CASE StartWithCwOff
  <2>1. Track /\ pc' = "tracked" /\ regulatory_done' = FALSE
        /\ UNCHANGED <<cw_on, last_ramp_up, last_ramp_down, dwell_time,
                       timeVars, useVars>>
    BY <1>8 DEF StartWithCwOff
  <2> QED BY <1>7, <2>1
<1>9. CASE SelectFindsCwOff
  <2>1. /\ Track /\ pc' = "tracked" /\ pc = "inventory"
        /\ regulatory_done' = regulatory_done
        /\ UNCHANGED <<cw_on, last_ramp_up, last_ramp_down, dwell_time,
                       timeVars, useVars>>
    BY <1>9 DEF SelectFindsCwOff, rampVars
  <2> QED BY <1>7, <2>1
<1>10. ASSUME UNCHANGED <<cw_on, last_ramp_up, last_ramp_down, dwell_time,
                          timeVars, useVars, tracked, mistracked>>,
              pc' \in Preparing => pc \in Preparing,
              regulatory_done' => regulatory_done /\ pc' = pc
       PROVE  ClockInv' /\ RampInv' /\ PreparingInv' /\ DwellInv'
  <2>1. last' = last
    BY <1>10 DEF last
  <2> QED BY <1>1, <1>10, <2>1
          DEF ClockInv, RampInv, PreparingInv, DwellInv, timeVars, useVars
<1>12. pc # "idle" => ~regulatory_done
  BY <1>1 DEF DwellInv
<1>13. CASE StartWithCwOn
  <2>1. regulatory_done' = FALSE /\ pc' \notin Preparing
        /\ UNCHANGED <<cw_on, last_ramp_up, last_ramp_down, dwell_time,
                       timeVars, useVars, tracked, mistracked>>
    BY <1>13 DEF StartWithCwOn, Preparing
  <2> QED BY <1>10, <2>1
<1>14. CASE StartsRound
  BY <1>10, <1>12, <1>14 DEF StartsRound, rampVars, Preparing
<1>15. CASE BuildCwConfig
  BY <1>10, <1>12, <1>15 DEF BuildCwConfig, rampVars, Preparing
<1>23. CASE FindsCwOn
  BY <1>10, <1>12, <1>23 DEF FindsCwOn, rampVars, Preparing
<1>24. CASE FindsCwOff
  BY <1>10, <1>12, <1>24 DEF FindsCwOff, rampVars, Preparing
<1>16. CASE StartOffTimer
  BY <1>10, <1>12, <1>16 DEF StartOffTimer, rampVars, Preparing
<1>17. CASE PreRampCallback
  BY <1>10, <1>12, <1>17 DEF PreRampCallback, OffTimeIsOver, rampVars, Preparing
<1>18. CASE FailsBeforeRamp
  BY <1>10, <1>12, <1>18 DEF FailsBeforeRamp, rampVars, Preparing
<1>19. CASE UpdateOvershoot
  <2>1. pc' = pc /\ regulatory_done' = FALSE
        /\ UNCHANGED <<cw_on, last_ramp_up, last_ramp_down, dwell_time,
                       timeVars, useVars, tracked, mistracked>>
    BY <1>19 DEF UpdateOvershoot
  <2> QED BY <1>10, <2>1
<1>20. CASE UNCHANGED vars
  BY <1>10, <1>20 DEF vars, hostVars, rampVars
<1> QED
  BY <1>2, <1>3, <1>5, <1>6, <1>8, <1>9, <1>13, <1>14, <1>15, <1>16, <1>17,
     <1>19, <1>20, <1>18, <1>23, <1>24 DEF Next

(* The overshoot that is learned is the lag of the ramp that ended.        *)
LEMMA OvershootStep ==
    ASSUME Inv, [Next]_vars
    PROVE  OvershootIsBounded'
<1>1. TypeOK /\ ClockInv /\ RampInv /\ DwellInv /\ OvershootIsBounded
  BY DEF Inv
<1>2. CASE UpdateOvershoot
  <2> DEFINE on == off_since[last] - up_since
  <2>1. ~cw_on /\ last # NoChannel /\ dwell_time <= on /\ on <= dwell_time + Lag
    BY <1>1, <1>2 DEF UpdateOvershoot, DwellInv
  <2>2. /\ last_ramp_up.ms = up_since /\ last_ramp_down.ms = off_since[last]
        /\ up_since <= off_since[last]
    BY <1>1, <2>1 DEF RampInv
  <2>3. last \in Channels
    BY <1>1, <2>1 DEF TypeOK, Ramp, last
  <2>4. up_since \in Nat /\ off_since[last] \in Nat /\ dwell_time \in Nat
        /\ dwell_time <= Nominal /\ hw_overshoot_ms \in Nat
    BY <1>1, <2>3, TimersAssumption DEF TypeOK, Uint16
  <2>5. on \in Nat /\ on < 65536
    BY <2>1, <2>2, <2>4, TimersAssumption
  <2>6. TotalOn = on
    <3>1. TotalOn = on % 65536
      BY <2>2, <2>4 DEF TotalOn
    <3> HIDE DEF on
    <3> QED BY <2>5, <3>1, Short
  <2> HIDE DEF on
  <2>7. hw_overshoot_ms' <= on - dwell_time
    BY <1>2, <2>1, <2>4, <2>5, <2>6 DEF UpdateOvershoot, Least
  <2>8. hw_overshoot_ms' \in Nat
    BY <1>1, <1>2, TypeStep DEF TypeOK, Uint16, Next
  <2> QED
    BY <2>1, <2>4, <2>5, <2>7, <2>8, TimersAssumption DEF OvershootIsBounded
<1>3. CASE UNCHANGED hw_overshoot_ms
  BY <1>1, <1>3 DEF OvershootIsBounded
<1>4. ~UpdateOvershoot => UNCHANGED hw_overshoot_ms
  BY DEF Next, StartWithCwOff, StartWithCwOn, StartsRound, SelectFindsCwOff,
         BuildCwConfig, FindsCwOn, FindsCwOff, StartOffTimer, PreRampCallback,
         FailsBeforeRamp, AggregateOp, AggregateOpFails, RampDown, Tick, vars,
         hostVars
<1> QED BY <1>2, <1>3, <1>4

(* Tracking a ramp for the first time makes the history true.              *)
LEMMA TrackHistory ==
    ASSUME Inv, Track, ~mistracked', ~cw_on, UNCHANGED useVars,
           UNCHANGED <<last_ramp_up, cw_on>>
    PROVE  HistoryInv'
<1>1. TypeOK /\ ClockInv /\ RampInv
  BY DEF Inv
<1>2. ~mistracked /\ ~(tracked /\ last # NoChannel)
      /\ (tracked' <=> last # NoChannel)
  BY <1>1 DEF Track, RampInv, last
<1>3. HistoryInv /\ UseInv
  BY <1>2 DEF Inv
<1>4. last' = last
  BY DEF last
<1>5. CASE last = NoChannel
  <2>1. UNCHANGED historyVars
    BY <1>5 DEF Track, last
  <2> QED BY <1>2, <1>3, <1>4, <1>5, <2>1
          DEF HistoryInv, Recorded, historyVars, useVars
<1>6. CASE last # NoChannel
  <2>1. last \in Channels /\ last_ramp_down.channel = last /\ ~tracked
    BY <1>1, <1>2, <1>6 DEF TypeOK, Ramp, last, RampInv
  <2>2. /\ last_ramp_up.ms = up_since /\ last_ramp_down.ms = off_since[last]
        /\ up_since <= off_since[last]
        /\ channel_last_end[last] <= up_since
        /\ occupied[last] = HeldAt(last, up_since)
                            + (off_since[last] - up_since)
        /\ occupied[last] <= off_since[last]
    BY <1>1, <1>3, <1>6, <2>1 DEF RampInv, HistoryInv, UseInv
  <2>3. /\ up_since \in Nat /\ off_since[last] \in Nat
        /\ channel_last_end[last] \in Nat /\ channel_total_time[last] \in Nat
        /\ up_since \in DeviceTime /\ off_since[last] \in DeviceTime
        /\ channel_last_end[last] \in DeviceTime
        /\ channel_total_time[last] \in 0 .. Word - 1
    <3>1. last_ramp_up.ms \in DeviceTime /\ last_ramp_down.ms \in DeviceTime
      BY <1>1 DEF TypeOK, Ramp
    <3>2. /\ channel_last_end[last] \in DeviceTime
          /\ channel_total_time[last] \in 0 .. Word - 1
      BY <1>1, <2>1 DEF TypeOK
    <3>3. DeviceTime \subseteq Nat /\ 0 .. Word - 1 \subseteq Nat
      BY ClockAssumption DEF DeviceTime
    <3> QED BY <2>2, <3>1, <3>2, <3>3
  <2>16. occupied[last] \in Nat /\ occupied[last] < Word
    <3>1. occupied[last] \in Nat
      BY <1>1, <2>1 DEF TypeOK
    <3> QED BY <2>2, <2>3, <3>1, ClockAssumption DEF DeviceTime
  <2>4. HeldAt(last, up_since) \in Nat /\ HeldAt(last, up_since) < Word
    <3>1. HeldAt(last, up_since) \in Nat
      BY <2>2, <2>3 DEF HeldAt
    <3> HIDE DEF HeldAt
    <3> QED BY <2>2, <2>3, <2>16, <3>1, ClockAssumption
  <2>5. total_at_start(last, last_ramp_up.ms) = HeldAt(last, up_since)
    <3>1. Minus(last_ramp_up.ms, channel_last_end[last])
            = up_since - channel_last_end[last]
      BY <2>2, <2>3, MinusType
    <3>2. CASE up_since - channel_last_end[last] >= Off
      BY <3>1, <3>2 DEF total_at_start, HeldAt, get_off_time_observed
    <3>3. CASE ~(up_since - channel_last_end[last] >= Off)
      <4>1. HeldAt(last, up_since)
              = channel_total_time[last] + (up_since - channel_last_end[last])
        BY <3>3 DEF HeldAt
      <4>2. up_since - channel_last_end[last] \in 0 .. Word - 1
        BY <2>2, <2>3, MinusType, <3>1
      <4>3. Plus(channel_total_time[last],
                 up_since - channel_last_end[last]) = HeldAt(last, up_since)
        BY <2>3, <2>4, <4>1, <4>2, PlusType
      <4> QED BY <3>1, <3>3, <4>3 DEF total_at_start, get_off_time_observed
    <3> QED BY <3>2, <3>3
  <2> DEFINE started == [channel_total_time EXCEPT
                            ![last] = total_at_start(last, last_ramp_up.ms)]
             start == [channel_last_start EXCEPT ![last] = last_ramp_up.ms]
             time_on == Minus(last_ramp_down.ms, start[last])
  <2>6. /\ channel_last_start' = start
        /\ channel_last_end' =
              [channel_last_end EXCEPT ![last] = last_ramp_down.ms]
        /\ channel_total_time' =
              [started EXCEPT ![last] = Plus(started[last], time_on)]
    BY <1>6, <2>1 DEF Track, last
  <2>7. start[last] = up_since
    BY <1>1, <2>1, <2>2 DEF TypeOK
  <2>8. time_on = off_since[last] - up_since
    BY <2>2, <2>3, <2>7, MinusType
  <2>9. started[last] = HeldAt(last, up_since)
    BY <1>1, <2>1, <2>5 DEF TypeOK
  <2>10. Plus(started[last], time_on) = occupied[last]
    <3>1. started[last] \in 0 .. Word - 1
      <4> HIDE DEF HeldAt
      <4> QED BY <2>4, <2>9, ClockAssumption
    <3>2. time_on \in 0 .. Word - 1
      BY <2>2, <2>3, <2>8, MinusType
    <3>3. started[last] + time_on = occupied[last]
      BY <2>2, <2>8, <2>9
    <3>4. started[last] + time_on < Word
      BY <2>16, <3>3
    <3> HIDE DEF started, time_on
    <3> QED BY <3>1, <3>2, <3>3, <3>4, PlusType
  <2>11. /\ channel_total_time'[last] = occupied[last]
         /\ channel_last_end'[last] = off_since[last]
         /\ channel_last_start'[last] = up_since
    <3>1. channel_last_end'[last] = off_since[last]
      BY <1>1, <2>1, <2>2, <2>6 DEF TypeOK
    <3>2. channel_last_start'[last] = up_since
      BY <2>6, <2>7
    <3>3. last \in DOMAIN started
      BY <1>1, <2>1 DEF TypeOK
    <3> HIDE DEF started, time_on
    <3>4. channel_total_time'[last] = occupied[last]
      BY <2>6, <2>10, <3>3
    <3> QED BY <3>1, <3>2, <3>4
  <2>12. \A c \in Channels \ {last} :
            /\ channel_total_time'[c] = channel_total_time[c]
            /\ channel_last_end'[c] = channel_last_end[c]
            /\ channel_last_start'[c] = channel_last_start[c]
    BY <1>1, <2>1, <2>6 DEF TypeOK
  <2>13. \A c \in Channels : channel_last_start'[c] <= channel_last_end'[c]
    BY <1>3, <2>2, <2>11, <2>12 DEF HistoryInv
  <2>14. \A c \in Channels : Recorded(c)'
    BY <1>3, <2>11, <2>12 DEF HistoryInv, Recorded, useVars
  <2>15. tracked'
    BY <1>2, <1>6
  <2> QED BY <2>13, <2>14, <2>15 DEF HistoryInv
<1> QED BY <1>5, <1>6

(* The timers that are computed from a true history fit what is left.      *)
LEMMA BuildFits ==
    ASSUME Inv, ~mistracked, BuildCwConfig, NEW c \in Channels, c = next_index
    PROVE  TimersInv'
<1> DEFINE since == now - off_since[c]
<1>1. /\ TypeOK /\ ClockInv /\ RampInv /\ PreparingInv
      /\ HistoryInv /\ UseInv
  BY DEF Inv
<1> SUFFICES ASSUME ~misread' PROVE TimersInv'
  BY DEF TimersInv
<1>2. /\ pc = "tracked" /\ pc' = "built"
      /\ timers' = [TimersFor(c, clock) EXCEPT
                       !.nominal = compensated(TimersFor(c, clock).nominal)]
      /\ UNCHANGED <<active_channel_index, timeVars, useVars>>
  BY DEF BuildCwConfig, read_timestamp
<1>3. next_index' = c
  BY <1>2 DEF next_index
<1>4. c # NoChannel
  BY DEF Channels, NoChannel
<1>5. ~cw_on /\ Recorded(c)
  BY <1>1, <1>2, <1>4 DEF PreparingInv, Preparing, HistoryInv
<1>6. /\ now \in Nat /\ off_since[c] \in Nat /\ off_since[c] <= now
      /\ occupied[c] \in Nat
      /\ channel_last_start[c] <= channel_last_end[c]
      /\ channel_last_start[c] \in Nat /\ channel_last_end[c] \in Nat
  <2>1. /\ channel_last_start[c] \in DeviceTime
        /\ channel_last_end[c] \in DeviceTime
    BY <1>1, <1>4 DEF TypeOK
  <2> QED BY <1>1, <1>4, <1>5, <2>1, ClockAssumption
          DEF TypeOK, RampInv, HistoryInv, DeviceTime
<1>7. Minus(clock, channel_last_end[c]) = since
  <2>1. clock \in DeviceTime /\ channel_last_end[c] \in DeviceTime
    BY <1>1, <1>4 DEF TypeOK
  <2> QED BY <1>1, <1>5, <1>6, <2>1, MinusType DEF ClockInv, Recorded
<1> DEFINE total == channel_total_time[c] % 65536
<1>8. /\ total \in Nat
      /\ occupied[c] < 65536 => total = occupied[c]
  <2>1. channel_total_time[c] = occupied[c]
    BY <1>5 DEF Recorded
  <2> QED BY <1>6, <2>1, Short DEF Uint16
<1> HIDE DEF total
<1>9. ~(channel_last_start[c] > channel_last_end[c])
  BY <1>6
<1>10. CASE since >= Off
  <2>1. TimersFor(c, clock) = NoTimers
    BY <1>7, <1>10 DEF TimersFor, get_off_time_observed
  <2>2. timers'.off = 0
    BY <1>2, <2>1 DEF NoTimers
  <2>3. Fits(c)'
    BY <1>2, <1>3, <1>10 DEF Fits, timeVars, useVars
  <2> QED BY <1>2, <1>3, <2>2, <2>3 DEF TimersInv
<1>11. CASE ~(since >= Off) /\ total >= Nominal
  <2>1. TimersFor(c, clock) = [NoTimers EXCEPT !.off = Off - since]
    BY <1>7, <1>9, <1>11 DEF TimersFor, get_off_time_observed, total
  <2>2. timers'.off = Off - since
    BY <1>2, <2>1 DEF NoTimers
  <2>3. off_since[c] + Off <= now + timers'.off /\ timers'.off > 0
    BY <1>6, <1>11, <2>2, TimersAssumption
  <2>4. off_since' = off_since /\ now' = now
    BY <1>2 DEF useVars, timeVars
  <2> QED BY <1>2, <1>3, <2>3, <2>4 DEF TimersInv
<1>12. CASE ~(since >= Off) /\ ~(total >= Nominal)
  <2> DEFINE left == Nominal - total
  <2>1. TimersFor(c, clock) =
          [NoTimers EXCEPT !.nominal = left,
                           !.regulatory = AtLeastOne(Regulatory - total)]
    <3> DEFINE since_off == Minus(clock, channel_last_end[c])
    <3>1. since_off = since
      BY <1>7
    <3> HIDE DEF since_off
    <3>2. ~(since_off >= Off) /\ ~(total >= Nominal)
      BY <1>12, <3>1
    <3> QED BY <1>9, <3>2 DEF TimersFor, get_off_time_observed, since_off,
                               total
  <2>2. timers'.off = 0 /\ timers'.nominal = compensated(left)
    BY <1>2, <2>1 DEF NoTimers
  <2>3. compensated(left) \in Int /\ compensated(left) <= left
    <3>1. hw_overshoot_ms \in Nat
      BY <1>1 DEF TypeOK, Uint16
    <3>2. left \in Nat /\ left >= 1
      BY <1>8, <1>12, TimersAssumption
    <3> HIDE DEF left
    <3> QED BY <3>1, <3>2 DEF compensated
  <2>4. \/ occupied[c] + timers'.nominal <= Nominal
        \/ occupied[c] >= 65536
    <3> HIDE DEF compensated
    <3> QED BY <1>6, <1>8, <2>2, <2>3, TimersAssumption
  <2>5. Fits(c)'
    BY <1>2, <1>3, <2>4 DEF Fits, useVars
  <2> QED BY <1>2, <1>3, <2>2, <2>5 DEF TimersInv
<1> QED BY <1>10, <1>11, <1>12

(* A ramp up whose timers fit keeps the books.                             *)
LEMMA RampUpBooks ==
    ASSUME Inv, ~mistracked, pc = "ramp", NEW c \in Channels, c = next_index,
           RampUp(c), now' = now, pc' \in {"idle", "inventory"},
           UNCHANGED historyVars
    PROVE  HistoryInv' /\ TimersInv' /\ UseInv'
<1> DEFINE since == now - off_since[c]
<1>1. /\ TypeOK /\ RampInv /\ PreparingInv
      /\ HistoryInv /\ TimersInv /\ UseInv
  BY DEF Inv
<1>2. c \in Channels
  OBVIOUS
<1>3. ~cw_on /\ \A d \in Channels : Recorded(d)
  <2>1. \A d \in Channels : d # NoChannel
    BY DEF Channels, NoChannel
  <2> QED BY <1>1, <2>1 DEF PreparingInv, Preparing, HistoryInv
<1>4. ~misread => Fits(c)
  BY <1>1 DEF TimersInv
<1>5. /\ cw_on' = TRUE /\ tracked' = FALSE
      /\ last' = c
      /\ dwell_time' = timers.nominal /\ up_since' = now
      /\ off_since' = off_since
      /\ occupied' = [occupied EXCEPT ![c] = IF since >= Off THEN 0
                                             ELSE occupied[c] + since]
      /\ unsure' = IF since >= Off THEN unsure \ {c}
                   ELSE IF misread THEN unsure \cup {c} ELSE unsure
  BY <1>1, <1>2 DEF RampUp, last, TypeOK
<1>6. /\ now \in Nat /\ off_since[c] \in Nat /\ off_since[c] <= now
      /\ occupied[c] \in Nat
      /\ timers.nominal \in Nat /\ timers.nominal <= Nominal
      /\ timers.nominal >= 1
  BY <1>1, <1>2, TimersAssumption DEF TypeOK, RampInv
<1>7. occupied'[c] = IF since >= Off THEN 0 ELSE occupied[c] + since
  BY <1>1, <1>2, <1>5 DEF TypeOK
<1>8. \A d \in Channels \ {c} : occupied'[d] = occupied[d]
  BY <1>1, <1>2, <1>5 DEF TypeOK
<1>9. HistoryInv'
  <2>1. channel_last_end'[c] = off_since[c]
        /\ channel_total_time'[c] = occupied[c]
    BY <1>2, <1>3 DEF Recorded, historyVars
  <2>3. channel_last_end'[c] <= up_since'
    BY <1>5, <1>6, <2>1
  <2>4. \A d \in Channels : channel_last_start'[d] <= channel_last_end'[d]
    BY <1>1 DEF HistoryInv, historyVars
  <2>5. \A d \in Channels \ {c} : Recorded(d)'
    BY <1>3, <1>5, <1>8 DEF Recorded, historyVars
  <2>6. HeldAt(c, up_since)' = occupied'[c]
    BY <1>5, <1>7, <2>1 DEF HeldAt
  <2> QED BY <1>5, <2>1, <2>3, <2>4, <2>5, <2>6 DEF HistoryInv, HeldAt
<1>10. TimersInv'
  BY DEF TimersInv
<1>11. c \notin unsure' => occupied'[c] + dwell_time' <= Nominal + Off - 1
  <2>1. CASE since >= Off
    BY <1>5, <1>6, <1>7, <2>1, TimersAssumption
  <2>2. CASE ~(since >= Off) /\ c \notin unsure'
    <3>1. ~misread /\ c \notin unsure
      BY <1>5, <2>2
    <3>2. occupied[c] <= Regulatory
      BY <1>1, <1>3, <3>1 DEF UseInv
    <3>3. ~(occupied[c] >= 65536)
      BY <1>6, <3>2, TimersAssumption
    <3>4. occupied[c] + timers.nominal <= Nominal
      BY <1>4, <2>2, <3>1, <3>3 DEF Fits
    <3> QED BY <1>5, <1>6, <1>7, <2>2, <3>4, TimersAssumption
  <2> QED BY <2>1, <2>2
<1>12. UseInv'
  <2>1. \A d \in Channels \ unsure' : d # c => occupied'[d] <= Regulatory
    <3>1. \A d \in Channels \ unsure' : d # c => d \notin unsure
      BY <1>5
    <3> QED BY <1>1, <1>3, <1>8, <3>1 DEF UseInv
  <2>2. occupied'[c] <= up_since'
    <3>1. occupied[c] <= off_since[c]
      BY <1>1, <1>3 DEF UseInv
    <3> QED BY <1>5, <1>6, <1>7, <3>1
  <2>3. \A d \in Channels \ {c} : occupied'[d] <= off_since'[d]
    BY <1>1, <1>3, <1>5, <1>8 DEF UseInv
  <2> QED BY <1>5, <1>11, <2>1, <2>2, <2>3 DEF UseInv
<1> QED BY <1>9, <1>10, <1>12

(* A ramp down gives the channel's time its final value.                   *)
LEMMA RampDownBooks ==
    ASSUME Inv, ~mistracked, RampDown, NEW c, c = last_ramp_up.channel
    PROVE  HistoryInv' /\ TimersInv' /\ UseInv'
<1> DEFINE on == now - up_since
<1>1. /\ TypeOK /\ RampInv /\ PreparingInv /\ DwellInv
      /\ HistoryInv /\ UseInv
  BY DEF Inv
<1>2. cw_on /\ c \in Channels /\ last = c /\ c # NoChannel /\ ~tracked
  BY <1>1 DEF RampDown, RampInv, TypeOK, Ramp, last
<1>3. /\ cw_on' = FALSE /\ last' = c /\ tracked' = tracked
      /\ pc' = pc /\ up_since' = up_since /\ unsure' = unsure
      /\ UNCHANGED historyVars
      /\ occupied' = [occupied EXCEPT ![c] = occupied[c] + on]
      /\ off_since' = [off_since EXCEPT ![c] = now]
  BY DEF RampDown, hostVars, last
<1>4. occupied'[c] = occupied[c] + on /\ off_since'[c] = now
  BY <1>1, <1>2, <1>3 DEF TypeOK
<1>5. \A d \in Channels \ {c} : occupied'[d] = occupied[d]
                                /\ off_since'[d] = off_since[d]
  BY <1>1, <1>2, <1>3 DEF TypeOK
<1>6. /\ now \in Nat /\ up_since \in Nat /\ up_since <= now
      /\ occupied[c] \in Nat /\ dwell_time \in Nat
      /\ on <= dwell_time + Lag
      /\ c \notin unsure => occupied[c] + dwell_time <= Nominal + Off - 1
      /\ occupied[c] <= up_since
  BY <1>1, <1>2, TimersAssumption
     DEF TypeOK, RampInv, DwellInv, UseInv, last
<1>7. HistoryInv'
  <2>1. channel_last_end[c] <= up_since /\ occupied[c] = HeldAt(c, up_since)
    BY <1>1, <1>2 DEF HistoryInv
  <2>2. HeldAt(c, up_since)' = HeldAt(c, up_since)
    BY <1>3 DEF HeldAt, historyVars
  <2>3. \A d \in Channels \ {c} : Recorded(d)'
    BY <1>1, <1>2, <1>3, <1>5 DEF HistoryInv, Recorded, historyVars
  <2>4. \A d \in Channels : channel_last_start'[d] <= channel_last_end'[d]
    BY <1>1, <1>3 DEF HistoryInv, historyVars
  <2>5. channel_last_end'[c] <= up_since'
    BY <1>3, <2>1 DEF historyVars
  <2>6. occupied'[c] = HeldAt(c, up_since)' + (off_since'[c] - up_since')
    BY <1>3, <1>4, <2>1, <2>2
  <2> QED BY <1>2, <1>3, <2>3, <2>4, <2>5, <2>6 DEF HistoryInv, HeldAt
<1>8. TimersInv'
  BY <1>1, <1>2, <1>3 DEF PreparingInv, Preparing, TimersInv
<1>9. UseInv'
  <2>1. c \notin unsure => occupied'[c] <= Regulatory
    BY <1>4, <1>6, TimersAssumption
  <2>2. \A d \in Channels \ unsure : d # c => occupied'[d] <= Regulatory
    BY <1>1, <1>2, <1>5 DEF UseInv
  <2>3. occupied'[c] <= off_since'[c]
    BY <1>4, <1>6
  <2>4. \A d \in Channels \ {c} : occupied'[d] <= off_since'[d]
    BY <1>1, <1>2, <1>5 DEF UseInv
  <2> QED BY <1>3, <2>1, <2>2, <2>3, <2>4 DEF UseInv
<1> QED BY <1>7, <1>8, <1>9

(* The host's books, and the timers it prepares, are kept by every step.   *)
LEMMA BooksStep ==
    ASSUME Inv, [Next]_vars, ~mistracked'
    PROVE  HistoryInv' /\ TimersInv' /\ UseInv'
<1> USE DEF hostVars, historyVars, rampVars, timeVars, useVars
<1>1. ~mistracked
  <2>1. StartWithCwOff \/ SelectFindsCwOff => (mistracked => mistracked')
    BY DEF Track, StartWithCwOff, SelectFindsCwOff
  <2>2. \/ StartWithCwOn \/ StartsRound \/ BuildCwConfig \/ FindsCwOn
        \/ FindsCwOff \/ StartOffTimer \/ PreRampCallback \/ FailsBeforeRamp
        => UNCHANGED mistracked
    BY DEF StartWithCwOn, StartsRound, BuildCwConfig, FindsCwOn, FindsCwOff,
           StartOffTimer, PreRampCallback, FailsBeforeRamp
  <2>3. \/ AggregateOp \/ AggregateOpFails \/ UpdateOvershoot \/ RampDown
        \/ Tick \/ UNCHANGED vars
        => UNCHANGED mistracked
    BY DEF AggregateOp, AggregateOpFails, UpdateOvershoot, RampDown, Tick, vars
  <2> QED BY <2>1, <2>2, <2>3 DEF Next
<1>2. /\ TypeOK /\ ClockInv /\ RampInv /\ PreparingInv
      /\ HistoryInv /\ TimersInv /\ UseInv
  BY <1>1 DEF Inv
<1>3. PICK c \in Channels : c = next_index
  BY <1>2, NextIndexIsChannel
<1>4. /\ now \in Nat /\ off_since[c] \in Nat /\ op_timer \in Nat
      /\ timers.off \in Nat
  BY <1>2, TimersAssumption DEF TypeOK
\* Steps that touch neither the history nor the use of a channel.
<1>5. ASSUME UNCHANGED <<historyVars, useVars, cw_on, last_ramp_up,
                         dwell_time, tracked>>
      PROVE  HistoryInv' /\ UseInv'
  <2>1. last' = last
    BY <1>5 DEF last
  <2>2. HeldAt(last, up_since)' = HeldAt(last, up_since)
    BY <1>5, <2>1 DEF HeldAt
  <2>3. \A d \in Channels : Recorded(d)' <=> Recorded(d)
    BY <1>5 DEF Recorded
  <2>4. HistoryInv'
    <3> HIDE DEF HeldAt, Recorded
    <3> QED BY <1>2, <1>5, <2>1, <2>2, <2>3 DEF HistoryInv
  <2>5. UseInv'
    BY <1>2, <1>5, <2>1 DEF UseInv
  <2> QED BY <2>4, <2>5
<1>6. CASE Tick
  <2>1. /\ now' = now + 1
        /\ UNCHANGED <<historyVars, useVars, cw_on, last_ramp_up, dwell_time,
                       tracked, pc, timers, op_timer, active_channel_index,
                       misread>>
    BY <1>6 DEF Tick
  <2>2. next_index' = c
    BY <1>3, <2>1 DEF next_index
  <2>3. Fits(c) => Fits(c)'
    BY <1>4, <2>1, TimersAssumption DEF Fits
  <2>4. off_since[c] + Off <= now + timers.off
          => off_since[c] + Off <= now' + timers.off
    BY <1>4, <2>1, TimersAssumption
  <2>5. TimersInv'
    BY <1>2, <1>3, <2>1, <2>2, <2>3, <2>4 DEF TimersInv
  <2> QED BY <1>5, <2>1, <2>5
<1>7. CASE RampDown
  <2>1. PICK d : d = last_ramp_up.channel
    OBVIOUS
  <2> QED BY <1>1, <1>7, <2>1, RampDownBooks
<1>8. ASSUME RampUp(next_index), pc = "ramp", now' = now,
             pc' \in {"idle", "inventory"}, UNCHANGED historyVars
      PROVE  HistoryInv' /\ TimersInv' /\ UseInv'
  <2>1. RampUp(c)
    BY <1>3, <1>8
  <2> QED BY <1>1, <1>3, <1>8, <2>1, RampUpBooks
<1>9. CASE AggregateOp
  BY <1>8, <1>9 DEF AggregateOp
<1>10. pc' \in {"idle", "inventory", "tracked"} => TimersInv'
  BY DEF TimersInv
<1>11. CASE AggregateOpFails
  <2>1. CASE RampUp(next_index)
    BY <1>8, <1>11, <2>1 DEF AggregateOpFails
  <2>2. CASE UNCHANGED <<cw_on, last_ramp_up, last_ramp_down, dwell_time,
                         transmit_timer, useVars, tracked>>
    BY <1>5, <1>10, <1>11, <2>2 DEF AggregateOpFails
  <2> QED BY <1>11, <2>1, <2>2 DEF AggregateOpFails
<1>12. ASSUME Track, pc' = "tracked",
              UNCHANGED <<useVars, last_ramp_up, cw_on, dwell_time>>
       PROVE  HistoryInv' /\ TimersInv' /\ UseInv'
  <2>3. ~cw_on
    BY <1>12 DEF Track
  <2>1. HistoryInv'
    BY <1>12, <2>3, TrackHistory
  <2>2. UseInv'
    BY <1>2, <1>12, <2>3 DEF UseInv
  <2> QED BY <1>10, <1>12, <2>1, <2>2
<1>13. CASE StartWithCwOff
  BY <1>12, <1>13 DEF StartWithCwOff
<1>14. CASE SelectFindsCwOff
  BY <1>12, <1>14 DEF SelectFindsCwOff
<1>15. CASE BuildCwConfig
  <2>1. TimersInv'
    BY <1>1, <1>3, <1>15, BuildFits
  <2> QED BY <1>5, <1>15, <2>1 DEF BuildCwConfig
<1>23. CASE FindsCwOn
  BY <1>5, <1>10, <1>23 DEF FindsCwOn
<1>24. CASE FindsCwOff
  <2>1. /\ pc = "built" /\ pc' = "configured"
        /\ UNCHANGED <<historyVars, useVars, cw_on, last_ramp_up, dwell_time,
                       tracked, active_channel_index, timers, misread, now>>
    BY <1>24 DEF FindsCwOff
  <2>2. next_index' = c
    BY <1>3, <2>1 DEF next_index
  <2>3. Fits(c)' <=> Fits(c)
    BY <2>1 DEF Fits
  <2>4. TimersInv'
    BY <1>2, <1>3, <2>1, <2>2, <2>3 DEF TimersInv
  <2> QED BY <1>5, <2>1, <2>4
<1>16. CASE StartOffTimer
  <2>1. /\ pc = "configured" /\ timers.off > 0 /\ pc' = "off_time"
        /\ op_timer' = now + timers.off
        /\ UNCHANGED <<historyVars, useVars, cw_on, last_ramp_up, dwell_time,
                       tracked, active_channel_index, misread>>
    BY <1>16 DEF StartOffTimer
  <2>2. next_index' = c
    BY <1>3, <2>1 DEF next_index
  <2>3. ~misread => off_since'[c] + Off <= op_timer'
    BY <1>2, <1>3, <2>1 DEF TimersInv
  <2>4. TimersInv'
    BY <2>1, <2>2, <2>3 DEF TimersInv
  <2> QED BY <1>5, <2>1, <2>4
<1>17. CASE PreRampCallback
  <2>1. /\ OffTimeIsOver
        /\ pc' = "ramp" /\ timers' = timers
        /\ UNCHANGED <<historyVars, useVars, cw_on, last_ramp_up, dwell_time,
                       tracked, active_channel_index, now, misread>>
    BY <1>17 DEF PreRampCallback
  <2>2. next_index' = c
    BY <1>3, <2>1 DEF next_index
  <2>3. ~misread => Fits(c)
    <3> SUFFICES ASSUME ~misread PROVE Fits(c)
      OBVIOUS
    <3>1. CASE pc = "configured" /\ timers.off = 0
      BY <1>2, <1>3, <3>1 DEF TimersInv
    <3>2. CASE pc = "off_time" /\ now >= op_timer
      <4>1. off_since[c] + Off <= op_timer
        BY <1>2, <1>3, <3>2 DEF TimersInv
      <4>2. now - off_since[c] >= Off
        BY <1>4, <3>2, <4>1, TimersAssumption
      <4> QED BY <4>2 DEF Fits
    <3> QED BY <2>1, <3>1, <3>2 DEF OffTimeIsOver
  <2>4. ~misread' => Fits(c)'
    BY <2>1, <2>3 DEF Fits
  <2>5. TimersInv'
    BY <2>1, <2>2, <2>4 DEF TimersInv
  <2> QED BY <1>5, <2>1, <2>5
<1>18. CASE FailsBeforeRamp
  BY <1>5, <1>10, <1>18 DEF FailsBeforeRamp
<1>19. CASE StartWithCwOn
  BY <1>5, <1>10, <1>19 DEF StartWithCwOn
<1>20. CASE StartsRound
  BY <1>5, <1>10, <1>20 DEF StartsRound
<1>21. CASE UpdateOvershoot
  <2>1. /\ pc = "idle" /\ pc' = pc
        /\ UNCHANGED <<historyVars, useVars, cw_on, last_ramp_up, dwell_time,
                       tracked>>
    BY <1>21 DEF UpdateOvershoot
  <2> QED BY <1>5, <1>10, <2>1
<1>22. CASE UNCHANGED vars
  <2>1. next_index' = next_index
    BY <1>22 DEF vars, next_index
  <2>2. Fits(next_index)' <=> Fits(next_index)
    BY <1>22, <2>1 DEF vars, Fits
  <2>3. TimersInv'
    BY <1>2, <1>22, <2>1, <2>2 DEF vars, TimersInv
  <2> QED BY <1>5, <1>22, <2>3 DEF vars
<1> QED
  BY <1>6, <1>7, <1>9, <1>11, <1>13, <1>14, <1>15, <1>16, <1>17, <1>19, <1>20,
     <1>21, <1>22, <1>18, <1>23, <1>24 DEF Next

-----------------------------------------------------------------------------
(* The invariant holds when the Ex10 has been powered up.                  *)
LEMMA InitInv == Init => Inv
<1> SUFFICES ASSUME Init PROVE Inv
  OBVIOUS
<1>1. TypeOK
  <2>1. 0 \in DeviceTime /\ Off \in DeviceTime /\ 0 \in 0 .. Word - 1
    BY TimersAssumption, ClockAssumption DEF DeviceTime
  <2>2. NoTimers \in [nominal : 1 .. Nominal, regulatory : 1 .. Regulatory,
                      off : 0 .. Off]
    BY TimersAssumption DEF NoTimers
  <2>3. 0 \in Channels /\ DefaultOvershoot \in Uint16
        /\ 0 \in 0 .. Nominal /\ 0 \in 0 .. Regulatory
    BY TimersAssumption DEF Channels, Uint16
  <2>4. [ms |-> 0, channel |-> NoChannel] \in Ramp
    BY <2>1 DEF Ramp
  <2>5. /\ channel_last_start \in [Channels -> DeviceTime]
        /\ channel_last_end \in [Channels -> DeviceTime]
        /\ channel_total_time \in [Channels -> 0 .. Word - 1]
        /\ off_since \in [Channels -> Nat]
        /\ occupied \in [Channels -> Nat]
    BY <2>1 DEF Init
  <2>6. /\ active_channel_index \in Channels
        /\ hw_overshoot_ms \in Uint16
        /\ dwell_time \in 0 .. Nominal /\ transmit_timer \in 0 .. Regulatory
    BY <2>3 DEF Init
  <2>7. /\ clock \in DeviceTime /\ now \in Nat
        /\ last_ramp_up \in Ramp /\ last_ramp_down \in Ramp
    BY <2>1, <2>4, TimersAssumption DEF Init
  <2>8. /\ pc = "idle" /\ retried = FALSE /\ timers = NoTimers /\ failures = 0
        /\ cw_on = FALSE
        /\ op_timer = 0 /\ regulatory_done = FALSE /\ up_since = 0
        /\ tracked = FALSE /\ mistracked = FALSE /\ misread = FALSE
        /\ unsure = {}
    BY DEF Init
  <2> QED BY <2>2, <2>5, <2>6, <2>7, <2>8 DEF TypeOK
<1>2. last = NoChannel
  BY DEF Init, last
<1>3. ClockInv /\ RampInv
  BY <1>2, TimersAssumption, ClockAssumption DEF Init, ClockInv, RampInv
<1>4. PreparingInv /\ DwellInv /\ OvershootIsBounded
  BY DEF Init, PreparingInv, Preparing, DwellInv, OvershootIsBounded
<1>5. HistoryInv /\ TimersInv /\ UseInv
  BY <1>2, TimersAssumption
     DEF Init, HistoryInv, Recorded, TimersInv, UseInv
<1> QED BY <1>1, <1>3, <1>4, <1>5 DEF Inv

(* Every step keeps the invariant.                                         *)
LEMMA InvStep == NoRollover /\ Inv /\ [Next]_vars => Inv'
<1> SUFFICES ASSUME NoRollover, Inv, [Next]_vars PROVE Inv'
  OBVIOUS
<1>1. TypeOK'
  BY TypeStep DEF Inv
<1>2. ClockInv' /\ RampInv' /\ PreparingInv' /\ DwellInv'
  BY DeviceStep
<1>3. OvershootIsBounded'
  BY OvershootStep
<1>4. ~mistracked' => HistoryInv' /\ TimersInv' /\ UseInv'
  BY BooksStep
<1> QED BY <1>1, <1>2, <1>3, <1>4 DEF Inv

(* The inductive invariant: the host's history against the real use of     *)
(* every channel, through every stage of start_inventory() and cw_on().    *)
THEOREM ChannelInvariant == NoRollover => (Spec => []Inv)
<1> SUFFICES ASSUME NoRollover PROVE Spec => []Inv
  OBVIOUS
<1>1. Inv /\ [Next]_vars => Inv'
  BY InvStep
<1> QED BY InitInv, <1>1, PTL DEF Spec

(* Every variable keeps a value that its C type allows.                    *)
THEOREM TypeCorrect == NoRollover => (Spec => []TypeOK)
<1> SUFFICES ASSUME NoRollover PROVE Spec => []TypeOK
  OBVIOUS
<1>1. Inv => TypeOK
  BY DEF Inv
<1>2. Spec => []Inv
  BY ChannelInvariant
<1> QED BY <1>1, <1>2, PTL

(* While no ramp has been tracked twice or before its end, no channel is   *)
(* held for longer than the region's regulatory limit, except one that was *)
(* ramped up with timers for a time that could not be read, until its next *)
(* off time.                                                               *)
THEOREM LimitKept == NoRollover => (Spec => []LimitIsKept)
<1> SUFFICES ASSUME NoRollover PROVE Spec => []LimitIsKept
  OBVIOUS
<1>1. Inv => LimitIsKept
  <2> SUFFICES ASSUME Inv, ~mistracked, NEW c \in Channels \ unsure
               PROVE  Held(c) <= Regulatory
    BY DEF LimitIsKept
  <2>1. TypeOK /\ RampInv /\ DwellInv /\ UseInv
    BY DEF Inv
  <2>2. CASE cw_on /\ c = last
    <3>1. Held(c) = occupied[c] + (now - up_since)
      BY <2>2 DEF Held, last
    <3>2. /\ occupied[c] + dwell_time <= Nominal + Off - 1
          /\ now - up_since <= dwell_time + Lag
      BY <2>1, <2>2 DEF UseInv, DwellInv
    <3>3. /\ occupied[c] \in Nat /\ now \in Nat /\ up_since \in Nat
          /\ dwell_time \in Nat
      BY <2>1, TimersAssumption DEF TypeOK
    <3> QED BY <3>1, <3>2, <3>3, TimersAssumption
  <2>3. CASE ~(cw_on /\ c = last)
    <3>1. Held(c) = occupied[c]
      BY <2>3 DEF Held, last
    <3> QED BY <2>1, <2>3, <3>1 DEF UseInv
  <2> QED BY <2>2, <2>3
<1>2. Spec => []Inv
  BY ChannelInvariant
<1> QED BY <1>1, <1>2, PTL

(* The timers of a ramp are computed from what really happened, as long as *)
(* no ramp has been tracked twice or before its end.                       *)
THEOREM HistoryTrue == NoRollover => (Spec => []HistoryIsTrue)
<1> SUFFICES ASSUME NoRollover PROVE Spec => []HistoryIsTrue
  OBVIOUS
<1>1. Inv => HistoryIsTrue
  <2> SUFFICES ASSUME Inv, tracked, ~mistracked
               PROVE  /\ channel_total_time = occupied
                      /\ channel_last_end = off_since
    BY DEF HistoryIsTrue
  <2>1. TypeOK /\ \A c \in Channels : Recorded(c)
    BY DEF Inv, HistoryInv
  <2> QED BY <2>1 DEF Recorded, TypeOK
<1>2. Spec => []Inv
  BY ChannelInvariant
<1> QED BY <1>1, <1>2, PTL

(* The learned overshoot never exceeds the device's lag.                   *)
THEOREM OvershootBounded == NoRollover => (Spec => []OvershootIsBounded)
<1> SUFFICES ASSUME NoRollover PROVE Spec => []OvershootIsBounded
  OBVIOUS
<1>1. Inv => OvershootIsBounded
  BY DEF Inv
<1>2. Spec => []Inv
  BY ChannelInvariant
<1> QED BY <1>1, <1>2, PTL

(* CW comes on by the ramp up of cw_on() only.                             *)
LEMMA OnlyRampsSwitchOn ==
    ASSUME TypeOK, Next, ~cw_on, cw_on'
    PROVE  pc = "ramp" /\ RampUp(next_index)
<1>1. cw_on' # cw_on
  BY DEF TypeOK
<1>2. ~RampDown
  BY DEF RampDown
<1>3. StartWithCwOff \/ StartWithCwOn => UNCHANGED cw_on
  BY DEF StartWithCwOff, StartWithCwOn
<1>4. UpdateOvershoot => UNCHANGED cw_on
  BY DEF UpdateOvershoot
<1>5. \/ StartsRound \/ SelectFindsCwOff \/ BuildCwConfig
      \/ FindsCwOn \/ FindsCwOff \/ StartOffTimer \/ PreRampCallback
      \/ FailsBeforeRamp \/ Tick
      => UNCHANGED cw_on
  BY DEF StartsRound, SelectFindsCwOff, BuildCwConfig, FindsCwOn,
         FindsCwOff, StartOffTimer, PreRampCallback, FailsBeforeRamp, Tick,
         rampVars
<1>6. AggregateOp \/ AggregateOpFails
  BY <1>1, <1>2, <1>3, <1>4, <1>5 DEF Next
<1>7. AggregateOp => pc = "ramp" /\ RampUp(next_index)
  BY DEF AggregateOp
<1>8. AggregateOpFails => pc = "ramp" /\ RampUp(next_index)
  <2>1. UNCHANGED <<cw_on, last_ramp_up, last_ramp_down, dwell_time,
                    transmit_timer, useVars, tracked>> => FALSE
    BY <1>1
  <2> QED BY <2>1 DEF AggregateOpFails
<1> QED BY <1>6, <1>7, <1>8

(* A channel that was used up is left alone for the off time before the    *)
(* next ramp up on it, unless that ramp's timers are for a time that could *)
(* not be read.                                                            *)
THEOREM OffTimeObserved == NoRollover => (Spec => OffTimeIsObserved)
<1> SUFFICES ASSUME NoRollover PROVE Spec => OffTimeIsObserved
  OBVIOUS
<1> DEFINE Observed ==
      \A c \in Channels :
         /\ ~cw_on /\ cw_on' /\ last_ramp_up'.channel = c
         /\ ~mistracked /\ ~misread
         /\ Nominal <= occupied[c] /\ occupied[c] <= 65535
         => now - off_since[c] >= Off
<1>1. Inv /\ [Next]_vars => [Observed]_vars
  <2> SUFFICES ASSUME Inv, Next, NEW c \in Channels,
                      ~cw_on, cw_on', last_ramp_up'.channel = c,
                      ~mistracked, ~misread,
                      Nominal <= occupied[c], occupied[c] <= 65535
               PROVE  now - off_since[c] >= Off
    BY DEF Observed
  <2>1. TypeOK /\ TimersInv
    BY DEF Inv
  <2>2. pc = "ramp" /\ RampUp(next_index)
    BY <2>1, OnlyRampsSwitchOn
  <2>3. c = next_index
    BY <2>2 DEF RampUp
  <2>4. Fits(c)
    BY <2>1, <2>2, <2>3 DEF TimersInv
  <2>5. occupied[c] \in Nat /\ timers.nominal \in Nat /\ timers.nominal >= 1
    BY <2>1, TimersAssumption DEF TypeOK
  <2> QED BY <2>4, <2>5, TimersAssumption DEF Fits
<1>2. Spec => []Inv
  BY ChannelInvariant
<1> QED BY <1>1, <1>2, PTL DEF Spec, OffTimeIsObserved
=============================================================================
