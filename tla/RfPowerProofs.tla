---------------------------- MODULE RfPowerProofs ----------------------------
(***************************************************************************)
(* Proofs about RfPower, for any size of the measurement batches, any      *)
(* number of measurements and any number of failing commands.              *)
(***************************************************************************)
EXTENDS RfPower, WellFoundedInduction, TLAPS

(* A set of numbers has a least one. *)
LEMMA LeastNumber ==
    ASSUME NEW S \in SUBSET Nat, S # {}
    PROVE  \E n \in S : \A m \in S : n <= m
<1>1. PICK n \in S : \A m \in S : <<m, n>> \notin OpToRel(<, Nat)
  BY NatLessThanWellFounded, WFMin
<1>2. \A m \in S : ~(m < n)
  BY <1>1 DEF OpToRel
<1>3. QED
  BY <1>2

LEMMA Measurements == num_measurements \in Nat /\ num_measurements > 0
BY RfPowerConstants DEF num_measurements

(* count_under_rssi_limit(): a batch without a noisy measurement lengthens *)
(* the row, any other starts it anew.                                      *)
LEMMA RowAfterBatch ==
    ASSUME NEW batch \in Batch, NEW n \in Nat
    PROVE  /\ InARow(batch, n) \in 0 .. n + num_measurements
           /\ (\A i \in DOMAIN batch : batch[i] # "noisy")
                => InARow(batch, n) = n + num_measurements
<1> DEFINE N == num_measurements
           Last(k) == /\ \A i \in k + 1 .. N : batch[i] = "quiet"
                      /\ k > 0 => batch[k] = "noisy"
           Tails == {k \in 0 .. N : \A i \in k + 1 .. N : batch[i] = "quiet"}
           after == CHOOSE k \in 0 .. N : Last(k)
<1>1. N \in Nat /\ N > 0 /\ batch \in [1 .. N -> {"quiet", "noisy"}]
  BY Measurements DEF Batch
<1> HIDE DEF N
<1>2. \E k \in 0 .. N : Last(k)
  <2>1. N \in Tails /\ Tails \in SUBSET Nat
    BY <1>1
  <2>2. PICK k \in Tails : \A m \in Tails : k <= m
    BY <2>1, LeastNumber
  <2>3. ASSUME k > 0 PROVE batch[k] = "noisy"
    <3>1. k - 1 \in 0 .. N /\ k \in 1 .. N /\ k - 1 \notin Tails
      BY <1>1, <2>2, <2>3
    <3>2. PICK i \in (k - 1) + 1 .. N : batch[i] # "quiet"
      BY <3>1
    <3>3. i = k
      BY <1>1, <2>2, <3>1, <3>2
    <3>4. QED
      BY <1>1, <3>1, <3>2, <3>3
  <2>4. QED
    BY <2>2, <2>3
<1>3. after \in 0 .. N /\ Last(after)
  BY <1>2
<1>4. InARow(batch, n) = IF after = 0 THEN n + N ELSE N - after
  BY DEF InARow, N
<1> HIDE DEF after
<1>5. (\A i \in 1 .. N : batch[i] # "noisy") => after = 0
  BY <1>1, <1>3
<1>6. QED
  BY <1>1, <1>3, <1>4, <1>5 DEF N

-----------------------------------------------------------------------------
(* The parts of the types, each for the provers that know them.            *)
Flags ==
    /\ cw \in BOOLEAN /\ antenna_stored \in BOOLEAN /\ power_stored \in BOOLEAN
    /\ off_time \in BOOLEAN /\ noisy_seen \in BOOLEAN /\ measuring_failed \in BOOLEAN
    /\ came_up \in BOOLEAN /\ status_lost \in BOOLEAN
    /\ checked \in BOOLEAN /\ told \in BOOLEAN

Places ==
    /\ pre_ramp_callback \in {"none", "lbt"}
    /\ post_ramp_callback \in {"none", "disconnect"}
    /\ pc \in {"idle", "timer", "pre", "listen", "ramp", "post", "down"}
    /\ result \in {"none", "success", "error", "above_threshold"}

Counts ==
    /\ total_num_rssi_measurements \in Nat /\ under_limit_count \in Nat
    /\ heard \in Nat
    /\ failures \in 0 .. MaxFailures

LEMMA FlagsStep == Flags /\ [Next]_vars => Flags'
<1> SUFFICES ASSUME Flags, [Next]_vars PROVE Flags'
  OBVIOUS
<1> USE DEF Flags, Returns, StopsWith, call, ramp, manager, listening
<1>1. CASE Register \/ Unregister \/ StoreVariables
  BY <1>1 DEF Register, Unregister, StoreVariables
<1>2. CASE CwOn
  BY <1>2 DEF CwOn
<1>3. CASE ObserveOffTime
  BY <1>3 DEF ObserveOffTime
<1>4. CASE PreRamp
  BY <1>4 DEF PreRamp
<1>5. CASE Listen
  BY <1>5 DEF Listen, Verdict, count_under_rssi_limit
<1>6. CASE ListenGivesUp
  BY <1>6 DEF ListenGivesUp, Verdict
<1>7. CASE ListenFails
  BY <1>7 DEF ListenFails, Verdict
<1>8. CASE RunAggregateOp
  BY <1>8 DEF RunAggregateOp, Up
<1>9. CASE PostRamp
  BY <1>9 DEF PostRamp
<1>10. CASE Disconnected
  BY <1>10 DEF Disconnected
<1>11. CASE StopOpAndRampDown
  BY <1>11 DEF StopOpAndRampDown
<1>12. CASE RampsDown
  BY <1>12 DEF RampsDown
<1>13. CASE UNCHANGED vars
  BY <1>13 DEF vars
<1>14. QED
  BY <1>1, <1>2, <1>3, <1>4, <1>5, <1>6, <1>7, <1>8, <1>9, <1>10, <1>11, <1>12,
     <1>13 DEF Next, CwOnStep

LEMMA PlacesStep == Places /\ [Next]_vars => Places'
<1> SUFFICES ASSUME Places, [Next]_vars PROVE Places'
  OBVIOUS
<1> USE DEF Places, Returns, StopsWith, manager
<1>1. CASE Register \/ Unregister \/ StoreVariables
  BY <1>1 DEF Register, Unregister, StoreVariables
<1>2. CASE CwOn
  BY <1>2 DEF CwOn
<1>3. CASE ObserveOffTime
  BY <1>3 DEF ObserveOffTime
<1>4. CASE PreRamp
  BY <1>4 DEF PreRamp
<1>5. CASE Listen
  BY <1>5 DEF Listen, Verdict, count_under_rssi_limit
<1>6. CASE ListenGivesUp
  BY <1>6 DEF ListenGivesUp, Verdict
<1>7. CASE ListenFails
  BY <1>7 DEF ListenFails, Verdict
<1>8. CASE RunAggregateOp
  BY <1>8 DEF RunAggregateOp, Up
<1>9. CASE PostRamp
  BY <1>9 DEF PostRamp
<1>10. CASE Disconnected
  BY <1>10 DEF Disconnected
<1>11. CASE StopOpAndRampDown
  BY <1>11 DEF StopOpAndRampDown
<1>12. CASE RampsDown
  BY <1>12 DEF RampsDown
<1>13. CASE UNCHANGED vars
  BY <1>13 DEF vars
<1>14. QED
  BY <1>1, <1>2, <1>3, <1>4, <1>5, <1>6, <1>7, <1>8, <1>9, <1>10, <1>11, <1>12,
     <1>13 DEF Next, CwOnStep

LEMMA CountsStep == Counts /\ [Next]_vars => Counts'
<1> SUFFICES ASSUME Counts, [Next]_vars PROVE Counts'
  OBVIOUS
<1> USE RfPowerConstants, Measurements
        DEF Counts, StopsWith, MayFail, listening
<1>1. CASE Register \/ Unregister \/ StoreVariables
  BY <1>1 DEF Register, Unregister, StoreVariables
<1>2. CASE CwOn
  BY <1>2 DEF CwOn
<1>3. CASE ObserveOffTime
  BY <1>3 DEF ObserveOffTime
<1>4. CASE PreRamp
  BY <1>4 DEF PreRamp
<1>5. CASE Listen
  BY <1>5, RowAfterBatch DEF Listen, Verdict, count_under_rssi_limit
<1>6. CASE ListenGivesUp
  BY <1>6 DEF ListenGivesUp, Verdict
<1>7. CASE ListenFails
  BY <1>7 DEF ListenFails, Verdict
<1>8. CASE RunAggregateOp
  BY <1>8 DEF RunAggregateOp, Up
<1>9. CASE PostRamp
  BY <1>9 DEF PostRamp
<1>10. CASE Disconnected
  <2>1. UNCHANGED listening /\ (failures' = failures \/ MayFail)
    BY <1>10 DEF Disconnected
  <2>2. QED
    BY <2>1
<1>11. CASE StopOpAndRampDown
  <2>1. UNCHANGED listening /\ (failures' = failures \/ MayFail)
    BY <1>11 DEF StopOpAndRampDown
  <2>2. QED
    BY <2>1
<1>12. CASE RampsDown
  BY <1>12 DEF RampsDown
<1>13. CASE UNCHANGED vars
  BY <1>13 DEF vars
<1>14. QED
  BY <1>1, <1>2, <1>3, <1>4, <1>5, <1>6, <1>7, <1>8, <1>9, <1>10, <1>11, <1>12,
     <1>13 DEF Next, CwOnStep

(* The types of the state; the counters of listening do not go below zero. *)
THEOREM TypeCorrect == Spec => []TypeOK
<1>1. Init => Flags /\ Places
  BY DEF Init, Flags, Places
<1>2. Init => Counts
  BY RfPowerConstants DEF Init, Counts
<1>3. Flags /\ Places /\ Counts => TypeOK
  BY DEF Flags, Places, Counts, TypeOK
<1>4. QED
  BY <1>1, <1>2, <1>3, FlagsStep, PlacesStep, CountsStep, PTL DEF Spec

-----------------------------------------------------------------------------
(* As long as every measurement is read, those that are counted are those  *)
(* that were made, and all of them were quiet if none was noisy.           *)
CountIsTrue ==
    pc = "listen" /\ ~measuring_failed =>
        /\ heard = under_limit_count
        /\ ~noisy_seen => heard = total_num_rssi_measurements

(* The ramp comes after enough quiet measurements.                         *)
RampAfterQuiet ==
    pc = "ramp" => \/ pre_ramp_callback = "none" \/ measuring_failed
                   \/ heard >= passes_required

ListenInv == CountIsTrue /\ RampAfterQuiet

LEMMA ListenInvStep ==
    ASSUME passes_required <= max_rssi_measurements, TypeOK, ListenInv, [Next]_vars
    PROVE  ListenInv'
<1> USE RfPowerConstants, Measurements DEF ListenInv, CountIsTrue, RampAfterQuiet
<1>0. /\ total_num_rssi_measurements \in Nat /\ under_limit_count \in Nat
      /\ heard \in Nat
  BY DEF TypeOK
<1>1. CASE Register \/ Unregister \/ StoreVariables
  BY <1>1 DEF Register, Unregister, StoreVariables, listening
<1>2. CASE CwOn
  BY <1>2 DEF CwOn, Returns, listening, manager
<1>3. CASE ObserveOffTime
  BY <1>3 DEF ObserveOffTime, StopsWith, Returns, listening, manager
<1>4. CASE PreRamp
  BY <1>4 DEF PreRamp, StopsWith, Returns, manager
<1>5. CASE Listen
  <2>1. PICK batch \in Batch :
        LET under == count_under_rssi_limit(batch, under_limit_count)
            noisy == noisy_seen \/ \E i \in DOMAIN batch : batch[i] = "noisy"
        IN /\ under_limit_count' = under /\ noisy_seen' = noisy
           /\ \/ heard' = InARow(batch, heard)
                 /\ UNCHANGED <<failures, measuring_failed>>
              \/ heard' = 0 /\ measuring_failed' = TRUE /\ MayFail
           /\ IF under >= passes_required THEN Verdict(FALSE)
              ELSE UNCHANGED <<cw, manager, pc, result, call, ramp>>
    BY <1>5 DEF Listen
  <2>2. /\ total_num_rssi_measurements' = total_num_rssi_measurements + num_measurements
        /\ pc = "listen"
    BY <1>5 DEF Listen
  <2>3. InARow(batch, under_limit_count) \in Nat /\ InARow(batch, heard) \in Nat
    BY <1>0, RowAfterBatch
  <2>4. /\ under_limit_count' = InARow(batch, under_limit_count)
        /\ pc' = "ramp" => under_limit_count' >= passes_required
    BY <2>1, <2>2, <2>3 DEF count_under_rssi_limit, Verdict
  <2>5. ASSUME ~measuring_failed'
        PROVE  /\ heard' = under_limit_count'
               /\ ~noisy_seen' => heard' = total_num_rssi_measurements'
    <3>1. heard' = InARow(batch, heard) /\ ~measuring_failed
      BY <2>1, <2>5
    <3>2. heard' = under_limit_count'
      BY <2>2, <2>4, <3>1
    <3>3. ASSUME ~noisy_seen' PROVE heard' = total_num_rssi_measurements'
      <4>1. ~noisy_seen /\ \A i \in DOMAIN batch : batch[i] # "noisy"
        BY <2>1, <3>3
      <4>2. heard' = heard + num_measurements
        BY <1>0, <3>1, <4>1, RowAfterBatch
      <4>3. QED
        BY <1>0, <2>2, <3>1, <4>1, <4>2
    <3>4. QED
      BY <3>2, <3>3
  <2>6. QED
    BY <2>4, <2>5
<1>6. CASE ListenGivesUp
  <2>1. /\ pc = "listen" /\ total_num_rssi_measurements >= max_rssi_measurements
        /\ pc' = "idle" \/ (pc' = "ramp" /\ ~noisy_seen)
    BY <1>6 DEF ListenGivesUp, Verdict, StopsWith, Returns
  <2>2. UNCHANGED listening
    BY <1>6 DEF ListenGivesUp
  <2>3. QED
    BY <1>0, <2>1, <2>2 DEF listening
<1>7. CASE ListenFails
  BY <1>7 DEF ListenFails, Verdict, StopsWith, Returns
<1>8. CASE RunAggregateOp
  BY <1>8 DEF RunAggregateOp, listening, manager
<1>9. CASE PostRamp \/ Disconnected \/ StopOpAndRampDown \/ RampsDown
  BY <1>9 DEF PostRamp, Disconnected, StopOpAndRampDown, RampsDown, Returns,
     listening, manager
<1>10. CASE UNCHANGED vars
  BY <1>10 DEF vars, listening, manager
<1>11. QED
  BY <1>1, <1>2, <1>3, <1>4, <1>5, <1>6, <1>7, <1>8, <1>9, <1>10
     DEF Next, CwOnStep

(* With listen before talk registered, whatever the size of its batches    *)
(* and wherever a row of quiet measurements begins, the transmitter comes  *)
(* up only after passes_required of them in a row, unless a measurement    *)
(* failed.  The limit of measurements must leave room for such a row.      *)
THEOREM ListensBeforeRamp ==
    ASSUME passes_required <= max_rssi_measurements
    PROVE  Spec => ListensFirst
<1>1. Init => ListenInv
  BY DEF Init, ListenInv, CountIsTrue, RampAfterQuiet
<1>2. TypeOK /\ ListenInv /\ [Next]_vars => ListenInv'
  BY ListenInvStep
<1>3. ListenInv /\ [Next]_vars =>
        [cw' /\ ~cw => \/ pre_ramp_callback = "none" \/ measuring_failed
                       \/ heard >= passes_required]_vars
  <2>1. ASSUME Next, cw', ~cw PROVE pc = "ramp"
    <3>1. CASE Register \/ Unregister \/ StoreVariables \/ CwOn
      BY <2>1, <3>1 DEF Register, Unregister, StoreVariables, CwOn
    <3>2. CASE ObserveOffTime \/ PreRamp
      BY <2>1, <3>2 DEF ObserveOffTime, PreRamp, StopsWith
    <3>3. CASE Listen
      BY <2>1, <3>3 DEF Listen, Verdict, StopsWith
    <3>4. CASE ListenGivesUp \/ ListenFails
      BY <2>1, <3>4 DEF ListenGivesUp, ListenFails, Verdict, StopsWith
    <3>5. CASE RunAggregateOp
      BY <3>5 DEF RunAggregateOp
    <3>6. CASE PostRamp
      BY <2>1, <3>6 DEF PostRamp
    <3>7. CASE Disconnected
      BY <2>1, <3>7 DEF Disconnected
    <3>8. CASE StopOpAndRampDown
      BY <2>1, <3>8 DEF StopOpAndRampDown
    <3>9. CASE RampsDown
      BY <2>1, <3>9 DEF RampsDown
    <3>10. QED
      BY <2>1, <3>1, <3>2, <3>3, <3>4, <3>5, <3>6, <3>7, <3>8, <3>9
         DEF Next, CwOnStep
  <2>2. QED
    BY <2>1 DEF ListenInv, RampAfterQuiet
<1>4. QED
  BY <1>1, <1>2, <1>3, TypeCorrect, PTL DEF Spec, ListensFirst

-----------------------------------------------------------------------------
(* A transmitter on which nobody has looked is told of, except while       *)
(* cw_on() is looking; then it has come up in this call.                   *)
TellInv ==
    /\ pc \notin {"post", "down"} /\ cw /\ ~checked => told
    /\ pc = "post" => came_up
    /\ SuccessMeansOn

LEMMA TellInvStep == TellInv /\ [Next]_vars => TellInv'
<1> SUFFICES ASSUME TellInv, [Next]_vars PROVE TellInv'
  OBVIOUS
<1> USE DEF TellInv, SuccessMeansOn, Returns, StopsWith, call, ramp, manager
<1>1. CASE Register \/ Unregister \/ StoreVariables
  BY <1>1 DEF Register, Unregister, StoreVariables
<1>2. CASE CwOn
  <2>1. PICK is_on \in BOOLEAN :
            /\ \/ is_on = cw /\ status_lost' = FALSE
               \/ is_on # cw /\ status_lost' = TRUE
            /\ IF is_on THEN Returns("success")
               ELSE pc' = "timer" /\ UNCHANGED <<result, told>>
    BY <1>2 DEF CwOn
  <2>2. came_up' = cw /\ UNCHANGED <<cw, checked>> /\ pc = "idle"
    BY <1>2 DEF CwOn
  <2>3. CASE is_on
    BY <2>1, <2>2, <2>3
  <2>4. CASE ~is_on
    BY <2>1, <2>2, <2>4
  <2>5. QED
    BY <2>3, <2>4
<1>3. CASE ObserveOffTime \/ PreRamp
  BY <1>3 DEF ObserveOffTime, PreRamp
<1>4. CASE Listen
  BY <1>4 DEF Listen, Verdict
<1>5. CASE ListenGivesUp \/ ListenFails
  BY <1>5 DEF ListenGivesUp, ListenFails, Verdict
<1>6. CASE RunAggregateOp
  BY <1>6 DEF RunAggregateOp, Up
<1>7. CASE PostRamp
  BY <1>7 DEF PostRamp
<1>8. CASE Disconnected
  BY <1>8 DEF Disconnected
<1>9. CASE StopOpAndRampDown
  BY <1>9 DEF StopOpAndRampDown
<1>10. CASE RampsDown
  BY <1>10 DEF RampsDown
<1>11. CASE UNCHANGED vars
  BY <1>11 DEF vars
<1>12. QED
  BY <1>1, <1>2, <1>3, <1>4, <1>5, <1>6, <1>7, <1>8, <1>9, <1>10, <1>11
     DEF Next, CwOnStep

(* However many commands fail: a transmitter that stays on without its     *)
(* check has been told of by an error, and success means that it has been  *)
(* on, unless the read of its status failed.                               *)
THEOREM ResultsAreTrue == Spec => []ResultIsTrue
<1>1. Init => TellInv
  BY DEF Init, TellInv, SuccessMeansOn
<1>2. TellInv => ResultIsTrue
  BY DEF TellInv, ResultIsTrue, UncheckedIsTold
<1>3. QED
  BY <1>1, <1>2, TellInvStep, PTL DEF Spec
=============================================================================
