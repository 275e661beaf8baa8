----------------------------- MODULE DeviceProofs -----------------------------
(***************************************************************************)
(* Proofs about Device, for images of any length and any number of         *)
(* failures and restarts: the safety of the calls, and what a power mode,  *)
(* a reset and an error of an upload promise.                              *)
(*                                                                         *)
(* Most operators leave alone what the promises are about.  Leaves says    *)
(* so of one outcome t of an operator at s; it is shown once for the       *)
(* transfers, and then operator by operator.                               *)
(***************************************************************************)
EXTENDS Device, NaturalsInduction, WellFoundedInduction, TLAPS

(* Two states that differ at most in the books: the result, the location   *)
(* read last and the failures so far.                                      *)
Same(s, t) ==
    /\ t \in States /\ t.failures >= s.failures
    /\ t.powered = s.powered /\ t.at = s.at /\ t.image_valid = s.image_valid
    /\ t.radio = s.radio /\ t.pa = s.pa /\ t.cw = s.cw /\ t.mask = s.mask
    /\ t.received = s.received /\ t.clock = s.clock /\ t.power_mode = s.power_mode
    /\ t.registered = s.registered /\ t.handlers = s.handlers
    /\ t.interrupt_callback = s.interrupt_callback
    /\ t.fifo_data_callback = s.fifo_data_callback
    /\ t.upload_remaining_length = s.upload_remaining_length
    /\ t.phase = s.phase /\ t.crashes = s.crashes /\ t.call = s.call
    /\ t.upload = s.upload /\ t.cut_hot = s.cut_hot /\ t.hung = s.hung

(* The inductive invariant.  Only the application opens the interrupt      *)
(* mask, so a chip with power and an open mask answers, whatever the speed *)
(* of the interface; when an upload is over there is nothing left of it.    *)
Good(s) ==
    /\ s \in States /\ ~s.cut_hot
    /\ s.mask => s.at = "Application"
    /\ s.mask /\ s.powered => s.interrupt_callback
    /\ s.upload = "over" => s.upload_remaining_length = 0

(* What t, an outcome of an operator at s, leaves alone. *)
Leaves(s, t) ==
    /\ Good(t) /\ t.failures >= s.failures
    /\ t.power_mode = s.power_mode /\ t.upload = s.upload /\ t.hung = s.hung
    /\ t.upload_remaining_length \in {s.upload_remaining_length, 0}
    /\ t.received \in {s.received, 0}

LEMMA SameIsReflexive == ASSUME NEW s \in States PROVE Same(s, s)
BY DeviceConstants DEF Same, States

LEMMA SameIsTransitive ==
    ASSUME NEW s \in States, NEW t, NEW u, Same(s, t), Same(t, u) PROVE Same(s, u)
<1>1. u.failures >= s.failures
  BY DeviceConstants DEF Same, States
<1>2. QED
  BY <1>1 DEF Same

LEMMA SameLeaves == ASSUME NEW s, NEW t, Good(s), Same(s, t) PROVE Leaves(s, t)
<1>1. Good(t)
  BY DEF Good, Same
<1>2. QED
  BY <1>1 DEF Leaves, Same

LEMMA LeavesIsReflexive == ASSUME NEW s, Good(s) PROVE Leaves(s, s)
<1>1. s \in States
  BY DEF Good
<1>2. QED
  BY <1>1, SameLeaves, SameIsReflexive

LEMMA LeavesIsTransitive ==
    ASSUME NEW s, NEW t, NEW u, Good(s), Leaves(s, t), Leaves(t, u) PROVE Leaves(s, u)
<1>1. s \in States /\ t \in States /\ u \in States
  BY DEF Leaves, Good
<1>2. {s.failures, t.failures, u.failures} \subseteq Nat
  BY <1>1, DeviceConstants DEF States
<1>3. u.failures >= s.failures
  BY <1>2 DEF Leaves
<1>4. QED
  BY <1>3 DEF Leaves

-----------------------------------------------------------------------------
(* The result, the location and the failures are the books. *)
LEMMA ResultIsNoted ==
    ASSUME NEW s \in States, NEW b \in BOOLEAN
    PROVE  LET t == [s EXCEPT !.ok = b]
           IN  Same(s, t) /\ t.ok = b /\ t.loc = s.loc /\ t.failures = s.failures
<1> DEFINE t == [s EXCEPT !.ok = b]
<1>1. t \in States /\ t.ok = b /\ t.loc = s.loc /\ t.failures = s.failures
  BY DEF States
<1>2. Same(s, t)
  BY <1>1, DeviceConstants DEF Same, States
<1>3. QED
  BY <1>1, <1>2

LEMMA LocationIsNoted ==
    ASSUME NEW s \in States, NEW l \in Locations
    PROVE  LET t == [s EXCEPT !.loc = l]
           IN  Same(s, t) /\ t.ok = s.ok /\ t.loc = l /\ t.failures = s.failures
<1> DEFINE t == [s EXCEPT !.loc = l]
<1>1. t \in States /\ t.ok = s.ok /\ t.loc = l /\ t.failures = s.failures
  BY DEF States
<1>2. Same(s, t)
  BY <1>1, DeviceConstants DEF Same, States
<1>3. QED
  BY <1>1, <1>2

LEMMA OkOutcome ==
    ASSUME NEW s \in States
    PROVE  Same(s, Ok(s)) /\ Ok(s).ok /\ Ok(s).loc = s.loc /\ Ok(s).failures = s.failures
BY ResultIsNoted DEF Ok

LEMMA ErrOutcome ==
    ASSUME NEW s \in States
    PROVE  Same(s, Err(s)) /\ ~Err(s).ok /\ Err(s).loc = s.loc /\ Err(s).failures = s.failures
BY ResultIsNoted DEF Err

LEMMA FailsOutcome ==
    ASSUME NEW s \in States, NEW t \in Fails(s)
    PROVE  Same(s, t) /\ ~t.ok /\ t.failures > s.failures
<1> DEFINE u == [s EXCEPT !.failures = @ + 1]
<1>1. s.failures < MaxFailures /\ t = Err(u)
  BY DEF Fails
<1>2. s.failures \in Nat /\ s.failures + 1 \in 0 .. MaxFailures
  BY <1>1, DeviceConstants DEF States
<1>3. u \in States /\ u.failures = s.failures + 1
  BY <1>2 DEF States
<1>4. Same(s, u)
  BY <1>2, <1>3 DEF Same, States
<1>5. Same(u, t) /\ ~t.ok /\ t.failures = u.failures
  BY <1>1, <1>3, ErrOutcome
<1> HIDE DEF u
<1>6. QED
  BY <1>2, <1>3, <1>4, <1>5, SameIsTransitive

(* A write leaves the state as it was, or as it should be after it: then   *)
(* the chip has heard it.                                                  *)
LEMMA WriteOutcome ==
    ASSUME NEW s \in States, NEW after \in States, NEW t \in Write(s, after)
    PROVE  /\ Same(s, t) \/ (Responds(s) /\ Same(after, t))
           /\ t.ok => Same(after, t) \/ (~Responds(s) /\ Same(s, t))
           /\ Responds(s) /\ after.failures = s.failures /\ t.failures = s.failures
                => t.ok /\ Same(after, t)
<1>1. CASE Responds(s)
  <2>1. t = Ok(after) \/ t \in Fails(s) \/ t \in Fails(after)
    BY <1>1 DEF Write
  <2>2. CASE t = Ok(after)
    BY <1>1, <2>2, OkOutcome
  <2>3. CASE t \in Fails(s)
    <3>1. s.failures \in Nat /\ Same(s, t) /\ ~t.ok /\ t.failures > s.failures
      BY <2>3, FailsOutcome, DeviceConstants DEF States
    <3>2. t.failures # s.failures
      BY <3>1 DEF Same, States
    <3>3. QED
      BY <3>1, <3>2
  <2>4. CASE t \in Fails(after)
    <3>1. after.failures \in Nat /\ Same(after, t) /\ ~t.ok /\ t.failures > after.failures
      BY <2>4, FailsOutcome, DeviceConstants DEF States
    <3>2. t.failures # after.failures
      BY <3>1 DEF Same, States
    <3>3. QED
      BY <1>1, <3>1, <3>2
  <2>5. QED
    BY <2>1, <2>2, <2>3, <2>4
<1>2. CASE ~Responds(s)
  <2>1. t = Ok(s) \/ t = Err(s)
    BY <1>2 DEF Write
  <2>2. QED
    BY <1>2, <2>1, OkOutcome, ErrOutcome
<1>3. QED
  BY <1>1, <1>2

LEMMA WriteLeaves ==
    ASSUME NEW s, NEW after, NEW t \in Write(s, after), Good(s), Leaves(s, after)
    PROVE  Leaves(s, t)
<1>1. s \in States /\ after \in States /\ Good(after)
  BY DEF Good, Leaves
<1>2. Same(s, t) \/ Same(after, t)
  BY <1>1, WriteOutcome
<1>3. QED
  BY <1>1, <1>2, SameLeaves, LeavesIsTransitive

(* A read changes nothing, and only a chip that answers is read. *)
LEMMA ReadOutcome ==
    ASSUME NEW s \in States, NEW t \in Read(s)
    PROVE  /\ Same(s, t) /\ (t.ok => Responds(s))
           /\ Responds(s) /\ t.failures = s.failures => t.ok
<1>1. CASE Responds(s)
  <2>1. t = Ok(s) \/ t \in Fails(s)
    BY <1>1 DEF Read
  <2>2. CASE t = Ok(s)
    BY <1>1, <2>2, OkOutcome
  <2>3. CASE t \in Fails(s)
    <3>1. s.failures \in Nat /\ Same(s, t) /\ ~t.ok /\ t.failures > s.failures
      BY <2>3, FailsOutcome, DeviceConstants DEF States
    <3>2. t.failures # s.failures
      BY <3>1 DEF Same, States
    <3>3. QED
      BY <3>1, <3>2
  <2>4. QED
    BY <2>1, <2>2, <2>3
<1>2. CASE ~Responds(s)
  <2>1. t = Err(s)
    BY <1>2 DEF Read
  <2>2. QED
    BY <1>2, <2>1, ErrOutcome
<1>3. QED
  BY <1>1, <1>2

LEMMA ReadLeaves ==
    ASSUME NEW s, NEW t \in Read(s), Good(s) PROVE Leaves(s, t)
<1>1. s \in States
  BY DEF Good
<1>2. QED
  BY <1>1, ReadOutcome, SameLeaves

(* Where the chip runs is read right unless a transfer fails. *)
LEMMA LocationOutcome ==
    ASSUME NEW s \in States, NEW t \in get_running_location(s)
    PROVE  /\ Same(s, t)
           /\ t.ok => Responds(s) /\ t.loc = s.at
           /\ Responds(s) /\ t.failures = s.failures => t.ok
<1>1. PICK u \in Read(s) : t \in IF u.ok THEN {[u EXCEPT !.loc = u.at]}
                                 ELSE {[u EXCEPT !.loc = l] : l \in Locations}
  BY DEF get_running_location
<1>2. /\ Same(s, u) /\ (u.ok => Responds(s))
      /\ Responds(s) /\ u.failures = s.failures => u.ok
  BY ReadOutcome
<1>3. u \in States /\ u.at \in Locations /\ u.at = s.at /\ u.ok \in BOOLEAN
  BY <1>2 DEF Same, States, Locations
<1>4. PICK l \in Locations : t = [u EXCEPT !.loc = l] /\ (u.ok => l = u.at)
  BY <1>1, <1>3
<1>5. Same(u, t) /\ t.ok = u.ok /\ t.loc = l /\ t.failures = u.failures
  BY <1>3, <1>4, LocationIsNoted
<1>6. Same(s, t)
  BY <1>2, <1>5, SameIsTransitive
<1>7. QED
  BY <1>2, <1>3, <1>4, <1>5, <1>6

LEMMA LocationLeaves ==
    ASSUME NEW s, NEW t \in get_running_location(s), Good(s) PROVE Leaves(s, t)
<1>1. s \in States
  BY DEF Good
<1>2. QED
  BY <1>1, LocationOutcome, SameLeaves

-----------------------------------------------------------------------------
(* The interface. *)
LEMMA ReopenOutcome ==
    ASSUME NEW s \in States, NEW speed \in {"boot", "default"},
           NEW t \in host_if_reopen(s, speed)
    PROVE  \/ t.ok /\ t.failures = s.failures /\ Same([s EXCEPT !.clock = speed], t)
           \/ ~t.ok /\ t.failures # s.failures /\ Same(s, t)
<1> DEFINE u == [s EXCEPT !.clock = speed]
<1>1. t = Ok(u) \/ t \in Fails(s)
  BY DEF host_if_reopen
<1>2. u \in States /\ u.failures = s.failures
  BY DEF States
<1>3. CASE t = Ok(u)
  BY <1>2, <1>3, OkOutcome
<1>4. CASE t \in Fails(s)
  <2>1. s.failures \in Nat /\ Same(s, t) /\ ~t.ok /\ t.failures > s.failures
    BY <1>4, FailsOutcome, DeviceConstants DEF States
  <2>2. t.failures # s.failures
    BY <2>1 DEF Same, States
  <2>3. QED
    BY <2>1, <2>2
<1>5. QED
  BY <1>1, <1>3, <1>4

LEMMA SpeedLeaves ==
    ASSUME NEW s, Good(s), NEW speed \in {"boot", "default"}
    PROVE  Leaves(s, [s EXCEPT !.clock = speed])
<1> DEFINE u == [s EXCEPT !.clock = speed]
<1>1. u \in States
  BY DEF Good, States
<1>2. Good(u)
  BY <1>1 DEF Good, States
<1>3. QED
  BY <1>2, DeviceConstants DEF Leaves, Good, States

LEMMA ReopenLeaves ==
    ASSUME NEW s, Good(s), NEW speed \in {"boot", "default"},
           NEW t \in host_if_reopen(s, speed)
    PROVE  Leaves(s, t)
<1> DEFINE u == [s EXCEPT !.clock = speed]
<1>1. s \in States
  BY DEF Good
<1>2. Same(u, t) \/ Same(s, t)
  BY <1>1, ReopenOutcome
<1>3. Leaves(s, u) /\ Good(u)
  BY SpeedLeaves DEF Leaves
<1> HIDE DEF u
<1>4. QED
  BY <1>2, <1>3, SameLeaves, LeavesIsTransitive

-----------------------------------------------------------------------------
(* Operations.  One that succeeds ran in an application with power.        *)
LEMMA CompletionOutcome ==
    ASSUME NEW s \in States, NEW t \in wait_op_completion(s)
    PROVE  Same(s, t) /\ (t.ok => s.at = "Application" /\ Responds(s))
<1>1. CASE s.at = "Application"
  BY <1>1, ReadOutcome DEF wait_op_completion
<1>2. CASE s.at # "Application"
  <2>1. t = Err(s)
    BY <1>2 DEF wait_op_completion
  <2>2. QED
    BY <2>1, ErrOutcome
<1>3. QED
  BY <1>1, <1>2

LEMMA OpOutcome ==
    ASSUME NEW s \in States, NEW after \in States, NEW t \in Op(s, after)
    PROVE  /\ Same(s, t) \/ Same(after, t)
           /\ t.ok => /\ s.at = "Application" /\ s.powered /\ Same(after, t)
                      /\ t.at = "Application" /\ t.powered
<1> DEFINE reached == IF s.at = "Application" THEN after ELSE s
<1>1. PICK u \in Write(s, reached) : t \in IF u.ok THEN wait_op_completion(u) ELSE {u}
  BY DEF Op, Then, Always
<1>2. reached \in States
  OBVIOUS
<1> HIDE DEF reached
<1>3. /\ Same(s, u) \/ Same(reached, u)
      /\ u.ok => Same(reached, u) \/ (~Responds(s) /\ Same(s, u))
  BY <1>2, WriteOutcome
<1>4. u \in States
  BY <1>3 DEF Same
<1>5. Same(u, t) /\ (t.ok => u.ok /\ u.at = "Application" /\ Responds(u))
  BY <1>1, <1>4, CompletionOutcome, SameIsReflexive
<1>6. Same(s, t) \/ Same(reached, t)
  BY <1>2, <1>3, <1>5, SameIsTransitive
<1>7. ASSUME t.ok
      PROVE  s.at = "Application" /\ s.powered /\ Same(after, t)
             /\ t.at = "Application" /\ t.powered
  <2>1. u.ok /\ u.at = "Application" /\ Responds(u)
    BY <1>5, <1>7
  <2>2. u.powered
    BY <2>1 DEF Responds
  <2>3. Same(reached, u)
    <3>1. CASE ~Responds(s) /\ Same(s, u)
      BY <2>1, <3>1 DEF Same, Responds
    <3>2. QED
      BY <1>3, <2>1, <3>1
  <2>4. s.at = "Application"
    BY <2>1, <2>3 DEF reached, Same
  <2>5. Same(after, t) /\ t.at = u.at /\ t.powered = u.powered
    BY <1>2, <1>5, <2>3, <2>4, SameIsTransitive DEF reached, Same
  <2>6. s.powered
    <3>1. CASE Responds(s)
      BY <3>1 DEF Responds
    <3>2. CASE ~Responds(s)
      <4>1. Same(s, u)
        BY <1>1, <1>2, <2>1, <3>2, WriteOutcome
      <4>2. QED
        BY <2>2, <4>1 DEF Same
    <3>3. QED
      BY <3>1, <3>2
  <2>7. QED
    BY <2>1, <2>2, <2>4, <2>5, <2>6
<1>8. QED
  BY <1>6, <1>7 DEF reached

LEMMA OpLeaves ==
    ASSUME NEW s, NEW after, Good(s), Leaves(s, after), NEW t \in Op(s, after)
    PROVE  Leaves(s, t)
<1>1. s \in States /\ after \in States /\ Good(after)
  BY DEF Good, Leaves
<1>2. Same(s, t) \/ Same(after, t)
  BY <1>1, OpOutcome
<1>3. QED
  BY <1>1, <1>2, SameLeaves, LeavesIsTransitive

(* The states the operations lead to. *)
LEMMA RadioLeaves ==
    ASSUME NEW s, Good(s), NEW enable \in BOOLEAN
    PROVE  LET u == [s EXCEPT !.radio = enable, !.cw = @ /\ enable]
           IN  /\ Leaves(s, u) /\ u.radio = enable /\ u.pa = s.pa
               /\ (u.cw => s.cw /\ enable)
<1> DEFINE u == [s EXCEPT !.radio = enable, !.cw = @ /\ enable]
<1>1. s \in States /\ s.cw \in BOOLEAN
  BY DEF Good, States
<1>2. PICK on \in BOOLEAN : on = (s.cw /\ enable)
  BY <1>1, Zenon
<1>3. u = [s EXCEPT !.radio = enable, !.cw = on]
  BY <1>2, Zenon
<1>4. u \in States
  BY <1>1, <1>3 DEF States
<1>5. u.radio = enable /\ u.pa = s.pa
  BY <1>1, <1>3 DEF States
<1>6. u.cw = on
  BY <1>1, <1>3 DEF States
<1>7. Good(u)
  BY <1>1, <1>3, <1>4 DEF Good, States
<1>8. Leaves(s, u)
  BY <1>1, <1>3, <1>7, DeviceConstants DEF Leaves, States
<1>9. u.cw => s.cw /\ enable
  BY <1>2, <1>6, Zenon
<1>10. QED
  BY <1>5, <1>8, <1>9

(* The PA may lose its supply only when the transmitter is off. *)
Supplied(s, enable) ==
    [s EXCEPT !.pa = enable, !.cut_hot = @ \/ (s.cw /\ s.pa /\ ~enable)]

LEMMA PinsLeave ==
    ASSUME NEW s, Good(s), NEW enable \in BOOLEAN, enable \/ ~s.cw
    PROVE  LET u == Supplied(s, enable)
           IN  /\ Leaves(s, u) /\ u.pa = enable
               /\ u.radio = s.radio /\ u.cw = s.cw
<1> DEFINE u == Supplied(s, enable)
<1>1. s \in States /\ s.cut_hot = FALSE
  BY DEF Good, States
<1>2. (s.cut_hot \/ (s.cw /\ s.pa /\ ~enable)) = FALSE
  BY <1>1, Zenon
<1>3. u = [s EXCEPT !.pa = enable, !.cut_hot = FALSE]
  BY <1>2, Zenon DEF Supplied
<1> HIDE DEF u
<1>4. u \in States
  BY <1>1, <1>3 DEF States
<1>5. u.pa = enable /\ u.radio = s.radio /\ u.cw = s.cw
  BY <1>1, <1>3 DEF States
<1>6. Good(u)
  BY <1>1, <1>3, <1>4 DEF Good, States
<1>7. Leaves(s, u)
  BY <1>1, <1>3, <1>6, DeviceConstants DEF Leaves, States
<1>8. QED
  BY <1>5, <1>7 DEF u

LEMMA RampLeaves ==
    ASSUME NEW s, Good(s)
    PROVE  LET u == [s EXCEPT !.cw = FALSE]
           IN  Leaves(s, u) /\ u.cw = FALSE
<1> DEFINE u == [s EXCEPT !.cw = FALSE]
<1>1. s \in States /\ u \in States
  BY DEF Good, States
<1>2. Good(u)
  BY <1>1 DEF Good, States
<1>3. QED
  BY <1>1, <1>2, DeviceConstants DEF Leaves, States

-----------------------------------------------------------------------------
(* What each of the operations makes true if it succeeds. *)
LEMMA RadioOutcome ==
    ASSUME NEW s, Good(s), NEW enable \in BOOLEAN,
           NEW t \in radio_power_control(s, enable)
    PROVE  /\ Leaves(s, t)
           /\ t.ok => /\ t.powered /\ t.at = "Application"
                      /\ t.radio = enable /\ t.pa = s.pa /\ (t.cw => s.cw /\ enable)
<1> DEFINE u == [s EXCEPT !.radio = enable, !.cw = @ /\ enable]
<1>1. t \in Op(s, u)
  BY DEF radio_power_control
<1>2. Leaves(s, u) /\ u.radio = enable /\ u.pa = s.pa /\ (u.cw => s.cw /\ enable)
  BY RadioLeaves
<1> HIDE DEF u
<1>3. s \in States /\ u \in States
  BY <1>2 DEF Good, Leaves
<1>4. Leaves(s, t)
  BY <1>1, <1>2, OpLeaves
<1>5. t.ok => t.powered /\ t.at = "Application" /\ Same(u, t)
  BY <1>1, <1>3, OpOutcome
<1>6. QED
  BY <1>2, <1>4, <1>5 DEF Same

LEMMA PinsOutcome ==
    ASSUME NEW s, Good(s), NEW enable \in BOOLEAN, enable \/ ~s.cw,
           NEW t \in set_clear_gpio_pins(s, enable)
    PROVE  /\ Leaves(s, t)
           /\ t.ok => /\ t.powered /\ t.at = "Application"
                      /\ t.pa = enable /\ t.radio = s.radio /\ t.cw = s.cw
<1> DEFINE u == Supplied(s, enable)
<1>1. t \in Op(s, u)
  BY DEF set_clear_gpio_pins, Supplied
<1>2. Leaves(s, u) /\ u.pa = enable /\ u.radio = s.radio /\ u.cw = s.cw
  BY PinsLeave
<1> HIDE DEF u
<1>3. s \in States /\ u \in States
  BY <1>2 DEF Good, Leaves
<1>4. Leaves(s, t)
  BY <1>1, <1>2, OpLeaves
<1>5. t.ok => t.powered /\ t.at = "Application" /\ Same(u, t)
  BY <1>1, <1>3, OpOutcome
<1>6. QED
  BY <1>2, <1>4, <1>5 DEF Same

LEMMA PlainOpOutcome ==
    ASSUME NEW s, Good(s), NEW t \in Op(s, s)
    PROVE  Leaves(s, t) /\ (t.ok => t.powered /\ Same(s, t))
<1>1. s \in States /\ Leaves(s, s)
  BY LeavesIsReflexive DEF Good
<1>2. QED
  BY <1>1, OpLeaves, OpOutcome

LEMMA StopOutcome ==
    ASSUME NEW s, Good(s), NEW t \in stop_op_and_ramp_down(s)
    PROVE  Leaves(s, t) /\ (t.ok => t.powered /\ t.cw = FALSE)
<1>1. PICK a \in Op(s, s) : t \in IF a.ok THEN tx_ramp_down(a) ELSE {a}
  BY DEF stop_op_and_ramp_down, Then, Always
<1>2. Leaves(s, a) /\ Good(a)
  BY PlainOpOutcome DEF Leaves
<1>3. CASE ~a.ok
  BY <1>1, <1>2, <1>3
<1>4. CASE a.ok
  <2> DEFINE u == [a EXCEPT !.cw = FALSE]
  <2>1. t \in Op(a, u)
    BY <1>1, <1>4 DEF tx_ramp_down
  <2>2. Leaves(a, u) /\ u.cw = FALSE
    BY <1>2, RampLeaves
  <2> HIDE DEF u
  <2>3. a \in States /\ u \in States
    BY <1>2, <2>2 DEF Good, Leaves
  <2>4. Leaves(a, t)
    BY <1>2, <2>1, <2>2, OpLeaves
  <2>5. t.ok => t.powered /\ Same(u, t)
    BY <2>1, <2>3, OpOutcome
  <2>6. Leaves(s, t)
    BY <1>2, <2>4, LeavesIsTransitive
  <2>7. QED
    BY <2>2, <2>5, <2>6 DEF Same
<1>5. QED
  BY <1>3, <1>4

(* rf_init_ex10(): the radio is on. *)
LEMMA RfInitOutcome ==
    ASSUME NEW s, Good(s), NEW t \in rf_init_ex10(s)
    PROVE  Leaves(s, t) /\ (t.ok => t.powered /\ t.radio = TRUE)
<1>1. PICK a \in radio_power_control(s, TRUE) : t \in IF a.ok THEN Op(a, a) ELSE {a}
  BY DEF rf_init_ex10, Then, Always
<1>2. Leaves(s, a) /\ Good(a) /\ (a.ok => a.radio = TRUE)
  BY <1>1, RadioOutcome DEF Leaves
<1>3. CASE ~a.ok
  BY <1>1, <1>2, <1>3
<1>4. CASE a.ok
  <2>1. Leaves(a, t) /\ (t.ok => t.powered /\ Same(a, t))
    BY <1>1, <1>2, <1>4, PlainOpOutcome
  <2>2. Leaves(s, t)
    BY <1>2, <2>1, LeavesIsTransitive
  <2>3. QED
    BY <1>2, <1>4, <2>1, <2>2 DEF Same
<1>5. QED
  BY <1>3, <1>4

-----------------------------------------------------------------------------
(* Power and boot.  A boot closes the interrupt mask, and turns off what   *)
(* transmits.                                                              *)
Places == {"Bootloader", "Application"}

LEMMA BootOutcome ==
    ASSUME NEW s \in States, NEW place \in Places
    PROVE  LET u == Booted(s, place)
           IN  /\ u \in States /\ u.mask = FALSE
               /\ u.at = (IF s.image_valid THEN place ELSE "Bootloader")
               /\ u.image_valid = s.image_valid
               /\ u.received = 0 /\ u.cut_hot = s.cut_hot /\ u.hung = s.hung
               /\ u.upload = s.upload /\ u.power_mode = s.power_mode
               /\ u.upload_remaining_length = s.upload_remaining_length
               /\ u.powered = s.powered /\ u.clock = s.clock /\ u.failures = s.failures
               /\ u.registered = s.registered /\ u.handlers = s.handlers
<1> DEFINE l == IF s.image_valid THEN place ELSE "Bootloader"
           u == [s EXCEPT !.at = l, !.radio = FALSE, !.pa = FALSE, !.cw = FALSE,
                          !.mask = FALSE, !.received = 0]
<1>1. l \in Places
  BY DEF Places
<1> HIDE DEF l
<1>2. u \in States
  <2> DEFINE off == [s EXCEPT !.at = l, !.radio = FALSE, !.pa = FALSE]
             quiet == [off EXCEPT !.cw = FALSE, !.mask = FALSE]
  <2>1. off \in States
    BY <1>1 DEF States, Places
  <2> HIDE DEF off
  <2>2. quiet \in States
    BY <2>1 DEF States
  <2> HIDE DEF quiet
  <2>3. 0 \in 0 .. ImageLength + 1
    BY DeviceConstants
  <2>4. [quiet EXCEPT !.received = 0] \in States
    BY <2>2, <2>3 DEF States
  <2>5. u = [quiet EXCEPT !.received = 0]
    BY DEF off, quiet
  <2>6. QED
    BY <2>4, <2>5
<1>3. u.mask = FALSE /\ u.cut_hot = s.cut_hot /\ u.hung = s.hung /\ u.upload = s.upload
  BY DEF States
<1>4. /\ u.at = l /\ u.received = 0 /\ u.power_mode = s.power_mode
      /\ u.upload_remaining_length = s.upload_remaining_length
      /\ u.clock = s.clock /\ u.failures = s.failures
  BY DEF States
<1>5. /\ u.image_valid = s.image_valid /\ u.powered = s.powered
      /\ u.registered = s.registered /\ u.handlers = s.handlers
  BY DEF States
<1>6. u = Booted(s, place)
  BY DEF Booted, l
<1> HIDE DEF u
<1>7. QED
  BY <1>2, <1>3, <1>4, <1>5, <1>6 DEF l

LEMMA BootLeaves ==
    ASSUME NEW s, Good(s), NEW place \in Places PROVE Leaves(s, Booted(s, place))
<1> DEFINE u == Booted(s, place)
<1>1. s \in States
  BY DEF Good
<1>2. /\ u \in States /\ u.mask = FALSE /\ u.received = 0 /\ u.cut_hot = s.cut_hot
      /\ u.hung = s.hung /\ u.upload = s.upload /\ u.power_mode = s.power_mode
      /\ u.upload_remaining_length = s.upload_remaining_length /\ u.failures = s.failures
  BY <1>1, BootOutcome
<1> HIDE DEF u
<1>3. Good(u)
  BY <1>2 DEF Good
<1>4. s.failures \in Nat
  BY <1>1, DeviceConstants DEF States
<1>5. Leaves(s, u)
  BY <1>2, <1>3, <1>4 DEF Leaves
<1>6. QED
  BY <1>5 DEF u

(* Given power, a chip boots: the mask that was open does not matter. *)
LEMMA PoweredBootLeaves ==
    ASSUME NEW s, Good(s), NEW place \in Places
    PROVE  Leaves(s, Booted([s EXCEPT !.powered = TRUE], place))
<1> DEFINE v == [s EXCEPT !.powered = TRUE]
           u == Booted(v, place)
<1>1. s \in States /\ v \in States
  BY DEF Good, States
<1>2. /\ v.hung = s.hung /\ v.upload = s.upload /\ v.power_mode = s.power_mode
      /\ v.upload_remaining_length = s.upload_remaining_length /\ v.failures = s.failures
      /\ v.cut_hot = s.cut_hot
  BY <1>1 DEF States
<1> HIDE DEF v
<1>3. /\ u \in States /\ u.mask = FALSE /\ u.received = 0 /\ u.cut_hot = v.cut_hot
      /\ u.hung = v.hung /\ u.upload = v.upload /\ u.power_mode = v.power_mode
      /\ u.upload_remaining_length = v.upload_remaining_length /\ u.failures = v.failures
  BY <1>1, BootOutcome
<1> HIDE DEF u
<1>4. Good(u)
  BY <1>2, <1>3 DEF Good
<1>5. s.failures \in Nat
  BY <1>1, DeviceConstants DEF States
<1>6. Leaves(s, u)
  BY <1>2, <1>3, <1>4, <1>5 DEF Leaves
<1>7. QED
  BY <1>6 DEF u, v

(* Without handlers nothing hangs when the power is removed. *)
LEMMA PowerDownOutcome ==
    ASSUME NEW s, Good(s)
    PROVE  LET u == power_down(s)
           IN  /\ Good(u) /\ u.powered = FALSE /\ u.received = 0
               /\ (~s.handlers => Leaves(s, u)) /\ u.power_mode = s.power_mode
<1> DEFINE v == Booted(s, "Bootloader")
           hangs == s.powered /\ s.registered /\ s.handlers
<1>1. s \in States /\ "Bootloader" \in Places
  BY DEF Good, Places
<1>2. /\ v \in States /\ v.mask = FALSE /\ v.received = 0 /\ v.cut_hot = s.cut_hot
      /\ v.hung = s.hung /\ v.upload = s.upload /\ v.power_mode = s.power_mode
      /\ v.upload_remaining_length = s.upload_remaining_length /\ v.failures = s.failures
  BY <1>1, BootOutcome
<1>3. v.hung \in BOOLEAN
  BY <1>2 DEF States
<1>4. PICK hung \in BOOLEAN : hung = (v.hung \/ hangs)
  BY <1>3, Zenon
<1> DEFINE u == [v EXCEPT !.powered = FALSE, !.hung = hung]
<1>5. u = power_down(s)
  BY <1>4, Zenon DEF power_down
<1>6. ~s.handlers => hung = v.hung
  BY <1>3, <1>4, Zenon
<1> HIDE DEF v, hangs
<1>65. v \in States
  BY <1>2
<1>7. u \in States
  BY <1>65 DEF States
<1>8. /\ u.powered = FALSE /\ u.mask = FALSE /\ u.cut_hot = v.cut_hot
      /\ u.upload = v.upload /\ u.hung = hung
  BY <1>2 DEF States
<1>9. /\ u.received = 0 /\ u.power_mode = v.power_mode
      /\ u.upload_remaining_length = v.upload_remaining_length
      /\ u.failures = v.failures
  BY <1>2 DEF States
<1> HIDE DEF u
<1>10. Good(u)
  BY <1>2, <1>7, <1>8, <1>9 DEF Good
<1>11. s.failures \in Nat
  BY <1>1, DeviceConstants DEF States
<1>12. ~s.handlers => Leaves(s, u)
  BY <1>2, <1>6, <1>8, <1>9, <1>10, <1>11 DEF Leaves
<1>13. QED
  BY <1>2, <1>5, <1>8, <1>9, <1>10, <1>12

LEMMA PowerUpOutcome ==
    ASSUME NEW s, Good(s), NEW t \in power_up_to_application(s)
    PROVE  Leaves(s, t)
<1> DEFINE u == Booted([s EXCEPT !.powered = TRUE], "Application")
<1>1. PICK a \in host_if_reopen(u, "boot") :
        t \in Always(get_running_location(a),
            LAMBDA b : IF a.ok /\ b.loc = "Application"
                       THEN host_if_reopen(b, "default") ELSE {[b EXCEPT !.ok = a.ok]})
  BY DEF power_up_to_application, Always
<1>2. PICK b \in get_running_location(a) :
            t \in IF a.ok /\ b.loc = "Application"
                  THEN host_if_reopen(b, "default") ELSE {[b EXCEPT !.ok = a.ok]}
  BY <1>1 DEF Always
<1>3. Leaves(s, u) /\ Good(u)
  BY PoweredBootLeaves DEF Places, Leaves
<1> HIDE DEF u
<1>4. Leaves(u, a) /\ Good(a)
  BY <1>3, ReopenLeaves DEF Leaves
<1>5. Leaves(a, b) /\ Good(b)
  BY <1>4, LocationLeaves DEF Leaves
<1>6. a.ok \in BOOLEAN /\ b \in States
  BY <1>4, <1>5 DEF Good, States
<1>7. Leaves(b, t)
  <2>1. CASE t \in host_if_reopen(b, "default")
    BY <1>5, <2>1, ReopenLeaves
  <2>2. CASE t = [b EXCEPT !.ok = a.ok]
    BY <1>5, <1>6, <2>2, ResultIsNoted, SameLeaves
  <2>3. QED
    BY <1>2, <2>1, <2>2
<1>8. QED
  BY <1>3, <1>4, <1>5, <1>7, LeavesIsTransitive

-----------------------------------------------------------------------------
(* Reset. *)
LEMMA UploadResetLeaves ==
    ASSUME NEW s, Good(s)
    PROVE  LET u == upload_reset(s)
           IN  /\ Leaves(s, u) /\ u.failures = s.failures /\ u.clock = s.clock
               /\ u.powered = s.powered /\ u.image_valid = s.image_valid
               /\ u.upload_remaining_length = 0 /\ u.ok = s.ok /\ u.received = s.received
<1> DEFINE u == [s EXCEPT !.upload_remaining_length = 0]
<1>1. s \in States /\ u \in States
  BY DeviceConstants DEF Good, States
<1>2. /\ u.failures = s.failures /\ u.clock = s.clock /\ u.powered = s.powered
      /\ u.image_valid = s.image_valid /\ u.upload_remaining_length = 0
      /\ u.ok = s.ok /\ u.received = s.received
  BY <1>1 DEF States
<1>3. Good(u)
  BY <1>1 DEF Good, States
<1>4. Leaves(s, u)
  BY <1>1, <1>3, DeviceConstants DEF Leaves, States
<1> HIDE DEF u
<1>5. QED
  BY <1>2, <1>4 DEF upload_reset, u

(* reset() gets hold of a chip that has power, unless a transfer or an     *)
(* open fails on the way.                                                  *)
LEMMA ResetOutcome ==
    ASSUME NEW s, Good(s), NEW place \in Places, NEW t \in reset(s, place)
    PROVE  /\ Leaves(s, t)
           /\ s.powered /\ t.failures = s.failures =>
                /\ t.ok => Responds(t)
                /\ ~t.ok => ~s.image_valid
<1>1. PICK a \in host_if_reopen(s, "boot") :
        t \in IF a.ok
              THEN Then(Write(upload_reset(a), Booted(upload_reset(a), place)),
                        LAMBDA b : Always(get_running_location(b),
                            LAMBDA c : IF c.loc # place THEN {Err(c)}
                                       ELSE IF c.loc = "Application"
                                       THEN host_if_reopen(c, "default") ELSE {Ok(c)}))
              ELSE {a}
  BY DEF reset, Then, Always
<1>2. s \in States /\ Leaves(s, a) /\ Good(a) /\ a \in States
  BY ReopenLeaves DEF Leaves, Good
<1>3. \/ a.ok /\ a.failures = s.failures /\ Same([s EXCEPT !.clock = "boot"], a)
      \/ ~a.ok /\ a.failures # s.failures
  BY <1>2, ReopenOutcome
<1>4. CASE ~a.ok
  BY <1>1, <1>2, <1>3, <1>4
<1>5. CASE a.ok
  <2> DEFINE r == upload_reset(a)
             u == Booted(r, place)
  <2>1. PICK b \in Write(r, u) :
          t \in IF b.ok
                THEN Always(get_running_location(b),
                            LAMBDA c : IF c.loc # place THEN {Err(c)}
                                       ELSE IF c.loc = "Application"
                                       THEN host_if_reopen(c, "default") ELSE {Ok(c)})
                ELSE {b}
    BY <1>1, <1>5 DEF Then, Always
  <2>2. /\ Leaves(a, r) /\ r.failures = a.failures /\ r.clock = a.clock
        /\ r.powered = a.powered /\ r.image_valid = a.image_valid
    BY <1>2, UploadResetLeaves
  <2> HIDE DEF r
  <2>3. r \in States /\ Good(r)
    BY <2>2 DEF Leaves, Good
  <2>4. /\ u \in States /\ u.at = (IF r.image_valid THEN place ELSE "Bootloader")
        /\ u.powered = r.powered /\ u.clock = r.clock /\ u.failures = r.failures
    BY <2>3, BootOutcome
  <2>5. Leaves(r, u)
    BY <2>3, BootLeaves
  <2> HIDE DEF u
  <2>6. Leaves(r, b) /\ Good(b) /\ b \in States
    <3>1. Leaves(r, b)
      BY <2>1, <2>3, <2>5, WriteLeaves
    <3>2. QED
      BY <3>1 DEF Leaves, Good
  <2>7. Responds(r) /\ b.failures = r.failures => b.ok /\ Same(u, b)
    BY <2>1, <2>3, <2>4, WriteOutcome
  <2>8. Leaves(s, b)
    BY <1>2, <2>2, <2>3, <2>6, LeavesIsTransitive
  <2>9. ASSUME s.powered
        PROVE  Responds(r) /\ r.image_valid = s.image_valid /\ r.clock = "boot" /\ r.powered
    <3>1. a.clock = "boot" /\ a.powered /\ a.image_valid = s.image_valid
      BY <1>2, <1>3, <1>5, <2>9 DEF Same, States
    <3>2. QED
      BY <2>2, <3>1 DEF Responds
  <2>10. CASE ~b.ok
    BY <1>3, <1>5, <2>1, <2>2, <2>7, <2>8, <2>9, <2>10
  <2>11. CASE b.ok
    <3>1. PICK c \in get_running_location(b) :
            t \in IF c.loc # place THEN {Err(c)}
                  ELSE IF c.loc = "Application" THEN host_if_reopen(c, "default") ELSE {Ok(c)}
      BY <2>1, <2>11 DEF Always
    <3>2. Same(b, c) /\ c \in States /\ Leaves(b, c) /\ Good(c)
      BY <2>6, LocationOutcome, LocationLeaves DEF Leaves, Good
    <3>3. Responds(b) /\ c.failures = b.failures => c.loc = b.at
      BY <2>6, LocationOutcome
    <3>4. Leaves(s, c)
      BY <1>2, <2>6, <2>8, <3>2, LeavesIsTransitive
    <3>5. \/ c.loc # place /\ t = Err(c)
          \/ c.loc = place /\ c.loc = "Application" /\ t \in host_if_reopen(c, "default")
          \/ c.loc = place /\ c.loc # "Application" /\ t = Ok(c)
      BY <3>1
    <3>6. Leaves(c, t)
      BY <3>2, <3>5, ReopenLeaves, OkOutcome, ErrOutcome, SameLeaves
    <3>7. Leaves(s, t)
      BY <1>2, <3>4, <3>6, LeavesIsTransitive
    <3>8. ASSUME s.powered, t.failures = s.failures
          PROVE  (t.ok => Responds(t)) /\ (~t.ok => ~s.image_valid)
      <4>1. {s.failures, b.failures, c.failures, t.failures} \subseteq Nat
        BY <1>2, <2>6, <3>2, <3>7, DeviceConstants DEF Leaves, Good, States
      <4>2. b.failures >= s.failures /\ c.failures >= b.failures /\ t.failures >= c.failures
        BY <2>8, <3>2, <3>6 DEF Leaves
      <4>3. b.failures = s.failures /\ c.failures = b.failures /\ t.failures = c.failures
        BY <3>8, <4>1, <4>2
      <4>4. Same(u, b) /\ b.clock = "boot" /\ b.powered
        BY <1>3, <1>5, <2>2, <2>4, <2>7, <2>9, <3>8, <4>3 DEF Same
      <4>5. b.at = (IF s.image_valid THEN place ELSE "Bootloader") /\ c.loc = b.at
        BY <2>4, <2>9, <3>3, <3>8, <4>3, <4>4 DEF Same, Responds
      <4>6. c.clock = "boot" /\ c.powered /\ c.at = b.at
        BY <3>2, <4>4 DEF Same
      <4>7. CASE c.loc # place /\ t = Err(c)
        BY <3>2, <4>5, <4>7, ErrOutcome
      <4>8. CASE c.loc = place /\ c.loc # "Application" /\ t = Ok(c)
        <5>1. t.ok /\ Same(c, t)
          BY <3>2, <4>8, OkOutcome
        <5>2. QED
          BY <4>6, <5>1 DEF Same, Responds
      <4>9. CASE c.loc = place /\ c.loc = "Application" /\ t \in host_if_reopen(c, "default")
        <5>1. t.ok /\ Same([c EXCEPT !.clock = "default"], t)
          BY <3>2, <4>3, <4>9, ReopenOutcome
        <5>2. t.powered /\ t.at = "Application"
          BY <3>2, <4>5, <4>6, <4>9, <5>1 DEF Same, States
        <5>3. QED
          BY <5>1, <5>2 DEF Responds
      <4>10. QED
        BY <3>5, <4>7, <4>8, <4>9
    <3>9. QED
      BY <3>7, <3>8
  <2>12. QED
    BY <2>10, <2>11
<1>6. QED
  BY <1>4, <1>5

-----------------------------------------------------------------------------
(* Callbacks.  A mask that is open keeps its callback.                     *)
LEMMA FifoCallbackLeaves ==
    ASSUME NEW s, Good(s), NEW registered \in BOOLEAN
    PROVE  Leaves(s, [s EXCEPT !.fifo_data_callback = registered])
<1> DEFINE u == [s EXCEPT !.fifo_data_callback = registered]
<1>1. s \in States /\ u \in States
  BY DEF Good, States
<1>2. Good(u)
  BY <1>1 DEF Good, States
<1>3. QED
  BY <1>1, <1>2, DeviceConstants DEF Leaves, States

LEMMA HandlersLeave ==
    ASSUME NEW s, Good(s), NEW handlers \in BOOLEAN
    PROVE  LET u == [s EXCEPT !.handlers = handlers]
           IN  /\ Leaves(s, u) /\ u.handlers = handlers /\ u.ok = s.ok
               /\ u.radio = s.radio /\ u.pa = s.pa /\ u.powered = s.powered
<1> DEFINE u == [s EXCEPT !.handlers = handlers]
<1>1. s \in States /\ u \in States
  BY DEF Good, States
<1>2. Good(u)
  BY <1>1 DEF Good, States
<1>3. QED
  BY <1>1, <1>2, DeviceConstants DEF Leaves, States

LEMMA CallbackLeaves ==
    ASSUME NEW s, Good(s), NEW registered \in BOOLEAN,
           registered \/ ~s.mask \/ ~s.powered
    PROVE  LET u == [s EXCEPT !.interrupt_callback = registered]
           IN  /\ Leaves(s, u) /\ u.handlers = s.handlers
<1> DEFINE u == [s EXCEPT !.interrupt_callback = registered]
<1>1. s \in States /\ u \in States
  BY DEF Good, States
<1>2. Good(u)
  BY <1>1 DEF Good, States
<1>3. QED
  BY <1>1, <1>2, DeviceConstants DEF Leaves, States

LEMMA MaskLeaves ==
    ASSUME NEW s, Good(s), NEW open \in BOOLEAN,
           open => s.at = "Application" /\ s.interrupt_callback
    PROVE  LET u == [s EXCEPT !.mask = open]
           IN  Leaves(s, u) /\ u.mask = open /\ u.handlers = s.handlers
<1> DEFINE u == [s EXCEPT !.mask = open]
<1>1. s \in States /\ u \in States
  BY DEF Good, States
<1>2. Good(u)
  BY <1>1 DEF Good, States
<1>3. QED
  BY <1>1, <1>2, DeviceConstants DEF Leaves, States

LEMMA RegisteredLeaves ==
    ASSUME NEW s, Good(s), NEW registered \in BOOLEAN, NEW handlers \in BOOLEAN
    PROVE  Leaves(s, [s EXCEPT !.registered = registered, !.handlers = handlers])
<1> DEFINE u == [s EXCEPT !.registered = registered, !.handlers = handlers]
<1>1. s \in States /\ u \in States
  BY DEF Good, States
<1>2. Good(u)
  BY <1>1 DEF Good, States
<1>3. QED
  BY <1>1, <1>2, DeviceConstants DEF Leaves, States

LEMMA UnregisterFifoOutcome ==
    ASSUME NEW s, Good(s) PROVE Leaves(s, unregister_fifo_data_callback(s))
BY FifoCallbackLeaves DEF unregister_fifo_data_callback

LEMMA OkLeaves == ASSUME NEW s, Good(s) PROVE Leaves(s, Ok(s)) /\ Leaves(s, Err(s))
<1>1. s \in States
  BY DEF Good
<1>2. QED
  BY <1>1, OkOutcome, ErrOutcome, SameLeaves

(* The callback goes when the mask is closed, or the chip has no power. *)
LEMMA UnregisterInterruptOutcome ==
    ASSUME NEW s, Good(s), NEW t \in unregister_interrupt_callback(s)
    PROVE  Leaves(s, t) /\ t.handlers = s.handlers
<1> DEFINE m == [s EXCEPT !.mask = FALSE]
<1>1. PICK u \in IF s.powered THEN Write(s, m) ELSE {Ok(s)} :
        t \in IF u.ok THEN {Ok([u EXCEPT !.interrupt_callback = FALSE])} ELSE {u}
  BY DEF unregister_interrupt_callback, Then, Always
<1>2. Leaves(s, m) /\ m.mask = FALSE /\ m.handlers = s.handlers
  BY MaskLeaves
<1> HIDE DEF m
<1>3. s \in States /\ m \in States
  BY <1>2 DEF Good, Leaves
<1>4. /\ Leaves(s, u) /\ Good(u) /\ u.handlers = s.handlers
      /\ u.ok => ~u.mask \/ ~u.powered
  <2>1. CASE s.powered
    <3>1. u \in Write(s, m)
      BY <1>1, <2>1
    <3>2. Leaves(s, u)
      BY <1>2, <3>1, WriteLeaves
    <3>3. Same(s, u) \/ Same(m, u)
      BY <1>3, <3>1, WriteOutcome
    <3>4. u.ok => Same(m, u) \/ (~Responds(s) /\ Same(s, u))
      BY <1>3, <3>1, WriteOutcome
    <3>5. ~Responds(s) => ~s.mask
      BY <2>1 DEF Responds, Good
    <3>6. Good(u) /\ u.handlers = s.handlers
      BY <1>2, <3>2, <3>3 DEF Same, Leaves
    <3>7. u.ok => ~u.mask
      BY <1>2, <3>4, <3>5 DEF Same
    <3>8. QED
      BY <3>2, <3>6, <3>7
  <2>2. CASE ~s.powered
    <3>1. Same(s, u)
      BY <1>1, <1>3, <2>2, OkOutcome
    <3>2. Leaves(s, u)
      BY <3>1, SameLeaves
    <3>3. QED
      BY <2>2, <3>1, <3>2 DEF Same, Leaves
  <2>3. QED
    BY <2>1, <2>2
<1>5. CASE ~u.ok
  BY <1>1, <1>4, <1>5
<1>6. CASE u.ok
  <2> DEFINE v == [u EXCEPT !.interrupt_callback = FALSE]
  <2>1. t = Ok(v)
    BY <1>1, <1>6
  <2>2. Leaves(u, v) /\ v.handlers = u.handlers
    BY <1>4, <1>6, CallbackLeaves
  <2> HIDE DEF v
  <2>3. v \in States /\ Good(v)
    BY <2>2 DEF Leaves, Good
  <2>4. Leaves(v, t) /\ t.handlers = v.handlers
    BY <2>1, <2>3, OkOutcome, SameLeaves DEF Same
  <2>5. Leaves(s, t)
    BY <1>4, <2>2, <2>3, <2>4, LeavesIsTransitive
  <2>6. QED
    BY <1>4, <2>2, <2>4, <2>5
<1>7. QED
  BY <1>5, <1>6

LEMMA UnregisterOutcome ==
    ASSUME NEW s, Good(s),
           NEW t \in unregister_interrupt_callback(unregister_fifo_data_callback(s))
    PROVE  Leaves(s, t)
<1> DEFINE a == unregister_fifo_data_callback(s)
<1>1. Leaves(s, a) /\ Good(a)
  BY UnregisterFifoOutcome DEF Leaves
<1> HIDE DEF a
<1>2. Leaves(a, t)
  BY <1>1, UnregisterInterruptOutcome DEF a
<1>3. QED
  BY <1>1, <1>2, LeavesIsTransitive

LEMMA RegisterFifoOutcome ==
    ASSUME NEW s, Good(s), NEW t \in register_fifo_data_callback(s)
    PROVE  Leaves(s, t)
<1> DEFINE u == [s EXCEPT !.fifo_data_callback = TRUE]
<1>1. t = Err(s) \/ t = Ok(u)
  BY DEF register_fifo_data_callback
<1>2. Leaves(s, u) /\ Good(u)
  BY FifoCallbackLeaves DEF Leaves
<1> HIDE DEF u
<1>3. QED
  BY <1>1, <1>2, OkLeaves, LeavesIsTransitive

LEMMA RegisterInterruptOutcome ==
    ASSUME NEW s, Good(s), NEW t \in register_interrupt_callback(s)
    PROVE  Leaves(s, t)
<1>1. CASE s.interrupt_callback
  <2>1. t = Err(s)
    BY <1>1 DEF register_interrupt_callback
  <2>2. QED
    BY <2>1, OkLeaves
<1>2. CASE ~s.interrupt_callback
  <2> DEFINE u == [s EXCEPT !.interrupt_callback = TRUE]
             open == s.at = "Application"
             v == [s EXCEPT !.interrupt_callback = TRUE, !.mask = open]
  <2>1. t \in Write(u, v)
    BY <1>2 DEF register_interrupt_callback
  <2>2. Leaves(s, u) /\ Good(u) /\ u.interrupt_callback = TRUE /\ u.at = s.at
    <3>1. Leaves(s, u)
      BY CallbackLeaves
    <3>2. u.interrupt_callback = TRUE /\ u.at = s.at
      BY DEF Good, States
    <3>3. QED
      BY <3>1, <3>2 DEF Leaves
  <2>3. open \in BOOLEAN
    OBVIOUS
  <2>4. v = [u EXCEPT !.mask = open]
    BY DEF Good, States
  <2> HIDE DEF u, v
  <2>5. Leaves(u, v)
    BY <2>2, <2>3, <2>4, MaskLeaves
  <2>6. Leaves(u, t)
    BY <2>1, <2>2, <2>5, WriteLeaves
  <2>7. QED
    BY <2>2, <2>6, LeavesIsTransitive
<1>3. QED
  BY <1>1, <1>2

LEMMA RegisterIrqOutcome ==
    ASSUME NEW s, Good(s), NEW t \in register_irq_callback(s)
    PROVE  Leaves(s, t)
<1> DEFINE u == [s EXCEPT !.registered = TRUE, !.handlers = TRUE]
<1>1. t = Err(s) \/ t = Ok(u)
  BY DEF register_irq_callback
<1>2. Leaves(s, u) /\ Good(u)
  BY RegisteredLeaves DEF Leaves
<1> HIDE DEF u
<1>3. QED
  BY <1>1, <1>2, OkLeaves, LeavesIsTransitive

LEMMA InitOutcome ==
    ASSUME NEW s, Good(s), NEW t \in init_ex10(s) PROVE Leaves(s, t)
<1> DEFINE m == [s EXCEPT !.mask = FALSE]
           Unregistered(c) ==
               unregister_interrupt_callback(unregister_fifo_data_callback(c))
           ThenRegisters(c) == Then(Unregistered(c), register_irq_callback)
           ThenReads(b) == Then(Read(b), ThenRegisters)
           ThenWrites(a) == Then(Write(a, a), ThenReads)
<1>1. ASSUME NEW c, Good(c), NEW u \in ThenRegisters(c) PROVE Leaves(c, u)
  <2>1. PICK v \in Unregistered(c) : u \in IF v.ok THEN register_irq_callback(v) ELSE {v}
    BY <1>1 DEF Then, Always
  <2>2. Leaves(c, v) /\ Good(v)
    BY <1>1, <2>1, UnregisterOutcome DEF Leaves
  <2>3. u = v \/ Leaves(v, u)
    BY <2>1, <2>2, RegisterIrqOutcome
  <2>4. QED
    BY <1>1, <2>2, <2>3, LeavesIsTransitive
<1>2. ASSUME NEW b, Good(b), NEW u \in ThenReads(b) PROVE Leaves(b, u)
  <2>1. PICK c \in Read(b) : u \in IF c.ok THEN ThenRegisters(c) ELSE {c}
    BY <1>2 DEF Then, Always
  <2>2. Leaves(b, c) /\ Good(c)
    BY <1>2, <2>1, ReadLeaves DEF Leaves
  <2>3. u = c \/ Leaves(c, u)
    BY <1>1, <2>1, <2>2
  <2>4. QED
    BY <1>2, <2>2, <2>3, LeavesIsTransitive
<1>3. ASSUME NEW a, Good(a), NEW u \in ThenWrites(a) PROVE Leaves(a, u)
  <2>1. PICK b \in Write(a, a) : u \in IF b.ok THEN ThenReads(b) ELSE {b}
    BY <1>3 DEF Then, Always
  <2>2. Leaves(a, b) /\ Good(b)
    BY <1>3, <2>1, WriteLeaves, LeavesIsReflexive DEF Leaves
  <2>3. u = b \/ Leaves(b, u)
    BY <1>2, <2>1, <2>2
  <2>4. QED
    BY <1>3, <2>2, <2>3, LeavesIsTransitive
<1>4. PICK a \in Write(s, m) : t \in IF a.ok THEN ThenWrites(a) ELSE {a}
  BY DEF init_ex10, Then, Always
<1>5. Leaves(s, m)
  BY MaskLeaves
<1> HIDE DEF m
<1>6. Leaves(s, a) /\ Good(a)
  BY <1>4, <1>5, WriteLeaves DEF Leaves
<1>7. t = a \/ Leaves(a, t)
  BY <1>3, <1>4, <1>6
<1>8. QED
  BY <1>6, <1>7, LeavesIsTransitive

LEMMA DeinitOutcome ==
    ASSUME NEW s, Good(s), NEW t \in deinit(s) PROVE Leaves(s, t)
<1>1. PICK a \in unregister_interrupt_callback(unregister_fifo_data_callback(s)) :
        t \in IF a.ok THEN {Ok([a EXCEPT !.registered = FALSE, !.handlers = FALSE])}
              ELSE {a}
  BY DEF deinit, Then, Always
<1>2. Leaves(s, a) /\ Good(a)
  BY <1>1, UnregisterOutcome DEF Leaves
<1> DEFINE u == [a EXCEPT !.registered = FALSE, !.handlers = FALSE]
<1>3. Leaves(a, u) /\ Good(u)
  BY <1>2, RegisteredLeaves DEF Leaves
<1>4. t = a \/ t = Ok(u)
  BY <1>1
<1> HIDE DEF u
<1>5. t = a \/ Leaves(a, t)
  BY <1>2, <1>3, <1>4, OkLeaves, LeavesIsTransitive
<1>6. QED
  BY <1>2, <1>5, LeavesIsTransitive

-----------------------------------------------------------------------------
(* Power modes.  A mode is entered by operations that succeed, one after   *)
(* the other, and what one has set the next ones keep.                     *)
LEMMA PowerUpAndInitOutcome ==
    ASSUME NEW s, Good(s), NEW t \in powerup_and_init_ex10(s) PROVE Leaves(s, t)
<1> DEFINE ThenHandles(b) ==
               Then(set_clear_gpio_pins(b, TRUE),
                    LAMBDA c : {[c EXCEPT !.handlers = TRUE]})
           ThenSupplies(a) == Then(rf_init_ex10(a), ThenHandles)
<1>1. ASSUME NEW b, Good(b), NEW u \in ThenHandles(b) PROVE Leaves(b, u)
  <2>1. PICK c \in set_clear_gpio_pins(b, TRUE) :
          u \in IF c.ok THEN {[c EXCEPT !.handlers = TRUE]} ELSE {c}
    BY <1>1 DEF Then, Always
  <2>2. Leaves(b, c) /\ Good(c)
    BY <1>1, <2>1, PinsOutcome DEF Leaves
  <2>3. u = c \/ Leaves(c, u)
    BY <2>1, <2>2, HandlersLeave
  <2>4. QED
    BY <1>1, <2>2, <2>3, LeavesIsTransitive
<1>2. ASSUME NEW a, Good(a), NEW u \in ThenSupplies(a) PROVE Leaves(a, u)
  <2>1. PICK b \in rf_init_ex10(a) : u \in IF b.ok THEN ThenHandles(b) ELSE {b}
    BY <1>2 DEF Then, Always
  <2>2. Leaves(a, b) /\ Good(b)
    BY <1>2, <2>1, RfInitOutcome DEF Leaves
  <2>3. u = b \/ Leaves(b, u)
    BY <1>1, <2>1, <2>2
  <2>4. QED
    BY <1>2, <2>2, <2>3, LeavesIsTransitive
<1>3. PICK a \in power_up_to_application(s) :
        t \in IF a.ok THEN IF a.loc # "Application" THEN {Err(a)} ELSE ThenSupplies(a)
              ELSE {a}
  BY DEF powerup_and_init_ex10, Then, Always
<1>4. Leaves(s, a) /\ Good(a)
  BY <1>3, PowerUpOutcome DEF Leaves
<1>5. t = a \/ t = Err(a) \/ t \in ThenSupplies(a)
  BY <1>3
<1>6. t = a \/ Leaves(a, t)
  BY <1>2, <1>4, <1>5, OkLeaves
<1>7. QED
  BY <1>4, <1>6, LeavesIsTransitive

(* The transmitter stops before the PA loses its supply, and whatever the  *)
(* radio then does the transmitter stays off.                              *)
LEMMA ColdOutcome ==
    ASSUME NEW s, Good(s), NEW enable \in BOOLEAN, NEW t \in set_power_mode_cold(s, enable)
    PROVE  /\ Leaves(s, t)
           /\ t.ok => t.powered /\ t.pa = FALSE /\ ~t.cw /\ t.radio = enable
<1> DEFINE ThenRadio(b) == radio_power_control(b, enable)
           ThenPins(a) == Then(set_clear_gpio_pins(a, FALSE), ThenRadio)
<1>1. PICK a \in stop_op_and_ramp_down(s) : t \in IF a.ok THEN ThenPins(a) ELSE {a}
  BY DEF set_power_mode_cold, Then, Always
<1>2. Leaves(s, a) /\ Good(a) /\ (a.ok => ~a.cw)
  BY <1>1, StopOutcome DEF Leaves
<1>3. CASE ~a.ok
  BY <1>1, <1>2, <1>3
<1>4. CASE a.ok
  <2>1. PICK b \in set_clear_gpio_pins(a, FALSE) : t \in IF b.ok THEN ThenRadio(b) ELSE {b}
    BY <1>1, <1>4 DEF Then, Always
  <2>2. Leaves(a, b) /\ (b.ok => b.pa = FALSE /\ b.cw = a.cw)
    BY <1>2, <1>4, <2>1, PinsOutcome
  <2>3. Leaves(s, b) /\ Good(b)
    BY <1>2, <2>2, LeavesIsTransitive DEF Leaves
  <2>4. CASE ~b.ok
    BY <2>1, <2>3, <2>4
  <2>5. CASE b.ok
    <3>1. t \in radio_power_control(b, enable)
      BY <2>1, <2>5
    <3>2. Leaves(b, t)
          /\ (t.ok => t.powered /\ t.radio = enable /\ t.pa = b.pa /\ (t.cw => b.cw))
      BY <2>3, <3>1, RadioOutcome
    <3>3. Leaves(s, t)
      BY <2>3, <3>2, LeavesIsTransitive
    <3>4. QED
      BY <1>2, <1>4, <2>2, <2>5, <3>2, <3>3
  <2>6. QED
    BY <2>4, <2>5
<1>5. QED
  BY <1>3, <1>4

(* The handlers are gone before the power is: nothing hangs. *)
LEMMA OffOutcome ==
    ASSUME NEW s, Good(s), NEW a \in stop_op_and_ramp_down(s),
           NEW b \in unregister_interrupt_callback([a EXCEPT !.handlers = FALSE])
    PROVE  LET u == power_down([b EXCEPT !.ok = a.ok, !.fifo_data_callback = FALSE])
           IN  Leaves(s, u) /\ u.powered = FALSE
<1> DEFINE c == [a EXCEPT !.handlers = FALSE]
           e == [b EXCEPT !.ok = a.ok]
           f == [e EXCEPT !.fifo_data_callback = FALSE]
<1>1. Leaves(s, a) /\ Good(a)
  BY StopOutcome DEF Leaves
<1>2. Leaves(a, c) /\ Good(c) /\ c.handlers = FALSE
  BY <1>1, HandlersLeave DEF Leaves
<1> HIDE DEF c
<1>3. Leaves(c, b) /\ Good(b) /\ b.handlers = FALSE
  BY <1>2, UnregisterInterruptOutcome DEF c, Leaves
<1>4. a.ok \in BOOLEAN /\ b \in States
  BY <1>1, <1>3 DEF Good, States
<1>5. Same(b, e)
  BY <1>4, ResultIsNoted
<1> HIDE DEF e
<1>6. Leaves(b, e) /\ Good(e) /\ e.handlers = FALSE
  <2>1. Leaves(b, e)
    BY <1>3, <1>5, SameLeaves
  <2>2. QED
    BY <1>3, <1>5, <2>1 DEF Leaves, Same
<1>7. f = [b EXCEPT !.ok = a.ok, !.fifo_data_callback = FALSE]
  BY DEF e
<1>8. Leaves(e, f) /\ Good(f)
  BY <1>6, FifoCallbackLeaves DEF Leaves
<1>9. f.handlers = FALSE
  BY <1>6 DEF Good, States
<1> HIDE DEF f
<1> DEFINE u == power_down(f)
<1>10. Leaves(f, u) /\ u.powered = FALSE
  BY <1>8, <1>9, PowerDownOutcome
<1> HIDE DEF u
<1>11. Leaves(s, u)
  BY <1>1, <1>2, <1>3, <1>6, <1>8, <1>10, LeavesIsTransitive
<1>12. QED
  BY <1>7, <1>10, <1>11 DEF u

(* What t, an outcome of a call at s, keeps; a call may change the mode. *)
Keeps(s, t) == Good(t) /\ t.hung = s.hung /\ t.received \in {s.received, 0}

LEMMA LeavesKeeps == ASSUME NEW s, NEW t, Leaves(s, t) PROVE Keeps(s, t)
BY DEF Leaves, Keeps

LEMMA KeepsIsTransitive ==
    ASSUME NEW s, NEW t, NEW u, Keeps(s, t), Keeps(t, u) PROVE Keeps(s, u)
BY DEF Keeps

LEMMA ModeIsEntered ==
    ASSUME NEW s, Good(s), NEW mode \in Modes
    PROVE  LET t == [s EXCEPT !.power_mode = mode]
           IN  /\ Keeps(s, t) /\ t.power_mode = mode
               /\ t.powered = s.powered /\ t.radio = s.radio /\ t.pa = s.pa /\ t.cw = s.cw
<1> DEFINE t == [s EXCEPT !.power_mode = mode]
<1>1. s \in States /\ t \in States
  BY DEF Good, States
<1>2. Good(t)
  BY <1>1 DEF Good, States
<1>3. t.hung = s.hung /\ t.received = s.received /\ t.power_mode = mode
  BY <1>1 DEF States
<1>4. t.powered = s.powered /\ t.radio = s.radio /\ t.pa = s.pa /\ t.cw = s.cw
  BY <1>1 DEF States
<1> HIDE DEF t
<1>5. Keeps(s, t)
  BY <1>2, <1>3 DEF Keeps
<1>6. QED
  BY <1>3, <1>4, <1>5 DEF t

(* A mode is entered only if the operations succeeded that make it true. *)
LEMMA EntersOutcome ==
    ASSUME NEW s, Good(s), NEW mode \in Modes, NEW S, NEW t \in Enters(S, mode),
           \A u \in S : Leaves(s, u) /\ (u.ok => AsTable(u, mode))
    PROVE  Keeps(s, t) /\ (t.power_mode # s.power_mode => t.power_mode = mode /\ AsTable(t, mode))
<1>1. PICK u \in S : t = IF u.ok THEN [u EXCEPT !.power_mode = mode] ELSE u
  BY DEF Enters
<1>2. Leaves(s, u) /\ Good(u) /\ Keeps(s, u) /\ u.power_mode = s.power_mode
  BY <1>1, LeavesKeeps DEF Leaves
<1>3. CASE ~u.ok
  BY <1>1, <1>2, <1>3
<1>4. CASE u.ok
  <2>1. t = [u EXCEPT !.power_mode = mode]
    BY <1>1, <1>4
  <2>2. /\ Keeps(u, t) /\ t.power_mode = mode
        /\ t.powered = u.powered /\ t.radio = u.radio /\ t.pa = u.pa /\ t.cw = u.cw
    BY <1>2, <2>1, ModeIsEntered
  <2>3. AsTable(u, mode)
    BY <1>1, <1>4
  <2>4. AsTable(t, mode)
    BY <2>2, <2>3 DEF AsTable
  <2>5. QED
    BY <1>2, <2>2, <2>4, KeepsIsTransitive
<1>5. QED
  BY <1>3, <1>4

(* The four modes. *)
LEMMA SetColdOutcome ==
    ASSUME NEW s, Good(s), NEW mode \in {"Standby", "ReadyCold"},
           NEW t \in Enters(set_power_mode_cold(s, mode = "ReadyCold"), mode)
    PROVE  Keeps(s, t) /\ (t.power_mode # s.power_mode => t.power_mode = mode /\ AsTable(t, mode))
<1>1. (mode = "ReadyCold") \in BOOLEAN /\ mode \in Modes
  BY DEF Modes
<1>2. ASSUME NEW u \in set_power_mode_cold(s, mode = "ReadyCold")
      PROVE  Leaves(s, u) /\ (u.ok => AsTable(u, mode))
  <2>1. Leaves(s, u) /\ u \in States
        /\ (u.ok => u.powered /\ u.pa = FALSE /\ ~u.cw /\ u.radio = (mode = "ReadyCold"))
    BY <1>1, ColdOutcome DEF Leaves, Good
  <2>2. u.powered \in BOOLEAN
    BY <2>1 DEF States
  <2>3. QED
    BY <2>1, <2>2 DEF AsTable
<1>3. QED
  BY <1>1, <1>2, EntersOutcome

LEMMA SetReadyOutcome ==
    ASSUME NEW s, Good(s), NEW t \in set_power_mode_ready(s)
    PROVE  /\ Keeps(s, t)
           /\ t.power_mode # s.power_mode => t.power_mode = "Ready" /\ AsTable(t, "Ready")
<1> DEFINE S == Then(radio_power_control(s, TRUE), LAMBDA a : set_clear_gpio_pins(a, TRUE))
<1>1. ASSUME NEW u \in S PROVE Leaves(s, u) /\ (u.ok => AsTable(u, "Ready"))
  <2>1. PICK a \in radio_power_control(s, TRUE) :
          u \in IF a.ok THEN set_clear_gpio_pins(a, TRUE) ELSE {a}
    BY <1>1 DEF Then, Always
  <2>2. Leaves(s, a) /\ Good(a) /\ (a.ok => a.radio = TRUE)
    BY <2>1, RadioOutcome DEF Leaves
  <2>3. CASE ~a.ok
    BY <2>1, <2>2, <2>3
  <2>4. CASE a.ok
    <3>1. Leaves(a, u) /\ (u.ok => u.powered /\ u.pa = TRUE /\ u.radio = a.radio)
      BY <2>1, <2>2, <2>4, PinsOutcome
    <3>2. Leaves(s, u) /\ u \in States
      BY <2>2, <3>1, LeavesIsTransitive DEF Leaves, Good
    <3>3. u.powered \in BOOLEAN
      BY <3>2 DEF States
    <3>4. QED
      BY <2>2, <2>4, <3>1, <3>2, <3>3 DEF AsTable
  <2>5. QED
    BY <2>3, <2>4
<1>2. t \in Enters(S, "Ready") /\ "Ready" \in Modes
  BY DEF set_power_mode_ready, Modes
<1> HIDE DEF S
<1>3. QED
  BY <1>1, <1>2, EntersOutcome

LEMMA SetOffOutcome ==
    ASSUME NEW s, Good(s), NEW t \in set_power_mode_off(s)
    PROVE  /\ Keeps(s, t)
           /\ t.power_mode # s.power_mode => t.power_mode = "Off" /\ AsTable(t, "Off")
<1> DEFINE Down(a) ==
               {power_down([b EXCEPT !.ok = a.ok, !.fifo_data_callback = FALSE])
                   : b \in unregister_interrupt_callback([a EXCEPT !.handlers = FALSE])}
           S == Always(stop_op_and_ramp_down(s), Down)
<1>1. ASSUME NEW u \in S PROVE Leaves(s, u) /\ (u.ok => AsTable(u, "Off"))
  <2>1. PICK a \in stop_op_and_ramp_down(s) : u \in Down(a)
    BY <1>1 DEF Always
  <2>2. PICK b \in unregister_interrupt_callback([a EXCEPT !.handlers = FALSE]) :
          u = power_down([b EXCEPT !.ok = a.ok, !.fifo_data_callback = FALSE])
    BY <2>1
  <2>3. Leaves(s, u) /\ u.powered = FALSE
    BY <2>2, OffOutcome
  <2>4. QED
    BY <2>3 DEF AsTable
<1>2. t \in Enters(S, "Off") /\ "Off" \in Modes
  BY DEF set_power_mode_off, Modes
<1> HIDE DEF S
<1>3. QED
  BY <1>1, <1>2, EntersOutcome

LEMMA SetPowerModeOutcome ==
    ASSUME NEW s, Good(s), NEW mode \in Modes, NEW t \in set_power_mode(s, mode)
    PROVE  Keeps(s, t) /\ (t.power_mode # s.power_mode => AsTable(t, t.power_mode))
<1>1. CASE s.power_mode = mode
  <2>1. t = Ok(s) /\ s \in States
    BY <1>1 DEF set_power_mode, Good
  <2>2. Leaves(s, t) /\ t.power_mode = s.power_mode
    BY <2>1, OkLeaves DEF Leaves
  <2>3. QED
    BY <2>2, LeavesKeeps
<1>2. CASE s.power_mode # mode
  <2> DEFINE Sets(a) ==
                 CASE mode = "Off" -> set_power_mode_off(a)
                   [] mode = "Standby" -> Enters(set_power_mode_cold(a, FALSE), mode)
                   [] mode = "ReadyCold" -> Enters(set_power_mode_cold(a, TRUE), mode)
                   [] mode = "Ready" -> set_power_mode_ready(a)
  <2>1. PICK a \in IF s.power_mode = "Off" THEN powerup_and_init_ex10(s) ELSE {Ok(s)} :
          t \in IF a.ok THEN Sets(a) ELSE {a}
    BY <1>2 DEF set_power_mode, Then, Always
  <2>2. Leaves(s, a) /\ Good(a) /\ Keeps(s, a) /\ a.power_mode = s.power_mode
    <3>1. Leaves(s, a)
      BY <2>1, PowerUpAndInitOutcome, OkLeaves
    <3>2. QED
      BY <3>1, LeavesKeeps DEF Leaves
  <2>3. CASE t = a
    BY <2>2, <2>3
  <2>4. CASE t \in Sets(a)
    <3>1. Keeps(a, t) /\ (t.power_mode # a.power_mode => t.power_mode = mode /\ AsTable(t, mode))
      <4>1. CASE mode = "Off"
        BY <2>2, <2>4, <4>1, SetOffOutcome
      <4>2. CASE mode = "Standby"
        BY <2>2, <2>4, <4>2, SetColdOutcome
      <4>3. CASE mode = "ReadyCold"
        BY <2>2, <2>4, <4>3, SetColdOutcome
      <4>4. CASE mode = "Ready"
        BY <2>2, <2>4, <4>4, SetReadyOutcome
      <4>5. QED
        BY <4>1, <4>2, <4>3, <4>4 DEF Modes
    <3>2. QED
      BY <2>2, <3>1, KeepsIsTransitive
  <2>5. QED
    BY <2>1, <2>3, <2>4
<1>3. QED
  BY <1>1, <1>2

-----------------------------------------------------------------------------
(* Board setup and teardown. *)
LEMMA KeepsIsReflexive == ASSUME NEW s, Good(s) PROVE Keeps(s, s)
BY DEF Keeps

(* Without power the callbacks may be dropped at any time. *)
LEMMA ForgottenKeeps ==
    ASSUME NEW s, Good(s), ~s.powered
    PROVE  Leaves(s, [s EXCEPT !.interrupt_callback = FALSE, !.fifo_data_callback = FALSE])
<1> DEFINE u == [s EXCEPT !.interrupt_callback = FALSE, !.fifo_data_callback = FALSE]
<1>1. s \in States /\ u \in States
  BY DEF Good, States
<1>2. Good(u)
  BY <1>1 DEF Good, States
<1>3. QED
  BY <1>1, <1>2, DeviceConstants DEF Leaves, States

LEMMA PowerlessLeaves ==
    ASSUME NEW s, Good(s)
    PROVE  LET u == [s EXCEPT !.powered = FALSE] IN Leaves(s, u) /\ ~u.powered
<1> DEFINE u == [s EXCEPT !.powered = FALSE]
<1>1. s \in States /\ u \in States
  BY DEF Good, States
<1>2. Good(u)
  BY <1>1 DEF Good, States
<1>3. QED
  BY <1>1, <1>2, DeviceConstants DEF Leaves, States

(* What setup starts with: the interface is opened, the power is off. *)
LEMMA OpenOutcome ==
    ASSUME NEW s, Good(s), NEW speed \in {"boot", "default"},
           NEW t \in host_if_reopen([s EXCEPT !.powered = FALSE], speed)
    PROVE  Leaves(s, t) /\ ~t.powered
<1> DEFINE u == [s EXCEPT !.powered = FALSE]
<1>1. Leaves(s, u) /\ ~u.powered /\ Good(u) /\ u \in States
  BY PowerlessLeaves DEF Leaves, Good
<1> HIDE DEF u
<1>2. Leaves(u, t)
  BY <1>1, ReopenLeaves DEF u
<1>3. Same(u, t) \/ Same([u EXCEPT !.clock = speed], t)
  BY <1>1, ReopenOutcome DEF u
<1>4. [u EXCEPT !.clock = speed].powered = u.powered
  BY <1>1 DEF States
<1>5. ~t.powered
  BY <1>1, <1>3, <1>4 DEF Same
<1>6. QED
  BY <1>1, <1>2, <1>5, LeavesIsTransitive

LEMMA SetupOutcome ==
    ASSUME NEW s, Good(s), NEW t \in ex10_core_board_setup(s) PROVE Leaves(s, t)
<1> DEFINE Forgot(a) == [a EXCEPT !.interrupt_callback = FALSE,
                                  !.fifo_data_callback = FALSE]
           ThenInits(b) == IF b.loc = "Bootloader" THEN {Err(b)}
                           ELSE Then(init_ex10(b), rf_init_ex10)
           ThenBoots(a) == Then(power_up_to_application(Forgot(a)), ThenInits)
<1>1. ASSUME NEW b, Good(b), NEW u \in ThenInits(b) PROVE Leaves(b, u)
  <2>1. CASE b.loc = "Bootloader"
    BY <1>1, <2>1, OkLeaves
  <2>2. CASE b.loc # "Bootloader"
    <3>1. PICK c \in init_ex10(b) : u \in IF c.ok THEN rf_init_ex10(c) ELSE {c}
      BY <1>1, <2>2 DEF Then, Always
    <3>2. Leaves(b, c) /\ Good(c)
      BY <1>1, <3>1, InitOutcome DEF Leaves
    <3>3. u = c \/ Leaves(c, u)
      BY <3>1, <3>2, RfInitOutcome
    <3>4. QED
      BY <1>1, <3>2, <3>3, LeavesIsTransitive
  <2>3. QED
    BY <2>1, <2>2
<1>2. ASSUME NEW a, Good(a), ~a.powered, NEW u \in ThenBoots(a) PROVE Leaves(a, u)
  <2>1. Leaves(a, Forgot(a)) /\ Good(Forgot(a))
    BY <1>2, ForgottenKeeps DEF Leaves
  <2>2. PICK b \in power_up_to_application(Forgot(a)) :
          u \in IF b.ok THEN ThenInits(b) ELSE {b}
    BY <1>2 DEF Then, Always
  <2> HIDE DEF Forgot
  <2>3. Leaves(Forgot(a), b)
    BY <2>1, <2>2, PowerUpOutcome
  <2>4. Leaves(a, b) /\ Good(b)
    BY <1>2, <2>1, <2>3, LeavesIsTransitive DEF Leaves
  <2>5. u = b \/ Leaves(b, u)
    BY <1>1, <2>2, <2>4
  <2>6. QED
    BY <1>2, <2>4, <2>5, LeavesIsTransitive
<1>3. PICK a \in host_if_reopen([s EXCEPT !.powered = FALSE], "default") :
        t \in IF a.ok THEN ThenBoots(a) ELSE {a}
  BY DEF ex10_core_board_setup, Then, Always
<1>4. Leaves(s, a) /\ Good(a) /\ ~a.powered
  BY <1>3, OpenOutcome DEF Leaves
<1>5. t = a \/ Leaves(a, t)
  BY <1>2, <1>3, <1>4
<1>6. QED
  BY <1>4, <1>5, LeavesIsTransitive

LEMMA BootloaderSetupOutcome ==
    ASSUME NEW s, Good(s), NEW t \in ex10_bootloader_core_board_setup(s)
    PROVE  Leaves(s, t)
<1> DEFINE On(a) == [a EXCEPT !.powered = TRUE, !.interrupt_callback = FALSE,
                              !.fifo_data_callback = FALSE]
           Located(a) == {[b EXCEPT !.ok = b.loc = "Bootloader"]
                          : b \in get_running_location(Booted(On(a), "Bootloader"))}
<1>1. PICK a \in host_if_reopen([s EXCEPT !.powered = FALSE], "boot") :
        t \in IF a.ok THEN Located(a) ELSE {a}
  BY DEF ex10_bootloader_core_board_setup, Then, Always
<1>2. Leaves(s, a) /\ Good(a) /\ ~a.powered
  BY <1>1, OpenOutcome DEF Leaves
<1>3. CASE t = a
  BY <1>2, <1>3
<1>4. CASE t \in Located(a)
  <2> DEFINE v == [a EXCEPT !.interrupt_callback = FALSE, !.fifo_data_callback = FALSE]
             u == Booted([v EXCEPT !.powered = TRUE], "Bootloader")
  <2>1. On(a) = [v EXCEPT !.powered = TRUE]
    BY <1>2 DEF Good, States
  <2>2. PICK b \in get_running_location(u) : t = [b EXCEPT !.ok = b.loc = "Bootloader"]
    BY <1>4, <2>1
  <2>3. Leaves(a, v) /\ Good(v)
    BY <1>2, ForgottenKeeps DEF Leaves
  <2> HIDE DEF v
  <2>4. Leaves(v, u) /\ Good(u)
    BY <2>3, PoweredBootLeaves DEF Places, Leaves
  <2> HIDE DEF u
  <2>5. Leaves(u, b) /\ Good(b) /\ b \in States
    BY <2>2, <2>4, LocationLeaves DEF Leaves, Good
  <2>6. (b.loc = "Bootloader") \in BOOLEAN
    OBVIOUS
  <2>7. Leaves(b, t)
    BY <2>2, <2>5, <2>6, ResultIsNoted, SameLeaves
  <2>8. QED
    BY <1>2, <2>3, <2>4, <2>5, <2>7, LeavesIsTransitive
<1>5. QED
  BY <1>1, <1>3, <1>4

LEMMA ExampleInitOutcome ==
    ASSUME NEW s, Good(s), NEW t \in ex10_simple_example_init(s) PROVE Keeps(s, t)
<1> DEFINE Ready(c) == [c EXCEPT !.power_mode = "Ready"]
           ThenWrites(e) == Write(e, e)
           ThenOp(c) == Then(Op(Ready(c), Ready(c)), ThenWrites)
           ThenPins(b) == Then(set_clear_gpio_pins(b, TRUE), ThenOp)
           ThenInterrupt(a) == Then(register_interrupt_callback(a), ThenPins)
           Fifo == Always(unregister_interrupt_callback(unregister_fifo_data_callback(s)),
                          register_fifo_data_callback)
<1>1. ASSUME NEW c, Good(c), NEW u \in ThenOp(c) PROVE Keeps(c, u)
  <2>1. PICK e \in Op(Ready(c), Ready(c)) : u \in IF e.ok THEN ThenWrites(e) ELSE {e}
    BY <1>1 DEF Then, Always
  <2>2. Keeps(c, Ready(c)) /\ Good(Ready(c))
    BY <1>1, ModeIsEntered DEF Keeps, Modes
  <2> HIDE DEF Ready
  <2>3. Leaves(Ready(c), e) /\ Good(e)
    BY <2>1, <2>2, PlainOpOutcome DEF Leaves
  <2>4. u = e \/ Leaves(e, u)
    BY <2>1, <2>3, WriteLeaves, LeavesIsReflexive
  <2>5. QED
    BY <2>2, <2>3, <2>4, LeavesKeeps, KeepsIsTransitive
<1>2. ASSUME NEW b, Good(b), NEW u \in ThenPins(b) PROVE Keeps(b, u)
  <2>1. PICK c \in set_clear_gpio_pins(b, TRUE) : u \in IF c.ok THEN ThenOp(c) ELSE {c}
    BY <1>2 DEF Then, Always
  <2>2. Leaves(b, c) /\ Good(c)
    BY <1>2, <2>1, PinsOutcome DEF Leaves
  <2>3. u = c \/ Keeps(c, u)
    BY <1>1, <2>1, <2>2
  <2>4. QED
    BY <2>2, <2>3, LeavesKeeps, KeepsIsTransitive
<1>3. ASSUME NEW a, Good(a), NEW u \in ThenInterrupt(a) PROVE Keeps(a, u)
  <2>1. PICK b \in register_interrupt_callback(a) : u \in IF b.ok THEN ThenPins(b) ELSE {b}
    BY <1>3 DEF Then, Always
  <2>2. Leaves(a, b) /\ Good(b)
    BY <1>3, <2>1, RegisterInterruptOutcome DEF Leaves
  <2>3. u = b \/ Keeps(b, u)
    BY <1>2, <2>1, <2>2
  <2>4. QED
    BY <2>2, <2>3, LeavesKeeps, KeepsIsTransitive
<1>4. PICK a \in Fifo : t \in IF a.ok THEN ThenInterrupt(a) ELSE {a}
  BY DEF ex10_simple_example_init, Then, Always
<1>5. PICK b \in unregister_interrupt_callback(unregister_fifo_data_callback(s)) :
        a \in register_fifo_data_callback(b)
  BY <1>4 DEF Always
<1>6. Leaves(s, b) /\ Good(b)
  BY <1>5, UnregisterOutcome DEF Leaves
<1>7. Leaves(b, a) /\ Good(a)
  BY <1>5, <1>6, RegisterFifoOutcome DEF Leaves
<1>8. t = a \/ Keeps(a, t)
  BY <1>3, <1>4, <1>7
<1>9. QED
  BY <1>6, <1>7, <1>8, LeavesKeeps, KeepsIsTransitive

-----------------------------------------------------------------------------
(* Versions, information pages and validity. *)
Judged(s, place) == {[b EXCEPT !.ok = b.loc = place] : b \in get_running_location(s)}

LEMMA JudgedLeaves ==
    ASSUME NEW s, Good(s), NEW place, NEW t \in Judged(s, place) PROVE Leaves(s, t)
<1>1. PICK b \in get_running_location(s) : t = [b EXCEPT !.ok = b.loc = place]
  BY DEF Judged
<1>2. Leaves(s, b) /\ Good(b) /\ b \in States
  BY <1>1, LocationLeaves DEF Leaves, Good
<1>3. (b.loc = place) \in BOOLEAN
  OBVIOUS
<1>4. Leaves(b, t)
  BY <1>1, <1>2, <1>3, ResultIsNoted, SameLeaves
<1>5. QED
  BY <1>2, <1>4, LeavesIsTransitive

LEMMA VersionOutcome ==
    ASSUME NEW s, Good(s), NEW t \in get_bootloader_version(s) PROVE Leaves(s, t)
<1> DEFINE To(c) == Always(reset(c, "Bootloader"), LAMBDA a : Judged(a, "Bootloader"))
           Back(e) == Always(reset(e, "Application"), LAMBDA a : Judged(a, "Application"))
<1>1. ASSUME NEW c, Good(c), NEW u \in To(c) PROVE Leaves(c, u)
  <2>1. PICK a \in reset(c, "Bootloader") : u \in Judged(a, "Bootloader")
    BY <1>1 DEF Always
  <2>2. Leaves(c, a) /\ Good(a)
    BY <1>1, <2>1, ResetOutcome DEF Leaves, Places
  <2>3. Leaves(a, u)
    BY <2>1, <2>2, JudgedLeaves
  <2>4. QED
    BY <1>1, <2>2, <2>3, LeavesIsTransitive
<1>2. ASSUME NEW e, Good(e), NEW u \in Back(e) PROVE Leaves(e, u)
  <2>1. PICK a \in reset(e, "Application") : u \in Judged(a, "Application")
    BY <1>2 DEF Always
  <2>2. Leaves(e, a) /\ Good(a)
    BY <1>2, <2>1, ResetOutcome DEF Leaves, Places
  <2>3. Leaves(a, u)
    BY <2>1, <2>2, JudgedLeaves
  <2>4. QED
    BY <1>2, <2>2, <2>3, LeavesIsTransitive
<1>3. PICK i \in get_running_location(s) :
        t \in Then(IF i.loc # "Application" THEN {Ok(i)} ELSE To(i),
                   LAMBDA c : Then(Read(c),
                       LAMBDA e : IF i.loc = "Bootloader" THEN {Ok(e)} ELSE Back(e)))
  BY DEF get_bootloader_version, Always, Judged
<1> HIDE DEF To, Back
<1>4. PICK c \in IF i.loc # "Application" THEN {Ok(i)} ELSE To(i) :
        t \in IF c.ok THEN Then(Read(c),
                       LAMBDA e : IF i.loc = "Bootloader" THEN {Ok(e)} ELSE Back(e))
              ELSE {c}
  BY <1>3 DEF Then, Always
<1>5. Leaves(s, i) /\ Good(i)
  BY <1>3, LocationLeaves DEF Leaves
<1>6. Leaves(i, c) /\ Good(c)
  BY <1>1, <1>4, <1>5, OkLeaves DEF Leaves
<1>7. Leaves(s, c)
  BY <1>5, <1>6, LeavesIsTransitive
<1>8. CASE ~c.ok
  BY <1>4, <1>7, <1>8
<1>9. CASE c.ok
  <2>1. PICK e \in Read(c) :
          t \in IF e.ok THEN IF i.loc = "Bootloader" THEN {Ok(e)} ELSE Back(e) ELSE {e}
    BY <1>4, <1>9 DEF Then, Always
  <2>2. Leaves(c, e) /\ Good(e)
    BY <1>6, <2>1, ReadLeaves DEF Leaves
  <2>3. t = e \/ Leaves(e, t)
    BY <1>2, <2>1, <2>2, OkLeaves
  <2>4. QED
    BY <1>7, <2>2, <2>3, LeavesIsTransitive
<1>10. QED
  BY <1>8, <1>9

LEMMA Writes2Leaves ==
    ASSUME NEW s, Good(s), NEW t \in Writes2(s) PROVE Leaves(s, t)
<1>1. PICK a \in Write(s, s) : t \in IF a.ok THEN Write(a, a) ELSE {a}
  BY DEF Writes2, Then, Always
<1>2. Leaves(s, a) /\ Good(a)
  BY <1>1, WriteLeaves, LeavesIsReflexive DEF Leaves
<1>3. t = a \/ Leaves(a, t)
  BY <1>1, <1>2, WriteLeaves, LeavesIsReflexive
<1>4. QED
  BY <1>2, <1>3, LeavesIsTransitive

LEMMA InfoPageOutcome ==
    ASSUME NEW s, Good(s), NEW t \in write_info_page(s) PROVE Leaves(s, t)
<1>1. PICK a \in get_running_location(s) :
        t \in IF a.loc # "Bootloader" THEN {Err(a)} ELSE Writes2(a)
  BY DEF write_info_page, InBootloader, Always
<1>2. Leaves(s, a) /\ Good(a)
  BY <1>1, LocationLeaves DEF Leaves
<1>3. Leaves(a, t)
  BY <1>1, <1>2, OkLeaves, Writes2Leaves
<1>4. QED
  BY <1>2, <1>3, LeavesIsTransitive

LEMMA ValidityOutcome ==
    ASSUME NEW s, Good(s), NEW t \in get_image_validity(s) PROVE Leaves(s, t)
<1>1. PICK a \in get_running_location(s) :
        t \in IF a.loc = "Application" THEN {Ok(a)} ELSE Read(a)
  BY DEF get_image_validity, Always
<1>2. Leaves(s, a) /\ Good(a)
  BY <1>1, LocationLeaves DEF Leaves
<1>3. Leaves(a, t)
  BY <1>1, <1>2, OkLeaves, ReadLeaves
<1>4. QED
  BY <1>2, <1>3, LeavesIsTransitive

LEMMA RevalidateOutcome ==
    ASSUME NEW s, Good(s), NEW t \in revalidate_image(s) PROVE Leaves(s, t)
<1>1. PICK a \in Read(s) :
        t \in IF a.ok THEN Then(Writes2(a), get_image_validity) ELSE {a}
  BY DEF revalidate_image, Then, Always
<1>2. Leaves(s, a) /\ Good(a)
  BY <1>1, ReadLeaves DEF Leaves
<1>3. CASE ~a.ok
  BY <1>1, <1>2, <1>3
<1>4. CASE a.ok
  <2>1. PICK b \in Writes2(a) : t \in IF b.ok THEN get_image_validity(b) ELSE {b}
    BY <1>1, <1>4 DEF Then, Always
  <2>2. Leaves(a, b) /\ Good(b)
    BY <1>2, <2>1, Writes2Leaves DEF Leaves
  <2>3. t = b \/ Leaves(b, t)
    BY <2>1, <2>2, ValidityOutcome
  <2>4. QED
    BY <1>2, <2>2, <2>3, LeavesIsTransitive
<1>5. QED
  BY <1>3, <1>4

-----------------------------------------------------------------------------
(* The upload.  Uploads, too, keep everything but what the chip has        *)
(* received, and whether an upload is over.                                *)
Uploads(s, t) == Good(t) /\ t.upload = s.upload

LEMMA LeavesUploads == ASSUME NEW s, NEW t, Leaves(s, t) PROVE Uploads(s, t)
BY DEF Leaves, Uploads

LEMMA UploadsIsTransitive ==
    ASSUME NEW s, NEW t, NEW u, Uploads(s, t), Uploads(t, u) PROVE Uploads(s, u)
BY DEF Uploads

LEMMA ReceivedOutcome ==
    ASSUME NEW s, Good(s), NEW length \in Nat
    PROVE  LET u == Received(s, length)
           IN  /\ Uploads(s, u)
               /\ u.upload_remaining_length = s.upload_remaining_length
               /\ length = 0 => u.received = s.received
<1> DEFINE more == IF s.received + length > ImageLength THEN ImageLength + 1
                   ELSE s.received + length
           u == [s EXCEPT !.received = more]
<1>1. s \in States /\ s.received \in 0 .. ImageLength + 1
  BY DEF Good, States
<1>2. more \in 0 .. ImageLength + 1 /\ (length = 0 => more = s.received)
  BY <1>1, DeviceConstants
<1>3. Received(s, length) = s \/ Received(s, length) = u
  BY DEF Received
<1> HIDE DEF more
<1>4. u \in States
  BY <1>1, <1>2 DEF States
<1>5. Good(u)
  BY <1>1, <1>4 DEF Good, States
<1>6. /\ u.upload = s.upload /\ u.received = more
      /\ u.upload_remaining_length = s.upload_remaining_length
  BY <1>1 DEF States
<1> HIDE DEF u
<1>7. QED
  BY <1>2, <1>3, <1>5, <1>6 DEF Uploads

LEMMA StartedOutcome ==
    ASSUME NEW s, Good(s), NEW length \in 1 .. ImageLength
    PROVE  LET u == Started(s, length)
           IN  Uploads(s, u) /\ u.upload_remaining_length = s.upload_remaining_length
<1> DEFINE u == [s EXCEPT !.received = length, !.image_valid = FALSE]
<1>1. s \in States /\ length \in 0 .. ImageLength + 1
  BY DeviceConstants DEF Good
<1>2. Started(s, length) = s \/ Started(s, length) = u
  BY DEF Started
<1>3. u \in States
  BY <1>1 DEF States
<1>4. Good(u)
  BY <1>1, <1>3 DEF Good, States
<1>5. u.upload = s.upload /\ u.upload_remaining_length = s.upload_remaining_length
  BY <1>1 DEF States
<1> HIDE DEF u
<1>6. QED
  BY <1>2, <1>4, <1>5 DEF Uploads

LEMMA CompletedLeaves ==
    ASSUME NEW s, Good(s) PROVE Leaves(s, Completed(s))
<1>1. s \in States /\ s.image_valid \in BOOLEAN /\ 0 \in 0 .. ImageLength + 1
  BY DeviceConstants DEF Good, States
<1>2. PICK valid \in BOOLEAN : valid = (s.image_valid \/ s.received = ImageLength)
  BY <1>1, Zenon
<1> DEFINE u == [s EXCEPT !.image_valid = valid, !.received = 0]
<1>3. Completed(s) = u
  BY <1>2, Zenon DEF Completed
<1>4. u \in States
  BY <1>1 DEF States
<1>5. Good(u)
  BY <1>1, <1>4 DEF Good, States
<1>6. Leaves(s, u)
  BY <1>1, <1>5, DeviceConstants DEF Leaves, States
<1>7. QED
  BY <1>3, <1>6

LEMMA WriteUploads ==
    ASSUME NEW s, NEW after, NEW t \in Write(s, after), Good(s), Uploads(s, after)
    PROVE  /\ Uploads(s, t)
           /\ Same(s, t) \/ Same(after, t)
<1>1. s \in States /\ after \in States /\ Good(after)
  BY DEF Good, Uploads
<1>2. Same(s, t) \/ Same(after, t)
  BY <1>1, WriteOutcome
<1>3. Uploads(s, t)
  BY <1>1, <1>2, SameLeaves, LeavesUploads, UploadsIsTransitive
<1>4. QED
  BY <1>2, <1>3

LEMMA ResultOutcome ==
    ASSUME NEW s, Good(s), NEW success \in BOOLEAN, NEW t \in CommandResult(s, success)
    PROVE  Same(s, t) /\ Leaves(s, t)
<1>1. PICK u \in Read(s) : t = [u EXCEPT !.ok = @ /\ success]
  BY DEF CommandResult
<1>2. s \in States
  BY DEF Good
<1>3. Same(s, u) /\ u \in States
  BY <1>2, ReadOutcome DEF Same
<1>4. u.ok \in BOOLEAN
  BY <1>3 DEF States
<1>5. PICK ok \in BOOLEAN : ok = (u.ok /\ success)
  BY <1>4, Zenon
<1>6. t = [u EXCEPT !.ok = ok]
  BY <1>1, <1>5, Zenon
<1>7. Same(u, t)
  BY <1>3, <1>6, ResultIsNoted
<1>8. Same(s, t)
  BY <1>2, <1>3, <1>7, SameIsTransitive
<1>9. QED
  BY <1>8, SameLeaves

LEMMA ResetOnErrorOutcome ==
    ASSUME NEW S, NEW t \in ResetOnError(S)
    PROVE  \E u \in S : (u.ok /\ t = u) \/ (~u.ok /\ t = upload_reset(u))
BY DEF ResetOnError

(* From when the lengths are set, an upload is no longer over.             *)
LEMMA UploadStartOutcome ==
    ASSUME NEW s, Good(s), NEW length \in 1 .. ImageLength,
           NEW t \in upload_start(s, length)
    PROVE  Good(t)
<1> DEFINE Begun(b) == [b EXCEPT !.upload_remaining_length = ImageLength,
                                 !.upload = "misstarted"]
           ThenStarts(b) == Write(Begun(b), Started(Begun(b), length))
<1>1. ASSUME NEW b, Good(b), NEW u \in ThenStarts(b) PROVE Good(u)
  <2> DEFINE c == Begun(b)
  <2>1. b \in States /\ ImageLength \in 0 .. ImageLength
    BY <1>1, DeviceConstants DEF Good
  <2>2. c \in States /\ c.upload = "misstarted"
    BY <2>1 DEF States, UploadStates
  <2>3. /\ c.cut_hot = b.cut_hot /\ c.mask = b.mask /\ c.at = b.at
        /\ c.powered = b.powered /\ c.interrupt_callback = b.interrupt_callback
    BY <2>1 DEF States
  <2>4. u \in Write(c, Started(c, length))
    BY <1>1
  <2> HIDE DEF c, Begun
  <2>5. Good(c)
    BY <1>1, <2>2, <2>3 DEF Good
  <2>6. Uploads(c, Started(c, length))
    BY <2>5, StartedOutcome
  <2>7. QED
    BY <2>4, <2>5, <2>6, WriteUploads DEF Uploads
<1>2. PICK a \in get_running_location(s) :
        t \in IF a.loc # "Bootloader" THEN {Err(a)} ELSE Then(Write(a, a), ThenStarts)
  BY DEF upload_start, InBootloader, Always
<1>3. Good(a)
  BY <1>2, LocationLeaves DEF Leaves
<1>4. CASE t = Err(a)
  BY <1>3, <1>4, OkLeaves DEF Leaves
<1>5. CASE t \in Then(Write(a, a), ThenStarts)
  <2>1. PICK b \in Write(a, a) : t \in IF b.ok THEN ThenStarts(b) ELSE {b}
    BY <1>5 DEF Then, Always
  <2>2. Good(b)
    BY <1>3, <2>1, WriteLeaves, LeavesIsReflexive DEF Leaves
  <2>3. QED
    BY <1>1, <2>1, <2>2
<1>6. QED
  BY <1>2, <1>4, <1>5

LEMMA ChunkFits ==
    ASSUME NEW left \in 0 .. ImageLength, NEW length \in 0 .. ImageLength, ~(length > left)
    PROVE  /\ length \in Nat /\ left - length \in 0 .. ImageLength
           /\ left = 0 => length = 0 /\ left - length = 0
BY DeviceConstants

LEMMA PositiveOrNot == ASSUME NEW n PROVE (n > 0) \in BOOLEAN
OBVIOUS

(* Of an upload that is over nothing is left: only an empty chunk is sent. *)
LEMMA UploadContinueOutcome ==
    ASSUME NEW s, Good(s), NEW length \in 0 .. ImageLength,
           NEW t \in upload_continue(s, length)
    PROVE  /\ Uploads(s, t)
           /\ ~t.ok => t.upload_remaining_length = 0
           /\ s.upload = "over" => t.received = s.received
<1> DEFINE Taken(b) == [b EXCEPT !.upload_remaining_length = @ - length]
           ThenTakes(b) == CommandResult(Taken(b), b.received > 0)
           Chunk(a) == IF length > a.upload_remaining_length THEN {Err(a)}
                       ELSE Then(Write(a, Received(a, length)), ThenTakes)
<1>1. PICK u \in InBootloader(s, Chunk) : (u.ok /\ t = u) \/ (~u.ok /\ t = upload_reset(u))
  BY ResetOnErrorOutcome DEF upload_continue
<1>2. PICK a \in get_running_location(s) :
        u \in IF a.loc # "Bootloader" THEN {Err(a)} ELSE Chunk(a)
  BY <1>1 DEF InBootloader, Always
<1>3. s \in States
  BY DEF Good
<1>4. Leaves(s, a) /\ Good(a) /\ Same(s, a) /\ a \in States
  BY <1>2, <1>3, LocationLeaves, LocationOutcome DEF Leaves, Good
<1>5. /\ a.upload = s.upload /\ a.received = s.received
      /\ a.upload_remaining_length \in 0 .. ImageLength
      /\ a.upload = "over" => a.upload_remaining_length = 0
  BY <1>4 DEF Same, States, Good
<1>6. Uploads(a, u) /\ (s.upload = "over" => u.received = s.received)
  <2>1. CASE u = Err(a)
    <3>1. Leaves(a, u) /\ Same(a, u)
      BY <1>4, <2>1, OkLeaves, ErrOutcome
    <3>2. QED
      BY <1>5, <3>1, LeavesUploads DEF Same
  <2>2. CASE ~(length > a.upload_remaining_length)
             /\ u \in Then(Write(a, Received(a, length)), ThenTakes)
    <3> DEFINE after == Received(a, length)
    <3>1. PICK b \in Write(a, after) : u \in IF b.ok THEN ThenTakes(b) ELSE {b}
      BY <2>2 DEF Then, Always
    <3>2. /\ Uploads(a, after) /\ (length = 0 => after.received = a.received)
          /\ after.upload_remaining_length = a.upload_remaining_length
      <4>1. length \in Nat
        BY <1>5, <2>2, ChunkFits
      <4>2. QED
        BY <1>4, <4>1, ReceivedOutcome
    <3> HIDE DEF after
    <3>3. Uploads(a, b) /\ (Same(a, b) \/ Same(after, b))
      BY <1>4, <3>1, <3>2, WriteUploads
    <3>4. /\ Good(b) /\ b \in States /\ b.upload = s.upload
          /\ b.upload_remaining_length = a.upload_remaining_length
      BY <1>5, <3>2, <3>3 DEF Same, Uploads, Good
    <3>5. /\ length \in Nat /\ a.upload_remaining_length - length \in 0 .. ImageLength
          /\ s.upload = "over" => length = 0 /\ a.upload_remaining_length - length = 0
      BY <1>5, <2>2, ChunkFits
    <3>6. s.upload = "over" => b.received = s.received
      BY <1>5, <3>2, <3>3, <3>5 DEF Same
    <3>7. CASE ~b.ok
      BY <3>1, <3>3, <3>6, <3>7
    <3>8. CASE b.ok
      <4> DEFINE c == Taken(b)
      <4>1. b.upload_remaining_length - length \in 0 .. ImageLength
            /\ (s.upload = "over" => b.upload_remaining_length - length = 0)
        BY <3>4, <3>5
      <4>2. c \in States
        BY <3>4, <4>1 DEF States
      <4>3. /\ c.upload = b.upload /\ c.received = b.received
            /\ c.upload_remaining_length = b.upload_remaining_length - length
        BY <3>4 DEF States
      <4>4. c.mask = b.mask /\ c.at = b.at /\ c.cut_hot = b.cut_hot
            /\ c.powered = b.powered /\ c.interrupt_callback = b.interrupt_callback
        BY <3>4 DEF States
      <4> DEFINE success == b.received > 0
      <4>5. u \in CommandResult(c, success) /\ success \in BOOLEAN
        <5>1. u \in CommandResult(c, success)
          BY <3>1, <3>8
        <5>2. success \in BOOLEAN
          BY PositiveOrNot
        <5>3. QED
          BY <5>1, <5>2
      <4> HIDE DEF success
      <4> HIDE DEF c
      <4>6. Good(c)
        BY <3>4, <4>1, <4>2, <4>3, <4>4 DEF Good
      <4>7. Same(c, u) /\ Leaves(c, u)
        BY <4>5, <4>6, ResultOutcome
      <4>8. Uploads(b, u)
        BY <4>3, <4>7 DEF Uploads, Leaves
      <4>9. u.received = b.received
        BY <4>3, <4>7 DEF Same
      <4>10. QED
        BY <3>3, <3>6, <4>8, <4>9, UploadsIsTransitive
    <3>9. QED
      BY <3>7, <3>8
  <2>3. QED
    BY <1>2, <2>1, <2>2
<1>7. CASE u.ok /\ t = u
  BY <1>4, <1>6, <1>7, LeavesUploads, UploadsIsTransitive
<1>8. CASE ~u.ok /\ t = upload_reset(u)
  <2>1. Good(u)
    BY <1>6 DEF Uploads
  <2>2. Leaves(u, t) /\ t.upload_remaining_length = 0 /\ t.received = u.received
    BY <1>8, <2>1, UploadResetLeaves
  <2>3. QED
    BY <1>4, <1>6, <2>2, LeavesUploads, UploadsIsTransitive
<1>9. QED
  BY <1>1, <1>7, <1>8

LEMMA UploadCompleteOutcome ==
    ASSUME NEW s, Good(s), NEW t \in upload_complete(s)
    PROVE  Leaves(s, t) /\ t.upload_remaining_length = 0
<1> DEFINE r == upload_reset(s)
           ThenResult(b) == CommandResult(b, b.image_valid)
           ThenCompletes(a) == Then(Write(a, Completed(a)), ThenResult)
<1>1. PICK a \in get_running_location(r) :
        t \in IF a.loc # "Bootloader" THEN {Err(a)} ELSE ThenCompletes(a)
  BY DEF upload_complete, InBootloader, Always
<1>2. Leaves(s, r) /\ Good(r) /\ r.upload_remaining_length = 0
  BY UploadResetLeaves DEF Leaves
<1> HIDE DEF r
<1>3. Leaves(r, a) /\ Good(a)
  BY <1>1, <1>2, LocationLeaves DEF Leaves
<1>4. Leaves(a, t)
  <2>1. CASE t = Err(a)
    BY <1>3, <2>1, OkLeaves
  <2>2. CASE t \in ThenCompletes(a)
    <3>1. PICK b \in Write(a, Completed(a)) : t \in IF b.ok THEN ThenResult(b) ELSE {b}
      BY <2>2 DEF Then, Always
    <3>2. Leaves(a, b) /\ Good(b) /\ b.image_valid \in BOOLEAN
      <4>1. Leaves(a, b)
        BY <1>3, <3>1, CompletedLeaves, WriteLeaves
      <4>2. QED
        BY <4>1 DEF Leaves, Good, States
    <3>3. t = b \/ Leaves(b, t)
      BY <3>1, <3>2, ResultOutcome
    <3>4. QED
      BY <1>3, <3>2, <3>3, LeavesIsTransitive
  <2>3. QED
    BY <1>1, <2>1, <2>2
<1>5. Leaves(r, t)
  BY <1>2, <1>3, <1>4, LeavesIsTransitive
<1>6. t.upload_remaining_length = 0
  BY <1>2, <1>5 DEF Leaves
<1>7. QED
  BY <1>2, <1>5, <1>6, LeavesIsTransitive

-----------------------------------------------------------------------------
(* The chunks of upload_image() are those of the loop, one after the       *)
(* other: the function that sends them exists, and is what it says.        *)
LEMMA LeastNumber ==
    ASSUME NEW S \in SUBSET Nat, S # {}
    PROVE  \E n \in S : \A m \in S : n <= m
<1>1. PICK n \in S : \A m \in S : <<m, n>> \notin OpToRel(<, Nat)
  BY NatLessThanWellFounded, WFMin
<1>2. \A m \in S : ~(m < n)
  BY <1>1 DEF OpToRel
<1>3. QED
  BY <1>2

Sends(s, f, m) ==
    f = [n \in 1 .. m |-> IF n = 1 THEN FirstChunk(s) ELSE NextChunk(f[n - 1])]

LEMMA ChunksExist == ASSUME NEW s, NEW m \in Nat \ {0} PROVE \E f : Sends(s, f, m)
<1> DEFINE Without == {k \in Nat \ {0} : ~ \E f : Sends(s, f, k)}
<1>1. SUFFICES Without = {}
  OBVIOUS
<1>2. SUFFICES ASSUME Without # {} PROVE FALSE
  OBVIOUS
<1>3. PICK k \in Without : \A l \in Without : k <= l
  <2>1. Without \in SUBSET Nat
    OBVIOUS
  <2> HIDE DEF Without
  <2>2. QED
    BY <1>2, <2>1, LeastNumber
<1>4. k \in Nat \ {0} /\ \A f : ~Sends(s, f, k)
  OBVIOUS
<1>5. CASE k = 1
  <2> DEFINE f == [n \in 1 .. 1 |-> FirstChunk(s)]
  <2>1. f = [n \in 1 .. 1 |-> IF n = 1 THEN FirstChunk(s) ELSE NextChunk(f[n - 1])]
    OBVIOUS
  <2>2. Sends(s, f, k)
    BY <1>5, <2>1 DEF Sends
  <2>3. QED
    BY <1>4, <2>2
<1>6. CASE k # 1
  <2>1. k - 1 \in Nat \ {0} /\ ~(k <= k - 1)
    BY <1>4, <1>6
  <2>2. k - 1 \notin Without
    BY <1>3, <2>1
  <2>3. PICK f : Sends(s, f, k - 1)
    BY <2>1, <2>2
  <2> HIDE DEF Without
  <2> DEFINE g == [n \in 1 .. k |-> IF n = k THEN NextChunk(f[k - 1]) ELSE f[n]]
  <2>4. ASSUME NEW n \in 1 .. k
        PROVE  g[n] = IF n = 1 THEN FirstChunk(s) ELSE NextChunk(g[n - 1])
    <3>1. CASE n = k
      <4>1. k - 1 \in 1 .. k /\ k - 1 # k
        BY <1>4, <2>1
      <4>2. g[k] = NextChunk(f[k - 1]) /\ g[k - 1] = f[k - 1]
        BY <1>4, <4>1
      <4>3. QED
        BY <1>6, <3>1, <4>2
    <3>2. CASE n # k
      <4>1. n \in 1 .. k - 1 /\ (n # 1 => n - 1 \in 1 .. k /\ n - 1 # k)
        BY <1>4, <3>2
      <4>2. g[n] = f[n] /\ (n # 1 => g[n - 1] = f[n - 1])
        BY <3>2, <4>1
      <4>3. f[n] = IF n = 1 THEN FirstChunk(s) ELSE NextChunk(f[n - 1])
        BY <2>3, <4>1 DEF Sends
      <4>4. QED
        BY <4>2, <4>3
    <3>3. QED
      BY <3>1, <3>2
  <2>5. g = [n \in 1 .. k |-> g[n]]
    OBVIOUS
  <2> HIDE DEF g
  <2>6. Sends(s, g, k)
    BY <2>4, <2>5 DEF Sends
  <2>7. QED
    BY <1>4, <2>6
<1>7. QED
  BY <1>5, <1>6

LEMMA ChunksAreSent == ASSUME NEW s PROVE Sends(s, Chunks(s), ImageLength)
<1>1. \E f : Sends(s, f, ImageLength)
  BY ChunksExist, DeviceConstants
<1>2. Chunks(s) = CHOOSE f : Sends(s, f, ImageLength)
  BY DEF Chunks, Sends
<1>3. QED
  BY <1>1, <1>2

LEMMA FirstChunkOutcome ==
    ASSUME NEW s, Good(s), NEW t \in FirstChunk(s) PROVE Uploads(s, t)
<1> DEFINE ThenStarts(b) == ResetOnError(Write(b, Started(b, 1)))
<1>1. PICK a \in get_running_location(s) :
        t \in IF a.loc # "Bootloader" THEN {Err(a)} ELSE Then(Write(a, a), ThenStarts)
  BY DEF FirstChunk, InBootloader, Always
<1>2. Leaves(s, a) /\ Good(a) /\ Uploads(s, a)
  BY <1>1, LocationLeaves, LeavesUploads DEF Leaves
<1>3. CASE t = Err(a)
  BY <1>2, <1>3, OkLeaves, LeavesUploads, UploadsIsTransitive
<1>4. CASE t \in Then(Write(a, a), ThenStarts)
  <2>1. PICK b \in Write(a, a) : t \in IF b.ok THEN ThenStarts(b) ELSE {b}
    BY <1>4 DEF Then, Always
  <2>2. Uploads(a, b) /\ Good(b)
    BY <1>2, <2>1, WriteLeaves, LeavesIsReflexive, LeavesUploads DEF Leaves
  <2>3. CASE t = b
    BY <1>2, <2>2, <2>3, UploadsIsTransitive
  <2>4. CASE t \in ThenStarts(b)
    <3>1. PICK c \in Write(b, Started(b, 1)) : t = c \/ t = upload_reset(c)
      BY <2>4, ResetOnErrorOutcome
    <3>2. 1 \in 1 .. ImageLength
      BY DeviceConstants
    <3>3. Uploads(b, Started(b, 1))
      BY <2>2, <3>2, StartedOutcome
    <3>4. Uploads(b, c) /\ Good(c)
      BY <2>2, <3>1, <3>3, WriteUploads DEF Uploads
    <3>5. Uploads(c, t)
      BY <3>1, <3>4, UploadResetLeaves, LeavesUploads DEF Uploads
    <3>6. QED
      BY <1>2, <2>2, <3>4, <3>5, UploadsIsTransitive
  <2>5. QED
    BY <2>1, <2>3, <2>4
<1>5. QED
  BY <1>1, <1>3, <1>4

LEMMA NextChunkOutcome ==
    ASSUME NEW s, Good(s), NEW S, \A u \in S : Uploads(s, u), NEW t \in NextChunk(S)
    PROVE  Uploads(s, t)
<1> DEFINE ThenSends(b) == ResetOnError(Write(b, Received(b, 1)))
<1>1. PICK a \in S : t \in IF a.ok THEN Then(CommandResult(a, TRUE), ThenSends) ELSE {a}
  BY DEF NextChunk, Then, Always
<1>2. Uploads(s, a) /\ Good(a)
  BY <1>1 DEF Uploads
<1>3. CASE t = a
  BY <1>2, <1>3
<1>4. CASE t \in Then(CommandResult(a, TRUE), ThenSends)
  <2>1. PICK b \in CommandResult(a, TRUE) : t \in IF b.ok THEN ThenSends(b) ELSE {b}
    BY <1>4 DEF Then, Always
  <2>2. Uploads(a, b) /\ Good(b)
    BY <1>2, <2>1, ResultOutcome, LeavesUploads DEF Leaves
  <2>3. CASE t = b
    BY <1>2, <2>2, <2>3, UploadsIsTransitive
  <2>4. CASE t \in ThenSends(b)
    <3>1. PICK c \in Write(b, Received(b, 1)) : t = c \/ t = upload_reset(c)
      BY <2>4, ResetOnErrorOutcome
    <3>2. Uploads(b, Received(b, 1))
      BY <2>2, ReceivedOutcome
    <3>3. Uploads(b, c) /\ Good(c)
      BY <2>2, <3>1, <3>2, WriteUploads DEF Uploads
    <3>4. Uploads(c, t)
      BY <3>1, <3>3, UploadResetLeaves, LeavesUploads DEF Uploads
    <3>5. QED
      BY <1>2, <2>2, <3>3, <3>4, UploadsIsTransitive
  <2>5. QED
    BY <2>1, <2>3, <2>4
<1>5. QED
  BY <1>1, <1>3, <1>4

LEMMA ChunksOutcome ==
    ASSUME NEW s, Good(s), NEW t \in Chunks(s)[ImageLength] PROVE Uploads(s, t)
<1> DEFINE f == Chunks(s)
           Wrong == {n \in 1 .. ImageLength : \E u \in f[n] : ~Uploads(s, u)}
<1>1. \A n \in 1 .. ImageLength :
        f[n] = IF n = 1 THEN FirstChunk(s) ELSE NextChunk(f[n - 1])
  BY ChunksAreSent DEF Sends
<1> HIDE DEF f
<1>2. ASSUME Wrong # {} PROVE FALSE
  <2>1. PICK n \in Wrong : \A m \in Wrong : n <= m
    <3>1. Wrong \in SUBSET Nat
      BY DeviceConstants
    <3> HIDE DEF Wrong
    <3>2. QED
      BY <1>2, <3>1, LeastNumber
  <2>2. n \in 1 .. ImageLength /\ \E u \in f[n] : ~Uploads(s, u)
    OBVIOUS
  <2>3. CASE n = 1
    BY <1>1, <2>2, <2>3, FirstChunkOutcome
  <2>4. CASE n # 1
    <3>1. n - 1 \in 1 .. ImageLength /\ ~(n <= n - 1)
      BY <2>2, <2>4, DeviceConstants
    <3>2. \A u \in f[n - 1] : Uploads(s, u)
      BY <2>1, <3>1
    <3>3. f[n] = NextChunk(f[n - 1])
      BY <1>1, <2>2, <2>4
    <3>4. QED
      BY <2>2, <3>2, <3>3, NextChunkOutcome
  <2>5. QED
    BY <2>3, <2>4
<1>3. ImageLength \in 1 .. ImageLength
  BY DeviceConstants
<1>4. QED
  BY <1>2, <1>3 DEF f

LEMMA UploadImageOutcome ==
    ASSUME NEW s, Good(s), NEW t \in upload_image(s) PROVE Uploads(s, t)
<1> DEFINE ThenResult(c) == CommandResult(c, c.image_valid)
           ThenCompletes(b) == Then(Write(b, Completed(b)), ThenResult)
<1>1. PICK a \in Chunks(s)[ImageLength] :
        t \in IF a.ok THEN Then(CommandResult(a, TRUE), ThenCompletes) ELSE {a}
  BY DEF upload_image, Then, Always
<1>2. Uploads(s, a) /\ Good(a)
  BY <1>1, ChunksOutcome DEF Uploads
<1>3. CASE t = a
  BY <1>2, <1>3
<1>4. CASE t \in Then(CommandResult(a, TRUE), ThenCompletes)
  <2>1. PICK b \in CommandResult(a, TRUE) : t \in IF b.ok THEN ThenCompletes(b) ELSE {b}
    BY <1>4 DEF Then, Always
  <2>2. Leaves(a, b) /\ Good(b)
    BY <1>2, <2>1, ResultOutcome DEF Leaves
  <2>3. t = b \/ Leaves(b, t)
    <3>1. CASE t = b
      BY <3>1
    <3>2. CASE t \in ThenCompletes(b)
      <4>1. PICK c \in Write(b, Completed(b)) : t \in IF c.ok THEN ThenResult(c) ELSE {c}
        BY <3>2 DEF Then, Always
      <4>2. Leaves(b, c)
        BY <2>2, <4>1, CompletedLeaves, WriteLeaves
      <4>3. Good(c) /\ c.image_valid \in BOOLEAN
        BY <4>2 DEF Leaves, Good, States
      <4>4. t = c \/ Leaves(c, t)
        BY <4>1, <4>3, ResultOutcome
      <4>5. QED
        BY <2>2, <4>2, <4>4, LeavesIsTransitive
    <3>3. QED
      BY <2>1, <3>1, <3>2
  <2>4. QED
    BY <1>2, <2>2, <2>3, LeavesUploads, UploadsIsTransitive
<1>5. QED
  BY <1>1, <1>3, <1>4

-----------------------------------------------------------------------------
(* What the call name at s promises of its outcome t. *)
Promises(s, name, t) ==
    /\ Good(t)
    /\ name = "set_power_mode" =>
         t.hung = s.hung /\ (t.power_mode # s.power_mode => AsTable(t, t.power_mode))
    /\ name = "reset" /\ s.powered /\ t.failures = s.failures =>
         IF t.ok THEN Responds(t) ELSE ~s.image_valid
    /\ \/ name \in {"upload_start", "upload_image"} \/ s.upload # "over"
       \/ t.received \in {s.received, 0}

(* The calls that promise nothing but to keep the invariant, and to leave  *)
(* alone what the chip has received.                                       *)
Others == Calls \ {"set_power_mode", "reset"}

LEMMA KeepsPromises ==
    ASSUME NEW s, NEW name \in Others, NEW t, Keeps(s, t) PROVE Promises(s, name, t)
BY DEF Keeps, Promises, Others

LEMMA CallIsNoted ==
    ASSUME NEW s, NEW name \in Calls, NEW t, Promises(s, name, t)
    PROVE  LET u == [t EXCEPT !.call = name, !.loc = "other"]
           IN  u.call = name /\ Promises(s, name, u)
<1> DEFINE u == [t EXCEPT !.call = name, !.loc = "other"]
<1>1. t \in States /\ Good(t)
  BY DEF Promises, Good
<1>2. u \in States /\ u.call = name
  BY <1>1 DEF States, Locations
<1>3. /\ u.cut_hot = t.cut_hot /\ u.mask = t.mask /\ u.at = t.at
      /\ u.interrupt_callback = t.interrupt_callback /\ u.upload = t.upload
      /\ u.upload_remaining_length = t.upload_remaining_length
  BY <1>1 DEF States
<1>4. /\ u.powered = t.powered /\ u.clock = t.clock /\ u.hung = t.hung
      /\ u.power_mode = t.power_mode /\ u.failures = t.failures /\ u.ok = t.ok
      /\ u.received = t.received
  BY <1>1 DEF States
<1>5. u.radio = t.radio /\ u.pa = t.pa /\ u.cw = t.cw
  BY <1>1 DEF States
<1> HIDE DEF u
<1>6. Good(u)
  BY <1>1, <1>2, <1>3, <1>4 DEF Good
<1>7. AsTable(t, t.power_mode) => AsTable(u, u.power_mode)
  BY <1>4, <1>5 DEF AsTable
<1>8. Responds(t) => Responds(u)
  BY <1>3, <1>4 DEF Responds
<1>9. Promises(s, name, u)
  BY <1>4, <1>6, <1>7, <1>8 DEF Promises
<1>10. QED
  BY <1>2, <1>9 DEF u

LEMMA CallKeepsPromises ==
    ASSUME NEW name \in Calls, NEW S, Call(name, S),
           \A t \in S : Promises(d, name, t)
    PROVE  Promises(d, d'.call, d')
<1>1. PICK t \in S : d' = [t EXCEPT !.call = name, !.loc = "other"]
  BY DEF Call
<1> DEFINE u == [t EXCEPT !.call = name, !.loc = "other"]
<1>2. Promises(d, name, t)
  BY <1>1
<1>3. u.call = name /\ Promises(d, name, u)
  BY <1>2, CallIsNoted
<1>4. d' = u
  BY <1>1
<1> HIDE DEF u
<1>5. QED
  BY <1>3, <1>4

(* What the model notes of a call besides: the phase, and that an upload   *)
(* has broken off or is over.                                              *)
LEMMA PhaseKeeps ==
    ASSUME NEW s, NEW t, Keeps(s, t), NEW p \in {"down", "up", "torn"}
    PROVE  Keeps(s, [t EXCEPT !.phase = p])
<1> DEFINE u == [t EXCEPT !.phase = p]
<1>1. t \in States /\ Good(t)
  BY DEF Keeps, Good
<1>2. u \in States
  BY <1>1 DEF States
<1>3. /\ u.cut_hot = t.cut_hot /\ u.mask = t.mask /\ u.at = t.at
      /\ u.powered = t.powered /\ u.interrupt_callback = t.interrupt_callback
      /\ u.upload = t.upload /\ u.upload_remaining_length = t.upload_remaining_length
      /\ u.hung = t.hung /\ u.received = t.received
  BY <1>1 DEF States
<1> HIDE DEF u
<1>4. Keeps(s, u)
  BY <1>1, <1>2, <1>3 DEF Keeps, Good
<1>5. QED
  BY <1>4 DEF u

LEMMA UploadIsNoted ==
    ASSUME NEW s, Good(s), NEW b \in UploadStates,
           b = "over" => s.upload_remaining_length = 0
    PROVE  LET u == [s EXCEPT !.upload = b]
           IN  Good(u) /\ u.received = s.received
<1> DEFINE u == [s EXCEPT !.upload = b]
<1>1. s \in States
  BY DEF Good
<1>2. u \in States /\ u.upload = b /\ u.received = s.received
  BY <1>1 DEF States
<1>3. /\ u.cut_hot = s.cut_hot /\ u.mask = s.mask /\ u.at = s.at
      /\ u.powered = s.powered /\ u.interrupt_callback = s.interrupt_callback
      /\ u.upload_remaining_length = s.upload_remaining_length
  BY <1>1 DEF States
<1> HIDE DEF u
<1>4. Good(u)
  BY <1>2, <1>3 DEF Good
<1>5. QED
  BY <1>2, <1>4 DEF u

-----------------------------------------------------------------------------
(* The calls, one by one. *)
LEMMA SetupPromises == ASSUME Good(d), Setup PROVE Promises(d, d'.call, d')
<1> DEFINE S == Then(ex10_core_board_setup(d), ex10_simple_example_init)
           P(s) == [s EXCEPT !.phase = IF s.ok THEN "up" ELSE "torn"]
           T == {P(s) : s \in S}
<1>1. ASSUME NEW s \in S PROVE Keeps(d, s)
  <2>1. PICK a \in ex10_core_board_setup(d) :
          s \in IF a.ok THEN ex10_simple_example_init(a) ELSE {a}
    BY <1>1 DEF Then, Always
  <2>2. Keeps(d, a) /\ Good(a)
    BY <2>1, SetupOutcome, LeavesKeeps DEF Leaves
  <2>3. s = a \/ Keeps(a, s)
    BY <2>1, <2>2, ExampleInitOutcome
  <2>4. QED
    BY <2>2, <2>3, KeepsIsTransitive
<1>2. ASSUME NEW t \in T PROVE Promises(d, "setup", t)
  <2>1. PICK s \in S : t = P(s)
    OBVIOUS
  <2>2. Keeps(d, s)
    BY <1>1
  <2> HIDE DEF S
  <2>3. Keeps(d, t)
    BY <2>1, <2>2, PhaseKeeps
  <2>4. QED
    BY <2>3, KeepsPromises DEF Others, Calls
<1>3. Call("setup", T)
  BY DEF Setup
<1> HIDE DEF T
<1>4. QED
  BY <1>2, <1>3, CallKeepsPromises DEF Calls

LEMMA BootloaderSetupPromises ==
    ASSUME Good(d), BootloaderSetup PROVE Promises(d, d'.call, d')
<1> DEFINE S == ex10_bootloader_core_board_setup(d)
           P(s) == [s EXCEPT !.phase = IF s.ok THEN "up" ELSE "torn"]
           T == {P(s) : s \in S}
<1>1. ASSUME NEW t \in T PROVE Promises(d, "setup", t)
  <2>1. PICK s \in S : t = P(s)
    OBVIOUS
  <2>2. Keeps(d, s)
    BY <2>1, BootloaderSetupOutcome, LeavesKeeps
  <2> HIDE DEF S
  <2>3. Keeps(d, t)
    BY <2>1, <2>2, PhaseKeeps
  <2>4. QED
    BY <2>3, KeepsPromises DEF Others, Calls
<1>2. Call("setup", T)
  BY DEF BootloaderSetup
<1> HIDE DEF T
<1>3. QED
  BY <1>1, <1>2, CallKeepsPromises DEF Calls

LEMMA TornDownOutcome ==
    ASSUME NEW s, Good(s)
    PROVE  LET t == [s EXCEPT !.phase = "down"] IN Good(t) /\ t.received = s.received
<1> DEFINE t == [s EXCEPT !.phase = "down"]
<1>1. s \in States
  BY DEF Good
<1>2. t \in States /\ t.received = s.received
  BY <1>1 DEF States
<1>3. /\ t.cut_hot = s.cut_hot /\ t.mask = s.mask /\ t.at = s.at
      /\ t.powered = s.powered /\ t.interrupt_callback = s.interrupt_callback
      /\ t.upload = s.upload /\ t.upload_remaining_length = s.upload_remaining_length
  BY <1>1 DEF States
<1> HIDE DEF t
<1>4. Good(t)
  BY <1>2, <1>3 DEF Good
<1>5. QED
  BY <1>2, <1>4 DEF t

LEMMA TeardownPromises == ASSUME Good(d), Teardown PROVE Promises(d, d'.call, d')
<1> DEFINE S == ex10_core_board_teardown(d)
           P(s) == [s EXCEPT !.phase = "down"]
           T == {P(s) : s \in S}
<1>1. ASSUME NEW t \in T PROVE Promises(d, "teardown", t)
  <2>1. PICK s \in S : t = P(s)
    OBVIOUS
  <2>2. PICK a \in deinit(d) : s = power_down(a)
    BY <2>1 DEF ex10_core_board_teardown
  <2>3. Good(a)
    BY <2>2, DeinitOutcome DEF Leaves
  <2>4. Good(s) /\ s.received = 0
    BY <2>2, <2>3, PowerDownOutcome
  <2> HIDE DEF S
  <2>5. Good(t) /\ t.received = 0
    BY <2>1, <2>4, TornDownOutcome
  <2>6. QED
    BY <2>5 DEF Promises
<1>2. Call("teardown", T)
  BY DEF Teardown
<1> HIDE DEF T
<1>3. QED
  BY <1>1, <1>2, CallKeepsPromises DEF Calls

LEMMA SetPowerModePromises ==
    ASSUME Good(d), NEW mode \in Modes, SetPowerMode(mode)
    PROVE  Promises(d, d'.call, d')
<1>1. ASSUME NEW t \in set_power_mode(d, mode) PROVE Promises(d, "set_power_mode", t)
  <2>1. Keeps(d, t) /\ (t.power_mode # d.power_mode => AsTable(t, t.power_mode))
    BY <1>1, SetPowerModeOutcome
  <2>2. QED
    BY <2>1 DEF Promises, Keeps
<1>2. Call("set_power_mode", set_power_mode(d, mode))
  BY DEF SetPowerMode
<1>3. QED
  BY <1>1, <1>2, CallKeepsPromises DEF Calls

LEMMA ResetPromises ==
    ASSUME Good(d), NEW place \in Places, Reset(place) PROVE Promises(d, d'.call, d')
<1>1. ASSUME NEW t \in reset(d, place) PROVE Promises(d, "reset", t)
  <2>1. /\ Leaves(d, t)
        /\ d.powered /\ t.failures = d.failures =>
             (t.ok => Responds(t)) /\ (~t.ok => ~d.image_valid)
    BY <1>1, ResetOutcome
  <2>2. QED
    BY <2>1 DEF Promises, Leaves
<1>2. Call("reset", reset(d, place))
  BY DEF Reset
<1>3. QED
  BY <1>1, <1>2, CallKeepsPromises DEF Calls

LEMMA VersionPromises ==
    ASSUME Good(d), GetBootloaderVersion PROVE Promises(d, d'.call, d')
<1>1. ASSUME NEW t \in get_bootloader_version(d)
      PROVE  Promises(d, "get_bootloader_version", t)
  BY <1>1, VersionOutcome, LeavesKeeps, KeepsPromises DEF Others, Calls
<1>2. QED
  BY <1>1, CallKeepsPromises DEF GetBootloaderVersion, Calls

LEMMA MaintainsPromises == ASSUME Good(d), Maintains PROVE Promises(d, d'.call, d')
<1> DEFINE S == write_info_page(d) \cup get_image_validity(d) \cup revalidate_image(d)
<1>1. ASSUME NEW t \in S PROVE Promises(d, "maintain", t)
  <2>1. Leaves(d, t)
    BY <1>1, InfoPageOutcome, ValidityOutcome, RevalidateOutcome
  <2>2. QED
    BY <2>1, LeavesKeeps, KeepsPromises DEF Others, Calls
<1>2. Call("maintain", S)
  BY DEF Maintains
<1> HIDE DEF S
<1>3. QED
  BY <1>1, <1>2, CallKeepsPromises DEF Calls

LEMMA RegisterPromises ==
    ASSUME Good(d), RegisterCallbacks PROVE Promises(d, d'.call, d')
<1> DEFINE S == Then(register_fifo_data_callback(d), register_interrupt_callback)
<1>1. ASSUME NEW t \in S PROVE Promises(d, "register", t)
  <2>1. PICK a \in register_fifo_data_callback(d) :
          t \in IF a.ok THEN register_interrupt_callback(a) ELSE {a}
    BY <1>1 DEF Then, Always
  <2>2. Leaves(d, a) /\ Good(a)
    BY <2>1, RegisterFifoOutcome DEF Leaves
  <2>3. t = a \/ Leaves(a, t)
    BY <2>1, <2>2, RegisterInterruptOutcome
  <2>4. Leaves(d, t)
    BY <2>2, <2>3, LeavesIsTransitive
  <2>5. QED
    BY <2>4, LeavesKeeps, KeepsPromises DEF Others, Calls
<1>2. Call("register", S)
  BY DEF RegisterCallbacks
<1> HIDE DEF S
<1>3. QED
  BY <1>1, <1>2, CallKeepsPromises DEF Calls

LEMMA UnregisterPromises ==
    ASSUME Good(d), UnregisterCallbacks PROVE Promises(d, d'.call, d')
<1> DEFINE S == unregister_interrupt_callback(unregister_fifo_data_callback(d))
<1>1. ASSUME NEW t \in S PROVE Promises(d, "unregister", t)
  BY <1>1, UnregisterOutcome, LeavesKeeps, KeepsPromises DEF Others, Calls
<1>2. Call("unregister", S)
  BY DEF UnregisterCallbacks
<1> HIDE DEF S
<1>3. QED
  BY <1>1, <1>2, CallKeepsPromises DEF Calls

LEMMA UploadStartPromises ==
    ASSUME Good(d), NEW n \in 1 .. ImageLength, UploadStart(n)
    PROVE  Promises(d, d'.call, d')
<1> DEFINE S == upload_start(d, n)
           P(s) == [s EXCEPT !.upload = IF s.ok THEN "begun" ELSE @]
           T == {P(s) : s \in S}
<1>1. ASSUME NEW t \in T PROVE Promises(d, "upload_start", t)
  <2>1. PICK s \in S : t = P(s)
    OBVIOUS
  <2>2. Good(s) /\ s.upload \in UploadStates
    BY <2>1, UploadStartOutcome DEF Good, States
  <2> HIDE DEF S
  <2>3. PICK b \in UploadStates : b = IF s.ok THEN "begun" ELSE s.upload
    BY <2>2 DEF UploadStates
  <2>4. t = [s EXCEPT !.upload = b]
    BY <2>1, <2>3
  <2>5. b = "over" => s.upload_remaining_length = 0
    BY <2>2, <2>3 DEF Good
  <2>6. Good(t)
    BY <2>2, <2>4, <2>5, UploadIsNoted
  <2>7. QED
    BY <2>6 DEF Promises
<1>2. Call("upload_start", T)
  BY DEF UploadStart
<1> HIDE DEF T
<1>3. QED
  BY <1>1, <1>2, CallKeepsPromises DEF Calls

LEMMA UploadContinuePromises ==
    ASSUME Good(d), NEW n \in 0 .. ImageLength, UploadContinue(n)
    PROVE  Promises(d, d'.call, d')
<1> DEFINE S == upload_continue(d, n)
           P(s) == [s EXCEPT !.upload = IF s.ok THEN @ ELSE "over"]
           T == {P(s) : s \in S}
<1>1. ASSUME NEW t \in T PROVE Promises(d, "upload_continue", t)
  <2>1. PICK s \in S : t = P(s)
    OBVIOUS
  <2>2. /\ Good(s) /\ s \in States /\ (~s.ok => s.upload_remaining_length = 0)
        /\ d.upload = "over" => s.received = d.received
        /\ s.upload \in UploadStates
    BY <2>1, UploadContinueOutcome DEF Uploads, Good, States
  <2> HIDE DEF S
  <2>3. PICK b \in UploadStates : b = IF s.ok THEN s.upload ELSE "over"
    BY <2>2 DEF UploadStates
  <2>4. t = [s EXCEPT !.upload = b]
    BY <2>1, <2>3
  <2>5. b = "over" => s.upload_remaining_length = 0
    BY <2>2, <2>3 DEF Good
  <2>6. Good(t) /\ t.received = s.received
    BY <2>2, <2>4, <2>5, UploadIsNoted
  <2>7. QED
    BY <2>2, <2>6 DEF Promises
<1>2. Call("upload_continue", T)
  BY DEF UploadContinue
<1> HIDE DEF T
<1>3. QED
  BY <1>1, <1>2, CallKeepsPromises DEF Calls

LEMMA UploadCompletePromises ==
    ASSUME Good(d), UploadComplete PROVE Promises(d, d'.call, d')
<1> DEFINE S == upload_complete(d)
           P(s) == [s EXCEPT !.upload = "over"]
           T == {P(s) : s \in S}
<1>1. ASSUME NEW t \in T PROVE Promises(d, "upload_complete", t)
  <2>1. PICK s \in S : t = P(s)
    OBVIOUS
  <2>2. Leaves(d, s) /\ Good(s) /\ s.upload_remaining_length = 0
    BY <2>1, UploadCompleteOutcome DEF Leaves
  <2> HIDE DEF S
  <2>3. Good(t) /\ t.received = s.received
    BY <2>1, <2>2, UploadIsNoted DEF UploadStates
  <2>4. QED
    BY <2>2, <2>3 DEF Promises, Leaves
<1>2. Call("upload_complete", T)
  BY DEF UploadComplete
<1> HIDE DEF T
<1>3. QED
  BY <1>1, <1>2, CallKeepsPromises DEF Calls

LEMMA UploadImagePromises ==
    ASSUME Good(d), UploadImage PROVE Promises(d, d'.call, d')
<1>1. ASSUME NEW t \in upload_image(d) PROVE Promises(d, "upload_image", t)
  BY <1>1, UploadImageOutcome DEF Promises, Uploads
<1>2. Call("upload_image", upload_image(d))
  BY DEF UploadImage
<1>3. QED
  BY <1>1, <1>2, CallKeepsPromises DEF Calls

(* The environment. *)
LEMMA TransmitsPromises ==
    ASSUME Good(d), Transmits PROVE Promises(d, d'.call, d')
<1> DEFINE u == [d EXCEPT !.cw = TRUE, !.call = "transmit"]
<1>1. d \in States /\ d' = u
  BY DEF Good, Transmits
<1>2. u \in States /\ u.call = "transmit" /\ u.received = d.received
  BY <1>1 DEF States, Calls
<1>3. /\ u.cut_hot = d.cut_hot /\ u.mask = d.mask /\ u.at = d.at
      /\ u.powered = d.powered /\ u.interrupt_callback = d.interrupt_callback
      /\ u.upload = d.upload /\ u.upload_remaining_length = d.upload_remaining_length
  BY <1>1 DEF States
<1> HIDE DEF u
<1>4. Good(u)
  BY <1>2, <1>3 DEF Good
<1>5. QED
  BY <1>1, <1>2, <1>4 DEF Promises

LEMMA CrashesPromises == ASSUME Good(d), Crashes PROVE Promises(d, d'.call, d')
<1>1. PICK l \in Places :
        d' = [Booted(d, l) EXCEPT !.crashes = @ + 1, !.call = "crash"]
  BY DEF Crashes, Places
<1>2. /\ d \in States /\ d.crashes < MaxCrashes
      /\ d.crashes + 1 \in 0 .. MaxCrashes
  BY DeviceConstants DEF Good, Crashes, States
<1> DEFINE b == Booted(d, l)
           u == [b EXCEPT !.crashes = @ + 1, !.call = "crash"]
<1>3. Good(b) /\ b \in States /\ b.received = 0
  BY <1>2, BootLeaves, BootOutcome DEF Leaves, Good
<1>4. b.crashes = d.crashes
  BY <1>2 DEF Booted, States
<1>5. d' = u
  BY <1>1
<1> HIDE DEF b
<1>6. u \in States /\ u.call = "crash" /\ u.received = b.received
  <2>1. PICK n \in 0 .. MaxCrashes : n = b.crashes + 1
    BY <1>2, <1>4
  <2>2. u = [b EXCEPT !.crashes = n, !.call = "crash"]
    BY <2>1
  <2> HIDE DEF u
  <2>3. QED
    BY <1>3, <2>2 DEF States, Calls
<1>7. /\ u.cut_hot = b.cut_hot /\ u.mask = b.mask /\ u.at = b.at
      /\ u.powered = b.powered /\ u.interrupt_callback = b.interrupt_callback
      /\ u.upload = b.upload /\ u.upload_remaining_length = b.upload_remaining_length
  BY <1>3 DEF States
<1> HIDE DEF u
<1>8. Good(u)
  BY <1>3, <1>6, <1>7 DEF Good
<1>9. QED
  BY <1>3, <1>5, <1>6, <1>8 DEF Promises

LEMMA NextPromises == ASSUME Good(d), Next PROVE Promises(d, d'.call, d')
<1>1. \/ Setup \/ BootloaderSetup \/ Teardown \/ Maintains \/ GetBootloaderVersion
      \/ RegisterCallbacks \/ UnregisterCallbacks \/ UploadComplete \/ UploadImage
      \/ Transmits \/ Crashes
      \/ (\E mode \in Modes : SetPowerMode(mode)) \/ (\E l \in Places : Reset(l))
      \/ (\E n \in 1 .. ImageLength : UploadStart(n))
      \/ (\E n \in 0 .. ImageLength : UploadContinue(n))
  BY DEF Next, Places
<1>2. QED
  BY <1>1, SetupPromises, BootloaderSetupPromises, TeardownPromises, MaintainsPromises,
     VersionPromises, RegisterPromises, UnregisterPromises, UploadCompletePromises,
     UploadImagePromises, TransmitsPromises, CrashesPromises, SetPowerModePromises,
     ResetPromises, UploadStartPromises, UploadContinuePromises

-----------------------------------------------------------------------------
(* The invariant, and what follows from it. *)
LEMMA InitIsGood == Init => Good(d)
<1>1. SUFFICES ASSUME Init PROVE Good(d)
  OBVIOUS
<1>2. PICK valid \in BOOLEAN :
        d = [powered |-> FALSE, at |-> "Bootloader", image_valid |-> valid,
             radio |-> FALSE, pa |-> FALSE, cw |-> FALSE, mask |-> FALSE,
             received |-> 0, clock |-> "boot", power_mode |-> "Ready",
             registered |-> FALSE, handlers |-> FALSE,
             interrupt_callback |-> FALSE, fifo_data_callback |-> FALSE,
             upload_remaining_length |-> 0, loc |-> "other", phase |-> "down",
             ok |-> TRUE, failures |-> 0, crashes |-> 0, call |-> "none",
             upload |-> "over", cut_hot |-> FALSE, hung |-> FALSE]
  BY <1>1 DEF Init
<1>3. /\ 0 \in 0 .. ImageLength + 1 /\ 0 \in 0 .. ImageLength
      /\ 0 \in 0 .. MaxFailures /\ 0 \in 0 .. MaxCrashes
  BY DeviceConstants
<1>4. d \in States
  BY <1>2, <1>3 DEF States, Modes, Locations, Calls, UploadStates
<1>5. d.cut_hot = FALSE /\ d.mask = FALSE /\ d.upload_remaining_length = 0
  BY <1>2
<1>6. QED
  BY <1>4, <1>5 DEF Good

(* The inductive invariant holds in every state: the PA never lost its     *)
(* supply under a transmitter that is on, an open interrupt mask has a     *)
(* callback to serve it, and of an upload that broke off or was completed  *)
(* nothing is left to send.                                                *)
THEOREM DeviceIsGood == Spec => []Good(d)
<1>1. Good(d) /\ [Next]_d => Good(d)'
  <2>1. CASE Next
    BY <2>1, NextPromises DEF Promises
  <2>2. CASE UNCHANGED d
    BY <2>2
  <2>3. QED
    BY <2>1, <2>2
<1>2. QED
  BY InitIsGood, <1>1, PTL DEF Spec

(* Every field of the chip and of the host keeps its type, whatever is     *)
(* called and whatever fails: the length left to upload never drops below  *)
(* zero, nor does the chip count more than one chunk too many.             *)
THEOREM TypeCorrect == Spec => []TypeOK
<1>1. Good(d) => TypeOK
  BY DEF Good, TypeOK
<1>2. QED
  BY <1>1, DeviceIsGood, PTL

(* Whatever is called, and whatever fails, every field keeps its type, the *)
(* PA never loses its supply under a transmitter that is on, an interrupt  *)
(* that the chip may raise has a callback, and set_power_mode() takes the  *)
(* power away with the interrupts disabled.                                *)
THEOREM DeviceIsSafe == Spec => SafeThroughout
<1>1. Good(d) /\ [Next]_d =>
        [TypeOK' /\ NeverCutHot' /\ InterruptIsHeard' /\ OffIsQuiet]_d
  <2>1. SUFFICES ASSUME Good(d), Next
                 PROVE  TypeOK' /\ NeverCutHot' /\ InterruptIsHeard' /\ OffIsQuiet
    OBVIOUS
  <2>2. Promises(d, d'.call, d')
    BY <2>1, NextPromises
  <2>3. TypeOK' /\ NeverCutHot'
    BY <2>2 DEF Promises, Good, TypeOK, NeverCutHot
  <2>4. InterruptIsHeard'
    BY <2>2 DEF Promises, Good, InterruptIsHeard, Responds
  <2>5. OffIsQuiet
    BY <2>2 DEF Promises, OffIsQuiet
  <2>6. QED
    BY <2>3, <2>4, <2>5
<1>2. QED
  BY <1>1, DeviceIsGood, PTL DEF Spec, SafeThroughout

(* A call of set_power_mode() that changes the mode leaves the chip, its   *)
(* radio and the PA as the table of the modes says, from whatever state    *)
(* the calls, failures and restarts before it have left.                   *)
THEOREM ChangedModeIsTrue == Spec => ChangeMeansMode
<1>1. Good(d) /\ [Next]_d =>
        [d'.call = "set_power_mode" /\ d'.power_mode # d.power_mode
           => AsTable(d', d'.power_mode)]_d
  <2>1. SUFFICES ASSUME Good(d), Next, d'.call = "set_power_mode",
                        d'.power_mode # d.power_mode
                 PROVE  AsTable(d', d'.power_mode)
    OBVIOUS
  <2>2. QED
    BY <2>1, NextPromises DEF Promises
<1>2. QED
  BY <1>1, DeviceIsGood, PTL DEF Spec, ChangeMeansMode

(* reset() gets hold of a chip that has power at whatever speed and place  *)
(* the calls before have left the two: when nothing fails on the way it    *)
(* runs where it was asked to, and answers; unless it has no image to run. *)
THEOREM ResetGetsHold == Spec => ResetRecovers
<1>1. Good(d) /\ [Next]_d =>
        [/\ d'.call = "reset" /\ d.powered /\ d'.failures = d.failures
         => IF d'.ok THEN Responds(d') ELSE ~d.image_valid]_d
  <2>1. SUFFICES ASSUME Good(d), Next, d'.call = "reset", d.powered,
                        d'.failures = d.failures
                 PROVE  IF d'.ok THEN Responds(d') ELSE ~d.image_valid
    OBVIOUS
  <2>2. QED
    BY <2>1, NextPromises DEF Promises
<1>2. QED
  BY <1>1, DeviceIsGood, PTL DEF Spec, ResetRecovers

(* After an upload that broke off, or was completed, no call brings        *)
(* another chunk to the chip before the next StartUpload is sent.  A       *)
(* StartUpload whose transfer fails sets the lengths all the same: the     *)
(* chunks that follow it are exempted.                                     *)
THEOREM NothingIsUploadedAfterError == Spec => NothingAfterError
<1>1. Good(d) /\ [Next]_d =>
        [d.upload = "over" /\ d'.received > d.received
           => d'.call \in {"upload_start", "upload_image"}]_d
  <2>1. SUFFICES ASSUME Good(d), Next, d.upload = "over", d'.received > d.received
                 PROVE  d'.call \in {"upload_start", "upload_image"}
    OBVIOUS
  <2>2. Promises(d, d'.call, d')
    BY <2>1, NextPromises
  <2>3. d.received \in Nat
    BY <2>1, DeviceConstants DEF Good, States
  <2>4. d'.received \notin {d.received, 0}
    BY <2>1, <2>3
  <2>5. QED
    BY <2>1, <2>2, <2>4 DEF Promises
<1>2. QED
  BY <1>1, DeviceIsGood, PTL DEF Spec, NothingAfterError
===============================================================================
