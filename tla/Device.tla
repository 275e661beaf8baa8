------------------------------- MODULE Device -------------------------------
(***************************************************************************)
(* The Impinj Reader Chip as a whole and the host's view of it: power and  *)
(* boot (power_transactor.c, board_init_core.c), reset, callbacks and the  *)
(* upload of an image (ex10_protocol.c), power modes (ex10_power_modes.c), *)
(* over a command transactor whose transfers may fail.                     *)
(*                                                                         *)
(* One thread calls the API, so a call is one action.  An operator named   *)
(* after a function maps a state to the set of the states it may leave;    *)
(* there, ok is FALSE when it returns an error.  The chip may fall back to *)
(* its bootloader between any two calls.                                   *)
(***************************************************************************)
EXTENDS Naturals

CONSTANTS
    ImageLength,                \* length of an image, in chunks
    MaxFailures,                \* bound on the transfers and opens that fail
    MaxCrashes                  \* bound on the resets the chip makes itself

ASSUME DeviceConstants ==
    ImageLength \in Nat \ {0} /\ {MaxFailures, MaxCrashes} \subseteq Nat

VARIABLE d                      \* chip and host, a record

Locations == {"Bootloader", "Application", "other"}
Calls == {"none", "setup", "maintain", "teardown", "set_power_mode", "reset",
          "get_bootloader_version", "register", "unregister", "upload_start",
          "upload_continue", "upload_complete", "upload_image", "transmit", "crash"}
Modes == {"Off", "Standby", "ReadyCold", "Ready"}
\* The last upload in chunks: its start has succeeded; it broke off or was
\* completed; its StartUpload was sent, and failed.
UploadStates == {"begun", "over", "misstarted"}

States ==
    [       \* chip and board
            powered : BOOLEAN, at : {"Bootloader", "Application"},
            image_valid : BOOLEAN, radio : BOOLEAN, pa : BOOLEAN, cw : BOOLEAN,
            mask : BOOLEAN, received : 0 .. ImageLength + 1,
            \* host
            clock : {"boot", "default"}, power_mode : Modes,
            registered : BOOLEAN, handlers : BOOLEAN,
            interrupt_callback : BOOLEAN, fifo_data_callback : BOOLEAN,
            upload_remaining_length : 0 .. ImageLength, loc : Locations,
            phase : {"down", "up", "torn"}, ok : BOOLEAN,
            failures : 0 .. MaxFailures, crashes : 0 .. MaxCrashes,
            \* observations
            call : Calls, upload : UploadStates, cut_hot : BOOLEAN, hung : BOOLEAN]

TypeOK == d \in States

Init ==
    \E valid \in BOOLEAN :
        d = [powered |-> FALSE, at |-> "Bootloader", image_valid |-> valid,
             radio |-> FALSE, pa |-> FALSE, cw |-> FALSE, mask |-> FALSE,
             received |-> 0, clock |-> "boot", power_mode |-> "Ready",
             registered |-> FALSE, handlers |-> FALSE,
             interrupt_callback |-> FALSE, fifo_data_callback |-> FALSE,
             upload_remaining_length |-> 0, loc |-> "other", phase |-> "down",
             ok |-> TRUE, failures |-> 0, crashes |-> 0, call |-> "none",
             upload |-> "over", cut_hot |-> FALSE, hung |-> FALSE]

-----------------------------------------------------------------------------
(* Outcomes.                                                               *)
Ok(s) == [s EXCEPT !.ok = TRUE]
Err(s) == [s EXCEPT !.ok = FALSE]
Fails(s) == IF s.failures < MaxFailures
            THEN {Err([s EXCEPT !.failures = @ + 1])} ELSE {}
Always(S, F(_)) == UNION {F(s) : s \in S}                \* result ignored
Then(S, F(_)) == Always(S, LAMBDA s : IF s.ok THEN F(s) ELSE {s})

(* The command transactor: READY_N, then the transfer.  A bootloader does  *)
(* not hear a fast clock; a chip without power may seem ready.             *)
Responds(s) == /\ s.powered
               /\ s.clock = "boot" \/ s.at = "Application"

(* A write that arrives takes s to after. *)
Write(s, after) ==
    IF Responds(s) THEN {Ok(after)} \cup Fails(s) \cup Fails(after)
    ELSE {Ok(s), Err(s)}

Read(s) == IF Responds(s) THEN {Ok(s)} \cup Fails(s) ELSE {Err(s)}

(* The status that a failed read leaves uninitialized may be anything.     *)
get_running_location(s) ==
    UNION {IF t.ok THEN {[t EXCEPT !.loc = t.at]}
           ELSE {[t EXCEPT !.loc = l] : l \in Locations} : t \in Read(s)}

(* Closing does nothing: an open that fails leaves the interface as it was. *)
host_if_reopen(s, speed) == {Ok([s EXCEPT !.clock = speed])} \cup Fails(s)

(* An operation of the application, written to ops_control.                *)
wait_op_completion(s) == IF s.at = "Application" THEN Read(s) ELSE {Err(s)}
Op(s, after) ==
    Then(Write(s, IF s.at = "Application" THEN after ELSE s), wait_op_completion)

radio_power_control(s, enable) ==
    Op(s, [s EXCEPT !.radio = enable, !.cw = @ /\ enable])
set_clear_gpio_pins(s, enable) ==
    Op(s, [s EXCEPT !.pa = enable,
                    !.cut_hot = @ \/ (s.cw /\ s.pa /\ ~enable)])
tx_ramp_down(s) == Op(s, [s EXCEPT !.cw = FALSE])
stop_op_and_ramp_down(s) == Then(Op(s, s), tx_ramp_down)

-----------------------------------------------------------------------------
(* Power and reset.  A chip that boots has everything off.                 *)
Booted(s, destination) ==
    [s EXCEPT !.at = IF s.image_valid THEN destination ELSE "Bootloader",
              !.radio = FALSE, !.pa = FALSE, !.cw = FALSE, !.mask = FALSE,
              !.received = 0]

power_down(s) ==
    [Booted(s, "Bootloader") EXCEPT !.powered = FALSE,
        !.hung = @ \/ (s.powered /\ s.registered /\ s.handlers)]

power_up_to_application(s) ==
    Always(host_if_reopen(Booted([s EXCEPT !.powered = TRUE], "Application"),
                          "boot"),
        LAMBDA a : Always(get_running_location(a),
            LAMBDA b : IF a.ok /\ b.loc = "Application"
                       THEN host_if_reopen(b, "default")
                       ELSE {[b EXCEPT !.ok = a.ok]}))

upload_reset(s) == [s EXCEPT !.upload_remaining_length = 0]

(* A mistake: the interface stays at the speed of the application. *)
reset_at_speed(s, destination) ==
    Then(Write(upload_reset(s), Booted(upload_reset(s), destination)),
        LAMBDA b : Always(get_running_location(b),
            LAMBDA c : IF c.loc # destination THEN {Err(c)} ELSE {Ok(c)}))

reset(s, destination) ==
    Then(host_if_reopen(s, "boot"),
        LAMBDA a : Then(Write(upload_reset(a), Booted(upload_reset(a), destination)),
            LAMBDA b : Always(get_running_location(b),
                LAMBDA c : IF c.loc # destination THEN {Err(c)}
                           ELSE IF c.loc = "Application"
                           THEN host_if_reopen(c, "default") ELSE {Ok(c)})))

-----------------------------------------------------------------------------
(* Callbacks.  Their registration is what opens the interrupt mask.        *)
unregister_fifo_data_callback(s) == [s EXCEPT !.fifo_data_callback = FALSE]

unregister_interrupt_callback(s) ==
    Then(IF s.powered THEN Write(s, [s EXCEPT !.mask = FALSE])
         ELSE {Ok(s)},
         LAMBDA t : {Ok([t EXCEPT !.interrupt_callback = FALSE])})

register_fifo_data_callback(s) ==
    IF s.fifo_data_callback THEN {Err(s)}
    ELSE {Ok([s EXCEPT !.fifo_data_callback = TRUE])}

register_interrupt_callback(s) ==
    IF s.interrupt_callback THEN {Err(s)}
    ELSE Write([s EXCEPT !.interrupt_callback = TRUE],
               [s EXCEPT !.interrupt_callback = TRUE, !.mask = s.at = "Application"])

register_irq_callback(s) ==
    IF s.registered THEN {Err(s)}
    ELSE {Ok([s EXCEPT !.registered = TRUE, !.handlers = TRUE])}

init_ex10(s) ==
    Then(Write(s, [s EXCEPT !.mask = FALSE]),
      LAMBDA a : Then(Write(a, a),         \* FIFO threshold
        LAMBDA b : Then(Read(b),                      \* pending interrupts
          LAMBDA c : Then(unregister_interrupt_callback(
                              unregister_fifo_data_callback(c)),
                          register_irq_callback))))

deinit(s) ==
    Then(unregister_interrupt_callback(unregister_fifo_data_callback(s)),
         LAMBDA t : {Ok([t EXCEPT !.registered = FALSE, !.handlers = FALSE])})

(* ex10_power_modes.c *)
rf_init_ex10(s) ==
    Then(radio_power_control(s, TRUE), LAMBDA t : Op(t, t))

powerup_and_init_ex10(s) ==
    Then(power_up_to_application(s),
      LAMBDA a : IF a.loc # "Application" THEN {Err(a)}
                 ELSE Then(rf_init_ex10(a),
        LAMBDA b : Then(set_clear_gpio_pins(b, TRUE),
          LAMBDA c : {[c EXCEPT !.handlers = TRUE]})))

(* A mistake: the mode is entered whatever the operations returned. *)
EntersAnyway(S, mode) == {[s EXCEPT !.power_mode = mode] : s \in S}

Enters(S, mode) ==
    {IF s.ok THEN [s EXCEPT !.power_mode = mode] ELSE s : s \in S}

(* A mistake: the PA loses its supply before the transmitter has stopped. *)
ColdBeforeStop(s, radio_power_enable) ==
    Then(set_clear_gpio_pins(s, FALSE), LAMBDA a : Then(stop_op_and_ramp_down(a),
         LAMBDA b : radio_power_control(b, radio_power_enable)))

set_power_mode_cold(s, radio_power_enable) ==
    Then(stop_op_and_ramp_down(s), LAMBDA a : Then(set_clear_gpio_pins(a, FALSE),
         LAMBDA b : radio_power_control(b, radio_power_enable)))

(* The power is removed whether the transmitter could be stopped or not,   *)
(* but the mode is Off only if it could.                                   *)
set_power_mode_off(s) ==
    Enters(Always(stop_op_and_ramp_down(s),
        LAMBDA a : {power_down([b EXCEPT !.ok = a.ok, !.fifo_data_callback = FALSE])
            : b \in unregister_interrupt_callback(
                        [a EXCEPT !.handlers = FALSE])}), "Off")

set_power_mode_ready(s) ==
    Enters(Then(radio_power_control(s, TRUE),
                LAMBDA a : set_clear_gpio_pins(a, TRUE)), "Ready")

set_power_mode(s, mode) ==
    IF s.power_mode = mode THEN {Ok(s)}
    ELSE Then(IF s.power_mode = "Off" THEN powerup_and_init_ex10(s) ELSE {Ok(s)},
              LAMBDA a : CASE mode = "Off" -> set_power_mode_off(a)
                           [] mode = "Standby" ->
                                Enters(set_power_mode_cold(a, FALSE), mode)
                           [] mode = "ReadyCold" ->
                                Enters(set_power_mode_cold(a, TRUE), mode)
                           [] mode = "Ready" -> set_power_mode_ready(a))

-----------------------------------------------------------------------------
(* Board setup and teardown.                                               *)
ex10_core_board_setup(s) ==
    Then(host_if_reopen([s EXCEPT !.powered = FALSE], "default"),
      LAMBDA a : Then(power_up_to_application(
                          [a EXCEPT !.interrupt_callback = FALSE,
                                    !.fifo_data_callback = FALSE]),
        LAMBDA b : IF b.loc = "Bootloader" THEN {Err(b)}
                   ELSE Then(init_ex10(b), rf_init_ex10)))

ex10_bootloader_core_board_setup(s) ==
    Then(host_if_reopen([s EXCEPT !.powered = FALSE], "boot"),
      LAMBDA a : {[b EXCEPT !.ok = b.loc = "Bootloader"]
        : b \in get_running_location(
              Booted([a EXCEPT !.powered = TRUE, !.interrupt_callback = FALSE,
                               !.fifo_data_callback = FALSE], "Bootloader"))})

ex10_simple_example_init(s) ==
    Then(Always(unregister_interrupt_callback(unregister_fifo_data_callback(s)),
                register_fifo_data_callback),
      LAMBDA a : Then(register_interrupt_callback(a),
        LAMBDA b : Then(set_clear_gpio_pins(b, TRUE),
          LAMBDA c : Then(Op([c EXCEPT !.power_mode = "Ready"],
                             [c EXCEPT !.power_mode = "Ready"]),
            LAMBDA e : Write(e, e)))))

ex10_core_board_teardown(s) ==
    {power_down(t) : t \in deinit(s)}

-----------------------------------------------------------------------------
(* Versions: from the application through a reset to the bootloader and    *)
(* back; what reset() returns is not looked at, where the chip runs is.    *)
get_bootloader_version(s) ==
    Always(get_running_location(s),
      LAMBDA i : Then(
        IF i.loc # "Application" THEN {Ok(i)}
        ELSE Always(reset(i, "Bootloader"),
               LAMBDA a : {[b EXCEPT !.ok = b.loc = "Bootloader"]
                           : b \in get_running_location(a)}),
        LAMBDA c : Then(Read(c),
          LAMBDA e : IF i.loc = "Bootloader" THEN {Ok(e)}
                     ELSE Always(reset(e, "Application"),
                            LAMBDA f : {[g EXCEPT !.ok = g.loc = "Application"]
                                        : g \in get_running_location(f)}))))

InBootloader(s, F(_)) ==
    Always(get_running_location(s),
           LAMBDA t : IF t.loc # "Bootloader" THEN {Err(t)} ELSE F(t))

Writes2(s) == Then(Write(s, s), LAMBDA t : Write(t, t))

(* Information pages, the validity of the image, and reads that depend on  *)
(* where the chip runs.                                                    *)
write_info_page(s) == InBootloader(s, Writes2)
get_image_validity(s) ==
    Always(get_running_location(s),
           LAMBDA t : IF t.loc = "Application" THEN {Ok(t)} ELSE Read(t))
revalidate_image(s) == Then(Read(s), LAMBDA a : Then(Writes2(a), get_image_validity))

(* The upload of an image in chunks.                                       *)

Received(s, length) ==                       \* the chip; too much is too much
    IF s.received = 0 THEN s
    ELSE [s EXCEPT !.received = IF @ + length > ImageLength THEN ImageLength + 1
                                ELSE @ + length]
Started(s, length) ==
    IF s.at = "Bootloader"
    THEN [s EXCEPT !.received = length, !.image_valid = FALSE] ELSE s
Completed(s) == [s EXCEPT !.image_valid = @ \/ s.received = ImageLength,
                          !.received = 0]

CommandResult(s, success) == {[t EXCEPT !.ok = @ /\ success] : t \in Read(s)}

upload_start(s, length) ==
    InBootloader(s, LAMBDA a : Then(Write(a, a),
        LAMBDA b : LET c == [b EXCEPT !.upload_remaining_length = ImageLength,
                                      !.upload = "misstarted"]
                   IN  Write(c, Started(c, length))))

ResetOnError(S) == {IF s.ok THEN s ELSE upload_reset(s) : s \in S}

(* A mistake: the upload goes on after an error. *)
ContinueAnyway(s, length) ==
    InBootloader(s, LAMBDA a :
        IF length > a.upload_remaining_length THEN {Err(upload_reset(a))}
        ELSE Then(Write(a, Received(a, length)),
            LAMBDA b : CommandResult([b EXCEPT !.upload_remaining_length = @ - length],
                                     b.received > 0)))

upload_continue(s, length) ==
    ResetOnError(InBootloader(s, LAMBDA a :
        IF length > a.upload_remaining_length THEN {Err(a)}
        ELSE Then(Write(a, Received(a, length)),
            LAMBDA b : CommandResult([b EXCEPT !.upload_remaining_length = @ - length],
                                     b.received > 0))))

upload_complete(s) ==
    InBootloader(upload_reset(s), LAMBDA a : Then(Write(a, Completed(a)),
        LAMBDA b : CommandResult(b, b.image_valid)))

(* upload_image() sends one chunk after the other without the help of      *)
(* upload_remaining_length.                                                *)
FirstChunk(s) ==
    InBootloader(s, LAMBDA a : Then(Write(a, a),
        LAMBDA b : ResetOnError(Write(b, Started(b, 1)))))
NextChunk(S) ==
    Then(S, LAMBDA a : Then(CommandResult(a, TRUE),
        LAMBDA b : ResetOnError(Write(b, Received(b, 1)))))
Chunks(s) ==
    LET sent[n \in 1 .. ImageLength] ==
            IF n = 1 THEN FirstChunk(s) ELSE NextChunk(sent[n - 1])
    IN  sent
upload_image(s) ==
    Then(Chunks(s)[ImageLength], LAMBDA a : Then(CommandResult(a, TRUE),
        LAMBDA b : Then(Write(b, Completed(b)),
            LAMBDA c : CommandResult(c, c.image_valid))))

-----------------------------------------------------------------------------
(* The calls.                                                              *)
Call(name, S) == d' \in {[s EXCEPT !.call = name, !.loc = "other"] : s \in S}

BootloaderSetup ==
    /\ d.phase = "down"
    /\ Call("setup", {[s EXCEPT !.phase = IF s.ok THEN "up" ELSE "torn"]
                      : s \in ex10_bootloader_core_board_setup(d)})
Setup == /\ d.phase = "down"
         /\ Call("setup", {[s EXCEPT !.phase = IF s.ok THEN "up" ELSE "torn"] :
                s \in Then(ex10_core_board_setup(d), ex10_simple_example_init)})
Teardown == /\ d.phase # "down"
            /\ Call("teardown", {[s EXCEPT !.phase = "down"]
                                 : s \in ex10_core_board_teardown(d)})

SetPowerMode(mode) ==
    d.phase = "up" /\ Call("set_power_mode", set_power_mode(d, mode))
Reset(destination) ==
    d.phase = "up" /\ Call("reset", reset(d, destination))
GetBootloaderVersion ==
    d.phase = "up" /\ Call("get_bootloader_version", get_bootloader_version(d))

Maintains ==
    /\ d.phase = "up"
    /\ Call("maintain", write_info_page(d) \cup get_image_validity(d)
                        \cup revalidate_image(d))

RegisterCallbacks ==
    /\ d.phase = "up"
    /\ Call("register", Then(register_fifo_data_callback(d),
                             register_interrupt_callback))
UnregisterCallbacks ==
    /\ d.phase = "up"
    /\ Call("unregister",
            unregister_interrupt_callback(unregister_fifo_data_callback(d)))

UploadStart(length) ==
    /\ d.phase = "up"
    /\ Call("upload_start", {[s EXCEPT !.upload = IF s.ok THEN "begun" ELSE @]
                             : s \in upload_start(d, length)})
UploadContinue(length) ==
    /\ d.phase = "up"
    /\ Call("upload_continue", {[s EXCEPT !.upload = IF s.ok THEN @ ELSE "over"]
                                : s \in upload_continue(d, length)})
UploadComplete ==
    d.phase = "up" /\ Call("upload_complete", {[s EXCEPT !.upload = "over"]
                                               : s \in upload_complete(d)})
UploadImage == d.phase = "up" /\ Call("upload_image", upload_image(d))

(* The environment: the transmitter ramps up, the chip restarts by itself. *)
Transmits ==
    /\ d.phase = "up" /\ d.powered /\ d.at = "Application" /\ d.radio /\ d.pa
    /\ d' = [d EXCEPT !.cw = TRUE, !.call = "transmit"]
Crashes ==
    /\ d.powered /\ d.crashes < MaxCrashes
    /\ \E l \in {"Bootloader", "Application"} :
           d' = [Booted(d, l) EXCEPT !.crashes = @ + 1, !.call = "crash"]

Next ==
    \/ Setup \/ BootloaderSetup \/ Teardown \/ Maintains
    \/ \E mode \in Modes : SetPowerMode(mode)
    \/ \E l \in {"Bootloader", "Application"} : Reset(l)
    \/ GetBootloaderVersion \/ RegisterCallbacks \/ UnregisterCallbacks
    \/ \E n \in 1 .. ImageLength : UploadStart(n)
    \/ \E n \in 0 .. ImageLength : UploadContinue(n)
    \/ UploadComplete \/ UploadImage
    \/ Transmits \/ Crashes

Spec == Init /\ [][Next]_d

-----------------------------------------------------------------------------
(* The chip and its peripherals are as the table of the modes says         *)
(* (ex10_power_modes.h:30-35).                                             *)
AsTable(s, mode) ==
    /\ s.powered = (mode # "Off")
    /\ mode \in {"Standby", "ReadyCold"} => ~s.pa /\ ~s.cw
    /\ mode = "Standby" => ~s.radio
    /\ mode \in {"Ready", "ReadyCold"} => s.radio
    /\ mode = "Ready" => s.pa

(* A call of set_power_mode() that changes the mode makes it true, however *)
(* the calls before it ended and wherever the chip was.                    *)
ChangeMeansMode ==
    [][d'.call = "set_power_mode" /\ d'.power_mode # d.power_mode
       => AsTable(d', d'.power_mode)]_d

(* Whatever is called, and whatever fails: every field keeps its type (no  *)
(* length left to upload is below zero); the PA never loses its supply     *)
(* under a transmitter that is on; an interrupt that the chip may raise    *)
(* has a callback; and set_power_mode() removes the power with interrupts  *)
(* disabled: "The caller (Ex10Protocol) is responsible for disabling       *)
(* interrupts [...] Failure to do so will result in the IRQ_N thread hang" *)
(* (power_transactor.c:107-109).                                           *)
NeverCutHot == ~d.cut_hot
InterruptIsHeard == d.mask /\ Responds(d) => d.interrupt_callback
OffIsQuiet == d'.call = "set_power_mode" => d'.hung = d.hung
SafeThroughout ==
    [][TypeOK' /\ NeverCutHot' /\ InterruptIsHeard' /\ OffIsQuiet]_d

(* reset() gets hold of the chip from any state in which it has power,     *)
(* after a restart of its own or a failed reset, at whatever speed the     *)
(* interface is: without a failure on the way, it runs where it was asked  *)
(* to, and answers (ex10_protocol.h:427-439).                              *)
ResetRecovers ==
    [][/\ d'.call = "reset" /\ d.powered /\ d'.failures = d.failures
       => IF d'.ok THEN Responds(d') ELSE ~d.image_valid]_d

(* After an upload in chunks that broke off, or was completed, no chunk    *)
(* reaches the chip before the next StartUpload is sent, whatever is       *)
(* called and however it ends (the resets of upload_continue() and         *)
(* upload_complete()).  Of a StartUpload whose transfer then fails the     *)
(* code keeps the lengths (ex10_protocol.c:1067-1075): chunks that follow  *)
(* are sent, and may reach an upload that the chip has open from before,   *)
(* until one of them fails.  That is what "misstarted" exempts.            *)
NothingAfterError ==
    [][d.upload = "over" /\ d'.received > d.received
       => d'.call \in {"upload_start", "upload_image"}]_d
=============================================================================
