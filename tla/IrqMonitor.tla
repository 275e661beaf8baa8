------------------------------ MODULE IrqMonitor ------------------------------
(***************************************************************************)
(* The IRQ_N monitor of the Zephyr board layer (gpio_driver.c) together    *)
(* with the calls of Ex10Protocol, Ex10PowerModes and board_init_core that *)
(* register, enable, disable and deregister it.                            *)
(*                                                                         *)
(* Four parties interleave: the Ex10 (raises interrupts), the GPIO ISR,    *)
(* the IRQ_N monitor thread and one application thread.  The mutex         *)
(* irq_n_callback_lock is recursive; only its owner matters here, since a  *)
(* nested acquisition by the owner never blocks.  unhandled_irq_count is   *)
(* only zeroed, incremented and compared with zero, so it saturates at 1.  *)
(***************************************************************************)
EXTENDS Naturals

CONSTANTS
    AllowReadFailure,     \* may read_multiple() fail inside interrupt_handler()?
    AllowCommandFailure   \* may a command of the application thread fail?

ASSUME FailureSwitches ==
    /\ AllowReadFailure \in BOOLEAN
    /\ AllowCommandFailure \in BOOLEAN

VARIABLES
    irq_n_cb,                          \* a callback is registered
    irq_monitor_callback_enable_flag,
    unhandled_irq_count,               \* 0, or 1 standing for "not zero"
    yukon_irq_sem,                     \* semaphore with limit 1
    irq_n_callback_lock,               \* owner: "none", "irq", "app"
    irqPc,                             \* where irq_handler_thread() is
    appPc,                             \* the application's next driver step
    interrupt_mask, interrupt_status,  \* Ex10: some bit unmasked, some bit set
    gpio_edge,                         \* a falling edge latched for the ISR
    powered,                           \* the Ex10 has power
    readFailed                         \* a status read left the status set

deviceVars == <<interrupt_mask, interrupt_status, gpio_edge>>
driverVars == <<irq_n_cb, irq_monitor_callback_enable_flag,
                unhandled_irq_count, yukon_irq_sem>>
vars == <<driverVars, irq_n_callback_lock, irqPc, appPc, deviceVars,
          powered, readFailed>>

(***************************************************************************)
(* The application's calls, as programs over driver steps: NextStep[s] is  *)
(* the step that follows s, FailStep[s] the one that follows when the      *)
(* command of s fails.  Every step but gpio_cleanup runs with              *)
(* irq_n_callback_lock held.                                               *)
(***************************************************************************)
NextStep == [
    \* ex10_core_board_setup(), Ex10Protocol.init_ex10(), ending in
    \* register_irq_callback()
    setup_power_up      |-> "setup_clear_mask",
    setup_clear_mask    |-> "setup_read_status",
    setup_read_status   |-> "setup_unregister",
    setup_unregister    |-> "register_cb",
    register_cb         |-> "register_flag",
    register_flag       |-> "register_count",
    register_count      |-> "idle",
    \* a use case's init() and deinit(), and any other command
    set_mask            |-> "idle",
    clear_mask          |-> "idle",
    command             |-> "idle",
    \* set_power_mode_off(): irq_monitor_callback_enable(false) first
    disable_count       |-> "disable_flag",
    disable_flag        |-> "off_clear_mask",
    off_clear_mask      |-> "power_down",
    power_down          |-> "idle",
    \* powerup_and_init_ex10(): irq_monitor_callback_enable(true) last
    on_power_up         |-> "enable_count",
    enable_count        |-> "enable_flag",
    enable_flag         |-> "idle",
    \* ex10_core_board_teardown(), Ex10Protocol.deinit() with
    \* deregister_irq_callback()
    deinit_clear_mask   |-> "deregister_flag",
    deregister_flag     |-> "deregister_cb",
    deregister_cb       |-> "deregister_count",
    deregister_count    |-> "teardown_power_down",
    teardown_power_down |-> "gpio_cleanup",
    gpio_cleanup        |-> "idle"]

Steps == DOMAIN NextStep

FailStep == [s \in Steps |->
    IF s = "off_clear_mask" THEN "power_down"
    ELSE IF s = "deinit_clear_mask" THEN "teardown_power_down" ELSE "idle"]

(* The lock stays held between the assignments of one driver function. *)
KeepsLock == {"register_cb", "register_flag", "disable_count", "enable_count",
              "deregister_flag", "deregister_cb"}

IrqNLow == interrupt_mask /\ interrupt_status

Armed == irq_n_cb /\ irq_monitor_callback_enable_flag

Init ==
    /\ irq_n_cb = FALSE /\ irq_monitor_callback_enable_flag = FALSE
    /\ unhandled_irq_count = 0 /\ yukon_irq_sem = 0
    /\ irq_n_callback_lock = "none"
    /\ irqPc = "take" /\ appPc = "idle"
    /\ interrupt_mask = FALSE /\ interrupt_status = FALSE
    /\ gpio_edge = FALSE /\ powered = FALSE /\ readFailed = FALSE

-----------------------------------------------------------------------------
(* The Ex10 and the GPIO pin.  GPIO_INT_EDGE_FALLING: only the transition  *)
(* of IRQ_N from released to asserted is latched for the ISR.              *)
SetDevice(mask, status) ==
    /\ interrupt_mask' = mask
    /\ interrupt_status' = status
    /\ gpio_edge' = (gpio_edge \/ (~IrqNLow /\ mask /\ status))
    /\ readFailed' = (readFailed /\ mask /\ status)

DeviceEvent ==
    /\ powered /\ ~interrupt_status
    /\ SetDevice(interrupt_mask, TRUE)
    /\ UNCHANGED <<driverVars, irq_n_callback_lock, irqPc, appPc, powered>>

irq_gpio_callback ==
    /\ gpio_edge /\ gpio_edge' = FALSE
    /\ IF Armed
       THEN unhandled_irq_count' = 1 /\ yukon_irq_sem' = 1
       ELSE UNCHANGED <<unhandled_irq_count, yukon_irq_sem>>
    /\ UNCHANGED <<irq_n_cb, irq_monitor_callback_enable_flag,
                   irq_n_callback_lock, irqPc, appPc,
                   interrupt_mask, interrupt_status, powered, readFailed>>

-----------------------------------------------------------------------------
(* irq_handler_thread() *)
ThreadTakesSem ==
    /\ irqPc = "take" /\ yukon_irq_sem = 1
    /\ yukon_irq_sem' = 0 /\ irqPc' = "check"
    /\ UNCHANGED <<irq_n_cb, irq_monitor_callback_enable_flag,
                   unhandled_irq_count, irq_n_callback_lock, appPc,
                   deviceVars, powered, readFailed>>

ThreadChecksCount ==
    /\ irqPc = "check"
    /\ irqPc' = IF unhandled_irq_count = 0 THEN "take" ELSE "clear"
    /\ UNCHANGED <<driverVars, irq_n_callback_lock, appPc, deviceVars,
                   powered, readFailed>>

ThreadClearsCount ==
    /\ irqPc = "clear"
    /\ unhandled_irq_count' = 0 /\ irqPc' = "lock"
    /\ UNCHANGED <<irq_n_cb, irq_monitor_callback_enable_flag, yukon_irq_sem,
                   irq_n_callback_lock, appPc, deviceVars, powered, readFailed>>

(* Two mistakes: the flag is not looked at under the lock; the lock is     *)
(* waited for, and not held while the handler runs.                        *)
ThreadLocksIgnoringFlag ==
    /\ irqPc = "lock" /\ irq_n_callback_lock = "none"
    /\ IF irq_n_cb
       THEN irqPc' = "status" /\ irq_n_callback_lock' = "irq"
       ELSE irqPc' = "take" /\ UNCHANGED irq_n_callback_lock
    /\ UNCHANGED <<driverVars, appPc, deviceVars, powered, readFailed>>

ThreadUnlocksEarly ==
    /\ irqPc = "lock" /\ irq_n_callback_lock = "none"
    /\ irqPc' = IF Armed THEN "status" ELSE "take"
    /\ UNCHANGED <<irq_n_callback_lock, driverVars, appPc, deviceVars, powered,
                   readFailed>>

ThreadLocks ==
    /\ irqPc = "lock" /\ irq_n_callback_lock = "none"
    /\ IF Armed
       THEN irqPc' = "status" /\ irq_n_callback_lock' = "irq"
       ELSE irqPc' = "take" /\ UNCHANGED irq_n_callback_lock
    /\ UNCHANGED <<driverVars, appPc, deviceVars, powered, readFailed>>

(* Ex10Protocol's interrupt_handler(): reading InterruptStatus clears it. *)
HandlerReadsStatus ==
    /\ irqPc = "status" /\ irqPc' = "handling"
    /\ SetDevice(interrupt_mask, FALSE)
    /\ UNCHANGED <<driverVars, irq_n_callback_lock, appPc, powered>>

(* The command timed out before the Ex10 cleared its status. *)
HandlerReadFails ==
    /\ AllowReadFailure
    /\ irqPc = "status" /\ irqPc' = "handling"
    /\ readFailed' = IrqNLow
    /\ UNCHANGED <<driverVars, irq_n_callback_lock, appPc, deviceVars, powered>>

(* A mistake: the count is reset after the handler instead of before it. *)
HandlerReturnsAndClears ==
    /\ irqPc = "handling" /\ irqPc' = "take"
    /\ irq_n_callback_lock' = "none" /\ unhandled_irq_count' = 0
    /\ UNCHANGED <<irq_n_cb, irq_monitor_callback_enable_flag, yukon_irq_sem,
                   appPc, deviceVars, powered, readFailed>>

HandlerReturns ==
    /\ irqPc = "handling" /\ irqPc' = "take"
    /\ irq_n_callback_lock' = "none"
    /\ UNCHANGED <<driverVars, appPc, deviceVars, powered, readFailed>>

-----------------------------------------------------------------------------
(* The application thread.  Calls start under the obligations the API      *)
(* places on its callers: the core is set up before a use case is used.    *)
Usable == powered /\ Armed

AppCalls ==
    /\ appPc = "idle"
    /\ \/ appPc' = "setup_power_up"
       \/ Usable /\ appPc' \in {"set_mask", "clear_mask", "command",
                                "disable_count"}
       \/ irq_n_cb /\ ~powered /\ appPc' = "on_power_up"
       \/ irq_n_cb /\ appPc' = "deinit_clear_mask"
    /\ UNCHANGED <<driverVars, irq_n_callback_lock, irqPc, deviceVars,
                   powered, readFailed>>

AppLocks ==
    /\ appPc \in Steps \ {"gpio_cleanup"} /\ irq_n_callback_lock = "none"
    /\ irq_n_callback_lock' = "app"
    /\ UNCHANGED <<driverVars, irqPc, appPc, deviceVars, powered, readFailed>>

(* The step at appPc runs, and the application moves on to next. *)
AtStep(steps, next) ==
    /\ appPc \in steps /\ irq_n_callback_lock = "app"
    /\ irq_n_callback_lock' = IF appPc \in KeepsLock THEN "app" ELSE "none"
    /\ appPc' = next
    /\ UNCHANGED irqPc

ClearMaskSteps == {"setup_clear_mask", "setup_unregister", "clear_mask",
                   "off_clear_mask", "deinit_clear_mask"}
CommandSteps == ClearMaskSteps \cup {"setup_read_status", "set_mask", "command"}

MaskAfter(s) ==
    s = "set_mask" \/ (s \notin ClearMaskSteps /\ interrupt_mask)

StatusAfter(s) == s # "setup_read_status" /\ interrupt_status

(* unregister_interrupt_callback(): nothing is written to an unpowered Ex10. *)
Command ==
    /\ AtStep(CommandSteps, NextStep[appPc])
    /\ IF powered THEN SetDevice(MaskAfter(appPc), StatusAfter(appPc))
                  ELSE UNCHANGED <<deviceVars, readFailed>>
    /\ UNCHANGED <<driverVars, powered>>

(* A command that fails may have failed before or after it took effect. *)
CommandFails ==
    /\ AllowCommandFailure /\ powered
    /\ AtStep(CommandSteps, FailStep[appPc])
    /\ \/ UNCHANGED <<deviceVars, readFailed>>
       \/ SetDevice(MaskAfter(appPc), StatusAfter(appPc))
    /\ UNCHANGED <<driverVars, powered>>

(* The Ex10 comes out of reset with its mask clear; status bits may be set. *)
PowersUp ==
    /\ AtStep({"setup_power_up", "on_power_up"}, NextStep[appPc])
    /\ powered' = TRUE
    /\ \E status \in BOOLEAN : SetDevice(FALSE, status)
    /\ UNCHANGED driverVars

(* Removing power drags IRQ_N low: one falling edge that means nothing. *)
PowersDown ==
    /\ AtStep({"power_down", "teardown_power_down"}, NextStep[appPc])
    /\ powered' = FALSE
    /\ interrupt_mask' = FALSE /\ interrupt_status' = FALSE
    /\ gpio_edge' = TRUE /\ readFailed' = FALSE
    /\ UNCHANGED driverVars

(* register_irq_callback(): EBUSY when a callback is already registered. *)
RegisterIsBusy ==
    /\ irq_n_cb
    /\ appPc = "register_cb" /\ irq_n_callback_lock = "app"
    /\ appPc' = "idle" /\ irq_n_callback_lock' = "none"
    /\ UNCHANGED <<driverVars, irqPc, deviceVars, powered, readFailed>>

SetsCallback ==
    /\ \/ ~irq_n_cb /\ AtStep({"register_cb"}, NextStep[appPc]) /\ irq_n_cb' = TRUE
       \/ AtStep({"deregister_cb"}, NextStep[appPc]) /\ irq_n_cb' = FALSE
    /\ UNCHANGED <<irq_monitor_callback_enable_flag, unhandled_irq_count,
                   yukon_irq_sem, deviceVars, powered, readFailed>>

SetsFlag ==
    /\ \/ /\ AtStep({"register_flag", "enable_flag"}, NextStep[appPc])
          /\ irq_monitor_callback_enable_flag' = TRUE
       \/ /\ AtStep({"disable_flag", "deregister_flag"}, NextStep[appPc])
          /\ irq_monitor_callback_enable_flag' = FALSE
    /\ UNCHANGED <<irq_n_cb, unhandled_irq_count, yukon_irq_sem, deviceVars,
                   powered, readFailed>>

ZeroesCount ==
    /\ AtStep({"register_count", "disable_count", "enable_count",
               "deregister_count"}, NextStep[appPc])
    /\ unhandled_irq_count' = 0
    /\ UNCHANGED <<irq_n_cb, irq_monitor_callback_enable_flag, yukon_irq_sem,
                   deviceVars, powered, readFailed>>

(* gpio_cleanup() turns pins into inputs, and nothing else. *)
GpioCleanup ==
    /\ appPc = "gpio_cleanup" /\ appPc' = NextStep[appPc]
    /\ UNCHANGED <<driverVars, irq_n_callback_lock, irqPc, deviceVars,
                   powered, readFailed>>

-----------------------------------------------------------------------------
ThreadRuns ==
    \/ ThreadTakesSem \/ ThreadChecksCount \/ ThreadClearsCount
    \/ HandlerReadsStatus \/ HandlerReadFails \/ HandlerReturns

AppRuns ==
    \/ Command \/ CommandFails \/ PowersUp \/ PowersDown
    \/ RegisterIsBusy \/ GpioCleanup
    \/ SetsCallback \/ SetsFlag \/ ZeroesCount

Next ==
    \/ DeviceEvent \/ irq_gpio_callback
    \/ ThreadRuns \/ ThreadLocks
    \/ AppCalls \/ AppLocks \/ AppRuns

(* The kernel runs a pending ISR and every ready thread.  k_mutex_unlock()  *)
(* hands the mutex to the highest-priority waiter, the monitor thread (-5   *)
(* against 5), hence strong fairness of its acquisition.                    *)
Fairness ==
    /\ WF_vars(irq_gpio_callback)
    /\ WF_vars(ThreadRuns) /\ SF_vars(ThreadLocks)
    /\ WF_vars(AppRuns)

Spec == Init /\ [][Next]_vars /\ Fairness

-----------------------------------------------------------------------------
(* Types of the driver's, the threads' and the device's state. *)
TypeOK ==
    /\ irq_n_cb \in BOOLEAN
    /\ irq_monitor_callback_enable_flag \in BOOLEAN
    /\ unhandled_irq_count \in 0..1
    /\ yukon_irq_sem \in 0..1
    /\ irq_n_callback_lock \in {"none", "irq", "app"}
    /\ irqPc \in {"take", "check", "clear", "lock", "status", "handling"}
    /\ appPc \in Steps \cup {"idle"}
    /\ interrupt_mask \in BOOLEAN /\ interrupt_status \in BOOLEAN
    /\ gpio_edge \in BOOLEAN /\ powered \in BOOLEAN /\ readFailed \in BOOLEAN

InHandler == irqPc \in {"status", "handling"}

(* No falling edge is lost: while IRQ_N is asserted and the monitor is     *)
(* armed, the interrupt is still on its way to a status read - latched,    *)
(* counted with the semaphore given, or in the hands of the monitor        *)
(* thread.  Otherwise IRQ_N would stay low for ever, as only an edge wakes *)
(* the ISR.  Zeroing unhandled_irq_count in register and enable (gpio_     *)
(* driver.c:166,200) and the count test before the reset (76-77) are what  *)
(* could break it.  The exceptions: a failed status read (readFailed), and *)
(* a disable that is half done, which is about to disarm the monitor.      *)
NoLostEdge ==
    IrqNLow /\ Armed /\ ~readFailed /\ appPc # "disable_flag" =>
        \/ gpio_edge
        \/ unhandled_irq_count = 1 /\ (yukon_irq_sem = 1 \/ irqPc = "check")
        \/ irqPc \in {"clear", "lock", "status"}

(* The interrupt handler and the application never use the command and     *)
(* response buffers of commands.c at the same time (commands.c:32-40): the *)
(* handler runs exactly while the monitor thread owns the lock, and then   *)
(* no register is written and no power is switched by the application.     *)
HostInterfaceExclusive ==
    [][ (InHandler \/ InHandler') =>
            UNCHANGED <<powered, interrupt_mask, irq_n_cb,
                        irq_monitor_callback_enable_flag>> ]_vars

(* No handler runs against an Ex10 without power (power_transactor.c:107): *)
(* whoever removes power has disabled the callback under the lock first,   *)
(* and a stale wake-up of the monitor thread finds it disabled.  True as   *)
(* long as no mask write fails, which deinit() answers by returning early. *)
PoweredOffQuiet == InHandler => powered

(* Disarming is a barrier: when deregister_irq_callback() or irq_monitor_   *)
(* callback_enable(false) has returned, no handler is running, and none    *)
(* starts until the monitor is armed again, however late the monitor       *)
(* thread comes with a semaphore and a count taken before.                 *)
HandlerIsArmed == InHandler => Armed

(* The monitor keeps the promise of IrqDelivery, whatever fails; it serves *)
(* an asserted IRQ_N unless a status read failed, which nothing repeats.   *)
Delivery == INSTANCE IrqDelivery WITH
    irq_n_low <- IrqNLow,
    armed     <- Armed,
    handler   <- IF InHandler THEN irqPc ELSE "idle",
    host      <- IF irq_n_callback_lock = "none" THEN "free"
                                                 ELSE irq_n_callback_lock

ImplementsDelivery ==
    Delivery!SafetySpec /\ ([]~readFailed => Delivery!Served)
=============================================================================
