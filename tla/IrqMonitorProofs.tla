--------------------------- MODULE IrqMonitorProofs ---------------------------
(***************************************************************************)
(* Proofs about IrqMonitor.  MonitorInv is inductive whatever may fail: it *)
(* ties the lock to the handler (who runs with it held), and the device's  *)
(* interrupt mask to the places of the application's calls from which the  *)
(* monitor is about to be armed.  PowerInv adds, for an application whose  *)
(* commands do not fail, which calls run on a powered Ex10.                *)
(***************************************************************************)
EXTENDS IrqMonitor, TLAPS

(* The steps between two that hold the lock: inside one driver function. *)
InDriverCall == {"register_flag", "register_count", "disable_flag",
                 "enable_flag", "deregister_cb", "deregister_count"}

(* The steps that lead to an armed monitor, after the reset of the Ex10. *)
Arming == {"setup_clear_mask", "setup_read_status", "setup_unregister",
           "register_cb", "register_flag", "register_count",
           "enable_count", "enable_flag"}

HandlerHasLock == InHandler <=> irq_n_callback_lock = "irq"

CallHasLock ==
    /\ irq_n_callback_lock = "app" => appPc \in Steps \ {"gpio_cleanup"}
    /\ appPc \in InDriverCall => irq_n_callback_lock = "app"

ArmingIsMasked == appPc \in Arming => ~interrupt_mask

Deregistered == appPc = "deregister_count" => ~irq_n_cb

MonitorInv ==
    /\ TypeOK /\ HandlerHasLock /\ CallHasLock
    /\ ArmingIsMasked /\ Deregistered /\ NoLostEdge

(* Power is on while the monitor is being armed, and the monitor has been  *)
(* disarmed when power goes away.                                          *)
PowerInv ==
    /\ appPc \in Arming => powered
    /\ appPc \in {"off_clear_mask", "power_down"} =>
            ~irq_monitor_callback_enable_flag
    /\ appPc \in {"deregister_count", "teardown_power_down"} => ~irq_n_cb
    /\ ~powered => ~Armed
    /\ PoweredOffQuiet

-----------------------------------------------------------------------------
(* The steps of the application's calls, spelled out for the provers. *)
LEMMA StepsAre ==
    Steps = {"setup_power_up", "setup_clear_mask", "setup_read_status",
             "setup_unregister", "register_cb", "register_flag",
             "register_count", "set_mask", "clear_mask", "command",
             "disable_count", "disable_flag", "off_clear_mask", "power_down",
             "on_power_up", "enable_count", "enable_flag", "deinit_clear_mask",
             "deregister_flag", "deregister_cb", "deregister_count",
             "teardown_power_down", "gpio_cleanup"}
BY DEF Steps, NextStep

(* Where the application's calls go next. *)
LEMMA NextStepTypes ==
    \A s \in Steps : /\ NextStep[s] \in Steps \cup {"idle"}
                     /\ FailStep[s] \in Steps \cup {"idle"}
BY DEF Steps, NextStep, FailStep

(* Arming goes on from a step that is arming, or from a power-up. *)
LEMMA NextStepArming ==
    \A s \in Steps :
        /\ NextStep[s] \in Arming =>
                s \in Arming \cup {"setup_power_up", "on_power_up"}
        /\ FailStep[s] \notin Arming
        /\ NextStep[s] = "deregister_count" <=> s = "deregister_cb"
        /\ FailStep[s] # "deregister_count"
BY StepsAre DEF NextStep, FailStep, Arming

(* A step inside a driver function is entered from one that keeps the lock. *)
LEMMA NextStepLocking ==
    \A s \in Steps :
        /\ NextStep[s] \in InDriverCall <=> s \in KeepsLock
        /\ FailStep[s] \notin InDriverCall
        /\ s \in KeepsLock => NextStep[s] \in Steps \ {"gpio_cleanup"}
BY StepsAre DEF NextStep, FailStep, KeepsLock, InDriverCall

(* What a change of the device's mask and status leaves true: an edge is    *)
(* latched when IRQ_N goes low, and none is forgotten.                      *)
LEMMA SetDeviceFacts ==
    ASSUME TypeOK, NEW mask \in BOOLEAN, NEW status \in BOOLEAN,
           SetDevice(mask, status)
    PROVE  /\ interrupt_mask' \in BOOLEAN /\ interrupt_status' \in BOOLEAN
           /\ gpio_edge' \in BOOLEAN /\ readFailed' \in BOOLEAN
           /\ interrupt_mask' = mask
           /\ gpio_edge => gpio_edge'
           /\ IrqNLow' => gpio_edge' \/ IrqNLow
           /\ IrqNLow' /\ IrqNLow /\ ~readFailed' => ~readFailed
<1>1. /\ interrupt_mask' = mask /\ interrupt_status' = status
      /\ gpio_edge' = (gpio_edge \/ (~IrqNLow /\ mask /\ status))
      /\ readFailed' = (readFailed /\ mask /\ status)
  BY DEF SetDevice
<1>2. IrqNLow' <=> mask /\ status
  BY <1>1 DEF IrqNLow
<1>3. QED
  BY <1>1, <1>2, Zenon DEF TypeOK

(* What a command makes of mask and status is Boolean. *)
LEMMA MaskAfterTypes ==
    TypeOK => \A s : MaskAfter(s) \in BOOLEAN /\ StatusAfter(s) \in BOOLEAN
BY DEF TypeOK, MaskAfter, StatusAfter

-----------------------------------------------------------------------------
(* Every step keeps the types. *)
LEMMA TypeStep ==
    TypeOK /\ [Next]_vars =>
    TypeOK'
<1> SUFFICES ASSUME TypeOK,
                    [Next]_vars
             PROVE  TypeOK'
  OBVIOUS
<1> USE DEF TypeOK
<1>1. CASE DeviceEvent
  BY <1>1 DEF DeviceEvent, SetDevice, IrqNLow, driverVars, deviceVars
<1>2. CASE irq_gpio_callback
  <2>1. unhandled_irq_count' \in 0..1 /\ yukon_irq_sem' \in 0..1
    BY <1>2 DEF irq_gpio_callback
  <2>2. QED
    BY <1>2, <2>1 DEF irq_gpio_callback
<1>3. CASE ThreadTakesSem
  BY <1>3 DEF ThreadTakesSem, driverVars, deviceVars
<1>4. CASE ThreadChecksCount
  BY <1>4 DEF ThreadChecksCount, driverVars, deviceVars
<1>5. CASE ThreadClearsCount
  BY <1>5 DEF ThreadClearsCount, driverVars, deviceVars
<1>6. CASE ThreadLocks
  BY <1>6 DEF ThreadLocks, driverVars, deviceVars
<1>7. CASE HandlerReadsStatus
  BY <1>7 DEF HandlerReadsStatus, SetDevice, IrqNLow, driverVars, deviceVars
<1>8. CASE HandlerReadFails
  BY <1>8 DEF HandlerReadFails, IrqNLow, driverVars, deviceVars
<1>9. CASE HandlerReturns
  BY <1>9 DEF HandlerReturns, driverVars, deviceVars
<1>10. CASE AppCalls
  BY <1>10, StepsAre DEF AppCalls, Usable, driverVars, deviceVars
<1>11. CASE AppLocks
  BY <1>11 DEF AppLocks, driverVars, deviceVars
<1>12. CASE Command
  <2>1. /\ appPc' \in Steps \cup {"idle"} /\ UNCHANGED irqPc
        /\ irq_n_callback_lock' \in {"none", "irq", "app"}
    BY <1>12, StepsAre, NextStepTypes DEF Command, AtStep, CommandSteps,
           ClearMaskSteps
  <2>2. UNCHANGED driverVars /\ powered' \in BOOLEAN
    BY <1>12 DEF Command
  <2>3. /\ interrupt_mask' \in BOOLEAN /\ interrupt_status' \in BOOLEAN
        /\ gpio_edge' \in BOOLEAN /\ readFailed' \in BOOLEAN
    BY <1>12, SetDeviceFacts, MaskAfterTypes DEF Command, deviceVars
  <2>4. QED
    BY <2>1, <2>2, <2>3 DEF driverVars
<1>13. CASE CommandFails
  <2>1. /\ appPc' \in Steps \cup {"idle"} /\ UNCHANGED irqPc
        /\ irq_n_callback_lock' \in {"none", "irq", "app"}
    BY <1>13, StepsAre, NextStepTypes DEF CommandFails, AtStep, CommandSteps,
           ClearMaskSteps
  <2>2. UNCHANGED driverVars /\ powered' \in BOOLEAN
    BY <1>13 DEF CommandFails
  <2>3. /\ interrupt_mask' \in BOOLEAN /\ interrupt_status' \in BOOLEAN
        /\ gpio_edge' \in BOOLEAN /\ readFailed' \in BOOLEAN
    BY <1>13, SetDeviceFacts, MaskAfterTypes DEF CommandFails, deviceVars
  <2>4. QED
    BY <2>1, <2>2, <2>3 DEF driverVars
<1>14. CASE PowersUp
  <2>1. /\ appPc' \in Steps \cup {"idle"} /\ UNCHANGED irqPc
        /\ irq_n_callback_lock' \in {"none", "irq", "app"}
    BY <1>14, StepsAre, NextStepTypes DEF PowersUp, AtStep
  <2>2. UNCHANGED driverVars /\ powered' \in BOOLEAN
    BY <1>14 DEF PowersUp
  <2>3. /\ interrupt_mask' \in BOOLEAN /\ interrupt_status' \in BOOLEAN
        /\ gpio_edge' \in BOOLEAN /\ readFailed' \in BOOLEAN
    BY <1>14, SetDeviceFacts, MaskAfterTypes DEF PowersUp, deviceVars
  <2>4. QED
    BY <2>1, <2>2, <2>3 DEF driverVars
<1>15. CASE PowersDown
  BY <1>15, StepsAre, NextStepTypes DEF PowersDown, AtStep, driverVars,
     deviceVars
<1>16. CASE RegisterIsBusy
  BY <1>16, StepsAre, NextStepTypes DEF RegisterIsBusy, AtStep, driverVars,
     deviceVars
<1>17. CASE SetsCallback
  <2>1. irq_n_cb' \in BOOLEAN
    BY <1>17 DEF SetsCallback
  <2>2. QED
    BY <1>17, <2>1, StepsAre, NextStepTypes DEF SetsCallback, AtStep,
     deviceVars
<1>18. CASE SetsFlag
  <2>1. irq_monitor_callback_enable_flag' \in BOOLEAN
    BY <1>18 DEF SetsFlag
  <2>2. QED
    BY <1>18, <2>1, StepsAre, NextStepTypes DEF SetsFlag, AtStep, deviceVars
<1>19. CASE ZeroesCount
  BY <1>19, StepsAre, NextStepTypes DEF ZeroesCount, AtStep, driverVars,
     deviceVars
<1>20. CASE GpioCleanup
  BY <1>20, StepsAre, NextStepTypes DEF GpioCleanup, AtStep, driverVars,
     deviceVars
<1>21. CASE UNCHANGED vars
  BY <1>21 DEF vars, driverVars, deviceVars
<1>22. QED
  BY <1>1, <1>2, <1>3, <1>4, <1>5, <1>6, <1>7, <1>8, <1>9, <1>10, <1>11,
     <1>12, <1>13, <1>14, <1>15, <1>16, <1>17, <1>18, <1>19, <1>20, <1>21 DEF
     Next, ThreadRuns, AppRuns

(* The lock is the handler's from ThreadLocks to HandlerReturns, and the    *)
(* application's inside a driver function.                                  *)
LEMMA LockStep ==
    TypeOK /\ HandlerHasLock /\ CallHasLock /\ [Next]_vars =>
    HandlerHasLock' /\ CallHasLock'
<1> SUFFICES ASSUME TypeOK /\ HandlerHasLock /\ CallHasLock,
                    [Next]_vars
             PROVE  HandlerHasLock' /\ CallHasLock'
  OBVIOUS
<1> USE DEF TypeOK, HandlerHasLock, CallHasLock, InHandler, InDriverCall
<1>1. CASE DeviceEvent
  BY <1>1 DEF DeviceEvent
<1>2. CASE irq_gpio_callback
  BY <1>2 DEF irq_gpio_callback
<1>3. CASE ThreadTakesSem
  BY <1>3 DEF ThreadTakesSem
<1>4. CASE ThreadChecksCount
  BY <1>4 DEF ThreadChecksCount
<1>5. CASE ThreadClearsCount
  BY <1>5 DEF ThreadClearsCount
<1>6. CASE ThreadLocks
  BY <1>6 DEF ThreadLocks
<1>7. CASE HandlerReadsStatus
  BY <1>7 DEF HandlerReadsStatus
<1>8. CASE HandlerReadFails
  BY <1>8 DEF HandlerReadFails
<1>9. CASE HandlerReturns
  BY <1>9 DEF HandlerReturns
<1>10. CASE AppCalls
  BY <1>10, StepsAre DEF AppCalls, Usable
<1>11. CASE AppLocks
  BY <1>11 DEF AppLocks
<1>12. CASE Command
  BY <1>12, StepsAre, NextStepTypes, NextStepLocking
     DEF Command, AtStep, KeepsLock, InDriverCall, CommandSteps, ClearMaskSteps
<1>13. CASE CommandFails
  BY <1>13, StepsAre, NextStepTypes, NextStepLocking
     DEF CommandFails, AtStep, KeepsLock, InDriverCall, CommandSteps,
     ClearMaskSteps
<1>14. CASE PowersUp
  BY <1>14, StepsAre, NextStepTypes, NextStepLocking
     DEF PowersUp, AtStep, KeepsLock, InDriverCall
<1>15. CASE PowersDown
  BY <1>15, StepsAre, NextStepTypes, NextStepLocking
     DEF PowersDown, AtStep, KeepsLock, InDriverCall
<1>16. CASE RegisterIsBusy
  BY <1>16, StepsAre, NextStepTypes, NextStepLocking
     DEF RegisterIsBusy, AtStep, KeepsLock, InDriverCall
<1>17. CASE SetsCallback
  BY <1>17, StepsAre, NextStepTypes, NextStepLocking
     DEF SetsCallback, AtStep, KeepsLock, InDriverCall
<1>18. CASE SetsFlag
  BY <1>18, StepsAre, NextStepTypes, NextStepLocking
     DEF SetsFlag, AtStep, KeepsLock, InDriverCall
<1>19. CASE ZeroesCount
  BY <1>19, StepsAre, NextStepTypes, NextStepLocking
     DEF ZeroesCount, AtStep, KeepsLock, InDriverCall
<1>20. CASE GpioCleanup
  BY <1>20, StepsAre, NextStepTypes, NextStepLocking
     DEF GpioCleanup, AtStep, KeepsLock, InDriverCall
<1>21. CASE UNCHANGED vars
  BY <1>21 DEF vars, driverVars, deviceVars
<1>22. QED
  BY <1>1, <1>2, <1>3, <1>4, <1>5, <1>6, <1>7, <1>8, <1>9, <1>10, <1>11,
     <1>12, <1>13, <1>14, <1>15, <1>16, <1>17, <1>18, <1>19, <1>20, <1>21 DEF
     Next, ThreadRuns, AppRuns

(* From the power-up to the end of register_irq_callback() or of the        *)
(* enabling call nothing unmasks an interrupt.                              *)
LEMMA MaskStep ==
    TypeOK /\ ArmingIsMasked /\ Deregistered /\ [Next]_vars =>
    ArmingIsMasked' /\ Deregistered'
<1> SUFFICES ASSUME TypeOK /\ ArmingIsMasked /\ Deregistered,
                    [Next]_vars
             PROVE  ArmingIsMasked' /\ Deregistered'
  OBVIOUS
<1> USE DEF TypeOK, ArmingIsMasked, Deregistered, Arming
<1>1. CASE DeviceEvent
  BY <1>1 DEF DeviceEvent, SetDevice, driverVars, deviceVars
<1>2. CASE irq_gpio_callback
  BY <1>2 DEF irq_gpio_callback, driverVars, deviceVars
<1>3. CASE ThreadTakesSem
  BY <1>3 DEF ThreadTakesSem, driverVars, deviceVars
<1>4. CASE ThreadChecksCount
  BY <1>4 DEF ThreadChecksCount, driverVars, deviceVars
<1>5. CASE ThreadClearsCount
  BY <1>5 DEF ThreadClearsCount, driverVars, deviceVars
<1>6. CASE ThreadLocks
  BY <1>6 DEF ThreadLocks, driverVars, deviceVars
<1>7. CASE HandlerReadsStatus
  BY <1>7 DEF HandlerReadsStatus, SetDevice, driverVars, deviceVars
<1>8. CASE HandlerReadFails
  BY <1>8 DEF HandlerReadFails, driverVars, deviceVars
<1>9. CASE HandlerReturns
  BY <1>9 DEF HandlerReturns, driverVars, deviceVars
<1>10. CASE AppCalls
  BY <1>10, StepsAre DEF AppCalls, driverVars, deviceVars
<1>11. CASE AppLocks
  BY <1>11 DEF AppLocks, driverVars, deviceVars
<1>12. CASE Command
  BY <1>12, StepsAre, NextStepArming DEF Command, AtStep, SetDevice,
     MaskAfter, CommandSteps, ClearMaskSteps, driverVars, deviceVars
<1>13. CASE CommandFails
  BY <1>13, StepsAre, NextStepArming DEF CommandFails, AtStep, SetDevice,
     MaskAfter, CommandSteps, ClearMaskSteps, driverVars, deviceVars
<1>14. CASE PowersUp
  BY <1>14, StepsAre, NextStepArming DEF PowersUp, AtStep, SetDevice,
     driverVars, deviceVars
<1>15. CASE PowersDown
  BY <1>15, StepsAre, NextStepArming DEF PowersDown, AtStep, driverVars,
     deviceVars
<1>16. CASE RegisterIsBusy
  BY <1>16, StepsAre, NextStepArming DEF RegisterIsBusy, AtStep, driverVars,
     deviceVars
<1>17. CASE SetsCallback
  BY <1>17, StepsAre, NextStepArming DEF SetsCallback, AtStep, driverVars,
     deviceVars
<1>18. CASE SetsFlag
  BY <1>18, StepsAre, NextStepArming DEF SetsFlag, AtStep, driverVars,
     deviceVars
<1>19. CASE ZeroesCount
  BY <1>19, StepsAre, NextStepArming DEF ZeroesCount, AtStep, driverVars,
     deviceVars
<1>20. CASE GpioCleanup
  BY <1>20, StepsAre, NextStepArming DEF GpioCleanup, AtStep, driverVars,
     deviceVars
<1>21. CASE UNCHANGED vars
  BY <1>21 DEF vars, driverVars, deviceVars
<1>22. QED
  BY <1>1, <1>2, <1>3, <1>4, <1>5, <1>6, <1>7, <1>8, <1>9, <1>10, <1>11,
     <1>12, <1>13, <1>14, <1>15, <1>16, <1>17, <1>18, <1>19, <1>20, <1>21 DEF
     Next, ThreadRuns, AppRuns

(* The count that irq_monitor_callback_enable(false) zeroes does not matter *)
(* any more: the flag goes next.                                            *)
LEMMA NextOfDisable == NextStep["disable_count"] = "disable_flag"
BY DEF NextStep

(* No step loses an edge: those that zero the count run with the interrupts *)
(* masked, without a callback, or just before the monitor is disabled.      *)
LEMMA EdgeStep ==
    TypeOK /\ ArmingIsMasked /\ Deregistered /\ NoLostEdge /\ [Next]_vars =>
    NoLostEdge'
<1> SUFFICES ASSUME TypeOK /\ ArmingIsMasked /\ Deregistered /\ NoLostEdge,
                    [Next]_vars
             PROVE  NoLostEdge'
  OBVIOUS
<1> USE DEF TypeOK, ArmingIsMasked, Deregistered, NoLostEdge, Arming, Armed,
     IrqNLow
<1>1. CASE DeviceEvent
  BY <1>1 DEF DeviceEvent, SetDevice, driverVars, deviceVars
<1>2. CASE irq_gpio_callback
  BY <1>2 DEF irq_gpio_callback, driverVars, deviceVars
<1>3. CASE ThreadTakesSem
  BY <1>3 DEF ThreadTakesSem, driverVars, deviceVars
<1>4. CASE ThreadChecksCount
  BY <1>4 DEF ThreadChecksCount, driverVars, deviceVars
<1>5. CASE ThreadClearsCount
  BY <1>5 DEF ThreadClearsCount, driverVars, deviceVars
<1>6. CASE ThreadLocks
  BY <1>6 DEF ThreadLocks, driverVars, deviceVars
<1>7. CASE HandlerReadsStatus
  BY <1>7 DEF HandlerReadsStatus, SetDevice, driverVars, deviceVars
<1>8. CASE HandlerReadFails
  BY <1>8 DEF HandlerReadFails, driverVars, deviceVars
<1>9. CASE HandlerReturns
  BY <1>9 DEF HandlerReturns, driverVars, deviceVars
<1>10. CASE AppCalls
  BY <1>10 DEF AppCalls, driverVars, deviceVars
<1>11. CASE AppLocks
  BY <1>11 DEF AppLocks, driverVars, deviceVars
<1>12. CASE Command
  <2>1. appPc # "disable_flag" /\ UNCHANGED <<driverVars, irqPc>>
    BY <1>12 DEF Command, AtStep, CommandSteps, ClearMaskSteps
  <2>2. CASE UNCHANGED <<deviceVars, readFailed>>
    BY <2>1, <2>2 DEF driverVars, deviceVars
  <2>3. CASE SetDevice(MaskAfter(appPc), StatusAfter(appPc))
    <3>1. /\ gpio_edge => gpio_edge'
          /\ IrqNLow' => gpio_edge' \/ IrqNLow
          /\ IrqNLow' /\ IrqNLow /\ ~readFailed' => ~readFailed
      BY <2>3, SetDeviceFacts, MaskAfterTypes
    <3>2. QED
      BY <2>1, <3>1 DEF driverVars
  <2>4. QED
    BY <1>12, <2>2, <2>3 DEF Command
<1>13. CASE CommandFails
  <2>1. appPc # "disable_flag" /\ UNCHANGED <<driverVars, irqPc>>
    BY <1>13 DEF CommandFails, AtStep, CommandSteps, ClearMaskSteps
  <2>2. CASE UNCHANGED <<deviceVars, readFailed>>
    BY <2>1, <2>2 DEF driverVars, deviceVars
  <2>3. CASE SetDevice(MaskAfter(appPc), StatusAfter(appPc))
    <3>1. /\ gpio_edge => gpio_edge'
          /\ IrqNLow' => gpio_edge' \/ IrqNLow
          /\ IrqNLow' /\ IrqNLow /\ ~readFailed' => ~readFailed
      BY <2>3, SetDeviceFacts, MaskAfterTypes
    <3>2. QED
      BY <2>1, <3>1 DEF driverVars
  <2>4. QED
    BY <1>13, <2>2, <2>3 DEF CommandFails
<1>14. CASE PowersUp
  BY <1>14 DEF PowersUp, AtStep, SetDevice, driverVars, deviceVars
<1>15. CASE PowersDown
  BY <1>15 DEF PowersDown, AtStep, driverVars, deviceVars
<1>16. CASE RegisterIsBusy
  BY <1>16 DEF RegisterIsBusy, AtStep, driverVars, deviceVars
<1>17. CASE SetsCallback
  BY <1>17 DEF SetsCallback, AtStep, driverVars, deviceVars
<1>18. CASE SetsFlag
  BY <1>18 DEF SetsFlag, AtStep, driverVars, deviceVars
<1>19. CASE ZeroesCount
  BY <1>19, NextOfDisable DEF ZeroesCount, AtStep, driverVars, deviceVars
<1>20. CASE GpioCleanup
  BY <1>20 DEF GpioCleanup, AtStep, driverVars, deviceVars
<1>21. CASE UNCHANGED vars
  BY <1>21 DEF vars, driverVars, deviceVars
<1>22. QED
  BY <1>1, <1>2, <1>3, <1>4, <1>5, <1>6, <1>7, <1>8, <1>9, <1>10, <1>11,
     <1>12, <1>13, <1>14, <1>15, <1>16, <1>17, <1>18, <1>19, <1>20, <1>21 DEF
     Next, ThreadRuns, AppRuns

-----------------------------------------------------------------------------
(* The invariant holds at first. *)
LEMMA MonitorInit == Init => MonitorInv
<1> USE StepsAre DEF Init
<1>1. Init => TypeOK
  <2>1. 0 \in 0..1
    OBVIOUS
  <2>2. QED
    BY <2>1, Zenon DEF TypeOK
<1>2. Init => HandlerHasLock /\ CallHasLock
  BY DEF HandlerHasLock, CallHasLock, InHandler, InDriverCall
<1>3. Init => ArmingIsMasked /\ Deregistered /\ NoLostEdge
  BY DEF ArmingIsMasked, Deregistered, NoLostEdge, Arming, IrqNLow
<1>4. QED
  BY <1>1, <1>2, <1>3 DEF MonitorInv

(* MonitorInv is an invariant, whatever fails. *)
THEOREM MonitorInvariant == Spec => []MonitorInv
<1>1. MonitorInv /\ [Next]_vars => MonitorInv'
  BY TypeStep, LockStep, MaskStep, EdgeStep DEF MonitorInv
<1>2. QED
  BY MonitorInit, <1>1, PTL DEF Spec

(* The driver's, the threads' and the device's state stays well typed. *)
THEOREM TypeCorrect == Spec => []TypeOK
<1>1. MonitorInv => TypeOK
  BY DEF MonitorInv
<1>2. QED
  BY MonitorInvariant, <1>1, PTL

(* No edge of IRQ_N is lost (gpio_driver.c:61-86,157-206), whichever       *)
(* commands and status reads fail.                                         *)
THEOREM EdgesAreKept == Spec => []NoLostEdge
<1>1. MonitorInv => NoLostEdge
  BY DEF MonitorInv
<1>2. QED
  BY MonitorInvariant, <1>1, PTL

-----------------------------------------------------------------------------
(* A step of the application's calls that ends outside the handler started *)
(* outside it: the lock was the application's.                             *)
LEMMA AppRunsOutsideHandler ==
    MonitorInv /\ AppRuns => \/ ~InHandler /\ ~InHandler'
                             \/ GpioCleanup
<1> SUFFICES ASSUME MonitorInv, AppRuns, ~GpioCleanup
             PROVE  ~InHandler /\ ~InHandler'
  OBVIOUS
<1>1. irq_n_callback_lock = "app" /\ UNCHANGED irqPc
  BY DEF AppRuns, Command, CommandFails, PowersUp, PowersDown, RegisterIsBusy,
         SetsCallback, SetsFlag, ZeroesCount, AtStep
<1>2. ~InHandler
  BY <1>1 DEF MonitorInv, HandlerHasLock
<1>3. QED
  BY <1>1, <1>2 DEF InHandler

(* The monitor thread and the application never use the host interface at  *)
(* the same time (commands.c:32-40).                                       *)
THEOREM HostIsExclusive == Spec => HostInterfaceExclusive
<1>1. MonitorInv /\ [Next]_vars =>
        [ (InHandler \/ InHandler') =>
            UNCHANGED <<powered, interrupt_mask, irq_n_cb,
                        irq_monitor_callback_enable_flag>> ]_vars
  <2> SUFFICES ASSUME MonitorInv, Next, InHandler \/ InHandler'
               PROVE  UNCHANGED <<powered, interrupt_mask, irq_n_cb,
                                  irq_monitor_callback_enable_flag>>
    OBVIOUS
  <2>1. CASE AppRuns
    BY <2>1, AppRunsOutsideHandler DEF GpioCleanup, driverVars, deviceVars
  <2>2. CASE ~AppRuns
    BY <2>2 DEF Next, DeviceEvent, irq_gpio_callback, ThreadRuns, ThreadLocks,
                ThreadTakesSem, ThreadChecksCount, ThreadClearsCount,
                HandlerReadsStatus, HandlerReadFails, HandlerReturns, AppCalls,
                AppLocks, SetDevice, driverVars, deviceVars
  <2>3. QED
    BY <2>1, <2>2
<1>2. QED
  BY MonitorInvariant, <1>1, PTL DEF Spec, HostInterfaceExclusive

(* Disarming the monitor is a barrier to the handler.                      *)
THEOREM DisarmingIsABarrier == Spec => []HandlerIsArmed
<1>1. Init => HandlerIsArmed
  BY DEF Init, HandlerIsArmed, InHandler
<1>2. MonitorInv /\ HandlerIsArmed /\ [Next]_vars => HandlerIsArmed'
  <2> SUFFICES ASSUME MonitorInv, HandlerIsArmed, [Next]_vars
               PROVE  HandlerIsArmed'
    OBVIOUS
  <2>1. CASE AppRuns
    BY <2>1, AppRunsOutsideHandler DEF HandlerIsArmed, GpioCleanup, InHandler,
       Armed, driverVars
  <2>2. CASE ~AppRuns
    BY <2>2 DEF HandlerIsArmed, InHandler, Armed, vars, Next, DeviceEvent,
                irq_gpio_callback, ThreadRuns, ThreadLocks, ThreadTakesSem,
                ThreadChecksCount, ThreadClearsCount, HandlerReadsStatus,
                HandlerReadFails, HandlerReturns, AppCalls, AppLocks,
                SetDevice, driverVars, deviceVars
  <2>3. QED
    BY <2>1, <2>2
<1>3. QED
  BY MonitorInvariant, <1>1, <1>2, PTL DEF Spec

-----------------------------------------------------------------------------
(* The steps around a removal of power. *)
LEMMA NextStepPower ==
    \A s \in Steps :
        /\ NextStep[s] = "off_clear_mask" <=> s = "disable_flag"
        /\ NextStep[s] = "power_down" <=> s = "off_clear_mask"
        /\ NextStep[s] = "teardown_power_down" <=> s = "deregister_count"
BY StepsAre DEF NextStep

(* Every step of an application whose commands succeed keeps PowerInv. *)
LEMMA PowerStep ==
    ~AllowCommandFailure /\ MonitorInv /\ PowerInv /\ [Next]_vars =>
    PowerInv'
<1> SUFFICES ASSUME ~AllowCommandFailure /\ MonitorInv /\ PowerInv,
                    [Next]_vars
             PROVE  PowerInv'
  OBVIOUS
<1> USE DEF MonitorInv, TypeOK, HandlerHasLock, Deregistered, PowerInv,
     PoweredOffQuiet, InHandler, Arming, Armed
<1>1. CASE DeviceEvent
  BY <1>1 DEF DeviceEvent, SetDevice, driverVars, deviceVars
<1>2. CASE irq_gpio_callback
  BY <1>2 DEF irq_gpio_callback, driverVars, deviceVars
<1>3. CASE ThreadTakesSem
  BY <1>3 DEF ThreadTakesSem, driverVars, deviceVars
<1>4. CASE ThreadChecksCount
  BY <1>4 DEF ThreadChecksCount, driverVars, deviceVars
<1>5. CASE ThreadClearsCount
  BY <1>5 DEF ThreadClearsCount, driverVars, deviceVars
<1>6. CASE ThreadLocks
  BY <1>6 DEF ThreadLocks, driverVars, deviceVars
<1>7. CASE HandlerReadsStatus
  BY <1>7 DEF HandlerReadsStatus, SetDevice, driverVars, deviceVars
<1>8. CASE HandlerReadFails
  BY <1>8 DEF HandlerReadFails, driverVars, deviceVars
<1>9. CASE HandlerReturns
  BY <1>9 DEF HandlerReturns, driverVars, deviceVars
<1>10. CASE AppCalls
  BY <1>10, StepsAre DEF AppCalls, Usable, driverVars, deviceVars
<1>11. CASE AppLocks
  BY <1>11 DEF AppLocks, driverVars, deviceVars
<1>12. CASE Command
  BY <1>12, StepsAre, NextStepArming, NextStepPower DEF Command, AtStep,
     CommandSteps, ClearMaskSteps, driverVars, deviceVars
<1>13. CASE CommandFails
  BY <1>13 DEF CommandFails
<1>14. CASE PowersUp
  BY <1>14, StepsAre, NextStepArming, NextStepPower DEF PowersUp, AtStep,
     driverVars, deviceVars
<1>15. CASE PowersDown
  BY <1>15, StepsAre, NextStepArming, NextStepPower DEF PowersDown, AtStep,
     driverVars, deviceVars
<1>16. CASE RegisterIsBusy
  BY <1>16, StepsAre, NextStepArming, NextStepPower DEF RegisterIsBusy,
     AtStep, driverVars, deviceVars
<1>17. CASE SetsCallback
  BY <1>17, StepsAre, NextStepArming, NextStepPower DEF SetsCallback, AtStep,
     driverVars, deviceVars
<1>18. CASE SetsFlag
  BY <1>18, StepsAre, NextStepArming, NextStepPower DEF SetsFlag, AtStep,
     driverVars, deviceVars
<1>19. CASE ZeroesCount
  BY <1>19, StepsAre, NextStepArming, NextStepPower DEF ZeroesCount, AtStep,
     driverVars, deviceVars
<1>20. CASE GpioCleanup
  BY <1>20, StepsAre, NextStepArming, NextStepPower DEF GpioCleanup, AtStep,
     driverVars, deviceVars
<1>21. CASE UNCHANGED vars
  BY <1>21 DEF vars, driverVars, deviceVars
<1>22. QED
  BY <1>1, <1>2, <1>3, <1>4, <1>5, <1>6, <1>7, <1>8, <1>9, <1>10, <1>11,
     <1>12, <1>13, <1>14, <1>15, <1>16, <1>17, <1>18, <1>19, <1>20, <1>21 DEF
     Next, ThreadRuns, AppRuns

(* No handler runs against an Ex10 without power, if no command of the     *)
(* application fails.  It is false otherwise: after a failing deinit(),    *)
(* which returns before it deregisters the callback, the monitor is still  *)
(* armed when power goes.                                                  *)
THEOREM PowerIsOn ==
    ASSUME ~AllowCommandFailure
    PROVE  Spec => []PoweredOffQuiet
<1>1. Init => PowerInv
  BY DEF Init, PowerInv, PoweredOffQuiet, InHandler, Arming, Armed
<1>2. MonitorInv /\ PowerInv /\ [Next]_vars => PowerInv'
  BY PowerStep
<1>3. PowerInv => PoweredOffQuiet
  BY DEF PowerInv
<1>4. QED
  BY MonitorInvariant, <1>1, <1>2, <1>3, PTL DEF Spec

-----------------------------------------------------------------------------
(* The monitor implements IrqDelivery: each of its steps is one of the      *)
(* abstract steps or leaves the abstract state alone.  AppUsesHost is       *)
(* where the order of the calls matters: the monitor is armed only with     *)
(* IRQ_N released, which is ArmingIsMasked.                                 *)
LEMMA DeliveryStep ==
    MonitorInv /\ [Next]_vars => [Delivery!Next]_(Delivery!vars)
<1> SUFFICES ASSUME MonitorInv, [Next]_vars
             PROVE  [Delivery!Next]_(Delivery!vars)
  OBVIOUS
<1> USE DEF Delivery!Next, Delivery!vars, InHandler, Armed, IrqNLow,
            MonitorInv, HandlerHasLock
<1>1. CASE DeviceEvent
  BY <1>1 DEF DeviceEvent, SetDevice, Delivery!Assert, driverVars, TypeOK
<1>2. CASE \/ irq_gpio_callback \/ ThreadTakesSem \/ ThreadChecksCount
           \/ ThreadClearsCount \/ AppCalls \/ GpioCleanup
  BY <1>2 DEF irq_gpio_callback, ThreadTakesSem, ThreadChecksCount,
              ThreadClearsCount, AppCalls, GpioCleanup, driverVars, deviceVars
<1>3. CASE ThreadLocks
  BY <1>3 DEF ThreadLocks, Delivery!HandlerEnter, driverVars, deviceVars
<1>4. CASE HandlerReadsStatus
  BY <1>4 DEF HandlerReadsStatus, SetDevice, Delivery!HandlerReadsStatus,
              driverVars
<1>5. CASE HandlerReadFails
  BY <1>5 DEF HandlerReadFails, Delivery!HandlerReadsStatus, driverVars,
              deviceVars
<1>6. CASE HandlerReturns
  BY <1>6 DEF HandlerReturns, Delivery!HandlerReturns, driverVars, deviceVars
<1>7. CASE AppLocks
  BY <1>7 DEF AppLocks, Delivery!AppTakesHost, driverVars, deviceVars
<1>8. CASE AppRuns /\ ~GpioCleanup
  <2>1. ~InHandler /\ ~InHandler'
    BY <1>8, AppRunsOutsideHandler
  <2>2. /\ irq_n_callback_lock = "app"
        /\ irq_n_callback_lock' \in {"app", "none"}
    BY <1>8 DEF AppRuns, Command, CommandFails, PowersUp, PowersDown,
         RegisterIsBusy, SetsCallback, SetsFlag, ZeroesCount, AtStep
  <2>3. ~Armed /\ Armed' => ~interrupt_mask'
    BY <1>8 DEF AppRuns, Command, CommandFails, PowersUp, PowersDown,
         RegisterIsBusy, SetsCallback, SetsFlag, ZeroesCount, AtStep,
         ArmingIsMasked, Arming, driverVars, deviceVars
  <2>4. IrqNLow' \in BOOLEAN /\ Armed' \in BOOLEAN
    BY Zenon
  <2>5. QED
    BY <2>1, <2>2, <2>3, <2>4 DEF Delivery!AppUsesHost
<1>9. CASE UNCHANGED vars
  BY <1>9 DEF vars, driverVars, deviceVars
<1>10. QED
  BY <1>1, <1>2, <1>3, <1>4, <1>5, <1>6, <1>7, <1>8, <1>9
     DEF Next, ThreadRuns, AppRuns

(* The monitor keeps the safety part of the promise of IrqDelivery. *)
THEOREM DeliveryIsImplemented == Spec => Delivery!SafetySpec
<1>1. Init => Delivery!Init
  BY DEF Init, Delivery!Init, IrqNLow, Armed, InHandler
<1>2. QED
  BY <1>1, DeliveryStep, MonitorInvariant, PTL DEF Spec, Delivery!SafetySpec
=============================================================================
