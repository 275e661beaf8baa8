----------------------------- MODULE IrqDelivery -----------------------------
(***************************************************************************)
(* What the IRQ_N monitor (gpio_driver.c) promises to Ex10Protocol, with   *)
(* nothing of how it is done: no semaphore, no counter, no ISR.            *)
(*                                                                         *)
(* The host interface (SPI command buffers) has one user at a time.  While *)
(* the monitor is armed and IRQ_N is asserted, the interrupt handler will  *)
(* run and read the interrupt status, which releases IRQ_N.  The handler   *)
(* never starts while the monitor is disarmed, and the monitor is armed    *)
(* only while IRQ_N is released: an edge cannot have been missed before.   *)
(***************************************************************************)

CONSTANT AllowReadFailure   \* may the handler's status read fail?

VARIABLES
    irq_n_low,   \* IRQ_N is asserted
    armed,       \* a callback is registered and enabled
    handler,     \* "idle", "status" (before the status read), "handling"
    host         \* who uses the host interface: "free", "app", "irq"

vars == <<irq_n_low, armed, handler, host>>

Init ==
    /\ ~irq_n_low /\ ~armed
    /\ handler = "idle" /\ host = "free"

(* The Ex10 asserts IRQ_N: a new unmasked event. *)
Assert ==
    /\ ~irq_n_low /\ irq_n_low'
    /\ UNCHANGED <<armed, handler, host>>

AppTakesHost ==
    /\ host = "free" /\ host' = "app"
    /\ UNCHANGED <<irq_n_low, armed, handler>>

(* The application, inside its turn on the host interface, may mask or     *)
(* unmask interrupts, reset the Ex10, and arm or disarm the monitor.       *)
AppUsesHost ==
    /\ host = "app" /\ host' \in {"app", "free"}
    /\ irq_n_low' \in BOOLEAN /\ armed' \in BOOLEAN
    /\ (armed' /\ ~armed) => ~irq_n_low'
    /\ UNCHANGED handler

HandlerEnter ==
    /\ armed /\ host = "free" /\ handler = "idle"
    /\ handler' = "status" /\ host' = "irq"
    /\ UNCHANGED <<irq_n_low, armed>>

HandlerReadsStatus ==
    /\ handler = "status" /\ handler' = "handling"
    /\ ~irq_n_low' \/ (AllowReadFailure /\ UNCHANGED irq_n_low)
    /\ UNCHANGED <<armed, host>>

HandlerReturns ==
    /\ handler = "handling" /\ handler' = "idle" /\ host' = "free"
    /\ UNCHANGED <<irq_n_low, armed>>

Next ==
    \/ Assert \/ AppTakesHost \/ AppUsesHost
    \/ HandlerEnter \/ HandlerReadsStatus \/ HandlerReturns

(* An asserted IRQ_N is served, unless the application takes the interrupt *)
(* away first (masks it, resets the chip or disarms the monitor).          *)
Served ==
    (irq_n_low /\ armed) ~> (handler = "status" \/ ~irq_n_low \/ ~armed)

SafetySpec == Init /\ [][Next]_vars

Spec == SafetySpec /\ Served
=============================================================================
