---------------------------- MODULE EventFifoQueue ----------------------------
(***************************************************************************)
(* The hand-over of event FIFO buffers between threads                     *)
(* (ex10_event_fifo_queue.c): the IRQ_N monitor thread pushes filled       *)
(* buffer nodes, the application waits for packets, peeks and removes      *)
(* them, and any other thread may call packet_unwait().                    *)
(*                                                                         *)
(* A node stands for its packets: removing the last packet of a node pops  *)
(* it.  Mutex and condition variable are those of the Zephyr port          *)
(* (ex10_osal.c): ex10_cond_signal() is a broadcast, and a timed wait      *)
(* returns what k_condvar_wait() returns.                                  *)
(***************************************************************************)
EXTENDS Integers, Sequences, SequencesExt

CONSTANTS
    Nodes,     \* buffer nodes that circulate
    NoNode     \* NULL

ASSUME NoNodeIsNull == NoNode \notin Nodes

VARIABLES
    event_fifo_list,         \* nodes pushed and not yet popped
    event_packets_iterator,  \* the node being parsed, or NoNode
    list_mutex,              \* owner: "none", "irq", "app"
    irqPc, irqNode,          \* list_node_push_back() in the monitor thread
    appPc,                   \* the application's place in the queue code
    timed,                   \* it called packet_wait_with_timeout()
    timeout_expired,
    unwaitPc                 \* another thread, inside packet_unwait()

irqVars == <<irqPc, irqNode>>
vars == <<event_fifo_list, event_packets_iterator, list_mutex, irqVars,
          appPc, timed, timeout_expired, unwaitPc>>

(* errno values of the C library, and what k_condvar_wait() returns when   *)
(* the waiting period ends: a negative errno, -EAGAIN.                     *)
EAGAIN == 11
ETIMEDOUT == 116
ex10_cond_timed_wait_us_timeout == -EAGAIN

Free == Nodes \ (ToSet(event_fifo_list) \cup {irqNode})

Empty == event_packets_iterator = NoNode /\ event_fifo_list = <<>>

Init ==
    /\ event_fifo_list = <<>> /\ event_packets_iterator = NoNode
    /\ list_mutex = "none"
    /\ irqPc = "idle" /\ irqNode = NoNode
    /\ appPc = "idle" /\ timed = FALSE /\ timeout_expired = FALSE
    /\ unwaitPc = "idle"

-----------------------------------------------------------------------------
(* list_node_push_back(): lock, push, unlock; then signal. *)
PushLocks ==
    /\ irqPc = "idle" /\ list_mutex = "none"
    /\ \E node \in Free : irqNode' = node
    /\ irqPc' = "push" /\ list_mutex' = "irq"
    /\ UNCHANGED <<event_fifo_list, event_packets_iterator, appPc, timed,
                   timeout_expired, unwaitPc>>

PushAppends ==
    /\ irqPc = "push"
    /\ event_fifo_list' = Append(event_fifo_list, irqNode)
    /\ irqPc' = "signal" /\ irqNode' = NoNode /\ list_mutex' = "none"
    /\ UNCHANGED <<event_packets_iterator, appPc, timed, timeout_expired,
                   unwaitPc>>

(* ex10_cond_signal() wakes whoever waits on list_cond. *)
Signalled(pc) == IF pc = "cond_wait" THEN "relock" ELSE pc

(* A mistake: signal for a node that finds the list empty - looked at      *)
(* after the push.                                                         *)
PushSignalsIfEmpty ==
    /\ irqPc = "signal" /\ irqPc' = "idle"
    /\ appPc' = IF event_fifo_list = <<>> THEN Signalled(appPc) ELSE appPc
    /\ UNCHANGED <<event_fifo_list, event_packets_iterator, list_mutex,
                   irqNode, timed, timeout_expired, unwaitPc>>

PushSignals ==
    /\ irqPc = "signal" /\ irqPc' = "idle"
    /\ appPc' = Signalled(appPc)
    /\ UNCHANGED <<event_fifo_list, event_packets_iterator, list_mutex,
                   irqNode, timed, timeout_expired, unwaitPc>>

(* packet_unwait(): a signal, and nothing that the waiter could test. *)
UnwaitCalled ==
    /\ unwaitPc = "idle" /\ unwaitPc' = "signal"
    /\ UNCHANGED <<event_fifo_list, event_packets_iterator, list_mutex,
                   irqVars, appPc, timed, timeout_expired>>

packet_unwait ==
    /\ unwaitPc = "signal" /\ unwaitPc' = "idle"
    /\ appPc' = Signalled(appPc)
    /\ UNCHANGED <<event_fifo_list, event_packets_iterator, list_mutex,
                   irqVars, timed, timeout_expired>>

-----------------------------------------------------------------------------
(* packet_wait() and packet_wait_with_timeout(). *)
WaitLocks ==
    /\ appPc = "idle" /\ list_mutex = "none"
    /\ timed' \in BOOLEAN /\ timeout_expired' = FALSE
    /\ appPc' = "test" /\ list_mutex' = "app"
    /\ UNCHANGED <<event_fifo_list, event_packets_iterator, irqVars, unwaitPc>>

(* The while condition holds: k_condvar_wait() gives the mutex back and    *)
(* sleeps, in one step.                                                    *)
WaitSleeps ==
    /\ appPc = "test" /\ Empty /\ ~timeout_expired
    /\ appPc' = "cond_wait" /\ list_mutex' = "none"
    /\ UNCHANGED <<event_fifo_list, event_packets_iterator, irqVars, timed,
                   timeout_expired, unwaitPc>>

WaitTimesOut ==
    /\ appPc = "cond_wait" /\ timed
    /\ appPc' = "relock"
    /\ timeout_expired' = (ex10_cond_timed_wait_us_timeout = ETIMEDOUT)
    /\ UNCHANGED <<event_fifo_list, event_packets_iterator, list_mutex,
                   irqVars, timed, unwaitPc>>

WaitRelocks ==
    /\ appPc = "relock" /\ list_mutex = "none"
    /\ appPc' = "test" /\ list_mutex' = "app"
    /\ UNCHANGED <<event_fifo_list, event_packets_iterator, irqVars, timed,
                   timeout_expired, unwaitPc>>

(* A mistake: only the iterator is looked at, not the list. *)
WaitReturnsForIterator ==
    /\ appPc = "test" /\ (event_packets_iterator # NoNode \/ timeout_expired)
    /\ appPc' = "peek" /\ list_mutex' = "none"
    /\ UNCHANGED <<event_fifo_list, event_packets_iterator, irqVars, timed,
                   timeout_expired, unwaitPc>>

WaitReturns ==
    /\ appPc = "test" /\ (~Empty \/ timeout_expired)
    /\ appPc' = "peek" /\ list_mutex' = "none"
    /\ UNCHANGED <<event_fifo_list, event_packets_iterator, irqVars, timed,
                   timeout_expired, unwaitPc>>

FrontNode(list) == IF list = <<>> THEN NoNode ELSE Head(list)

(* packet_peek(): with no node at hand, take the list's first one. *)
packet_peek ==
    /\ appPc = "peek" /\ list_mutex = "none"
    /\ event_packets_iterator' = IF event_packets_iterator = NoNode
                                 THEN FrontNode(event_fifo_list)
                                 ELSE event_packets_iterator
    /\ appPc' = IF event_packets_iterator' = NoNode THEN "idle" ELSE "remove"
    /\ UNCHANGED <<event_fifo_list, list_mutex, irqVars, timed,
                   timeout_expired, unwaitPc>>

(* packet_remove() of a node's last packet: the node is popped and the     *)
(* next one, if any, becomes current.  Other packets leave the node alone. *)
packet_remove ==
    /\ appPc = "remove" /\ list_mutex = "none"
    /\ \/ UNCHANGED <<event_fifo_list, event_packets_iterator>>
       \/ /\ event_fifo_list' = Tail(event_fifo_list)
          /\ event_packets_iterator' = FrontNode(Tail(event_fifo_list))
    /\ appPc' = "idle"
    /\ UNCHANGED <<list_mutex, irqVars, timed, timeout_expired, unwaitPc>>

-----------------------------------------------------------------------------
AppRuns ==
    \/ WaitSleeps \/ WaitTimesOut \/ WaitReturns
    \/ packet_peek \/ packet_remove

Next ==
    \/ PushLocks \/ PushAppends \/ PushSignals
    \/ UnwaitCalled \/ packet_unwait
    \/ WaitLocks \/ WaitRelocks \/ AppRuns

(* Ready threads run, timers expire, and a mutex goes to a waiting thread  *)
(* when it is released.  Nothing forces a push or an unwait to begin.      *)
Fairness ==
    /\ WF_vars(PushAppends) /\ WF_vars(PushSignals) /\ WF_vars(packet_unwait)
    /\ SF_vars(WaitLocks) /\ SF_vars(WaitRelocks)
    /\ WF_vars(WaitSleeps) /\ WF_vars(WaitTimesOut) /\ WF_vars(WaitReturns)
    /\ SF_vars(packet_peek) /\ SF_vars(packet_remove)

Spec == Init /\ [][Next]_vars /\ Fairness

-----------------------------------------------------------------------------
(* Types of the queue's and the threads' state. *)
TypeOK ==
    /\ event_fifo_list \in Seq(Nodes)
    /\ event_packets_iterator \in Nodes \cup {NoNode}
    /\ list_mutex \in {"none", "irq", "app"}
    /\ irqPc \in {"idle", "push", "signal"} /\ irqNode \in Nodes \cup {NoNode}
    /\ appPc \in {"idle", "test", "cond_wait", "relock", "peek", "remove"}
    /\ timed \in BOOLEAN /\ timeout_expired \in BOOLEAN
    /\ unwaitPc \in {"idle", "signal"}

(* The iterator never points at a node that has left the list, where the   *)
(* monitor thread could be refilling it: packet_peek()'s pointer stays     *)
(* valid until packet_remove() (ex10_event_fifo_queue.h:54-57).            *)
IteratorIsFront ==
    event_packets_iterator # NoNode =>
        /\ event_fifo_list # <<>>
        /\ event_packets_iterator = Head(event_fifo_list)
        /\ event_packets_iterator # irqNode

(* No wake-up is lost although list_node_push_back() signals after it has  *)
(* released the mutex: the application sleeps on a non-empty list only     *)
(* while the push that filled it has yet to signal.                        *)
NoSleepOnData ==
    appPc = "cond_wait" /\ ~Empty => irqPc = "signal"

(* A pushed node is eventually looked at, with or without timeouts. *)
PushedIsSeen ==
    \A node \in Nodes :
        (event_fifo_list # <<>> /\ Head(event_fifo_list) = node) ~>
            event_packets_iterator = node
=============================================================================
