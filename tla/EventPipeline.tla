----------------------------- MODULE EventPipeline -----------------------------
(***************************************************************************)
(* The event FIFO path of the SDK, from the Ex10's event FIFO to the       *)
(* application's packet loop: interrupt_handler() and read_event_fifo()    *)
(* of ex10_protocol.c in the IRQ_N monitor thread, the free lists of       *)
(* fifo_buffer_list.c, the packet queue of ex10_event_fifo_queue.c and a   *)
(* use case that opens, drains and closes the path.                        *)
(*                                                                         *)
(* The handler runs with irq_n_callback_lock held, so a host command of    *)
(* the application (irq_enable(false) ... irq_enable(true)) is one step    *)
(* taken while the handler is idle; buffer and queue operations interleave *)
(* with the handler.  IrqMonitor shows that an edge of IRQ_N reaches the   *)
(* handler; here it is the latch irq_pending.  A packet is a number, its   *)
(* size one unit of the FIFO; Ex10ResultPacket is an error report.  The    *)
(* Ex10 stays in the Application, and every event buffer holds a whole     *)
(* device FIFO (fifo_buffer_list.c:80 refuses smaller ones).               *)
(***************************************************************************)
EXTENDS Naturals, Sequences, SequencesExt

CONSTANTS
    EventBuffers, ResultBuffers,  \* the two pools of FifoBufferNodes
    NoNode,                       \* NULL
    FifoSize,                     \* device event FIFO capacity
    FifoThreshold,                \* EventFifoAboveThresh interrupt level
    MaxPackets,                   \* bound: packets the Ex10 emits
    MaxFailures,                  \* bound: host commands that fail
    MayClose,                     \* may the application close the use case?
    DrainBeforeInit               \* does it drain the queue before init()?

ASSUME PoolsAreDisjoint ==
    /\ EventBuffers \cap ResultBuffers = {}
    /\ NoNode \notin EventBuffers \cup ResultBuffers
ASSUME SizesAreNatural ==
    /\ FifoSize \in Nat /\ FifoThreshold \in Nat
    /\ MaxPackets \in Nat /\ MaxFailures \in Nat
    /\ MayClose \in BOOLEAN /\ DrainBeforeInit \in BOOLEAN

Nodes == EventBuffers \cup ResultBuffers
Ex10ResultPacket == 0

VARIABLES
    event_fifo, emitted,               \* Ex10: FIFO contents, packets so far
    interrupt_status, interrupt_mask,  \* Ex10: some bit set, bits enabled
    irq_pending,                       \* an edge on its way to the handler
    event_fifo_free_list, result_free_list,   \* order of free nodes is moot
    event_fifo_list,                   \* nodes queued for the application
    fifo_data,                         \* packets held by each node
    interrupt_callback, fifo_data_callback,   \* registered?
    irqPc, irqNode, num_bytes,         \* interrupt_handler() and its locals
    appPc, appNode,                    \* the application, a node it popped
    event_packets_iterator,            \* the node being parsed, or NoNode
    iterator_left, event_packet,       \* unparsed packets, parsed packet
    draining,                          \* inside ex10_discard_packets()
    delivered,                         \* last device packet consumed
    failures,
    reopened                           \* has the use case been closed?

device == <<event_fifo, emitted>>
irqLine == <<interrupt_status, interrupt_mask, irq_pending>>
freeLists == <<event_fifo_free_list, result_free_list>>
callbacks == <<interrupt_callback, fifo_data_callback>>
handler == <<irqPc, irqNode, num_bytes>>
iterator == <<event_packets_iterator, iterator_left, event_packet>>
app == <<appPc, appNode, iterator, draining, delivered>>
history == <<failures, reopened>>
vars == <<device, irqLine, freeLists, event_fifo_list, fifo_data, callbacks,
          handler, app, history>>

Init ==
    /\ event_fifo = <<>> /\ emitted = 0
    /\ interrupt_status = FALSE /\ interrupt_mask = FALSE
    /\ irq_pending = FALSE
    /\ event_fifo_free_list = EventBuffers /\ result_free_list = ResultBuffers
    /\ event_fifo_list = <<>> /\ fifo_data = [n \in Nodes |-> <<>>]
    /\ interrupt_callback = FALSE /\ fifo_data_callback = FALSE
    /\ irqPc = "idle" /\ irqNode = NoNode /\ num_bytes = 0
    /\ appPc = "closed" /\ appNode = NoNode
    /\ event_packets_iterator = NoNode /\ iterator_left = <<>>
    /\ event_packet = Ex10ResultPacket
    /\ draining = FALSE /\ delivered = 0
    /\ failures = 0 /\ reopened = FALSE

-----------------------------------------------------------------------------
(* The Ex10.  IRQ_N is asserted while an enabled status bit is set; the    *)
(* falling edge is latched.                                                *)
SetIrq(mask, status) ==
    /\ interrupt_mask' = mask
    /\ interrupt_status' = status
    /\ irq_pending' = (irq_pending \/
            (mask /\ status /\ ~(interrupt_mask /\ interrupt_status)))

DeviceEmits ==
    /\ emitted < MaxPackets /\ Len(event_fifo) < FifoSize
    /\ emitted' = emitted + 1
    /\ event_fifo' = Append(event_fifo, emitted + 1)
    /\ SetIrq(interrupt_mask,
              interrupt_status \/ Len(event_fifo) + 1 >= FifoThreshold)
    /\ UNCHANGED <<freeLists, event_fifo_list, fifo_data, callbacks, handler,
                   app, history>>

MayFail ==
    /\ failures < MaxFailures
    /\ failures' = failures + 1
    /\ UNCHANGED reopened

-----------------------------------------------------------------------------
(* FifoBufferList.free_list_put() and ex10_release_buffer_node(). *)
Release(node) ==
    /\ fifo_data' = [fifo_data EXCEPT ![node] = <<>>]
    /\ IF node \in ResultBuffers
       THEN /\ result_free_list' = result_free_list \cup {node}
            /\ UNCHANGED event_fifo_free_list
       ELSE /\ event_fifo_free_list' = event_fifo_free_list \cup {node}
            /\ UNCHANGED result_free_list

(* What ex10_release_buffer_node() returns: the event free list was empty. *)
WasEmpty(node) == node \in EventBuffers /\ event_fifo_free_list = {}

-----------------------------------------------------------------------------
(* interrupt_handler(), in the monitor thread. *)
HandlerEnters ==
    /\ irqPc = "idle" /\ irq_pending
    /\ irqPc' = "status" /\ irq_pending' = FALSE
    /\ UNCHANGED <<device, interrupt_status, interrupt_mask, freeLists,
                   event_fifo_list, fifo_data, callbacks, irqNode, num_bytes,
                   app, history>>

(* read_multiple(): status, interrupt status (cleared by it), FIFO level.  *)
HandlerReadsStatus ==
    /\ irqPc = "status" /\ irqPc' = "callback"
    /\ num_bytes' = Len(event_fifo)
    /\ SetIrq(interrupt_mask, FALSE)
    /\ UNCHANGED <<device, freeLists, event_fifo_list, fifo_data, callbacks,
                   irqNode, app, history>>

(* make_ex10_result_fifo_packet() and list_node_push_back(): an error is    *)
(* queued for the application, silently not without a free buffer.          *)
QueueError ==
    \/ \E node \in result_free_list :
          /\ result_free_list' = result_free_list \ {node}
          /\ fifo_data' = [fifo_data EXCEPT ![node] = <<Ex10ResultPacket>>]
          /\ event_fifo_list' = Append(event_fifo_list, node)
    \/ /\ result_free_list = {}
       /\ UNCHANGED <<result_free_list, fifo_data, event_fifo_list>>

(* The read fails, before or after the Ex10 cleared its status; a consumer *)
(* gets to know.                                                           *)
HandlerReadFails ==
    /\ irqPc = "status" /\ irqPc' = "return"
    /\ MayFail
    /\ \E status \in {interrupt_status, FALSE} : SetIrq(interrupt_mask, status)
    /\ IF fifo_data_callback
       THEN QueueError
       ELSE UNCHANGED <<result_free_list, fifo_data, event_fifo_list>>
    /\ UNCHANGED <<device, event_fifo_free_list, callbacks, irqNode, num_bytes,
                   app>>

(* The use case's interrupt callback always asks for the FIFO to be read;  *)
(* it may insert a summary packet itself, with trigger_irq set.            *)
HandlerCallsBack ==
    /\ irqPc = "callback"
    /\ irqPc' = IF interrupt_callback /\ num_bytes > 0
                THEN "get_buffer" ELSE "return"
    /\ \/ UNCHANGED <<device, irqLine>>
       \/ /\ interrupt_callback
          /\ emitted < MaxPackets /\ Len(event_fifo) < FifoSize
          /\ emitted' = emitted + 1
          /\ event_fifo' = Append(event_fifo, emitted + 1)
          /\ SetIrq(interrupt_mask, TRUE)
    /\ UNCHANGED <<freeLists, event_fifo_list, fifo_data, callbacks, irqNode,
                   num_bytes, app, history>>

(* A mistake: the buffer is not unlinked from the free list. *)
HandlerPeeksBuffer ==
    /\ irqPc = "get_buffer"
    /\ \/ \E node \in event_fifo_free_list : irqNode' = node /\ irqPc' = "read"
       \/ event_fifo_free_list = {} /\ irqPc' = "result" /\ UNCHANGED irqNode
    /\ UNCHANGED <<device, irqLine, freeLists, event_fifo_list, fifo_data,
                   callbacks, num_bytes, app, history>>

(* read_event_fifo(): take a free buffer, or report that there is none.    *)
HandlerGetsBuffer ==
    /\ irqPc = "get_buffer"
    /\ \/ \E node \in event_fifo_free_list :
            /\ event_fifo_free_list' = event_fifo_free_list \ {node}
            /\ irqNode' = node /\ irqPc' = "read"
       \/ /\ event_fifo_free_list = {} /\ irqPc' = "result"
          /\ UNCHANGED <<event_fifo_free_list, irqNode>>
    /\ UNCHANGED <<device, irqLine, result_free_list, event_fifo_list,
                   fifo_data, callbacks, num_bytes, app, history>>

(* ReadFifo returns the num_bytes that were there when the level was read. *)
HandlerReadsFifo ==
    /\ irqPc = "read" /\ irqPc' = "deliver"
    /\ fifo_data' = [fifo_data EXCEPT ![irqNode] =
                        SubSeq(event_fifo, 1, num_bytes)]
    /\ event_fifo' = SubSeq(event_fifo, num_bytes + 1, Len(event_fifo))
    /\ UNCHANGED <<emitted, irqLine, freeLists, event_fifo_list, callbacks,
                   irqNode, num_bytes, app, history>>

(* A mistake: the error path forgets the buffer. *)
HandlerDropsBuffer ==
    /\ irqPc = "read" /\ irqPc' = "result"
    /\ MayFail
    /\ irqNode' = NoNode
    /\ UNCHANGED <<device, irqLine, freeLists, event_fifo_list, fifo_data,
                   callbacks, num_bytes, app>>

(* ReadFifo fails, with the data still in the Ex10 or already gone.  The   *)
(* buffer goes back; whether the free list was empty is not looked at.     *)
HandlerReadFifoFails ==
    /\ irqPc = "read" /\ irqPc' = "result"
    /\ MayFail
    /\ event_fifo' \in {event_fifo,
                        SubSeq(event_fifo, num_bytes + 1, Len(event_fifo))}
    /\ Release(irqNode) /\ irqNode' = NoNode
    /\ UNCHANGED <<emitted, irqLine, event_fifo_list, callbacks, num_bytes, app>>

(* make_ex10_result_fifo_packet(): silently nothing without a buffer.      *)
HandlerMakesResult ==
    /\ irqPc = "result"
    /\ \/ \E node \in result_free_list :
            /\ result_free_list' = result_free_list \ {node}
            /\ fifo_data' = [fifo_data EXCEPT ![node] = <<Ex10ResultPacket>>]
            /\ irqNode' = node /\ irqPc' = "deliver"
       \/ /\ result_free_list = {} /\ irqPc' = "return"
          /\ UNCHANGED <<result_free_list, fifo_data, irqNode>>
    /\ UNCHANGED <<device, irqLine, event_fifo_free_list, event_fifo_list,
                   callbacks, num_bytes, app, history>>

(* A mistake: list_push_front(). *)
HandlerDeliversFirst ==
    /\ irqPc = "deliver" /\ irqPc' = "return" /\ irqNode' = NoNode
    /\ IF fifo_data_callback
       THEN /\ event_fifo_list' = <<irqNode>> \o event_fifo_list
            /\ UNCHANGED <<freeLists, fifo_data>>
       ELSE Release(irqNode) /\ UNCHANGED event_fifo_list
    /\ UNCHANGED <<device, irqLine, callbacks, num_bytes, app, history>>

(* The use case's fifo_data_handler() queues the node; without a consumer  *)
(* the node goes back to its free list.                                    *)
HandlerDelivers ==
    /\ irqPc = "deliver" /\ irqPc' = "return" /\ irqNode' = NoNode
    /\ IF fifo_data_callback
       THEN /\ event_fifo_list' = Append(event_fifo_list, irqNode)
            /\ UNCHANGED <<freeLists, fifo_data>>
       ELSE Release(irqNode) /\ UNCHANGED event_fifo_list
    /\ UNCHANGED <<device, irqLine, callbacks, num_bytes, app, history>>

HandlerReturns ==
    /\ irqPc = "return" /\ irqPc' = "idle"
    /\ UNCHANGED <<device, irqLine, freeLists, event_fifo_list, fifo_data,
                   callbacks, irqNode, num_bytes, app, history>>

-----------------------------------------------------------------------------
(* The application thread: init() and deinit() of a use case. *)
HostFree == irqPc = "idle"

AppOpens ==
    /\ appPc = "closed"
    /\ \/ event_fifo_list = <<>>
       \/ ~DrainBeforeInit
    /\ appPc' = "init_queue"
    /\ UNCHANGED <<device, irqLine, freeLists, event_fifo_list, fifo_data,
                   callbacks, handler, appNode, iterator, draining, delivered,
                   history>>

(* Ex10EventFifoQueue.init(): queued nodes are dropped, not released.      *)
InitQueue ==
    /\ appPc = "init_queue" /\ appPc' = "init_fifo_callback"
    /\ event_fifo_list' = <<>>
    /\ event_packets_iterator' = NoNode /\ iterator_left' = <<>>
    /\ event_packet' = Ex10ResultPacket
    /\ UNCHANGED <<device, irqLine, freeLists, fifo_data, callbacks, handler,
                   appNode, draining, delivered, history>>

RegisterFifoCallback ==
    /\ appPc = "init_fifo_callback" /\ appPc' = "init_irq_callback"
    /\ fifo_data_callback' = TRUE
    /\ UNCHANGED <<device, irqLine, freeLists, event_fifo_list, fifo_data,
                   interrupt_callback, handler, appNode, iterator, draining,
                   delivered, history>>

RegisterInterruptCallback ==
    /\ appPc = "init_irq_callback" /\ appPc' = "init_mask"
    /\ interrupt_callback' = TRUE
    /\ UNCHANGED <<device, irqLine, freeLists, event_fifo_list, fifo_data,
                   fifo_data_callback, handler, appNode, iterator, draining,
                   delivered, history>>

WriteMask ==
    /\ HostFree
    /\ \/ /\ appPc = "init_mask" /\ appPc' = "wait"
          /\ SetIrq(TRUE, interrupt_status)
       \/ /\ appPc = "deinit_mask" /\ appPc' = "deinit_irq_callback"
          /\ SetIrq(FALSE, interrupt_status)
    /\ UNCHANGED <<device, freeLists, event_fifo_list, fifo_data, callbacks,
                   handler, appNode, iterator, draining, delivered, history>>

AppCloses ==
    /\ MayClose /\ appPc = "wait" /\ ~draining /\ appPc' = "deinit_mask"
    /\ reopened' = TRUE
    /\ UNCHANGED <<device, irqLine, freeLists, event_fifo_list, fifo_data,
                   callbacks, handler, appNode, iterator, draining, delivered,
                   failures>>

UnregisterInterruptCallback ==
    /\ appPc = "deinit_irq_callback" /\ appPc' = "deinit_fifo_callback"
    /\ interrupt_callback' = FALSE
    /\ UNCHANGED <<device, irqLine, freeLists, event_fifo_list, fifo_data,
                   fifo_data_callback, handler, appNode, iterator, draining,
                   delivered, history>>

UnregisterFifoCallback ==
    /\ appPc = "deinit_fifo_callback" /\ appPc' = "closed"
    /\ fifo_data_callback' = FALSE
    /\ UNCHANGED <<device, irqLine, freeLists, event_fifo_list, fifo_data,
                   interrupt_callback, handler, appNode, iterator, draining,
                   delivered, history>>

(* ex10_discard_packets(): peek and remove until there is no packet.       *)
AppDrains ==
    /\ appPc = "closed" /\ event_fifo_list # <<>>
    /\ appPc' = "peek" /\ draining' = TRUE
    /\ UNCHANGED <<device, irqLine, freeLists, event_fifo_list, fifo_data,
                   callbacks, handler, appNode, iterator, delivered, history>>

-----------------------------------------------------------------------------
(* The packet loop: packet_wait_with_timeout(), packet_peek(), use of the  *)
(* packet, packet_remove().                                                *)
PacketWait ==
    /\ appPc = "wait"
    /\ event_packets_iterator # NoNode \/ event_fifo_list # <<>>
    /\ appPc' = "peek"
    /\ UNCHANGED <<device, irqLine, freeLists, event_fifo_list, fifo_data,
                   callbacks, handler, appNode, iterator, draining, delivered,
                   history>>

(* parse_next_event_fifo_packet(), its second half: start on the front     *)
(* node, or have no packet.                                                *)
StartFrontNode ==
    IF event_fifo_list = <<>>
    THEN /\ event_packets_iterator' = NoNode
         /\ iterator_left' = <<>> /\ UNCHANGED event_packet
    ELSE /\ event_packets_iterator' = Head(event_fifo_list)
         /\ event_packet' = Head(fifo_data[Head(event_fifo_list)])
         /\ iterator_left' = Tail(fifo_data[Head(event_fifo_list)])

(* A mistake: the node is free for refilling as soon as it is parsed. *)
PacketPeekReleasing ==
    /\ appPc = "peek"
    /\ IF event_packets_iterator = NoNode THEN StartFrontNode
                                          ELSE UNCHANGED iterator
    /\ event_fifo_free_list' = event_fifo_free_list
            \cup (EventBuffers \cap {event_packets_iterator'})
    /\ IF event_packets_iterator' # NoNode
       THEN appPc' = "remove" /\ UNCHANGED draining
       ELSE appPc' = (IF draining THEN "closed" ELSE "wait") /\ draining' = FALSE
    /\ UNCHANGED <<device, irqLine, result_free_list, event_fifo_list,
                   fifo_data, callbacks, handler, appNode, delivered, history>>

PacketPeek ==
    /\ appPc = "peek"
    /\ IF event_packets_iterator = NoNode THEN StartFrontNode
                                          ELSE UNCHANGED iterator
    /\ IF event_packets_iterator' # NoNode
       THEN appPc' = "remove" /\ UNCHANGED draining
       ELSE appPc' = (IF draining THEN "closed" ELSE "wait") /\ draining' = FALSE
    /\ UNCHANGED <<device, irqLine, freeLists, event_fifo_list, fifo_data,
                   callbacks, handler, appNode, delivered, history>>

AfterRemove == IF draining THEN "peek" ELSE "wait"

Consumed == IF event_packet = Ex10ResultPacket THEN delivered ELSE event_packet

(* packet_remove(): the next packet of this node, or on to the pop.        *)
PacketRemove ==
    /\ appPc = "remove"
    /\ delivered' = Consumed
    /\ IF iterator_left # <<>>
       THEN /\ event_packet' = Head(iterator_left)
            /\ iterator_left' = Tail(iterator_left)
            /\ appPc' = AfterRemove
       ELSE appPc' = "pop" /\ UNCHANGED <<event_packet, iterator_left>>
    /\ UNCHANGED <<device, irqLine, freeLists, event_fifo_list, fifo_data,
                   callbacks, handler, appNode, event_packets_iterator,
                   draining, history>>

(* event_fifo_buffer_pop(): pop the node, release it, restart the reading  *)
(* if there was no free buffer before.                                     *)
PopFront ==
    /\ appPc = "pop" /\ appPc' = "release"
    /\ appNode' = Head(event_fifo_list)
    /\ event_fifo_list' = Tail(event_fifo_list)
    /\ UNCHANGED <<device, irqLine, freeLists, fifo_data, callbacks, handler,
                   iterator, draining, delivered, history>>

ReleaseNode ==
    /\ appPc = "release"
    /\ Release(appNode)
    /\ appPc' = IF WasEmpty(appNode) THEN "insert" ELSE "next"
    /\ appNode' = NoNode
    /\ UNCHANGED <<device, irqLine, event_fifo_list, callbacks, handler,
                   iterator, draining, delivered, history>>

(* A mistake: insert_fifo_event(false, NULL). *)
InsertWithoutIrq ==
    /\ appPc = "insert" /\ HostFree /\ appPc' = "next"
    /\ UNCHANGED <<device, irqLine, freeLists, event_fifo_list, fifo_data,
                   callbacks, handler, appNode, iterator, draining, delivered,
                   history>>

(* insert_fifo_event(true, NULL): the Ex10 raises an interrupt.            *)
InsertFifoEvent ==
    /\ appPc = "insert" /\ HostFree /\ appPc' = "next"
    /\ SetIrq(interrupt_mask, TRUE)
    /\ UNCHANGED <<device, freeLists, event_fifo_list, fifo_data, callbacks,
                   handler, appNode, iterator, draining, delivered, history>>

(* The command fails: its error is queued. *)
InsertFifoEventFails ==
    /\ appPc = "insert" /\ HostFree /\ appPc' = "next"
    /\ MayFail /\ QueueError
    /\ UNCHANGED <<device, irqLine, event_fifo_free_list, callbacks, handler,
                   appNode, iterator, draining, delivered>>

NextNode ==
    /\ appPc = "next" /\ appPc' = AfterRemove
    /\ StartFrontNode
    /\ UNCHANGED <<device, irqLine, freeLists, event_fifo_list, fifo_data,
                   callbacks, handler, appNode, draining, delivered, history>>

-----------------------------------------------------------------------------
HandlerStep ==
    \/ HandlerEnters \/ HandlerReadsStatus \/ HandlerReadFails
    \/ HandlerCallsBack \/ HandlerGetsBuffer \/ HandlerReadsFifo
    \/ HandlerReadFifoFails \/ HandlerMakesResult \/ HandlerDelivers
    \/ HandlerReturns

PacketLoop ==
    \/ PacketWait \/ PacketPeek \/ PacketRemove \/ PopFront \/ ReleaseNode
    \/ NextNode

HostCommand == WriteMask \/ InsertFifoEvent \/ InsertFifoEventFails

Lifecycle ==
    \/ AppOpens \/ InitQueue \/ RegisterFifoCallback
    \/ RegisterInterruptCallback \/ UnregisterInterruptCallback
    \/ UnregisterFifoCallback \/ AppDrains

Next ==
    \/ DeviceEmits \/ HandlerStep \/ PacketLoop \/ HostCommand
    \/ Lifecycle \/ AppCloses

(* Both threads run.  A host command of the application waits for the      *)
(* handler's lock; the handler, once idle, has to be woken by a new edge,  *)
(* and the kernel hands a released mutex to the thread that waits for it.  *)
(* Nothing makes the application close the use case.                       *)
Fairness ==
    /\ WF_vars(HandlerStep) /\ WF_vars(PacketLoop) /\ SF_vars(HostCommand)
    /\ WF_vars(Lifecycle)

Spec == Init /\ [][Next]_vars /\ Fairness

-----------------------------------------------------------------------------
(* Types of the device's, the pools', the queue's and the threads' state. *)
Packets == 0..MaxPackets

TypeOK ==
    /\ event_fifo \in Seq(Packets) /\ emitted \in Packets
    /\ interrupt_status \in BOOLEAN /\ interrupt_mask \in BOOLEAN
    /\ irq_pending \in BOOLEAN
    /\ event_fifo_free_list \subseteq EventBuffers
    /\ result_free_list \subseteq ResultBuffers
    /\ event_fifo_list \in Seq(Nodes)
    /\ fifo_data \in [Nodes -> Seq(Packets)]
    /\ interrupt_callback \in BOOLEAN /\ fifo_data_callback \in BOOLEAN
    /\ irqPc \in {"idle", "status", "callback", "get_buffer", "read",
                  "result", "deliver", "return"}
    /\ irqNode \in Nodes \cup {NoNode} /\ num_bytes \in Nat
    /\ appPc \in {"closed", "init_queue", "init_fifo_callback",
                  "init_irq_callback", "init_mask", "wait", "peek", "remove",
                  "pop", "release", "insert", "next", "deinit_mask",
                  "deinit_irq_callback", "deinit_fifo_callback"}
    /\ appNode \in Nodes \cup {NoNode}
    /\ event_packets_iterator \in Nodes \cup {NoNode}
    /\ iterator_left \in Seq(Packets) /\ event_packet \in Packets
    /\ draining \in BOOLEAN /\ delivered \in Packets
    /\ failures \in 0..MaxFailures /\ reopened \in BOOLEAN

Queued == ToSet(event_fifo_list)
Held == {irqNode, appNode} \ {NoNode}

(* A buffer node is in one place at a time - a free list, the queue, the   *)
(* monitor thread's or the application's hands: no node is filled while    *)
(* the application parses it or is freed twice, on any path through a      *)
(* failed read, a missing consumer or a restart.                           *)
NodesAreNotShared ==
    /\ event_fifo_free_list \cap Queued = {} /\ event_fifo_free_list \cap Held = {}
    /\ result_free_list \cap Queued = {} /\ result_free_list \cap Held = {}
    /\ Queued \cap Held = {}
    /\ IsInjective(event_fifo_list)
    /\ irqNode = appNode => irqNode = NoNode

(* No buffer node leaks: the pools are static, a lost node is lost until   *)
(* the next boot.  Ex10EventFifoQueue.init() drops what is queued (ex10_   *)
(* event_fifo_queue.c:48), so this needs the callers to drain first.       *)
NoNodeLeaks ==
    Nodes = event_fifo_free_list \cup result_free_list \cup Queued \cup Held

(* The bytes that packet_peek() points into stay as they are until         *)
(* packet_remove() (ex10_event_fifo_queue.h:54-57): no step of the monitor *)
(* thread or of the application refills the node being parsed.             *)
PacketIsStable ==
    [][ event_packets_iterator # NoNode /\ appPc \in {"wait", "peek", "remove"} =>
            fifo_data'[event_packets_iterator] = fifo_data[event_packets_iterator]
      ]_vars

(* The Ex10 raises no second interrupt for events it already reported.  So *)
(* if nothing has failed and the use case has stayed open, its FIFO is at  *)
(* the threshold and nobody is on the way to read it, then the reading is  *)
(* stopped for want of a buffer, and a queued event buffer, whose release  *)
(* restarts it, exists.                                                    *)
Undisturbed == failures = 0 /\ ~reopened

NoStranded ==
    Undisturbed /\ interrupt_mask /\ interrupt_callback /\ irqPc = "idle"
        /\ ~irq_pending
        /\ Len(event_fifo) >= FifoThreshold /\ event_fifo # <<>> =>
        \/ appPc = "insert"
        \/ event_fifo_free_list = {} /\ (Queued \cup Held) \cap EventBuffers # {}

(* Every packet that the Ex10 emits is consumed by the application, over   *)
(* any number of times that the pool runs empty and the reading stops,     *)
(* unless a command fails or the use case is closed; and nothing is ever   *)
(* stranded.                                                               *)
AllDelivered ==
    /\ [][NoStranded']_vars
    /\ \A k \in 1..MaxPackets :
        emitted = k ~> (delivered >= k \/ ~Undisturbed)

-----------------------------------------------------------------------------
(* The path is an EventStream: what was emitted and not consumed is the    *)
(* packet at hand, the rest of its node, the queued nodes, the node that   *)
(* the monitor thread has just filled, and the device's FIFO.  They hand   *)
(* the packets on in the order of emission, none twice.                    *)
Unparsed ==
    IF event_packets_iterator = NoNode \/ appPc \in {"release", "insert", "next"}
    THEN event_fifo_list ELSE Tail(event_fifo_list)

AtHand ==
    IF event_packets_iterator = NoNode
        \/ appPc \in {"pop", "release", "insert", "next"}
    THEN <<>> ELSE <<event_packet>> \o iterator_left

Filled == IF irqPc = "deliver" THEN fifo_data[irqNode] ELSE <<>>

OnTheWay ==
    ToSet(AtHand) \cup (UNION {ToSet(fifo_data[node]) : node \in ToSet(Unparsed)})
        \cup ToSet(Filled) \cup ToSet(event_fifo)

Stream == INSTANCE EventStream WITH
    stream <- OnTheWay \ {Ex10ResultPacket}, MayLose <- MaxFailures > 0 \/ MayClose

ImplementsStream == Stream!SafetySpec
=============================================================================
