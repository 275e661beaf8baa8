-------------------------- MODULE EventPipelineProofs --------------------------
(***************************************************************************)
(* Proofs about EventPipeline.  NodeInv is inductive for any pools, sizes, *)
(* failures and behaviour of the application: what the program counters    *)
(* say about the nodes in hand, where the iterator points, and that queued *)
(* nodes hold packets, are what NodesAreNotShared needs to be inductive.   *)
(* ClosedIsQuiet adds what NoNodeLeaks needs when the application drains   *)
(* the queue before it opens a use case.                                   *)
(* StrandInv says why the reading of the FIFO goes on while nothing fails  *)
(* or closes, and InOrder where the packets are that EventStream speaks of.*)
(***************************************************************************)
EXTENDS EventPipeline, SequenceTheorems, WellFoundedInduction, TLAPS

(* A thread has a node in hand at these places, and only there. *)
HandsMatch ==
    /\ irqNode # NoNode <=> irqPc \in {"read", "deliver"}
    /\ appNode # NoNode <=> appPc = "release"

(* The application parses the node at the front of the queue. *)
IteratorIsFront ==
    /\ appPc \in {"remove", "pop"} => event_packets_iterator # NoNode
    /\ event_packets_iterator # NoNode /\ appPc \notin {"release", "insert", "next"} =>
            /\ event_fifo_list # <<>>
            /\ event_packets_iterator = Head(event_fifo_list)

(* No empty node is queued: its parsing would read past its end. *)
DataIsThere ==
    /\ \A node \in Queued : fifo_data[node] # <<>>
    /\ irqPc = "deliver" => fifo_data[irqNode] # <<>>

(* The level that was read is still there to be read: nobody else reads.   *)
ReadFits ==
    /\ irqPc \in {"callback", "get_buffer", "read"} => num_bytes <= Len(event_fifo)
    /\ irqPc \in {"get_buffer", "read"} => num_bytes > 0

NodeInv ==
    /\ TypeOK /\ HandsMatch /\ NodesAreNotShared
    /\ IteratorIsFront /\ DataIsThere /\ ReadFits

-----------------------------------------------------------------------------
(* What the proofs need of sequences without repetition. *)

(* An empty list has no elements, and none twice. *)
LEMMA EmptyElements == ToSet(<<>>) = {} /\ IsInjective(<<>>)
BY DEF ToSet, IsInjective

(* A node that is appended joins the list's elements. *)
LEMMA AppendElements ==
    ASSUME NEW S, NEW list \in Seq(S), NEW node \in S
    PROVE  /\ Append(list, node) \in Seq(S)
           /\ ToSet(Append(list, node)) = ToSet(list) \cup {node}
           /\ IsInjective(list) /\ node \notin ToSet(list)
                => IsInjective(Append(list, node))
<1> DEFINE longer == Append(list, node)
<1>1. /\ Len(list) \in Nat /\ DOMAIN list = 1..Len(list)
      /\ longer \in Seq(S)
      /\ DOMAIN longer = 1..(Len(list) + 1)
      /\ \A i \in 1..Len(list) : longer[i] = list[i]
      /\ longer[Len(list) + 1] = node
  OBVIOUS
<1> HIDE DEF longer
<1>2. \A i \in 1..(Len(list) + 1) : i \in 1..Len(list) \/ i = Len(list) + 1
  BY <1>1
<1>3. ToSet(longer) = ToSet(list) \cup {node}
  <2>1. \A x \in ToSet(longer) : x \in ToSet(list) \cup {node}
    BY <1>1, <1>2 DEF ToSet
  <2>2. \A x \in ToSet(list) \cup {node} : x \in ToSet(longer)
    BY <1>1 DEF ToSet
  <2>3. QED
    BY <2>1, <2>2
<1>4. ASSUME IsInjective(list), node \notin ToSet(list)
      PROVE  IsInjective(longer)
  BY <1>1, <1>2, <1>4 DEF ToSet, IsInjective
<1>5. QED
  BY <1>1, <1>3, <1>4 DEF longer

(* A node that is popped leaves them. *)
LEMMA TailElements ==
    ASSUME NEW S, NEW list \in Seq(S), list # <<>>, IsInjective(list)
    PROVE  /\ Head(list) \in S /\ Tail(list) \in Seq(S)
           /\ Head(list) \in ToSet(list)
           /\ ToSet(Tail(list)) = ToSet(list) \ {Head(list)}
           /\ IsInjective(Tail(list))
<1> DEFINE first == Head(list)
           rest == Tail(list)
<1>1. /\ Len(list) \in Nat \ {0} /\ DOMAIN list = 1..Len(list)
      /\ first = list[1] /\ first \in S /\ rest \in Seq(S)
      /\ DOMAIN rest = 1..(Len(list) - 1)
      /\ \A i \in 1..(Len(list) - 1) : rest[i] = list[i + 1]
  OBVIOUS
<1> HIDE DEF first, rest
<1>2. \A i \in 1..Len(list) : i = 1 \/ i - 1 \in 1..(Len(list) - 1)
  BY <1>1
<1>3. ToSet(rest) = ToSet(list) \ {first}
  <2>1. \A x \in ToSet(rest) : x \in ToSet(list) /\ x # first
    BY <1>1 DEF ToSet, IsInjective
  <2>2. ASSUME NEW i \in 1..Len(list), list[i] # first
        PROVE  list[i] \in ToSet(rest)
    <3>1. i # 1
      BY <1>1, <2>2
    <3>2. i - 1 \in 1..(Len(list) - 1) /\ rest[i - 1] = list[i]
      BY <1>1, <1>2, <3>1
    <3>3. QED
      BY <1>1, <3>2 DEF ToSet
  <2>3. QED
    BY <1>1, <2>1, <2>2 DEF ToSet
<1>4. IsInjective(rest)
  <2>1. ASSUME NEW i \in 1..(Len(list) - 1), NEW j \in 1..(Len(list) - 1),
               rest[i] = rest[j]
        PROVE  i = j
    <3>1. i + 1 \in DOMAIN list /\ j + 1 \in DOMAIN list
      BY <1>1
    <3>2. list[i + 1] = list[j + 1]
      BY <1>1, <2>1
    <3>3. QED
      BY <3>1, <3>2 DEF IsInjective
  <2>2. QED
    BY <1>1, <2>1 DEF IsInjective
<1>5. first \in ToSet(list)
  BY <1>1 DEF ToSet
<1>6. QED
  BY <1>1, <1>3, <1>4, <1>5 DEF first, rest

-----------------------------------------------------------------------------
(* A read takes the front of the FIFO and leaves the rest. *)
LEMMA ReadSplits ==
    ASSUME NEW S, NEW list \in Seq(S), NEW n \in Nat, n <= Len(list)
    PROVE  /\ SubSeq(list, 1, n) \in Seq(S) /\ Len(SubSeq(list, 1, n)) = n
           /\ SubSeq(list, n + 1, Len(list)) \in Seq(S)
<1>1. Len(list) \in Nat /\ \A i \in 1..Len(list) : list[i] \in S
  OBVIOUS
<1>2. /\ \A i \in 1..n : list[i] \in S
      /\ \A i \in (n + 1)..Len(list) : list[i] \in S
  BY <1>1
<1>3. SubSeq(list, 1, n) \in Seq(S) /\ Len(SubSeq(list, 1, n)) = n
  BY <1>2, SubSeqProperties
<1>4. SubSeq(list, n + 1, Len(list)) \in Seq(S)
  BY <1>1, <1>2, SubSeqProperties
<1>5. QED
  BY <1>3, <1>4

(* A change of mask and status keeps the line's types. *)
LEMMA SetIrqTypes ==
    ASSUME NEW mask \in BOOLEAN, NEW status \in BOOLEAN,
           irq_pending \in BOOLEAN, SetIrq(mask, status)
    PROVE  /\ interrupt_mask' \in BOOLEAN /\ interrupt_status' \in BOOLEAN
           /\ irq_pending' \in BOOLEAN
BY Zenon DEF SetIrq


(* An error report is a sequence of packets. *)
LEMMA ErrorIsPacket == <<Ex10ResultPacket>> \in Seq(Packets)
BY SizesAreNatural DEF Packets, Ex10ResultPacket

(* An append leaves the front of the queue alone. *)
LEMMA AppendFront ==
    ASSUME NEW S, NEW list \in Seq(S), NEW node
    PROVE  /\ Append(list, node) # <<>>
           /\ list # <<>> => Head(Append(list, node)) = Head(list)
<1>1. list \in Seq(S \cup {node})
  BY IsASeq, LenProperties
<1>2. Append(list, node) # <<>>
  BY <1>1, AppendProperties
<1>3. QED
  BY <1>2, HeadTailAppend

(* What QueueError leaves behind is well typed. *)
LEMMA QueueErrorTypes ==
    ASSUME TypeOK, QueueError
    PROVE  /\ result_free_list' \subseteq ResultBuffers
           /\ event_fifo_list' \in Seq(Nodes)
           /\ fifo_data' \in [Nodes -> Seq(Packets)]
<1>1. ASSUME NEW node \in result_free_list,
             result_free_list' = result_free_list \ {node},
             fifo_data' = [fifo_data EXCEPT ![node] = <<Ex10ResultPacket>>],
             event_fifo_list' = Append(event_fifo_list, node)
      PROVE  /\ result_free_list' \subseteq ResultBuffers
             /\ event_fifo_list' \in Seq(Nodes)
             /\ fifo_data' \in [Nodes -> Seq(Packets)]
  <2>1. node \in Nodes
    BY DEF TypeOK, Nodes
  <2>2. event_fifo_list' \in Seq(Nodes)
    BY <1>1, <2>1, AppendProperties DEF TypeOK
  <2>3. fifo_data' \in [Nodes -> Seq(Packets)]
    BY <1>1, ErrorIsPacket DEF TypeOK
  <2>4. QED
    BY <1>1, <2>2, <2>3 DEF TypeOK
<1>2. QED
  BY <1>1 DEF QueueError, TypeOK

(* The packet that the Ex10 emits next is in range. *)
LEMMA EmittedIsPacket ==
    emitted \in Packets /\ emitted < MaxPackets => emitted + 1 \in Packets
BY SizesAreNatural DEF Packets

(* A released node goes back, empty, to the free list of its pool. *)
LEMMA ReleaseTypes ==
    ASSUME TypeOK, NEW node \in Nodes, Release(node)
    PROVE  /\ fifo_data' \in [Nodes -> Seq(Packets)]
           /\ event_fifo_free_list' \subseteq EventBuffers
           /\ result_free_list' \subseteq ResultBuffers
<1>1. fifo_data' = [fifo_data EXCEPT ![node] = <<>>]
  BY DEF Release
<1>2. fifo_data' \in [Nodes -> Seq(Packets)]
  BY <1>1 DEF TypeOK
<1>3. QED
  BY <1>2 DEF Release, TypeOK, Nodes

(* The iterator's types after it started on the front node. *)
LEMMA StartTypes ==
    ASSUME TypeOK, DataIsThere, StartFrontNode
    PROVE  /\ event_packets_iterator' \in Nodes \cup {NoNode}
           /\ iterator_left' \in Seq(Packets) /\ event_packet' \in Packets
<1>1. CASE event_fifo_list = <<>>
  BY <1>1 DEF StartFrontNode, TypeOK
<1>2. CASE event_fifo_list # <<>>
  <2> DEFINE front == Head(event_fifo_list)
  <2>1. front \in Nodes /\ front \in Queued
    BY <1>2, HeadTailProperties DEF TypeOK, Queued, ToSet
  <2>2. fifo_data[front] \in Seq(Packets) /\ fifo_data[front] # <<>>
    BY <2>1 DEF TypeOK, DataIsThere
  <2>3. /\ event_packets_iterator' = front
        /\ event_packet' = Head(fifo_data[front])
        /\ iterator_left' = Tail(fifo_data[front])
    BY <1>2 DEF StartFrontNode
  <2>4. QED
    BY <2>1, <2>2, <2>3, HeadTailProperties
<1>3. QED
  BY <1>1, <1>2

-----------------------------------------------------------------------------
(* A node in hand goes with the places of its thread. *)
LEMMA HandsStep == TypeOK /\ IteratorIsFront /\ HandsMatch /\ [Next]_vars =>
     HandsMatch'
<1> SUFFICES ASSUME TypeOK /\ IteratorIsFront /\ HandsMatch, [Next]_vars PROVE
     HandsMatch'
  OBVIOUS
<1> USE PoolsAreDisjoint DEF TypeOK, HandsMatch, Nodes, device, irqLine,
     freeLists, callbacks, handler, iterator, app
<1>1. CASE DeviceEmits
  BY <1>1 DEF DeviceEmits, SetIrq
<1>2. CASE HandlerEnters
  BY <1>2 DEF HandlerEnters
<1>3. CASE HandlerReadsStatus
  BY <1>3 DEF HandlerReadsStatus, SetIrq
<1>4. CASE HandlerReadFails
  BY <1>4 DEF HandlerReadFails, MayFail, SetIrq, QueueError
<1>5. CASE HandlerCallsBack
  BY <1>5 DEF HandlerCallsBack, SetIrq
<1>6. CASE HandlerGetsBuffer
  BY <1>6 DEF HandlerGetsBuffer
<1>7. CASE HandlerReadsFifo
  BY <1>7 DEF HandlerReadsFifo
<1>8. CASE HandlerReadFifoFails
  BY <1>8 DEF HandlerReadFifoFails, Release, MayFail
<1>9. CASE HandlerMakesResult
  BY <1>9 DEF HandlerMakesResult
<1>10. CASE HandlerDelivers
  BY <1>10 DEF HandlerDelivers, Release
<1>11. CASE HandlerReturns
  BY <1>11 DEF HandlerReturns
<1>12. CASE AppOpens
  BY <1>12 DEF AppOpens
<1>13. CASE InitQueue
  BY <1>13 DEF InitQueue
<1>14. CASE RegisterFifoCallback
  BY <1>14 DEF RegisterFifoCallback
<1>15. CASE RegisterInterruptCallback
  BY <1>15 DEF RegisterInterruptCallback
<1>16. CASE WriteMask
  BY <1>16 DEF WriteMask, SetIrq, HostFree
<1>17. CASE AppCloses
  BY <1>17 DEF AppCloses
<1>18. CASE UnregisterInterruptCallback
  BY <1>18 DEF UnregisterInterruptCallback
<1>19. CASE UnregisterFifoCallback
  BY <1>19 DEF UnregisterFifoCallback
<1>20. CASE AppDrains
  BY <1>20 DEF AppDrains
<1>21. CASE PacketWait
  BY <1>21 DEF PacketWait
<1>22. CASE PacketPeek
  BY <1>22 DEF PacketPeek, StartFrontNode
<1>23. CASE PacketRemove
  BY <1>23 DEF PacketRemove, AfterRemove, Consumed
<1>24. CASE PopFront
  <2>1. Head(event_fifo_list) \in Nodes
    BY <1>24, HeadTailProperties DEF PopFront, IteratorIsFront
  <2>2. QED
    BY <1>24, <2>1 DEF PopFront
<1>25. CASE ReleaseNode
  BY <1>25 DEF ReleaseNode, Release, WasEmpty
<1>26. CASE InsertFifoEvent
  BY <1>26 DEF InsertFifoEvent, SetIrq, HostFree
<1>27. CASE InsertFifoEventFails
  BY <1>27 DEF InsertFifoEventFails, MayFail, QueueError
<1>28. CASE NextNode
  BY <1>28 DEF NextNode, StartFrontNode, AfterRemove
<1>29. CASE UNCHANGED vars
  BY <1>29 DEF vars
<1>30. QED
  BY <1>1, <1>2, <1>3, <1>4, <1>5, <1>6, <1>7, <1>8, <1>9, <1>10, <1>11,
     <1>12, <1>13, <1>14, <1>15, <1>16, <1>17, <1>18, <1>19, <1>20, <1>21,
     <1>22, <1>23, <1>24, <1>25, <1>26, <1>27, <1>28, <1>29 DEF Next,
     HandlerStep, PacketLoop, HostCommand, Lifecycle

(* The iterator stays on the front node: only the application pops. *)
LEMMA FrontStep == TypeOK /\ IteratorIsFront /\ [Next]_vars => IteratorIsFront'
<1> SUFFICES ASSUME TypeOK /\ IteratorIsFront, [Next]_vars PROVE
     IteratorIsFront'
  OBVIOUS
<1> USE PoolsAreDisjoint DEF TypeOK, IteratorIsFront, Nodes, device, irqLine,
     freeLists, callbacks, handler, iterator, app
<1>1. CASE DeviceEmits
  BY <1>1 DEF DeviceEmits, SetIrq
<1>2. CASE HandlerEnters
  BY <1>2 DEF HandlerEnters
<1>3. CASE HandlerReadsStatus
  BY <1>3 DEF HandlerReadsStatus, SetIrq
<1>4. CASE HandlerReadFails
  BY <1>4, AppendFront DEF HandlerReadFails, MayFail, SetIrq, QueueError
<1>5. CASE HandlerCallsBack
  BY <1>5 DEF HandlerCallsBack, SetIrq
<1>6. CASE HandlerGetsBuffer
  BY <1>6 DEF HandlerGetsBuffer
<1>7. CASE HandlerReadsFifo
  BY <1>7 DEF HandlerReadsFifo
<1>8. CASE HandlerReadFifoFails
  BY <1>8 DEF HandlerReadFifoFails, Release, MayFail
<1>9. CASE HandlerMakesResult
  BY <1>9 DEF HandlerMakesResult
<1>10. CASE HandlerDelivers
  BY <1>10, AppendFront DEF HandlerDelivers, Release
<1>11. CASE HandlerReturns
  BY <1>11 DEF HandlerReturns
<1>12. CASE AppOpens
  BY <1>12 DEF AppOpens
<1>13. CASE InitQueue
  BY <1>13 DEF InitQueue
<1>14. CASE RegisterFifoCallback
  BY <1>14 DEF RegisterFifoCallback
<1>15. CASE RegisterInterruptCallback
  BY <1>15 DEF RegisterInterruptCallback
<1>16. CASE WriteMask
  BY <1>16 DEF WriteMask, SetIrq, HostFree
<1>17. CASE AppCloses
  BY <1>17 DEF AppCloses
<1>18. CASE UnregisterInterruptCallback
  BY <1>18 DEF UnregisterInterruptCallback
<1>19. CASE UnregisterFifoCallback
  BY <1>19 DEF UnregisterFifoCallback
<1>20. CASE AppDrains
  BY <1>20 DEF AppDrains
<1>21. CASE PacketWait
  BY <1>21 DEF PacketWait
<1>22. CASE PacketPeek
  BY <1>22 DEF PacketPeek, StartFrontNode
<1>23. CASE PacketRemove
  BY <1>23 DEF PacketRemove, AfterRemove, Consumed
<1>24. CASE PopFront
  BY <1>24 DEF PopFront
<1>25. CASE ReleaseNode
  BY <1>25 DEF ReleaseNode, Release, WasEmpty
<1>26. CASE InsertFifoEvent
  BY <1>26 DEF InsertFifoEvent, SetIrq, HostFree
<1>27. CASE InsertFifoEventFails
  BY <1>27 DEF InsertFifoEventFails, MayFail, QueueError
<1>28. CASE NextNode
  BY <1>28 DEF NextNode, StartFrontNode, AfterRemove
<1>29. CASE UNCHANGED vars
  BY <1>29 DEF vars
<1>30. QED
  BY <1>1, <1>2, <1>3, <1>4, <1>5, <1>6, <1>7, <1>8, <1>9, <1>10, <1>11,
     <1>12, <1>13, <1>14, <1>15, <1>16, <1>17, <1>18, <1>19, <1>20, <1>21,
     <1>22, <1>23, <1>24, <1>25, <1>26, <1>27, <1>28, <1>29 DEF Next,
     HandlerStep, PacketLoop, HostCommand, Lifecycle

(* Every step keeps the types. *)
LEMMA TypeStep == NodeInv /\ [Next]_vars => TypeOK'
<1> SUFFICES ASSUME NodeInv, [Next]_vars PROVE TypeOK'
  OBVIOUS
<1>a. TypeOK
  BY DEF NodeInv
<1>b. HandsMatch /\ IteratorIsFront /\ ReadFits /\ DataIsThere
  BY DEF NodeInv
<1> USE <1>a DEF TypeOK, device, irqLine, freeLists, callbacks, handler,
     iterator, app, history
<1>1. CASE DeviceEmits
  <2>1. /\ interrupt_mask' \in BOOLEAN /\ interrupt_status' \in BOOLEAN
        /\ irq_pending' \in BOOLEAN
    BY <1>1, SetIrqTypes DEF DeviceEmits
  <2>2. event_fifo' \in Seq(Packets) /\ emitted' \in Packets
    BY <1>1, EmittedIsPacket, AppendProperties DEF DeviceEmits
  <2>3. QED
    BY <1>1, <2>1, <2>2 DEF DeviceEmits
<1>2. CASE HandlerEnters
  <2>1. irq_pending' \in BOOLEAN
    BY <1>2 DEF HandlerEnters
  <2>2. QED
    BY <1>2, <2>1 DEF HandlerEnters
<1>3. CASE HandlerReadsStatus
  <2>1. /\ interrupt_mask' \in BOOLEAN /\ interrupt_status' \in BOOLEAN
        /\ irq_pending' \in BOOLEAN
    BY <1>3, SetIrqTypes DEF HandlerReadsStatus
  <2>2. QED
    BY <1>3, <2>1 DEF HandlerReadsStatus
<1>4. CASE HandlerReadFails
  <2>1. /\ interrupt_mask' \in BOOLEAN /\ interrupt_status' \in BOOLEAN
        /\ irq_pending' \in BOOLEAN
    BY <1>4, SetIrqTypes DEF HandlerReadFails
  <2>2. failures' \in 0..MaxFailures /\ reopened' = reopened
    BY <1>4, SizesAreNatural DEF HandlerReadFails, MayFail
  <2>3. /\ result_free_list' \subseteq ResultBuffers
        /\ event_fifo_list' \in Seq(Nodes)
        /\ fifo_data' \in [Nodes -> Seq(Packets)]
    BY <1>4, QueueErrorTypes DEF HandlerReadFails
  <2>4. QED
    BY <1>4, <2>1, <2>2, <2>3 DEF HandlerReadFails
<1>5. CASE HandlerCallsBack
  <2>1. /\ interrupt_mask' \in BOOLEAN /\ interrupt_status' \in BOOLEAN
        /\ irq_pending' \in BOOLEAN
    BY <1>5, SetIrqTypes DEF HandlerCallsBack
  <2>2. event_fifo' \in Seq(Packets) /\ emitted' \in Packets
    <3>1. CASE UNCHANGED device
      BY <3>1
    <3>2. CASE /\ emitted < MaxPackets /\ emitted' = emitted + 1
               /\ event_fifo' = Append(event_fifo, emitted + 1)
      BY <3>2, EmittedIsPacket, AppendProperties
    <3>3. QED
      BY <1>5, <3>1, <3>2 DEF HandlerCallsBack
  <2>3. QED
    BY <1>5, <2>1, <2>2 DEF HandlerCallsBack
<1>6. CASE HandlerGetsBuffer
  BY <1>6 DEF HandlerGetsBuffer, Nodes
<1>7. CASE HandlerReadsFifo
  <2>1. /\ SubSeq(event_fifo, 1, num_bytes) \in Seq(Packets)
        /\ SubSeq(event_fifo, num_bytes + 1, Len(event_fifo)) \in Seq(Packets)
    BY <1>7, <1>b, ReadSplits DEF HandlerReadsFifo, ReadFits
  <2>2. fifo_data' \in [Nodes -> Seq(Packets)] /\ event_fifo' \in Seq(Packets)
    BY <1>7, <2>1 DEF HandlerReadsFifo
  <2>3. QED
    BY <1>7, <2>1, <2>2 DEF HandlerReadsFifo
<1>8. CASE HandlerReadFifoFails
  <2>1. event_fifo' \in Seq(Packets)
    <3>1. SubSeq(event_fifo, num_bytes + 1, Len(event_fifo)) \in Seq(Packets)
      BY <1>8, <1>b, ReadSplits DEF HandlerReadFifoFails, ReadFits
    <3>2. QED
      BY <1>8, <3>1 DEF HandlerReadFifoFails
  <2>2. failures' \in 0..MaxFailures /\ reopened' = reopened
    BY <1>8, SizesAreNatural DEF HandlerReadFifoFails, MayFail
  <2>3. irqNode \in Nodes
    BY <1>8, <1>b, PoolsAreDisjoint DEF HandlerReadFifoFails, HandsMatch, Nodes
  <2>4. /\ fifo_data' \in [Nodes -> Seq(Packets)]
        /\ event_fifo_free_list' \subseteq EventBuffers
        /\ result_free_list' \subseteq ResultBuffers
    BY <1>8, <2>3, ReleaseTypes DEF HandlerReadFifoFails
  <2>5. QED
    BY <1>8, <2>1, <2>2, <2>4 DEF HandlerReadFifoFails
<1>9. CASE HandlerMakesResult
  <2>1. fifo_data' \in [Nodes -> Seq(Packets)]
    BY <1>9, ErrorIsPacket DEF HandlerMakesResult
  <2>2. irqNode' \in Nodes \cup {NoNode} /\ result_free_list' \subseteq
     ResultBuffers
    BY <1>9 DEF HandlerMakesResult, Nodes
  <2>3. QED
    BY <1>9, <2>1, <2>2 DEF HandlerMakesResult
<1>10. CASE HandlerDelivers
  <2>1. irqNode \in Nodes
    BY <1>10, <1>b, PoolsAreDisjoint DEF HandlerDelivers, HandsMatch, Nodes
  <2>2. CASE fifo_data_callback
    <3>1. event_fifo_list' = Append(event_fifo_list, irqNode)
      BY <1>10, <2>2 DEF HandlerDelivers
    <3>2. event_fifo_list' \in Seq(Nodes)
      BY <2>1, <3>1, AppendProperties
    <3>3. QED
      BY <1>10, <2>2, <3>2 DEF HandlerDelivers
  <2>3. CASE ~fifo_data_callback
    <3>1. /\ fifo_data' \in [Nodes -> Seq(Packets)]
          /\ event_fifo_free_list' \subseteq EventBuffers
          /\ result_free_list' \subseteq ResultBuffers
      BY <1>10, <2>1, <2>3, ReleaseTypes DEF HandlerDelivers
    <3>2. QED
      BY <1>10, <2>3, <3>1 DEF HandlerDelivers
  <2>4. QED
    BY <2>2, <2>3
<1>11. CASE HandlerReturns
  BY <1>11 DEF HandlerReturns
<1>12. CASE AppOpens
  BY <1>12 DEF AppOpens
<1>13. CASE InitQueue
  <2>1. event_fifo_list' \in Seq(Nodes) /\ iterator_left' \in Seq(Packets)
    BY <1>13 DEF InitQueue
  <2>2. event_packet' \in Packets /\ event_packets_iterator' \in Nodes \cup
     {NoNode}
    BY <1>13, SizesAreNatural DEF InitQueue, Packets, Ex10ResultPacket
  <2>3. QED
    BY <1>13, <2>1, <2>2 DEF InitQueue
<1>14. CASE RegisterFifoCallback
  BY <1>14 DEF RegisterFifoCallback
<1>15. CASE RegisterInterruptCallback
  BY <1>15 DEF RegisterInterruptCallback
<1>16. CASE WriteMask
  <2>1. /\ interrupt_mask' \in BOOLEAN /\ interrupt_status' \in BOOLEAN
        /\ irq_pending' \in BOOLEAN
    BY <1>16, SetIrqTypes DEF WriteMask
  <2>2. appPc' \in {"wait", "deinit_irq_callback"}
    BY <1>16 DEF WriteMask
  <2>3. UNCHANGED <<device, freeLists, event_fifo_list, fifo_data, callbacks,
                    handler, appNode, iterator, draining, delivered, history>>
    BY <1>16 DEF WriteMask
  <2>4. QED
    BY <2>1, <2>2, <2>3
<1>17. CASE AppCloses
  BY <1>17 DEF AppCloses
<1>18. CASE UnregisterInterruptCallback
  <2>1. interrupt_callback' \in BOOLEAN
    BY <1>18 DEF UnregisterInterruptCallback
  <2>2. QED
    BY <1>18, <2>1 DEF UnregisterInterruptCallback
<1>19. CASE UnregisterFifoCallback
  <2>1. fifo_data_callback' \in BOOLEAN
    BY <1>19 DEF UnregisterFifoCallback
  <2>2. QED
    BY <1>19, <2>1 DEF UnregisterFifoCallback
<1>20. CASE AppDrains
  BY <1>20 DEF AppDrains
<1>21. CASE PacketWait
  BY <1>21 DEF PacketWait
<1>22. CASE PacketPeek
  <2>1. /\ event_packets_iterator' \in Nodes \cup {NoNode}
        /\ iterator_left' \in Seq(Packets) /\ event_packet' \in Packets
    BY <1>22, <1>b, StartTypes DEF PacketPeek
  <2>2. appPc' \in {"remove", "closed", "wait"} /\ draining' \in BOOLEAN
    BY <1>22 DEF PacketPeek
  <2>3. UNCHANGED <<device, irqLine, freeLists, event_fifo_list, fifo_data,
                    callbacks, handler, appNode, delivered, history>>
    BY <1>22 DEF PacketPeek
  <2>4. QED
    BY <2>1, <2>2, <2>3
<1>23. CASE PacketRemove
  <2>1. iterator_left' \in Seq(Packets) /\ event_packet' \in Packets
    <3>1. CASE iterator_left = <<>>
      BY <1>23, <3>1 DEF PacketRemove
    <3>2. CASE iterator_left # <<>>
      <4>1. Head(iterator_left) \in Packets /\ Tail(iterator_left) \in
     Seq(Packets)
        BY <3>2, HeadTailProperties
      <4>2. /\ event_packet' = Head(iterator_left)
            /\ iterator_left' = Tail(iterator_left)
        BY <1>23, <3>2 DEF PacketRemove
      <4>3. QED
        BY <4>1, <4>2
    <3>3. QED
      BY <3>1, <3>2
  <2>2. delivered' \in Packets
    BY <1>23 DEF PacketRemove, Consumed
  <2>3. QED
    BY <1>23, <2>1, <2>2 DEF PacketRemove, AfterRemove
<1>24. CASE PopFront
  <2>1. event_fifo_list # <<>>
    BY <1>24, <1>b DEF PopFront, IteratorIsFront
  <2>2. event_fifo_list' \in Seq(Nodes) /\ appNode' \in Nodes
    BY <1>24, <2>1, HeadTailProperties DEF PopFront
  <2>3. QED
    BY <1>24, <2>2 DEF PopFront
<1>25. CASE ReleaseNode
  <2>1. appNode \in Nodes
    BY <1>25, <1>b DEF ReleaseNode, HandsMatch
  <2>2. /\ fifo_data' \in [Nodes -> Seq(Packets)]
        /\ event_fifo_free_list' \subseteq EventBuffers
        /\ result_free_list' \subseteq ResultBuffers
    BY <1>25, <2>1, ReleaseTypes DEF ReleaseNode
  <2>3. QED
    BY <1>25, <2>2 DEF ReleaseNode, WasEmpty
<1>26. CASE InsertFifoEvent
  <2>1. /\ interrupt_mask' \in BOOLEAN /\ interrupt_status' \in BOOLEAN
        /\ irq_pending' \in BOOLEAN
    BY <1>26, SetIrqTypes DEF InsertFifoEvent
  <2>2. QED
    BY <1>26, <2>1 DEF InsertFifoEvent
<1>27. CASE InsertFifoEventFails
  <2>1. failures' \in 0..MaxFailures /\ reopened' = reopened
    BY <1>27, SizesAreNatural DEF InsertFifoEventFails, MayFail
  <2>2. /\ result_free_list' \subseteq ResultBuffers
        /\ event_fifo_list' \in Seq(Nodes)
        /\ fifo_data' \in [Nodes -> Seq(Packets)]
    BY <1>27, QueueErrorTypes DEF InsertFifoEventFails
  <2>3. QED
    BY <1>27, <2>1, <2>2 DEF InsertFifoEventFails
<1>28. CASE NextNode
  <2>1. /\ event_packets_iterator' \in Nodes \cup {NoNode}
        /\ iterator_left' \in Seq(Packets) /\ event_packet' \in Packets
    BY <1>28, <1>b, StartTypes DEF NextNode
  <2>2. QED
    BY <1>28, <2>1 DEF NextNode, AfterRemove
<1>29. CASE UNCHANGED vars
  BY <1>29 DEF vars
<1>30. QED
  BY <1>1, <1>2, <1>3, <1>4, <1>5, <1>6, <1>7, <1>8, <1>9, <1>10, <1>11,
     <1>12, <1>13, <1>14, <1>15, <1>16, <1>17, <1>18, <1>19, <1>20, <1>21,
     <1>22, <1>23, <1>24, <1>25, <1>26, <1>27, <1>28, <1>29 DEF Next,
     HandlerStep, PacketLoop, HostCommand, Lifecycle

-----------------------------------------------------------------------------
(* What is queued are nodes. *)
LEMMA QueuedAreNodes == TypeOK => Queued \subseteq Nodes
BY DEF TypeOK, Queued, ToSet

(* The set of queued nodes goes with the queue. *)
LEMMA SameQueue == UNCHANGED event_fifo_list => UNCHANGED Queued
BY DEF Queued

(* QueueError moves at most one node, with data, from the free list to the *)
(* queue.                                                                  *)
LEMMA QueueErrorEffect ==
    ASSUME NodeInv, QueueError
    PROVE  /\ result_free_list' \subseteq result_free_list
           /\ result_free_list' \cup Queued' = result_free_list \cup Queued
           /\ result_free_list' \cap Queued' = {}
           /\ IsInjective(event_fifo_list')
           /\ \A node \in Queued' : fifo_data'[node] # <<>>
           /\ \A node \in Nodes \ result_free_list :
                    fifo_data'[node] = fifo_data[node]
<1>1. CASE UNCHANGED <<result_free_list, fifo_data, event_fifo_list>>
  BY <1>1, SameQueue DEF NodeInv, NodesAreNotShared, DataIsThere
<1>2. ASSUME NEW node \in result_free_list,
             result_free_list' = result_free_list \ {node},
             fifo_data' = [fifo_data EXCEPT ![node] = <<Ex10ResultPacket>>],
             event_fifo_list' = Append(event_fifo_list, node)
      PROVE  /\ result_free_list' \subseteq result_free_list
             /\ result_free_list' \cup Queued' = result_free_list \cup Queued
             /\ result_free_list' \cap Queued' = {}
             /\ IsInjective(event_fifo_list')
             /\ \A other \in Queued' : fifo_data'[other] # <<>>
             /\ \A other \in Nodes \ result_free_list :
                    fifo_data'[other] = fifo_data[other]
  <2>1. node \in Nodes /\ node \notin Queued
    BY DEF NodeInv, TypeOK, Nodes, NodesAreNotShared
  <2>2. Queued' = Queued \cup {node} /\ IsInjective(event_fifo_list')
    BY <1>2, <2>1, AppendElements DEF NodeInv, TypeOK, NodesAreNotShared, Queued
  <2>3. /\ fifo_data'[node] # <<>>
        /\ \A other \in Nodes \ {node} : fifo_data'[other] = fifo_data[other]
    BY <1>2, <2>1 DEF NodeInv, TypeOK
  <2>4. Queued \subseteq Nodes /\ \A other \in Queued : fifo_data[other] # <<>>
    BY QueuedAreNodes DEF NodeInv, DataIsThere
  <2>5. result_free_list \cap Queued = {}
    BY DEF NodeInv, NodesAreNotShared
  <2>6. QED
    BY <1>2, <2>1, <2>2, <2>3, <2>4, <2>5
<1>3. QED
  BY <1>1, <1>2 DEF QueueError

(* A release adds the node to the free nodes, and touches no other's data. *)
LEMMA ReleaseEffect ==
    ASSUME TypeOK, NEW node \in Nodes, Release(node)
    PROVE  /\ event_fifo_free_list' \cup result_free_list' =
                event_fifo_free_list \cup result_free_list \cup {node}
           /\ \A other \in Nodes \ {node} : fifo_data'[other] = fifo_data[other]
BY DEF Release, TypeOK

(* It shares no node. *)
LEMMA SharedAfterError ==
    ASSUME NodeInv, QueueError,
           UNCHANGED <<event_fifo_free_list, irqNode, appNode>>
    PROVE  NodesAreNotShared'
<1>1. /\ result_free_list' \subseteq result_free_list
      /\ result_free_list' \cup Queued' = result_free_list \cup Queued
      /\ result_free_list' \cap Queued' = {}
      /\ IsInjective(event_fifo_list')
  BY QueueErrorEffect
<1>2. event_fifo_free_list \cap result_free_list = {} /\ UNCHANGED Held
  BY PoolsAreDisjoint DEF NodeInv, TypeOK, Held
<1>3. QED
  BY <1>1, <1>2 DEF NodeInv, NodesAreNotShared

(* The delivered node joins the queue. *)
LEMMA DeliverEffect ==
    ASSUME NodeInv, HandlerDelivers, fifo_data_callback
    PROVE  Queued' = Queued \cup {irqNode} /\ IsInjective(event_fifo_list')
<1>1. irqNode \in Nodes /\ irqNode \notin Queued
  BY DEF NodeInv, TypeOK, HandsMatch, NodesAreNotShared, Held, HandlerDelivers
<1>2. event_fifo_list' = Append(event_fifo_list, irqNode)
  BY DEF HandlerDelivers
<1>3. QED
  BY <1>1, <1>2, AppendElements DEF NodeInv, TypeOK, NodesAreNotShared, Queued

(* The popped node was queued, once. *)
LEMMA PopEffect ==
    ASSUME NodeInv, PopFront
    PROVE  /\ appNode' \in Queued
           /\ Queued' = Queued \ {appNode'} /\ IsInjective(event_fifo_list')
<1>1. event_fifo_list # <<>>
  BY DEF NodeInv, IteratorIsFront, PopFront
<1>2. QED
  BY <1>1, TailElements DEF NodeInv, TypeOK, NodesAreNotShared, PopFront, Queued

(* The FIFO holds at least what its level said, until it is read. *)
LEMMA ReadStep == TypeOK /\ ReadFits /\ [Next]_vars => ReadFits'
<1> SUFFICES ASSUME TypeOK /\ ReadFits, [Next]_vars PROVE ReadFits'
  OBVIOUS
<1> USE PoolsAreDisjoint DEF TypeOK, ReadFits, Packets, device, irqLine,
     freeLists, callbacks, handler, iterator, app
<1>1. CASE DeviceEmits
  BY <1>1, AppendProperties DEF DeviceEmits
<1>2. CASE HandlerEnters
  BY <1>2 DEF HandlerEnters
<1>3. CASE HandlerReadsStatus
  BY <1>3 DEF HandlerReadsStatus
<1>4. CASE HandlerReadFails
  BY <1>4 DEF HandlerReadFails
<1>5. CASE HandlerCallsBack
  <2>1. CASE UNCHANGED device
    BY <1>5, <2>1 DEF HandlerCallsBack
  <2>2. CASE event_fifo' = Append(event_fifo, emitted + 1)
    <3>1. Len(event_fifo') = Len(event_fifo) + 1 /\ Len(event_fifo) \in Nat
      BY <2>2
    <3>2. QED
      BY <1>5, <3>1 DEF HandlerCallsBack
  <2>3. QED
    BY <1>5, <2>1, <2>2 DEF HandlerCallsBack
<1>6. CASE HandlerGetsBuffer
  BY <1>6 DEF HandlerGetsBuffer
<1>7. CASE HandlerReadsFifo
  BY <1>7 DEF HandlerReadsFifo
<1>8. CASE HandlerReadFifoFails
  BY <1>8 DEF HandlerReadFifoFails
<1>9. CASE HandlerMakesResult
  BY <1>9 DEF HandlerMakesResult
<1>10. CASE HandlerDelivers
  BY <1>10 DEF HandlerDelivers
<1>11. CASE HandlerReturns
  BY <1>11 DEF HandlerReturns
<1>12. CASE AppOpens
  BY <1>12 DEF AppOpens
<1>13. CASE InitQueue
  BY <1>13 DEF InitQueue
<1>14. CASE RegisterFifoCallback
  BY <1>14 DEF RegisterFifoCallback
<1>15. CASE RegisterInterruptCallback
  BY <1>15 DEF RegisterInterruptCallback
<1>16. CASE WriteMask
  BY <1>16 DEF WriteMask, HostFree
<1>17. CASE AppCloses
  BY <1>17 DEF AppCloses
<1>18. CASE UnregisterInterruptCallback
  BY <1>18 DEF UnregisterInterruptCallback
<1>19. CASE UnregisterFifoCallback
  BY <1>19 DEF UnregisterFifoCallback
<1>20. CASE AppDrains
  BY <1>20 DEF AppDrains
<1>21. CASE PacketWait
  BY <1>21 DEF PacketWait
<1>22. CASE PacketPeek
  BY <1>22 DEF PacketPeek
<1>23. CASE PacketRemove
  BY <1>23 DEF PacketRemove, AfterRemove
<1>24. CASE PopFront
  BY <1>24 DEF PopFront
<1>25. CASE ReleaseNode
  BY <1>25 DEF ReleaseNode
<1>26. CASE InsertFifoEvent
  BY <1>26 DEF InsertFifoEvent, HostFree
<1>27. CASE InsertFifoEventFails
  BY <1>27 DEF InsertFifoEventFails
<1>28. CASE NextNode
  BY <1>28 DEF NextNode, AfterRemove
<1>29. CASE UNCHANGED vars
  BY <1>29 DEF vars
<1>30. QED
  BY <1>1, <1>2, <1>3, <1>4, <1>5, <1>6, <1>7, <1>8, <1>9, <1>10, <1>11,
     <1>12, <1>13, <1>14, <1>15, <1>16, <1>17, <1>18, <1>19, <1>20, <1>21,
     <1>22, <1>23, <1>24, <1>25, <1>26, <1>27, <1>28, <1>29 DEF Next,
     HandlerStep, PacketLoop, HostCommand, Lifecycle

(* Nodes are queued with packets in them and emptied after they are popped. *)
LEMMA DataStep == NodeInv /\ [Next]_vars => DataIsThere'
<1> SUFFICES ASSUME NodeInv, [Next]_vars PROVE DataIsThere'
  OBVIOUS
<1> USE PoolsAreDisjoint DEF NodeInv, TypeOK, DataIsThere, HandsMatch, Nodes,
     device, irqLine, freeLists, callbacks, handler, iterator, app
<1>1. CASE DeviceEmits
  BY <1>1 DEF DeviceEmits, Queued
<1>2. CASE HandlerEnters
  BY <1>2 DEF HandlerEnters, Queued
<1>3. CASE HandlerReadsStatus
  BY <1>3 DEF HandlerReadsStatus, Queued
<1>4. CASE HandlerReadFails
  <2>1. CASE fifo_data_callback
    <3>1. QueueError
      BY <1>4, <2>1 DEF HandlerReadFails
    <3>2. \A node \in Queued' : fifo_data'[node] # <<>>
      BY <3>1, QueueErrorEffect
    <3>3. QED
      BY <1>4, <3>2 DEF HandlerReadFails
  <2>2. CASE ~fifo_data_callback
    BY <1>4, <2>2, SameQueue DEF HandlerReadFails
  <2>3. QED
    BY <2>1, <2>2
<1>5. CASE HandlerCallsBack
  BY <1>5 DEF HandlerCallsBack, Queued
<1>6. CASE HandlerGetsBuffer
  BY <1>6 DEF HandlerGetsBuffer, Queued
<1>7. CASE HandlerReadsFifo
  <2>1. irqNode \in Nodes /\ irqNode \notin Queued
    BY <1>7 DEF HandlerReadsFifo, NodesAreNotShared, Held
  <2>2. SubSeq(event_fifo, 1, num_bytes) # <<>>
    <3>1. Len(SubSeq(event_fifo, 1, num_bytes)) # 0
      BY <1>7, ReadSplits DEF HandlerReadsFifo, ReadFits
    <3>2. Len(<<>>) = 0
      BY EmptySeq
    <3>3. QED
      BY <3>1, <3>2, Zenon
  <2>3. QED
    BY <1>7, <2>1, <2>2, SameQueue, QueuedAreNodes DEF HandlerReadsFifo
<1>8. CASE HandlerReadFifoFails
  <2>1. irqNode \in Nodes /\ irqNode \notin Queued
    BY <1>8 DEF HandlerReadFifoFails, NodesAreNotShared, Held
  <2>2. QED
    BY <1>8, <2>1, ReleaseEffect, SameQueue, QueuedAreNodes
       DEF HandlerReadFifoFails
<1>9. CASE HandlerMakesResult
  <2>1. ASSUME NEW node \in result_free_list,
               fifo_data' = [fifo_data EXCEPT ![node] = <<Ex10ResultPacket>>],
               irqNode' = node
        PROVE  DataIsThere'
    <3>1. node \in Nodes /\ node \notin Queued
      BY DEF NodesAreNotShared
    <3>2. QED
      BY <1>9, <2>1, <3>1, SameQueue, QueuedAreNodes DEF HandlerMakesResult
  <2>2. QED
    BY <1>9, <2>1, SameQueue DEF HandlerMakesResult
<1>10. CASE HandlerDelivers
  <2>1. irqNode \in Nodes /\ irqNode \notin Queued
    BY <1>10 DEF HandlerDelivers, NodesAreNotShared, Held
  <2>2. CASE fifo_data_callback
    <3>1. Queued' = Queued \cup {irqNode}
      BY <1>10, <2>1, <2>2, DeliverEffect
    <3>2. UNCHANGED fifo_data /\ irqPc' = "return" /\ fifo_data[irqNode] # <<>>
      BY <1>10, <2>2 DEF HandlerDelivers
    <3>3. QED
      BY <3>1, <3>2
  <2>3. CASE ~fifo_data_callback
    BY <1>10, <2>1, <2>3, ReleaseEffect, SameQueue, QueuedAreNodes
       DEF HandlerDelivers
  <2>4. QED
    BY <2>2, <2>3
<1>11. CASE HandlerReturns
  BY <1>11 DEF HandlerReturns, Queued
<1>12. CASE AppOpens
  BY <1>12 DEF AppOpens, Queued
<1>13. CASE InitQueue
  BY <1>13, EmptyElements DEF InitQueue, Queued
<1>14. CASE RegisterFifoCallback
  BY <1>14 DEF RegisterFifoCallback, Queued
<1>15. CASE RegisterInterruptCallback
  BY <1>15 DEF RegisterInterruptCallback, Queued
<1>16. CASE WriteMask
  BY <1>16 DEF WriteMask, Queued
<1>17. CASE AppCloses
  BY <1>17 DEF AppCloses, Queued
<1>18. CASE UnregisterInterruptCallback
  BY <1>18 DEF UnregisterInterruptCallback, Queued
<1>19. CASE UnregisterFifoCallback
  BY <1>19 DEF UnregisterFifoCallback, Queued
<1>20. CASE AppDrains
  BY <1>20 DEF AppDrains, Queued
<1>21. CASE PacketWait
  BY <1>21 DEF PacketWait, Queued
<1>22. CASE PacketPeek
  BY <1>22 DEF PacketPeek, Queued
<1>23. CASE PacketRemove
  BY <1>23 DEF PacketRemove, Queued
<1>24. CASE PopFront
  BY <1>24, PopEffect DEF PopFront
<1>25. CASE ReleaseNode
  <2>1. appNode \in Nodes /\ appNode \notin Queued
    BY <1>25 DEF ReleaseNode, NodesAreNotShared, Held
  <2>2. irqNode # appNode \/ irqPc # "deliver"
    BY <1>25 DEF ReleaseNode, NodesAreNotShared
  <2>3. QED
    BY <1>25, <2>1, <2>2, ReleaseEffect, SameQueue, QueuedAreNodes
       DEF ReleaseNode
<1>26. CASE InsertFifoEvent
  BY <1>26 DEF InsertFifoEvent, Queued
<1>27. CASE InsertFifoEventFails
  <2>1. irqNode \notin result_free_list
    BY DEF NodesAreNotShared, Held
  <2>2. QueueError /\ UNCHANGED handler
    BY <1>27 DEF InsertFifoEventFails
  <2>3. /\ \A node \in Queued' : fifo_data'[node] # <<>>
        /\ \A node \in Nodes \ result_free_list :
                fifo_data'[node] = fifo_data[node]
    BY <2>2, QueueErrorEffect
  <2>4. QED
    BY <2>1, <2>2, <2>3
<1>28. CASE NextNode
  BY <1>28 DEF NextNode, Queued
<1>29. CASE UNCHANGED vars
  BY <1>29 DEF vars, Queued
<1>30. QED
  BY <1>1, <1>2, <1>3, <1>4, <1>5, <1>6, <1>7, <1>8, <1>9, <1>10, <1>11,
     <1>12, <1>13, <1>14, <1>15, <1>16, <1>17, <1>18, <1>19, <1>20, <1>21,
     <1>22, <1>23, <1>24, <1>25, <1>26, <1>27, <1>28, <1>29 DEF Next,
     HandlerStep, PacketLoop, HostCommand, Lifecycle

(* Every move of a node takes it from where it was. *)
LEMMA SharedStep == NodeInv /\ [Next]_vars => NodesAreNotShared'
<1> SUFFICES ASSUME NodeInv, [Next]_vars PROVE NodesAreNotShared'
  OBVIOUS
<1> USE PoolsAreDisjoint DEF NodeInv, TypeOK, NodesAreNotShared, HandsMatch,
     Held, Nodes, device, irqLine, freeLists, callbacks, handler, iterator,
     app
<1>1. CASE DeviceEmits
  BY <1>1 DEF DeviceEmits, Queued
<1>2. CASE HandlerEnters
  BY <1>2 DEF HandlerEnters, Queued
<1>3. CASE HandlerReadsStatus
  BY <1>3 DEF HandlerReadsStatus, Queued
<1>4. CASE HandlerReadFails
  <2>1. CASE fifo_data_callback
    <3>1. QueueError /\ UNCHANGED <<event_fifo_free_list, irqNode, appNode>>
      BY <1>4, <2>1 DEF HandlerReadFails
    <3>2. QED
      BY <3>1, SharedAfterError
  <2>2. CASE ~fifo_data_callback
    BY <1>4, <2>2 DEF HandlerReadFails, Queued
  <2>3. QED
    BY <2>1, <2>2
<1>5. CASE HandlerCallsBack
  BY <1>5 DEF HandlerCallsBack, Queued
<1>6. CASE HandlerGetsBuffer
  BY <1>6 DEF HandlerGetsBuffer, Queued
<1>7. CASE HandlerReadsFifo
  BY <1>7 DEF HandlerReadsFifo, Queued
<1>8. CASE HandlerReadFifoFails
  BY <1>8 DEF HandlerReadFifoFails, Queued, Release
<1>9. CASE HandlerMakesResult
  BY <1>9 DEF HandlerMakesResult, Queued
<1>10. CASE HandlerDelivers
  <2>1. irqNode \in Nodes /\ irqNode \notin Queued
    BY <1>10 DEF HandlerDelivers
  <2>2. CASE fifo_data_callback
    <3>1. Queued' = Queued \cup {irqNode} /\ IsInjective(event_fifo_list')
      BY <1>10, <2>1, <2>2, DeliverEffect
    <3>2. UNCHANGED <<freeLists, app>> /\ irqNode' = NoNode
      BY <1>10, <2>2 DEF HandlerDelivers
    <3>3. QED
      BY <2>1, <3>1, <3>2
  <2>3. CASE ~fifo_data_callback
    BY <1>10, <2>1, <2>3 DEF HandlerDelivers, Release, Queued
  <2>4. QED
    BY <2>2, <2>3
<1>11. CASE HandlerReturns
  BY <1>11 DEF HandlerReturns, Queued
<1>12. CASE AppOpens
  BY <1>12 DEF AppOpens, Queued
<1>13. CASE InitQueue
  BY <1>13, EmptyElements DEF InitQueue, Queued
<1>14. CASE RegisterFifoCallback
  BY <1>14 DEF RegisterFifoCallback, Queued
<1>15. CASE RegisterInterruptCallback
  BY <1>15 DEF RegisterInterruptCallback, Queued
<1>16. CASE WriteMask
  BY <1>16 DEF WriteMask, Queued
<1>17. CASE AppCloses
  BY <1>17 DEF AppCloses, Queued
<1>18. CASE UnregisterInterruptCallback
  BY <1>18 DEF UnregisterInterruptCallback, Queued
<1>19. CASE UnregisterFifoCallback
  BY <1>19 DEF UnregisterFifoCallback, Queued
<1>20. CASE AppDrains
  BY <1>20 DEF AppDrains, Queued
<1>21. CASE PacketWait
  BY <1>21 DEF PacketWait, Queued
<1>22. CASE PacketPeek
  BY <1>22 DEF PacketPeek, Queued
<1>23. CASE PacketRemove
  BY <1>23 DEF PacketRemove, Queued
<1>24. CASE PopFront
  <2>1. UNCHANGED <<freeLists, irqNode>>
    BY <1>24 DEF PopFront
  <2>2. QED
    BY <1>24, <2>1, PopEffect, QueuedAreNodes DEF PopFront
<1>25. CASE ReleaseNode
  BY <1>25 DEF ReleaseNode, Queued, Release
<1>26. CASE InsertFifoEvent
  BY <1>26 DEF InsertFifoEvent, Queued
<1>27. CASE InsertFifoEventFails
  <2>1. QueueError /\ UNCHANGED <<event_fifo_free_list, irqNode, appNode>>
    BY <1>27 DEF InsertFifoEventFails
  <2>2. QED
    BY <2>1, SharedAfterError
<1>28. CASE NextNode
  BY <1>28 DEF NextNode, Queued
<1>29. CASE UNCHANGED vars
  BY <1>29 DEF vars, Queued
<1>30. QED
  BY <1>1, <1>2, <1>3, <1>4, <1>5, <1>6, <1>7, <1>8, <1>9, <1>10, <1>11,
     <1>12, <1>13, <1>14, <1>15, <1>16, <1>17, <1>18, <1>19, <1>20, <1>21,
     <1>22, <1>23, <1>24, <1>25, <1>26, <1>27, <1>28, <1>29 DEF Next,
     HandlerStep, PacketLoop, HostCommand, Lifecycle

-----------------------------------------------------------------------------
(* The invariant holds at first. *)
LEMMA NodeInit == Init => NodeInv
<1> SUFFICES ASSUME Init PROVE NodeInv
  OBVIOUS
<1>1. TypeOK
  <2>1. 0 \in Packets /\ 0 \in Nat /\ 0 \in 0..MaxFailures
    BY SizesAreNatural DEF Packets
  <2>2. <<>> \in Seq(Packets) /\ <<>> \in Seq(Nodes)
    OBVIOUS
  <2>3. QED
    BY <2>1, <2>2, Zenon DEF Init, TypeOK, Ex10ResultPacket
<1>2. Queued = {} /\ Held = {} /\ IsInjective(event_fifo_list)
  BY EmptyElements DEF Init, Queued, Held
<1>3. HandsMatch /\ NodesAreNotShared /\ DataIsThere
  BY <1>2, PoolsAreDisjoint DEF Init, HandsMatch, NodesAreNotShared, DataIsThere
<1>4. IteratorIsFront /\ ReadFits
  BY DEF Init, IteratorIsFront, ReadFits
<1>5. QED
  BY <1>1, <1>3, <1>4 DEF NodeInv

(* NodeInv is an invariant, whatever fails and however the application     *)
(* opens, closes and drains.                                               *)
THEOREM NodeInvariant == Spec => []NodeInv
<1>1. NodeInv /\ [Next]_vars => NodeInv'
  BY TypeStep, HandsStep, FrontStep, ReadStep, DataStep, SharedStep DEF NodeInv
<1>2. QED
  BY NodeInit, <1>1, PTL DEF Spec

(* The types. *)
THEOREM TypeCorrect == Spec => []TypeOK
<1>1. NodeInv => TypeOK
  BY DEF NodeInv
<1>2. QED
  BY NodeInvariant, <1>1, PTL

(* No buffer node is in two places. *)
THEOREM NodesStaySeparate == Spec => []NodesAreNotShared
<1>1. NodeInv => NodesAreNotShared
  BY DEF NodeInv
<1>2. QED
  BY NodeInvariant, <1>1, PTL

(* A step that changes the data of a node has it in a hand or takes it     *)
(* from a free list.                                                       *)
LEMMA QueuedDataIsKept ==
    NodeInv /\ Next => \A node \in Queued : fifo_data'[node] = fifo_data[node]
<1> SUFFICES ASSUME NodeInv, Next, NEW node \in Queued
             PROVE  fifo_data'[node] = fifo_data[node]
  OBVIOUS
<1>1. /\ node \in Nodes /\ node \notin Held
      /\ node \notin event_fifo_free_list \cup result_free_list
  BY QueuedAreNodes DEF NodeInv, NodesAreNotShared
<1>2. TypeOK /\ HandsMatch
  BY DEF NodeInv
<1>3. CASE HandlerReadFails \/ InsertFifoEventFails
  <2>1. QueueError \/ UNCHANGED fifo_data
    BY <1>3 DEF HandlerReadFails, InsertFifoEventFails
  <2>2. QED
    BY <1>1, <2>1, QueueErrorEffect
<1>4. CASE HandlerReadFifoFails \/ HandlerDelivers
  <2>1. irqNode \in Nodes /\ irqNode # node
    BY <1>1, <1>2, <1>4 DEF Held, HandsMatch, TypeOK, HandlerReadFifoFails,
                            HandlerDelivers
  <2>2. Release(irqNode) \/ UNCHANGED fifo_data
    BY <1>4 DEF HandlerReadFifoFails, HandlerDelivers
  <2>3. QED
    BY <1>1, <1>2, <2>1, <2>2, ReleaseEffect
<1>5. CASE ReleaseNode
  <2>1. appNode \in Nodes /\ appNode # node
    BY <1>1, <1>2, <1>5 DEF Held, HandsMatch, TypeOK, ReleaseNode
  <2>2. QED
    BY <1>1, <1>2, <1>5, <2>1, ReleaseEffect DEF ReleaseNode
<1>6. CASE HandlerReadsFifo
  <2>1. irqNode # node
    BY <1>1, <1>2, <1>6 DEF Held, HandsMatch, HandlerReadsFifo
  <2>2. QED
    BY <1>1, <1>2, <1>6, <2>1 DEF HandlerReadsFifo, TypeOK
<1>7. CASE HandlerMakesResult
  BY <1>1, <1>2, <1>7 DEF HandlerMakesResult, TypeOK
<1>8. CASE UNCHANGED fifo_data
  BY <1>8
<1>9. QED
  BY <1>3, <1>4, <1>5, <1>6, <1>7, <1>8
     DEF Next, HandlerStep, PacketLoop, HostCommand, Lifecycle, DeviceEmits,
         HandlerEnters, HandlerReadsStatus, HandlerCallsBack, HandlerGetsBuffer,
         HandlerReturns, AppOpens, InitQueue, RegisterFifoCallback,
         RegisterInterruptCallback, WriteMask, AppCloses,
         UnregisterInterruptCallback, UnregisterFifoCallback, AppDrains,
         PacketWait, PacketPeek, PacketRemove, PopFront, InsertFifoEvent,
         NextNode

(* The packet that the application looks at stays as it is. *)
THEOREM PacketsStayPut == Spec => PacketIsStable
<1>1. NodeInv /\ [Next]_vars =>
        [ event_packets_iterator # NoNode /\ appPc \in {"wait", "peek", "remove"} =>
            fifo_data'[event_packets_iterator] = fifo_data[event_packets_iterator]
        ]_vars
  <2> SUFFICES ASSUME NodeInv, Next, event_packets_iterator # NoNode,
                      appPc \in {"wait", "peek", "remove"}
               PROVE  fifo_data'[event_packets_iterator] =
                        fifo_data[event_packets_iterator]
    OBVIOUS
  <2>1. event_packets_iterator \in Queued
    BY TailElements DEF NodeInv, IteratorIsFront, TypeOK, NodesAreNotShared, Queued
  <2>2. QED
    BY <2>1, QueuedDataIsKept
<1>2. QED
  BY NodeInvariant, <1>1, PTL DEF Spec, PacketIsStable

-----------------------------------------------------------------------------
(* While the use case is closed, or being drained, nothing is queued by    *)
(* the handler; so the queue that was drained is empty at init().          *)
ClosedIsQuiet ==
    /\ draining => /\ ~fifo_data_callback
                   /\ appPc \in {"peek", "remove", "pop", "release", "insert",
                                 "next"}
    /\ appPc \in {"closed", "init_queue", "init_fifo_callback"} =>
            ~fifo_data_callback
    /\ DrainBeforeInit /\ appPc = "init_queue" => event_fifo_list = <<>>

(* The callback is registered after init() and gone before a drain. *)
LEMMA QuietStep == ClosedIsQuiet /\ [Next]_vars => ClosedIsQuiet'
<1> SUFFICES ASSUME ClosedIsQuiet, [Next]_vars PROVE ClosedIsQuiet'
  OBVIOUS
<1> USE PoolsAreDisjoint DEF ClosedIsQuiet, device, irqLine, freeLists,
     callbacks, handler, iterator, app
<1>1. CASE DeviceEmits
  BY <1>1 DEF DeviceEmits
<1>2. CASE HandlerEnters
  BY <1>2 DEF HandlerEnters
<1>3. CASE HandlerReadsStatus
  BY <1>3 DEF HandlerReadsStatus
<1>4. CASE HandlerReadFails
  BY <1>4 DEF HandlerReadFails
<1>5. CASE HandlerCallsBack
  BY <1>5 DEF HandlerCallsBack
<1>6. CASE HandlerGetsBuffer
  BY <1>6 DEF HandlerGetsBuffer
<1>7. CASE HandlerReadsFifo
  BY <1>7 DEF HandlerReadsFifo
<1>8. CASE HandlerReadFifoFails
  BY <1>8 DEF HandlerReadFifoFails
<1>9. CASE HandlerMakesResult
  BY <1>9 DEF HandlerMakesResult
<1>10. CASE HandlerDelivers
  BY <1>10 DEF HandlerDelivers
<1>11. CASE HandlerReturns
  BY <1>11 DEF HandlerReturns
<1>12. CASE AppOpens
  BY <1>12 DEF AppOpens
<1>13. CASE InitQueue
  BY <1>13 DEF InitQueue
<1>14. CASE RegisterFifoCallback
  BY <1>14 DEF RegisterFifoCallback
<1>15. CASE RegisterInterruptCallback
  BY <1>15 DEF RegisterInterruptCallback
<1>16. CASE WriteMask
  BY <1>16 DEF WriteMask
<1>17. CASE AppCloses
  BY <1>17 DEF AppCloses
<1>18. CASE UnregisterInterruptCallback
  BY <1>18 DEF UnregisterInterruptCallback
<1>19. CASE UnregisterFifoCallback
  BY <1>19 DEF UnregisterFifoCallback
<1>20. CASE AppDrains
  BY <1>20 DEF AppDrains
<1>21. CASE PacketWait
  BY <1>21 DEF PacketWait
<1>22. CASE PacketPeek
  BY <1>22 DEF PacketPeek
<1>23. CASE PacketRemove
  BY <1>23 DEF PacketRemove, AfterRemove
<1>24. CASE PopFront
  BY <1>24 DEF PopFront
<1>25. CASE ReleaseNode
  BY <1>25 DEF ReleaseNode
<1>26. CASE InsertFifoEvent
  BY <1>26 DEF InsertFifoEvent
<1>27. CASE InsertFifoEventFails
  BY <1>27 DEF InsertFifoEventFails
<1>28. CASE NextNode
  BY <1>28 DEF NextNode, AfterRemove
<1>29. CASE UNCHANGED vars
  BY <1>29 DEF vars
<1>30. QED
  BY <1>1, <1>2, <1>3, <1>4, <1>5, <1>6, <1>7, <1>8, <1>9, <1>10, <1>11,
     <1>12, <1>13, <1>14, <1>15, <1>16, <1>17, <1>18, <1>19, <1>20, <1>21,
     <1>22, <1>23, <1>24, <1>25, <1>26, <1>27, <1>28, <1>29 DEF Next,
     HandlerStep, PacketLoop, HostCommand, Lifecycle

(* Every node that is taken from a place is put in another, if init()      *)
(* drops none.                                                             *)
Drained == appPc = "init_queue" => event_fifo_list = <<>>

LEMMA LeakStep == NodeInv /\ Drained /\ NoNodeLeaks /\ [Next]_vars => NoNodeLeaks'
<1> SUFFICES ASSUME NodeInv /\ Drained /\ NoNodeLeaks, [Next]_vars PROVE NoNodeLeaks'
  OBVIOUS
<1> USE PoolsAreDisjoint DEF NodeInv, device, irqLine, freeLists, callbacks,
     handler, iterator, app
<1>1. CASE DeviceEmits
  BY <1>1, SameQueue DEF DeviceEmits, NoNodeLeaks, Held
<1>2. CASE HandlerEnters
  BY <1>2, SameQueue DEF HandlerEnters, NoNodeLeaks, Held
<1>3. CASE HandlerReadsStatus
  BY <1>3, SameQueue DEF HandlerReadsStatus, NoNodeLeaks, Held
<1>4. CASE HandlerReadFails
  <2>1. CASE fifo_data_callback
    <3>1. QueueError /\ UNCHANGED <<event_fifo_free_list, Held>>
      BY <1>4, <2>1 DEF HandlerReadFails, Held
    <3>2. QED
      BY <3>1, QueueErrorEffect DEF NoNodeLeaks
  <2>2. CASE ~fifo_data_callback
    BY <1>4, <2>2, SameQueue DEF HandlerReadFails, Held, NoNodeLeaks
  <2>3. QED
    BY <2>1, <2>2
<1>5. CASE HandlerCallsBack
  BY <1>5, SameQueue DEF HandlerCallsBack, NoNodeLeaks, Held
<1>6. CASE HandlerGetsBuffer
  <2>1. irqNode = NoNode /\ UNCHANGED <<Queued, appNode, result_free_list>>
    BY <1>6, SameQueue DEF HandlerGetsBuffer, HandsMatch
  <2>2. ASSUME NEW node \in event_fifo_free_list, irqNode' = node,
               event_fifo_free_list' = event_fifo_free_list \ {node}
        PROVE  NoNodeLeaks'
    <3>1. node # NoNode
      BY DEF TypeOK
    <3>2. Held' = Held \cup {node}
      BY <2>1, <2>2, <3>1 DEF Held
    <3>3. QED
      BY <2>1, <2>2, <3>2 DEF NoNodeLeaks
  <2>3. CASE UNCHANGED <<event_fifo_free_list, irqNode>>
    BY <2>1, <2>3 DEF NoNodeLeaks, Held
  <2>4. QED
    BY <1>6, <2>2, <2>3 DEF HandlerGetsBuffer
<1>7. CASE HandlerReadsFifo
  BY <1>7, SameQueue DEF HandlerReadsFifo, NoNodeLeaks, Held
<1>8. CASE HandlerReadFifoFails
  <2>1. irqNode \in Nodes
    BY <1>8 DEF HandlerReadFifoFails, HandsMatch, TypeOK
  <2>2. Release(irqNode) /\ irqNode' = NoNode /\ UNCHANGED <<Queued, appNode>>
    BY <1>8, SameQueue DEF HandlerReadFifoFails
  <2>3. QED
    BY <2>1, <2>2, ReleaseEffect DEF NoNodeLeaks, Held
<1>9. CASE HandlerMakesResult
  <2>1. irqNode = NoNode /\ UNCHANGED <<Queued, appNode, event_fifo_free_list>>
    BY <1>9, SameQueue DEF HandlerMakesResult, HandsMatch
  <2>2. ASSUME NEW node \in result_free_list, irqNode' = node,
               result_free_list' = result_free_list \ {node}
        PROVE  NoNodeLeaks'
    <3>1. node # NoNode
      BY DEF TypeOK
    <3>2. Held' = Held \cup {node}
      BY <2>1, <2>2, <3>1 DEF Held
    <3>3. QED
      BY <2>1, <2>2, <3>2 DEF NoNodeLeaks
  <2>3. CASE UNCHANGED <<result_free_list, irqNode>>
    BY <2>1, <2>3 DEF NoNodeLeaks, Held
  <2>4. QED
    BY <1>9, <2>2, <2>3 DEF HandlerMakesResult
<1>10. CASE HandlerDelivers
  <2>1. irqNode \in Nodes /\ irqNode' = NoNode /\ UNCHANGED appNode
    BY <1>10 DEF HandlerDelivers, HandsMatch, TypeOK
  <2>2. CASE fifo_data_callback
    <3>1. Queued' = Queued \cup {irqNode}
      BY <1>10, <2>2, DeliverEffect
    <3>2. UNCHANGED freeLists
      BY <1>10, <2>2 DEF HandlerDelivers
    <3>3. QED
      BY <2>1, <3>1, <3>2 DEF NoNodeLeaks, Held
  <2>3. CASE ~fifo_data_callback
    <3>1. Release(irqNode) /\ UNCHANGED Queued
      BY <1>10, <2>3, SameQueue DEF HandlerDelivers
    <3>2. QED
      BY <2>1, <3>1, ReleaseEffect DEF NoNodeLeaks, Held
  <2>4. QED
    BY <2>2, <2>3
<1>11. CASE HandlerReturns
  BY <1>11, SameQueue DEF HandlerReturns, NoNodeLeaks, Held
<1>12. CASE AppOpens
  BY <1>12, SameQueue DEF AppOpens, NoNodeLeaks, Held
<1>13. CASE InitQueue
  <2>1. Queued = {} /\ Queued' = {}
    BY <1>13, EmptyElements DEF InitQueue, Drained, Queued
  <2>2. QED
    BY <1>13, <2>1 DEF InitQueue, NoNodeLeaks, Held
<1>14. CASE RegisterFifoCallback
  BY <1>14, SameQueue DEF RegisterFifoCallback, NoNodeLeaks, Held
<1>15. CASE RegisterInterruptCallback
  BY <1>15, SameQueue DEF RegisterInterruptCallback, NoNodeLeaks, Held
<1>16. CASE WriteMask
  BY <1>16, SameQueue DEF WriteMask, NoNodeLeaks, Held
<1>17. CASE AppCloses
  BY <1>17, SameQueue DEF AppCloses, NoNodeLeaks, Held
<1>18. CASE UnregisterInterruptCallback
  BY <1>18, SameQueue DEF UnregisterInterruptCallback, NoNodeLeaks, Held
<1>19. CASE UnregisterFifoCallback
  BY <1>19, SameQueue DEF UnregisterFifoCallback, NoNodeLeaks, Held
<1>20. CASE AppDrains
  BY <1>20, SameQueue DEF AppDrains, NoNodeLeaks, Held
<1>21. CASE PacketWait
  BY <1>21, SameQueue DEF PacketWait, NoNodeLeaks, Held
<1>22. CASE PacketPeek
  BY <1>22, SameQueue DEF PacketPeek, NoNodeLeaks, Held
<1>23. CASE PacketRemove
  BY <1>23, SameQueue DEF PacketRemove, NoNodeLeaks, Held
<1>24. CASE PopFront
  <2>1. UNCHANGED <<freeLists, irqNode>> /\ appNode = NoNode
    BY <1>24 DEF PopFront, HandsMatch
  <2>2. QED
    <3>1. /\ appNode' \in Queued /\ Queued' = Queued \ {appNode'}
          /\ appNode' # NoNode
      BY <1>24, PopEffect, QueuedAreNodes DEF Nodes
    <3>2. Held' = Held \cup {appNode'}
      BY <2>1, <3>1 DEF Held
    <3>3. QED
      BY <2>1, <3>1, <3>2 DEF NoNodeLeaks
<1>25. CASE ReleaseNode
  <2>1. appNode \in Nodes
    BY <1>25 DEF ReleaseNode, HandsMatch, TypeOK
  <2>2. Release(appNode) /\ appNode' = NoNode /\ UNCHANGED <<Queued, irqNode>>
    BY <1>25, SameQueue DEF ReleaseNode
  <2>3. QED
    BY <2>1, <2>2, ReleaseEffect DEF NoNodeLeaks, Held
<1>26. CASE InsertFifoEvent
  BY <1>26, SameQueue DEF InsertFifoEvent, NoNodeLeaks, Held
<1>27. CASE InsertFifoEventFails
  <2>1. QueueError /\ UNCHANGED <<event_fifo_free_list, Held>>
    BY <1>27 DEF InsertFifoEventFails, Held
  <2>2. QED
    BY <2>1, QueueErrorEffect DEF NoNodeLeaks
<1>28. CASE NextNode
  BY <1>28, SameQueue DEF NextNode, NoNodeLeaks, Held
<1>29. CASE UNCHANGED vars
  BY <1>29 DEF vars, Queued, Held, NoNodeLeaks
<1>30. QED
  BY <1>1, <1>2, <1>3, <1>4, <1>5, <1>6, <1>7, <1>8, <1>9, <1>10, <1>11,
     <1>12, <1>13, <1>14, <1>15, <1>16, <1>17, <1>18, <1>19, <1>20, <1>21,
     <1>22, <1>23, <1>24, <1>25, <1>26, <1>27, <1>28, <1>29 DEF Next,
     HandlerStep, PacketLoop, HostCommand, Lifecycle

(* An application that drains the queue before each init() loses no node:  *)
(* every node is free, queued or in a hand.                                *)
THEOREM NoNodeIsLost ==
    ASSUME DrainBeforeInit
    PROVE  Spec => []NoNodeLeaks
<1>1. Init => ClosedIsQuiet
  BY DEF Init, ClosedIsQuiet
<1>2. Init => NoNodeLeaks
  BY EmptyElements DEF Init, NoNodeLeaks, Queued, Held, Nodes
<1>3. ClosedIsQuiet /\ [Next]_vars => ClosedIsQuiet'
  BY QuietStep
<1>4. NodeInv /\ ClosedIsQuiet /\ NoNodeLeaks /\ [Next]_vars => NoNodeLeaks'
  BY LeakStep DEF ClosedIsQuiet, Drained
<1>5. QED
  BY NodeInvariant, <1>1, <1>2, <1>3, <1>4, PTL DEF Spec

-----------------------------------------------------------------------------
(* Nothing is stranded.  Until something fails or the use case is closed:  *)
(* the line is asserted until the status has been read; the mask is        *)
(* written last by init(), with both callbacks registered and nothing in   *)
(* the queue; and packets that the status does not tell of, enough of them *)
(* for an interrupt, are about to be read, or to be asked for, or there is *)
(* no free buffer to read them into.                                       *)
Opened == {"wait", "peek", "remove", "pop", "release", "insert", "next"}
Opening == {"closed", "init_queue", "init_fifo_callback", "init_irq_callback", "init_mask"}

LineIsAsserted == interrupt_mask /\ interrupt_status => irq_pending \/ irqPc = "status"

MaskIsLast ==
    /\ ~draining
    /\ interrupt_mask => appPc \in Opened /\ interrupt_callback /\ fifo_data_callback
    /\ ~interrupt_mask =>
        /\ appPc \in Opening /\ irqPc = "idle" /\ ~irq_pending /\ event_fifo_list = <<>>
        /\ appPc \in {"init_irq_callback", "init_mask"} => fifo_data_callback
        /\ appPc = "init_mask" => interrupt_callback

Untold == Len(event_fifo) >= FifoThreshold /\ event_fifo # <<>> /\ ~interrupt_status
Reading == irqPc \in {"callback", "get_buffer", "read"} /\ Len(event_fifo) <= num_bytes
ReadingGoesOn == Untold => Reading \/ appPc = "insert" \/ event_fifo_free_list = {}

StrandInv ==
    Undisturbed => LineIsAsserted /\ MaskIsLast /\ ReadingGoesOn /\ NoNodeLeaks

LEMMA StrandInit == Init => StrandInv
<1> SUFFICES ASSUME Init PROVE LineIsAsserted /\ MaskIsLast /\ ReadingGoesOn /\ NoNodeLeaks
  BY DEF StrandInv
<1>1. LineIsAsserted /\ MaskIsLast /\ ReadingGoesOn
  BY DEF Init, LineIsAsserted, MaskIsLast, ReadingGoesOn, Untold, Opening
<1>2. NoNodeLeaks
  BY EmptyElements DEF Init, NoNodeLeaks, Queued, Held, Nodes
<1>3. QED
  BY <1>1, <1>2

(* A failure or the closing is not undone. *)
LEMMA UndisturbedStep == TypeOK /\ [Next]_vars /\ Undisturbed' => Undisturbed /\ ~MayFail /\ ~AppCloses
<1> SUFFICES ASSUME TypeOK, [Next]_vars, Undisturbed' PROVE Undisturbed /\ ~MayFail /\ ~AppCloses
  OBVIOUS
<1>1. failures \in Nat /\ failures' = 0 /\ ~reopened'
  BY SizesAreNatural DEF TypeOK, Undisturbed
<1>2. ~MayFail
  BY <1>1 DEF MayFail
<1>3. ~AppCloses
  BY <1>1 DEF AppCloses
<1>4. UNCHANGED history
  <2> USE <1>2, <1>3 DEF vars
  <2>1. CASE HandlerStep
    BY <2>1 DEF HandlerStep, HandlerEnters, HandlerReadsStatus, HandlerReadFails, HandlerCallsBack,
       HandlerGetsBuffer, HandlerReadsFifo, HandlerReadFifoFails, HandlerMakesResult, HandlerDelivers,
       HandlerReturns
  <2>2. CASE PacketLoop
    BY <2>2 DEF PacketLoop, PacketWait, PacketPeek, PacketRemove, PopFront, ReleaseNode, NextNode
  <2>3. CASE HostCommand
    BY <2>3 DEF HostCommand, WriteMask, InsertFifoEvent, InsertFifoEventFails
  <2>4. CASE Lifecycle
    BY <2>4 DEF Lifecycle, AppOpens, InitQueue, RegisterFifoCallback, RegisterInterruptCallback,
       UnregisterInterruptCallback, UnregisterFifoCallback, AppDrains
  <2>5. CASE DeviceEmits
    BY <2>5 DEF DeviceEmits
  <2>6. QED
    BY <2>1, <2>2, <2>3, <2>4, <2>5 DEF Next
<1>5. QED
  BY <1>1, <1>2, <1>3, <1>4 DEF history, Undisturbed

(* The line, as the mask and the status are set. *)
LEMMA LineStep == TypeOK /\ MaskIsLast /\ LineIsAsserted /\ [Next]_vars /\ Undisturbed' => LineIsAsserted'
<1> SUFFICES ASSUME TypeOK, MaskIsLast, LineIsAsserted, [Next]_vars, Undisturbed' PROVE LineIsAsserted'
  OBVIOUS
<1>0. ~MayFail /\ ~AppCloses
  BY UndisturbedStep
<1>1. ASSUME NEW mask \in BOOLEAN, NEW status \in BOOLEAN, SetIrq(mask, status), irqPc' = irqPc
      PROVE  LineIsAsserted'
  BY <1>1, Zenon DEF SetIrq, LineIsAsserted
<1>2. CASE UNCHANGED irqLine /\ (irqPc' = irqPc \/ irqPc # "status")
  BY <1>2 DEF irqLine, LineIsAsserted
<1>3. CASE HandlerEnters
  BY <1>3 DEF HandlerEnters, LineIsAsserted
<1>4. CASE HandlerReadsStatus
  BY <1>4 DEF HandlerReadsStatus, LineIsAsserted, SetIrq
<1>5. CASE HandlerCallsBack
  BY <1>5 DEF HandlerCallsBack, LineIsAsserted, SetIrq, irqLine
<1>6. CASE DeviceEmits
  BY <1>1, <1>6 DEF DeviceEmits, handler, TypeOK
<1>7. CASE WriteMask
  BY <1>1, <1>7 DEF WriteMask, handler, TypeOK
<1>8. CASE InsertFifoEvent
  BY <1>1, <1>8 DEF InsertFifoEvent, handler, TypeOK
<1>9. CASE \/ HandlerGetsBuffer \/ HandlerReadsFifo \/ HandlerMakesResult \/ HandlerDelivers
           \/ HandlerReturns
  BY <1>2, <1>9 DEF HandlerGetsBuffer, HandlerReadsFifo, HandlerMakesResult, HandlerDelivers,
     HandlerReturns
<1>10. CASE PacketLoop
  BY <1>2, <1>10 DEF PacketLoop, PacketWait, PacketPeek, PacketRemove, PopFront, ReleaseNode, NextNode, handler
<1>11. CASE Lifecycle
  BY <1>2, <1>11 DEF Lifecycle, AppOpens, InitQueue, RegisterFifoCallback, RegisterInterruptCallback,
     UnregisterInterruptCallback, UnregisterFifoCallback, AppDrains, handler
<1>12. CASE UNCHANGED vars
  BY <1>2, <1>12 DEF vars, handler
<1>13. QED
  BY <1>0, <1>3, <1>4, <1>5, <1>6, <1>7, <1>8, <1>9, <1>10, <1>11, <1>12
  DEF Next, HandlerStep, HostCommand, HandlerReadFails, HandlerReadFifoFails, InsertFifoEventFails

(* init() writes the mask when all is registered. *)
LEMMA MaskStep == TypeOK /\ MaskIsLast /\ [Next]_vars /\ Undisturbed' => MaskIsLast'
<1> SUFFICES ASSUME TypeOK, MaskIsLast, [Next]_vars, Undisturbed' PROVE MaskIsLast'
  OBVIOUS
<1>0. ~MayFail /\ ~AppCloses
  BY UndisturbedStep
<1> USE DEF MaskIsLast, Opened, Opening
<1>1. CASE HandlerStep
  <2>1. interrupt_mask
    BY <1>0, <1>1 DEF HandlerStep, HandlerEnters, HandlerReadsStatus, HandlerReadFails, HandlerCallsBack,
       HandlerGetsBuffer, HandlerReadsFifo, HandlerReadFifoFails, HandlerMakesResult, HandlerDelivers,
       HandlerReturns
  <2>2. interrupt_mask' = interrupt_mask /\ UNCHANGED <<callbacks, appPc, draining>>
    BY <1>0, <1>1, <2>1 DEF HandlerStep, HandlerEnters, HandlerReadsStatus, HandlerReadFails, HandlerCallsBack,
       HandlerGetsBuffer, HandlerReadsFifo, HandlerReadFifoFails, HandlerMakesResult, HandlerDelivers,
       HandlerReturns, SetIrq, irqLine, app
  <2>3. QED
    BY <2>1, <2>2 DEF callbacks
<1>2. CASE PacketLoop
  <2>1. appPc \in Opened /\ interrupt_mask
    BY <1>2 DEF PacketLoop, PacketWait, PacketPeek, PacketRemove, PopFront, ReleaseNode, NextNode
  <2>2. UNCHANGED <<callbacks, irqLine>> /\ appPc' \in Opened /\ ~draining'
    BY <1>2 DEF PacketLoop, PacketWait, PacketPeek, PacketRemove, PopFront, ReleaseNode, NextNode, AfterRemove
  <2>3. QED
    BY <2>1, <2>2 DEF callbacks, irqLine
<1>3. CASE WriteMask
  BY <1>3 DEF WriteMask, SetIrq, callbacks
<1>4. CASE InsertFifoEvent
  BY <1>4 DEF InsertFifoEvent, SetIrq, callbacks
<1>5. CASE Lifecycle
  <2>1. appPc \in Opening /\ ~interrupt_mask
    BY <1>5 DEF Lifecycle, AppOpens, InitQueue, RegisterFifoCallback, RegisterInterruptCallback,
       UnregisterInterruptCallback, UnregisterFifoCallback, AppDrains
  <2>2. QED
    BY <1>5, <2>1 DEF Lifecycle, AppOpens, InitQueue, RegisterFifoCallback, RegisterInterruptCallback,
       UnregisterInterruptCallback, UnregisterFifoCallback, AppDrains, callbacks, irqLine, handler
<1>6. CASE DeviceEmits
  BY <1>6 DEF DeviceEmits, SetIrq, callbacks, handler, app
<1>7. CASE UNCHANGED vars
  BY <1>7 DEF vars, callbacks, irqLine, handler, app
<1>8. QED
  BY <1>0, <1>1, <1>2, <1>3, <1>4, <1>5, <1>6, <1>7 DEF Next, HostCommand, InsertFifoEventFails

(* The reading goes on, or is asked for by who releases a buffer. *)
LEMMA ReadingStep ==
    NodeInv /\ MaskIsLast /\ ReadingGoesOn /\ [Next]_vars /\ Undisturbed' => ReadingGoesOn'
<1> SUFFICES ASSUME NodeInv, MaskIsLast, ReadingGoesOn, [Next]_vars, Undisturbed' PROVE ReadingGoesOn'
  OBVIOUS
<1>0. /\ ~MayFail /\ ~AppCloses /\ event_fifo \in Seq(Packets) /\ Len(event_fifo) \in Nat
      /\ FifoThreshold \in Nat /\ num_bytes \in Nat
  BY UndisturbedStep, SizesAreNatural DEF NodeInv, TypeOK
<1>1. CASE DeviceEmits
  <2>1. Len(event_fifo') = Len(event_fifo) + 1
    BY <1>0, <1>1 DEF DeviceEmits
  <2>2. ~Untold'
    BY <1>0, <1>1, <2>1 DEF DeviceEmits, SetIrq, Untold
  <2>3. QED
    BY <2>2 DEF ReadingGoesOn
<1>2. CASE HandlerReadsStatus
  BY <1>0, <1>2 DEF HandlerReadsStatus, ReadingGoesOn, Reading, device
<1>3. CASE HandlerCallsBack
  <2>1. CASE UNCHANGED <<device, irqLine>>
    <3>1. interrupt_callback /\ (Reading /\ event_fifo # <<>> => num_bytes > 0)
      BY <1>0, <1>3 DEF HandlerCallsBack, MaskIsLast, Reading
    <3>2. Reading /\ event_fifo # <<>> => Reading'
      BY <1>3, <2>1, <3>1 DEF HandlerCallsBack, Reading, device
    <3>3. QED
      BY <1>3, <2>1, <3>2 DEF HandlerCallsBack, ReadingGoesOn, Untold, device, irqLine, freeLists, app
  <2>2. CASE SetIrq(interrupt_mask, TRUE)
    BY <2>2 DEF SetIrq, ReadingGoesOn, Untold
  <2>3. QED
    BY <1>3, <2>1, <2>2 DEF HandlerCallsBack
<1>4. CASE HandlerGetsBuffer
  BY <1>4 DEF HandlerGetsBuffer, ReadingGoesOn, Untold, Reading, device, irqLine, app
<1>5. CASE HandlerReadsFifo
  <2>1. num_bytes <= Len(event_fifo)
    BY <1>5 DEF HandlerReadsFifo, NodeInv, ReadFits
  <2>2. event_fifo' = SubSeq(event_fifo, num_bytes + 1, Len(event_fifo))
    BY <1>5 DEF HandlerReadsFifo
  <2>3. Len(event_fifo') \in Nat /\ Len(event_fifo') = Len(event_fifo) - num_bytes
    BY <1>0, <2>1, <2>2, SubSeqProperties
  <2>4. Len(event_fifo') <= Len(event_fifo) /\ (Reading => event_fifo' = <<>>)
    <3>1. event_fifo' \in Seq(Packets)
      BY <1>0, <2>1, <2>2, ReadSplits
    <3>2. Reading => Len(event_fifo') = 0
      BY <1>0, <2>1, <2>3 DEF Reading
    <3>3. QED
      BY <1>0, <2>1, <2>3, <3>1, <3>2, EmptySeq
  <2>5. Untold' => Untold /\ ~Reading
    BY <1>0, <1>5, <2>3, <2>4 DEF HandlerReadsFifo, Untold, irqLine
  <2>6. QED
    BY <1>5, <2>5 DEF HandlerReadsFifo, ReadingGoesOn, freeLists, app
<1>6. CASE HandlerDelivers
  <2>1. fifo_data_callback
    BY <1>6 DEF HandlerDelivers, MaskIsLast
  <2>2. QED
    BY <1>6, <2>1 DEF HandlerDelivers, ReadingGoesOn, Untold, Reading, device, irqLine, freeLists, app
<1>7. CASE HandlerEnters \/ HandlerMakesResult \/ HandlerReturns
  BY <1>7 DEF HandlerEnters, HandlerMakesResult, HandlerReturns, ReadingGoesOn, Untold, Reading,
     device, irqLine, freeLists, app
<1>8. CASE ReleaseNode
  <2>1. WasEmpty(appNode) \/ event_fifo_free_list' = event_fifo_free_list
        \/ event_fifo_free_list # {}
    BY <1>8 DEF ReleaseNode, Release, WasEmpty, NodeInv, TypeOK, HandsMatch, Nodes
  <2>2. QED
    BY <1>8, <2>1 DEF ReleaseNode, ReadingGoesOn, Untold, Reading, device, irqLine, handler
<1>9. CASE InsertFifoEvent
  BY <1>9 DEF InsertFifoEvent, SetIrq, ReadingGoesOn, Untold
<1>10. CASE PacketWait \/ PacketPeek \/ PacketRemove \/ PopFront \/ NextNode
  BY <1>10 DEF PacketWait, PacketPeek, PacketRemove, PopFront, NextNode, ReadingGoesOn, Untold, Reading,
     device, irqLine, freeLists, handler
<1>11. CASE WriteMask \/ Lifecycle
  <2>1. UNCHANGED <<device, interrupt_status, handler, event_fifo_free_list>> /\ appPc # "insert"
    BY <1>11 DEF WriteMask, Lifecycle, AppOpens, InitQueue, RegisterFifoCallback, RegisterInterruptCallback,
       UnregisterInterruptCallback, UnregisterFifoCallback, AppDrains, SetIrq, irqLine, freeLists
  <2>2. QED
    BY <2>1 DEF ReadingGoesOn, Untold, Reading, device, handler
<1>12. CASE UNCHANGED vars
  BY <1>12 DEF vars, ReadingGoesOn, Untold, Reading, device, irqLine, freeLists, handler, app
<1>13. QED
  BY <1>0, <1>1, <1>2, <1>3, <1>4, <1>5, <1>6, <1>7, <1>8, <1>9, <1>10, <1>11, <1>12
  DEF Next, HandlerStep, PacketLoop, HostCommand, HandlerReadFails, HandlerReadFifoFails, InsertFifoEventFails

LEMMA StrandStep == NodeInv /\ StrandInv /\ [Next]_vars => StrandInv'
<1> SUFFICES ASSUME NodeInv, StrandInv, [Next]_vars, Undisturbed'
             PROVE  (LineIsAsserted /\ MaskIsLast /\ ReadingGoesOn /\ NoNodeLeaks)'
  BY DEF StrandInv
<1>1. LineIsAsserted /\ MaskIsLast /\ ReadingGoesOn /\ NoNodeLeaks
  BY UndisturbedStep DEF StrandInv, NodeInv
<1>2. Drained
  BY <1>1 DEF Drained, MaskIsLast, Opened
<1>3. QED
  BY <1>1, <1>2, LineStep, MaskStep, ReadingStep, LeakStep DEF NodeInv

(* With a pool that is not empty, nothing is stranded, over any number of  *)
(* times that the pool runs empty and the reading is restarted by          *)
(* ex10_release_buffer_node() (the action part of AllDelivered).           *)
THEOREM NothingIsStranded ==
    ASSUME EventBuffers # {}
    PROVE  Spec => [][NoStranded']_vars
<1>1. NodeInv /\ StrandInv => NoStranded
  <2> SUFFICES ASSUME NodeInv, StrandInv, Undisturbed, interrupt_mask, irqPc = "idle", ~irq_pending,
                      Len(event_fifo) >= FifoThreshold, event_fifo # <<>>, appPc # "insert"
               PROVE  event_fifo_free_list = {} /\ (Queued \cup Held) \cap EventBuffers # {}
    BY DEF NoStranded
  <2>1. LineIsAsserted /\ ReadingGoesOn /\ NoNodeLeaks
    BY DEF StrandInv
  <2>2. ~interrupt_status
    BY <2>1 DEF LineIsAsserted
  <2>3. event_fifo_free_list = {}
    BY <2>1, <2>2 DEF ReadingGoesOn, Untold, Reading
  <2>4. result_free_list \subseteq ResultBuffers
    BY DEF NodeInv, TypeOK
  <2>5. EventBuffers \subseteq Queued \cup Held
    BY <2>1, <2>3, <2>4, PoolsAreDisjoint DEF NoNodeLeaks, Nodes
  <2>6. QED
    BY <2>3, <2>5
<1>2. QED
  BY NodeInvariant, StrandInit, StrandStep, <1>1, PTL DEF Spec

-----------------------------------------------------------------------------
(* The stream.  The packets at hand h, those of the k waiting nodes w, the *)
(* node f that was just filled, and the FIFO g of the Ex10 stand in one    *)
(* line, between the last delivered d and the last emitted e; reports of   *)
(* errors, which are 0, stand anywhere.                                    *)
Bits(list) == {list[i] : i \in 1 .. Len(list)} \ {0}
Rising(list) == \A i, j \in 1 .. Len(list) : i < j => list[i] < list[j]
Under(A, B) == \A a \in A, b \in B : a < b
Way(h, w, k, f, g) == Bits(h) \cup (UNION {Bits(w[i]) : i \in 1 .. k}) \cup Bits(f) \cup Bits(g)

Lists(h, w, k, f, g) ==
    /\ {h, f, g} \subseteq Seq(Nat) /\ k \in Nat
    /\ \A i \in 1 .. k : w[i] \in Seq(Nat)
Risings(h, w, k, f, g) ==
    /\ Rising(h) /\ Rising(f) /\ Rising(g) /\ \A i \in 1 .. k : Rising(w[i])
    /\ \A i \in 1 .. Len(g) : g[i] # 0
    /\ f = << 0 >> \/ \A i \in 1 .. Len(f) : f[i] # 0
Line(h, w, k, f, g) ==
    /\ Under(Bits(h), Bits(f)) /\ Under(Bits(h), Bits(g)) /\ Under(Bits(f), Bits(g))
    /\ \A i \in 1 .. k :
        /\ Under(Bits(h), Bits(w[i])) /\ Under(Bits(w[i]), Bits(f)) /\ Under(Bits(w[i]), Bits(g))
        /\ \A j \in 1 .. k : i < j => Under(Bits(w[i]), Bits(w[j]))
Ends(way, d, e) == d \in Nat /\ e \in Nat /\ d <= e /\ Under({d}, way) /\ way \subseteq 1 .. e
Order(h, w, k, f, g, d, e) ==
    /\ Lists(h, w, k, f, g) /\ Risings(h, w, k, f, g) /\ Line(h, w, k, f, g)
    /\ Ends(Way(h, w, k, f, g), d, e)

LEMMA LeastNumber ==
    ASSUME NEW S \in SUBSET Nat, S # {}
    PROVE  \E n \in S : \A m \in S : n <= m
<1>1. PICK n \in S : \A m \in S : <<m, n>> \notin OpToRel(<, Nat)
  BY NatLessThanWellFounded, WFMin
<1>2. \A m \in S : ~(m < n)
  BY <1>1 DEF OpToRel
<1>3. QED
  BY <1>2

LEMMA NoBits == Bits(<<>>) = {} /\ Bits(<< 0 >>) = {} /\ Rising(<<>>) /\ Rising(<< 0 >>)
BY DEF Bits, Rising

LEMMA BitsAppended ==
    ASSUME NEW list \in Seq(Nat), NEW x \in Nat, x # 0
    PROVE  /\ Append(list, x) \in Seq(Nat)
           /\ Bits(Append(list, x)) = Bits(list) \cup {x}
           /\ Rising(list) /\ (\A i \in 1 .. Len(list) : list[i] < x) => Rising(Append(list, x))
<1> DEFINE longer == Append(list, x)
<1>1. /\ longer \in Seq(Nat) /\ Len(list) \in Nat /\ Len(longer) = Len(list) + 1
      /\ \A i \in 1 .. Len(list) : longer[i] = list[i]
      /\ longer[Len(list) + 1] = x
  OBVIOUS
<1> HIDE DEF longer
<1>2. \A i \in 1 .. Len(list) + 1 : i \in 1 .. Len(list) \/ i = Len(list) + 1
  BY <1>1
<1>3. Bits(longer) = Bits(list) \cup {x}
  <2>1. ASSUME NEW p \in Bits(longer) PROVE p \in Bits(list) \cup {x}
    <3>1. PICK i \in 1 .. Len(list) + 1 : longer[i] = p
      BY <1>1, <2>1 DEF Bits
    <3>2. QED
      BY <1>1, <1>2, <2>1, <3>1 DEF Bits
  <2>2. ASSUME NEW p \in Bits(list) \cup {x} PROVE p \in Bits(longer)
    <3>1. Len(list) + 1 \in 1 .. Len(longer) /\ \A i \in 1 .. Len(list) : i \in 1 .. Len(longer)
      BY <1>1
    <3>2. QED
      BY <1>1, <2>2, <3>1 DEF Bits
  <2>3. QED
    BY <2>1, <2>2
<1>4. ASSUME Rising(list), \A i \in 1 .. Len(list) : list[i] < x PROVE Rising(longer)
  <2> SUFFICES ASSUME NEW i \in 1 .. Len(list) + 1, NEW j \in 1 .. Len(list) + 1, i < j
               PROVE  longer[i] < longer[j]
    BY <1>1 DEF Rising
  <2>1. i \in 1 .. Len(list)
    BY <1>1
  <2>2. QED
    BY <1>1, <1>2, <1>4, <2>1 DEF Rising
<1>5. QED
  BY <1>1, <1>3, <1>4 DEF longer

(* A list that rises, without a 0, is cut. *)
LEMMA BitsCut ==
    ASSUME NEW list \in Seq(Nat), NEW n \in 1 .. Len(list), Rising(list),
           \A i \in 1 .. Len(list) : list[i] # 0
    PROVE  LET front == SubSeq(list, 1, n)
               rest == SubSeq(list, n + 1, Len(list))
           IN  /\ front \in Seq(Nat) /\ rest \in Seq(Nat) /\ Rising(front) /\ Rising(rest)
               /\ \A i \in 1 .. Len(front) : front[i] # 0
               /\ \A i \in 1 .. Len(rest) : rest[i] # 0
               /\ Bits(list) = Bits(front) \cup Bits(rest) /\ Under(Bits(front), Bits(rest))
               /\ {list[1], list[n]} \subseteq Bits(list)
               /\ Bits(rest) = {p \in Bits(list) : p < list[1] \/ p > list[n]}
<1> DEFINE front == SubSeq(list, 1, n)
           rest == SubSeq(list, n + 1, Len(list))
           len == Len(list)
<1>1. len \in Nat /\ n \in Nat /\ 1 <= n /\ n <= len /\ \A i \in 1 .. len : list[i] \in Nat
  OBVIOUS
<1>2. /\ front \in Seq(Nat) /\ Len(front) = n /\ \A i \in 1 .. n : front[i] = list[i]
      /\ rest \in Seq(Nat) /\ Len(rest) = len - n
      /\ \A i \in 1 .. len - n : rest[i] = list[n + i]
  <2>1. /\ \A i \in 1 .. n : list[i] \in Nat
        /\ \A i \in n + 1 .. len : list[i] \in Nat
    BY <1>1
  <2>2. front \in Seq(Nat) /\ Len(front) = n /\ \A i \in 1 .. n : front[i] = list[i]
    BY <2>1, SubSeqProperties
  <2>3. /\ rest \in Seq(Nat) /\ Len(rest) = len - n
        /\ \A i \in 1 .. len - n : rest[i] = list[n + i]
    BY <1>1, <2>1, SubSeqProperties
  <2>4. QED
    BY <2>2, <2>3
<1>3. \A i, j \in 1 .. len : i < j => list[i] < list[j]
  BY DEF Rising
<1>4. \A i \in 1 .. len : list[i] # 0
  OBVIOUS
<1>b. Bits(list) = {list[i] : i \in 1 .. len}
  BY <1>4 DEF Bits
<1> HIDE DEF front, rest, len
<1>5. /\ \A i \in 1 .. len : i \in 1 .. n \/ (i - n \in 1 .. len - n /\ i = n + (i - n))
      /\ \A i \in 1 .. n : i \in 1 .. len
      /\ \A i \in 1 .. len - n : n + i \in 1 .. len /\ n < n + i
  BY <1>1
<1>6. Rising(front)
  BY <1>2, <1>3, <1>5 DEF Rising
<1>7. Rising(rest)
  <2> SUFFICES ASSUME NEW i \in 1 .. len - n, NEW j \in 1 .. len - n, i < j PROVE rest[i] < rest[j]
    BY <1>2 DEF Rising
  <2>1. n + i < n + j
    BY <1>1
  <2>2. QED
    BY <1>2, <1>3, <1>5, <2>1
<1>8. (\A i \in 1 .. Len(front) : front[i] # 0) /\ (\A i \in 1 .. Len(rest) : rest[i] # 0)
  <2>1. ASSUME NEW i \in 1 .. n PROVE front[i] # 0
    BY <1>2, <1>4, <1>5
  <2>2. ASSUME NEW i \in 1 .. len - n PROVE rest[i] # 0
    <3>1. n + i \in 1 .. len /\ rest[i] = list[n + i]
      BY <1>2, <1>5
    <3>2. QED
      BY <1>4, <3>1
  <2>3. QED
    BY <1>2, <2>1, <2>2
<1>9. Bits(front) = {list[i] : i \in 1 .. n} /\ Bits(rest) = {list[n + i] : i \in 1 .. len - n}
  <2>1. /\ Bits(front) = {front[i] : i \in 1 .. n} \ {0}
        /\ Bits(rest) = {rest[i] : i \in 1 .. len - n} \ {0}
    BY <1>2 DEF Bits
  <2>2. (\A i \in 1 .. n : front[i] # 0) /\ (\A i \in 1 .. len - n : rest[i] # 0)
    BY <1>2, <1>8
  <2>3. /\ {front[i] : i \in 1 .. n} = {list[i] : i \in 1 .. n}
        /\ {rest[i] : i \in 1 .. len - n} = {list[n + i] : i \in 1 .. len - n}
    <3>1. (\A i \in 1 .. n : front[i] = list[i]) /\ \A i \in 1 .. len - n : rest[i] = list[n + i]
      BY <1>2
    <3>2. {front[i] : i \in 1 .. n} = {list[i] : i \in 1 .. n}
      BY ONLY <3>1
    <3>3. {rest[i] : i \in 1 .. len - n} = {list[n + i] : i \in 1 .. len - n}
      BY ONLY <3>1, Zenon
    <3>4. QED
      BY ONLY <3>2, <3>3
  <2>4. /\ {front[i] : i \in 1 .. n} \ {0} = {front[i] : i \in 1 .. n}
        /\ {rest[i] : i \in 1 .. len - n} \ {0} = {rest[i] : i \in 1 .. len - n}
    BY <2>2
  <2>5. QED
    BY ONLY <2>1, <2>3, <2>4
<1>10. Bits(list) = Bits(front) \cup Bits(rest)
  BY <1>5, <1>9, <1>b
<1>11. 1 \in 1 .. n /\ n \in 1 .. n /\ {list[1], list[n]} \subseteq Bits(list)
  BY <1>1, <1>5, <1>b
<1>12. \A p \in Bits(front) : p \in Nat /\ list[1] <= p /\ p <= list[n]
  <2> SUFFICES ASSUME NEW i \in 1 .. n PROVE list[i] \in Nat /\ list[1] <= list[i] /\ list[i] <= list[n]
    BY <1>9
  <2>1. (i = 1 \/ 1 < i) /\ (i = n \/ i < n)
    BY <1>1
  <2>2. {list[i], list[1], list[n]} \subseteq Nat
    BY <1>1, <1>5, <1>11
  <2>3. QED
    BY <1>3, <1>5, <1>11, <2>1, <2>2
<1>13. \A p \in Bits(rest) : p \in Nat /\ list[n] < p
  BY <1>1, <1>3, <1>5, <1>9, <1>11
<1>14. list[1] \in Nat /\ list[n] \in Nat
  BY <1>1, <1>5, <1>11
<1>15. Under(Bits(front), Bits(rest))
  BY <1>12, <1>13, <1>14 DEF Under
<1>16. Bits(rest) = {p \in Bits(list) : p < list[1] \/ p > list[n]}
  BY <1>10, <1>12, <1>13, <1>14
<1>17. QED
  BY <1>2, <1>6, <1>7, <1>8, <1>10, <1>11, <1>15, <1>16 DEF front, rest, len

(* Its first element is below the others. *)
LEMMA BitsTail ==
    ASSUME NEW list \in Seq(Nat), list # <<>>, Rising(list)
    PROVE  /\ Tail(list) \in Seq(Nat) /\ Rising(Tail(list)) /\ Head(list) \in Nat
           /\ Bits(list) = Bits(Tail(list)) \cup ({Head(list)} \ {0})
           /\ \A p \in Bits(Tail(list)) : Head(list) < p
<1> DEFINE rest == Tail(list)
           len == Len(list)
           first == Head(list)
<1>1. /\ len \in Nat \ {0} /\ \A i \in 1 .. len : list[i] \in Nat
      /\ rest \in Seq(Nat) /\ Len(rest) = len - 1 /\ \A i \in 1 .. len - 1 : rest[i] = list[i + 1]
      /\ first = list[1]
  OBVIOUS
<1>2. \A i, j \in 1 .. len : i < j => list[i] < list[j]
  BY DEF Rising
<1>b. Bits(list) = {list[i] : i \in 1 .. len} \ {0}
  BY DEF Bits
<1> HIDE DEF rest, len, first
<1>3. /\ \A i \in 1 .. len : i = 1 \/ (i - 1 \in 1 .. len - 1 /\ i = (i - 1) + 1)
      /\ \A i \in 1 .. len - 1 : i + 1 \in 1 .. len /\ 1 < i + 1
      /\ 1 \in 1 .. len
  BY <1>1
<1>4. Rising(rest)
  <2> SUFFICES ASSUME NEW i \in 1 .. len - 1, NEW j \in 1 .. len - 1, i < j PROVE rest[i] < rest[j]
    BY <1>1 DEF Rising
  <2>1. i + 1 < j + 1
    BY <1>1
  <2>2. QED
    BY <1>1, <1>2, <1>3, <2>1
<1>5. Bits(rest) = {list[i + 1] : i \in 1 .. len - 1} \ {0}
  BY <1>1 DEF Bits
<1>6. Bits(list) = Bits(rest) \cup ({first} \ {0})
  <2>1. ASSUME NEW i \in 1 .. len PROVE i = 1 \/ list[i] \in {list[j + 1] : j \in 1 .. len - 1}
    <3>1. ASSUME i # 1 PROVE list[i] \in {list[j + 1] : j \in 1 .. len - 1}
      <4>1. i - 1 \in 1 .. len - 1 /\ i = (i - 1) + 1
        BY <1>3, <3>1
      <4>2. QED
        BY <4>1
    <3>2. QED
      BY <3>1
  <2>2. {list[i] : i \in 1 .. len} = {list[j + 1] : j \in 1 .. len - 1} \cup {first}
    BY <1>1, <1>3, <2>1
  <2>3. QED
    BY ONLY <1>5, <1>b, <2>2
<1>7. \A p \in Bits(rest) : first < p
  BY <1>1, <1>2, <1>3, <1>5
<1>8. first \in Nat
  BY <1>1, <1>3
<1>9. QED
  BY <1>1, <1>4, <1>6, <1>7, <1>8 DEF rest, first

(* How the line moves: what is emitted joins its end, *)
LEMMA WayEmits ==
    ASSUME NEW h, NEW w, NEW k, NEW f, NEW g, NEW d, NEW e, Order(h, w, k, f, g, d, e)
    PROVE  /\ Order(h, w, k, f, Append(g, e + 1), d, e + 1)
           /\ Way(h, w, k, f, Append(g, e + 1)) = Way(h, w, k, f, g) \cup {e + 1}
<1> DEFINE longer == Append(g, e + 1)
           B == Bits(g)
           way == Way(h, w, k, f, g)
           last == e + 1
<1>1. /\ Lists(h, w, k, f, g) /\ Risings(h, w, k, f, g) /\ Line(h, w, k, f, g) /\ Ends(way, d, e)
      /\ e \in Nat /\ last \in Nat /\ last # 0 /\ e < last /\ d \in Nat /\ g \in Seq(Nat)
  BY DEF Order, Ends, Lists
<1>2. \A p \in way : p \in 1 .. e /\ p < last /\ d < p
  BY <1>1 DEF Ends, Under
<1>3. \A i \in 1 .. Len(g) : g[i] < last
  <2>1. \A i \in 1 .. Len(g) : g[i] \in Bits(g)
    BY <1>1 DEF Bits, Risings
  <2>2. QED
    BY <1>2, <2>1 DEF Way
<1>4. /\ longer \in Seq(Nat) /\ Bits(longer) = B \cup {last} /\ Rising(longer)
      /\ \A i \in 1 .. Len(longer) : longer[i] # 0
  <2>1. longer \in Seq(Nat) /\ Bits(longer) = B \cup {last} /\ Rising(longer)
    BY <1>1, <1>3, BitsAppended DEF Risings
  <2>2. /\ Len(longer) = Len(g) + 1 /\ Len(g) \in Nat /\ longer[Len(g) + 1] = last
        /\ \A i \in 1 .. Len(g) : longer[i] = g[i]
    BY <1>1
  <2>3. ASSUME NEW i \in 1 .. Len(longer) PROVE longer[i] # 0
    <3>1. i \in 1 .. Len(g) \/ i = Len(g) + 1
      BY <2>2
    <3>2. QED
      BY <1>1, <2>2, <3>1 DEF Risings
  <2>4. QED
    BY <2>1, <2>3
<1> HIDE DEF longer, last
<1>5. Way(h, w, k, f, longer) = way \cup {last}
  BY <1>4 DEF Way
<1>6. Lists(h, w, k, f, longer) /\ Risings(h, w, k, f, longer)
  BY <1>1, <1>4 DEF Lists, Risings
<1>7. Line(h, w, k, f, longer)
  <2>1. ASSUME NEW S, S \subseteq way, Under(S, B) PROVE Under(S, Bits(longer))
    BY <1>2, <1>4, <2>1 DEF Under
  <2>2. Bits(h) \subseteq way /\ Bits(f) \subseteq way /\ \A i \in 1 .. k : Bits(w[i]) \subseteq way
    BY DEF Way
  <2>3. QED
    BY <1>1, <2>1, <2>2 DEF Line
<1>8. Ends(Way(h, w, k, f, longer), d, last)
  <2>1. d < last /\ e <= last
    BY <1>1 DEF Ends, last
  <2>2. \A p \in way \cup {last} : d < p /\ p \in 1 .. last
    BY <1>1, <1>2, <2>1
  <2>3. QED
    BY <1>1, <1>5, <2>1, <2>2 DEF Ends, Under
<1>9. QED
  BY <1>5, <1>6, <1>7, <1>8 DEF Order, longer, last

(* what is read goes from the FIFO to the node, *)
LEMMA WayReads ==
    ASSUME NEW h, NEW w, NEW k, NEW f, NEW g, NEW d, NEW e, Order(h, w, k, f, g, d, e),
           f = <<>>, NEW n \in 1 .. Len(g)
    PROVE  /\ Order(h, w, k, SubSeq(g, 1, n), SubSeq(g, n + 1, Len(g)), d, e)
           /\ Way(h, w, k, SubSeq(g, 1, n), SubSeq(g, n + 1, Len(g))) = Way(h, w, k, f, g)
<1> DEFINE front == SubSeq(g, 1, n)
           rest == SubSeq(g, n + 1, Len(g))
<1>1. Lists(h, w, k, f, g) /\ Risings(h, w, k, f, g) /\ Line(h, w, k, f, g) /\ Ends(Way(h, w, k, f, g), d, e)
  BY DEF Order
<1>2. /\ front \in Seq(Nat) /\ rest \in Seq(Nat) /\ Rising(front) /\ Rising(rest)
      /\ \A i \in 1 .. Len(front) : front[i] # 0
      /\ \A i \in 1 .. Len(rest) : rest[i] # 0
      /\ Bits(g) = Bits(front) \cup Bits(rest) /\ Under(Bits(front), Bits(rest))
  BY <1>1, BitsCut DEF Lists, Risings
<1> HIDE DEF front, rest
<1>3. Bits(f) = {}
  BY NoBits
<1>4. Way(h, w, k, front, rest) = Way(h, w, k, f, g)
  BY <1>2, <1>3 DEF Way
<1>5. Lists(h, w, k, front, rest) /\ Risings(h, w, k, front, rest)
  BY <1>1, <1>2 DEF Lists, Risings
<1>6. Line(h, w, k, front, rest)
  BY <1>1, <1>2 DEF Line, Under
<1>7. QED
  BY <1>1, <1>4, <1>5, <1>6 DEF Order, front, rest

(* or is gone; *)
LEMMA WayDrops ==
    ASSUME NEW h, NEW w, NEW k, NEW f, NEW g, NEW d, NEW e, Order(h, w, k, f, g, d, e),
           NEW n \in 1 .. Len(g)
    PROVE  /\ Order(h, w, k, f, SubSeq(g, n + 1, Len(g)), d, e)
           /\ {g[1], g[n]} \subseteq 1 .. e
           /\ Way(h, w, k, f, SubSeq(g, n + 1, Len(g)))
                = {p \in Way(h, w, k, f, g) : p < g[1] \/ p > g[n]}
<1> DEFINE rest == SubSeq(g, n + 1, Len(g))
           first == g[1]
           last == g[n]
           before == Bits(h) \cup (UNION {Bits(w[i]) : i \in 1 .. k}) \cup Bits(f)
<1>1. Lists(h, w, k, f, g) /\ Risings(h, w, k, f, g) /\ Line(h, w, k, f, g) /\ Ends(Way(h, w, k, f, g), d, e)
  BY DEF Order
<1>2. /\ rest \in Seq(Nat) /\ Rising(rest) /\ \A i \in 1 .. Len(rest) : rest[i] # 0
      /\ {first, last} \subseteq Bits(g) /\ Bits(rest) = {p \in Bits(g) : p < first \/ p > last}
  BY <1>1, BitsCut DEF Lists, Risings
<1> HIDE DEF rest, first, last
<1>3. Bits(rest) \subseteq Bits(g)
  BY <1>2
<1>4. Way(h, w, k, f, g) = before \cup Bits(g) /\ Way(h, w, k, f, rest) = before \cup Bits(rest)
  BY DEF Way
<1>5. \A p \in before : p < first
  BY <1>1, <1>2 DEF Line, Under
<1> HIDE DEF before
<1>6. Way(h, w, k, f, rest) = {p \in Way(h, w, k, f, g) : p < first \/ p > last}
  BY <1>2, <1>4, <1>5
<1>7. {first, last} \subseteq 1 .. e /\ Ends(Way(h, w, k, f, rest), d, e)
  BY <1>1, <1>2, <1>4, <1>6 DEF Ends, Under
<1>8. Lists(h, w, k, f, rest) /\ Risings(h, w, k, f, rest)
  BY <1>1, <1>2 DEF Lists, Risings
<1>9. Line(h, w, k, f, rest)
  BY <1>1, <1>3 DEF Line, Under
<1>10. QED
  BY <1>6, <1>7, <1>8, <1>9 DEF Order, rest, first, last

(* a node that is queued waits behind the others, with its packets or with *)
(* an error;                                                               *)
LEMMA WayQueues ==
    ASSUME NEW h, NEW w, NEW k, NEW f, NEW g, NEW d, NEW e, Order(h, w, k, f, g, d, e), NEW v, NEW rest,
           \A i \in 1 .. k : v[i] = w[i],
           (v[k + 1] = f /\ rest = <<>>) \/ (v[k + 1] = << 0 >> /\ rest = f)
    PROVE  Order(h, v, k + 1, rest, g, d, e) /\ Way(h, v, k + 1, rest, g) = Way(h, w, k, f, g)
<1> DEFINE new == k + 1
<1>1. Lists(h, w, k, f, g) /\ Risings(h, w, k, f, g) /\ Line(h, w, k, f, g) /\ Ends(Way(h, w, k, f, g), d, e)
  BY DEF Order
<1>2. /\ k \in Nat /\ new \in 1 .. new /\ \A i \in 1 .. new : i \in 1 .. k \/ i = new
      /\ \A i \in 1 .. k : i \in 1 .. new /\ i < new
  BY <1>1 DEF Lists
<1>3. /\ rest \in Seq(Nat) /\ v[new] \in Seq(Nat) /\ Rising(rest) /\ Rising(v[new])
      /\ rest = << 0 >> \/ \A i \in 1 .. Len(rest) : rest[i] # 0
      /\ Bits(v[new]) \cup Bits(rest) = Bits(f)
      /\ Bits(v[new]) = {} \/ Bits(rest) = {}
  <2>1. CASE v[new] = f /\ rest = <<>>
    BY <1>1, <2>1, NoBits DEF Lists, Risings
  <2>2. CASE v[new] = << 0 >> /\ rest = f
    <3>1. << 0 >> \in Seq(Nat)
      OBVIOUS
    <3>2. QED
      BY <1>1, <2>2, <3>1, NoBits DEF Lists, Risings
  <2>3. QED
    BY <2>1, <2>2
<1> HIDE DEF new
<1>4. UNION {Bits(v[i]) : i \in 1 .. new} = (UNION {Bits(w[i]) : i \in 1 .. k}) \cup Bits(v[new])
  <2>1. ASSUME NEW p \in UNION {Bits(v[i]) : i \in 1 .. new}
        PROVE  p \in (UNION {Bits(w[i]) : i \in 1 .. k}) \cup Bits(v[new])
    BY <1>2
  <2>2. ASSUME NEW p \in (UNION {Bits(w[i]) : i \in 1 .. k}) \cup Bits(v[new])
        PROVE  p \in UNION {Bits(v[i]) : i \in 1 .. new}
    BY <1>2
  <2>3. QED
    BY <2>1, <2>2
<1>5. Way(h, v, new, rest, g) = Way(h, w, k, f, g)
  BY <1>3, <1>4, Zenon DEF Way
<1>6. Lists(h, v, new, rest, g)
  <2>1. {h, rest, g} \subseteq Seq(Nat) /\ new \in Nat
    BY <1>1, <1>2, <1>3 DEF Lists, new
  <2>2. \A i \in 1 .. new : v[i] \in Seq(Nat)
    BY <1>1, <1>2, <1>3 DEF Lists
  <2>3. QED
    BY <2>1, <2>2 DEF Lists
<1>7. Risings(h, v, new, rest, g)
  BY <1>1, <1>2, <1>3 DEF Risings
<1>8. Line(h, v, new, rest, g)
  <2>1. Under(Bits(h), Bits(rest)) /\ Under(Bits(h), Bits(g)) /\ Under(Bits(rest), Bits(g))
    BY <1>1, <1>3 DEF Line, Under
  <2>2. /\ Under(Bits(h), Bits(v[new])) /\ Under(Bits(v[new]), Bits(rest))
        /\ Under(Bits(v[new]), Bits(g))
    BY <1>1, <1>3 DEF Line, Under
  <2>3. ASSUME NEW i \in 1 .. k
        PROVE  /\ Under(Bits(h), Bits(v[i])) /\ Under(Bits(v[i]), Bits(rest)) /\ Under(Bits(v[i]), Bits(g))
               /\ Under(Bits(v[i]), Bits(v[new]))
               /\ \A j \in 1 .. k : i < j => Under(Bits(v[i]), Bits(v[j]))
    BY <1>1, <1>3 DEF Line, Under
  <2>4. \A i \in 1 .. new, j \in 1 .. new : i < j => i \in 1 .. k
    BY <1>2
  <2>5. QED
    BY <1>2, <2>1, <2>2, <2>3, <2>4 DEF Line
<1>9. QED
  BY <1>1, <1>5, <1>6, <1>7, <1>8 DEF Order, new

(* an error takes the place of no packet; *)
LEMMA WayMakes ==
    ASSUME NEW h, NEW w, NEW k, NEW f, NEW g, NEW d, NEW e, Order(h, w, k, f, g, d, e), f = <<>>
    PROVE  Order(h, w, k, << 0 >>, g, d, e) /\ Way(h, w, k, << 0 >>, g) = Way(h, w, k, f, g)
<1>1. Bits(f) = {} /\ Bits(<< 0 >>) = {} /\ Rising(<< 0 >>)
  BY NoBits
<1>2. << 0 >> \in Seq(Nat)
  OBVIOUS
<1> DEFINE zero == << 0 >>
<1>3. zero = << 0 >>
  OBVIOUS
<1> HIDE DEF zero
<1>4. Way(h, w, k, zero, g) = Way(h, w, k, f, g)
  BY <1>1, <1>3 DEF Way
<1>5. Lists(h, w, k, zero, g) /\ Risings(h, w, k, zero, g) /\ Line(h, w, k, zero, g)
  BY <1>1, <1>2, <1>3 DEF Order, Lists, Risings, Line
<1>6. QED
  BY <1>3, <1>4, <1>5 DEF Order

(* without a consumer the packets of the filled node are gone;            *)
LEMMA WayReleases ==
    ASSUME NEW h, NEW w, NEW k, NEW f, NEW g, NEW d, NEW e, Order(h, w, k, f, g, d, e)
    PROVE  /\ Order(h, w, k, <<>>, g, d, e)
           /\ \/ Way(h, w, k, <<>>, g) = Way(h, w, k, f, g)
              \/ \E first, last \in 1 .. e :
                    Way(h, w, k, <<>>, g) = {p \in Way(h, w, k, f, g) : p < first \/ p > last}
<1> DEFINE none == <<>>
           before == Bits(h) \cup (UNION {Bits(w[i]) : i \in 1 .. k})
           first == f[1]
           last == f[Len(f)]
<1>0. none \in Seq(Nat) /\ \A i \in 1 .. Len(none) : FALSE
  OBVIOUS
<1>1. Lists(h, w, k, f, g) /\ Risings(h, w, k, f, g) /\ Line(h, w, k, f, g) /\ Ends(Way(h, w, k, f, g), d, e)
  BY DEF Order
<1>2. Bits(none) = {} /\ Rising(none)
  BY NoBits
<1>p. none = <<>>
  OBVIOUS
<1> HIDE DEF none
<1>3. Way(h, w, k, f, g) = before \cup Bits(f) \cup Bits(g) /\ Way(h, w, k, none, g) = before \cup Bits(g)
  BY <1>2 DEF Way
<1>4. (\A p \in before, q \in Bits(f) : p < q) /\ (\A p \in Bits(f), q \in Bits(g) : p < q)
  BY <1>1 DEF Line, Under
<1> HIDE DEF before
<1>5. Lists(h, w, k, none, g) /\ Risings(h, w, k, none, g) /\ Line(h, w, k, none, g)
  BY <1>0, <1>1, <1>2 DEF Lists, Risings, Line, Under
<1>6. Ends(Way(h, w, k, none, g), d, e)
  BY <1>1, <1>3 DEF Ends, Under
<1>7. CASE f = <<>> \/ f = << 0 >>
  <2>1. Bits(f) = {}
    BY <1>7, NoBits
  <2>2. QED
    BY <1>3, <1>5, <1>6, <1>p, <2>1 DEF Order
<1>8. CASE f # <<>> /\ f # << 0 >>
  <2>1. f \in Seq(Nat) /\ Len(f) \in 1 .. Len(f) /\ Rising(f) /\ \A i \in 1 .. Len(f) : f[i] # 0
    BY <1>1, <1>8 DEF Lists, Risings
  <2>2. /\ Bits(f) = Bits(SubSeq(f, 1, Len(f))) \cup Bits(SubSeq(f, Len(f) + 1, Len(f)))
        /\ {first, last} \subseteq Bits(f)
        /\ Bits(SubSeq(f, Len(f) + 1, Len(f))) = {p \in Bits(f) : p < first \/ p > last}
    BY <2>1, BitsCut
  <2>3. Bits(SubSeq(f, Len(f) + 1, Len(f))) = {}
    <3>1. SubSeq(f, Len(f) + 1, Len(f)) = <<>>
      BY <2>1
    <3>2. QED
      BY <3>1, NoBits
  <2> HIDE DEF first, last
  <2>4. \A p \in Bits(f) : ~(p < first \/ p > last)
    BY <2>2, <2>3
  <2>5. {first, last} \subseteq 1 .. e
    BY <1>1, <1>3, <2>2 DEF Ends
  <2>6. \A p \in before \cup Bits(g) : p < first \/ p > last
    <3>1. Bits(g) \subseteq 1 .. e
      BY <1>1, <1>3 DEF Ends
    <3>2. QED
      BY <1>4, <2>2, <2>5, <3>1
  <2>7. Way(h, w, k, none, g) = {p \in Way(h, w, k, f, g) : p < first \/ p > last}
    BY <1>3, <2>4, <2>6
  <2>8. QED
    BY <1>5, <1>6, <1>p, <2>5, <2>7 DEF Order
<1>9. QED
  BY <1>7, <1>8

(* the first node that waits is taken in hand;                             *)
LEMMA WayTakes ==
    ASSUME NEW h, NEW w, NEW k, NEW f, NEW g, NEW d, NEW e, Order(h, w, k, f, g, d, e), NEW v,
           h = <<>>, k > 0, \A i \in 1 .. k - 1 : v[i] = w[i + 1]
    PROVE  Order(w[1], v, k - 1, f, g, d, e) /\ Way(w[1], v, k - 1, f, g) = Way(h, w, k, f, g)
<1> DEFINE left == k - 1
           first == w[1]
<1>1. Lists(h, w, k, f, g) /\ Risings(h, w, k, f, g) /\ Line(h, w, k, f, g) /\ Ends(Way(h, w, k, f, g), d, e)
  BY DEF Order
<1>2. /\ left \in Nat /\ 1 \in 1 .. k /\ \A i \in 1 .. k : i = 1 \/ (i - 1 \in 1 .. left /\ i = (i - 1) + 1)
      /\ \A i \in 1 .. left : i + 1 \in 1 .. k /\ 1 < i + 1
  BY <1>1 DEF Lists
<1>3. \A i \in 1 .. left, j \in 1 .. left : i < j => i + 1 < j + 1
  BY <1>2
<1>4. first \in Seq(Nat) /\ Rising(first) /\ Bits(h) = {}
  BY <1>1, <1>2, NoBits DEF Lists, Risings
<1>5. \A i \in 1 .. left : v[i] = w[i + 1] /\ v[i] \in Seq(Nat) /\ Rising(v[i])
  BY <1>1, <1>2 DEF Lists, Risings
<1>6. UNION {Bits(w[i]) : i \in 1 .. k} = Bits(first) \cup UNION {Bits(v[i]) : i \in 1 .. left}
  <2>1. ASSUME NEW p \in UNION {Bits(w[i]) : i \in 1 .. k}
        PROVE  p \in Bits(first) \cup UNION {Bits(v[i]) : i \in 1 .. left}
    <3>1. PICK i \in 1 .. k : p \in Bits(w[i])
      BY <2>1
    <3>2. CASE i # 1
      <4>1. i - 1 \in 1 .. left /\ v[i - 1] = w[i]
        BY <1>2, <1>5, <3>2
      <4>2. QED
        BY <3>1, <4>1
    <3>3. QED
      BY <3>1, <3>2
  <2>2. ASSUME NEW p \in Bits(first) \cup UNION {Bits(v[i]) : i \in 1 .. left}
        PROVE  p \in UNION {Bits(w[i]) : i \in 1 .. k}
    BY <1>2, <1>5
  <2>3. QED
    BY <2>1, <2>2
<1> HIDE DEF left, first
<1>7. Way(first, v, left, f, g) = Way(h, w, k, f, g)
  BY <1>4, <1>6, Zenon DEF Way
<1>8. Lists(first, v, left, f, g) /\ Risings(first, v, left, f, g)
  BY <1>1, <1>2, <1>4, <1>5 DEF Lists, Risings
<1>9. Line(first, v, left, f, g)
  <2>1. /\ Under(Bits(first), Bits(f)) /\ Under(Bits(first), Bits(g)) /\ Under(Bits(f), Bits(g))
        /\ \A i \in 1 .. left : Under(Bits(first), Bits(w[i + 1]))
    BY <1>1, <1>2 DEF Line, first
  <2>2. \A i \in 1 .. left :
          /\ Under(Bits(w[i + 1]), Bits(f)) /\ Under(Bits(w[i + 1]), Bits(g))
          /\ \A j \in 1 .. left : i < j => Under(Bits(w[i + 1]), Bits(w[j + 1]))
    BY <1>1, <1>2, <1>3 DEF Line
  <2>3. QED
    BY <1>5, <2>1, <2>2 DEF Line
<1>10. QED
  BY <1>1, <1>7, <1>8, <1>9 DEF Order, left, first

(* and its packets are delivered, the first of all first;                  *)
LEMMA WayConsumes ==
    ASSUME NEW h, NEW w, NEW k, NEW f, NEW g, NEW d, NEW e, Order(h, w, k, f, g, d, e), h # <<>>
    PROVE  /\ Order(Tail(h), w, k, f, g, IF Head(h) = 0 THEN d ELSE Head(h), e)
           /\ Way(Tail(h), w, k, f, g) = Way(h, w, k, f, g) \ ({Head(h)} \ {0})
           /\ Head(h) # 0 => /\ Head(h) \in Way(h, w, k, f, g)
                             /\ \A p \in Way(h, w, k, f, g) : Head(h) <= p
<1> DEFINE rest == Tail(h)
           first == Head(h)
           other == (UNION {Bits(w[i]) : i \in 1 .. k}) \cup Bits(f) \cup Bits(g)
           way == Way(h, w, k, f, g)
           now == IF first = 0 THEN d ELSE first
<1>1. Lists(h, w, k, f, g) /\ Risings(h, w, k, f, g) /\ Line(h, w, k, f, g) /\ Ends(way, d, e)
  BY DEF Order
<1>2. /\ rest \in Seq(Nat) /\ Rising(rest) /\ first \in Nat
      /\ Bits(h) = Bits(rest) \cup ({first} \ {0}) /\ \A p \in Bits(rest) : first < p
  BY <1>1, BitsTail DEF Lists, Risings
<1> HIDE DEF rest, first
<1>3. way = Bits(h) \cup other /\ Way(rest, w, k, f, g) = Bits(rest) \cup other
  BY DEF Way
<1>4. \A p \in Bits(h), q \in other : p < q
  BY <1>1 DEF Line, Under
<1>5. \A p \in way : p \in 1 .. e /\ d < p
  BY <1>1 DEF Ends, Under
<1> HIDE DEF other, way
<1>6. first # 0 => first \in way /\ \A p \in way : first <= p
  <2> SUFFICES ASSUME first # 0 PROVE first \in way /\ \A p \in way : first <= p
    OBVIOUS
  <2>1. first \in Bits(h) /\ first \in way
    BY <1>2, <1>3
  <2>2. ASSUME NEW p \in way PROVE first <= p
    <3>1. p = first \/ p \in Bits(rest) \/ p \in other
      BY <1>2, <1>3
    <3>2. first < p \/ p = first
      BY <1>2, <1>4, <2>1, <3>1
    <3>3. p \in Nat
      BY <1>5
    <3>4. QED
      BY <1>2, <3>2, <3>3
  <2>3. QED
    BY <2>1, <2>2
<1>7. Way(rest, w, k, f, g) = way \ ({first} \ {0})
  <2>1. ASSUME first = 0 PROVE Way(rest, w, k, f, g) = way
    BY <1>2, <1>3, <2>1
  <2>2. ASSUME first # 0 PROVE Way(rest, w, k, f, g) = way \ {first}
    <3>1. first \notin Bits(rest) /\ first \notin other
      BY <1>2, <1>4, <2>2
    <3>2. QED
      BY <1>2, <1>3, <2>2, <3>1
  <2>3. QED
    BY <2>1, <2>2
<1>8. Ends(Way(rest, w, k, f, g), now, e)
  <2>1. d \in Nat /\ e \in Nat /\ d <= e
    BY <1>1 DEF Ends
  <2>2. \A p \in Way(rest, w, k, f, g) : p \in way /\ now < p
    BY <1>2, <1>3, <1>4, <1>5, <1>7
  <2>3. now \in Nat /\ now <= e
    BY <1>2, <1>5, <1>6, <2>1
  <2>4. QED
    BY <1>5, <2>1, <2>2, <2>3 DEF Ends, Under
<1>9. Lists(rest, w, k, f, g) /\ Risings(rest, w, k, f, g) /\ Line(rest, w, k, f, g)
  BY <1>1, <1>2 DEF Lists, Risings, Line, Under
<1>10. QED
  BY <1>6, <1>7, <1>8, <1>9 DEF Order, rest, first, way

(* an init() with packets in the queue forgets them.                       *)
LEMMA WayForgets ==
    ASSUME NEW h, NEW w, NEW k, NEW f, NEW g, NEW d, NEW e, Order(h, w, k, f, g, d, e), NEW v
    PROVE  /\ Order(<<>>, v, 0, f, g, d, e)
           /\ \/ Way(<<>>, v, 0, f, g) = Way(h, w, k, f, g)
              \/ \E first, last \in 1 .. e :
                    Way(<<>>, v, 0, f, g) = {p \in Way(h, w, k, f, g) : p < first \/ p > last}
           /\ h = <<>> /\ k = 0 => Way(<<>>, v, 0, f, g) = Way(h, w, k, f, g)
<1> DEFINE none == <<>>
           gone == Bits(h) \cup UNION {Bits(w[i]) : i \in 1 .. k}
           kept == Bits(f) \cup Bits(g)
           way == Way(h, w, k, f, g)
<1>1. Lists(h, w, k, f, g) /\ Risings(h, w, k, f, g) /\ Line(h, w, k, f, g) /\ Ends(way, d, e)
  BY DEF Order
<1>2. none \in Seq(Nat) /\ Bits(none) = {} /\ Rising(none) /\ none = <<>>
  BY NoBits
<1> HIDE DEF none
<1>3. 1 .. 0 = {} /\ UNION {Bits(v[i]) : i \in 1 .. 0} = {}
  OBVIOUS
<1>4. way = gone \cup kept /\ Way(none, v, 0, f, g) = kept
  BY <1>2, <1>3 DEF Way
<1>5. \A p \in gone, q \in kept : p < q
  BY <1>1 DEF Line, Under
<1>6. \A p \in way : p \in 1 .. e /\ d < p
  BY <1>1 DEF Ends, Under
<1>7. h = <<>> /\ k = 0 => gone = {}
  BY <1>3, NoBits
<1>8. Lists(none, v, 0, f, g) /\ Risings(none, v, 0, f, g) /\ Line(none, v, 0, f, g)
  BY <1>1, <1>2, <1>3 DEF Lists, Risings, Line, Under
<1> HIDE DEF gone, way
<1>9. Ends(Way(none, v, 0, f, g), d, e)
  BY <1>1, <1>4 DEF Ends, Under
<1>10. \/ kept = way
       \/ \E first, last \in 1 .. e : kept = {p \in way : p < first \/ p > last}
  <2> SUFFICES ASSUME kept # way
               PROVE  \E first, last \in 1 .. e : kept = {p \in way : p < first \/ p > last}
    OBVIOUS
  <2>1. PICK lost \in gone : TRUE
    BY <1>4
  <2>2. lost \in 1 .. e /\ e \in Nat /\ 1 \in 1 .. e /\ e \in 1 .. e
    BY <1>1, <1>4, <1>6 DEF Ends
  <2>3. ASSUME NEW last \in 1 .. e, \A p \in gone : p <= last, \A p \in kept : p > last
        PROVE  kept = {p \in way : p < 1 \/ p > last}
    BY <1>4, <1>6, <2>3
  <2>4. CASE kept = {}
    <3>1. \A p \in gone : p <= e
      BY <1>4, <1>6
    <3>2. kept = {p \in way : p < 1 \/ p > e}
      BY <2>2, <2>3, <2>4, <3>1
    <3>3. QED
      BY <2>2, <3>2
  <2>5. ASSUME NEW start \in kept, \A p \in kept : start <= p
        PROVE  \E first, last \in 1 .. e : kept = {p \in way : p < first \/ p > last}
    <3>1. start \in 1 .. e /\ lost < start
      BY <1>4, <1>5, <1>6, <2>1
    <3>2. start - 1 \in 1 .. e
      BY <2>2, <3>1
    <3>3. \A p \in gone : p <= start - 1
      BY <1>4, <1>5, <1>6, <3>1
    <3>4. \A p \in kept : p > start - 1
      BY <1>4, <1>6, <2>5, <3>1
    <3>5. QED
      BY <2>2, <2>3, <3>2, <3>3, <3>4
  <2>6. CASE kept # {}
    <3>1. kept \subseteq Nat
      BY <1>1, <1>4, <1>6
    <3>2. PICK start \in kept : \A p \in kept : start <= p
      BY <2>6, <3>1, LeastNumber
    <3>3. QED
      BY <2>5, <3>2
  <2>7. QED
    BY <2>4, <2>6
<1>11. QED
  BY <1>2, <1>4, <1>7, <1>8, <1>9, <1>10 DEF Order, way

-----------------------------------------------------------------------------
(* The line that the path's own state stands for. *)
Waiting == [i \in 1 .. Len(Unparsed) |-> fifo_data[Unparsed[i]]]
OnWay == Way(AtHand, Waiting, Len(Unparsed), Filled, event_fifo)
InOrder == Order(AtHand, Waiting, Len(Unparsed), Filled, event_fifo, delivered, emitted)
MayLose == MaxFailures > 0 \/ MayClose
ClosedIfAllowed == reopened => MayClose

Stays == OnWay' = OnWay /\ UNCHANGED <<emitted, delivered>>
Emits == emitted' = emitted + 1 /\ OnWay' = OnWay \cup {emitted + 1} /\ UNCHANGED delivered
Delivers ==
    /\ delivered' \in OnWay /\ \A p \in OnWay : delivered' <= p
    /\ OnWay' = OnWay \ {delivered'} /\ UNCHANGED emitted
Loses ==
    /\ MayLose /\ UNCHANGED <<emitted, delivered>>
    /\ \E first, last \in 1 .. emitted : OnWay' = {p \in OnWay : p < first \/ p > last}
Moves == Stays \/ Emits \/ Delivers \/ Loses

(* The nodes that wait are queued ones, *)
LEMMA UnparsedNodes ==
    NodeInv => Unparsed \in Seq(Nodes) /\ \A i \in 1 .. Len(Unparsed) : Unparsed[i] \in Queued
<1> SUFFICES ASSUME NodeInv
             PROVE  Unparsed \in Seq(Nodes) /\ \A i \in 1 .. Len(Unparsed) : Unparsed[i] \in Queued
  OBVIOUS
<1>1. event_fifo_list \in Seq(Nodes) /\ IsInjective(event_fifo_list)
  BY DEF NodeInv, TypeOK, NodesAreNotShared
<1>2. ASSUME NEW list \in Seq(Nodes), ToSet(list) \subseteq Queued
      PROVE  \A i \in 1 .. Len(list) : list[i] \in Queued
  BY <1>2 DEF ToSet
<1>3. CASE Unparsed = event_fifo_list
  BY <1>1, <1>2, <1>3 DEF Queued
<1>4. CASE Unparsed # event_fifo_list
  <2>1. Unparsed = Tail(event_fifo_list) /\ event_fifo_list # <<>>
    BY <1>4 DEF Unparsed, NodeInv, IteratorIsFront
  <2>2. Tail(event_fifo_list) \in Seq(Nodes) /\ ToSet(Tail(event_fifo_list)) \subseteq Queued
    BY <1>1, <2>1, TailElements DEF Queued
  <2>3. QED
    BY <1>2, <2>1, <2>2
<1>5. QED
  BY <1>3, <1>4

(* so no step changes what they hold; *)
LEMMA WaitingIsKept ==
    NodeInv /\ Next => Waiting = [i \in 1 .. Len(Unparsed) |-> fifo_data'[Unparsed[i]]]
BY UnparsedNodes, QueuedDataIsKept DEF Waiting

(* nor does a step of the application change what the monitor thread is    *)
(* about to deliver.                                                       *)
LEMMA FilledIsKept ==
    ASSUME NodeInv, UNCHANGED <<irqPc, irqNode>>,
           UNCHANGED fifo_data \/ irqPc # "deliver" \/ (appNode \in Nodes \ {irqNode} /\ Release(appNode))
    PROVE  Filled' = Filled
<1>1. irqPc = "deliver" => irqNode \in Nodes
  BY DEF NodeInv, TypeOK, HandsMatch
<1>2. irqPc = "deliver" => fifo_data'[irqNode] = fifo_data[irqNode]
  BY <1>1, ReleaseEffect DEF NodeInv
<1>3. QED
  BY <1>2 DEF Filled

LEMMA StaysInOrder ==
    ASSUME NodeInv, InOrder, Next, AtHand' = AtHand, Unparsed' = Unparsed, Filled' = Filled,
           UNCHANGED <<event_fifo, emitted, delivered>>
    PROVE  InOrder' /\ Stays
<1>1. Waiting' = Waiting
  BY WaitingIsKept DEF Waiting
<1>2. QED
  BY <1>1 DEF InOrder, Stays, OnWay

(* The application's side does not move with the monitor thread or the Ex10 *)
(* as long as they do not queue.                                            *)
LEMMA SameHand ==
    ASSUME UNCHANGED <<event_fifo_list, appPc, event_packets_iterator, iterator_left, event_packet>>
    PROVE  AtHand' = AtHand /\ Unparsed' = Unparsed
BY DEF AtHand, Unparsed

(* A queued node waits last. *)
LEMMA UnparsedAppended ==
    ASSUME NodeInv, NEW node \in Nodes, event_fifo_list' = Append(event_fifo_list, node),
           UNCHANGED <<appPc, event_packets_iterator, iterator_left, event_packet>>
    PROVE  AtHand' = AtHand /\ Unparsed' = Append(Unparsed, node)
<1>1. AtHand' = AtHand
  BY DEF AtHand
<1>2. event_fifo_list \in Seq(Nodes)
  BY DEF NodeInv, TypeOK
<1>3. CASE event_packets_iterator = NoNode \/ appPc \in {"release", "insert", "next"}
  BY <1>1, <1>3 DEF Unparsed
<1>4. CASE ~(event_packets_iterator = NoNode \/ appPc \in {"release", "insert", "next"})
  <2>1. event_fifo_list # <<>>
    BY <1>4 DEF NodeInv, IteratorIsFront
  <2>2. Tail(Append(event_fifo_list, node)) = Append(Tail(event_fifo_list), node)
    BY <1>2, <2>1
  <2>3. QED
    BY <1>1, <1>4, <2>2 DEF Unparsed
<1>5. QED
  BY <1>3, <1>4

LEMMA QueuesInOrder ==
    ASSUME NodeInv, InOrder, Next, NEW node \in Nodes,
           AtHand' = AtHand, Unparsed' = Append(Unparsed, node),
           UNCHANGED <<event_fifo, emitted, delivered>>,
           \/ fifo_data'[node] = Filled /\ Filled' = <<>>
           \/ fifo_data'[node] = << 0 >> /\ Filled' = Filled
    PROVE  InOrder' /\ Stays
<1> DEFINE len == Len(Unparsed)
<1>1. AtHand' = AtHand /\ Unparsed' = Append(Unparsed, node) /\ Unparsed \in Seq(Nodes)
  BY UnparsedNodes
<1>2. /\ len \in Nat /\ Len(Unparsed') = len + 1 /\ Unparsed'[len + 1] = node
      /\ \A i \in 1 .. len : Unparsed'[i] = Unparsed[i]
  BY <1>1
<1>3. Waiting' = [i \in 1 .. len + 1 |-> fifo_data'[Unparsed'[i]]]
  BY <1>2 DEF Waiting
<1>4. Waiting'[len + 1] = fifo_data'[node] /\ \A i \in 1 .. len : Waiting'[i] = Waiting[i]
  <2>1. len + 1 \in 1 .. len + 1 /\ \A i \in 1 .. len : i \in 1 .. len + 1
    BY <1>2
  <2>2. \A i \in 1 .. len : Waiting[i] = fifo_data'[Unparsed[i]]
    BY WaitingIsKept
  <2>3. QED
    BY <1>2, <1>3, <2>1, <2>2
<1>5. Order(AtHand, Waiting, len, Filled, event_fifo, delivered, emitted)
  BY DEF InOrder
<1>6. (Waiting'[len + 1] = Filled /\ Filled' = <<>>) \/ (Waiting'[len + 1] = << 0 >> /\ Filled' = Filled)
  BY <1>4
<1> HIDE DEF len
<1>7. /\ Order(AtHand, Waiting', len + 1, Filled', event_fifo, delivered, emitted)
      /\ Way(AtHand, Waiting', len + 1, Filled', event_fifo) = Way(AtHand, Waiting, len, Filled, event_fifo)
  BY <1>4, <1>5, <1>6, WayQueues
<1>8. QED
  BY <1>1, <1>2, <1>7 DEF InOrder, Stays, OnWay, len

LEMMA WaitingStays ==
    ASSUME NodeInv, Next, Unparsed' = Unparsed
    PROVE  Waiting' = Waiting /\ Len(Unparsed') = Len(Unparsed)
BY WaitingIsKept DEF Waiting

LEMMA EmitMoves ==
    ASSUME NodeInv, InOrder, Next, AtHand' = AtHand, Unparsed' = Unparsed, Filled' = Filled,
           emitted' = emitted + 1, event_fifo' = Append(event_fifo, emitted + 1), UNCHANGED delivered
    PROVE  InOrder' /\ Emits
<1>1. Waiting' = Waiting /\ Len(Unparsed') = Len(Unparsed)
  BY WaitingStays
<1>2. /\ Order(AtHand, Waiting, Len(Unparsed), Filled, Append(event_fifo, emitted + 1), delivered, emitted + 1)
      /\ Way(AtHand, Waiting, Len(Unparsed), Filled, Append(event_fifo, emitted + 1)) = OnWay \cup {emitted + 1}
  BY WayEmits DEF InOrder, OnWay
<1>3. QED
  BY <1>1, <1>2 DEF InOrder, OnWay, Emits

(* What may be lost is lost in a run of neighbours, or nothing is. *)
LEMMA LossMoves ==
    ASSUME InOrder, UNCHANGED <<emitted, delivered>>, MayLose \/ OnWay' = OnWay,
           \/ OnWay' = OnWay
           \/ \E first, last \in 1 .. emitted : OnWay' = {p \in OnWay : p < first \/ p > last}
    PROVE  Moves
BY DEF Moves, Stays, Loses

(* Packets are lost only where the stream allows it. *)
LEMMA FailureAllows == TypeOK /\ MayFail => MayLose
BY SizesAreNatural DEF TypeOK, MayFail, MayLose

LEMMA DisturbedAllows == TypeOK /\ ClosedIfAllowed /\ ~Undisturbed => MayLose
BY SizesAreNatural DEF TypeOK, ClosedIfAllowed, Undisturbed, MayLose

(* The read moves the packets into the node, *)
LEMMA ReadMoves ==
    ASSUME NodeInv, InOrder, HandlerReadsFifo
    PROVE  InOrder' /\ Moves
<1> DEFINE front == SubSeq(event_fifo, 1, num_bytes)
           rest == SubSeq(event_fifo, num_bytes + 1, Len(event_fifo))
<1>1. num_bytes \in 1 .. Len(event_fifo)
  BY DEF NodeInv, TypeOK, ReadFits, HandlerReadsFifo
<1>2. Filled = <<>> /\ Filled' = front /\ event_fifo' = rest
  BY DEF NodeInv, TypeOK, HandsMatch, HandlerReadsFifo, Filled
<1>3. Next /\ UNCHANGED <<emitted, delivered>> /\ AtHand' = AtHand /\ Unparsed' = Unparsed
  BY SameHand DEF Next, HandlerStep, HandlerReadsFifo, app, iterator
<1>4. Waiting' = Waiting /\ Len(Unparsed') = Len(Unparsed)
  BY <1>3, WaitingStays
<1>5. Order(AtHand, Waiting, Len(Unparsed), Filled, event_fifo, delivered, emitted)
  BY DEF InOrder
<1>6. /\ Order(AtHand, Waiting, Len(Unparsed), front, rest, delivered, emitted)
      /\ Way(AtHand, Waiting, Len(Unparsed), front, rest) = Way(AtHand, Waiting, Len(Unparsed), Filled, event_fifo)
  BY <1>1, <1>2, <1>5, WayReads
<1> HIDE DEF front, rest
<1>7. QED
  BY <1>2, <1>3, <1>4, <1>6 DEF InOrder, OnWay, Moves, Stays

(* or fails, with or without them; *)
LEMMA FailedReadMoves ==
    ASSUME NodeInv, InOrder, HandlerReadFifoFails
    PROVE  InOrder' /\ Moves
<1> DEFINE rest == SubSeq(event_fifo, num_bytes + 1, Len(event_fifo))
<1>1. num_bytes \in 1 .. Len(event_fifo) /\ TypeOK
  BY DEF NodeInv, TypeOK, ReadFits, HandlerReadFifoFails
<1>2. Filled' = Filled /\ MayFail /\ event_fifo' \in {event_fifo, rest}
  BY DEF HandlerReadFifoFails, Filled
<1>3. Next /\ UNCHANGED <<emitted, delivered>> /\ AtHand' = AtHand /\ Unparsed' = Unparsed
  BY SameHand DEF Next, HandlerStep, HandlerReadFifoFails, app, iterator
<1>4. Waiting' = Waiting /\ Len(Unparsed') = Len(Unparsed)
  BY <1>3, WaitingStays
<1>5. CASE UNCHANGED event_fifo
  BY <1>2, <1>3, <1>5, StaysInOrder DEF Moves
<1>6. CASE event_fifo' = rest
  <2>1. Order(AtHand, Waiting, Len(Unparsed), Filled, event_fifo, delivered, emitted)
    BY DEF InOrder
  <2>2. /\ Order(AtHand, Waiting, Len(Unparsed), Filled, rest, delivered, emitted)
        /\ {event_fifo[1], event_fifo[num_bytes]} \subseteq 1 .. emitted
        /\ Way(AtHand, Waiting, Len(Unparsed), Filled, rest) =
                {p \in Way(AtHand, Waiting, Len(Unparsed), Filled, event_fifo) :
                    p < event_fifo[1] \/ p > event_fifo[num_bytes]}
    BY <1>1, <2>1, WayDrops
  <2> HIDE DEF rest
  <2>3. InOrder'
    BY <1>2, <1>3, <1>4, <1>6, <2>2 DEF InOrder
  <2>4. OnWay' = {p \in OnWay : p < event_fifo[1] \/ p > event_fifo[num_bytes]}
    BY <1>2, <1>3, <1>4, <1>6, <2>2 DEF OnWay
  <2>5. MayLose
    BY <1>1, <1>2, FailureAllows
  <2>6. QED
    BY <1>3, <2>2, <2>3, <2>4, <2>5, LossMoves
<1>7. QED
  BY <1>2, <1>5, <1>6

(* an error is reported without a packet;                                  *)
LEMMA ReportMoves ==
    ASSUME NodeInv, InOrder, HandlerMakesResult
    PROVE  InOrder' /\ Moves
<1>1. Next /\ UNCHANGED <<emitted, delivered, event_fifo>> /\ AtHand' = AtHand /\ Unparsed' = Unparsed
  BY SameHand DEF Next, HandlerStep, HandlerMakesResult, app, iterator, device
<1>2. Filled = <<>>
  BY DEF HandlerMakesResult, Filled
<1>3. CASE Filled' = Filled
  BY <1>1, <1>3, StaysInOrder DEF Moves
<1>4. CASE Filled' # Filled
  <2>1. Filled' = <<Ex10ResultPacket>>
    BY <1>2, <1>4 DEF HandlerMakesResult, Filled, NodeInv, TypeOK, Nodes
  <2> DEFINE zero == << 0 >>
  <2>2. Filled' = zero
    BY <2>1 DEF Ex10ResultPacket
  <2>3. Waiting' = Waiting /\ Len(Unparsed') = Len(Unparsed)
    BY <1>1, WaitingStays
  <2>4. /\ Order(AtHand, Waiting, Len(Unparsed), zero, event_fifo, delivered, emitted)
        /\ Way(AtHand, Waiting, Len(Unparsed), zero, event_fifo) = Way(AtHand, Waiting, Len(Unparsed), Filled, event_fifo)
    BY <1>2, WayMakes DEF InOrder
  <2> HIDE DEF zero
  <2>5. QED
    BY <1>1, <2>2, <2>3, <2>4 DEF InOrder, OnWay, Moves, Stays
<1>5. QED
  BY <1>3, <1>4

LEMMA ErrorMoves ==
    ASSUME NodeInv, InOrder, Next, QueueError, irqPc # "deliver", Filled' = Filled,
           UNCHANGED <<appPc, event_packets_iterator, iterator_left, event_packet>>,
           UNCHANGED <<event_fifo, emitted, delivered>>
    PROVE  InOrder' /\ Stays
<1>1. CASE UNCHANGED event_fifo_list
  BY <1>1, SameHand, StaysInOrder
<1>2. ASSUME NEW node \in result_free_list, event_fifo_list' = Append(event_fifo_list, node),
             fifo_data' = [fifo_data EXCEPT ![node] = <<Ex10ResultPacket>>]
      PROVE  InOrder' /\ Stays
  <2>1. node \in Nodes /\ fifo_data'[node] = << 0 >>
    BY <1>2 DEF NodeInv, TypeOK, Nodes, Ex10ResultPacket
  <2>2. QED
    BY <1>2, <2>1, UnparsedAppended, QueuesInOrder
<1>3. QED
  BY <1>1, <1>2 DEF QueueError

(* the node is delivered, or freed when nobody consumes its packets: which *)
(* nobody does only after a failure or a closing.                          *)
LEMMA DeliveryMoves ==
    ASSUME NodeInv, StrandInv, ClosedIfAllowed, InOrder, HandlerDelivers
    PROVE  InOrder' /\ Moves
<1>1. /\ UNCHANGED <<emitted, delivered, event_fifo>> /\ Next
      /\ UNCHANGED <<appPc, event_packets_iterator, iterator_left, event_packet>>
  BY DEF Next, HandlerStep, HandlerDelivers, app, iterator, device
<1>2. irqNode \in Nodes /\ Filled = fifo_data[irqNode] /\ Filled' = <<>>
  BY DEF HandlerDelivers, Filled, NodeInv, TypeOK, HandsMatch
<1>3. CASE fifo_data_callback
  <2>1. event_fifo_list' = Append(event_fifo_list, irqNode) /\ fifo_data'[irqNode] = Filled
    BY <1>2, <1>3 DEF HandlerDelivers
  <2>2. QED
    BY <1>1, <1>2, <2>1, UnparsedAppended, QueuesInOrder DEF Moves
<1>4. CASE ~fifo_data_callback
  <2>1. AtHand' = AtHand /\ Unparsed' = Unparsed
    BY <1>1, <1>4, SameHand DEF HandlerDelivers
  <2>2. Waiting' = Waiting /\ Len(Unparsed') = Len(Unparsed)
    BY <1>1, <2>1, WaitingStays
  <2> DEFINE none == <<>>
  <2>3. Order(AtHand, Waiting, Len(Unparsed), Filled, event_fifo, delivered, emitted) /\ Filled' = none
    BY <1>2 DEF InOrder
  <2>4. /\ Order(AtHand, Waiting, Len(Unparsed), none, event_fifo, delivered, emitted)
        /\ \/ Way(AtHand, Waiting, Len(Unparsed), none, event_fifo) = OnWay
           \/ \E first, last \in 1 .. emitted :
                Way(AtHand, Waiting, Len(Unparsed), none, event_fifo) = {p \in OnWay : p < first \/ p > last}
    BY <2>3, WayReleases DEF OnWay
  <2> HIDE DEF none
  <2>5. ~Undisturbed
    BY <1>4 DEF StrandInv, MaskIsLast, HandlerDelivers
  <2>6. InOrder' /\ OnWay' = Way(AtHand, Waiting, Len(Unparsed), none, event_fifo)
    BY <1>1, <2>1, <2>2, <2>3, <2>4 DEF InOrder, OnWay
  <2>7. MayLose
    BY <2>5, DisturbedAllows DEF NodeInv
  <2>8. QED
    BY <1>1, <2>4, <2>6, <2>7, LossMoves
<1>5. QED
  BY <1>3, <1>4

(* Every step of the monitor thread, then, leaves the packets in order. *)
LEMMA HandlerMoves ==
    ASSUME NodeInv, StrandInv, ClosedIfAllowed, InOrder, HandlerStep
    PROVE  InOrder' /\ Moves
<1>1. Next
  BY DEF Next
<1>2. CASE HandlerReadFails
  <2>1. /\ irqPc # "deliver" /\ Filled' = Filled /\ UNCHANGED <<event_fifo, emitted, delivered>>
        /\ UNCHANGED <<appPc, event_packets_iterator, iterator_left, event_packet>>
    BY <1>2 DEF HandlerReadFails, Filled, device, app, iterator
  <2>2. CASE QueueError
    BY <1>1, <2>1, <2>2, ErrorMoves DEF Moves
  <2>3. CASE ~QueueError
    BY <1>1, <1>2, <2>1, <2>3, SameHand, StaysInOrder DEF HandlerReadFails, Moves
  <2>4. QED
    BY <2>2, <2>3
<1>3. CASE HandlerCallsBack
  <2>1. AtHand' = AtHand /\ Unparsed' = Unparsed /\ Filled' = Filled /\ UNCHANGED delivered
    BY <1>3, SameHand DEF HandlerCallsBack, Filled, app, iterator
  <2>2. UNCHANGED device \/ (emitted' = emitted + 1 /\ event_fifo' = Append(event_fifo, emitted + 1))
    BY <1>3 DEF HandlerCallsBack
  <2>3. QED
    BY <1>1, <2>1, <2>2, EmitMoves, StaysInOrder DEF Moves, device
<1>4. CASE HandlerEnters \/ HandlerReadsStatus \/ HandlerGetsBuffer \/ HandlerReturns
  <2>1. UNCHANGED <<event_fifo_list, app, device>> /\ Filled' = Filled
    BY <1>4 DEF HandlerEnters, HandlerReadsStatus, HandlerGetsBuffer, HandlerReturns, Filled
  <2>2. QED
    BY <1>1, <2>1, SameHand, StaysInOrder DEF Moves, app, iterator, device
<1>5. QED
  BY <1>2, <1>3, <1>4, ReadMoves, FailedReadMoves, ReportMoves, DeliveryMoves DEF HandlerStep

(* What is a list of some is a list of more. *)
LEMMA WiderList ==
    ASSUME NEW S, NEW T, S \subseteq T, NEW list \in Seq(S)
    PROVE  list \in Seq(T)
<1>1. /\ Len(list) \in Nat /\ list = [i \in 1 .. Len(list) |-> list[i]]
      /\ \A i \in 1 .. Len(list) : list[i] \in T
  OBVIOUS
<1>2. QED
  BY <1>1

(* A list is its head and its tail. *)
LEMMA HeadAndTail ==
    ASSUME NEW S, NEW list \in Seq(S), list # <<>>
    PROVE  <<Head(list)>> \o Tail(list) = list
OBVIOUS

(* The parsing of the front node takes its packets in hand, *)
LEMMA TakeMoves ==
    ASSUME NodeInv, InOrder, Next, StartFrontNode, AtHand = <<>>, Unparsed = event_fifo_list,
           appPc' \notin {"pop", "release", "insert", "next"}, Filled' = Filled,
           UNCHANGED <<event_fifo_list, fifo_data, event_fifo, emitted, delivered>>
    PROVE  InOrder' /\ Stays
<1>1. CASE event_fifo_list = <<>>
  <2>1. AtHand' = AtHand /\ Unparsed' = Unparsed
    BY <1>1 DEF StartFrontNode, AtHand, Unparsed
  <2>2. QED
    BY <2>1, StaysInOrder
<1>2. CASE event_fifo_list # <<>>
  <2> DEFINE first == Head(event_fifo_list)
             len == Len(Unparsed)
  <2>1. /\ event_fifo_list \in Seq(Nodes) /\ len \in Nat \ {0} /\ first = Unparsed[1]
        /\ Len(Tail(event_fifo_list)) = len - 1
        /\ \A i \in 1 .. len - 1 : Tail(event_fifo_list)[i] = Unparsed[i + 1]
    BY <1>2 DEF NodeInv, TypeOK
  <2>2. first \in Nodes /\ first \in Queued /\ first # NoNode
    BY <1>2, <2>1, TailElements, PoolsAreDisjoint DEF NodeInv, NodesAreNotShared, Queued, Nodes
  <2>3. fifo_data[first] \in Seq(Packets) /\ fifo_data[first] # <<>>
    BY <2>2 DEF NodeInv, TypeOK, DataIsThere
  <2>4. event_packets_iterator' = first /\ AtHand' = fifo_data[first] /\ Unparsed' = Tail(event_fifo_list)
    <3>1. /\ event_packets_iterator' = first /\ event_packet' = Head(fifo_data[first])
          /\ iterator_left' = Tail(fifo_data[first])
      BY <1>2 DEF StartFrontNode
    <3>2. <<Head(fifo_data[first])>> \o Tail(fifo_data[first]) = fifo_data[first]
      BY <2>3, HeadAndTail
    <3> HIDE DEF first
    <3>3. AtHand' = <<event_packet'>> \o iterator_left'
      BY <2>2, <3>1 DEF AtHand
    <3>4. Unparsed' = Tail(event_fifo_list)
      BY <2>2, <3>1 DEF Unparsed
    <3>5. QED
      BY <3>1, <3>2, <3>3, <3>4
  <2>5. /\ Waiting[1] = fifo_data[first] /\ \A i \in 1 .. len : Waiting[i] = fifo_data[Unparsed[i]]
        /\ \A i \in 1 .. len - 1 : i + 1 \in 1 .. len
    BY <2>1 DEF Waiting
  <2>6. Len(Unparsed') = len - 1 /\ \A i \in 1 .. len - 1 : Waiting'[i] = Waiting[i + 1]
    BY <2>1, <2>4, <2>5 DEF Waiting
  <2>7. Order(AtHand, Waiting, len, Filled, event_fifo, delivered, emitted) /\ len > 0
    BY <2>1 DEF InOrder
  <2> HIDE DEF len, first
  <2>8. /\ Order(Waiting[1], Waiting', len - 1, Filled, event_fifo, delivered, emitted)
        /\ Way(Waiting[1], Waiting', len - 1, Filled, event_fifo) = Way(AtHand, Waiting, len, Filled, event_fifo)
    BY <2>6, <2>7, WayTakes
  <2>9. QED
    BY <2>4, <2>5, <2>6, <2>8 DEF InOrder, Stays, OnWay, len
<1>3. QED
  BY <1>1, <1>2

(* which are then consumed one by one. *)
LEMMA ConsumeMoves ==
    ASSUME NodeInv, InOrder, PacketRemove
    PROVE  InOrder' /\ Moves
<1>1. /\ Next /\ Filled' = Filled /\ Unparsed' = Unparsed
      /\ UNCHANGED <<event_fifo, emitted, event_packets_iterator>>
      /\ event_packets_iterator # NoNode /\ appPc = "remove" /\ delivered' = Consumed
  BY DEF Next, PacketLoop, PacketRemove, AfterRemove, Filled, Unparsed, device, handler, NodeInv, IteratorIsFront
<1>2. event_packet \in Nat /\ iterator_left \in Seq(Nat) /\ iterator_left \in Seq(Packets)
  <2>1. Packets \subseteq Nat
    BY SizesAreNatural DEF Packets
  <2>2. event_packet \in Packets /\ iterator_left \in Seq(Packets)
    BY DEF NodeInv, TypeOK
  <2>3. QED
    BY <2>1, <2>2, WiderList
<1>3. AtHand = <<event_packet>> \o iterator_left
  BY <1>1 DEF AtHand
<1>4. AtHand # <<>> /\ Head(AtHand) = event_packet /\ Tail(AtHand) = iterator_left
  BY <1>2, <1>3
<1>5. AtHand' = iterator_left
  <2>1. CASE iterator_left = <<>>
    BY <1>1, <2>1 DEF PacketRemove, AtHand
  <2>2. CASE iterator_left # <<>>
    <3>1. /\ event_packet' = Head(iterator_left) /\ iterator_left' = Tail(iterator_left)
          /\ appPc' \in {"peek", "wait"}
      BY <2>2 DEF PacketRemove, AfterRemove
    <3>2. AtHand' = <<event_packet'>> \o iterator_left'
      BY <1>1, <3>1 DEF AtHand
    <3>3. QED
      BY <1>2, <2>2, <3>1, <3>2, HeadAndTail
  <2>3. QED
    BY <2>1, <2>2
<1>6. Waiting' = Waiting /\ Len(Unparsed') = Len(Unparsed)
  BY <1>1, WaitingStays
<1>7. Order(AtHand, Waiting, Len(Unparsed), Filled, event_fifo, delivered, emitted)
  BY DEF InOrder
<1>8. /\ Order(iterator_left, Waiting, Len(Unparsed), Filled, event_fifo,
               IF event_packet = 0 THEN delivered ELSE event_packet, emitted)
      /\ Way(iterator_left, Waiting, Len(Unparsed), Filled, event_fifo) = OnWay \ ({event_packet} \ {0})
      /\ event_packet # 0 => event_packet \in OnWay /\ \A p \in OnWay : event_packet <= p
  BY <1>4, <1>7, WayConsumes DEF OnWay
<1>9. delivered' = IF event_packet = 0 THEN delivered ELSE event_packet
  BY <1>1 DEF Consumed, Ex10ResultPacket
<1>10. InOrder' /\ OnWay' = OnWay \ ({event_packet} \ {0})
  BY <1>1, <1>5, <1>6, <1>8, <1>9 DEF InOrder, OnWay
<1>11. QED
  BY <1>1, <1>8, <1>9, <1>10 DEF Moves, Stays, Delivers

(* An init() forgets what is queued, which is something only after a       *)
(* failure or a closing.                                                   *)
LEMMA ForgetMoves ==
    ASSUME NodeInv, StrandInv, ClosedIfAllowed, InOrder, InitQueue
    PROVE  InOrder' /\ Moves
<1>1. /\ Filled' = Filled /\ UNCHANGED <<event_fifo, emitted, delivered>>
      /\ AtHand' = <<>> /\ Unparsed' = <<>>
  BY DEF InitQueue, Filled, AtHand, Unparsed, device, handler
<1>2. Len(Unparsed') = 0
  BY <1>1
<1> DEFINE none == <<>>
<1>3. Order(AtHand, Waiting, Len(Unparsed), Filled, event_fifo, delivered, emitted)
  BY DEF InOrder
<1>4. /\ Order(none, Waiting', 0, Filled, event_fifo, delivered, emitted)
      /\ \/ Way(none, Waiting', 0, Filled, event_fifo) = OnWay
         \/ \E first, last \in 1 .. emitted :
                Way(none, Waiting', 0, Filled, event_fifo) = {p \in OnWay : p < first \/ p > last}
      /\ AtHand = none /\ Len(Unparsed) = 0 => Way(none, Waiting', 0, Filled, event_fifo) = OnWay
  BY <1>3, WayForgets DEF OnWay
<1>5. Undisturbed => AtHand = none /\ Len(Unparsed) = 0
  <2> SUFFICES ASSUME Undisturbed PROVE AtHand = none /\ Len(Unparsed) = 0
    OBVIOUS
  <2>1. event_fifo_list = <<>>
    BY DEF StrandInv, MaskIsLast, Opened, InitQueue
  <2>2. event_packets_iterator = NoNode
    BY <2>1 DEF NodeInv, IteratorIsFront, InitQueue
  <2>3. QED
    BY <2>1, <2>2 DEF AtHand, Unparsed
<1>6. AtHand' = none
  BY <1>1
<1> HIDE DEF none
<1>7. InOrder' /\ OnWay' = Way(none, Waiting', 0, Filled, event_fifo)
  BY <1>1, <1>2, <1>4, <1>6 DEF InOrder, OnWay
<1>8. MayLose \/ OnWay' = OnWay
  BY <1>4, <1>5, <1>7, DisturbedAllows DEF NodeInv
<1>9. QED
  BY <1>1, <1>4, <1>7, <1>8, LossMoves

LEMMA LoopMoves ==
    ASSUME NodeInv, InOrder, PacketLoop
    PROVE  InOrder' /\ Moves
<1>1. Next
  BY DEF Next
<1>2. CASE PacketWait
  BY <1>1, <1>2, StaysInOrder DEF PacketWait, AtHand, Unparsed, Filled, iterator, device, handler, Moves
<1>3. CASE PacketPeek
  <2>1. /\ Filled' = Filled /\ UNCHANGED <<event_fifo, emitted, delivered, event_fifo_list, fifo_data>>
        /\ appPc = "peek" /\ appPc' \in {"remove", "closed", "wait"}
    BY <1>3 DEF PacketPeek, Filled, device, handler
  <2>2. CASE event_packets_iterator = NoNode
    BY <1>1, <1>3, <2>1, <2>2, TakeMoves DEF PacketPeek, AtHand, Unparsed, Moves
  <2>3. CASE event_packets_iterator # NoNode
    BY <1>1, <1>3, <2>1, <2>3, StaysInOrder DEF PacketPeek, AtHand, Unparsed, iterator, Moves
  <2>4. QED
    BY <2>2, <2>3
<1>4. CASE PopFront
  <2>1. AtHand' = AtHand /\ Filled' = Filled /\ UNCHANGED <<event_fifo, emitted, delivered>>
    BY <1>4 DEF PopFront, AtHand, Filled, device, handler, iterator
  <2>2. event_packets_iterator # NoNode
    BY <1>4 DEF PopFront, NodeInv, IteratorIsFront
  <2>3. Unparsed' = Unparsed
    BY <1>4, <2>2 DEF PopFront, Unparsed
  <2>4. QED
    BY <1>1, <2>1, <2>3, StaysInOrder DEF Moves
<1>5. CASE ReleaseNode
  <2>1. /\ UNCHANGED <<event_fifo, emitted, delivered, event_fifo_list, event_packets_iterator>>
        /\ appPc = "release" /\ appPc' \in {"insert", "next"} /\ UNCHANGED <<irqPc, irqNode>>
        /\ Release(appNode)
    BY <1>5 DEF ReleaseNode, device, handler, iterator
  <2>2. AtHand' = AtHand /\ Unparsed' = Unparsed
    BY <2>1 DEF AtHand, Unparsed
  <2>3. appNode \in Nodes \ {irqNode}
    BY <2>1 DEF NodeInv, TypeOK, HandsMatch, NodesAreNotShared
  <2>4. Filled' = Filled
    BY <2>1, <2>3, FilledIsKept
  <2>5. QED
    BY <1>1, <2>1, <2>2, <2>4, StaysInOrder DEF Moves
<1>6. CASE NextNode
  <2>1. /\ Filled' = Filled /\ UNCHANGED <<event_fifo, emitted, delivered, event_fifo_list, fifo_data>>
        /\ appPc = "next" /\ appPc' \in {"peek", "wait"} /\ StartFrontNode
    BY <1>6 DEF NextNode, AfterRemove, Filled, device, handler
  <2>2. QED
    BY <1>1, <2>1, TakeMoves DEF AtHand, Unparsed, Moves
<1>7. QED
  BY <1>2, <1>3, <1>4, <1>5, <1>6, ConsumeMoves DEF PacketLoop

(* So does every other step. *)
LEMMA HostMoves ==
    ASSUME NodeInv, StrandInv, ClosedIfAllowed, InOrder, HostCommand \/ Lifecycle \/ AppCloses
    PROVE  InOrder' /\ Moves
<1>1. Next
  BY DEF Next
<1>2. CASE InsertFifoEventFails
  <2>1. /\ QueueError /\ irqPc # "deliver" /\ Filled' = Filled
        /\ UNCHANGED <<event_fifo, emitted, delivered, event_packets_iterator, iterator_left, event_packet>>
        /\ appPc = "insert" /\ appPc' = "next"
    BY <1>2 DEF InsertFifoEventFails, HostFree, Filled, device, handler, iterator
  <2>2. CASE UNCHANGED event_fifo_list
    BY <1>1, <2>1, <2>2, StaysInOrder DEF AtHand, Unparsed, Moves
  <2>3. ASSUME NEW node \in result_free_list, event_fifo_list' = Append(event_fifo_list, node),
               fifo_data' = [fifo_data EXCEPT ![node] = <<Ex10ResultPacket>>]
        PROVE  InOrder' /\ Moves
    <3>1. node \in Nodes /\ fifo_data'[node] = << 0 >>
      BY <2>3 DEF NodeInv, TypeOK, Nodes, Ex10ResultPacket
    <3>2. AtHand' = AtHand /\ Unparsed' = Append(Unparsed, node)
      BY <2>1, <2>3 DEF AtHand, Unparsed
    <3>3. QED
      BY <1>1, <2>1, <2>3, <3>1, <3>2, QueuesInOrder DEF Moves
  <2>4. QED
    BY <2>1, <2>2, <2>3 DEF QueueError
<1>3. CASE AppDrains
  BY <1>1, <1>3, StaysInOrder DEF AppDrains, AtHand, Unparsed, Filled, iterator, device, handler, Moves
<1>4. CASE WriteMask \/ InsertFifoEvent \/ AppCloses
  BY <1>1, <1>4, StaysInOrder DEF WriteMask, InsertFifoEvent, AppCloses, AtHand, Unparsed, Filled, iterator,
     device, handler, Moves
<1>5. CASE AppOpens \/ RegisterFifoCallback \/ RegisterInterruptCallback
  BY <1>1, <1>5, StaysInOrder DEF AppOpens, RegisterFifoCallback, RegisterInterruptCallback, AtHand,
     Unparsed, Filled, iterator, device, handler, Moves
<1>6. CASE UnregisterInterruptCallback \/ UnregisterFifoCallback
  BY <1>1, <1>6, StaysInOrder DEF UnregisterInterruptCallback, UnregisterFifoCallback, AtHand, Unparsed,
     Filled, iterator, device, handler, Moves
<1>7. QED
  BY <1>2, <1>3, <1>4, <1>5, <1>6, ForgetMoves DEF HostCommand, Lifecycle

-----------------------------------------------------------------------------
(* The stream of the refinement mapping is the line's packets. *)
LEMMA SetOfBits ==
    ASSUME NEW list \in Seq(Nat)
    PROVE  ToSet(list) \ {Ex10ResultPacket} = Bits(list)
BY DEF ToSet, Bits, Ex10ResultPacket

LEMMA NodesOnWay ==
    ASSUME NEW list \in Seq(Nodes), NEW data \in [Nodes -> Seq(Nat)]
    PROVE  (UNION {ToSet(data[node]) : node \in ToSet(list)}) \ {Ex10ResultPacket} =
                UNION {Bits(data[list[i]]) : i \in 1 .. Len(list)}
<1>1. ToSet(list) = {list[i] : i \in 1 .. Len(list)} /\ \A i \in 1 .. Len(list) : list[i] \in Nodes
  BY DEF ToSet
<1>2. \A node \in Nodes : ToSet(data[node]) \ {Ex10ResultPacket} = Bits(data[node])
  BY SetOfBits
<1>3. ASSUME NEW p, p \in UNION {ToSet(data[node]) : node \in ToSet(list)}, p # Ex10ResultPacket
      PROVE  p \in UNION {Bits(data[list[i]]) : i \in 1 .. Len(list)}
  <2>1. PICK i \in 1 .. Len(list) : p \in ToSet(data[list[i]])
    BY <1>1, <1>3
  <2>2. p \in Bits(data[list[i]])
    BY <1>1, <1>2, <1>3, <2>1
  <2>3. QED
    BY <2>2
<1>4. ASSUME NEW p, p \in UNION {Bits(data[list[i]]) : i \in 1 .. Len(list)}
      PROVE  p \in UNION {ToSet(data[node]) : node \in ToSet(list)} /\ p # Ex10ResultPacket
  <2>1. PICK i \in 1 .. Len(list) : p \in Bits(data[list[i]])
    BY <1>4
  <2>2. p \in ToSet(data[list[i]]) /\ p # Ex10ResultPacket /\ list[i] \in ToSet(list)
    BY <1>1, <1>2, <2>1
  <2>3. QED
    BY <2>2
<1>5. QED
  BY <1>3, <1>4

SetOf(list, data) == UNION {ToSet(data[node]) : node \in ToSet(list)}
ListsOf(list, data) == [i \in 1 .. Len(list) |-> data[list[i]]]
IsLine(h, list, data, f, g) ==
    (ToSet(h) \cup SetOf(list, data) \cup ToSet(f) \cup ToSet(g)) \ {Ex10ResultPacket} =
        Way(h, ListsOf(list, data), Len(list), f, g)

LEMMA StreamOfLists ==
    ASSUME NEW h \in Seq(Nat), NEW list \in Seq(Nodes), NEW data \in [Nodes -> Seq(Nat)],
           NEW f \in Seq(Nat), NEW g \in Seq(Nat)
    PROVE  IsLine(h, list, data, f, g)
<1> DEFINE nodes == SetOf(list, data)
           wait == ListsOf(list, data)
<1>1. nodes \ {Ex10ResultPacket} = UNION {Bits(data[list[i]]) : i \in 1 .. Len(list)}
  BY NodesOnWay DEF SetOf
<1>2. UNION {Bits(data[list[i]]) : i \in 1 .. Len(list)} = UNION {Bits(wait[i]) : i \in 1 .. Len(list)}
  <2>1. \A i \in 1 .. Len(list) : Bits(wait[i]) = Bits(data[list[i]])
    BY DEF ListsOf
  <2> HIDE DEF wait
  <2>2. QED
    BY ONLY <2>1
<1> HIDE DEF nodes, wait
<1>3. /\ ToSet(h) \ {Ex10ResultPacket} = Bits(h) /\ ToSet(f) \ {Ex10ResultPacket} = Bits(f)
      /\ ToSet(g) \ {Ex10ResultPacket} = Bits(g)
  BY SetOfBits
<1>4. (ToSet(h) \cup nodes \cup ToSet(f) \cup ToSet(g)) \ {Ex10ResultPacket} =
        Bits(h) \cup (UNION {Bits(wait[i]) : i \in 1 .. Len(list)}) \cup Bits(f) \cup Bits(g)
  <2> DEFINE A == ToSet(h)
             B == ToSet(f)
             C == ToSet(g)
             all == UNION {Bits(wait[i]) : i \in 1 .. Len(list)}
  <2>1. nodes \ {Ex10ResultPacket} = all
    BY <1>1, <1>2
  <2> HIDE DEF A, B, C, all
  <2>2. (A \cup nodes \cup B \cup C) \ {Ex10ResultPacket} =
            (A \ {Ex10ResultPacket}) \cup (nodes \ {Ex10ResultPacket}) \cup (B \ {Ex10ResultPacket})
                \cup (C \ {Ex10ResultPacket})
    OBVIOUS
  <2>3. QED
    BY <1>3, <2>1, <2>2 DEF A, B, C, all
<1>5. QED
  BY <1>4 DEF IsLine, Way, nodes, wait

LEMMA StreamIsLine ==
    /\ NodeInv /\ InOrder => OnTheWay \ {Ex10ResultPacket} = OnWay
    /\ NodeInv' /\ InOrder' => (OnTheWay \ {Ex10ResultPacket} = OnWay)'
<1>1. ASSUME NEW data \in [Nodes -> Seq(Packets)] PROVE data \in [Nodes -> Seq(Nat)]
  <2>1. \A node \in Nodes : data[node] \in Seq(Nat)
    <3>1. Packets \subseteq Nat
      BY SizesAreNatural DEF Packets
    <3>2. \A node \in Nodes : data[node] \in Seq(Packets)
      OBVIOUS
    <3>3. QED
      BY <3>1, <3>2, WiderList
  <2>2. QED
    BY <2>1
<1>2. ASSUME NodeInv, InOrder PROVE OnTheWay \ {Ex10ResultPacket} = OnWay
  <2>1. Unparsed \in Seq(Nodes)
    BY <1>2, UnparsedNodes
  <2>2. fifo_data \in [Nodes -> Seq(Nat)]
    BY <1>1, <1>2 DEF NodeInv, TypeOK
  <2>3. AtHand \in Seq(Nat) /\ Filled \in Seq(Nat) /\ event_fifo \in Seq(Nat)
    BY <1>2 DEF InOrder, Order, Lists
  <2> DEFINE h == AtHand
             list == Unparsed
             data == fifo_data
             f == Filled
             g == event_fifo
             line == Way(h, ListsOf(list, data), Len(list), f, g)
             set == ToSet(h) \cup SetOf(list, data) \cup ToSet(f) \cup ToSet(g)
  <2>4. /\ h \in Seq(Nat) /\ list \in Seq(Nodes) /\ data \in [Nodes -> Seq(Nat)]
        /\ f \in Seq(Nat) /\ g \in Seq(Nat)
    BY <2>1, <2>2, <2>3
  <2>5. OnWay = line /\ OnTheWay = set
    BY DEF OnWay, OnTheWay, Waiting, SetOf, ListsOf
  <2> HIDE DEF h, list, data, f, g
  <2>6. IsLine(h, list, data, f, g)
    BY <2>4, StreamOfLists
  <2>7. set \ {Ex10ResultPacket} = line
    BY <2>6 DEF IsLine
  <2> HIDE DEF set, line
  <2>8. QED
    BY <2>5, <2>7
<1>3. ASSUME NodeInv', InOrder' PROVE (OnTheWay \ {Ex10ResultPacket} = OnWay)'
  <2>1. Unparsed' \in Seq(Nodes)
    <3>1. event_fifo_list' \in Seq(Nodes)
      BY <1>3 DEF NodeInv, TypeOK
    <3>2. Unparsed' = event_fifo_list' \/ (Unparsed' = Tail(event_fifo_list') /\ event_fifo_list' # <<>>)
      BY <1>3 DEF Unparsed, NodeInv, IteratorIsFront
    <3>3. QED
      BY <3>1, <3>2
  <2>2. fifo_data' \in [Nodes -> Seq(Nat)]
    BY <1>1, <1>3 DEF NodeInv, TypeOK
  <2>3. AtHand' \in Seq(Nat) /\ Filled' \in Seq(Nat) /\ event_fifo' \in Seq(Nat)
    BY <1>3 DEF InOrder, Order, Lists
  <2> DEFINE h == AtHand'
             list == Unparsed'
             data == fifo_data'
             f == Filled'
             g == event_fifo'
             line == Way(h, ListsOf(list, data), Len(list), f, g)
             set == ToSet(h) \cup SetOf(list, data) \cup ToSet(f) \cup ToSet(g)
  <2>4. /\ h \in Seq(Nat) /\ list \in Seq(Nodes) /\ data \in [Nodes -> Seq(Nat)]
        /\ f \in Seq(Nat) /\ g \in Seq(Nat)
    BY <2>1, <2>2, <2>3
  <2>5. OnWay' = line /\ OnTheWay' = set
    BY DEF OnWay, OnTheWay, Waiting, SetOf, ListsOf
  <2> HIDE DEF h, list, data, f, g
  <2>6. IsLine(h, list, data, f, g)
    BY <2>4, StreamOfLists
  <2>7. set \ {Ex10ResultPacket} = line
    BY <2>6 DEF IsLine
  <2> HIDE DEF set, line
  <2>8. QED
    BY <2>5, <2>7
<1>4. QED
  BY <1>2, <1>3

LEMMA ClosingIsAllowed == ClosedIfAllowed /\ [Next]_vars => ClosedIfAllowed'
<1> SUFFICES ASSUME ClosedIfAllowed, [Next]_vars PROVE ClosedIfAllowed'
  OBVIOUS
<1>1. CASE AppCloses
  BY <1>1 DEF AppCloses, ClosedIfAllowed
<1>2. CASE HandlerStep
  BY <1>2 DEF ClosedIfAllowed, history, HandlerStep, HandlerEnters, HandlerReadsStatus, HandlerReadFails,
     HandlerCallsBack, HandlerGetsBuffer, HandlerReadsFifo, HandlerReadFifoFails, HandlerMakesResult,
     HandlerDelivers, HandlerReturns, MayFail
<1>3. CASE PacketLoop
  BY <1>3 DEF ClosedIfAllowed, history, PacketLoop, PacketWait, PacketPeek, PacketRemove, PopFront,
     ReleaseNode, NextNode
<1>4. CASE HostCommand
  BY <1>4 DEF ClosedIfAllowed, history, HostCommand, WriteMask, InsertFifoEvent, InsertFifoEventFails, MayFail
<1>5. CASE Lifecycle
  BY <1>5 DEF ClosedIfAllowed, history, Lifecycle, AppOpens, InitQueue, RegisterFifoCallback,
     RegisterInterruptCallback, UnregisterInterruptCallback, UnregisterFifoCallback, AppDrains
<1>6. CASE DeviceEmits \/ UNCHANGED vars
  BY <1>6 DEF ClosedIfAllowed, history, DeviceEmits, vars
<1>7. QED
  BY <1>1, <1>2, <1>3, <1>4, <1>5, <1>6 DEF Next

LEMMA OrderInit == Init => InOrder /\ OnWay = {}
<1> SUFFICES ASSUME Init PROVE InOrder /\ OnWay = {}
  OBVIOUS
<1> DEFINE none == <<>>
<1>1. AtHand = none /\ Unparsed = none /\ Filled = none /\ event_fifo = none /\ delivered = 0 /\ emitted = 0
  BY DEF Init, AtHand, Unparsed, Filled
<1>2. Len(Unparsed) = 0 /\ 1 .. 0 = {} /\ none \in Seq(Nat) /\ Len(none) = 0
  BY <1>1
<1>3. Bits(none) = {} /\ Rising(none)
  BY NoBits
<1>4. OnWay = {}
  BY <1>1, <1>2, <1>3 DEF OnWay, Way
<1> HIDE DEF none
<1>5. Lists(none, Waiting, 0, none, none) /\ Risings(none, Waiting, 0, none, none)
  BY <1>2, <1>3 DEF Lists, Risings
<1>6. Line(none, Waiting, 0, none, none) /\ Ends({}, 0, 0)
  BY <1>2, <1>3 DEF Line, Under, Ends
<1>7. Way(none, Waiting, 0, none, none) = {}
  BY <1>1, <1>2, <1>4 DEF OnWay
<1>8. Order(none, Waiting, 0, none, none, 0, 0)
  BY <1>5, <1>6, <1>7 DEF Order
<1>9. QED
  BY <1>1, <1>2, <1>4, <1>8 DEF InOrder

LEMMA OrderStep ==
    NodeInv /\ StrandInv /\ ClosedIfAllowed /\ InOrder /\ [Next]_vars => InOrder' /\ Moves
<1> SUFFICES ASSUME NodeInv, StrandInv, ClosedIfAllowed, InOrder, [Next]_vars
             PROVE  InOrder' /\ Moves
  OBVIOUS
<1>1. CASE DeviceEmits
  <2>1. AtHand' = AtHand /\ Unparsed' = Unparsed /\ Filled' = Filled /\ Next
    BY <1>1 DEF DeviceEmits, AtHand, Unparsed, Filled, app, iterator, handler, Next
  <2>2. QED
    BY <1>1, <2>1, EmitMoves DEF DeviceEmits, app, Moves
<1>2. CASE UNCHANGED vars
  <2>1. /\ AtHand' = AtHand /\ Unparsed' = Unparsed /\ Filled' = Filled /\ Waiting' = Waiting
        /\ UNCHANGED <<event_fifo, emitted, delivered>>
    BY <1>2 DEF vars, AtHand, Unparsed, Filled, Waiting, app, iterator, handler, device
  <2>2. QED
    BY <2>1 DEF InOrder, OnWay, Moves, Stays
<1>3. QED
  BY <1>1, <1>2, HandlerMoves, LoopMoves, HostMoves DEF Next

(* The path implements the stream: for any pools, sizes and numbers of     *)
(* failures, and however the use case is opened, drained and closed, the   *)
(* application consumes the Ex10's packets in the order of their emission, *)
(* none twice, and loses some only after a failed command or a closing.    *)
THEOREM StreamIsImplemented == Spec => ImplementsStream
<1> DEFINE Inv == NodeInv /\ StrandInv /\ ClosedIfAllowed /\ InOrder
<1>1. Init => Inv /\ Stream!Init
  <2> SUFFICES ASSUME Init PROVE Inv /\ Stream!Init
    OBVIOUS
  <2>1. Inv
    BY NodeInit, StrandInit, OrderInit DEF Init, ClosedIfAllowed
  <2>2. OnTheWay \ {Ex10ResultPacket} = {}
    BY <2>1, OrderInit, StreamIsLine
  <2>3. QED
    BY <2>1, <2>2 DEF Stream!Init, Init
<1>2. Inv /\ NodeInv' /\ [Next]_vars => Inv' /\ [Stream!Next]_(Stream!vars)
  <2> SUFFICES ASSUME Inv, NodeInv', [Next]_vars PROVE Inv' /\ [Stream!Next]_(Stream!vars)
    OBVIOUS
  <2>1. InOrder' /\ Moves
    BY OrderStep
  <2>2. Inv'
    BY <2>1, StrandStep, ClosingIsAllowed
  <2> DEFINE line == OnTheWay \ {Ex10ResultPacket}
  <2>3. line = OnWay /\ line' = OnWay'
    BY <2>1, StreamIsLine
  <2>4. ASSUME Stays PROVE UNCHANGED Stream!vars
    BY <2>3, <2>4 DEF Stays, Stream!vars
  <2>5. ASSUME Emits PROVE Stream!Emit
    BY <2>3, <2>5 DEF Emits, Stream!Emit
  <2>6. ASSUME Delivers PROVE Stream!Deliver
    BY <2>3, <2>6 DEF Delivers, Stream!Deliver
  <2>7. ASSUME Loses PROVE Stream!Lose
    BY <2>3, <2>7 DEF Loses, MayLose, Stream!Lose
  <2>8. QED
    BY <2>1, <2>2, <2>4, <2>5, <2>6, <2>7 DEF Moves, Stream!Next
<1>3. QED
  BY NodeInvariant, <1>1, <1>2, PTL DEF Spec, ImplementsStream, Stream!SafetySpec

-----------------------------------------------------------------------------
(***************************************************************************)
(* The packet queue itself, with its mutex, its condition variable and its *)
(* waits.  The instance's variables that bear names of EventPipeline       *)
(* are no more than variables here: Queue!Spec is the specification of     *)
(* EventFifoQueue, for any nodes, and no action of EventPipeline is used.  *)
(* QueueInv is inductive: who owns the mutex, that no node is in two       *)
(* places, and that the iterator is the front of the list.                 *)
(***************************************************************************)
VARIABLES
    list_mutex, timed, timeout_expired, unwaitPc   \* see EventFifoQueue

Queue == INSTANCE EventFifoQueue

(* The assumption of EventFifoQueue, from those of EventPipeline.          *)
LEMMA NullIsNoNode == NoNode \notin Nodes
BY PoolsAreDisjoint DEF Nodes

(* A thread owns the mutex exactly inside its critical section, and the    *)
(* monitor thread has a node in hand exactly while it pushes.              *)
QueueOwnersMatch ==
    /\ list_mutex = "irq" <=> irqPc = "push"
    /\ list_mutex = "app" <=> appPc = "test"
    /\ irqNode # NoNode <=> irqPc = "push"

(* No node is in two places.                                               *)
QueuedNodesAreApart ==
    IsInjective(event_fifo_list) /\ irqNode \notin ToSet(event_fifo_list)

(* What is parsed is the front of the list.                                *)
QueueHasIterator ==
    appPc = "remove" => event_packets_iterator # NoNode

QueueInv ==
    /\ Queue!TypeOK /\ QueueOwnersMatch /\ QueuedNodesAreApart /\ QueueHasIterator
    /\ Queue!IteratorIsFront

(* The front of a list of nodes is a node, or none if there is none.       *)
LEMMA QueueFrontIsNode ==
    ASSUME NEW list \in Seq(Nodes)
    PROVE  /\ Queue!FrontNode(list) \in Nodes \cup {NoNode}
           /\ Queue!FrontNode(list) # NoNode =>
                list # <<>> /\ Queue!FrontNode(list) = Head(list)
BY DEF Queue!FrontNode

(* Only PushAppends and packet_remove change the list, only packet_peek    *)
(* and packet_remove the iterator.                                         *)
LEMMA QueueInvStep == QueueInv /\ [Queue!Next]_(Queue!vars) => QueueInv'
<1> SUFFICES ASSUME QueueInv, [Queue!Next]_(Queue!vars) PROVE QueueInv'
  OBVIOUS
<1> USE NullIsNoNode DEF QueueInv, Queue!TypeOK, QueueOwnersMatch, QueuedNodesAreApart,
        QueueHasIterator, Queue!IteratorIsFront, Queue!irqVars
<1>1. CASE Queue!PushLocks
  <2>1. PICK node \in Queue!Free : irqNode' = node
    BY <1>1 DEF Queue!PushLocks
  <2>2. node \in Nodes /\ node \notin ToSet(event_fifo_list)
    BY <2>1 DEF Queue!Free, Queue!ToSet, ToSet
  <2>3. event_packets_iterator # NoNode =>
            event_packets_iterator \in ToSet(event_fifo_list)
    BY TailElements
  <2>4. QED
    BY <1>1, <2>1, <2>2, <2>3 DEF Queue!PushLocks
<1>2. CASE Queue!PushAppends
  <2>1. irqNode \in Nodes /\ irqNode # NoNode
    BY <1>2 DEF Queue!PushAppends
  <2>2. /\ event_fifo_list' \in Seq(Nodes)
        /\ IsInjective(event_fifo_list')
        /\ ToSet(event_fifo_list') = ToSet(event_fifo_list) \cup {irqNode}
    BY <1>2, <2>1, AppendElements DEF Queue!PushAppends
  <2>3. NoNode \notin ToSet(event_fifo_list')
    BY <2>2 DEF ToSet
  <2>4. event_packets_iterator # NoNode =>
            event_fifo_list' # <<>> /\ Head(event_fifo_list') = Head(event_fifo_list)
    BY <1>2, <2>1, HeadTailProperties, AppendProperties DEF Queue!PushAppends
  <2>5. QED
    BY <1>2, <2>1, <2>2, <2>3, <2>4 DEF Queue!PushAppends
<1>3. CASE Queue!PushSignals
  BY <1>3 DEF Queue!PushSignals, Queue!Signalled
<1>4. CASE Queue!UnwaitCalled
  BY <1>4 DEF Queue!UnwaitCalled
<1>5. CASE Queue!packet_unwait
  BY <1>5 DEF Queue!packet_unwait, Queue!Signalled
<1>6. CASE Queue!WaitLocks
  BY <1>6 DEF Queue!WaitLocks
<1>7. CASE Queue!WaitSleeps
  BY <1>7 DEF Queue!WaitSleeps
<1>8. CASE Queue!WaitTimesOut
  BY <1>8 DEF Queue!WaitTimesOut
<1>9. CASE Queue!WaitRelocks
  BY <1>9 DEF Queue!WaitRelocks
<1>10. CASE Queue!WaitReturns
  BY <1>10 DEF Queue!WaitReturns
<1>11. CASE Queue!packet_peek
  <2>1. irqNode = NoNode
    BY <1>11 DEF Queue!packet_peek
  <2>2. QED
    BY <1>11, <2>1, QueueFrontIsNode DEF Queue!packet_peek
<1>12. CASE Queue!packet_remove
  <2>1. irqNode = NoNode
    BY <1>12 DEF Queue!packet_remove
  <2>2. event_fifo_list # <<>>
    BY <1>12 DEF Queue!packet_remove
  <2>3. CASE UNCHANGED <<event_fifo_list, event_packets_iterator>>
    BY <1>12, <2>3 DEF Queue!packet_remove
  <2>4. CASE /\ event_fifo_list' = Tail(event_fifo_list)
             /\ event_packets_iterator' = Queue!FrontNode(Tail(event_fifo_list))
    <3>1. /\ Tail(event_fifo_list) \in Seq(Nodes)
          /\ IsInjective(Tail(event_fifo_list))
      BY <2>2, TailElements
    <3>2. NoNode \notin ToSet(Tail(event_fifo_list))
      BY <3>1 DEF ToSet
    <3>3. QED
      BY <1>12, <2>1, <2>4, <3>1, <3>2, QueueFrontIsNode DEF Queue!packet_remove
  <2>5. QED
    BY <1>12, <2>3, <2>4 DEF Queue!packet_remove
<1>13. CASE UNCHANGED Queue!vars
  BY <1>13 DEF Queue!vars
<1>14. QED
  BY <1>1, <1>2, <1>3, <1>4, <1>5, <1>6, <1>7, <1>8, <1>9, <1>10, <1>11, <1>12,
     <1>13 DEF Queue!Next, Queue!AppRuns

(* The inductive invariant of the queue. *)
THEOREM QueueInvariant == Queue!Spec => []QueueInv
<1>1. ASSUME Queue!Init PROVE QueueInv
  <2>1. event_fifo_list = <<>> /\ irqNode = NoNode
    BY <1>1 DEF Queue!Init
  <2>2. QueuedNodesAreApart
    BY <2>1, EmptyElements DEF QueuedNodesAreApart
  <2>3. event_fifo_list \in Seq(Nodes)
    BY <2>1
  <2>4. Queue!TypeOK
    BY <1>1, <2>3 DEF Queue!Init, Queue!TypeOK
  <2>5. QueueOwnersMatch /\ QueueHasIterator /\ Queue!IteratorIsFront
    BY <1>1 DEF Queue!Init, QueueOwnersMatch, QueueHasIterator, Queue!IteratorIsFront
  <2>6. QED
    BY <2>2, <2>4, <2>5 DEF QueueInv
<1>2. QED
  BY <1>1, QueueInvStep, PTL DEF Queue!Spec

(* The types of the queue's state. *)
THEOREM QueueTypeCorrect == Queue!Spec => []Queue!TypeOK
<1>1. QueueInv => Queue!TypeOK
  BY DEF QueueInv
<1>2. QED
  BY <1>1, QueueInvariant, PTL

(* The iterator never points at a node that the monitor thread may have:   *)
(* packet_peek()'s pointer stays valid until packet_remove().              *)
THEOREM QueueIteratorStaysFront == Queue!Spec => []Queue!IteratorIsFront
<1>1. QueueInv => Queue!IteratorIsFront
  BY DEF QueueInv
<1>2. QED
  BY <1>1, QueueInvariant, PTL

(* The application never sleeps on packets that nobody will signal,        *)
(* although list_node_push_back() signals after it has released the mutex. *)
THEOREM NoLostWakeUp == Queue!Spec => []Queue!NoSleepOnData
<1>1. Queue!Init => Queue!NoSleepOnData
  BY DEF Queue!Init, Queue!NoSleepOnData
<1>2. Queue!NoSleepOnData /\ [Queue!Next]_(Queue!vars) => Queue!NoSleepOnData'
  <2> SUFFICES ASSUME Queue!NoSleepOnData, [Queue!Next]_(Queue!vars) PROVE Queue!NoSleepOnData'
    OBVIOUS
  <2> USE DEF Queue!NoSleepOnData, Queue!Empty, Queue!irqVars
  <2>1. CASE Queue!PushLocks \/ Queue!PushAppends
    BY <2>1 DEF Queue!PushLocks, Queue!PushAppends
  <2>2. CASE Queue!PushSignals \/ Queue!packet_unwait
    BY <2>2 DEF Queue!PushSignals, Queue!packet_unwait, Queue!Signalled
  <2>3. CASE Queue!UnwaitCalled \/ Queue!WaitLocks \/ Queue!WaitRelocks \/ Queue!WaitSleeps
    BY <2>3 DEF Queue!UnwaitCalled, Queue!WaitLocks, Queue!WaitRelocks, Queue!WaitSleeps
  <2>4. CASE Queue!WaitTimesOut \/ Queue!WaitReturns
    BY <2>4 DEF Queue!WaitTimesOut, Queue!WaitReturns
  <2>5. CASE Queue!packet_peek \/ Queue!packet_remove
    BY <2>5 DEF Queue!packet_peek, Queue!packet_remove
  <2>6. CASE UNCHANGED Queue!vars
    BY <2>6 DEF Queue!vars
  <2>7. QED
    BY <2>1, <2>2, <2>3, <2>4, <2>5, <2>6 DEF Queue!Next, Queue!AppRuns
<1>3. QED
  BY <1>1, <1>2, PTL DEF Queue!Spec
=============================================================================
