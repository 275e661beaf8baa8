---------------------- MODULE ContinuousInventoryProofs ----------------------
(***************************************************************************)
(* Proofs about ContinuousInventory, for any limits, sizes and numbers.    *)
(***************************************************************************)
EXTENDS ContinuousInventory, FiniteSetTheorems, SequenceTheorems, TLAPS

(* What the FIFO of the Ex10 holds, and what a queued node holds. *)
Sent == {TagRead} \cup {Summary(n) : n \in Nat}
Packets == Sent \cup {Ex10ResultPacket}
Nodes == {node \in Seq(Packets) : node # <<>>}

LEMMA Sizes ==
    ASSUME setup \in Setups
    PROVE  /\ EventBuffers \in Nat /\ ResultBuffers \in Nat
           /\ FifoSize \in Nat /\ FifoThreshold \in Nat
           /\ MaxEmitted \in Nat /\ RoundLimit \in Nat
           /\ MaxRuns \in Nat /\ MaxFailures \in Nat
           /\ \A c \in StopConditions :
                 /\ c.max_number_of_rounds \in Nat
                 /\ c.max_number_of_tags \in Nat
                 /\ c.max_duration \in BOOLEAN
BY InventoryConstants DEF EventBuffers, ResultBuffers, FifoSize,
   FifoThreshold, MaxEmitted, RoundLimit, MaxRuns, MaxFailures,
   StopConditions

LEMMA PacketTypes ==
    /\ TagRead \in Sent /\ Ex10ResultPacket \in Packets
    /\ <<Ex10ResultPacket>> \in Nodes
    /\ \A n \in Nat : Summary(n) \in Sent
    /\ Sent \subseteq Packets
    /\ \A p \in Sent : p.packet_type # "Ex10ResultPacket"
    /\ \A p \in Packets :
        /\ p.packet_type # "Ex10ResultPacket" => p \in Sent
        /\ p \in Sent /\ ~IsTag(p) =>
               p.packet_type = "ContinuousInventorySummary"
        /\ p.number_of_tags \in Nat
<1> USE DEF TagRead, Ex10ResultPacket, Summary, Packet, Sent, Packets
<1>1. /\ TagRead \in Sent /\ Ex10ResultPacket \in Packets
      /\ \A n \in Nat : Summary(n) \in Sent
      /\ Sent \subseteq Packets
  OBVIOUS
<1>2. <<Ex10ResultPacket>> \in Nodes
  <2>1. Ex10ResultPacket \in Packets
    BY <1>1
  <2>2. \A p \in Packets : <<p>> \in Seq(Packets) /\ <<p>> # <<>>
    OBVIOUS
  <2>3. QED
    BY <2>1, <2>2 DEF Nodes
<1>3. \A p \in Sent : p.packet_type # "Ex10ResultPacket"
  OBVIOUS
<1>4. ASSUME NEW p \in Packets
      PROVE  /\ p.packet_type # "Ex10ResultPacket" => p \in Sent
             /\ p \in Sent /\ ~IsTag(p) =>
                    p.packet_type = "ContinuousInventorySummary"
             /\ p.number_of_tags \in Nat
  BY DEF IsTag
<1>5. QED
  BY <1>1, <1>2, <1>3, <1>4

-----------------------------------------------------------------------------
LEMMA FirstNumbers ==
    ASSUME NEW n \in Nat
    PROVE  IsFiniteSet(1 .. n) /\ Cardinality(1 .. n) = n
<1>1. 1 \in Int /\ n \in Int
  OBVIOUS
<1>2. IsFiniteSet(1 .. n) /\ Cardinality(1 .. n) = IF 1 > n THEN 0 ELSE n - 1 + 1
  BY ONLY <1>1, FS_Interval
<1>3. QED
  BY <1>2

(* TagsIn counts. *)
LEMMA TagsInBound ==
    ASSUME NEW packets \in Seq(Packets)
    PROVE  TagsIn(packets) \in Nat /\ TagsIn(packets) <= Len(packets)
<1> DEFINE where == {i \in DOMAIN packets : IsTag(packets[i])}
<1>1. where \subseteq 1 .. Len(packets)
  OBVIOUS
<1>2. IsFiniteSet(1 .. Len(packets)) /\ Cardinality(1 .. Len(packets)) = Len(packets)
  BY FirstNumbers, LenProperties
<1>3. Cardinality(where) \in Nat /\ Cardinality(where) <= Len(packets)
  BY <1>1, <1>2, FS_Subset, FS_CardinalityType
<1>4. QED
  BY <1>3 DEF TagsIn

(* Tags first, and something else after them. *)
LEMMA TagsInPrefix ==
    ASSUME NEW packets \in Seq(Packets), NEW k \in Nat,
           \A i \in 1 .. Len(packets) : IsTag(packets[i]) <=> i <= k
    PROVE  TagsIn(packets) = IF k < Len(packets) THEN k ELSE Len(packets)
<1> DEFINE where == {i \in DOMAIN packets : IsTag(packets[i])}
           first == IF k < Len(packets) THEN k ELSE Len(packets)
<1>1. where = 1 .. first
  OBVIOUS
<1>2. Cardinality(1 .. first) = first
  BY FS_Interval
<1>3. QED
  BY <1>1, <1>2 DEF TagsIn

One(packet) == IF IsTag(packet) THEN 1 ELSE 0

LEMMA TagsInTail ==
    ASSUME NEW packets \in Nodes
    PROVE  TagsIn(packets) = One(Head(packets)) + TagsIn(Tail(packets))
<1> DEFINE n == Len(packets)
           rest == Tail(packets)
           there == {i \in 1 .. n - 1 : IsTag(rest[i])}
           moved == {i + 1 : i \in there}
           where == {i \in DOMAIN packets : IsTag(packets[i])}
<1>1. /\ n \in Nat \ {0} /\ DOMAIN packets = 1 .. n /\ Head(packets) = packets[1]
      /\ DOMAIN rest = 1 .. n - 1 /\ \A i \in 1 .. n - 1 : rest[i] = packets[i + 1]
  BY DEF Nodes
<1> HIDE DEF n, rest
<1>2. where = moved \cup (IF IsTag(packets[1]) THEN {1} ELSE {})
  <2>1. \A i \in 1 .. n : i = 1 \/ i - 1 \in 1 .. n - 1
    BY <1>1
  <2>2. ASSUME NEW i \in where, i # 1 PROVE i \in moved
    BY <2>1, <2>2, <1>1
  <2>3. ASSUME NEW i \in moved PROVE i \in where /\ i # 1
    BY <1>1
  <2>4. QED
    BY <2>2, <2>3, <1>1
<1>3. 1 \notin moved
  BY <1>1
<1>4. there \subseteq 1 .. n - 1 /\ IsFiniteSet(there)
  <2>1. n - 1 \in Nat
    BY <1>1
  <2>2. IsFiniteSet(1 .. n - 1)
    BY <2>1, FirstNumbers
  <2>3. QED
    BY <2>2, FS_Subset
<1>5. IsFiniteSet(moved) /\ Cardinality(moved) = Cardinality(there)
  <2> DEFINE f == [i \in there |-> i + 1]
  <2>1. f \in Bijection(there, moved)
    BY <1>1, <1>4 DEF Bijection, Injection, Surjection, IsInjective
  <2>2. QED
    BY <2>1, <1>4, FS_Bijection, FS_Surjection DEF ExistsBijection, Bijection
<1>6. Cardinality(moved \cup {1}) = Cardinality(moved) + 1
  BY <1>3, <1>5, FS_AddElement
<1>7. Cardinality(there) \in Nat
  BY <1>4, FS_CardinalityType
<1>8. TagsIn(rest) = Cardinality(there) /\ TagsIn(packets) = Cardinality(where)
  BY <1>1 DEF TagsIn
<1>9. Cardinality(where) = Cardinality(there) + One(packets[1])
  <2>1. CASE IsTag(packets[1])
    BY <2>1, <1>2, <1>5, <1>6, <1>7 DEF One
  <2>2. CASE ~IsTag(packets[1])
    BY <2>2, <1>2, <1>5, <1>7 DEF One
  <2>3. QED
    BY <2>1, <2>2
<1>10. One(packets[1]) \in Nat
  BY DEF One
<1>11. Head(packets) = packets[1] /\ TagsIn(Tail(packets)) = TagsIn(rest)
  BY <1>1 DEF rest
<1> HIDE DEF where, there
<1>12. QED
  BY <1>7, <1>8, <1>9, <1>10, <1>11

-----------------------------------------------------------------------------
(* The types, in parts for the provers that know them. *)
Flags ==
    /\ round_done \in BOOLEAN /\ fifo_irq \in BOOLEAN /\ irq_pending \in BOOLEAN
    /\ expired \in BOOLEAN /\ overdue \in BOOLEAN

Places ==
    /\ setup \in Setups /\ stop_conditions \in StopConditions
    /\ op \in {"Idle", "StartInventoryRoundOp"}
    /\ state \in {"InvIdle", "InvOngoing", "InvStopRequested"}
    /\ stop_reason \in {"SRNone", "SRMaxNumberOfRounds", "SRMaxNumberOfTags",
                        "SRMaxDuration", "SRHost"}
    /\ irqPc \in {"idle", "round", "decide", "continue", "error", "summary",
                  "error_summary", "fifo"}
    /\ appPc \in {"idle", "check_op", "start", "publish", "peek",
                  "restart_idle", "restart_publish"}
    /\ ex10_result \in {"success", "stop", "error"}

Counts ==
    /\ emitted \in 0 .. MaxEmitted /\ failures \in 0 .. MaxFailures
    /\ runs \in 0 .. MaxRuns
    /\ earlier \in Nat /\ round_count \in Nat /\ num_bytes \in Nat
    /\ reported \in Nat

Lists ==
    /\ event_fifo \in Seq(Sent) /\ queue \in Seq(Nodes)
    /\ tag_count \in Nat /\ summary_tags \in Nat \cup {NoSummary}
    /\ irqPc # "idle" => num_bytes <= Len(event_fifo)

TypeOK == Flags /\ Places /\ Counts /\ Lists

LEMMA FlagsStep == Flags /\ [Next]_vars => Flags'
<1> SUFFICES ASSUME Flags, [Next]_vars PROVE Flags'
  OBVIOUS
<1> USE DEF Flags, SetStatus, clock, irqLine
<1>1. CASE EmitsTag \/ EndsRound \/ TimePasses
  BY <1>1, Zenon DEF EmitsTag, EndsRound, TimePasses
<1>2. CASE HandlerReadsStatus \/ HandlerReadFails
  BY <1>2 DEF HandlerReadsStatus, HandlerReadFails
<1>3. CASE \/ RoundDone \/ RoundCut \/ RoundReadFails \/ Decide \/ Continue
           \/ HandleError \/ InsertSummaryFails \/ ReadEventFifo
           \/ ReadEventFifoFails \/ PublishStep
  BY <1>3 DEF RoundDone, RoundCut, RoundReadFails, Decide, Continue,
     HandleError, InsertSummaryFails, ReadEventFifo, ReadEventFifoFails,
     PublishStep, PublishTimesOut, PublishWaits, PublishError, PublishPacket
<1>4. CASE InsertSummary
  BY <1>4, Zenon DEF InsertSummary
<1>5. CASE AppRuns \/ AppChecksOp \/ AppStartsRound
  BY <1>5 DEF AppRuns, AppChecksOp, AppStartsRound
<1>6. CASE RestartReading
  BY <1>6, Zenon DEF RestartReading
<1>7. CASE UNCHANGED vars
  BY <1>7 DEF vars
<1>8. QED
  BY <1>1, <1>2, <1>3, <1>4, <1>5, <1>6, <1>7
     DEF Next, HandlerStep, HostCommand

LEMMA PlacesStep == Places /\ [Next]_vars => Places'
<1> SUFFICES ASSUME Places, [Next]_vars PROVE Places'
  OBVIOUS
<1> USE DEF Places, clock, chip, inventory_state, handler, app, StopConditions
<1>1. CASE EmitsTag \/ EndsRound \/ TimePasses
  BY <1>1 DEF EmitsTag, EndsRound, TimePasses
<1>2. CASE HandlerReadsStatus \/ HandlerReadFails
  BY <1>2 DEF HandlerReadsStatus, HandlerReadFails
<1>3. CASE \/ RoundDone \/ RoundCut \/ RoundReadFails \/ HandleError
           \/ InsertSummary \/ InsertSummaryFails
           \/ ReadEventFifo \/ ReadEventFifoFails
  BY <1>3 DEF RoundDone, RoundCut, RoundReadFails, HandleError, InsertSummary,
     InsertSummaryFails, ReadEventFifo, ReadEventFifoFails
<1>4. CASE Decide
  BY <1>4 DEF Decide, StopReason
<1>5. CASE Continue
  BY <1>5 DEF Continue, StartRound
<1>6. CASE AppRuns \/ AppChecksOp \/ AppStartsRound
  BY <1>6 DEF AppRuns, AppChecksOp, AppStartsRound, Refused, StartRound
<1>7. CASE RestartReading
  BY <1>7 DEF RestartReading
<1>8. CASE PublishTimesOut \/ PublishWaits \/ PublishError
  BY <1>8 DEF PublishTimesOut, PublishWaits, PublishError, RemovePacket
<1>9. CASE PublishPacket
  <2>1. ex10_result' \in {"success", "stop", "error"}
    BY <1>9 DEF PublishPacket, Answers
  <2>2. QED
    BY <1>9, <2>1 DEF PublishPacket, RemovePacket
<1>10. CASE UNCHANGED vars
  BY <1>10 DEF vars
<1>11. QED
  BY <1>1, <1>2, <1>3, <1>4, <1>5, <1>6, <1>7, <1>8, <1>9, <1>10
     DEF Next, HandlerStep, HostCommand, PublishStep

(* The sizes and bounds are those of the instance, throughout. *)
LEMMA SetupStep ==
    [Next]_vars =>
        UNCHANGED <<setup, StopConditions, EventBuffers, ResultBuffers, FifoSize,
                    FifoThreshold, ClientMayStop, ClientMayFail, MaxEmitted,
                    RoundLimit, MaxRuns, MaxFailures>>
<1> SUFFICES ASSUME [Next]_vars PROVE setup' = setup
  BY DEF StopConditions, EventBuffers, ResultBuffers, FifoSize, FifoThreshold,
     ClientMayStop, ClientMayFail, MaxEmitted, RoundLimit, MaxRuns, MaxFailures
<1> USE DEF clock
<1>1. CASE EmitsTag \/ EndsRound \/ TimePasses \/ AppRuns
  BY <1>1 DEF EmitsTag, EndsRound, TimePasses, AppRuns
<1>2. CASE HandlerStep
  BY <1>2 DEF HandlerStep, HandlerReadsStatus, HandlerReadFails, RoundDone,
     RoundCut, RoundReadFails, Decide, Continue, HandleError, InsertSummary,
     InsertSummaryFails, ReadEventFifo, ReadEventFifoFails
<1>3. CASE HostCommand \/ PublishStep
  BY <1>3 DEF HostCommand, AppChecksOp, AppStartsRound, RestartReading,
     PublishStep, PublishTimesOut, PublishWaits, PublishError, PublishPacket
<1>4. CASE UNCHANGED vars
  BY <1>4 DEF vars
<1>5. QED
  BY <1>1, <1>2, <1>3, <1>4 DEF Next

(* How the counters move. *)
CountsMove ==
    /\ \/ emitted' \in {0, emitted}
       \/ emitted < MaxEmitted /\ emitted' = emitted + 1
    /\ failures' = failures \/ MayFail
    /\ runs' = runs \/ (runs < MaxRuns /\ runs' = runs + 1)
    /\ earlier' \in {0, earlier, emitted}
    /\ round_count' \in {0, round_count, round_count + 1}
    /\ num_bytes' \in {num_bytes, Len(event_fifo)}
    /\ reported' \in {0, reported, reported + 1}

LEMMA CountsMoveStep == [Next]_vars => CountsMove
<1> SUFFICES ASSUME [Next]_vars PROVE CountsMove
  OBVIOUS
<1> USE DEF CountsMove, clock, chip, inventory_state, handler, app
<1>1. CASE EmitsTag \/ EndsRound \/ TimePasses
  BY <1>1 DEF EmitsTag, EndsRound, TimePasses
<1>2. CASE HandlerReadsStatus \/ HandlerReadFails
  BY <1>2 DEF HandlerReadsStatus, HandlerReadFails
<1>3. CASE \/ RoundDone \/ RoundCut \/ RoundReadFails \/ HandleError
           \/ InsertSummary \/ InsertSummaryFails
           \/ ReadEventFifo \/ ReadEventFifoFails
  BY <1>3 DEF RoundDone, RoundCut, RoundReadFails, HandleError, InsertSummary,
     InsertSummaryFails, ReadEventFifo, ReadEventFifoFails
<1>4. CASE Decide
  BY <1>4 DEF Decide
<1>5. CASE Continue
  BY <1>5 DEF Continue, StartRound
<1>6. CASE AppRuns \/ AppChecksOp \/ AppStartsRound
  BY <1>6 DEF AppRuns, AppChecksOp, AppStartsRound, Refused, StartRound
<1>7. CASE RestartReading
  BY <1>7 DEF RestartReading
<1>8. CASE PublishTimesOut \/ PublishWaits \/ PublishError \/ PublishPacket
  BY <1>8 DEF PublishTimesOut, PublishWaits, PublishError, PublishPacket
<1>9. CASE UNCHANGED vars
  BY <1>9 DEF vars
<1>10. QED
  BY <1>1, <1>2, <1>3, <1>4, <1>5, <1>6, <1>7, <1>8, <1>9
     DEF Next, HandlerStep, HostCommand, PublishStep

LEMMA CountsStep == Counts /\ Places /\ Lists /\ [Next]_vars => Counts'
<1> SUFFICES ASSUME Counts, Places, Lists, [Next]_vars PROVE Counts'
  OBVIOUS
<1>1. /\ MaxEmitted \in Nat /\ MaxRuns \in Nat /\ MaxFailures \in Nat
      /\ Len(event_fifo) \in Nat
  BY Sizes DEF Places, Lists
<1>2. UNCHANGED <<MaxEmitted, MaxRuns, MaxFailures>>
  BY SetupStep
<1>3. CountsMove
  BY CountsMoveStep
<1>4. QED
  BY <1>1, <1>2, <1>3 DEF Counts, CountsMove, MayFail
-----------------------------------------------------------------------------
(* What the steps do to the FIFO of the Ex10 and to the queue. *)
LEMMA PushErrorEffect ==
    ASSUME queue \in Seq(Nodes), PushError
    PROVE  /\ queue' \in Seq(Nodes)
           /\ \/ queue' = queue
              \/ /\ Len(queue') = Len(queue) + 1
                 /\ \A i \in 1 .. Len(queue) : queue'[i] = queue[i]
                 /\ queue'[Len(queue) + 1] = <<Ex10ResultPacket>>
BY PacketTypes, AppendProperties DEF PushError

LEMMA RemoveEffect ==
    ASSUME queue \in Seq(Nodes), queue # <<>>,
           NEW next, RemovePacket(next)
    PROVE  LET node == Head(queue) IN
           /\ node = queue[1] /\ node \in Nodes
           /\ Head(node) = node[1] /\ Head(node) \in Packets
           /\ queue' \in Seq(Nodes)
           /\ \/ /\ Len(node) > 1 /\ Tail(node) \in Nodes
                 /\ Len(queue') = Len(queue) /\ queue'[1] = Tail(node)
                 /\ \A i \in 2 .. Len(queue) : queue'[i] = queue[i]
              \/ /\ Len(node) = 1
                 /\ Len(queue') = Len(queue) - 1
                 /\ \A i \in 1 .. Len(queue) - 1 : queue'[i] = queue[i + 1]
<1> DEFINE node == Head(queue)
           rest == Tail(queue)
           n == Len(queue)
<1>1. /\ n \in Nat \ {0} /\ node = queue[1] /\ node \in Nodes
      /\ rest \in Seq(Nodes) /\ Len(rest) = n - 1
      /\ \A i \in 1 .. n - 1 : rest[i] = queue[i + 1]
  BY HeadTailProperties
<1>2. /\ node \in Seq(Packets) /\ node # <<>> /\ Len(node) \in Nat \ {0}
      /\ Head(node) = node[1] /\ Head(node) \in Packets
      /\ Tail(node) \in Seq(Packets) /\ Len(Tail(node)) = Len(node) - 1
  BY <1>1, HeadTailProperties DEF Nodes
<1>3. queue' = IF Len(node) > 1 THEN <<Tail(node)>> \o rest ELSE rest
  BY DEF RemovePacket
<1> HIDE DEF node, rest, n
<1>4. CASE Len(node) > 1
  <2>1. Tail(node) \in Nodes
    <3> DEFINE shorter == Tail(node)
    <3>1. shorter \in Seq(Packets) /\ Len(shorter) > 0
      BY <1>2, <1>4
    <3> HIDE DEF shorter
    <3>2. shorter # <<>>
      BY <3>1
    <3>3. QED
      BY <3>1, <3>2 DEF Nodes, shorter
  <2>2. <<Tail(node)>> \in Seq(Nodes) /\ Len(<<Tail(node)>>) = 1
    BY <2>1
  <2>3. /\ queue' \in Seq(Nodes) /\ Len(queue') = n
        /\ queue'[1] = Tail(node)
        /\ \A i \in 2 .. n : queue'[i] = rest[i - 1]
    BY <1>1, <1>3, <1>4, <2>2, ConcatProperties
  <2>4. \A i \in 2 .. n : i - 1 \in 1 .. n - 1 /\ (i - 1) + 1 = i
    BY <1>1
  <2>5. \A i \in 2 .. n : queue'[i] = queue[i]
    BY <1>1, <2>3, <2>4
  <2>6. QED
    BY <1>1, <1>2, <1>4, <2>1, <2>3, <2>5 DEF node, n
<1>5. CASE ~(Len(node) > 1)
  BY <1>1, <1>2, <1>3, <1>5 DEF node, n
<1>6. QED
  BY <1>4, <1>5

(* A read takes the front of the FIFO and leaves the rest; on their way to *)
(* the queue the packets stay what they are, and summaries get the count.  *)
LEMMA ReadSplits ==
    ASSUME NEW S, NEW list \in Seq(S), NEW n \in Nat, n <= Len(list)
    PROVE  /\ SubSeq(list, 1, n) \in Seq(S) /\ Len(SubSeq(list, 1, n)) = n
           /\ \A i \in 1 .. n : SubSeq(list, 1, n)[i] = list[i]
           /\ SubSeq(list, n + 1, Len(list)) \in Seq(S)
           /\ Len(SubSeq(list, n + 1, Len(list))) = Len(list) - n
           /\ \A i \in 1 .. Len(list) - n :
                   SubSeq(list, n + 1, Len(list))[i] = list[n + i]
<1>1. Len(list) \in Nat /\ \A i \in 1..Len(list) : list[i] \in S
  OBVIOUS
<1>2. /\ \A i \in 1..n : list[i] \in S
      /\ \A i \in (n + 1)..Len(list) : list[i] \in S
  BY <1>1
<1>3. /\ SubSeq(list, 1, n) \in Seq(S) /\ Len(SubSeq(list, 1, n)) = n
      /\ \A i \in 1 .. n : SubSeq(list, 1, n)[i] = list[i]
  BY <1>2, SubSeqProperties
<1>4. /\ SubSeq(list, n + 1, Len(list)) \in Seq(S)
      /\ Len(SubSeq(list, n + 1, Len(list))) = Len(list) - n
      /\ \A i \in 1 .. Len(list) - n :
              SubSeq(list, n + 1, Len(list))[i] = list[n + i]
  BY <1>1, <1>2, SubSeqProperties
<1>5. QED
  BY <1>3, <1>4

LEMMA CountedEffect ==
    ASSUME tag_count \in Nat, NEW packets \in Seq(Sent), packets # <<>>
    PROVE  /\ Counted(packets) \in Nodes
           /\ Len(Counted(packets)) = Len(packets)
           /\ \A i \in 1 .. Len(packets) :
                 /\ Counted(packets)[i] \in Sent
                 /\ IsTag(Counted(packets)[i]) <=> IsTag(packets[i])
                 /\ ~IsTag(packets[i]) =>
                      Counted(packets)[i] =
                          Summary(tag_count + TagsIn(SubSeq(packets, 1, i)))
<1> DEFINE n == Len(packets)
           counted == Counted(packets)
<1>1. n \in Nat \ {0} /\ DOMAIN packets = 1 .. n /\ \A i \in 1 .. n : packets[i] \in Sent
  OBVIOUS
<1>2. /\ DOMAIN counted = 1 .. n
      /\ \A i \in 1 .. n : counted[i] =
            IF IsTag(packets[i]) THEN packets[i]
            ELSE Summary(tag_count + TagsIn(SubSeq(packets, 1, i)))
  BY <1>1 DEF Counted
<1> HIDE DEF n, counted
<1>3. ASSUME NEW i \in 1 .. n, ~IsTag(packets[i])
      PROVE  TagsIn(SubSeq(packets, 1, i)) \in Nat
  <2>1. i \in Nat /\ i <= Len(packets)
    BY <1>1 DEF n
  <2>2. SubSeq(packets, 1, i) \in Seq(Sent)
    BY <2>1, ReadSplits
  <2>3. SubSeq(packets, 1, i) \in Seq(Packets)
    BY <2>2, SeqMonotonic, PacketTypes
  <2>4. QED
    BY <2>3, TagsInBound
<1>4. ASSUME NEW i \in 1 .. n
      PROVE  /\ counted[i] \in Sent
             /\ IsTag(counted[i]) <=> IsTag(packets[i])
  <2>1. CASE IsTag(packets[i])
    BY <1>1, <1>2, <2>1
  <2>2. CASE ~IsTag(packets[i])
    <3>1. tag_count + TagsIn(SubSeq(packets, 1, i)) \in Nat
      BY <1>3, <2>2
    <3>2. \A m \in Nat : ~IsTag(Summary(m))
      BY DEF IsTag, Summary, Packet
    <3>3. QED
      BY <1>2, <2>2, <3>1, <3>2, PacketTypes
  <2>3. QED
    BY <2>1, <2>2
<1>5. counted \in Seq(Sent) /\ Len(counted) = n
  <2>1. counted = [i \in 1 .. n |-> counted[i]]
    BY <1>2 DEF counted, Counted
  <2>2. QED
    BY <1>1, <1>4, <2>1, IsASeq, LenProperties
<1>6. counted \in Seq(Packets) /\ counted # <<>>
  BY <1>1, <1>5, SeqMonotonic, PacketTypes
<1>7. QED
  BY <1>2, <1>4, <1>5, <1>6 DEF Nodes, n, counted
LEMMA ReadEffect ==
    ASSUME Counts, Lists, irqPc = "fifo", num_bytes > 0,
           NEW packets, packets = SubSeq(event_fifo, 1, num_bytes)
    PROVE  /\ packets \in Seq(Sent) /\ Len(packets) = num_bytes
           /\ packets \in Seq(Packets) /\ packets # <<>>
           /\ \A i \in 1 .. num_bytes : packets[i] = event_fifo[i]
           /\ TagsIn(packets) \in Nat
           /\ Unread \in Seq(Sent) /\ Len(Unread) = Len(event_fifo) - num_bytes
           /\ \A i \in 1 .. Len(event_fifo) - num_bytes :
                    Unread[i] = event_fifo[num_bytes + i]
<1>1. /\ event_fifo \in Seq(Sent) /\ num_bytes \in Nat
      /\ num_bytes <= Len(event_fifo)
  BY DEF Counts, Lists
<1>2. /\ packets \in Seq(Sent) /\ Len(packets) = num_bytes
      /\ \A i \in 1 .. num_bytes : packets[i] = event_fifo[i]
      /\ Unread \in Seq(Sent) /\ Len(Unread) = Len(event_fifo) - num_bytes
      /\ \A i \in 1 .. Len(event_fifo) - num_bytes :
               Unread[i] = event_fifo[num_bytes + i]
  BY <1>1, ReadSplits DEF Unread
<1>3. packets \in Seq(Packets) /\ packets # <<>>
  BY <1>2, SeqMonotonic, PacketTypes
<1>4. QED
  BY <1>2, <1>3, TagsInBound

LEMMA ListsStep == Counts /\ Places /\ Lists /\ [Next]_vars => Lists'
<1> SUFFICES ASSUME Counts, Places, Lists, [Next]_vars PROVE Lists'
  OBVIOUS
<1>1. /\ event_fifo \in Seq(Sent) /\ queue \in Seq(Nodes) /\ tag_count \in Nat
      /\ num_bytes \in Nat /\ Len(event_fifo) \in Nat
      /\ summary_tags \in Nat \cup {NoSummary}
  BY DEF Lists, Counts
<1>2. ASSUME NEW packet \in Sent, event_fifo' = Append(event_fifo, packet)
      PROVE  event_fifo' \in Seq(Sent) /\ Len(event_fifo') = Len(event_fifo) + 1
  BY <1>1, <1>2, AppendProperties
<1> USE DEF Lists, clock, chip, inventory_state, handler, app
<1>3. CASE EmitsTag
  BY <1>1, <1>2, <1>3, PacketTypes DEF EmitsTag
<1>4. CASE EndsRound \/ TimePasses \/ AppChecksOp \/ AppStartsRound
  BY <1>1, <1>4 DEF EndsRound, TimePasses, AppChecksOp, AppStartsRound
<1>5. CASE AppRuns
  <2>1. /\ tag_count' = 0 /\ summary_tags' = NoSummary
        /\ UNCHANGED <<event_fifo, queue, irqPc, num_bytes>>
    BY <1>5 DEF AppRuns
  <2>2. QED
    BY <1>1, <2>1
<1>6. CASE HandlerReadsStatus \/ RoundDone \/ RoundCut \/ Decide \/ Continue
  BY <1>1, <1>6 DEF HandlerReadsStatus, RoundDone, RoundCut, Decide, Continue,
     Places
<1>7. CASE HandlerReadFails \/ RoundReadFails \/ HandleError
  <2>1. PushError
    BY <1>7 DEF HandlerReadFails, RoundReadFails, HandleError
  <2>2. queue' \in Seq(Nodes)
    BY <1>1, <2>1, PushErrorEffect
  <2>3. QED
    BY <1>1, <1>7, <2>2 DEF HandlerReadFails, RoundReadFails, HandleError
<1>8. CASE InsertSummary
  BY <1>1, <1>2, <1>8, PacketTypes DEF InsertSummary
<1>9. CASE InsertSummaryFails
  <2>1. queue' \in Seq(Nodes)
    BY <1>1, <1>9, PushErrorEffect DEF InsertSummaryFails
  <2>2. QED
    BY <1>1, <1>9, <2>1 DEF InsertSummaryFails
<1>10. CASE ReadEventFifo
  <2>1. CASE num_bytes > 0 /\ FreeEventBuffers > 0
    <3> DEFINE packets == SubSeq(event_fifo, 1, num_bytes)
    <3>1. /\ event_fifo' = Unread /\ tag_count' = tag_count + TagsIn(packets)
          /\ queue' = Append(queue, Counted(packets)) /\ irqPc' = "idle"
          /\ summary_tags' = summary_tags /\ irqPc = "fifo"
      BY <1>10, <2>1 DEF ReadEventFifo
    <3> HIDE DEF packets
    <3>2. /\ Counted(packets) \in Nodes /\ Unread \in Seq(Sent)
          /\ TagsIn(packets) \in Nat
      BY <1>1, <2>1, <3>1, ReadEffect, CountedEffect DEF packets
    <3>3. queue' \in Seq(Nodes)
      BY <1>1, <3>1, <3>2, AppendProperties
    <3>4. QED
      BY <1>1, <3>1, <3>2, <3>3
  <2>2. CASE ~(num_bytes > 0 /\ FreeEventBuffers > 0)
    <3>1. queue' \in Seq(Nodes)
      BY <1>1, <1>10, <2>2, PushErrorEffect DEF ReadEventFifo
    <3>2. QED
      BY <1>1, <1>10, <2>2, <3>1 DEF ReadEventFifo
  <2>3. QED
    BY <2>1, <2>2
<1>11. CASE ReadEventFifoFails
  <2>1. queue' \in Seq(Nodes)
    BY <1>1, <1>11, PushErrorEffect DEF ReadEventFifoFails
  <2>2. Unread \in Seq(Sent)
    BY <1>11, ReadEffect DEF ReadEventFifoFails
  <2>3. QED
    BY <1>1, <1>11, <2>1, <2>2 DEF ReadEventFifoFails
<1>12. CASE RestartReading
  <2>1. queue' \in Seq(Nodes)
    BY <1>1, <1>12, PushErrorEffect DEF RestartReading
  <2>2. QED
    BY <1>1, <1>12, <2>1 DEF RestartReading
<1>13. CASE PublishTimesOut \/ PublishWaits
  BY <1>1, <1>13 DEF PublishTimesOut, PublishWaits
<1>14. CASE PublishError
  <2>1. queue' \in Seq(Nodes)
    BY <1>1, <1>14, RemoveEffect DEF PublishError
  <2>2. QED
    BY <1>1, <1>14, <2>1 DEF PublishError
<1>15. CASE PublishPacket
  <2>1. PICK next : RemovePacket(next)
    BY <1>15 DEF PublishPacket
  <2>2. queue # <<>>
    BY <1>15 DEF PublishPacket
  <2>3. queue' \in Seq(Nodes) /\ Head(Head(queue)) \in Packets
    BY <1>1, <2>1, <2>2, RemoveEffect
  <2>4. summary_tags' \in {summary_tags, Head(Head(queue)).number_of_tags}
    BY <1>15 DEF PublishPacket
  <2>5. summary_tags' \in Nat \cup {NoSummary}
    BY <1>1, <2>3, <2>4, PacketTypes
  <2>6. QED
    BY <1>1, <1>15, <2>3, <2>5 DEF PublishPacket
<1>16. CASE UNCHANGED vars
  BY <1>16 DEF vars
<1>17. QED
  BY <1>3, <1>4, <1>5, <1>6, <1>7, <1>8, <1>9, <1>10, <1>11, <1>12, <1>13, <1>14,
     <1>15, <1>16 DEF Next, HandlerStep, HostCommand, PublishStep

LEMMA TypeStep == TypeOK /\ [Next]_vars => TypeOK'
BY FlagsStep, PlacesStep, CountsStep, ListsStep DEF TypeOK

LEMMA TypeInit == Init => TypeOK
<1> SUFFICES ASSUME Init PROVE TypeOK
  OBVIOUS
<1>1. setup \in Setups
  BY DEF Init
<1>2. MaxEmitted \in Nat /\ MaxFailures \in Nat /\ MaxRuns \in Nat
  BY <1>1, Sizes
<1>3. event_fifo = <<>> /\ queue = <<>>
  BY DEF Init
<1>4. event_fifo \in Seq(Sent) /\ queue \in Seq(Nodes)
  BY <1>3
<1>5. Flags
  BY DEF Init, Flags
<1>6. Places
  BY DEF Init, Places
<1>7. Counts
  BY <1>2 DEF Init, Counts
<1>8. Lists
  BY <1>4 DEF Init, Lists, NoSummary
<1>9. QED
  BY <1>5, <1>6, <1>7, <1>8 DEF TypeOK

(* Every reachable state has the types of TypeOK. *)
THEOREM TypeCorrect == Spec => []TypeOK
BY TypeInit, TypeStep, PTL DEF Spec
-----------------------------------------------------------------------------
(* The packets of a queue are numbered through its nodes: the first packet *)
(* of node i has number at[i - 1] + 1, the last one at[i].  InOrder says   *)
(* that the tags are those up to number k, and that no node is an error.   *)
InOrder(q, at, k) ==
    /\ at \in [0 .. Len(q) -> Nat]
    /\ \A i \in 1 .. Len(q) : at[i] = at[i - 1] + Len(q[i])
    /\ \A i \in 0 .. Len(q) : at[Len(q)] - at[i] >= Len(q) - i
    /\ \A i \in 1 .. Len(q) : \A j \in 1 .. Len(q[i]) :
          /\ q[i][j].packet_type # "Ex10ResultPacket"
          /\ IsTag(q[i][j]) <=> at[i - 1] + j <= k

LEMMA EmptyInOrder ==
    ASSUME NEW n \in Nat, NEW k
    PROVE  LET at == [i \in {0} |-> n] IN InOrder(<<>>, at, k) /\ at[0] = n
<1> DEFINE at == [i \in {0} |-> n]
<1>1. Len(<<>>) = 0 /\ 0 .. 0 = {0} /\ 1 .. 0 = {} /\ at \in [{0} -> Nat] /\ at[0] = n
  OBVIOUS
<1> HIDE DEF at
<1>2. InOrder(<<>>, at, k)
  BY <1>1 DEF InOrder
<1>3. QED
  BY <1>1, <1>2 DEF at

LEMMA AppendInOrder ==
    ASSUME NEW q \in Seq(Nodes), NEW at, NEW k \in Nat, InOrder(q, at, k),
           NEW node \in Nodes,
           \A j \in 1 .. Len(node) :
              /\ node[j].packet_type # "Ex10ResultPacket"
              /\ IsTag(node[j]) <=> at[Len(q)] + j <= k
    PROVE  \E more : /\ InOrder(Append(q, node), more, k)
                     /\ more[0] = at[0]
                     /\ more[Len(q) + 1] = at[Len(q)] + Len(node)
<1> DEFINE n == Len(q)
           longer == Append(q, node)
           more == [i \in 0 .. n + 1 |-> IF i <= n THEN at[i] ELSE at[n] + Len(node)]
<1>1. /\ n \in Nat /\ Len(longer) = n + 1 /\ longer[n + 1] = node
      /\ \A i \in 1 .. n : longer[i] = q[i]
  BY AppendProperties
<1>2. Len(node) \in Nat \ {0}
  BY DEF Nodes
<1>3. \A i \in 0 .. n : at[i] \in Nat
  BY DEF InOrder
<1> HIDE DEF longer
<1>4. /\ more \in [0 .. n + 1 -> Nat] /\ more[0] = at[0]
      /\ more[n + 1] = at[n] + Len(node)
      /\ \A i \in 0 .. n : more[i] = at[i]
  BY <1>1, <1>2, <1>3
<1> HIDE DEF more
<1>5. ASSUME NEW i \in 1 .. n + 1
      PROVE  /\ more[i] = more[i - 1] + Len(longer[i])
             /\ \A j \in 1 .. Len(longer[i]) :
                  /\ longer[i][j].packet_type # "Ex10ResultPacket"
                  /\ IsTag(longer[i][j]) <=> more[i - 1] + j <= k
  <2>1. CASE i = n + 1
    <3>1. i - 1 = n /\ n \in 0 .. n
      BY <1>1, <2>1
    <3>2. more[i - 1] = at[n] /\ longer[i] = node
      BY <1>1, <1>4, <2>1, <3>1
    <3>3. QED
      BY <1>4, <2>1, <3>2 DEF n
  <2>2. CASE i \in 1 .. n
    <3>1. i \in 0 .. n /\ i - 1 \in 0 .. n
      BY <1>1, <2>2
    <3>2. more[i] = at[i] /\ more[i - 1] = at[i - 1] /\ longer[i] = q[i]
      BY <1>1, <1>4, <2>2, <3>1
    <3>3. QED
      BY <2>2, <3>2 DEF InOrder, n
  <2>3. QED
    BY <1>1, <2>1, <2>2
<1>6. ASSUME NEW i \in 0 .. n + 1
      PROVE  more[n + 1] - more[i] >= n + 1 - i
  <2>1. CASE i = n + 1
    BY <1>1, <1>2, <1>4, <2>1
  <2>2. CASE i \in 0 .. n
    <3>1. at[n] - at[i] >= n - i /\ at[n] \in Nat /\ at[i] \in Nat
      BY <1>1, <1>3, <2>2 DEF InOrder, n
    <3>2. QED
      BY <1>1, <1>2, <1>4, <2>2, <3>1
  <2>3. QED
    BY <1>1, <2>1, <2>2
<1>7. InOrder(longer, more, k)
  BY <1>1, <1>4, <1>5, <1>6 DEF InOrder
<1>8. QED
  BY <1>4, <1>7 DEF longer, n

LEMMA RemoveInOrder ==
    ASSUME queue \in Seq(Nodes), queue # <<>>, NEW next, RemovePacket(next),
           NEW at, NEW k \in Nat, InOrder(queue, at, k)
    PROVE  \E less : /\ InOrder(queue', less, k)
                     /\ less[0] = at[0] + 1
                     /\ less[Len(queue')] = at[Len(queue)]
<1> DEFINE n == Len(queue)
           m == Len(queue')
           node == Head(queue)
<1>1. /\ n \in Nat \ {0} /\ node = queue[1] /\ node \in Nodes /\ queue' \in Seq(Nodes)
      /\ Len(node) \in Nat \ {0} /\ m \in Nat
      /\ \A i \in 0 .. n : at[i] \in Nat
  <2>1. n \in Nat \ {0} /\ node = queue[1] /\ node \in Nodes /\ queue' \in Seq(Nodes)
    BY RemoveEffect
  <2>2. Len(node) \in Nat \ {0}
    BY <2>1 DEF Nodes
  <2>3. \A i \in 0 .. n : at[i] \in Nat
    BY DEF InOrder
  <2>4. QED
    BY <2>1, <2>2, <2>3
<1>2. \A i \in 1 .. n : at[i] = at[i - 1] + Len(queue[i])
  BY DEF InOrder
<1>3. CASE /\ Len(node) > 1
           /\ m = n /\ queue'[1] = Tail(node)
           /\ \A i \in 2 .. n : queue'[i] = queue[i]
  <2> DEFINE less == [i \in 0 .. n |-> IF i = 0 THEN at[0] + 1 ELSE at[i]]
  <2>1. /\ less \in [0 .. n -> Nat] /\ less[0] = at[0] + 1
        /\ \A i \in 1 .. n : less[i] = at[i]
    BY <1>1
  <2> HIDE DEF less
  <2>2. /\ Len(Tail(node)) = Len(node) - 1
        /\ \A j \in 1 .. Len(node) - 1 : Tail(node)[j] = node[j + 1]
    BY <1>1 DEF Nodes
  <2>3. at[1] = at[0] + Len(node) /\ at[0] \in Nat /\ at[1] \in Nat
    BY <1>1, <1>2
  <2>4. ASSUME NEW i \in 1 .. n
        PROVE  /\ less[i] = less[i - 1] + Len(queue'[i])
               /\ \A j \in 1 .. Len(queue'[i]) :
                    /\ queue'[i][j].packet_type # "Ex10ResultPacket"
                    /\ IsTag(queue'[i][j]) <=> less[i - 1] + j <= k
    <3>1. CASE i = 1
      <4>1. less[i - 1] = at[0] + 1 /\ less[i] = at[1] /\ queue'[i] = Tail(node)
        BY <1>1, <1>3, <2>1, <3>1
      <4>2. ASSUME NEW j \in 1 .. Len(node) - 1
            PROVE  /\ Tail(node)[j].packet_type # "Ex10ResultPacket"
                   /\ IsTag(Tail(node)[j]) <=> (at[0] + 1) + j <= k
        <5>1. j + 1 \in 1 .. Len(node) /\ 1 \in 1 .. n /\ 1 - 1 = 0
          BY <1>1
        <5>2. /\ node[j + 1].packet_type # "Ex10ResultPacket"
              /\ IsTag(node[j + 1]) <=> at[0] + (j + 1) <= k
          BY <1>1, <5>1 DEF InOrder
        <5>3. (at[0] + 1) + j = at[0] + (j + 1)
          <6>1. j \in Int
            OBVIOUS
          <6>2. QED
            BY <6>1, <2>3
        <5>4. QED
          BY <2>2, <5>2, <5>3
      <4>3. less[i] = less[i - 1] + Len(queue'[i])
        BY <1>1, <2>2, <2>3, <4>1
      <4>4. QED
        BY <2>2, <4>1, <4>2, <4>3
    <3>2. CASE i \in 2 .. n
      <4>1. i - 1 \in 1 .. n
        BY <1>1, <3>2
      <4>2. less[i] = at[i] /\ less[i - 1] = at[i - 1] /\ queue'[i] = queue[i]
        BY <1>3, <2>1, <3>2, <4>1
      <4>3. QED
        BY <4>2 DEF InOrder
    <3>3. QED
      BY <1>1, <3>1, <3>2
  <2>5. ASSUME NEW i \in 0 .. n
        PROVE  less[n] - less[i] >= n - i
    <3>1. /\ at[n] - at[i] >= n - i /\ at[n] - at[1] >= n - 1
          /\ at[n] \in Nat /\ at[i] \in Nat
      BY <1>1 DEF InOrder
    <3>2. less[n] = at[n]
      BY <1>1, <2>1
    <3>3. CASE i = 0
      BY <1>1, <1>3, <2>1, <2>3, <3>1, <3>2, <3>3
    <3>4. CASE i # 0
      BY <1>1, <2>1, <3>1, <3>2, <3>4
    <3>5. QED
      BY <3>3, <3>4
  <2>6. InOrder(queue', less, k)
    BY <1>3, <2>1, <2>4, <2>5 DEF InOrder
  <2>7. less[m] = at[n]
    BY <1>1, <1>3, <2>1
  <2>8. QED
    BY <2>1, <2>6, <2>7
<1>4. CASE /\ Len(node) = 1
           /\ m = n - 1
           /\ \A i \in 1 .. n - 1 : queue'[i] = queue[i + 1]
  <2> DEFINE less == [i \in 0 .. m |-> at[i + 1]]
  <2>1. \A i \in 0 .. m : i + 1 \in 1 .. n
    BY <1>1, <1>4
  <2>2. less \in [0 .. m -> Nat] /\ \A i \in 0 .. m : less[i] = at[i + 1]
    BY <1>1, <2>1
  <2> HIDE DEF less
  <2>3. less[0] = at[0] + 1 /\ less[m] = at[n]
    <3>1. 0 \in 0 .. m /\ m \in 0 .. m /\ 1 \in 1 .. n /\ 1 - 1 = 0
      BY <1>1, <1>4
    <3>2. less[0] = at[1] /\ less[m] = at[n]
      BY <1>1, <1>4, <2>2, <3>1
    <3>3. at[1] = at[0] + 1
      BY <1>1, <1>4, <1>2, <3>1
    <3>4. QED
      BY <3>2, <3>3
  <2>4. ASSUME NEW i \in 1 .. m
        PROVE  /\ less[i] = less[i - 1] + Len(queue'[i])
               /\ \A j \in 1 .. Len(queue'[i]) :
                    /\ queue'[i][j].packet_type # "Ex10ResultPacket"
                    /\ IsTag(queue'[i][j]) <=> less[i - 1] + j <= k
    <3>1. i - 1 \in 0 .. m /\ i + 1 \in 1 .. n /\ (i - 1) + 1 = i /\ (i + 1) - 1 = i
      BY <1>1, <1>4
    <3>2. less[i] = at[i + 1] /\ less[i - 1] = at[i] /\ queue'[i] = queue[i + 1]
      BY <1>4, <2>2, <3>1
    <3>3. QED
      BY <3>1, <3>2 DEF InOrder
  <2>5. ASSUME NEW i \in 0 .. m
        PROVE  less[m] - less[i] >= m - i
    <3>1. i + 1 \in 0 .. n /\ m - i = n - (i + 1)
      BY <1>1, <1>4
    <3>2. at[n] - at[i + 1] >= n - (i + 1)
      BY <3>1 DEF InOrder
    <3>3. QED
      BY <2>2, <2>3, <3>1, <3>2
  <2>6. InOrder(queue', less, k)
    BY <2>2, <2>4, <2>5 DEF InOrder
  <2>7. QED
    BY <2>3, <2>6
<1>5. QED
  BY <1>3, <1>4, RemoveEffect
LEMMA LongerInOrder ==
    ASSUME NEW q \in Seq(Nodes), NEW at, NEW k \in Nat, NEW later \in Nat,
           InOrder(q, at, k), at[Len(q)] <= k, k <= later
    PROVE  InOrder(q, at, later)
<1> DEFINE n == Len(q)
<1>1. n \in Nat /\ \A i \in 0 .. n : at[i] \in Nat
  <2>1. n \in Nat
    OBVIOUS
  <2>2. \A i \in 0 .. n : at[i] \in Nat
    BY DEF InOrder
  <2>3. QED
    BY <2>1, <2>2
<1>2. ASSUME NEW i \in 1 .. n, NEW j \in 1 .. Len(q[i])
      PROVE  /\ q[i][j].packet_type # "Ex10ResultPacket"
             /\ IsTag(q[i][j]) <=> at[i - 1] + j <= later
  <2>1. /\ i \in 0 .. n /\ i - 1 \in 0 .. n /\ n \in 0 .. n
        /\ Len(q[i]) \in Nat /\ j \in Nat /\ j <= Len(q[i])
    BY <1>1 DEF Nodes
  <2>2. /\ at[i - 1] \in Nat /\ at[i] \in Nat /\ at[n] \in Nat
        /\ at[i] = at[i - 1] + Len(q[i]) /\ at[n] - at[i] >= n - i
    BY <1>1, <2>1 DEF InOrder
  <2>3. at[i - 1] + j <= k /\ at[i - 1] + j <= later
    <3>1. at[i - 1] + j <= at[i]
      BY <2>1, <2>2
    <3>2. i <= n /\ i \in Nat /\ at[n] <= k
      BY <1>1
    <3>3. at[i] <= at[n]
      BY <1>1, <2>2, <3>2
    <3>4. QED
      BY <2>1, <2>2, <3>1, <3>2, <3>3
  <2>4. /\ q[i][j].packet_type # "Ex10ResultPacket"
        /\ IsTag(q[i][j]) <=> at[i - 1] + j <= k
    BY DEF InOrder
  <2>5. QED
    BY <2>3, <2>4
<1>3. QED
  BY <1>2 DEF InOrder
-----------------------------------------------------------------------------
(* Where everything is while nothing fails.  Between runs everything is    *)
(* clear, but for an interrupt that finds the Ex10 empty; in a run either  *)
(* a round is running, or it has ended and its end is being handled, or    *)
(* the run is over but for its summary; and all packets, in the FIFO and   *)
(* in the queue, stand in one line: the tags, then the summary.            *)
Reporting == appPc \in {"publish", "peek", "restart_publish"}
Resting == irqPc = "idle" \/ (irqPc = "fifo" /\ num_bytes = 0)
Clear ==
    op = "Idle" /\ ~round_done /\ Resting /\ event_fifo = <<>> /\ queue = <<>>
Starting ==
    /\ state = "InvOngoing" /\ stop_reason = "SRNone"
    /\ emitted = 0 /\ reported = 0 /\ tag_count = 0 /\ earlier = 0

Rounds ==
    /\ stop_reason = "SRNone" =>
        /\ state # "InvIdle"
        /\ irqPc \in {"idle", "fifo", "round", "decide", "continue"}
        /\ op # "Idle" => ~round_done /\ irqPc \in {"idle", "fifo"}
        /\ op = "Idle" => (round_done <=> irqPc \in {"idle", "fifo"})
    /\ stop_reason # "SRNone" =>
        op = "Idle" /\ ~round_done /\ irqPc \in {"summary", "fifo", "idle"}

Amounts ==
    /\ irqPc \in {"round", "decide", "continue", "summary"} =>
           num_bytes = Len(event_fifo)
    /\ earlier <= emitted
    /\ earlier <= IF irqPc = "fifo" THEN tag_count + num_bytes ELSE tag_count
    /\ irqPc = "continue" => ~EnoughTags

Inserted == IF stop_reason = "SRNone" \/ irqPc = "summary" THEN 0 ELSE 1

InLine(at) ==
    LET end == at[Len(queue)] IN
    /\ InOrder(queue, at, emitted)
    /\ at[0] = reported
    /\ end + Len(event_fifo) = emitted + Inserted
    /\ \A j \in 1 .. Len(event_fifo) : IsTag(event_fifo[j]) <=> end + j <= emitted
    /\ tag_count = IF end < emitted THEN end ELSE emitted
Line == \E at : InLine(at)

Calm ==
    /\ ~overdue /\ ex10_result \in {"success", "stop"}
    /\ irqPc \notin {"error", "error_summary"}
    /\ ~Reporting => Clear
    /\ appPc \in {"check_op", "start"} => Starting
    /\ Reporting => Rounds /\ Amounts /\ Line

(* Nothing fails, and no time is limited. *)
LEMMA NothingFails ==
    ASSUME TypeOK, FaultFree
    PROVE  /\ ~MayFail /\ ~stop_conditions.max_duration /\ ~ClientMayFail
           /\ MaxEmitted \in Nat /\ EventBuffers \in Nat /\ MaxEmitted < EventBuffers
<1>1. MaxEmitted \in Nat /\ EventBuffers \in Nat /\ MaxEmitted < EventBuffers
  BY Sizes DEF TypeOK, Places, FaultFree
<1>2. failures \in 0 .. 0
  BY DEF TypeOK, Counts, FaultFree
<1>3. QED
  BY <1>1, <1>2 DEF TypeOK, Places, FaultFree, MayFail

LEMMA FaultFreeStep == [Next]_vars => (FaultFree' <=> FaultFree)
BY SetupStep DEF FaultFree

(* The numbers of a line, as far as its ends need them. *)
LEMMA LineEnds ==
    ASSUME TypeOK, NEW at, InLine(at)
    PROVE  LET n == Len(queue) IN
           /\ n \in Nat /\ Len(event_fifo) \in Nat /\ at[n] \in Nat
           /\ emitted \in Nat /\ reported \in Nat /\ at[0] = reported
           /\ reported + n <= at[n]
           /\ at[n] + Len(event_fifo) = emitted + Inserted
           /\ queue # <<>> => n > 0
<1>1. queue \in Seq(Nodes) /\ Len(queue) \in Nat /\ Len(event_fifo) \in Nat
  BY DEF TypeOK, Lists
<1>2. emitted \in Nat /\ reported \in Nat
  BY Sizes DEF TypeOK, Counts, Places
<1>3. 0 \in 0 .. Len(queue) /\ Len(queue) \in 0 .. Len(queue)
  BY <1>1
<1>4. /\ at[Len(queue)] \in Nat /\ at[0] = reported
      /\ at[Len(queue)] - at[0] >= Len(queue) - 0
      /\ at[Len(queue)] + Len(event_fifo) = emitted + Inserted
  BY <1>3 DEF InLine, InOrder
<1>5. QED
  BY <1>1, <1>2, <1>4

(* There is a free event buffer whenever there is something to read.       *)
LEMMA RoomToRead ==
    ASSUME TypeOK, FaultFree, Calm, irqPc = "fifo", num_bytes > 0
    PROVE  FreeEventBuffers > 0
<1> DEFINE n == Len(queue)
<1>1. num_bytes \in Nat /\ Len(event_fifo) > 0 /\ Len(event_fifo) \in Nat
  BY DEF TypeOK, Counts, Lists
<1>2. Reporting
  BY DEF Calm, Clear, Resting
<1>3. PICK at : InLine(at)
  BY <1>2 DEF Calm, Line
<1>4. n <= emitted
  <2>1. Inserted \in 0 .. 1
    BY DEF Inserted
  <2>2. QED
    BY <1>1, <1>3, <2>1, LineEnds
<1>5. n \in Nat /\ emitted <= MaxEmitted /\ emitted \in Nat
  BY <1>3, LineEnds, NothingFails DEF TypeOK, Counts
<1>6. DOMAIN queue \ Errors \subseteq 1 .. n
  BY <1>5 DEF TypeOK, Lists
<1>7. Cardinality(DOMAIN queue \ Errors) \in Nat /\ Cardinality(DOMAIN queue \ Errors) <= n
  BY <1>5, <1>6, FirstNumbers, FS_Subset, FS_CardinalityType
<1>8. QED
  BY <1>4, <1>5, <1>7, NothingFails DEF FreeEventBuffers

(* The first packet is a tag while one is on its way; else it is alone.    *)
LEMMA FirstInLine ==
    ASSUME TypeOK, NEW at, InLine(at), queue # <<>>
    PROVE  LET packet == Head(Head(queue)) IN
           /\ ~IsError(Head(queue))
           /\ ~IsTag(packet) =>
                /\ Len(queue) = 1 /\ Len(Head(queue)) = 1
                /\ Len(event_fifo) = 0 /\ Inserted = 1
                /\ at[1] = reported + 1 /\ reported = emitted
<1> DEFINE n == Len(queue)
           node == Head(queue)
<1>1. /\ queue \in Seq(Nodes) /\ n \in Nat \ {0}
      /\ node = queue[1] /\ node \in Nodes
  BY DEF TypeOK, Lists
<1>2. /\ Len(node) \in Nat \ {0} /\ Head(node) = node[1]
  BY <1>1 DEF Nodes
<1>3. 1 \in 1 .. n /\ 1 \in 1 .. Len(queue[1]) /\ 1 - 1 = 0 /\ 1 \in 0 .. n /\ 0 \in 0 .. n
  BY <1>1, <1>2
<1>4. /\ node[1].packet_type # "Ex10ResultPacket"
      /\ IsTag(node[1]) <=> at[0] + 1 <= emitted
      /\ at[1] = at[0] + Len(node) /\ at[n] - at[1] >= n - 1
      /\ at[0] \in Nat /\ at[1] \in Nat
  BY <1>1, <1>3 DEF InLine, InOrder
<1>5. Inserted \in 0 .. 1
  BY DEF Inserted
<1>6. /\ n \in Nat /\ Len(event_fifo) \in Nat /\ at[n] \in Nat
      /\ emitted \in Nat /\ reported \in Nat /\ at[0] = reported
      /\ at[n] + Len(event_fifo) = emitted + Inserted
  BY LineEnds
<1>7. CASE ~IsTag(node[1])
  <2>1. reported >= emitted
    BY <1>4, <1>6, <1>7
  <2>2. at[n] >= reported + Len(node) + (n - 1)
    BY <1>1, <1>2, <1>4, <1>6
  <2>3. at[n] + Len(event_fifo) <= reported + 1
    BY <1>5, <1>6, <2>1
  <2>4. n = 1 /\ Len(node) = 1 /\ Len(event_fifo) = 0
    <3>1. \A a, b, c, d, e \in Nat :
             /\ a > 0 /\ b > 0 /\ e >= d + b + (a - 1) /\ e + c <= d + 1
             => a = 1 /\ b = 1 /\ c = 0
      OBVIOUS
    <3>2. n \in Nat /\ n > 0 /\ Len(node) \in Nat /\ Len(node) > 0
      BY <1>1, <1>2
    <3>3. QED
      BY ONLY <1>6, <2>2, <2>3, <3>1, <3>2
  <2>5. Inserted = 1 /\ at[1] = reported + 1 /\ reported = emitted
    <3>1. at[1] = reported + 1 /\ at[n] = at[1] /\ Inserted \in Int
      <4>1. at[1] = reported + 1
        BY <1>4, <1>6, <2>4
      <4>2. at[n] = at[1]
        BY <2>4
      <4>3. Inserted \in Int
        BY <1>5
      <4>4. QED
        BY <4>1, <4>2, <4>3
    <3>2. reported + 1 = emitted + Inserted
      BY <1>6, <2>4, <3>1
    <3>3. QED
      BY <1>5, <1>6, <2>1, <3>1, <3>2
  <2>6. QED
    BY <1>1, <1>2, <1>4, <2>4, <2>5 DEF IsError
<1>8. CASE IsTag(node[1])
  BY <1>1, <1>2, <1>4, <1>8 DEF IsError
<1>9. QED
  BY <1>7, <1>8
-----------------------------------------------------------------------------
(* A run ends with everything clear. *)
LEMMA EndIsClear ==
    ASSUME TypeOK, FaultFree, Calm, PublishPacket, ~Reporting'
    PROVE  Clear'
<1>1. Reporting /\ queue # <<>> /\ appPc = "peek"
  BY DEF PublishPacket, Reporting
<1>2. PICK at : InLine(at)
  BY <1>1 DEF Calm, Line
<1>3. PICK next : /\ RemovePacket(next)
                  /\ next = IF ex10_result' = "error" \/ ~IsTag(Head(Head(queue)))
                            THEN "idle" ELSE "publish"
  BY DEF PublishPacket
<1>4. ex10_result' # "error"
  BY NothingFails DEF PublishPacket, Answers, Calm
<1>5. ~IsTag(Head(Head(queue)))
  BY <1>3, <1>4 DEF RemovePacket, Reporting
<1>6. /\ Len(queue) = 1 /\ Len(Head(queue)) = 1 /\ Len(event_fifo) = 0
      /\ Inserted = 1
  BY <1>1, <1>2, <1>5, FirstInLine
<1>7. stop_reason # "SRNone" /\ irqPc # "summary"
  BY <1>6 DEF Inserted
<1>8. op = "Idle" /\ ~round_done /\ irqPc \in {"fifo", "idle"}
  BY <1>1, <1>7 DEF Calm, Rounds
<1>9. irqPc = "fifo" => num_bytes = 0
  BY <1>6, <1>8 DEF TypeOK, Counts, Lists
<1>10. event_fifo = <<>>
  BY <1>6 DEF TypeOK, Lists
<1>11. queue' = <<>>
  <2>1. queue' \in Seq(Nodes) /\ Len(queue') = 0
    BY <1>1, <1>3, <1>6, RemoveEffect DEF TypeOK, Lists
  <2>2. QED
    BY <2>1
<1>12. QED
  BY <1>8, <1>9, <1>10, <1>11 DEF PublishPacket, Clear, Resting, chip, irqLine, handler

(* Between the runs.  *)
LEMMA ClearStep ==
    ASSUME TypeOK, FaultFree, Calm, Clear, ~Reporting, ~Reporting', [Next]_vars
    PROVE  Clear'
<1> USE DEF Clear, Resting, Reporting
<1>0. ~MayFail /\ ~stop_conditions.max_duration
  BY NothingFails
<1>1. CASE EmitsTag \/ EndsRound \/ TimePasses
  BY <1>0, <1>1 DEF EmitsTag, EndsRound, TimePasses
<1>2. CASE HandlerReadsStatus
  BY <1>2 DEF HandlerReadsStatus, chip
<1>3. CASE \/ HandlerReadFails \/ RoundReadFails \/ InsertSummaryFails
           \/ ReadEventFifoFails
  BY <1>0, <1>3 DEF HandlerReadFails, RoundReadFails, InsertSummaryFails,
     ReadEventFifoFails
<1>4. CASE RoundDone \/ RoundCut \/ Decide \/ Continue \/ HandleError \/ InsertSummary
  BY <1>4 DEF RoundDone, RoundCut, Decide, Continue, HandleError, InsertSummary
<1>5. CASE ReadEventFifo
  BY <1>5 DEF ReadEventFifo, irqLine
<1>6. CASE AppRuns
  BY <1>6 DEF AppRuns, irqLine, handler
<1>7. CASE AppChecksOp
  BY <1>7 DEF AppChecksOp, chip, irqLine, handler
<1>8. CASE AppStartsRound
  BY <1>0, <1>8 DEF AppStartsRound, Refused
<1>9. CASE RestartReading
  BY <1>0, <1>9 DEF RestartReading, SetStatus, chip, handler
<1>10. CASE PublishStep
  BY <1>10 DEF PublishStep, PublishTimesOut, PublishWaits, PublishError, PublishPacket
<1>11. CASE UNCHANGED vars
  BY <1>11 DEF vars, chip, irqLine, handler, app
<1>12. QED
  BY <1>1, <1>2, <1>3, <1>4, <1>5, <1>6, <1>7, <1>8, <1>9, <1>10, <1>11
     DEF Next, HandlerStep, HostCommand
-----------------------------------------------------------------------------
(* A read moves the front of the FIFO to the end of the queue: the line    *)
(* stays what it was.                                                      *)
LEMMA ReadInLine ==
    ASSUME TypeOK, FaultFree, Calm, NEW at, InLine(at), num_bytes > 0, ReadEventFifo
    PROVE  /\ Line'
           /\ tag_count' = IF tag_count + num_bytes < emitted
                           THEN tag_count + num_bytes ELSE emitted
<1> DEFINE n == Len(queue)
           packets == SubSeq(event_fifo, 1, num_bytes)
           node == Counted(packets)
           left == emitted - at[n]
<1>1. /\ queue \in Seq(Nodes) /\ event_fifo \in Seq(Sent) /\ n \in Nat
      /\ num_bytes \in Nat \ {0} /\ num_bytes <= Len(event_fifo)
      /\ tag_count \in Nat /\ Len(event_fifo) \in Nat
  BY DEF TypeOK, Lists, Counts, ReadEventFifo
<1>2. /\ at[n] \in Nat /\ emitted \in Nat /\ reported \in Nat
      /\ at[0] = reported /\ at[n] + Len(event_fifo) = emitted + Inserted
      /\ Inserted \in 0 .. 1
  <2>1. Inserted \in 0 .. 1
    BY DEF Inserted
  <2>2. QED
    BY <2>1, LineEnds
<1>3. left \in Nat /\ tag_count = at[n]
  <2>1. at[n] <= emitted
    BY <1>1, <1>2
  <2>2. tag_count = at[n]
    BY <1>2, <2>1 DEF InLine
  <2>3. QED
    BY <1>2, <2>1, <2>2
<1>4. FreeEventBuffers > 0 /\ irqPc = "fifo"
  BY RoomToRead DEF ReadEventFifo
<1>5. /\ event_fifo' = Unread
      /\ tag_count' = tag_count + TagsIn(packets)
      /\ queue' = Append(queue, node)
      /\ irqPc' = "idle"
      /\ UNCHANGED <<emitted, reported, stop_reason>>
  BY <1>4 DEF ReadEventFifo, app
<1>6. /\ packets \in Seq(Sent) /\ Len(packets) = num_bytes
      /\ \A i \in 1 .. num_bytes : packets[i] = event_fifo[i]
      /\ Len(Unread) = Len(event_fifo) - num_bytes
      /\ \A i \in 1 .. Len(event_fifo) - num_bytes :
              Unread[i] = event_fifo[num_bytes + i]
  <2>1. num_bytes \in Nat
    BY <1>1
  <2>2. QED
    BY <1>1, <2>1, ReadSplits DEF Unread
<1>7. \A j \in 1 .. Len(event_fifo) : IsTag(event_fifo[j]) <=> at[n] + j <= emitted
  BY DEF InLine
<1> HIDE DEF packets
<1>8. packets # <<>> /\ packets \in Seq(Packets)
  <2>1. packets # <<>>
    BY <1>1, <1>6
  <2>2. QED
    BY <1>6, <2>1, PacketTypes
<1>9. /\ node \in Nodes /\ Len(node) = num_bytes
      /\ \A i \in 1 .. num_bytes :
            node[i] \in Sent /\ (IsTag(node[i]) <=> IsTag(packets[i]))
  BY <1>1, <1>6, <1>8, CountedEffect
<1> HIDE DEF node
<1>10. \A j \in 1 .. num_bytes :
          /\ node[j].packet_type # "Ex10ResultPacket"
          /\ IsTag(packets[j]) <=> at[n] + j <= emitted
          /\ IsTag(node[j]) <=> at[n] + j <= emitted
  <2>1. \A j \in 1 .. num_bytes : j \in 1 .. Len(event_fifo)
    BY <1>1
  <2>2. QED
    BY <1>6, <1>7, <1>9, <2>1, PacketTypes
<1>11. InOrder(queue, at, emitted)
  BY DEF InLine
<1>12. PICK more : /\ InOrder(Append(queue, node), more, emitted)
                   /\ more[0] = at[0]
                   /\ more[n + 1] = at[n] + Len(node)
  <2>1. \A j \in 1 .. Len(node) :
           /\ node[j].packet_type # "Ex10ResultPacket"
           /\ IsTag(node[j]) <=> at[Len(queue)] + j <= emitted
    BY <1>9, <1>10
  <2>2. queue \in Seq(Nodes) /\ emitted \in Nat /\ node \in Nodes
    BY <1>1, <1>2, <1>9
  <2>3. QED
    BY ONLY <1>11, <2>1, <2>2, AppendInOrder
<1>13. TagsIn(packets) = IF left < num_bytes THEN left ELSE num_bytes
  <2>1. \A j \in 1 .. num_bytes : at[n] + j <= emitted <=> j <= left
    BY <1>1, <1>2
  <2>2. \A i \in 1 .. Len(packets) : IsTag(packets[i]) <=> i <= left
    BY <1>6, <1>10, <2>1
  <2>3. QED
    BY <1>3, <1>6, <1>8, <2>2, TagsInPrefix
<1>14. tag_count' = IF tag_count + num_bytes < emitted
                    THEN tag_count + num_bytes ELSE emitted
  BY <1>1, <1>2, <1>3, <1>5, <1>13
<1>15. InLine(more)'
  <2>1. Len(queue') = n + 1 /\ more[Len(queue')] = at[n] + num_bytes
    BY <1>1, <1>5, <1>9, <1>12, AppendProperties
  <2>2. InOrder(queue', more, emitted') /\ more[0] = reported'
    BY <1>2, <1>5, <1>12
  <2>3. Inserted' = Inserted
    BY <1>4, <1>5 DEF Inserted
  <2>4. more[Len(queue')] + Len(event_fifo') = emitted' + Inserted'
    BY <1>1, <1>2, <1>5, <1>6, <2>1, <2>3
  <2>5. ASSUME NEW j \in 1 .. Len(event_fifo')
        PROVE  IsTag(event_fifo'[j]) <=> more[Len(queue')] + j <= emitted'
    <3>1. j \in 1 .. Len(event_fifo) - num_bytes
      BY <1>5, <1>6
    <3>2. num_bytes + j \in 1 .. Len(event_fifo) /\ event_fifo'[j] = event_fifo[num_bytes + j]
      BY <1>1, <1>5, <1>6, <3>1
    <3>3. IsTag(event_fifo'[j]) <=> at[n] + (num_bytes + j) <= emitted
      BY <1>7, <3>2
    <3>4. at[n] + (num_bytes + j) = (at[n] + num_bytes) + j
      BY <1>1, <1>2
    <3>5. QED
      BY <1>5, <2>1, <3>3, <3>4
  <2>6. tag_count' = IF more[Len(queue')] < emitted' THEN more[Len(queue')] ELSE emitted'
    BY <1>3, <1>5, <1>14, <2>1
  <2>7. QED
    BY <2>2, <2>4, <2>5, <2>6 DEF InLine
<1>16. QED
  BY <1>14, <1>15 DEF Line
-----------------------------------------------------------------------------
(* The rounds of a run, one step after the other. *)
LEMMA RoundsStep ==
    ASSUME TypeOK, FaultFree, Calm, Reporting, Reporting', [Next]_vars
    PROVE  Rounds'
<1>0. /\ ~MayFail /\ ~stop_conditions.max_duration
      /\ Rounds /\ irqPc \notin {"error", "error_summary"}
  BY NothingFails DEF Calm
<1>1. CASE EmitsTag \/ EndsRound \/ TimePasses
  BY <1>0, <1>1 DEF EmitsTag, EndsRound, TimePasses, SetStatus, Rounds,
     inventory_state, handler
<1>2. CASE HandlerReadsStatus
  BY <1>0, <1>2 DEF HandlerReadsStatus, Rounds, inventory_state, chip
<1>3. CASE \/ HandlerReadFails \/ RoundReadFails \/ InsertSummaryFails
           \/ ReadEventFifoFails \/ HandleError
  BY <1>0, <1>3 DEF HandlerReadFails, RoundReadFails, InsertSummaryFails,
     ReadEventFifoFails, HandleError
<1>4. CASE RoundDone \/ RoundCut
  BY <1>0, <1>4 DEF RoundDone, RoundCut, Rounds, chip, irqLine, inventory_state
<1>5. CASE Decide
  BY <1>0, <1>5 DEF Decide, Rounds, chip, irqLine
<1>6. CASE Continue
  BY <1>0, <1>6 DEF Continue, StartRound, Rounds, irqLine, inventory_state
<1>7. CASE InsertSummary
  BY <1>0, <1>7 DEF InsertSummary, SetStatus, Rounds, inventory_state
<1>8. CASE ReadEventFifo
  BY <1>0, <1>8 DEF ReadEventFifo, Rounds, irqLine
<1>9. CASE AppRuns \/ AppChecksOp \/ AppStartsRound
  BY <1>9 DEF AppRuns, AppChecksOp, AppStartsRound, Reporting
<1>10. CASE RestartReading
  BY <1>0, <1>10 DEF RestartReading, SetStatus, Rounds, chip, handler, inventory_state
<1>11. CASE PublishTimesOut \/ PublishWaits \/ PublishError
  BY <1>0, <1>11 DEF PublishTimesOut, PublishWaits, PublishError, Rounds, chip,
     irqLine, handler, inventory_state
<1>12. CASE PublishPacket
  <2>1. state' \in {state, "InvStopRequested"}
    BY <1>12 DEF PublishPacket
  <2>2. QED
    BY <1>0, <1>12, <2>1 DEF PublishPacket, Rounds, chip, irqLine, handler
<1>13. CASE UNCHANGED vars
  BY <1>0, <1>13 DEF vars, Rounds, chip, irqLine, handler, inventory_state
<1>14. QED
  BY <1>1, <1>2, <1>3, <1>4, <1>5, <1>6, <1>7, <1>8, <1>9, <1>10, <1>11, <1>12,
     <1>13 DEF Next, HandlerStep, HostCommand, PublishStep

LEMMA AmountsStep ==
    ASSUME TypeOK, FaultFree, Calm, Reporting, Reporting', [Next]_vars
    PROVE  Amounts'
<1>0. /\ ~MayFail /\ ~stop_conditions.max_duration
      /\ Amounts /\ irqPc \notin {"error", "error_summary"}
  BY NothingFails DEF Calm
<1>1. /\ emitted \in Nat /\ earlier \in Nat /\ tag_count \in Nat
      /\ num_bytes \in Nat /\ Len(event_fifo) \in Nat
      /\ irqPc # "idle" => num_bytes <= Len(event_fifo)
  BY Sizes DEF TypeOK, Counts, Lists, Places
<1>2. CASE EmitsTag \/ EndsRound
  <2>1. irqPc \in {"idle", "fifo"}
    BY <1>2 DEF EmitsTag, EndsRound, Calm, Rounds
  <2>2. emitted' \in {emitted, emitted + 1}
    BY <1>2 DEF EmitsTag, EndsRound
  <2>3. UNCHANGED <<earlier, tag_count, num_bytes, irqPc>>
    BY <1>2 DEF EmitsTag, EndsRound, inventory_state, handler
  <2>4. QED
    BY <1>0, <1>1, <2>1, <2>2, <2>3 DEF Amounts
<1>3. CASE HandlerReadsStatus
  BY <1>0, <1>1, <1>3 DEF HandlerReadsStatus, Amounts, inventory_state, chip
<1>4. CASE \/ HandlerReadFails \/ RoundReadFails \/ InsertSummaryFails
           \/ ReadEventFifoFails \/ HandleError \/ TimePasses
  BY <1>0, <1>4 DEF HandlerReadFails, RoundReadFails, InsertSummaryFails,
     ReadEventFifoFails, HandleError, TimePasses
<1>5. CASE RoundDone \/ RoundCut
  <2>1. irqPc' = "decide"
    BY <1>0, <1>5 DEF RoundDone, RoundCut
  <2>2. QED
    BY <1>0, <1>1, <1>5, <2>1 DEF RoundDone, RoundCut, Amounts, chip, inventory_state
<1>6. CASE Decide
  <2>1. irqPc' = "continue" => ~EnoughTags
    BY <1>6 DEF Decide, StopReason
  <2>2. UNCHANGED <<EnoughTags, earlier, emitted, tag_count, num_bytes, event_fifo>>
    BY <1>6 DEF Decide, chip, clock, EnoughTags
  <2>3. irqPc = "decide" /\ irqPc' \in {"continue", "summary"}
    BY <1>6 DEF Decide
  <2>4. QED
    BY <1>0, <1>1, <2>1, <2>2, <2>3 DEF Amounts
<1>7. CASE Continue
  <2>1. PICK at : InLine(at)
    BY DEF Calm, Line
  <2>2. op = "Idle" /\ irqPc = "continue" /\ stop_reason = "SRNone"
    BY <1>7 DEF Calm, Rounds, Continue
  <2>3. irqPc' = "fifo" /\ earlier' = emitted
    BY <1>0, <1>7, <2>2 DEF Continue, StartRound
  <2>4. num_bytes = Len(event_fifo)
    BY <1>0, <2>2 DEF Amounts
  <2>5. at[Len(queue)] + Len(event_fifo) = emitted + 0 /\ at[Len(queue)] \in Nat
    BY <2>1, <2>2, LineEnds DEF Inserted
  <2>6. tag_count = at[Len(queue)]
    BY <1>1, <2>1, <2>5 DEF InLine
  <2>7. UNCHANGED <<emitted, tag_count, num_bytes>>
    BY <1>7 DEF Continue, inventory_state
  <2>8. emitted <= tag_count + num_bytes
    BY <1>1, <2>4, <2>5, <2>6
  <2>9. QED
    BY <1>1, <2>3, <2>7, <2>8 DEF Amounts
<1>8. CASE InsertSummary
  BY <1>0, <1>1, <1>8 DEF InsertSummary, Amounts, inventory_state
<1>9. CASE ReadEventFifo
  <2>1. earlier <= tag_count'
    <3>1. CASE num_bytes = 0
      BY <1>0, <1>1, <1>9, <3>1 DEF ReadEventFifo, Amounts
    <3>2. CASE num_bytes > 0
      <4>1. PICK at : InLine(at)
        BY DEF Calm, Line
      <4>2. tag_count' = IF tag_count + num_bytes < emitted
                         THEN tag_count + num_bytes ELSE emitted
        BY <1>9, <3>2, <4>1, ReadInLine
      <4>3. earlier <= tag_count + num_bytes /\ earlier <= emitted
        BY <1>0, <1>9 DEF Amounts, ReadEventFifo
      <4>4. QED
        BY <1>1, <4>2, <4>3
    <3>3. QED
      BY <1>1, <3>1, <3>2
  <2>2. irqPc' = "idle" /\ earlier' = earlier /\ emitted' = emitted
    BY <1>9 DEF ReadEventFifo
  <2>3. QED
    BY <1>0, <2>1, <2>2 DEF Amounts
<1>10. CASE AppRuns \/ AppChecksOp \/ AppStartsRound
  BY <1>10 DEF AppRuns, AppChecksOp, AppStartsRound, Reporting
<1>11. CASE RestartReading \/ PublishTimesOut \/ PublishWaits \/ PublishError \/ PublishPacket
  <2>1. /\ UNCHANGED <<event_fifo, emitted, earlier, tag_count, irqPc, num_bytes>>
        /\ UNCHANGED stop_conditions
    BY <1>11 DEF RestartReading, PublishTimesOut, PublishWaits, PublishError,
       PublishPacket, chip, handler, inventory_state, clock
  <2>2. QED
    BY <1>0, <2>1 DEF Amounts, EnoughTags
<1>12. CASE UNCHANGED vars
  BY <1>0, <1>12 DEF vars, Amounts, EnoughTags, chip, handler, inventory_state, clock
<1>13. QED
  BY <1>2, <1>3, <1>4, <1>5, <1>6, <1>7, <1>8, <1>9, <1>10, <1>11, <1>12
     DEF Next, HandlerStep, HostCommand, PublishStep
-----------------------------------------------------------------------------
(* Any step that leaves the packets and their numbers where they are. *)
LEMMA LineStays ==
    ASSUME Line, UNCHANGED <<queue, event_fifo, emitted, reported, tag_count>>,
           Inserted' = Inserted
    PROVE  Line'
<1>1. PICK at : InLine(at)
  BY DEF Line
<1>2. InLine(at)'
  BY <1>1 DEF InLine
<1>3. QED
  BY <1>2 DEF Line

LEMMA LineStep ==
    ASSUME TypeOK, FaultFree, Calm, Reporting, Reporting', [Next]_vars
    PROVE  Line'
<1>0. PICK at : InLine(at)
  BY DEF Calm, Line
<1>1. /\ ~MayFail /\ ~stop_conditions.max_duration /\ ~overdue
      /\ Rounds /\ Line /\ irqPc \notin {"error", "error_summary"}
  BY NothingFails DEF Calm
<1> DEFINE n == Len(queue)
<1>2. /\ queue \in Seq(Nodes) /\ event_fifo \in Seq(Sent) /\ n \in Nat
      /\ tag_count \in Nat /\ Len(event_fifo) \in Nat
      /\ at[n] \in Nat /\ emitted \in Nat /\ reported \in Nat /\ at[0] = reported
      /\ at[n] + Len(event_fifo) = emitted + Inserted
  BY <1>0, LineEnds DEF TypeOK, Lists
<1>3. /\ InOrder(queue, at, emitted)
      /\ \A j \in 1 .. Len(event_fifo) : IsTag(event_fifo[j]) <=> at[n] + j <= emitted
      /\ tag_count = IF at[n] < emitted THEN at[n] ELSE emitted
  BY <1>0 DEF InLine
<1>4. CASE EmitsTag
  <2>1. Inserted = 0 /\ Inserted' = 0
    BY <1>1, <1>4 DEF EmitsTag, Rounds, Inserted, inventory_state, handler
  <2>2. /\ emitted' = emitted + 1
        /\ event_fifo' = Append(event_fifo, TagRead)
        /\ UNCHANGED <<queue, tag_count, reported>>
    BY <1>4 DEF EmitsTag, inventory_state, app
  <2>3. at[n] <= emitted
    BY <1>2, <2>1
  <2>4. InOrder(queue, at, emitted + 1)
    BY <1>2, <1>3, <2>3, LongerInOrder
  <2>5. /\ Len(event_fifo') = Len(event_fifo) + 1
        /\ \A j \in 1 .. Len(event_fifo) : event_fifo'[j] = event_fifo[j]
        /\ event_fifo'[Len(event_fifo) + 1] = TagRead
    BY <1>2, <2>2, AppendProperties, PacketTypes
  <2>6. IsTag(TagRead)
    BY DEF IsTag, TagRead, Packet
  <2>7. ASSUME NEW j \in 1 .. Len(event_fifo')
        PROVE  IsTag(event_fifo'[j]) <=> at[n] + j <= emitted + 1
    <3>1. CASE j = Len(event_fifo) + 1
      BY <1>2, <2>1, <2>5, <2>6, <3>1
    <3>2. CASE j \in 1 .. Len(event_fifo)
      BY <1>2, <1>3, <2>1, <2>5, <3>2
    <3>3. QED
      BY <1>2, <2>5, <3>1, <3>2
  <2>8. /\ at[n] + Len(event_fifo') = emitted' + Inserted'
        /\ tag_count' = IF at[n] < emitted' THEN at[n] ELSE emitted'
    <3>1. at[n] + (Len(event_fifo) + 1) = (emitted + 1) + 0
      BY <1>2, <2>1
    <3>2. tag_count = at[n] /\ at[n] < emitted + 1
      BY <1>2, <1>3, <2>3
    <3>3. QED
      BY <2>1, <2>2, <2>5, <3>1, <3>2
  <2>9. InLine(at)'
    BY <1>2, <2>2, <2>4, <2>7, <2>8 DEF InLine
  <2>10. QED
    BY <2>9 DEF Line
<1>5. CASE TimePasses \/ EndsRound
  <2>1. UNCHANGED <<queue, event_fifo, emitted, reported, tag_count, Inserted>>
    BY <1>1, <1>5 DEF TimePasses, EndsRound, Inserted, inventory_state, handler, app
  <2>2. QED
    BY <1>1, <2>1, LineStays
<1>6. CASE HandlerReadsStatus \/ RoundDone \/ RoundCut \/ Decide \/ Continue
  <2>1. UNCHANGED <<queue, event_fifo, emitted, reported, tag_count>>
    BY <1>1, <1>6 DEF HandlerReadsStatus, RoundDone, RoundCut, Decide, Continue,
       chip, inventory_state, app
  <2>2. Inserted' = Inserted
    BY <1>1, <1>6 DEF HandlerReadsStatus, RoundDone, RoundCut, Decide, Continue,
       Inserted, Rounds, inventory_state
  <2>3. QED
    BY <1>1, <2>1, <2>2, LineStays
<1>7. CASE \/ HandlerReadFails \/ RoundReadFails \/ InsertSummaryFails
           \/ ReadEventFifoFails \/ HandleError
  BY <1>1, <1>7 DEF HandlerReadFails, RoundReadFails, InsertSummaryFails,
     ReadEventFifoFails, HandleError
<1>8. CASE InsertSummary
  <2>1. Inserted = 0 /\ Inserted' = 1
    BY <1>1, <1>8 DEF InsertSummary, Rounds, Inserted, inventory_state
  <2>2. /\ event_fifo' = Append(event_fifo, Summary(tag_count))
        /\ UNCHANGED <<queue, emitted, tag_count, reported>>
    BY <1>8 DEF InsertSummary, inventory_state, app
  <2>3. /\ Len(event_fifo') = Len(event_fifo) + 1
        /\ \A j \in 1 .. Len(event_fifo) : event_fifo'[j] = event_fifo[j]
        /\ event_fifo'[Len(event_fifo) + 1] = Summary(tag_count)
    BY <1>2, <2>2, AppendProperties, PacketTypes
  <2>4. ~IsTag(Summary(tag_count))
    BY DEF IsTag, Summary, Packet
  <2>5. ASSUME NEW j \in 1 .. Len(event_fifo')
        PROVE  IsTag(event_fifo'[j]) <=> at[n] + j <= emitted
    <3>1. CASE j = Len(event_fifo) + 1
      BY <1>2, <2>1, <2>3, <2>4, <3>1
    <3>2. CASE j \in 1 .. Len(event_fifo)
      BY <1>2, <1>3, <2>3, <3>2
    <3>3. QED
      BY <1>2, <2>3, <3>1, <3>2
  <2>6. at[n] + Len(event_fifo') = emitted' + Inserted'
    BY <1>2, <2>1, <2>2, <2>3
  <2>7. InLine(at)'
    BY <1>2, <1>3, <2>2, <2>5, <2>6 DEF InLine
  <2>8. QED
    BY <2>7 DEF Line
<1>9. CASE ReadEventFifo
  <2>1. CASE num_bytes > 0
    BY <1>0, <1>9, <2>1, ReadInLine
  <2>2. CASE ~(num_bytes > 0)
    <3>1. UNCHANGED <<queue, event_fifo, emitted, reported, tag_count, Inserted>>
      BY <1>9, <2>2 DEF ReadEventFifo, Inserted, app
    <3>2. QED
      BY <1>1, <3>1, LineStays
  <2>3. QED
    BY <2>1, <2>2
<1>10. CASE AppRuns \/ AppChecksOp \/ AppStartsRound
  BY <1>10 DEF AppRuns, AppChecksOp, AppStartsRound, Reporting
<1>11. CASE RestartReading \/ PublishTimesOut \/ PublishWaits
  <2>1. UNCHANGED <<queue, event_fifo, emitted, reported, tag_count, Inserted>>
    BY <1>1, <1>11 DEF RestartReading, PublishTimesOut, PublishWaits, Inserted,
       chip, inventory_state, handler
  <2>2. QED
    BY <1>1, <2>1, LineStays
<1>12. CASE PublishError
  BY <1>0, <1>12, FirstInLine DEF PublishError
<1>13. CASE PublishPacket
  <2>1. PICK next : /\ RemovePacket(next)
                    /\ next = IF ex10_result' = "error" \/ ~IsTag(Head(Head(queue)))
                              THEN "idle" ELSE "publish"
    BY <1>13 DEF PublishPacket
  <2>2. IsTag(Head(Head(queue)))
    BY <2>1 DEF RemovePacket, Reporting
  <2>3. /\ queue # <<>> /\ reported' = reported + 1
        /\ UNCHANGED <<event_fifo, emitted, tag_count, Inserted>>
    BY <1>13, <2>2 DEF PublishPacket, Inserted, chip, handler
  <2>4. PICK less : /\ InOrder(queue', less, emitted)
                    /\ less[0] = at[0] + 1
                    /\ less[Len(queue')] = at[n]
    BY <1>2, <1>3, <2>1, <2>3, RemoveInOrder
  <2>5. InLine(less)'
    BY <1>2, <1>3, <2>3, <2>4 DEF InLine
  <2>6. QED
    BY <2>5 DEF Line
<1>14. CASE UNCHANGED vars
  <2>1. UNCHANGED <<queue, event_fifo, emitted, reported, tag_count, Inserted>>
    BY <1>14 DEF vars, chip, app, inventory_state, handler, Inserted
  <2>2. QED
    BY <1>1, <2>1, LineStays
<1>15. QED
  BY <1>4, <1>5, <1>6, <1>7, <1>8, <1>9, <1>10, <1>11, <1>12, <1>13, <1>14
     DEF Next, HandlerStep, HostCommand, PublishStep
-----------------------------------------------------------------------------
(* Who reports, and who starts or stops to. *)
LEMMA ReportingStep ==
    ASSUME TypeOK, FaultFree, Calm, [Next]_vars
    PROVE  /\ Reporting /\ ~Reporting' => PublishPacket
           /\ ~Reporting /\ Reporting' =>
                AppStartsRound /\ appPc = "start" /\ op = "Idle" /\ StartRound
                /\ irqPc = "idle"
           /\ ~overdue' /\ ex10_result' \in {"success", "stop"}
<1>0. ~MayFail /\ ~stop_conditions.max_duration /\ ~ClientMayFail /\ ~overdue
  BY NothingFails DEF Calm
<1>1. Reporting \/ op = "Idle"
  BY DEF Calm, Clear
<1>2. ex10_result \in {"success", "stop"}
  BY DEF Calm
<1> USE DEF Reporting, app, clock
<1>3. CASE EmitsTag \/ EndsRound \/ TimePasses \/ HandlerStep
  <2>1. UNCHANGED <<appPc, ex10_result>> /\ overdue' = overdue
    BY <1>0, <1>3 DEF EmitsTag, EndsRound, TimePasses, HandlerStep, HandlerReadsStatus,
       HandlerReadFails, RoundDone, RoundCut, RoundReadFails, Decide, Continue,
       HandleError, InsertSummary, InsertSummaryFails, ReadEventFifo, ReadEventFifoFails
  <2>2. QED
    BY <1>0, <1>2, <2>1
<1>5. CASE AppRuns
  BY <1>0, <1>5 DEF AppRuns
<1>6. CASE AppChecksOp \/ AppStartsRound
  BY <1>0, <1>1, <1>2, <1>6 DEF AppChecksOp, AppStartsRound, Refused, HostFree
<1>7. CASE RestartReading \/ PublishTimesOut \/ PublishWaits
  <2>1. UNCHANGED ex10_result /\ overdue' = overdue /\ (Reporting' <=> Reporting)
    BY <1>0, <1>7 DEF RestartReading, PublishTimesOut, PublishWaits
  <2>2. QED
    BY <1>0, <1>2, <2>1
<1>8. CASE PublishError
  <2>1. appPc = "peek" /\ queue # <<>> /\ IsError(Head(queue))
    BY <1>8 DEF PublishError
  <2>2. PICK at : InLine(at)
    BY <2>1 DEF Calm, Line
  <2>3. QED
    BY <2>1, <2>2, FirstInLine
<1>9. CASE PublishPacket
  BY <1>0, <1>2, <1>9 DEF PublishPacket, Answers
<1>10. CASE UNCHANGED vars
  BY <1>0, <1>2, <1>10 DEF vars
<1>11. QED
  BY <1>3, <1>5, <1>6, <1>7, <1>8, <1>9, <1>10 DEF Next, HostCommand, PublishStep

(* The first round of a run. *)
LEMMA StartedRound ==
    ASSUME TypeOK, FaultFree, Calm, ~Reporting, Reporting', [Next]_vars
    PROVE  Rounds' /\ Amounts' /\ Line'
<1>1. AppStartsRound /\ appPc = "start" /\ StartRound /\ irqPc = "idle"
  BY ReportingStep
<1>2. Clear /\ Starting
  BY <1>1 DEF Calm
<1>3. /\ op' = "StartInventoryRoundOp" /\ earlier' = 0 /\ state' = "InvOngoing"
      /\ UNCHANGED <<event_fifo, emitted, round_done, stop_reason, tag_count,
                     irqPc, num_bytes, queue, reported>>
  BY <1>1, <1>2 DEF AppStartsRound, StartRound, Refused, Starting, Reporting,
     irqLine, handler
<1>4. Rounds'
  BY <1>1, <1>2, <1>3 DEF Rounds, Clear, Starting
<1>5. Amounts'
  BY <1>1, <1>2, <1>3 DEF Amounts, Starting
<1>6. Line'
  <2> DEFINE at == [i \in {0} |-> 0]
  <2>1. InOrder(<<>>, at, 0) /\ at[0] = 0
    BY EmptyInOrder
  <2> HIDE DEF at
  <2>2. queue' = <<>> /\ event_fifo' = <<>> /\ Len(<<>>) = 0 /\ 1 .. 0 = {}
    BY <1>2, <1>3 DEF Clear
  <2>3. Inserted' = 0
    BY <1>2, <1>3 DEF Inserted, Starting
  <2>4. emitted' = 0 /\ reported' = 0 /\ tag_count' = 0
    BY <1>2, <1>3 DEF Starting
  <2>5. InLine(at)'
    BY <2>1, <2>2, <2>3, <2>4 DEF InLine
  <2>6. QED
    BY <2>5 DEF Line
<1>7. QED
  BY <1>4, <1>5, <1>6

LEMMA StartingStep ==
    ASSUME TypeOK, FaultFree, Calm, [Next]_vars, appPc' \in {"check_op", "start"}
    PROVE  Starting'
<1>0. ~MayFail /\ ~stop_conditions.max_duration
  BY NothingFails
<1>1. CASE AppRuns
  BY <1>1 DEF AppRuns, Starting
<1>2. CASE AppChecksOp
  BY <1>2 DEF AppChecksOp, Starting, Calm, chip, Refused
<1>3. CASE AppStartsRound \/ PublishStep \/ RestartReading
  BY <1>3 DEF AppStartsRound, Refused, PublishStep, PublishTimesOut, PublishWaits,
     PublishError, PublishPacket, RemovePacket, RestartReading
<1>4. CASE EmitsTag \/ EndsRound \/ TimePasses \/ HandlerStep \/ UNCHANGED vars
  <2>1. UNCHANGED appPc
    BY <1>4 DEF EmitsTag, EndsRound, TimePasses, HandlerStep, HandlerReadsStatus,
       HandlerReadFails, RoundDone, RoundCut, RoundReadFails, Decide, Continue,
       HandleError, InsertSummary, InsertSummaryFails, ReadEventFifo,
       ReadEventFifoFails, vars, app
  <2>2. Starting /\ Clear
    BY <2>1 DEF Calm, Reporting
  <2>3. op = "Idle" /\ irqPc \in {"idle", "fifo"} /\ (irqPc = "fifo" => ~(num_bytes > 0))
    BY <2>2 DEF Clear, Resting
  <2>4. QED
    BY <1>0, <1>4, <2>2, <2>3 DEF EmitsTag, EndsRound, TimePasses, HandlerStep,
       HandlerReadsStatus, HandlerReadFails, RoundDone, RoundCut, RoundReadFails,
       Decide, Continue, HandleError, InsertSummary, InsertSummaryFails,
       ReadEventFifo, ReadEventFifoFails, Starting, vars, chip, inventory_state, app
<1>5. QED
  BY <1>1, <1>2, <1>3, <1>4 DEF Next, HostCommand

LEMMA CalmStep == TypeOK /\ FaultFree /\ Calm /\ [Next]_vars => Calm'
<1> SUFFICES ASSUME TypeOK, FaultFree, Calm, [Next]_vars PROVE Calm'
  OBVIOUS
<1>1. ~overdue' /\ ex10_result' \in {"success", "stop"}
  BY ReportingStep
<1>2. ~Reporting' => Clear'
  <2>1. CASE ~Reporting
    BY <2>1, ClearStep DEF Calm
  <2>2. CASE Reporting
    BY <2>2, ReportingStep, EndIsClear
  <2>3. QED
    BY <2>1, <2>2
<1>3. Reporting' => Rounds' /\ Amounts' /\ Line'
  <2>1. CASE Reporting
    BY <2>1, RoundsStep, AmountsStep, LineStep
  <2>2. CASE ~Reporting
    BY <2>2, StartedRound
  <2>3. QED
    BY <2>1, <2>2
<1>4. appPc' \in {"check_op", "start"} => Starting'
  BY StartingStep
<1>5. irqPc' \notin {"error", "error_summary"}
  BY <1>2, <1>3 DEF Clear, Resting, Rounds
<1>6. QED
  BY <1>1, <1>2, <1>3, <1>4, <1>5 DEF Calm

LEMMA CalmInit == Init => Calm
BY DEF Init, Calm, Reporting, Clear, Resting

(* No fault, and everything stays calm. *)
CalmUnlessFaults == FaultFree => Calm

THEOREM CalmIsKept == Spec => []CalmUnlessFaults
<1>1. Init => CalmUnlessFaults
  BY CalmInit DEF CalmUnlessFaults
<1>2. TypeOK /\ CalmUnlessFaults /\ [Next]_vars => CalmUnlessFaults'
  BY FaultFreeStep, CalmStep DEF CalmUnlessFaults
<1>3. QED
  BY <1>1, <1>2, TypeCorrect, PTL DEF Spec

(* NoStrayRound: while nothing fails, rounds run one after the other, and  *)
(* only while the inventory asks for one.                                  *)
THEOREM NoRoundStrays == Spec => []NoStrayRound
<1>1. CalmUnlessFaults => NoStrayRound
  BY DEF CalmUnlessFaults, NoStrayRound, IdleMeansIdle, NoDoubleStart, Calm,
     Rounds, Clear, Resting
<1>2. QED
  BY <1>1, CalmIsKept, PTL

(* SummaryIsLast: while nothing fails, the application returns from a run  *)
(* that left nothing behind, neither in the Ex10 nor in the queue.         *)
THEOREM SummaryEndsRun == Spec => []SummaryIsLast
<1>1. CalmUnlessFaults => SummaryIsLast
  BY DEF CalmUnlessFaults, SummaryIsLast, Ended, Calm, Clear, Reporting
<1>2. QED
  BY <1>1, CalmIsKept, PTL

(* NoRoundBeyondLimit: while nothing fails, a limit on the tags is exceeded*)
(* by the tags of one round at most.                                       *)
THEOREM LimitIsKept == Spec => NoRoundBeyondLimit
<1> DEFINE Beyond ==
      FaultFree /\ irqPc = "continue" /\ op' # op =>
          \/ stop_conditions.max_number_of_tags = 0
          \/ earlier < stop_conditions.max_number_of_tags
<1>1. TypeOK /\ CalmUnlessFaults => [Beyond]_vars
  <2> SUFFICES ASSUME TypeOK, Calm, irqPc = "continue"
               PROVE  \/ stop_conditions.max_number_of_tags = 0
                      \/ earlier < stop_conditions.max_number_of_tags
    BY DEF CalmUnlessFaults
  <2>1. earlier <= tag_count /\ ~EnoughTags
    BY DEF Calm, Clear, Resting, Amounts
  <2>2. earlier \in Nat /\ tag_count \in Nat /\ stop_conditions.max_number_of_tags \in Nat
    BY Sizes DEF TypeOK, Counts, Lists, Places
  <2>3. QED
    BY <2>1, <2>2 DEF EnoughTags
<1>2. QED
  BY <1>1, TypeCorrect, CalmIsKept, PTL DEF NoRoundBeyondLimit
-----------------------------------------------------------------------------
(* The tags of a queue are counted through its nodes, t[i] of them up to   *)
(* the end of node i; a summary holds the count up to itself.              *)
CountedThrough(q, t) ==
    /\ t \in [0 .. Len(q) -> Nat]
    /\ \A i \in 1 .. Len(q) : t[i] = t[i - 1] + TagsIn(q[i])
    /\ \A i \in 1 .. Len(q) : \A j \in 1 .. Len(q[i]) :
          q[i][j].packet_type = "ContinuousInventorySummary" =>
              q[i][j].number_of_tags = t[i - 1] + TagsIn(SubSeq(q[i], 1, j))

LEMMA TagsInSame ==
    ASSUME NEW one \in Seq(Packets), NEW other \in Seq(Packets), Len(one) = Len(other),
           \A i \in 1 .. Len(one) : IsTag(one[i]) <=> IsTag(other[i])
    PROVE  TagsIn(one) = TagsIn(other)
<1>1. {i \in DOMAIN one : IsTag(one[i])} = {i \in DOMAIN other : IsTag(other[i])}
  OBVIOUS
<1>2. QED
  BY <1>1 DEF TagsIn

LEMMA EmptyCounted ==
    LET t == [i \in {0} |-> 0] IN CountedThrough(<<>>, t) /\ t[0] = 0
<1> DEFINE t == [i \in {0} |-> 0]
<1>1. Len(<<>>) = 0 /\ 0 .. 0 = {0} /\ 1 .. 0 = {} /\ t \in [{0} -> Nat] /\ t[0] = 0
  OBVIOUS
<1> HIDE DEF t
<1>2. CountedThrough(<<>>, t)
  BY <1>1 DEF CountedThrough
<1>3. QED
  BY <1>1, <1>2 DEF t

LEMMA AppendCounted ==
    ASSUME NEW q \in Seq(Nodes), NEW t, CountedThrough(q, t), NEW node \in Nodes,
           \A j \in 1 .. Len(node) :
              node[j].packet_type = "ContinuousInventorySummary" =>
                  node[j].number_of_tags = t[Len(q)] + TagsIn(SubSeq(node, 1, j))
    PROVE  \E more : /\ CountedThrough(Append(q, node), more)
                     /\ more[0] = t[0]
                     /\ more[Len(q) + 1] = t[Len(q)] + TagsIn(node)
<1> DEFINE n == Len(q)
           longer == Append(q, node)
           more == [i \in 0 .. n + 1 |-> IF i <= n THEN t[i] ELSE t[n] + TagsIn(node)]
<1>1. /\ n \in Nat /\ Len(longer) = n + 1 /\ longer[n + 1] = node
      /\ \A i \in 1 .. n : longer[i] = q[i]
  BY AppendProperties
<1>2. TagsIn(node) \in Nat
  BY TagsInBound DEF Nodes
<1>3. \A i \in 0 .. n : t[i] \in Nat
  BY DEF CountedThrough
<1> HIDE DEF longer
<1>4. /\ more \in [0 .. n + 1 -> Nat] /\ more[0] = t[0]
      /\ more[n + 1] = t[n] + TagsIn(node)
      /\ \A i \in 0 .. n : more[i] = t[i]
  BY <1>1, <1>2, <1>3
<1> HIDE DEF more
<1>5. ASSUME NEW i \in 1 .. n + 1
      PROVE  /\ more[i] = more[i - 1] + TagsIn(longer[i])
             /\ \A j \in 1 .. Len(longer[i]) :
                  longer[i][j].packet_type = "ContinuousInventorySummary" =>
                      longer[i][j].number_of_tags =
                          more[i - 1] + TagsIn(SubSeq(longer[i], 1, j))
  <2>1. CASE i = n + 1
    <3>1. i - 1 = n /\ n \in 0 .. n
      BY <1>1, <2>1
    <3>2. more[i - 1] = t[n] /\ longer[i] = node
      BY <1>1, <1>4, <2>1, <3>1
    <3>3. QED
      BY <1>4, <2>1, <3>2 DEF n
  <2>2. CASE i \in 1 .. n
    <3>1. i \in 0 .. n /\ i - 1 \in 0 .. n
      BY <1>1, <2>2
    <3>2. more[i] = t[i] /\ more[i - 1] = t[i - 1] /\ longer[i] = q[i]
      BY <1>1, <1>4, <2>2, <3>1
    <3>3. QED
      BY <2>2, <3>2 DEF CountedThrough, n
  <2>3. QED
    BY <1>1, <2>1, <2>2
<1>6. CountedThrough(longer, more)
  BY <1>1, <1>4, <1>5 DEF CountedThrough
<1>7. QED
  BY <1>4, <1>6 DEF longer, n

(* The packets up to the next one, without the first. *)
LEMMA TailOfPrefix ==
    ASSUME NEW node \in Nodes, NEW j \in 1 .. Len(node) - 1
    PROVE  TagsIn(SubSeq(node, 1, j + 1)) =
               One(Head(node)) + TagsIn(SubSeq(Tail(node), 1, j))
<1> DEFINE front == SubSeq(node, 1, j + 1)
           rest == Tail(node)
           short == SubSeq(rest, 1, j)
<1>1. /\ node \in Seq(Packets) /\ Len(node) \in Nat \ {0} /\ Head(node) = node[1]
      /\ rest \in Seq(Packets) /\ Len(rest) = Len(node) - 1
      /\ \A i \in 1 .. Len(node) - 1 : rest[i] = node[i + 1]
  BY HeadTailProperties DEF Nodes
<1>2. j \in Nat /\ j >= 1 /\ j + 1 \in Nat /\ j + 1 <= Len(node) /\ j <= Len(rest)
  BY <1>1
<1> HIDE DEF rest
<1>3. /\ front \in Seq(Packets) /\ Len(front) = j + 1
      /\ \A i \in 1 .. j + 1 : front[i] = node[i]
  BY <1>1, <1>2, ReadSplits
<1>4. /\ short \in Seq(Packets) /\ Len(short) = j
      /\ \A i \in 1 .. j : short[i] = rest[i]
  BY <1>1, <1>2, ReadSplits
<1> HIDE DEF front, short
<1>5. front # <<>> /\ Head(front) = Head(node)
  BY <1>1, <1>2, <1>3
<1>6. /\ Tail(front) \in Seq(Packets) /\ Len(Tail(front)) = j
      /\ \A i \in 1 .. j : Tail(front)[i] = front[i + 1]
  BY <1>2, <1>3, <1>5, HeadTailProperties
<1>7. \A i \in 1 .. j : Tail(front)[i] = short[i]
  BY <1>1, <1>2, <1>3, <1>4, <1>6
<1>8. TagsIn(Tail(front)) = TagsIn(short)
  BY <1>4, <1>6, <1>7, TagsInSame
<1>9. TagsIn(front) = One(Head(front)) + TagsIn(Tail(front))
  BY <1>3, <1>5, TagsInTail DEF Nodes
<1>10. QED
  BY <1>5, <1>8, <1>9 DEF front, short, rest

LEMMA RemoveCounted ==
    ASSUME queue \in Seq(Nodes), queue # <<>>, NEW next, RemovePacket(next),
           NEW t, CountedThrough(queue, t)
    PROVE  \E less : /\ CountedThrough(queue', less)
                     /\ less[0] = t[0] + One(Head(Head(queue)))
                     /\ less[Len(queue')] = t[Len(queue)]
<1> DEFINE n == Len(queue)
           m == Len(queue')
           node == Head(queue)
           one == One(Head(node))
<1>1. /\ n \in Nat \ {0} /\ node = queue[1] /\ node \in Nodes /\ queue' \in Seq(Nodes)
      /\ m \in Nat /\ one \in Nat
  BY RemoveEffect DEF One
<1>2. \A i \in 0 .. n : t[i] \in Nat
  BY DEF CountedThrough
<1>3. \A i \in 1 .. n : t[i] = t[i - 1] + TagsIn(queue[i])
  BY DEF CountedThrough
<1>4. \A i \in 1 .. n : \A j \in 1 .. Len(queue[i]) :
         queue[i][j].packet_type = "ContinuousInventorySummary" =>
             queue[i][j].number_of_tags = t[i - 1] + TagsIn(SubSeq(queue[i], 1, j))
  BY DEF CountedThrough
<1>5. TagsIn(node) = one + TagsIn(Tail(node))
  BY <1>1, TagsInTail
<1>6. /\ 1 \in 1 .. n /\ 0 \in 0 .. n /\ 1 \in 0 .. n /\ 1 - 1 = 0
      /\ Len(node) \in Nat \ {0}
  BY <1>1 DEF Nodes
<1>7. t[1] = t[0] + TagsIn(node) /\ t[0] \in Nat /\ t[1] \in Nat
  BY <1>1, <1>2, <1>3, <1>6
<1>8. /\ Tail(node) \in Seq(Packets) /\ Len(Tail(node)) = Len(node) - 1
      /\ \A j \in 1 .. Len(node) - 1 : Tail(node)[j] = node[j + 1]
  BY <1>1, HeadTailProperties DEF Nodes
<1>9. TagsIn(Tail(node)) \in Nat /\ TagsIn(Tail(node)) <= Len(node) - 1
  BY <1>8, TagsInBound
<1> HIDE DEF one, node
<1>10. CASE /\ Len(node) > 1
            /\ m = n /\ queue'[1] = Tail(node)
            /\ \A i \in 2 .. n : queue'[i] = queue[i]
  <2> DEFINE less == [i \in 0 .. n |-> IF i = 0 THEN t[0] + one ELSE t[i]]
  <2>1. /\ less \in [0 .. n -> Nat] /\ less[0] = t[0] + one
        /\ \A i \in 1 .. n : less[i] = t[i]
    BY <1>1, <1>2, <1>7
  <2> HIDE DEF less
  <2>2. ASSUME NEW i \in 1 .. n
        PROVE  /\ less[i] = less[i - 1] + TagsIn(queue'[i])
               /\ \A j \in 1 .. Len(queue'[i]) :
                     queue'[i][j].packet_type = "ContinuousInventorySummary" =>
                         queue'[i][j].number_of_tags =
                             less[i - 1] + TagsIn(SubSeq(queue'[i], 1, j))
    <3>1. CASE i = 1
      <4>1. less[i - 1] = t[0] + one /\ less[i] = t[1] /\ queue'[i] = Tail(node)
        BY <1>6, <1>10, <2>1, <3>1
      <4>2. t[1] = (t[0] + one) + TagsIn(Tail(node))
        BY <1>1, <1>5, <1>7, <1>9
      <4>3. ASSUME NEW j \in 1 .. Len(Tail(node)),
                   Tail(node)[j].packet_type = "ContinuousInventorySummary"
            PROVE  Tail(node)[j].number_of_tags =
                       (t[0] + one) + TagsIn(SubSeq(Tail(node), 1, j))
        <5>1. /\ j \in 1 .. Len(node) - 1 /\ j + 1 \in 1 .. Len(node) /\ j \in Nat
              /\ j <= Len(Tail(node)) /\ Tail(node)[j] = node[j + 1]
          BY <1>6, <1>8
        <5>2. node[j + 1].number_of_tags = t[0] + TagsIn(SubSeq(node, 1, j + 1))
          BY <1>1, <1>4, <1>6, <4>3, <5>1
        <5>3. TagsIn(SubSeq(node, 1, j + 1)) = one + TagsIn(SubSeq(Tail(node), 1, j))
          BY <1>1, <5>1, TailOfPrefix DEF one
        <5>4. SubSeq(Tail(node), 1, j) \in Seq(Packets)
          BY <1>8, <5>1, ReadSplits
        <5>5. TagsIn(SubSeq(Tail(node), 1, j)) \in Nat
          BY <5>4, TagsInBound
        <5>6. QED
          BY <1>1, <1>7, <5>1, <5>2, <5>3, <5>5
      <4>4. QED
        BY <4>1, <4>2, <4>3
    <3>2. CASE i \in 2 .. n
      <4>1. i - 1 \in 1 .. n
        BY <1>1, <3>2
      <4>2. less[i] = t[i] /\ less[i - 1] = t[i - 1] /\ queue'[i] = queue[i]
        BY <1>10, <2>1, <3>2, <4>1
      <4>3. QED
        BY <1>3, <1>4, <4>2
    <3>3. QED
      BY <1>1, <3>1, <3>2
  <2>3. CountedThrough(queue', less)
    BY <1>10, <2>1, <2>2 DEF CountedThrough
  <2>4. less[m] = t[n]
    BY <1>1, <1>10, <2>1
  <2>5. QED
    BY <2>1, <2>3, <2>4 DEF one, node
<1>11. CASE /\ Len(node) = 1
            /\ m = n - 1
            /\ \A i \in 1 .. n - 1 : queue'[i] = queue[i + 1]
  <2> DEFINE less == [i \in 0 .. m |-> t[i + 1]]
  <2>1. \A i \in 0 .. m : i + 1 \in 1 .. n /\ i + 1 \in 0 .. n
    BY <1>1, <1>11
  <2>2. less \in [0 .. m -> Nat] /\ \A i \in 0 .. m : less[i] = t[i + 1]
    BY <1>2, <2>1
  <2> HIDE DEF less
  <2>3. less[0] = t[0] + one /\ less[m] = t[n]
    <3>1. 0 \in 0 .. m /\ m \in 0 .. m /\ m + 1 = n /\ 0 + 1 = 1
      BY <1>1, <1>11
    <3>2. less[0] = t[1] /\ less[m] = t[n]
      BY <2>2, <3>1
    <3>3. TagsIn(node) = one
      BY <1>1, <1>5, <1>9, <1>11
    <3>4. QED
      BY <1>7, <3>2, <3>3
  <2>4. ASSUME NEW i \in 1 .. m
        PROVE  /\ less[i] = less[i - 1] + TagsIn(queue'[i])
               /\ \A j \in 1 .. Len(queue'[i]) :
                     queue'[i][j].packet_type = "ContinuousInventorySummary" =>
                         queue'[i][j].number_of_tags =
                             less[i - 1] + TagsIn(SubSeq(queue'[i], 1, j))
    <3>1. /\ i \in 0 .. m /\ i - 1 \in 0 .. m /\ i + 1 \in 1 .. n
          /\ (i - 1) + 1 = i /\ (i + 1) - 1 = i /\ i \in 1 .. n - 1
      BY <1>1, <1>11
    <3>2. less[i] = t[i + 1] /\ less[i - 1] = t[i] /\ queue'[i] = queue[i + 1]
      BY <1>11, <2>2, <3>1
    <3>3. QED
      BY <1>3, <1>4, <3>1, <3>2
  <2>5. CountedThrough(queue', less)
    BY <2>2, <2>4 DEF CountedThrough
  <2>6. QED
    BY <2>3, <2>5 DEF one, node
<1>12. QED
  BY <1>10, <1>11, RemoveEffect DEF node
-----------------------------------------------------------------------------
(* Nothing of an earlier run can be in the way: nothing fails, or there is *)
(* no earlier run.                                                         *)
Clean == FaultFree \/ MaxRuns <= 1

Untouched ==
    runs = 0 =>
        /\ appPc = "idle" /\ op = "Idle" /\ irqPc = "idle"
        /\ queue = <<>> /\ event_fifo = <<>>
        /\ ~irq_pending /\ ~round_done /\ ~fifo_irq

Tallied ==
    summary_tags = NoSummary =>
        \E t : CountedThrough(queue, t) /\ t[0] = reported /\ t[Len(queue)] = tag_count

Ending ==
    /\ appPc = "restart_idle" \/ (appPc = "idle" /\ runs > 0) =>
           ex10_result = "error" \/ summary_tags # NoSummary
    /\ appPc \notin {"restart_idle", "idle"} => summary_tags = NoSummary
    /\ ex10_result # "error" /\ summary_tags # NoSummary => summary_tags = reported

LEMMA UntouchedStep == TypeOK /\ Untouched /\ [Next]_vars => Untouched'
<1> SUFFICES ASSUME TypeOK, Untouched, [Next]_vars, runs' = 0 PROVE Untouched'
  BY DEF Untouched
<1>1. CASE runs = 0
  <2>1. /\ appPc = "idle" /\ op = "Idle" /\ irqPc = "idle" /\ ~irq_pending
        /\ queue = <<>> /\ event_fifo = <<>> /\ ~round_done /\ ~fifo_irq
    BY <1>1 DEF Untouched
  <2>2. ~(EmitsTag \/ EndsRound \/ TimePasses \/ HandlerStep)
    BY <2>1 DEF EmitsTag, EndsRound, TimePasses, HandlerStep, HandlerReadsStatus,
       HandlerReadFails, RoundDone, RoundCut, RoundReadFails, Decide, Continue,
       HandleError, InsertSummary, InsertSummaryFails, ReadEventFifo, ReadEventFifoFails
  <2>3. ~(AppRuns \/ HostCommand \/ PublishStep)
    BY <1>1, <2>1 DEF AppRuns, HostCommand, AppChecksOp, AppStartsRound,
       RestartReading, PublishStep, PublishTimesOut, PublishWaits, PublishError,
       PublishPacket
  <2>4. UNCHANGED vars
    BY <2>2, <2>3 DEF Next
  <2>5. QED
    BY <2>1, <2>4 DEF Untouched, vars, chip, irqLine, handler, app
<1>2. CASE runs # 0
  <2>1. runs \in Nat
    BY Sizes DEF TypeOK, Counts, Places
  <2>2. runs' \in {runs, runs + 1}
    BY CountsMoveStep DEF CountsMove
  <2>3. QED
    BY <1>2, <2>1, <2>2
<1>3. QED
  BY <1>1, <1>2

(* What a removal does to the counts: the tag, if it is one, is reported.  *)
LEMMA RemovedIsCounted ==
    ASSUME TypeOK, Tallied, summary_tags = NoSummary, queue # <<>>,
           NEW next, RemovePacket(next),
           reported' = reported + One(Head(Head(queue))), tag_count' = tag_count
    PROVE  Tallied'
<1>1. PICK t : CountedThrough(queue, t) /\ t[0] = reported /\ t[Len(queue)] = tag_count
  BY DEF Tallied
<1>2. queue \in Seq(Nodes)
  BY DEF TypeOK, Lists
<1>3. PICK less : /\ CountedThrough(queue', less)
                  /\ less[0] = t[0] + One(Head(Head(queue)))
                  /\ less[Len(queue')] = t[Len(queue)]
  BY <1>1, <1>2, RemoveCounted
<1>4. QED
  BY <1>1, <1>3 DEF Tallied

(* An error packet counts for nothing.                                     *)
LEMMA ErrorIsNotCounted ==
    ASSUME TypeOK, Tallied, PushError, UNCHANGED <<reported, tag_count, summary_tags>>
    PROVE  Tallied'
<1> SUFFICES ASSUME summary_tags = NoSummary PROVE Tallied'
  BY DEF Tallied
<1> DEFINE node == <<Ex10ResultPacket>>
<1>1. PICK t : CountedThrough(queue, t) /\ t[0] = reported /\ t[Len(queue)] = tag_count
  BY DEF Tallied
<1>2. queue \in Seq(Nodes) /\ tag_count \in Nat
  BY DEF TypeOK, Lists
<1>3. /\ node \in Nodes /\ Len(node) = 1 /\ node[1] = Ex10ResultPacket
      /\ node \in Seq(Packets)
  BY PacketTypes DEF Nodes
<1>4. /\ ~IsTag(Ex10ResultPacket)
      /\ Ex10ResultPacket.packet_type # "ContinuousInventorySummary"
  BY DEF IsTag, Ex10ResultPacket, Packet
<1> HIDE DEF node
<1>5. TagsIn(node) = 0
  <2>1. \A i \in 1 .. Len(node) : IsTag(node[i]) <=> i <= 0
    BY <1>3, <1>4
  <2>2. QED
    BY <1>3, <2>1, TagsInPrefix
<1>6. \A j \in 1 .. Len(node) : node[j].packet_type # "ContinuousInventorySummary"
  BY <1>3, <1>4
<1>7. PICK more : /\ CountedThrough(Append(queue, node), more)
                  /\ more[0] = t[0]
                  /\ more[Len(queue) + 1] = t[Len(queue)] + TagsIn(node)
  BY <1>1, <1>2, <1>3, <1>6, AppendCounted
<1>8. CASE queue' = queue
  BY <1>1, <1>8 DEF Tallied
<1>9. CASE queue' = Append(queue, node)
  <2>1. Len(queue') = Len(queue) + 1
    BY <1>2, <1>3, <1>9, AppendProperties
  <2>2. more[Len(queue')] = tag_count
    BY <1>1, <1>2, <1>5, <1>7, <2>1
  <2>3. QED
    BY <1>1, <1>7, <1>9, <2>2 DEF Tallied
<1>10. QED
  BY <1>8, <1>9 DEF PushError, node

(* A read counts what it moves. *)
LEMMA ReadIsCounted ==
    ASSUME TypeOK, Tallied, ReadEventFifo
    PROVE  Tallied'
<1>0. /\ UNCHANGED <<reported, summary_tags>>
      /\ queue \in Seq(Nodes) /\ event_fifo \in Seq(Sent) /\ tag_count \in Nat
      /\ num_bytes \in Nat /\ num_bytes <= Len(event_fifo)
  BY DEF ReadEventFifo, TypeOK, Lists, Counts, app
<1>1. CASE num_bytes > 0 /\ FreeEventBuffers > 0
  <2> SUFFICES ASSUME summary_tags = NoSummary PROVE Tallied'
    BY <1>0 DEF Tallied
  <2> DEFINE packets == SubSeq(event_fifo, 1, num_bytes)
             node == Counted(packets)
  <2>1. tag_count' = tag_count + TagsIn(packets) /\ queue' = Append(queue, node)
    BY <1>1 DEF ReadEventFifo
  <2>2. packets \in Seq(Sent) /\ Len(packets) = num_bytes
    BY <1>0, ReadSplits
  <2>3. PICK t : CountedThrough(queue, t) /\ t[0] = reported /\ t[Len(queue)] = tag_count
    BY DEF Tallied
  <2> HIDE DEF packets
  <2>4. packets # <<>> /\ packets \in Seq(Packets)
    <3>1. packets # <<>>
      BY <1>1, <2>2
    <3>2. QED
      BY <2>2, <3>1, PacketTypes
  <2>5. /\ node \in Nodes /\ Len(node) = num_bytes
        /\ \A i \in 1 .. num_bytes :
              /\ node[i] \in Sent /\ (IsTag(node[i]) <=> IsTag(packets[i]))
              /\ ~IsTag(packets[i]) =>
                   node[i] = Summary(tag_count + TagsIn(SubSeq(packets, 1, i)))
    BY <1>0, <2>2, <2>4, CountedEffect
  <2> HIDE DEF node
  <2>6. node \in Seq(Packets)
    BY <2>5 DEF Nodes
  <2>7. TagsIn(node) = TagsIn(packets)
    BY <2>2, <2>4, <2>5, <2>6, TagsInSame
  <2>8. ASSUME NEW j \in 1 .. Len(node),
               node[j].packet_type = "ContinuousInventorySummary"
        PROVE  node[j].number_of_tags = t[Len(queue)] + TagsIn(SubSeq(node, 1, j))
    <3>1. j \in 1 .. num_bytes /\ j \in Nat /\ j <= Len(node) /\ j <= Len(packets)
      BY <2>2, <2>5
    <3>2. ~IsTag(node[j])
      BY <2>8 DEF IsTag
    <3>3. node[j] = Summary(tag_count + TagsIn(SubSeq(packets, 1, j)))
      BY <2>5, <3>1, <3>2
    <3>4. node[j].number_of_tags = tag_count + TagsIn(SubSeq(packets, 1, j))
      BY <3>3 DEF Summary, Packet
    <3>5. /\ SubSeq(packets, 1, j) \in Seq(Packets) /\ Len(SubSeq(packets, 1, j)) = j
          /\ \A i \in 1 .. j : SubSeq(packets, 1, j)[i] = packets[i]
      BY <2>4, <3>1, ReadSplits
    <3>6. /\ SubSeq(node, 1, j) \in Seq(Packets) /\ Len(SubSeq(node, 1, j)) = j
          /\ \A i \in 1 .. j : SubSeq(node, 1, j)[i] = node[i]
      BY <2>6, <3>1, ReadSplits
    <3>7. \A i \in 1 .. j : i \in 1 .. num_bytes
      BY <1>0, <3>1
    <3>8. TagsIn(SubSeq(packets, 1, j)) = TagsIn(SubSeq(node, 1, j))
      BY <2>5, <3>5, <3>6, <3>7, TagsInSame
    <3>9. QED
      BY <2>3, <3>4, <3>8
  <2>9. PICK more : /\ CountedThrough(Append(queue, node), more)
                    /\ more[0] = t[0]
                    /\ more[Len(queue) + 1] = t[Len(queue)] + TagsIn(node)
    BY <1>0, <2>3, <2>5, <2>8, AppendCounted
  <2>10. Len(queue') = Len(queue) + 1
    BY <1>0, <2>1, <2>5, AppendProperties
  <2>11. more[Len(queue')] = tag_count'
    BY <2>1, <2>3, <2>7, <2>9, <2>10
  <2>12. QED
    BY <1>0, <2>1, <2>3, <2>9, <2>11 DEF Tallied
<1>2. CASE ~(num_bytes > 0 /\ FreeEventBuffers > 0)
  <2>1. (PushError \/ queue' = queue) /\ tag_count' = tag_count
    BY <1>2 DEF ReadEventFifo
  <2>2. CASE PushError
    BY <1>0, <2>1, <2>2, ErrorIsNotCounted
  <2>3. CASE queue' = queue
    BY <1>0, <2>1, <2>3 DEF Tallied
  <2>4. QED
    BY <2>1, <2>2, <2>3
<1>3. QED
  BY <1>1, <1>2

(* A run starts with nothing read and nothing queued. *)
LEMMA RunStartsCounted ==
    ASSUME TypeOK, Clean, CalmUnlessFaults, Untouched, AppRuns
    PROVE  Tallied'
<1>1. queue = <<>>
  <2>1. CASE FaultFree
    BY <2>1 DEF CalmUnlessFaults, Calm, Clear, Reporting, AppRuns
  <2>2. CASE MaxRuns <= 1
    <3>1. runs \in Nat /\ MaxRuns \in Nat /\ runs < MaxRuns
      BY Sizes DEF TypeOK, Counts, Places, AppRuns
    <3>2. runs = 0
      BY <2>2, <3>1
    <3>3. QED
      BY <3>2 DEF Untouched
  <2>3. QED
    BY <2>1, <2>2 DEF Clean
<1>2. queue' = <<>> /\ reported' = 0 /\ tag_count' = 0 /\ Len(<<>>) = 0
  BY <1>1 DEF AppRuns
<1>3. QED
  BY <1>2, EmptyCounted DEF Tallied

LEMMA TalliedStep ==
    TypeOK /\ Clean /\ CalmUnlessFaults /\ Untouched /\ Ending /\ Tallied /\ [Next]_vars
        => Tallied'
<1> SUFFICES ASSUME TypeOK, Clean, CalmUnlessFaults, Untouched, Ending, Tallied, [Next]_vars
             PROVE  Tallied'
  OBVIOUS
<1>0. ASSUME UNCHANGED <<queue, tag_count, reported, summary_tags>> PROVE Tallied'
  BY <1>0 DEF Tallied
<1> USE DEF chip, inventory_state, app
<1>1. CASE EmitsTag \/ EndsRound \/ TimePasses
  BY <1>0, <1>1 DEF EmitsTag, EndsRound, TimePasses
<1>2. CASE HandlerReadsStatus \/ RoundDone \/ RoundCut \/ Decide \/ Continue \/ InsertSummary
  BY <1>0, <1>2 DEF HandlerReadsStatus, RoundDone, RoundCut, Decide, Continue,
     InsertSummary
<1>3. CASE \/ HandlerReadFails \/ RoundReadFails \/ HandleError \/ InsertSummaryFails
           \/ ReadEventFifoFails \/ RestartReading
  <2>1. UNCHANGED <<tag_count, reported, summary_tags>> /\ (PushError \/ queue' = queue)
    BY <1>3 DEF HandlerReadFails, RoundReadFails, HandleError, InsertSummaryFails,
       ReadEventFifoFails, RestartReading
  <2>2. QED
    BY <1>0, <2>1, ErrorIsNotCounted
<1>4. CASE ReadEventFifo
  BY <1>4, ReadIsCounted
<1>5. CASE AppRuns
  BY <1>5, RunStartsCounted
<1>6. CASE AppChecksOp \/ AppStartsRound \/ PublishTimesOut \/ PublishWaits
  BY <1>0, <1>6 DEF AppChecksOp, AppStartsRound, PublishTimesOut, PublishWaits
<1>7. CASE PublishError
  <2>1. /\ summary_tags = NoSummary /\ queue # <<>> /\ RemovePacket("idle")
        /\ reported' = reported /\ tag_count' = tag_count
    BY <1>7 DEF PublishError, Ending
  <2>2. One(Head(Head(queue))) = 0
    BY <1>7 DEF PublishError, IsError, One, IsTag
  <2>3. reported' = reported + One(Head(Head(queue)))
    BY <2>1, <2>2 DEF TypeOK, Counts
  <2>4. QED
    BY <2>1, <2>3, RemovedIsCounted
<1>8. CASE PublishPacket
  <2>1. summary_tags = NoSummary /\ queue # <<>> /\ tag_count' = tag_count
    BY <1>8 DEF PublishPacket, Ending
  <2>2. PICK next : RemovePacket(next)
    BY <1>8 DEF PublishPacket
  <2>3. CASE IsTag(Head(Head(queue)))
    <3>1. reported' = reported + One(Head(Head(queue)))
      BY <1>8, <2>3 DEF PublishPacket, One
    <3>2. QED
      BY <2>1, <2>2, <3>1, RemovedIsCounted
  <2>4. CASE ~IsTag(Head(Head(queue)))
    <3>1. summary_tags' = Head(Head(queue)).number_of_tags
      BY <1>8, <2>4 DEF PublishPacket
    <3>2. Head(Head(queue)) \in Packets
      BY <2>1, <2>2, RemoveEffect DEF TypeOK, Lists
    <3>3. summary_tags' # NoSummary
      BY <3>1, <3>2, PacketTypes DEF NoSummary
    <3>4. QED
      BY <3>3 DEF Tallied
  <2>5. QED
    BY <2>3, <2>4
<1>9. CASE UNCHANGED vars
  BY <1>0, <1>9 DEF vars
<1>10. QED
  BY <1>1, <1>2, <1>3, <1>4, <1>5, <1>6, <1>7, <1>8, <1>9
     DEF Next, HandlerStep, HostCommand, PublishStep
-----------------------------------------------------------------------------
(* The summary that ends a run has the number of the reported tags. *)
LEMMA SummaryIsTrue ==
    ASSUME TypeOK, Tallied, summary_tags = NoSummary, PublishPacket,
           ~IsTag(Head(Head(queue)))
    PROVE  summary_tags' = reported' /\ summary_tags' # NoSummary
<1> DEFINE node == Head(queue)
<1>1. /\ queue # <<>> /\ ~IsError(node)
      /\ summary_tags' = Head(node).number_of_tags /\ reported' = reported
  BY DEF PublishPacket
<1>2. PICK next : RemovePacket(next)
  BY DEF PublishPacket
<1>3. /\ queue \in Seq(Nodes) /\ Len(queue) \in Nat \ {0} /\ node = queue[1]
      /\ node \in Nodes /\ Head(node) = node[1] /\ Head(node) \in Packets
  BY <1>1, <1>2, RemoveEffect DEF TypeOK, Lists
<1>4. node \in Seq(Packets) /\ Len(node) \in Nat \ {0}
  BY <1>3 DEF Nodes
<1>5. node[1].packet_type = "ContinuousInventorySummary"
  BY <1>1, <1>3, PacketTypes DEF IsError
<1>6. PICK t : CountedThrough(queue, t) /\ t[0] = reported /\ t[Len(queue)] = tag_count
  BY DEF Tallied
<1>7. 1 \in 1 .. Len(queue) /\ 1 \in 1 .. Len(queue[1]) /\ 1 - 1 = 0
  BY <1>3, <1>4
<1>8. node[1].number_of_tags = t[0] + TagsIn(SubSeq(node, 1, 1))
  BY <1>3, <1>5, <1>6, <1>7 DEF CountedThrough
<1>9. TagsIn(SubSeq(node, 1, 1)) = 0
  <2> DEFINE first == SubSeq(node, 1, 1)
  <2>1. first \in Seq(Packets) /\ Len(first) = 1 /\ \A i \in 1 .. 1 : first[i] = node[i]
    BY <1>4, ReadSplits
  <2> HIDE DEF first
  <2>2. \A i \in 1 .. Len(first) : IsTag(first[i]) <=> i <= 0
    BY <1>3, <2>1
  <2>3. TagsIn(first) = 0
    BY <2>1, <2>2, TagsInPrefix
  <2>4. QED
    BY <2>3 DEF first
<1>10. reported \in Nat
  BY DEF TypeOK, Counts
<1>11. QED
  BY <1>1, <1>3, <1>6, <1>8, <1>9, <1>10 DEF NoSummary

LEMMA EndingStep == TypeOK /\ Tallied /\ Untouched /\ Ending /\ [Next]_vars => Ending'
<1> SUFFICES ASSUME TypeOK, Tallied, Untouched, Ending, [Next]_vars PROVE Ending'
  OBVIOUS
<1>0. ASSUME UNCHANGED <<appPc, ex10_result, summary_tags, reported, runs>> PROVE Ending'
  BY <1>0 DEF Ending
<1> USE DEF app
<1>1. CASE EmitsTag \/ EndsRound \/ TimePasses
  BY <1>0, <1>1 DEF EmitsTag, EndsRound, TimePasses
<1>2. CASE HandlerStep
  BY <1>0, <1>2 DEF HandlerStep, HandlerReadsStatus, HandlerReadFails, RoundDone,
     RoundCut, RoundReadFails, Decide, Continue, HandleError, InsertSummary,
     InsertSummaryFails, ReadEventFifo, ReadEventFifoFails
<1>3. CASE AppRuns
  BY <1>3 DEF AppRuns, Ending
<1>4. CASE AppChecksOp \/ AppStartsRound
  BY <1>4 DEF AppChecksOp, AppStartsRound, Refused, Ending
<1>5. CASE PublishTimesOut \/ PublishWaits
  BY <1>5 DEF PublishTimesOut, PublishWaits, Ending
<1>6. CASE RestartReading
  <2>1. runs # 0 /\ appPc \in {"restart_idle", "restart_publish"}
    BY <1>6 DEF RestartReading, Untouched
  <2>2. QED
    BY <1>6, <2>1 DEF RestartReading, Ending
<1>7. CASE PublishError
  BY <1>7 DEF PublishError, RemovePacket, Ending
<1>8. CASE PublishPacket
  <2>1. summary_tags = NoSummary
    BY <1>8 DEF PublishPacket, Ending
  <2>2. CASE IsTag(Head(Head(queue)))
    BY <1>8, <2>1, <2>2 DEF PublishPacket, RemovePacket, Ending
  <2>3. CASE ~IsTag(Head(Head(queue)))
    <3>1. summary_tags' = reported' /\ summary_tags' # NoSummary
      BY <1>8, <2>1, <2>3, SummaryIsTrue
    <3>2. appPc' \in {"idle", "restart_idle"}
      BY <1>8, <2>3 DEF PublishPacket, RemovePacket
    <3>3. QED
      BY <3>1, <3>2 DEF Ending
  <2>4. QED
    BY <2>2, <2>3
<1>9. CASE UNCHANGED vars
  BY <1>0, <1>9 DEF vars
<1>10. QED
  BY <1>1, <1>2, <1>3, <1>4, <1>5, <1>6, <1>7, <1>8, <1>9
     DEF Next, HostCommand, PublishStep

(* Each step of the two threads and of the Ex10 is a step of a run, or     *)
(* none that its caller could see.                                         *)
LEMMA RunStep ==
    TypeOK /\ Untouched /\ Ending /\ Ending' /\ [Next]_vars => [Runs!Next]_(Runs!vars)
<1> SUFFICES ASSUME TypeOK, Untouched, Ending, Ending', [Next]_vars
             PROVE  Runs!Next \/ UNCHANGED Runs!vars
  OBVIOUS
<1>0. ASSUME UNCHANGED <<appPc, ex10_result, summary_tags, reported, runs>>
      PROVE  UNCHANGED Runs!vars
  BY <1>0 DEF Runs!vars, Returned
<1>1. reported \in Nat /\ (appPc # "idle" => runs # 0 /\ runs > 0)
  <2>1. runs \in Nat
    BY Sizes DEF TypeOK, Counts, Places
  <2>2. appPc # "idle" => runs # 0
    BY DEF Untouched
  <2>3. QED
    BY <2>1, <2>2 DEF TypeOK, Counts
<1> USE DEF app
<1>2. CASE EmitsTag \/ EndsRound \/ TimePasses
  BY <1>0, <1>2 DEF EmitsTag, EndsRound, TimePasses
<1>3. CASE HandlerStep
  BY <1>0, <1>3 DEF HandlerStep, HandlerReadsStatus, HandlerReadFails, RoundDone,
     RoundCut, RoundReadFails, Decide, Continue, HandleError, InsertSummary,
     InsertSummaryFails, ReadEventFifo, ReadEventFifoFails
<1>4. CASE AppRuns
  BY <1>4 DEF AppRuns, Runs!Next, Runs!Start, Returned
<1>5. ASSUME appPc # "idle", appPc' # "idle", reported' = reported
      PROVE  UNCHANGED Runs!vars
  BY <1>5 DEF Runs!vars, Returned
<1>6. ASSUME appPc # "idle", appPc' # "idle", reported' = reported + 1
      PROVE  Runs!Report
  BY <1>6 DEF Runs!Report, Returned
<1>7. ASSUME appPc # "idle", appPc' = "idle", runs' = runs, ex10_result' = "error",
             reported' \in {reported, reported + 1}
      PROVE  Runs!Fails
  BY <1>1, <1>7 DEF Runs!Fails, Returned
<1>8. ASSUME appPc # "idle", appPc' = "idle", runs' = runs, ex10_result' # "error",
             reported' = reported
      PROVE  Runs!Succeeds
  <2>1. summary_tags' # NoSummary /\ summary_tags' = reported'
    BY <1>1, <1>8 DEF Ending
  <2>2. QED
    BY <1>1, <1>8, <2>1 DEF Runs!Succeeds, Returned
<1>9. CASE AppChecksOp \/ AppStartsRound
  <2>1. /\ appPc # "idle" /\ reported' = reported /\ runs' = runs
        /\ appPc' = "idle" => ex10_result' = "error"
    BY <1>9 DEF AppChecksOp, AppStartsRound, Refused
  <2>2. QED
    BY <1>5, <1>7, <2>1 DEF Runs!Next
<1>10. CASE RestartReading \/ PublishTimesOut \/ PublishWaits \/ PublishError
  <2>1. appPc # "idle" /\ reported' = reported /\ runs' = runs
    BY <1>10 DEF RestartReading, PublishTimesOut, PublishWaits, PublishError
  <2>2. QED
    BY <1>5, <1>7, <1>8, <2>1 DEF Runs!Next
<1>11. CASE PublishPacket
  <2>1. /\ appPc # "idle" /\ runs' = runs
        /\ reported' = IF IsTag(Head(Head(queue))) THEN reported + 1 ELSE reported
    BY <1>11 DEF PublishPacket
  <2>2. IsTag(Head(Head(queue))) /\ appPc' = "idle" => ex10_result' = "error"
    BY <1>11 DEF PublishPacket, RemovePacket
  <2>3. QED
    BY <1>5, <1>6, <1>7, <1>8, <2>1, <2>2 DEF Runs!Next
<1>12. CASE UNCHANGED vars
  BY <1>0, <1>12 DEF vars
<1>13. QED
  BY <1>2, <1>3, <1>4, <1>9, <1>10, <1>11, <1>12 DEF Next, HostCommand, PublishStep

LEMMA RunInit == Init => Runs!Init /\ Untouched /\ Ending /\ Tallied
<1> SUFFICES ASSUME Init PROVE Runs!Init /\ Untouched /\ Ending /\ Tallied
  OBVIOUS
<1>1. Runs!Init /\ Untouched /\ Ending
  BY DEF Init, Runs!Init, Returned, Untouched, Ending
<1>2. Tallied
  <2>1. queue = <<>> /\ reported = 0 /\ tag_count = 0 /\ Len(<<>>) = 0
    BY DEF Init
  <2>2. QED
    BY <2>1, EmptyCounted DEF Tallied
<1>3. QED
  BY <1>1, <1>2

(* ImplementsRuns: what continuous_inventory() promises to its caller, a   *)
(* run that ends with an error or with a summary of what was reported.     *)
(* For any limits, buffers and failures in one run; for any number of runs *)
(* while nothing fails.  After a failure the packets of one run may be     *)
(* taken for those of the next: without Clean it is not true.              *)
THEOREM RunsAreImplemented == Spec /\ Clean => ImplementsRuns
<1> DEFINE Inv == Clean /\ Untouched /\ Ending /\ Tallied
<1>1. Clean /\ [Next]_vars => Clean'
  BY SetupStep, FaultFreeStep DEF Clean
<1>2. Inv /\ TypeOK /\ CalmUnlessFaults /\ [Next]_vars => Inv'
  BY <1>1, UntouchedStep, EndingStep, TalliedStep
<1>3. Inv /\ Inv' /\ TypeOK /\ [Next]_vars => [Runs!Next]_(Runs!vars)
  BY RunStep
<1>4. Init /\ Clean => Runs!Init /\ Inv
  BY RunInit
<1> HIDE DEF Inv
<1>5. QED
  BY <1>2, <1>3, <1>4, TypeCorrect, CalmIsKept, PTL
     DEF Spec, ImplementsRuns, Runs!SafetySpec
=============================================================================
