----------------------------- MODULE EventPackets -----------------------------
(***************************************************************************)
(* The packets of the event FIFO as bytes (event_packet_parser.c and       *)
(* create_fifo_event() of commands.c), and the parts of a tag's reply that *)
(* a TagRead packet holds.                                                 *)
(*                                                                         *)
(* The time in a header is 0, as make_packet_header() leaves it.            *)
(* Pointers into a reply are distances in bytes from its start, Null where *)
(* there is none.                                                          *)
(***************************************************************************)
EXTENDS Integers, Sequences, SequencesExt

PacketHeaderLength == 8
EventFifoSha == <<75, 191>>
Counter == <<0, 0, 0, 0>>
Padding == 0

EventPacketType ==
    [TxRampUp |-> 1, TxRampDown |-> 2, InventoryRoundSummary |-> 3, QChanged |-> 4, TagRead |-> 5,
     TagReadExtended |-> 6, Gen2Transaction |-> 7, ContinuousInventorySummary |-> 8,
     HelloWorld |-> 9, Custom |-> 10, PowerControlLoopSummary |-> 11, AggregateOpSummary |-> 13,
     Halted |-> 14, InvalidPacket |-> 240, FifoOverflowPacket |-> 241, Ex10ResultPacket |-> 242,
     SjcMeasurement |-> 254, Debug |-> 255]
get_static_payload_length ==
    [TxRampUp |-> 4, TxRampDown |-> 4, InventoryRoundSummary |-> 20, QChanged |-> 12,
     TagRead |-> 12, TagReadExtended |-> 20, Gen2Transaction |-> 12,
     ContinuousInventorySummary |-> 16, HelloWorld |-> 4, Custom |-> 4,
     PowerControlLoopSummary |-> 8, AggregateOpSummary |-> 16, Halted |-> 4,
     InvalidPacket |-> 4, FifoOverflowPacket |-> 4, Ex10ResultPacket |-> 8,
     SjcMeasurement |-> 12, Debug |-> 4]
(* The type that a code stands for; "unknown" when it is none of them.     *)
TypeOf(code) ==
    IF \E type \in DOMAIN EventPacketType : EventPacketType[type] = code
    THEN CHOOSE type \in DOMAIN EventPacketType : EventPacketType[type] = code
    ELSE "unknown"
get_packet_type_valid(type) == type \notin {"InvalidPacket", "unknown"}
StaticLength(type) == IF type = "unknown" THEN 0 ELSE get_static_payload_length[type]

EventFifoPacket(type, static_data, dynamic_data) ==
    [packet_type |-> type, static_data |-> static_data, dynamic_data |-> dynamic_data,
     is_valid |-> TRUE]
InvalidPacket ==
    [packet_type |-> "InvalidPacket", static_data |-> << >>, dynamic_data |-> << >>,
     is_valid |-> FALSE]

(* A packet is padded to words of four bytes; its length is in words, in   *)
(* one byte.                                                               *)
PaddingBytes(packet) ==
    (4 - ((PacketHeaderLength + Len(packet.static_data) + Len(packet.dynamic_data)) % 4)) % 4
PacketBytes(packet) ==
    PacketHeaderLength + Len(packet.static_data) + Len(packet.dynamic_data) + PaddingBytes(packet)
make_packet_header(type, packet_length) ==
    <<packet_length, EventPacketType[type]>> \o EventFifoSha \o Counter
create_fifo_event(packet) ==
    make_packet_header(packet.packet_type, (PacketBytes(packet) \div 4) % 256)
        \o packet.static_data \o packet.dynamic_data
        \o [i \in 1 .. PaddingBytes(packet) |-> Padding]

(* The packet at the head of bytes, and the bytes behind it; none behind a *)
(* packet that is not one: its length cannot be trusted.                   *)
parse_event_packet(bytes) ==
    LET length == 4 * bytes[1]
        type == TypeOf(bytes[2])
        least == PacketHeaderLength + StaticLength(type)
        is_valid == /\ get_packet_type_valid(type)
                    /\ SubSeq(bytes, 3, 4) = EventFifoSha
                    /\ least <= length /\ length <= Len(bytes)
    IN IF Len(bytes) >= PacketHeaderLength /\ is_valid
       THEN [packet |-> EventFifoPacket(type, SubSeq(bytes, PacketHeaderLength + 1, least),
                                        SubSeq(bytes, least + 1, length)),
             rest |-> SubSeq(bytes, length + 1, Len(bytes))]
       ELSE [packet |-> InvalidPacket, rest |-> << >>]
(* What packet_peek() and packet_remove() make of a buffer of the FIFO.    *)
Packets(bytes) ==
    LET next(state, i) ==
            IF state.rest = << >> THEN state
            ELSE LET parsed == parse_event_packet(state.rest)
                 IN [rest |-> parsed.rest, packets |-> Append(state.packets, parsed.packet)]
    IN FoldLeft(next, [rest |-> bytes, packets |-> << >>],
                [i \in 1 .. Len(bytes) \div PacketHeaderLength + 1 |-> i]).packets

-----------------------------------------------------------------------------
(* A tag's reply: L, XI and XEB of the PC and XPC words, the length of the *)
(* data received and whether the four bytes at tid_offset are the start of *)
(* the TID of a Monza 4 or 5.                                              *)
Null == -1
TidLength == 12
CrcLength == 2
Word == 2
SizeRange == 65536              \* for the 2^32 of size_t
size_t(n) == n % SizeRange
TagReadTypes == {"Epc", "EpcWithTid", "EpcWithFastIdTid"}

Fields(epc, epc_length, stored_crc, xpc_w1, xpc_w2, tid) ==
    [pc |-> 0, epc |-> IF epc_length = 0 THEN Null ELSE epc, epc_length |-> epc_length,
     stored_crc |-> stored_crc, xpc_w1 |-> xpc_w1, xpc_w2 |-> xpc_w2, tid |-> tid,
     tid_length |-> IF tid = Null THEN 0 ELSE TidLength]
ErrTagRead == [Fields(0, 0, Null, Null, Null, Null) EXCEPT !.pc = Null]

XpcLength(reply) == IF ~reply.xi THEN 0 ELSE IF ~reply.xeb THEN Word ELSE 2 * Word
LengthAfterXpc(reply) == size_t(Word * reply.L - XpcLength(reply))
(* A read of the TID follows with a header of a byte, a handle and a CRC.  *)
TidReadLength == 1 + TidLength + 2 + CrcLength
MinLength(reply, type) ==
    Word * reply.L + 2 * Word + IF type = "EpcWithTid" THEN TidReadLength ELSE 0
(* What of the length FastID takes: the TID and, of a Monza 4 or 5, the    *)
(* stored CRC.                                                             *)
FastIdLength(reply) == TidLength + IF reply.is_monza4_monza5 THEN CrcLength ELSE 0

get_tag_read_fields(reply, type, tid_offset) ==
    LET xpc_w1 == IF reply.xi THEN Word ELSE Null
        xpc_w2 == IF reply.xi /\ reply.xeb THEN 2 * Word ELSE Null
        epc == Word + XpcLength(reply)
        all == LengthAfterXpc(reply)
        shorter == all - FastIdLength(reply)
    IN IF reply.length = 0 \/ reply.length < MinLength(reply, type) THEN ErrTagRead
       ELSE CASE type = "Epc" -> Fields(epc, all, epc + all, xpc_w1, xpc_w2, Null)
              [] type = "EpcWithTid" ->
                    Fields(epc, all, epc + all, xpc_w1, xpc_w2, tid_offset + 1)
              [] type = "EpcWithFastIdTid" /\ shorter < 0 ->
                    Fields(epc, all, epc + all, xpc_w1, xpc_w2, Null)
              [] type = "EpcWithFastIdTid" /\ shorter >= 0 ->
                    Fields(epc, shorter,
                           IF reply.is_monza4_monza5 THEN epc + shorter ELSE Null,
                           xpc_w1, xpc_w2, tid_offset)

-----------------------------------------------------------------------------
(* What tags send: PC, XPC words, EPC, stored CRC, and behind it or in its *)
(* place a TID (the layouts drawn in event_packet_parser.c:125-271).       *)
Sent(epc_words, xpc_words, type, monza4) ==
    LET epc == Word * (1 + xpc_words)
        crc == epc + Word * epc_words
        fast == type = "EpcWithFastIdTid"
        tid == IF fast THEN IF monza4 THEN crc + CrcLength ELSE crc ELSE crc + CrcLength
    IN [reply |->
            [L |-> xpc_words + epc_words
                        + IF ~fast THEN 0 ELSE (TidLength + IF monza4 THEN CrcLength ELSE 0) \div Word,
             xi |-> xpc_words > 0, xeb |-> xpc_words > 1, is_monza4_monza5 |-> monza4,
             length |-> CASE type = "Epc" -> crc + CrcLength
                          [] type = "EpcWithTid" -> tid + TidReadLength
                          [] OTHER -> tid + TidLength + CrcLength],
        tid_offset |-> tid,
        fields |-> Fields(epc, Word * epc_words, IF fast /\ ~monza4 THEN Null ELSE crc,
                          IF xpc_words > 0 THEN Word ELSE Null,
                          IF xpc_words > 1 THEN 2 * Word ELSE Null,
                          CASE type = "Epc" -> Null
                            [] type = "EpcWithTid" -> tid + 1 [] OTHER -> tid)]
TagFieldsAreFound(epc_words) ==
    \A xpc_words \in 0 .. 2, type \in TagReadTypes, monza4 \in BOOLEAN :
        LET sent == Sent(epc_words, xpc_words, type, monza4)
        IN get_tag_read_fields(sent.reply, type, sent.tid_offset) = sent.fields
(* No other reply makes a field lie beyond the data, as long as it has the *)
(* XPC words it says it has and the TID is where it is said to be.         *)
FieldsLieInReply(lengths) ==
    \A L \in 0 .. 9, length \in lengths, xi, xeb, monza4 \in BOOLEAN, type \in TagReadTypes :
        LET reply == [L |-> L, length |-> length, xi |-> xi, xeb |-> xeb,
                      is_monza4_monza5 |-> monza4]
            fields == get_tag_read_fields(reply, type, 2)
        IN Word * L >= XpcLength(reply) =>
            fields.epc_length + XpcLength(reply) + Word <= length \/ fields = ErrTagRead
=============================================================================
