----------------------------- MODULE Gen2Commands -----------------------------
(***************************************************************************)
(* The Gen2 commands a reader sends to a tag (gen2_commands.c): how the    *)
(* arguments of a command become the bits that are transmitted, how bits   *)
(* become arguments again, what the Ex10 needs to know to transmit them    *)
(* and how the tag's reply is read.                                        *)
(*                                                                         *)
(* Bits are a sequence of 0 and 1, most significant first: the order in    *)
(* which bit_pack() fills the bytes.  The encoder and the decoder of a     *)
(* command each are a sequence of steps, as in the source, where the two   *)
(* are generated apart.  An argument that is absent is a NULL pointer.     *)
(***************************************************************************)
EXTENDS Integers, Sequences, SequencesExt

Shifted(value, count) ==
    LET rest[n \in 0 .. count] == IF n = 0 THEN value ELSE rest[n - 1] \div 2
    IN rest[count]
BitsOf(value, count) == [i \in 1 .. count |-> Shifted(value, count - i) % 2]
ValueOf(bits) ==
    LET value[n \in 0 .. Len(bits)] == IF n = 0 THEN 0 ELSE 2 * value[n - 1] + bits[n]
    IN value[Len(bits)]

(* Extensible bit vectors: seven bits a byte, the highest first, a flag on *)
(* every byte but the last.                                                *)
get_ebv_bit_len(value) ==
    LET length[v \in 0 .. value] == 8 + IF v > 127 THEN length[v \div 128] ELSE 0
    IN length[value]
Extended(value) ==
    LET extended[v \in 0 .. value] ==
            (IF v > 127 THEN extended[v \div 128] ELSE << >>) \o BitsOf(128 + (v % 128), 8)
    IN extended[value]
bit_pack_ebv(value) ==
    (IF value > 127 THEN Extended(value \div 128) ELSE << >>) \o BitsOf(value % 128, 8)

-----------------------------------------------------------------------------
(* The encoders.  A step packs a constant, a field, an EBV or a span.      *)
Const(value, width) == [kind |-> "const", name |-> "", width |-> width, value |-> value]
Field(name, width) == [kind |-> "field", name |-> name, width |-> width, value |-> 0]
Ebv(name) == [kind |-> "ebv", name |-> name, width |-> 0, value |-> 0]
Span(name) == [kind |-> "span", name |-> name, width |-> 0, value |-> 0]

LockFlags ==
    <<"kill_password_read_write_mask", "kill_password_permalock_mask",
      "access_password_read_write_mask", "access_password_permalock_mask",
      "epc_memory_write_mask", "epc_memory_permalock_mask",
      "tid_memory_write_mask", "tid_memory_permalock_mask",
      "file_0_memory_write_mask", "file_0_memory_permalock_mask",
      "kill_password_read_write_lock", "kill_password_permalock",
      "access_password_read_write_lock", "access_password_permalock",
      "epc_memory_write_lock", "epc_memory_permalock",
      "tid_memory_write_lock", "tid_memory_permalock",
      "file_0_memory_write_lock", "file_0_memory_permalock">>

select_command_encode ==
    <<Const(10, 4), Field("target", 3), Field("action", 3), Field("memory_bank", 2),
      Ebv("bit_pointer"), Field("bit_count", 8), Span("mask"), Field("truncate", 1)>>
read_command_encode ==
    <<Const(194, 8), Field("memory_bank", 2), Ebv("word_pointer"), Field("word_count", 8)>>
write_command_encode ==
    <<Const(195, 8), Field("memory_bank", 2), Ebv("word_pointer"), Field("data", 16)>>
kill_command_encode == <<Const(196, 8), Field("password", 16), Const(0, 3)>>
lock_command_encode ==
    <<Const(197, 8)>> \o [i \in 1 .. Len(LockFlags) |-> Field(LockFlags[i], 1)]
access_command_encode == <<Const(198, 8), Field("password", 16)>>
block_write_command_encode ==
    <<Const(199, 8), Field("memory_bank", 2), Ebv("word_pointer"),
      Field("word_count", 8), Span("data")>>
block_permalock_command_encode ==
    <<Const(201, 8), Const(0, 8), Field("read_lock", 1), Field("memory_bank", 2),
      Ebv("block_pointer"), Field("block_range", 8), Span("mask")>>
authenticate_command_encode ==
    <<Const(213, 8), Const(0, 2), Field("send_rep", 1), Field("inc_rep_len", 1),
      Field("csi", 8), Field("length", 12), Span("message")>>
margin_read_command_encode ==
    <<Const(57345, 16), Field("memory_bank", 2), Ebv("bit_pointer"),
      Field("bit_length", 8), Span("mask")>>

gen2_command_encode_table ==
    [Gen2Select |-> select_command_encode, Gen2Read |-> read_command_encode,
     Gen2Write |-> write_command_encode, Gen2Kill_1 |-> kill_command_encode,
     Gen2Kill_2 |-> kill_command_encode, Gen2Lock |-> lock_command_encode,
     Gen2Access |-> access_command_encode, Gen2BlockWrite |-> block_write_command_encode,
     Gen2BlockPermalock |-> block_permalock_command_encode,
     Gen2Authenticate |-> authenticate_command_encode,
     Gen2MarginRead |-> margin_read_command_encode]
Commands == DOMAIN gen2_command_encode_table

(* A value too big for its field makes bit_pack() return 0: the length no  *)
(* longer comes out and the encoder reports an error by a length of 0.     *)
bit_pack(value, count) == IF Shifted(value, count) = 0 THEN BitsOf(value, count) ELSE << >>
Packed(step, args) ==
    CASE step.kind = "const" -> bit_pack(step.value, step.width)
      [] step.kind = "field" -> bit_pack(args[step.name], step.width)
      [] step.kind = "ebv"   -> bit_pack_ebv(args[step.name])
      [] step.kind = "span"  -> args[step.name]
BitLen(step, args) ==
    CASE step.kind = "ebv"  -> get_ebv_bit_len(args[step.name])
      [] step.kind = "span" -> Len(args[step.name])
      [] OTHER              -> step.width
Encodes(step, args) ==
    /\ step.kind \in {"ebv", "span", "field"} => step.name \in DOMAIN args
    /\ Len(Packed(step, args)) = BitLen(step, args)
encode_gen2_command(spec) ==
    LET steps == gen2_command_encode_table[spec.command]
        laid[n \in 0 .. Len(steps)] ==
            IF n = 0 THEN << >> ELSE laid[n - 1] \o Packed(steps[n], spec.args)
    IN IF \A n \in DOMAIN steps : Encodes(steps[n], spec.args) THEN laid[Len(steps)] ELSE << >>

-----------------------------------------------------------------------------
(* The decoders.  A step skips bits, or pulls a field, an EBV or the span: *)
(* what is left but for "tail" bits.                                       *)
Skip(width) == [kind |-> "skip", name |-> "", width |-> width]
Rest(name, tail) == [kind |-> "rest", name |-> name, width |-> tail]

select_command_decode ==
    <<Skip(4), Field("target", 3), Field("action", 3), Field("memory_bank", 2),
      Ebv("bit_pointer"), Field("bit_count", 8), Rest("mask", 1), Field("truncate", 1)>>
read_command_decode ==
    <<Skip(8), Field("memory_bank", 2), Ebv("word_pointer"), Field("word_count", 8)>>
write_command_decode ==
    <<Skip(8), Field("memory_bank", 2), Ebv("word_pointer"), Field("data", 16)>>
kill_command_decode == <<Skip(8), Field("password", 16), Skip(3)>>
lock_command_decode == <<Skip(8)>> \o [i \in 1 .. Len(LockFlags) |-> Field(LockFlags[i], 1)]
access_command_decode == <<Skip(8), Field("password", 16)>>
block_write_command_decode ==
    <<Skip(8), Field("memory_bank", 2), Ebv("word_pointer"), Field("word_count", 8),
      Rest("data", 0)>>
block_permalock_command_decode ==
    <<Skip(8), Skip(8), Field("read_lock", 1), Field("memory_bank", 2),
      Ebv("block_pointer"), Field("block_range", 8), Rest("mask", 0)>>
authenticate_command_decode ==
    <<Skip(8), Skip(2), Field("send_rep", 1), Field("inc_rep_len", 1), Field("csi", 8),
      Field("length", 12), Rest("message", 0)>>
(* A mistake: the identifier of the command taken for eight bits. *)
margin_read_of_eight ==
    <<Skip(8), Field("memory_bank", 2), Ebv("bit_pointer"), Field("bit_length", 8),
      Rest("mask", 0)>>
margin_read_command_decode ==
    <<Skip(16), Field("memory_bank", 2), Ebv("bit_pointer"), Field("bit_length", 8),
      Rest("mask", 0)>>

gen2_command_decode_table ==
    [Gen2Select |-> select_command_decode, Gen2Read |-> read_command_decode,
     Gen2Write |-> write_command_decode, Gen2Kill_1 |-> kill_command_decode,
     Gen2Kill_2 |-> kill_command_decode, Gen2Lock |-> lock_command_decode,
     Gen2Access |-> access_command_decode, Gen2BlockWrite |-> block_write_command_decode,
     Gen2BlockPermalock |-> block_permalock_command_decode,
     Gen2Authenticate |-> authenticate_command_decode,
     Gen2MarginRead |-> margin_read_command_decode]

le_bytes_to_uint16(bits) == ValueOf(SubSeq(bits, 1, 16))
decode_command_type(bits) ==
    LET id == ValueOf(SubSeq(bits, 1, 8))
    IN CASE id \div 16 = 10 -> "Gen2Select"
         [] id = 194 -> "Gen2Read"           [] id = 195 -> "Gen2Write"
         [] id = 196 -> "Gen2Kill_1"         [] id = 197 -> "Gen2Lock"
         [] id = 198 -> "Gen2Access"         [] id = 199 -> "Gen2BlockWrite"
         [] id = 201 -> "Gen2BlockPermalock" [] id = 213 -> "Gen2Authenticate"
         [] OTHER -> IF le_bytes_to_uint16(bits) = 57345 THEN "Gen2MarginRead"
                     ELSE "_GEN2_COMMAND_MAX"

bit_unpack(bits, at, count) == ValueOf(SubSeq(bits, at + 1, at + count))
bit_unpack_msb(bits, at, count) == SubSeq(bits, at + 1, at + count)
Byte(value, index) == (value \div 256 ^ index) % 256

(* The third byte is asked for by byte 1 of an unpacking of eight bits,    *)
(* which has byte 0 alone: the answer is 1 or 2.                           *)
ebv_length_decode(bits, at) ==
    IF Byte(bit_unpack(bits, at, 8), 0) < 128 THEN 1
    ELSE IF Byte(bit_unpack(bits, at + 8, 8), 1) < 128 THEN 2 ELSE 3
bit_unpack_ebv(value, bytes) ==
    LET sum[i \in 0 .. bytes] ==
            IF i = 0 THEN 0 ELSE sum[i - 1] + (Byte(value, i - 1) % 128) * 128 ^ (i - 1)
    IN sum[bytes]

Pull(bits, state, step) ==
    LET put(value) == [a \in DOMAIN state.args \cup {step.name} |->
                          IF a = step.name THEN value ELSE state.args[a]]
        length == CASE step.kind = "ebv"  -> 8 * ebv_length_decode(bits, state.at)
                    [] step.kind = "rest" -> (Len(bits) - state.at - step.width) % 256
                    [] OTHER -> step.width
        word == bit_unpack(bits, state.at, length)
    IN [at |-> state.at + length,
        args |-> CASE step.kind = "skip"  -> state.args
                   [] step.kind = "field" -> put(word)
                   [] step.kind = "ebv"   -> put(bit_unpack_ebv(word, length \div 8))
                   [] step.kind = "rest"  -> put(bit_unpack_msb(bits, state.at, length))]

(* The arguments go to memory that keeps what it held: of rep_len_bits of  *)
(* Authenticate, which is not transmitted, whatever is there.              *)
decode_gen2_command(bits, rep_len_bits) ==
    LET command == decode_command_type(bits)
        steps == gen2_command_decode_table[command]
        state[n \in 0 .. Len(steps)] ==
            IF n = 0 THEN [at |-> 0, args |-> [rep_len_bits |-> rep_len_bits]]
            ELSE Pull(bits, state[n - 1], steps[n])
        args == state[Len(steps)].args
    IN [command |-> command,
        args |-> IF command = "Gen2Authenticate" THEN args
                 ELSE [a \in DOMAIN args \ {"rep_len_bits"} |-> args[a]]]

(* The arguments an application may give: of each field and EBV a number,  *)
(* of each span its bits.                                                  *)
IsTyped(spec) ==
    LET steps == gen2_command_encode_table[spec.command]
        fields == {n \in DOMAIN steps : steps[n].kind # "const"}
    IN /\ spec.command \in Commands
       /\ spec = [command |-> spec.command, args |-> spec.args]
       /\ spec.args = [a \in DOMAIN spec.args |-> spec.args[a]]
       /\ DOMAIN spec.args \subseteq {steps[n].name : n \in fields}
                \cup IF spec.command = "Gen2Authenticate" THEN {"rep_len_bits"} ELSE {}
       /\ \A n \in fields : steps[n].name \in DOMAIN spec.args =>
            spec.args[steps[n].name] \in IF steps[n].kind = "span" THEN Seq({0, 1}) ELSE Nat

-----------------------------------------------------------------------------
(* What the Ex10 is told of a command.                                     *)
Controls(response_type, has_header_bit, use_cover_code, append_handle, kill, rx_length) ==
    [response_type |-> response_type, has_header_bit |-> has_header_bit,
     use_cover_code |-> use_cover_code, append_handle |-> append_handle,
     is_kill_command |-> kill, rx_length |-> rx_length]
transaction_configs ==
    [Gen2Select         |-> Controls("None_", FALSE, FALSE, FALSE, FALSE, 0),
     Gen2Read           |-> Controls("Immediate", TRUE, FALSE, TRUE, FALSE, 33),
     Gen2Write          |-> Controls("Delayed", TRUE, TRUE, TRUE, FALSE, 33),
     Gen2Kill_1         |-> Controls("Immediate", FALSE, FALSE, TRUE, TRUE, 32),
     Gen2Kill_2         |-> Controls("Delayed", TRUE, FALSE, TRUE, TRUE, 33),
     Gen2Lock           |-> Controls("Delayed", TRUE, FALSE, TRUE, FALSE, 33),
     Gen2Access         |-> Controls("Immediate", FALSE, TRUE, TRUE, FALSE, 32),
     Gen2BlockWrite     |-> Controls("Delayed", TRUE, FALSE, TRUE, FALSE, 33),
     Gen2BlockPermalock |-> Controls("Delayed", TRUE, FALSE, TRUE, FALSE, 33),
     Gen2Authenticate   |-> Controls("InProcess", FALSE, FALSE, TRUE, FALSE, 41),
     Gen2MarginRead     |-> Controls("Immediate", TRUE, FALSE, TRUE, FALSE, 33)]

MoreBits(spec) ==
    CASE spec.command = "Gen2Read" -> spec.args.word_count * 16
      [] spec.command = "Gen2BlockPermalock" ->
            IF spec.args.read_lock = 0 THEN spec.args.block_range * 16 ELSE 0
      [] spec.command = "Gen2Authenticate" ->
            IF spec.args.send_rep = 0 THEN 0
            ELSE spec.args.rep_len_bits + IF spec.args.inc_rep_len = 1 THEN 16 ELSE 0
      [] OTHER -> 0
get_gen2_tx_control_config(spec) ==
    LET config == transaction_configs[spec.command]
    IN [config EXCEPT
            !.rx_length = (@ + MoreBits(spec)) % 65536,
            !.response_type = IF spec.command = "Gen2BlockPermalock"
                                 /\ spec.args.read_lock = 0 THEN "Immediate" ELSE @]

-----------------------------------------------------------------------------
(* The reply.  A packet has the status of the transaction, the number of   *)
(* bits received and their bytes; the header bit, where the Ex10 was told  *)
(* of one, is byte 0.                                                      *)
RepliesWithHeader ==
    {"Gen2Read", "Gen2MarginRead", "Gen2BlockPermalock", "Gen2Write", "Gen2Kill_2",
     "Gen2Lock", "Gen2BlockWrite"}
NoError == 16

general_reply_decode(num_bits, data) ==
    [w \in 1 .. (num_bits + 15) \div 16 |-> 256 * data[2 * w - 1] + data[2 * w]]
Reply(error, error_code, data) == [error |-> error, error_code |-> error_code, data |-> data]
decode_reply(command, packet) ==
    LET header == command \in RepliesWithHeader
        bits == packet.num_bits - (IF header THEN 1 ELSE 0)
                    + (IF command = "Gen2Authenticate" THEN 7 ELSE 0)
    IN IF packet.status # "Ok" THEN Reply(TRUE, 0, << >>)
       ELSE IF command = "Gen2Select" THEN Reply(TRUE, NoError, << >>)
       ELSE IF header /\ packet.num_bits < 9 THEN Reply(TRUE, NoError, << >>)
       ELSE IF header /\ packet.data[1] % 2 = 1 /\ packet.data[2] # NoError
            THEN Reply(TRUE, packet.data[2], << >>)
       ELSE Reply(FALSE, NoError,
                  general_reply_decode(bits, IF header THEN Tail(packet.data) ELSE packet.data))

=============================================================================
