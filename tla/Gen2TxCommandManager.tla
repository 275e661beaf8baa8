------------------------- MODULE Gen2TxCommandManager -------------------------
(***************************************************************************)
(* The list of Gen2 commands the host keeps, and what it writes of it to   *)
(* the Ex10 (gen2_tx_command_manager.c), with the helpers that use it      *)
(* (ex10_select_commands.c, send_single_halted_command()).                 *)
(*                                                                         *)
(* The list has slots.  write_sequence() packs the valid ones into the     *)
(* transmit buffer of the chip and writes, slot by slot, offset, length,   *)
(* transaction identifier and controls; three masks say which slots are    *)
(* sent when.  Results of register writes are ignored throughout.          *)
(***************************************************************************)
EXTENDS Gen2Commands, FiniteSets

CONSTANTS
    MaxTxCommandCount,          \* 10 in the source
    TxBufferBytes,              \* 128
    EncodeBytes,                \* TxCommandEncodeBufferSize: 40
    Applications,               \* the sets of commands that are used together
    TransactionIds,             \* and the identifiers it gives them
    RepLens,                    \* what memory may hold for rep_len_bits
    MaxCalls, MaxFailures       \* bounds

ManagerConstants ==
    /\ {MaxTxCommandCount, TxBufferBytes, EncodeBytes} \subseteq Nat \ {0}
    /\ {MaxCalls, MaxFailures} \subseteq Nat

VARIABLES
    encoded,                    \* commands of the application, with their bits
    local,                      \* the list of the host
    device,                     \* offsets, lengths, ids, controls and buffer
    enables,                    \* gen2_{select,access,auto_access}_enable
    result, cmd_index,          \* of the last call
    sent,                       \* the last halted sequence: asked for, sent
    meant, held,                \* command of a slot: of the list, of the chip
    checked,                    \* masks written for what the chip holds
    calls, failures,
    torn                        \* the last write_sequence() lost a transfer

vars == <<encoded, local, device, enables, result, cmd_index, sent, meant, held, checked,
          calls, failures, torn>>

Slots == 0 .. MaxTxCommandCount - 1
Masks == {"select", "access", "auto"}
Free == [valid |-> FALSE]
Command(bits, spec, id) == [valid |-> TRUE, bits |-> bits, spec |-> spec, id |-> id]
Nothing == [command |-> "_GEN2_COMMAND_MAX", args |-> << >>]
Meant(spec, id, again) == [spec |-> spec, id |-> id, again |-> again]
NotSent == [asked |-> Nothing, commands |-> {}, torn |-> FALSE]
NoOne == Meant(Nothing, 0, FALSE)
Zeros(n) == [i \in 1 .. n |-> 0]
NoSequence ==
    [offsets |-> [i \in Slots |-> 0], lengths |-> [i \in Slots |-> 0],
     ids |-> [i \in Slots |-> 0], controls |-> [i \in Slots |-> transaction_configs.Gen2Select],
     buffer |-> Zeros(8 * TxBufferBytes)]

Init ==
    /\ encoded \in {[spec \in app |-> encode_gen2_command(spec)] : app \in Applications}
    /\ local = [i \in Slots |-> Free] /\ device = NoSequence
    /\ enables = [m \in Masks |-> {}] /\ result = "ok" /\ cmd_index = 0 /\ sent = NotSent
    /\ meant = [i \in Slots |-> NoOne] /\ held = meant /\ checked = Masks
    /\ calls = 0 /\ failures = 0 /\ torn = FALSE

specs == DOMAIN encoded
Call == calls < MaxCalls /\ calls' = calls + 1 /\ UNCHANGED encoded
Returns(r, index) == result' = r /\ cmd_index' = index

-----------------------------------------------------------------------------
(* The list.                                                               *)
clear_local_sequence ==
    /\ Call /\ UNCHANGED <<result, cmd_index>>
    /\ local' = [i \in Slots |-> Free]
    /\ UNCHANGED <<device, enables, sent, meant, held, checked, failures, torn>>

clear_command_in_local_sequence(index) ==
    /\ Call
    /\ IF index \in Slots THEN Returns("ok", index) /\ local' = [local EXCEPT ![index] = Free]
       ELSE Returns("error", 0) /\ UNCHANGED local
    /\ UNCHANGED <<device, enables, sent, meant, held, checked, failures, torn>>

FreeSlots(list) == {i \in Slots : ~list[i].valid}
FirstFree(list) == CHOOSE i \in FreeSlots(list) : \A j \in FreeSlots(list) : i <= j

(* ex10_memcpy() is given the length in bits for a count of bytes, and     *)
(* refuses what is longer than the 40 bytes of a slot.  A decoded span is  *)
(* kept by value here; in the code it is one static buffer per decoder,    *)
(* which the next decoding overwrites, and only printing reads it.         *)
append_encoded_command(spec, id) ==
    LET bits == encoded[spec]
        fits == FreeSlots(local) # {} /\ Len(bits) <= EncodeBytes
        index == FirstFree(local)
    IN /\ Call /\ bits # << >>
       /\ IF fits
          THEN /\ Returns("ok", index)
               /\ \E rep_len \in RepLens :
                    local' = [local EXCEPT ![index] =
                                Command(bits, decode_gen2_command(bits, rep_len), id)]
               /\ meant' = [meant EXCEPT ![index] = Meant(spec, id, TRUE)]
          ELSE Returns("error", 0) /\ UNCHANGED <<local, meant>>
       /\ UNCHANGED <<device, enables, sent, held, checked, failures, torn>>

(* encode_and_append_command(), on a list. *)
CanAppend(list, spec) == FreeSlots(list) # {} /\ encoded[spec] # << >>
Appended(list, spec, id) ==
    [list EXCEPT ![FirstFree(list)] = Command(encoded[spec], spec, id)]

encode_and_append_command(spec, id) ==
    /\ Call
    /\ IF CanAppend(local, spec)
       THEN /\ Returns("ok", FirstFree(local))
            /\ local' = Appended(local, spec, id)
            /\ meant' = [meant EXCEPT ![FirstFree(local)] = Meant(spec, id, FALSE)]
       ELSE Returns("error", 0) /\ UNCHANGED <<local, meant>>
    /\ UNCHANGED <<device, enables, sent, held, checked, failures, torn>>

-----------------------------------------------------------------------------
(* The chip's copy.                                                        *)
(* A mistake: the bits that do not fill a byte forgotten. *)
byte_size_down(bits) == Len(bits) \div 8
byte_size(bits) == (Len(bits) + 7) \div 8
BytesOf(slot) == IF slot.valid THEN byte_size(slot.bits) ELSE 0
BytesBefore(list, index) ==
    LET before[i \in 0 .. MaxTxCommandCount] ==
            IF i = 0 THEN 0 ELSE before[i - 1] + BytesOf(list[i - 1])
    IN before[index]
Fits(list) ==
    \A i \in Slots : list[i].valid =>
        BytesBefore(list, i) + byte_size(list[i].bits) <= TxBufferBytes

(* The registers of the slots.  Controls of a slot that is not valid are   *)
(* never set; the chip ignores a slot of length 0.                         *)
Registers(list) ==
    [offsets  |-> [i \in Slots |-> IF list[i].valid THEN BytesBefore(list, i) ELSE 0],
     lengths  |-> [i \in Slots |-> IF list[i].valid THEN Len(list[i].bits) ELSE 0],
     ids      |-> [i \in Slots |-> IF list[i].valid THEN list[i].id ELSE 0],
     controls |-> [i \in Slots |-> IF list[i].valid
                                   THEN get_gen2_tx_control_config(list[i].spec)
                                   ELSE NoSequence.controls[i]]]
Copied(bits, first, buffer) ==
    [b \in DOMAIN buffer |->
        IF b - first \in DOMAIN bits THEN bits[b - first]
        ELSE IF b > first /\ b <= first + 8 * byte_size(bits) THEN 0 ELSE buffer[b]]
TxBuffer(list) ==
    LET filled[i \in 0 .. MaxTxCommandCount] ==
            IF i = 0 THEN Zeros(8 * TxBufferBytes)
            ELSE IF ~list[i - 1].valid THEN filled[i - 1]
            ELSE Copied(list[i - 1].bits, 8 * BytesBefore(list, i - 1), filled[i - 1])
    IN filled[MaxTxCommandCount]

(* Register writes that fail, unnoticed: those of a sequence, and masks.   *)
Transfers == {"registers", "buffer"}
Misses(writes) ==
    {missed \in SUBSET writes : failures + Cardinality(missed) <= MaxFailures}
Loses(missed) == failures' = failures + Cardinality(missed)

(* write_sequence() of a list, and which of its two transfers are lost.    *)
Written(list, missed) ==
    LET regs == IF "registers" \in missed THEN device ELSE Registers(list)
    IN [offsets |-> regs.offsets, lengths |-> regs.lengths, ids |-> regs.ids,
        controls |-> regs.controls,
        buffer |-> IF "buffer" \in missed THEN device.buffer ELSE TxBuffer(list)]
Write(list, means, missed) ==
    /\ device' = Written(list, missed)
    /\ held' = means
    /\ torn' = (missed # {})

write_sequence ==
    /\ Call
    /\ IF Fits(local)
       THEN /\ Returns("ok", cmd_index) /\ checked' = {}
            /\ \E missed \in Misses(Transfers) :
                    Loses(missed) /\ Write(local, meant, missed)
       ELSE Returns("error", cmd_index) /\ UNCHANGED <<device, held, checked, failures, torn>>
    /\ UNCHANGED <<local, enables, sent, meant>>

clear_sequence ==
    /\ Call /\ UNCHANGED <<result, cmd_index>>
    /\ \E missed \in Misses({"lengths"} \cup Masks) :
        /\ Loses(missed)
        /\ device' = IF "lengths" \in missed THEN device
                     ELSE [device EXCEPT !.lengths = NoSequence.lengths]
        /\ enables' = [m \in Masks |-> IF m \in missed THEN enables[m] ELSE {}]
        /\ checked' = Masks \ missed
    /\ UNCHANGED <<local, sent, meant, held, torn>>

(* init() sets pointers and clears the list.                               *)
init == clear_local_sequence

(* write_select_enables(), write_halted_enables() and                      *)
(* write_auto_access_enables(): the slots are checked against the list of  *)
(* the host.                                                               *)
get_is_select(command) == command = "Gen2Select"
Refused(list, mask, slots) ==
    {i \in slots : ~list[i].valid \/ get_is_select(list[i].spec.command) # (mask = "select")}
Holds(list) ==
    \A i \in Slots : (device.lengths[i] # 0) = list[i].valid /\ (list[i].valid => held[i] = meant[i])

write_enables(mask, slots) ==
    /\ Call
    /\ IF Refused(local, mask, slots) = {}
       THEN /\ Returns("ok", 0)
            /\ \E missed \in Misses({mask}) :
                /\ Loses(missed)
                /\ IF missed # {} THEN UNCHANGED <<enables, checked>>
                   ELSE /\ enables' = [enables EXCEPT ![mask] = slots]
                        /\ checked' = IF Holds(local) THEN checked \cup {mask}
                                      ELSE checked \ {mask}
       ELSE /\ \E i \in Refused(local, mask, slots) :
                    /\ \A j \in Refused(local, mask, slots) : i <= j
                    /\ Returns("error", i)
            /\ UNCHANGED <<enables, checked, failures>>
    /\ UNCHANGED <<local, device, sent, meant, held, torn>>

BitsOfSlot(i) ==
    SubSeq(device.buffer, 8 * device.offsets[i] + 1, 8 * device.offsets[i] + device.lengths[i])
(* A slot read back keeps the transaction identifier it had in the list.   *)
(* After a lost transfer the registers and the buffer do not belong        *)
(* together and decode to anything: no list is read back then.             *)
IdOf(i) == IF local[i].valid THEN local[i].id ELSE 0
read_device_to_local_sequence ==
    /\ Call /\ ~torn /\ Returns("ok", cmd_index)
    /\ \E rep_len \in RepLens :
        local' = [i \in Slots |->
            IF device.lengths[i] = 0 THEN Free
            ELSE Command(BitsOfSlot(i), decode_gen2_command(BitsOfSlot(i), rep_len), IdOf(i))]
    /\ meant' = [i \in Slots |-> [held[i] EXCEPT !.again = TRUE]]
    /\ UNCHANGED <<device, enables, sent, held, checked, failures, torn>>

-----------------------------------------------------------------------------
(* The helpers.                                                            *)
set_select_command(spec) ==
    /\ Call
    /\ IF ~CanAppend(local, spec)
       THEN Returns("error", 0) /\ UNCHANGED <<local, meant, device, held, checked, failures, torn>>
       ELSE LET index == FirstFree(local)
                list == Appended(local, spec, 0)
                means == [meant EXCEPT ![index] = Meant(spec, 0, FALSE)]
            IN /\ local' = list /\ meant' = means
               /\ IF Fits(list)
                  THEN /\ Returns("ok", index) /\ checked' = {}
                       /\ \E missed \in Misses(Transfers) :
                            Loses(missed) /\ Write(list, means, missed)
                  ELSE Returns("error", 0) /\ UNCHANGED <<device, held, checked, failures, torn>>
    /\ UNCHANGED <<enables, sent>>

(* The result of write_halted_enables() is ignored: the sequence is sent   *)
(* with the mask there was.                                                *)
send_single_halted_command(spec) ==
    LET empty == [i \in Slots |-> Free]
        index == FirstFree(empty)
        list == Appended(empty, spec, 0)
        means == [meant EXCEPT ![index] = Meant(spec, 0, FALSE)]
        appends == CanAppend(empty, spec)
        writes == appends /\ Fits(list)
        enabled == writes /\ Refused(list, "access", {index}) = {}
    IN /\ Call /\ Returns(IF writes THEN "ok" ELSE "error", 0)
       /\ local' = IF appends THEN list ELSE empty
       /\ meant' = IF appends THEN means ELSE meant
       /\ IF ~writes THEN UNCHANGED <<device, enables, held, checked, sent, failures, torn>>
          ELSE \E missed \in Misses(Transfers \cup (IF enabled THEN {"access"} ELSE {})) :
               LET masked == enabled /\ "access" \notin missed
               IN /\ Loses(missed) /\ Write(list, means, missed \ {"access"})
                  /\ enables' = IF masked THEN [enables EXCEPT !.access = {index}] ELSE enables
                  /\ checked' = IF masked THEN {"access"} ELSE {}
                  /\ sent' = [asked |-> spec, torn |-> missed # {}, commands |->
                       {held'[i].spec : i \in {j \in enables'.access : device'.lengths[j] # 0}}]

Next ==
    \/ clear_local_sequence \/ clear_sequence \/ write_sequence
    \/ read_device_to_local_sequence
    \/ \E index \in 0 .. MaxTxCommandCount : clear_command_in_local_sequence(index)
    \/ \E spec \in specs, id \in TransactionIds :
            append_encoded_command(spec, id) \/ encode_and_append_command(spec, id)
    \/ \E mask \in Masks, slots \in SUBSET Slots : write_enables(mask, slots)
    \/ \E spec \in specs : set_select_command(spec) /\ get_is_select(spec.command)
    \/ \E spec \in specs : send_single_halted_command(spec)

Spec == Init /\ [][Next]_vars

-----------------------------------------------------------------------------
(* Properties.                                                             *)

(* Arguments that are lost in the bits: the step of a kill, rep_len_bits,  *)
(* an EBV of more than two bytes (ebv_length_decode()) and a span of more  *)
(* bits than the decoders count in a byte (copy_bits).                     *)
IsExact(spec) ==
    LET steps == gen2_command_encode_table[spec.command]
    IN /\ spec.command \notin {"Gen2Kill_2", "Gen2Authenticate"}
       /\ \A n \in DOMAIN steps :
            /\ steps[n].kind = "ebv" => spec.args[steps[n].name] < 16384
            /\ steps[n].kind = "span" => Len(spec.args[steps[n].name]) < 256

(* Decoding gives back the command that was encoded: a slot of the list    *)
(* holds the arguments the application gave, appended as a specification,  *)
(* appended as bits or read back from the chip.                            *)
DecodeInvertsEncode ==
    \A i \in Slots : local[i].valid /\ IsExact(meant[i].spec) =>
        local[i].spec = meant[i].spec

(* gen2_commands.c:199, 263: "10000001 10000000 00000000 -> 16384", said by   *)
(* the encoder and by the decoder: also for pointers of three bytes.       *)
LongPointersDecode ==
    \A i \in Slots : local[i].valid
        /\ meant[i].spec.command \notin {"Gen2Kill_2", "Gen2Authenticate"} =>
            local[i].spec = meant[i].spec

(* What the chip would transmit for a slot is the command the application  *)
(* gave for it, whatever was cleared, rewritten, read back or refused in   *)
(* between, as long as no transfer was lost; with its identifier and       *)
(* controls unless the list was read back (the identifiers are not).       *)
ChipHoldsWhatWasMeant ==
    ~torn => \A i \in Slots : device.lengths[i] # 0 =>
        /\ BitsOfSlot(i) = encoded[held[i].spec]
        /\ ~held[i].again => device.ids[i] = held[i].id
        /\ ~held[i].again \/ IsExact(held[i].spec) =>
                device.controls[i] = get_gen2_tx_control_config(held[i].spec)

(* A mask written for the sequence the chip holds names slots that hold a  *)
(* command of its kind: selects for the select operation, others for       *)
(* access.  (write_sequence() leaves the masks: until they are written     *)
(* again they may name anything.)                                          *)
MasksNameTheirKind ==
    \A m \in checked, i \in Slots : i \in enables[m] /\ ~torn =>
        /\ device.lengths[i] # 0
        /\ (held[i].spec.command = "Gen2Select") = (m = "select")

(* A tag's answer is read as what it is: the error bit where the command's *)
(* replies have one, and the words of the payload, from a packet the Ex10  *)
(* lays out as the controls of the slot say, padded to a word.             *)
TagSendsHeader ==
    {"Gen2Read", "Gen2Write", "Gen2Kill_2", "Gen2Lock", "Gen2BlockWrite",
     "Gen2BlockPermalock", "Gen2MarginRead"}
Words(spec) ==
    2 + CASE spec.command = "Gen2Read" -> spec.args.word_count
          [] spec.command = "Gen2BlockPermalock" ->
                IF spec.args.read_lock = 0 THEN spec.args.block_range ELSE 0
          [] OTHER -> 0
Packet(controls, header, bytes) ==
    [status |-> "Ok",
     num_bits |-> IF header = 1 THEN 9 + 32 ELSE controls.rx_length,
     data |-> (IF controls.has_header_bit THEN <<header>> ELSE << >>) \o bytes \o <<0, 0>>]
PayloadWord(w) == (513 * w) % 65536
Payload(spec) == [w \in 1 .. Words(spec) |-> PayloadWord(w)]
PayloadBytes(spec) ==
    [b \in 1 .. 2 * Words(spec) |-> Byte(Payload(spec)[(b + 1) \div 2], b % 2)]
AnswerIsRead(spec, controls) ==
    /\ (spec.command \in TagSendsHeader) = controls.has_header_bit
    /\ decode_reply(spec.command, Packet(controls, 0, PayloadBytes(spec))) =
            Reply(FALSE, NoError, Payload(spec))
    /\ controls.has_header_bit =>
            \A code \in {0, 4, 15} :
                decode_reply(spec.command, Packet(controls, 1, << code, 0, 0, 0, 0 >>)) =
                    Reply(TRUE, code, << >>)
AnswersAreRead ==
    ~torn => \A i \in Slots :
        /\ device.lengths[i] # 0
        /\ held[i].spec.command \notin {"Gen2Select", "Gen2Authenticate"}
        /\ ~held[i].again \/ IsExact(held[i].spec)
        => AnswerIsRead(held[i].spec, device.controls[i])

(* send_single_halted_command() makes the chip send the command it is      *)
(* given and no other, if that is not a select and no transfer was lost.   *)
SentAlone ==
    ~sent.torn /\ sent # NotSent /\ sent.asked.command # "Gen2Select" =>
        sent.commands = {sent.asked}

=============================================================================
