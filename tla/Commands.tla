------------------------------- MODULE Commands -------------------------------
(***************************************************************************)
(* The commands of the host interface (commands.c): how the registers of a *)
(* read or a write are spread over commands and responses of Burst bytes,  *)
(* how the event FIFO is read in pieces and given packets, and the         *)
(* commands that are a single transfer.  The Ex10 at the other end does    *)
(* what a command that arrives says; a transfer may fail before or after   *)
(* that, or be answered with an error.                                     *)
(*                                                                         *)
(* A register is its address and length; one of no length is left out.     *)
(* Descriptors stand for their four bytes.                                 *)
(***************************************************************************)
EXTENDS EventPackets, FiniteSetsExt
CONSTANTS
    Burst,               \* EX10_SPI_BURST_SIZE
    MinRoom,             \* the 16 bytes of room command_write() asks for
    AddressLimit,        \* UINT16_MAX
    MaxCommand,          \* EX10_BOOTLOADER_MAX_COMMAND_SIZE
    Reads, Writes,       \* the lists of registers read and written
    Events,              \* the packets inserted or logged
    DataLengths,         \* of the commands of a single transfer
    MaxFifo,             \* the bytes of the event FIFO that are looked at
    MaxCalls, MaxFailures

CommandsConstants ==
    /\ {Burst, MinRoom, AddressLimit, MaxCommand, MaxFifo, MaxCalls, MaxFailures} \subseteq Nat
    /\ 5 + MinRoom <= Burst /\ Burst <= MaxCommand

VARIABLES
    memory,      \* of the Ex10: the byte of every address
    fifo,        \* the bytes of its event FIFO
    logged,      \* the packets put there, oldest first
    expected,    \* those that were there when it was last asked for its length
    intact,      \* whether every byte taken from the FIFO reached the host
    call,        \* the call under way, with its list and how it came out
    at,          \* how far it is: segment, offset in it, place in the buffers
    command,     \* descriptors in the command buffer
    sent,        \* what the last transfer was: bytes out and in
    buffers,     \* the bytes given to or by the caller
    before,      \* the memory when the call began
    calls, failures
vars == <<memory, fifo, logged, intact, expected, call, at, command, sent, buffers, before, calls, failures>>

Register(address, length) == [address |-> address, length |-> length]
DescriptorLength == 4            \* sizeof(struct Ex10ReadFormat)
CodeLength == 1                  \* command_code_length, response_code_length
Smaller(a, b) == IF a < b THEN a ELSE b
Initial(address) == address
Written(address) == 1000 + address
None == [kind |-> "none", regs |-> << >>, result |-> "success"]
Nowhere == [segment |-> 1, offset |-> 0, response |-> CodeLength]

Init ==
    /\ memory = [a \in 0 .. AddressLimit |-> Initial(a)]
    /\ fifo = << >> /\ logged = << >> /\ intact = TRUE /\ expected = << >>
    /\ call = None /\ at = Nowhere /\ command = << >> /\ buffers = << >>
    /\ sent = [out |-> 0, in |-> 0]
    /\ before = memory /\ calls = 0 /\ failures = 0

Chip == <<memory, fifo, logged, intact, expected>>
check_buffer_reg(reg) == reg.address + reg.length <= AddressLimit

Start(kind, regs, given) ==
    /\ call.kind = "none" /\ calls < MaxCalls
    /\ call' = [kind |-> kind, regs |-> regs, result |-> "busy"]
    /\ calls' = calls + 1
    /\ at' = Nowhere /\ command' = << >> /\ buffers' = given /\ before' = memory
    /\ UNCHANGED <<sent, failures>>
Finish(result) == call' = [call EXCEPT !.result = result]
(* The caller has the outcome, and may call again.                         *)
Return ==
    /\ call.result \notin {"busy"} /\ call.kind # "none"
    /\ call' = None /\ buffers' = << >> /\ command' = << >> /\ at' = Nowhere
    /\ before' = memory /\ sent' = [out |-> 0, in |-> 0]
    /\ UNCHANGED <<Chip, calls, failures>>
Busy(kind) == call.kind = kind /\ call.result = "busy"

(* A transfer of so many bytes: it succeeds, or fails before or after the  *)
(* Ex10 has acted, or the Ex10 refuses.                                    *)
Outcomes == {"success", "not sent", "not answered", "refused"}
Acted(outcome) == outcome \in {"success", "not answered"}
Transfer(outcome, out, in) ==
    /\ outcome # "success" => failures < MaxFailures
    /\ failures' = failures + IF outcome = "success" THEN 0 ELSE 1
    /\ sent' = [out |-> out, in |-> in]

-----------------------------------------------------------------------------
(* command_read()                                                          *)
DescribedLength == FoldLeft(LAMBDA sum, d : sum + d.length, 0, command)
CommandOffset == CodeLength + DescriptorLength * Len(command)
read_segments_ready == at.segment > Len(call.regs)
command_buffer_full == CommandOffset + DescriptorLength > Burst
response_buffer_full == at.response >= Burst
ReadIsReady ==
    command # << >> /\ (read_segments_ready \/ command_buffer_full \/ response_buffer_full)

command_read ==
    /\ \E regs \in Reads : Start("read", regs, [i \in 1 .. Len(regs) |-> << >>])
    /\ UNCHANGED Chip

(* A mistake: the bytes already asked for forgotten. *)
ReadLengthAlone(remaining) == Smaller(remaining, Burst - CodeLength)
ReadLength(remaining) == Smaller(remaining, Burst - at.response)
FormatRead ==
    /\ Busy("read") /\ ~read_segments_ready /\ ~ReadIsReady
    /\ LET reg == call.regs[at.segment]
           length == ReadLength(reg.length - at.offset)
           whole == at.offset + length >= reg.length
       IN IF ~check_buffer_reg(reg)
          THEN Finish("BadParamValue") /\ UNCHANGED <<at, command>>
          ELSE /\ command' = Append(command, Register(reg.address + at.offset, length))
               /\ at' = [segment |-> at.segment + IF whole THEN 1 ELSE 0,
                         offset |-> IF whole THEN 0 ELSE at.offset + length,
                         response |-> at.response + length]
               /\ UNCHANGED call
    /\ UNCHANGED <<Chip, sent, buffers, before, calls, failures>>

(* The bytes of a response go into the buffers in turn, each filled to the *)
(* length of its register.                                                 *)
Place(regs, given, byte) ==
    LET index == Min({i \in 1 .. Len(regs) : Len(given[i]) < regs[i].length})
    IN [given EXCEPT ![index] = Append(@, byte)]
Answer == FlattenSeq([i \in 1 .. Len(command) |->
                         [k \in 1 .. command[i].length |-> memory[command[i].address + k - 1]]])
SendRead ==
    /\ Busy("read") /\ ReadIsReady
    /\ \E outcome \in Outcomes :
        /\ Transfer(outcome, CommandOffset, at.response)
        /\ IF outcome # "success"
           THEN Finish(outcome) /\ UNCHANGED <<at, command, buffers>>
           ELSE /\ buffers' = FoldLeft(LAMBDA given, byte : Place(call.regs, given, byte),
                                       buffers, Answer)
                /\ command' = << >>
                /\ at' = [at EXCEPT !.response = CodeLength]
                /\ IF read_segments_ready THEN Finish("success") ELSE UNCHANGED call
    /\ UNCHANGED <<Chip, before, calls>>

-----------------------------------------------------------------------------
(* command_write()                                                         *)
Given(reg) == [k \in 1 .. reg.length |-> Written(reg.address + k - 1)]
command_write ==
    /\ \E regs \in Writes : Start("write", regs, [i \in 1 .. Len(regs) |-> Given(regs[i])])
    /\ UNCHANGED Chip

CommandUsed == CommandOffset + DescribedLength
HasRoom == CommandUsed + DescriptorLength + MinRoom <= Burst
WriteRefused == at.offset = 0 /\ ~check_buffer_reg(call.regs[at.segment])
RefuseWrite ==
    /\ Busy("write") /\ ~read_segments_ready /\ WriteRefused
    /\ Finish("BadParamValue")
    /\ UNCHANGED <<Chip, at, command, sent, buffers, before, calls, failures>>
FormatWrite ==
    /\ Busy("write") /\ ~read_segments_ready /\ ~WriteRefused /\ HasRoom
    /\ LET reg == call.regs[at.segment]
           length == Smaller(Burst - (CommandUsed + DescriptorLength), reg.length - at.offset)
           whole == at.offset + length = reg.length
       IN /\ command' = Append(command, Register(reg.address + at.offset, length)
                               @@ [payload |-> SubSeq(buffers[at.segment], at.offset + 1,
                                                      at.offset + length)])
          /\ at' = [at EXCEPT !.segment = @ + IF whole THEN 1 ELSE 0,
                              !.offset = IF whole THEN 0 ELSE @ + length]
    /\ UNCHANGED <<Chip, call, sent, buffers, before, calls, failures>>

(* A write has no response: what the Ex10 refuses, the host does not hear. *)
Store(mem, d) ==
    [a \in DOMAIN mem |-> IF a \in d.address .. d.address + d.length - 1
                          THEN d.payload[a - d.address + 1] ELSE mem[a]]
SendWrite ==
    /\ Busy("write") /\ ~(~read_segments_ready /\ (WriteRefused \/ HasRoom))
    /\ IF command = << >>
       THEN Finish("success") /\ UNCHANGED <<Chip, command, sent, failures>>
       ELSE \E outcome \in Outcomes \ {"refused"} :
        /\ Transfer(outcome, CommandUsed, 0)
        /\ memory' = IF Acted(outcome) THEN FoldLeft(Store, memory, command) ELSE memory
        /\ command' = << >>
        /\ IF outcome # "success" THEN Finish(outcome)
           ELSE IF read_segments_ready THEN Finish("success") ELSE UNCHANGED call
        /\ UNCHANGED <<fifo, logged, intact, expected>>
    /\ UNCHANGED <<at, buffers, before, calls>>

-----------------------------------------------------------------------------
(* command_read_fifo(): pieces of a burst less the response code, each     *)
(* received from the byte before its place on; that byte is restored when  *)
(* the piece is good.  The length is the one the Ex10 gave.                *)
Disturbed == -1
command_read_fifo ==
    /\ fifo # << >>
    /\ Start("read_fifo", <<Register(0, Len(fifo))>>, << << >> >>)
    /\ expected' = logged /\ logged' = << >>
    /\ UNCHANGED <<memory, fifo, intact>>

data == buffers[1]
fifo_bytes_remaining == call.regs[1].length - at.offset
FifoLength == Smaller(fifo_bytes_remaining, Burst - CodeLength)
(* What a response that is not good leaves of the last byte before it.     *)
WithoutLast(bytes) == IF bytes = << >> THEN bytes ELSE Front(bytes) \o <<Disturbed>>
ReadFifo ==
    /\ Busy("read_fifo")
    /\ IF fifo_bytes_remaining = 0
       THEN Finish("success") /\ UNCHANGED <<Chip, at, sent, buffers, failures>>
       ELSE \E outcome \in Outcomes :
        /\ Transfer(outcome, 2 * CodeLength + Word, CodeLength + FifoLength)
        /\ IF Acted(outcome)
           THEN fifo' = SubSeq(fifo, FifoLength + 1, Len(fifo))
           ELSE UNCHANGED fifo
        /\ intact' = (intact /\ outcome = "success")
        /\ IF outcome = "success"
           THEN /\ buffers' = <<data \o SubSeq(fifo, 1, FifoLength)>>
                /\ at' = [at EXCEPT !.offset = @ + FifoLength]
                /\ UNCHANGED call
           ELSE /\ Finish(outcome)
                /\ buffers' = IF outcome = "not sent" THEN buffers ELSE <<WithoutLast(data)>>
                /\ UNCHANGED at
        /\ UNCHANGED <<memory, logged, expected>>
    /\ UNCHANGED <<command, before, calls>>

(* A packet reaches the event FIFO: the Ex10 logs one itself, or is sent   *)
(* one with its space and its length padded (command_insert_fifo_event()). *)
(* One that does not fit the FIFO is left out; those the host inserts are  *)
(* small.                                                                  *)
Fits(packet) == Len(fifo) + PacketBytes(packet) <= MaxFifo
Log(packet) ==
    /\ fifo' = fifo \o create_fifo_event(packet)
    /\ logged' = Append(logged, packet)
Ex10Logs ==
    /\ calls < MaxCalls /\ calls' = calls + 1
    /\ \E packet \in Events : Fits(packet) /\ Log(packet)
    /\ UNCHANGED <<memory, intact, expected, call, at, command, sent, buffers, before, failures>>
Complete(kind, outcome) ==
    /\ call.kind = "none" /\ calls < MaxCalls /\ calls' = calls + 1
    /\ call' = [kind |-> kind, regs |-> << >>, result |-> outcome]
    /\ UNCHANGED <<at, command, buffers, before>>
command_insert_fifo_event ==
    \/ \E packet \in Events, outcome \in Outcomes \ {"refused"} :
        /\ Fits(packet) /\ 2 * CodeLength + PacketBytes(packet) <= Burst
        /\ Complete("insert_fifo_event", outcome)
        /\ Transfer(outcome, 2 * CodeLength + PacketBytes(packet), 0)
        /\ IF Acted(outcome) THEN Log(packet) ELSE UNCHANGED <<fifo, logged>>
        /\ UNCHANGED <<memory, intact, expected>>
    \/ \E outcome \in Outcomes \ {"refused"} :       \* no packet: an interrupt only
        /\ Complete("insert_fifo_event", outcome)
        /\ Transfer(outcome, 2 * CodeLength, 0)
        /\ UNCHANGED Chip

-----------------------------------------------------------------------------
(* The commands of a single transfer: the bytes around the data, those of  *)
(* the response, and what is accepted.  The data of an upload has to fit   *)
(* command_buffer too, which ex10_memcpy() sees to.                        *)
MaxImageChunk == MaxCommand - 2
Single(out, in, accepted) == [out |-> out, in |-> in, accepted |-> accepted]
command_write_info_page(length) ==
    Single(length + 4, CodeLength, length + 4 <= MaxCommand)
command_start_upload(length) ==
    Single(length + 2, 0, length < MaxImageChunk - 1 /\ length <= Burst - 2)
command_continue_upload(length) ==
    Single(length + 1, 0, length < MaxImageChunk /\ length <= Burst - 1)
command_complete_upload(length) == Single(1, 0, TRUE)
command_revalidate_main_image(length) == Single(1, 0, TRUE)
command_reset(length) == Single(2, 0, TRUE)
command_test_read(length) ==
    Single(7, CodeLength + length, length % 4 = 0 /\ CodeLength + length <= Burst)
test_transfer(length) == Single(CodeLength + length, CodeLength + length, length < Burst)
SingleCommands(length) ==
    [write_info_page |-> command_write_info_page(length),
     start_upload |-> command_start_upload(length),
     continue_upload |-> command_continue_upload(length),
     complete_upload |-> command_complete_upload(length),
     revalidate_main_image |-> command_revalidate_main_image(length),
     reset |-> command_reset(length), test_read |-> command_test_read(length),
     test_transfer |-> test_transfer(length)]
SingleTransfer ==
    \E length \in DataLengths, kind \in DOMAIN SingleCommands(0) :
        LET single == SingleCommands(length)[kind] IN
        /\ IF ~single.accepted
           THEN Complete(kind, "BadParamLength") /\ UNCHANGED <<sent, failures>>
           ELSE \E outcome \in Outcomes :
                /\ single.in = 0 => outcome # "refused"
                /\ Complete(kind, outcome)
                /\ Transfer(outcome, single.out, single.in)
        /\ UNCHANGED Chip

Next ==
    \/ Return
    \/ command_read \/ FormatRead \/ SendRead
    \/ command_write \/ RefuseWrite \/ FormatWrite \/ SendWrite
    \/ command_read_fifo \/ ReadFifo
    \/ Ex10Logs \/ command_insert_fifo_event
    \/ SingleTransfer
Spec == Init /\ [][Next]_vars

-----------------------------------------------------------------------------
(* The commands.h promise of read(): a list of buffers filled with the     *)
(* segments read.  Also in between each buffer holds the start of its      *)
(* register and nothing of another's.                                      *)
Holds(given, reg) ==
    /\ Len(given) <= reg.length
    /\ \A i \in 1 .. Len(given) : given[i] = memory[reg.address + i - 1]
BuffersAreTheRegisters ==
    call.kind = "read" =>
        \A i \in 1 .. Len(call.regs) :
            /\ Holds(buffers[i], call.regs[i])
            /\ call.result = "success" => Len(buffers[i]) = call.regs[i].length

(* A write stores all the bytes given, in the order of the list, or stops  *)
(* after some of them: it skips none, and changes no other byte.           *)
AddressesOf(regs) == FlattenSeq([i \in 1 .. Len(regs) |->
                              [k \in 1 .. regs[i].length |-> regs[i].address + k - 1]])
StoredUpTo(n) ==
    LET order == AddressesOf(call.regs)
    IN /\ \A i \in 1 .. n : memory[order[i]] = Written(order[i])
       /\ \A i \in n + 1 .. Len(order) : memory[order[i]] = before[order[i]]
WritesAreInOrder ==
    call.kind = "write" /\ call.result # "busy" =>
        LET all == Len(AddressesOf(call.regs)) IN
        /\ \A a \in DOMAIN memory :
              memory[a] = before[a] \/ \E reg \in Range(call.regs) :
                                         a \in reg.address .. reg.address + reg.length - 1
        /\ IF call.result = "success" THEN StoredUpTo(all) ELSE \E n \in 0 .. all : StoredUpTo(n)

(* Every command and response fits a burst, whatever the data (SPI burst:  *)
(* ex10_api/board_spec.h); the page of flash alone is sent as one command  *)
(* of the bootloader.                                                      *)
TransfersFit ==
    /\ sent.in <= Burst
    /\ sent.out <= IF call.kind = "write_info_page" THEN MaxCommand ELSE Burst
(* What a caller reads is what the registers hold, and what it writes they *)
(* hold afterwards, however the lists are spread over transfers.           *)
TransfersAreFaithful == BuffersAreTheRegisters /\ WritesAreInOrder /\ TransfersFit

(* Packets that were written to the event FIFO are parsed as they were,    *)
(* padded to words, and no other is found between them: whatever pieces    *)
(* the FIFO was read in, as long as no piece was lost.                     *)
Padded(packet) ==
    [packet EXCEPT !.dynamic_data = @ \o [i \in 1 .. PaddingBytes(packet) |-> Padding]]
PacketsAreParsed ==
    intact => Packets(data) = [i \in DOMAIN expected |-> Padded(expected[i])]
TagRepliesAreParsed ==
    TagFieldsAreFound(0) /\ TagFieldsAreFound(6) /\ FieldsLieInReply({0, 6, 16})
(* The packets of the event FIFO and the parts of a tag's reply are found  *)
(* as they were put there, padded packets and pieces of the FIFO included. *)
EventsSurvive ==
    call.kind = "read_fifo" /\ call.result = "success" => PacketsAreParsed /\ TagRepliesAreParsed
=============================================================================
