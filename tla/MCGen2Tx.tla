------------------------------- MODULE MCGen2Tx -------------------------------
(* Model-checking instance of Gen2TxCommandManager: pointers of three bytes. *)
EXTENDS Gen2TxCommandManager

Select(pointer, mask) ==
    [command |-> "Gen2Select",
     args |-> [target |-> 4, action |-> 1, memory_bank |-> 1, bit_pointer |-> pointer,
               bit_count |-> Len(mask), mask |-> mask, truncate |-> 1]]
Read(pointer, count) ==
    [command |-> "Gen2Read",
     args |-> [memory_bank |-> 3, word_pointer |-> pointer, word_count |-> count]]
LongPointers == {{Read(16383, 1), Read(16384, 1), Select(70000, <<1>>)}}
=============================================================================
