---------------------------- MODULE UseCasesProofs ----------------------------
(***************************************************************************)
(* Proofs about UseCases: the invariants of each use case hold as long as  *)
(* it is the one that was chosen, which it is throughout.                  *)
(***************************************************************************)
EXTENDS UseCases, FiniteSetTheorems, SequenceTheorems, TLAPS

(* A step is one of the chosen use case. *)
LEMMA ChosenStep ==
    ASSUME [Next]_vars
    PROVE  /\ use_case' = use_case
           /\ use_case = "tag_access" => TA!Next \/ UNCHANGED TA!vars
           /\ use_case = "power_sweep" => PS!Next \/ UNCHANGED PS!vars
           /\ use_case = "fast_tag_tracking" => FT!Next \/ UNCHANGED FT!vars
           /\ use_case = "activity_sequence" => AS!Next \/ UNCHANGED AS!vars
<1>1. CASE TagAccess /\ TA!Next
  BY <1>1 DEF TagAccess
<1>2. CASE PowerSweep /\ PS!Next
  BY <1>2 DEF PowerSweep
<1>3. CASE FastTagTracking /\ FT!Next
  BY <1>3 DEF FastTagTracking
<1>4. CASE ActivitySequence /\ AS!Next
  BY <1>4 DEF ActivitySequence
<1>5. CASE UNCHANGED vars
  <2> USE <1>5 DEF vars, TA!vars, TA!chip, TA!callback, TA!ghosts, OthersOfTA
  <2>1. use_case' = use_case
    OBVIOUS
  <2>2. UNCHANGED TA!vars
    OBVIOUS
  <2>3. UNCHANGED PS!vars
    BY DEF PS!vars, PS!chip, PS!sweep, PS!inventory_state, PS!run, PS!account
  <2>4. UNCHANGED FT!vars
    BY DEF FT!vars, FT!run, FT!fields, FT!flags, FT!counters, FT!inventory
  <2>5. UNCHANGED AS!vars
    BY DEF AS!vars, AS!chip, AS!walk, AS!power, AS!publish, AS!counts
  <2>6. QED
    BY <2>1, <2>2, <2>3, <2>4, <2>5
<1>6. QED
  BY <1>1, <1>2, <1>3, <1>4, <1>5 DEF Next

-----------------------------------------------------------------------------
(* Fast tag tracking: how often each CRC was read is kept for those that   *)
(* are new, and an only run stops for a cause of its own.                  *)
TrackingSeen ==
    /\ known \subseteq Crcs /\ new \subseteq Crcs /\ reported \subseteq Crcs
    /\ seen \in [Crcs -> 0 .. 2]
    /\ \A c \in new : seen[c] >= 1
    /\ FT!NoiseIsNotReported

TrackingStops ==
    /\ round_count = 0 /\ runs \in {0, 1}
    /\ tracking_pc # "idle" =>
        /\ runs = 1 /\ stop_reason = "None"
        /\ stop_conditions \in TrackingConditions
    /\ runs = 0 => stop_reason = "None"
    /\ FT!StopsForCause

LEMMA TrackingSeenStep ==
    ASSUME TrackingSeen, FT!Next \/ UNCHANGED FT!vars
    PROVE  TrackingSeen'
<1> USE DEF FT!Fast, FT!NoiseIsNotReported, FT!fields, FT!inventory
<1>0. /\ known \subseteq Crcs /\ new \subseteq Crcs /\ reported \subseteq Crcs
      /\ seen \in [Crcs -> 0 .. 2]
      /\ \A c \in new : seen[c] >= 1
      /\ tracking_pc = "fast" => \A c \in reported : c \in known \/ seen[c] >= 2
  BY DEF TrackingSeen
<1>1. ASSUME new' = {}, seen' = FT!Never, known' \in {known, {}},
             reported' \in {reported, {}}, tracking_pc' # "fast"
      PROVE  TrackingSeen'
  BY <1>0, <1>1 DEF TrackingSeen, FT!Never
<1>2. ASSUME UNCHANGED <<new, seen>>, known' \in {known, {}},
             reported' \in {reported, {}}, tracking_pc' # "fast" \/ reported' = {}
      PROVE  TrackingSeen'
  BY <1>0, <1>2 DEF TrackingSeen
<1>3. ASSUME UNCHANGED <<known, new, seen, reported>>, tracking_pc' \in {tracking_pc, "idle"}
      PROVE  TrackingSeen'
  BY <1>0, <1>3 DEF TrackingSeen
<1>4. CASE FT!FastTagTrackingInventory
  <2>1. /\ known' \in {known, {}} /\ reported' \in {reported, {}} /\ tracking_pc' # "fast"
        /\ \/ UNCHANGED <<new, seen>>
           \/ new' = {} /\ seen' = FT!Never
    BY <1>4 DEF FT!FastTagTrackingInventory, FT!BeginFull, FT!Begins, FT!Return, FT!Empty
  <2>2. QED
    BY <1>1, <1>2, <2>1
<1>5. CASE FT!Delays \/ FT!CheckStopConditions \/ FT!Reset
  <2>1. UNCHANGED <<known, new, seen, reported>> /\ (tracking_pc' # "fast")
    BY <1>5 DEF FT!Delays, FT!CheckStopConditions, FT!Reset, FT!Return
  <2>2. QED
    BY <1>2, <2>1
<1>6. CASE FT!RunFastInventory
  <2>1. /\ UNCHANGED <<known, new, seen>> /\ reported' \in {reported, {}}
        /\ tracking_pc' # "fast" \/ reported' = {}
    BY <1>6 DEF FT!RunFastInventory, FT!Begins, FT!Return
  <2>2. QED
    BY <1>2, <2>1
<1>7. CASE FT!RoundEnds
  <2>1. CASE FT!Over
    <3>1. UNCHANGED <<known, reported>> /\ tracking_pc' # "fast"
      BY <1>7, <2>1 DEF FT!RoundEnds, FT!Full
    <3>2. (new' = {} /\ seen' = FT!Never) \/ UNCHANGED <<new, seen>>
      BY <1>7, <2>1 DEF FT!RoundEnds, FT!CountSummary, FT!Empty
    <3>3. QED
      BY <1>1, <1>2, <3>1, <3>2
  <2>2. CASE ~FT!Over
    <3>1. UNCHANGED <<known, new, seen, reported, tracking_pc>>
      BY <1>7, <2>2 DEF FT!RoundEnds
    <3>2. QED
      BY <1>3, <3>1
  <2>3. QED
    BY <2>1, <2>2
<1>8. CASE FT!Built \/ FT!Switch
  <2>1. /\ known' \in {known, {}} /\ reported' \in {reported, {}} /\ tracking_pc' # "fast"
        /\ \/ UNCHANGED <<new, seen>>
           \/ new' = {} /\ seen' = FT!Never
    BY <1>8 DEF FT!Built, FT!Switch, FT!BeginFull, FT!Begins, FT!Return, FT!Empty
  <2>2. QED
    BY <1>1, <1>2, <2>1
<1>9. ASSUME NEW crc \in Crcs, FT!FullEpcCallback(crc)
      PROVE  TrackingSeen'
  <2>1. /\ known' = known \cup {crc} /\ UNCHANGED <<new, seen, reported>>
        /\ tracking_pc # "fast" /\ tracking_pc' \in {tracking_pc, "idle"}
    BY <1>9 DEF FT!FullEpcCallback, FT!Full, FT!Client, FT!Return
  <2>2. QED
    BY <1>0, <2>1 DEF TrackingSeen
<1>10. ASSUME NEW crc \in Crcs, FT!FastInventoryCallback(crc)
       PROVE  TrackingSeen'
  <2>1. /\ tracking_pc = "fast" /\ known' = known
        /\ seen' = [seen EXCEPT ![crc] = IF @ < 2 THEN @ + 1 ELSE @]
        /\ \/ crc \in known \cup new /\ reported' = reported \cup {crc} /\ new' = new
           \/ new' = new \cup {crc} /\ reported' = reported
    BY <1>10 DEF FT!FastInventoryCallback
  <2>2. seen' \in [Crcs -> 0 .. 2]
    BY <1>0, <2>1
  <2>3. /\ \A c \in Crcs : seen'[c] >= seen[c]
        /\ seen'[crc] >= 1 /\ (seen[crc] >= 1 => seen'[crc] >= 2)
    BY <1>0, <2>1
  <2>4. \A c \in Crcs : seen[c] \in Int /\ seen'[c] \in Int
    BY <1>0, <2>2
  <2>5. \A c \in new' : seen'[c] >= 1
    BY <1>0, <2>1, <2>3, <2>4
  <2>6. \A c \in reported' : c \in known' \/ seen'[c] >= 2
    BY <1>0, <2>1, <2>3, <2>4
  <2>7. QED
    BY <1>0, <2>1, <2>2, <2>5, <2>6 DEF TrackingSeen
<1>11. CASE UNCHANGED FT!vars
  BY <1>3, <1>11 DEF FT!vars
<1>12. QED
  BY <1>4, <1>5, <1>6, <1>7, <1>8, <1>9, <1>10, <1>11 DEF FT!Next, FT!Proceeds

LEMMA TrackingStopsStep ==
    ASSUME TrackingStops, FT!Next \/ UNCHANGED FT!vars
    PROVE  TrackingStops'
<1> USE DEF FT!run, FT!counters, FT!flags
<1>1. CASE FT!FastTagTrackingInventory
  <2>1. runs = 0 /\ stop_reason = "None" /\ runs' = 1 /\ round_count' = 0
    BY <1>1 DEF FT!FastTagTrackingInventory, TrackingStops
  <2>2. /\ stop_reason' = "None"
        /\ \/ tracking_pc' # "idle" /\ stop_conditions' \in TrackingConditions
           \/ tracking_pc' = "idle" /\ result' = "error"
    BY <1>1, <2>1 DEF FT!FastTagTrackingInventory, FT!Return
  <2>3. QED
    BY <2>1, <2>2 DEF TrackingStops, FT!StopsForCause
<1>2. CASE FT!CheckStopConditions
  <2>1. /\ tracking_pc = "check" /\ stop_reason = "None" /\ runs = 1 /\ round_count = 0
        /\ stop_conditions \in TrackingConditions
    BY <1>2 DEF FT!CheckStopConditions, TrackingStops
  <2>2. /\ UNCHANGED <<runs, round_count, stop_conditions, stop_inventory, tag_count, elapsed>>
        /\ stop_reason' = FT!Reason
        /\ tracking_pc' = IF stop_reason' # "None" THEN "idle" ELSE "update"
    BY <1>2 DEF FT!CheckStopConditions, FT!Return
  <2>3. stop_conditions.rounds \in Nat
    BY <2>1, UseCasesConstants DEF FT!FastTagTrackingConstants
  <2>4. stop_reason' # "None" =>
          \/ stop_inventory
          \/ stop_conditions.tags > 0 /\ tag_count >= stop_conditions.tags
          \/ stop_conditions.duration > 0 /\ elapsed >= stop_conditions.duration
    BY <2>1, <2>2, <2>3 DEF FT!Reason
  <2>5. QED
    BY <2>1, <2>2, <2>4 DEF TrackingStops, FT!StopsForCause
<1>3. CASE \/ FT!Delays \/ FT!RunFastInventory \/ FT!RoundEnds \/ FT!Built \/ FT!Switch
           \/ FT!Reset
           \/ \E crc \in Crcs : FT!FullEpcCallback(crc) \/ FT!FastInventoryCallback(crc)
  <2>1. tracking_pc # "idle"
    BY <1>3 DEF FT!Delays, FT!RunFastInventory, FT!RoundEnds, FT!Built, FT!Switch, FT!Reset,
       FT!FullEpcCallback, FT!FastInventoryCallback, FT!Full, FT!Fast
  <2>2. UNCHANGED <<runs, round_count, stop_reason, stop_conditions>>
    BY <1>3 DEF FT!Delays, FT!RunFastInventory, FT!RoundEnds, FT!Built, FT!Switch, FT!Reset,
       FT!FullEpcCallback, FT!FastInventoryCallback
  <2>3. tracking_pc' = "idle" => result' = "error"
    BY <1>3, <2>1 DEF FT!Delays, FT!RunFastInventory, FT!RoundEnds, FT!Built, FT!Switch,
       FT!Reset, FT!FullEpcCallback, FT!FastInventoryCallback, FT!Client, FT!Return,
       FT!Full, FT!Fast
  <2>4. QED
    BY <2>1, <2>2, <2>3 DEF TrackingStops, FT!StopsForCause
<1>4. CASE UNCHANGED FT!vars
  BY <1>4 DEF FT!vars, TrackingStops, FT!StopsForCause
<1>5. QED
  BY <1>1, <1>2, <1>3, <1>4 DEF FT!Next, FT!Proceeds

(* TagsAreTracked: over all switches between full and fast rounds, for any *)
(* CRCs, limits and failures, the client gets in fast rounds no CRC that   *)
(* was read once and is not known; and its run stops for a cause.          *)
THEOREM TagsAreTrackedAlways == Spec => []TagsAreTracked
<1> DEFINE Inv == use_case = "fast_tag_tracking" => TrackingSeen /\ TrackingStops
<1>1. Init => Inv
  <2> SUFFICES ASSUME Init PROVE TrackingSeen /\ TrackingStops
    OBVIOUS
  <2>1. TrackingSeen
    BY DEF Init, FT!Init, TrackingSeen, FT!NoiseIsNotReported, FT!Fast, FT!Never
  <2>2. TrackingStops
    BY DEF Init, FT!Init, TrackingStops, FT!StopsForCause
  <2>3. QED
    BY <2>1, <2>2
<1>2. Inv /\ [Next]_vars => Inv'
  BY ChosenStep, TrackingSeenStep, TrackingStopsStep
<1>3. Inv => TagsAreTracked
  BY DEF TagsAreTracked, TrackingSeen, TrackingStops
<1> HIDE DEF Inv
<1>4. QED
  BY <1>1, <1>2, <1>3, PTL DEF Spec

-----------------------------------------------------------------------------
(* Lists of packets, position by position.                                 *)

LEMMA AppendAt ==
    ASSUME NEW S, NEW list \in Seq(S), NEW e \in S
    PROVE  /\ Append(list, e) \in Seq(S) /\ Len(Append(list, e)) = Len(list) + 1
           /\ \A i \in 1 .. Len(list) : Append(list, e)[i] = list[i]
           /\ Append(list, e)[Len(list) + 1] = e
OBVIOUS

LEMMA AppendTwoAt ==
    ASSUME NEW S, NEW list \in Seq(S), NEW d \in S, NEW e \in S
    PROVE  /\ list \o <<d, e>> \in Seq(S) /\ Len(list \o <<d, e>>) = Len(list) + 2
           /\ \A i \in 1 .. Len(list) : (list \o <<d, e>>)[i] = list[i]
           /\ (list \o <<d, e>>)[Len(list) + 1] = d /\ (list \o <<d, e>>)[Len(list) + 2] = e
<1>1. <<d, e>> \in Seq(S) /\ Len(<<d, e>>) = 2 /\ <<d, e>>[1] = d /\ <<d, e>>[2] = e
  OBVIOUS
<1> DEFINE two == <<d, e>>
<1> HIDE DEF two
<1>2. /\ list \o two \in Seq(S) /\ Len(list \o two) = Len(list) + Len(two)
      /\ \A i \in 1 .. Len(list) + Len(two) :
            (list \o two)[i] = IF i <= Len(list) THEN list[i] ELSE two[i - Len(list)]
  BY <1>1, ConcatProperties DEF two
<1>3. Len(list) \in Nat
  OBVIOUS
<1>4. \A n \in Nat : n + 1 \in 1 .. n + 2 /\ n + 2 \in 1 .. n + 2 /\ (n + 1) - n = 1 /\ (n + 2) - n = 2
  OBVIOUS
<1>5. QED
  BY <1>1, <1>2, <1>3, <1>4 DEF two

LEMMA TailAt ==
    ASSUME NEW S, NEW list \in Seq(S), list # <<>>
    PROVE  /\ Head(list) = list[1] /\ 1 \in DOMAIN list /\ Head(list) \in S
           /\ Tail(list) \in Seq(S) /\ Len(Tail(list)) = Len(list) - 1 /\ Len(list) >= 1
           /\ \A i \in 1 .. Len(list) - 1 : Tail(list)[i] = list[i + 1]
OBVIOUS

LEMMA ReadAt ==
    ASSUME NEW S, NEW list \in Seq(S), NEW fifo \in Seq(S), NEW n \in Nat, n <= Len(fifo)
    PROVE  /\ SubSeq(fifo, n + 1, Len(fifo)) \in Seq(S)
           /\ Len(SubSeq(fifo, n + 1, Len(fifo))) = Len(fifo) - n
           /\ \A i \in 1 .. Len(fifo) - n : SubSeq(fifo, n + 1, Len(fifo))[i] = fifo[n + i]
           /\ list \o SubSeq(fifo, 1, n) \in Seq(S)
           /\ Len(list \o SubSeq(fifo, 1, n)) = Len(list) + n
           /\ \A i \in 1 .. Len(list) : (list \o SubSeq(fifo, 1, n))[i] = list[i]
           /\ \A i \in 1 .. n : (list \o SubSeq(fifo, 1, n))[Len(list) + i] = fifo[i]
<1>1. Len(fifo) \in Nat /\ Len(list) \in Nat /\ \A i \in 1..Len(fifo) : fifo[i] \in S
  OBVIOUS
<1>2. /\ \A i \in 1..n : fifo[i] \in S
      /\ \A i \in (n + 1)..Len(fifo) : fifo[i] \in S
  BY <1>1
<1> DEFINE node == SubSeq(fifo, 1, n)
<1>3. node \in Seq(S) /\ Len(node) = n /\ \A i \in 1 .. n : node[i] = fifo[i]
  BY <1>2, SubSeqProperties
<1>4. /\ SubSeq(fifo, n + 1, Len(fifo)) \in Seq(S)
      /\ Len(SubSeq(fifo, n + 1, Len(fifo))) = Len(fifo) - n
      /\ \A i \in 1 .. Len(fifo) - n : SubSeq(fifo, n + 1, Len(fifo))[i] = fifo[n + i]
  BY <1>1, <1>2, SubSeqProperties
<1> HIDE DEF node
<1>5. /\ list \o node \in Seq(S) /\ Len(list \o node) = Len(list) + n
      /\ \A i \in 1 .. Len(list) + n :
            (list \o node)[i] = IF i <= Len(list) THEN list[i] ELSE node[i - Len(list)]
  BY <1>3, ConcatProperties
<1>6. /\ \A i \in 1 .. Len(list) : (list \o node)[i] = list[i]
      /\ \A i \in 1 .. n : (list \o node)[Len(list) + i] = fifo[i]
  BY <1>1, <1>3, <1>5
<1>7. QED
  BY <1>4, <1>5, <1>6 DEF node

-----------------------------------------------------------------------------
(* Tag access.  The packets, of which a TagRead may tell of a halt, and    *)
(* the summary of a round that was not cut is the last that is of account. *)
AccessPackets ==
    {TA!Packet(type) : type \in {"Halted", "Gen2Transaction", "Ex10Result"}}
    \cup {TA!TagRead(tag, halted) : tag \in Nat, halted \in BOOLEAN}
    \cup {TA!Summary(reason) : reason \in {"Done", "Regulatory", "Host"}}

Read(p) == p.packet_type = "TagRead"
HaltedRead(p) == p.packet_type = "TagRead" /\ p.halted_on_tag
Final(p) == p.packet_type = "InventoryRoundSummary" /\ p.reason # "Regulatory"

AccessTypes ==
    /\ queue \in Seq(AccessPackets) /\ event_fifo \in Seq(AccessPackets)
    /\ tag_read \in AccessPackets
    /\ pc \in [{"app", "irq"} ->
                {"idle", "start", "peek", "callback", "go", "drained", "still_halted",
                 "send_resume", "round", "restart", "lost", "fifo"}]
    /\ num_bytes \in Nat /\ (pc["irq"] # "idle" => num_bytes <= Len(event_fifo))
    /\ tags \in Nat /\ halted_tag \in Nat /\ expiries \in Nat /\ runs \in Nat
    /\ {op, round_done, irq_pending, misdirected} \subseteq BOOLEAN

LEMMA PacketKinds ==
    /\ \A type \in {"Halted", "Gen2Transaction", "Ex10Result"} :
            /\ TA!Packet(type) \in AccessPackets
            /\ ~Read(TA!Packet(type)) /\ ~HaltedRead(TA!Packet(type)) /\ ~Final(TA!Packet(type))
    /\ \A tag \in Nat, halted \in BOOLEAN :
            /\ TA!TagRead(tag, halted) \in AccessPackets
            /\ Read(TA!TagRead(tag, halted)) /\ TA!TagRead(tag, halted).tag = tag
            /\ (HaltedRead(TA!TagRead(tag, halted)) <=> halted)
            /\ ~Final(TA!TagRead(tag, halted))
    /\ \A reason \in {"Done", "Regulatory", "Host"} :
            /\ TA!Summary(reason) \in AccessPackets
            /\ ~Read(TA!Summary(reason)) /\ ~HaltedRead(TA!Summary(reason))
            /\ (Final(TA!Summary(reason)) <=> reason # "Regulatory")
    /\ \A p \in AccessPackets : Read(p) => p.tag \in Nat
    /\ \A p \in AccessPackets : HaltedRead(p) => Read(p)
<1>1. \A type \in {"Halted", "Gen2Transaction", "Ex10Result"} :
        /\ TA!Packet(type) \in AccessPackets
        /\ ~Read(TA!Packet(type)) /\ ~HaltedRead(TA!Packet(type)) /\ ~Final(TA!Packet(type))
  BY DEF AccessPackets, Read, HaltedRead, Final, TA!Packet
<1>2. \A tag \in Nat, halted \in BOOLEAN :
        /\ TA!TagRead(tag, halted) \in AccessPackets
        /\ Read(TA!TagRead(tag, halted)) /\ TA!TagRead(tag, halted).tag = tag
        /\ (HaltedRead(TA!TagRead(tag, halted)) <=> halted)
        /\ ~Final(TA!TagRead(tag, halted))
  BY DEF AccessPackets, Read, HaltedRead, Final, TA!TagRead
<1>3. \A reason \in {"Done", "Regulatory", "Host"} :
        /\ TA!Summary(reason) \in AccessPackets
        /\ ~Read(TA!Summary(reason)) /\ ~HaltedRead(TA!Summary(reason))
        /\ (Final(TA!Summary(reason)) <=> reason # "Regulatory")
  BY DEF AccessPackets, Read, HaltedRead, Final, TA!Summary
<1>4. \A p \in AccessPackets : Read(p) => p.tag \in Nat
  BY DEF AccessPackets, Read, TA!TagRead, TA!Packet, TA!Summary
<1>5. \A p \in AccessPackets : HaltedRead(p) => Read(p)
  BY DEF Read, HaltedRead
<1>6. QED
  BY <1>1, <1>2, <1>3, <1>4, <1>5

LEMMA AccessGoto ==
    ASSUME AccessTypes, NEW t \in {"app", "irq"}, NEW step, TA!Goto(t, step)
    PROVE  /\ pc'[t] = step
           /\ \A u \in {"app", "irq"} : u # t => pc'[u] = pc[u]
BY DEF AccessTypes, TA!Goto

LEMMA AccessPushError ==
    ASSUME TA!PushError
    PROVE  queue' \in {queue, Append(queue, TA!Packet("Ex10Result"))}
BY DEF TA!PushError

(* What a round's end does to the Ex10. *)
LEMMA AccessRoundEnds ==
    ASSUME AccessTypes, TA!EndsRound \/ TA!DwellTimeEnds \/ TA!StopOp
    PROVE  /\ op = TRUE /\ op' = FALSE /\ halted_tag' = 0 /\ round_done' = TRUE /\ irq_pending' = TRUE
           /\ done_reason' \in {"Done", "Regulatory", "Host"}
           /\ event_fifo' = Append(event_fifo, TA!Summary(done_reason'))
           /\ UNCHANGED <<pc, num_bytes, queue, ex10_result, tag_read, expects, offered, misdirected,
                          tags, runs, tag_halted_callback>>
           /\ \/ expiries' = expiries /\ done_reason' # "Regulatory"
              \/ expiries' = expiries + 1 /\ done_reason' = "Regulatory"
BY DEF AccessTypes, TA!EndsRound, TA!DwellTimeEnds, TA!StopOp, TA!EndRound, TA!UnchangedByChip,
   TA!callback, TA!ghosts

LEMMA AccessTypesStep ==
    ASSUME AccessTypes, TA!Next \/ UNCHANGED TA!vars
    PROVE  AccessTypes'
<1> USE DEF TA!chip, TA!callback, TA!ghosts, TA!UnchangedByChip, TA!UnchangedByPublish, TA!Return,
        TA!At, TA!Command, TA!MayFail
<1>0. /\ queue \in Seq(AccessPackets) /\ event_fifo \in Seq(AccessPackets)
      /\ tag_read \in AccessPackets /\ num_bytes \in Nat
      /\ (pc["irq"] # "idle" => num_bytes <= Len(event_fifo))
      /\ tags \in Nat /\ halted_tag \in Nat /\ expiries \in Nat /\ runs \in Nat
  BY DEF AccessTypes
<1> DEFINE PcType == pc \in [{"app", "irq"} ->
                {"idle", "start", "peek", "callback", "go", "drained", "still_halted",
                 "send_resume", "round", "restart", "lost", "fifo"}]
           Flags == {op, round_done, irq_pending, misdirected} \subseteq BOOLEAN
           Numbers == tags \in Nat /\ halted_tag \in Nat /\ expiries \in Nat /\ runs \in Nat
           Lists == queue \in Seq(AccessPackets) /\ event_fifo \in Seq(AccessPackets)
           Level == num_bytes \in Nat /\ (pc["irq"] # "idle" => num_bytes <= Len(event_fifo))
<1>1. PcType'
  <2>1. PcType
    BY DEF AccessTypes
  <2>2. CASE TA!Next
    BY <2>1, <2>2 DEF TA!Next, TA!Handles, TA!Publishes, TA!Commands, TA!Goto, TA!ReadsTag, TA!EndsRound,
       TA!DwellTimeEnds, TA!StopOp, TA!HandlerReadsStatus, TA!RoundDone, TA!Restart, TA!TagLost,
       TA!ReadEventFifo, TA!Reinit, TA!RunInventory, TA!StartInventory, TA!PublishTimesOut, TA!Peek,
       TA!CallbackPacket, TA!ExecuteAccessCommands, TA!SendHaltedSequence, TA!CallbackReturns,
       TA!Drained, TA!StillHalted, TA!ContinueFromHalted
  <2>3. QED
    BY <2>1, <2>2 DEF TA!vars
<1>2. Flags'
  <2>1. Flags
    BY DEF AccessTypes
  <2>2. CASE TA!Next
    BY <2>1, <2>2 DEF TA!Next, TA!Handles, TA!Publishes, TA!Commands, TA!ReadsTag, TA!EndsRound,
       TA!DwellTimeEnds, TA!StopOp, TA!HandlerReadsStatus, TA!RoundDone, TA!Restart, TA!TagLost,
       TA!ReadEventFifo, TA!Reinit, TA!RunInventory, TA!StartInventory, TA!PublishTimesOut, TA!Peek,
       TA!CallbackPacket, TA!ExecuteAccessCommands, TA!SendHaltedSequence, TA!CallbackReturns,
       TA!Drained, TA!StillHalted, TA!ContinueFromHalted, TA!EndRound, TA!Reaches
  <2>3. QED
    BY <2>1, <2>2 DEF TA!vars
<1>3. Numbers'
  <2>1. CASE TA!ReadsTag
    <3>1. tags' = tags + 1 /\ halted_tag' \in {halted_tag, tags'} /\ UNCHANGED expiries /\ UNCHANGED runs
      BY <2>1 DEF TA!ReadsTag
    <3>2. QED
      BY <1>0, <3>1
  <2>2. CASE TA!EndsRound \/ TA!DwellTimeEnds \/ TA!StopOp
    <3>1. /\ halted_tag' = 0 /\ expiries' \in {expiries, expiries + 1}
          /\ tags' = tags /\ runs' = runs
      BY <2>2, AccessRoundEnds
    <3>2. QED
      BY <1>0, <3>1
  <2>3. CASE TA!Handles \/ TA!Reinit \/ TA!Publishes \/ TA!PublishTimesOut \/ TA!StartInventory
             \/ TA!SendHaltedSequence \/ UNCHANGED TA!vars
    <3>1. UNCHANGED <<tags, halted_tag, expiries, runs>>
      BY <2>3 DEF TA!Handles, TA!Publishes, TA!HandlerReadsStatus, TA!RoundDone, TA!Restart, TA!TagLost,
         TA!ReadEventFifo, TA!Reinit, TA!StartInventory, TA!PublishTimesOut, TA!Peek, TA!vars,
         TA!CallbackPacket, TA!ExecuteAccessCommands, TA!SendHaltedSequence, TA!CallbackReturns,
         TA!Drained, TA!StillHalted
    <3>2. QED
      BY <1>0, <3>1
  <2>4. CASE TA!RunInventory \/ TA!ContinueFromHalted
    BY <1>0, <2>4 DEF TA!RunInventory, TA!ContinueFromHalted
  <2>5. QED
    BY <2>1, <2>2, <2>3, <2>4 DEF TA!Next, TA!Commands
<1>4. Lists' /\ Level' /\ tag_read' \in AccessPackets
  <2>1. ASSUME UNCHANGED <<queue, num_bytes>>, UNCHANGED <<pc, tag_read>>,
               \/ UNCHANGED event_fifo
               \/ \E e \in AccessPackets : event_fifo' = Append(event_fifo, e)
               \/ \E d, e \in AccessPackets : event_fifo' = event_fifo \o <<d, e>>
        PROVE  Lists' /\ Level' /\ tag_read' \in AccessPackets
    <3>1. event_fifo' \in Seq(AccessPackets) /\ Len(event_fifo') >= Len(event_fifo)
      <4>1. Len(event_fifo) \in Nat
        BY <1>0
      <4>2. CASE UNCHANGED event_fifo
        BY <1>0, <4>1, <4>2
      <4>3. ASSUME NEW e \in AccessPackets, event_fifo' = Append(event_fifo, e)
            PROVE  event_fifo' \in Seq(AccessPackets) /\ Len(event_fifo') >= Len(event_fifo)
        BY <1>0, <4>1, <4>3, AppendAt
      <4>4. ASSUME NEW d \in AccessPackets, NEW e \in AccessPackets, event_fifo' = event_fifo \o <<d, e>>
            PROVE  event_fifo' \in Seq(AccessPackets) /\ Len(event_fifo') >= Len(event_fifo)
        <5>1. event_fifo' \in Seq(AccessPackets) /\ Len(event_fifo') = Len(event_fifo) + 2
          BY <1>0, <4>4, AppendTwoAt
        <5>2. QED
          BY <4>1, <5>1
      <4>5. QED
        BY <2>1, <4>2, <4>3, <4>4
    <3>2. Len(event_fifo) \in Nat /\ Len(event_fifo') \in Nat
      BY <1>0, <3>1
    <3>3. QED
      BY <1>0, <2>1, <3>1, <3>2
  <2>2. ASSUME UNCHANGED <<event_fifo, num_bytes>>, pc'["irq"] # "idle" => pc["irq"] # "idle",
               tag_read' \in {tag_read, queue[1]},
               \/ UNCHANGED queue /\ UNCHANGED tag_read
               \/ queue' = <<>> /\ UNCHANGED tag_read
               \/ queue' = Append(queue, TA!Packet("Ex10Result")) /\ UNCHANGED tag_read
               \/ queue # <<>> /\ queue' = Tail(queue)
        PROVE  Lists' /\ Level' /\ tag_read' \in AccessPackets
    <3>1. queue' \in Seq(AccessPackets) /\ tag_read' \in AccessPackets
      <4>1. queue # <<>> => Head(queue) = queue[1] /\ Head(queue) \in AccessPackets /\ Tail(queue) \in Seq(AccessPackets)
        BY <1>0, TailAt
      <4>2. TA!Packet("Ex10Result") \in AccessPackets
        BY PacketKinds
      <4>3. Append(queue, TA!Packet("Ex10Result")) \in Seq(AccessPackets) /\ <<>> \in Seq(AccessPackets)
        BY <1>0, <4>2, AppendAt
      <4>4. QED
        BY <1>0, <2>2, <4>1, <4>3
    <3>2. QED
      BY <1>0, <2>2, <3>1
  <2>3. CASE TA!ReadsTag
    <3>1. tags' \in Nat
      BY <1>0, <2>3 DEF TA!ReadsTag
    <3>2. TA!TagRead(tags', TRUE) \in AccessPackets /\ TA!TagRead(tags', FALSE) \in AccessPackets
          /\ TA!Packet("Halted") \in AccessPackets
      BY <3>1, PacketKinds
    <3>3. QED
      BY <2>1, <2>3, <3>2 DEF TA!ReadsTag
  <2>4. CASE TA!EndsRound \/ TA!DwellTimeEnds \/ TA!StopOp
    <3>1. TA!Summary(done_reason') \in AccessPackets
      BY <2>4, AccessRoundEnds, PacketKinds
    <3>2. QED
      BY <2>1, <2>4, <3>1, AccessRoundEnds
  <2>5. CASE TA!HandlerReadsStatus
    <3>1. num_bytes' = Len(event_fifo) /\ UNCHANGED <<event_fifo, queue, tag_read>>
      BY <2>5 DEF TA!HandlerReadsStatus
    <3>2. QED
      BY <1>0, <3>1
  <2>6. CASE TA!RoundDone
    <3>1. pc["irq"] # "idle" /\ UNCHANGED <<event_fifo, num_bytes, tag_read>>
      BY <2>6 DEF TA!RoundDone
    <3>2. UNCHANGED queue \/ queue' = Append(queue, TA!Packet("Ex10Result"))
      BY <2>6, AccessPushError DEF TA!RoundDone
    <3>3. QED
      BY <2>2, <3>1, <3>2
  <2>7. CASE TA!Restart
    <3>1. pc["irq"] # "idle" /\ UNCHANGED <<event_fifo, num_bytes, tag_read>>
      BY <2>7 DEF TA!Restart
    <3>2. UNCHANGED queue \/ queue' = Append(queue, TA!Packet("Ex10Result"))
      BY <2>7, AccessPushError DEF TA!Restart
    <3>3. QED
      BY <2>2, <3>1, <3>2
  <2>8. CASE TA!TagLost
    BY <2>2, <2>8 DEF TA!TagLost
  <2>9. CASE TA!ReadEventFifo
    <3>1. /\ pc["irq"] = "fifo" /\ event_fifo' = SubSeq(event_fifo, num_bytes + 1, Len(event_fifo))
          /\ queue' = queue \o SubSeq(event_fifo, 1, num_bytes)
          /\ UNCHANGED <<num_bytes, tag_read>> /\ TA!Goto("irq", "idle")
      BY <2>9 DEF TA!ReadEventFifo
    <3>2. pc'["irq"] = "idle"
      BY <3>1, AccessGoto
    <3>3. event_fifo' \in Seq(AccessPackets) /\ queue' \in Seq(AccessPackets)
      BY <1>0, <3>1, ReadAt
    <3>4. QED
      BY <1>0, <3>1, <3>2, <3>3
  <2>10. CASE TA!Reinit \/ TA!RunInventory \/ TA!StartInventory \/ TA!PublishTimesOut
              \/ TA!ExecuteAccessCommands \/ TA!CallbackReturns \/ TA!Drained \/ TA!StillHalted
              \/ TA!ContinueFromHalted
    <3>1. /\ UNCHANGED <<event_fifo, num_bytes, tag_read>>
          /\ queue' \in {queue, <<>>}
      BY <2>10 DEF TA!Reinit, TA!RunInventory, TA!StartInventory, TA!PublishTimesOut,
         TA!ExecuteAccessCommands, TA!CallbackReturns, TA!Drained, TA!StillHalted, TA!ContinueFromHalted
    <3>2. UNCHANGED pc \/ \E step : TA!Goto("app", step)
      BY <2>10 DEF TA!Reinit, TA!RunInventory, TA!StartInventory, TA!PublishTimesOut,
         TA!ExecuteAccessCommands, TA!CallbackReturns, TA!Drained, TA!StillHalted, TA!ContinueFromHalted
    <3>3. pc'["irq"] = pc["irq"]
      BY <3>2, AccessGoto
    <3>4. QED
      BY <2>2, <3>1, <3>3
  <2>11. CASE TA!Peek \/ TA!CallbackPacket
    <3>1. /\ UNCHANGED <<event_fifo, num_bytes>> /\ queue # <<>> /\ queue' = Tail(queue)
          /\ tag_read' \in {tag_read, Head(queue)}
      BY <2>11 DEF TA!Peek, TA!CallbackPacket
    <3>2. UNCHANGED pc \/ \E step : TA!Goto("app", step)
      BY <2>11 DEF TA!Peek, TA!CallbackPacket
    <3>3. pc'["irq"] = pc["irq"]
      BY <3>2, AccessGoto
    <3>4. Head(queue) = queue[1]
      BY <1>0, <3>1, TailAt
    <3>5. QED
      BY <2>2, <3>1, <3>3, <3>4
  <2>12. CASE TA!SendHaltedSequence
    <3>1. /\ UNCHANGED <<queue, num_bytes, tag_read>> /\ TA!Goto("app", "callback")
          /\ event_fifo' \in {event_fifo, event_fifo \o <<TA!Packet("Gen2Transaction"), TA!Packet("Halted")>>}
      BY <2>12 DEF TA!SendHaltedSequence
    <3>2. pc'["irq"] = pc["irq"]
      BY <3>1, AccessGoto
    <3>3. event_fifo' \in Seq(AccessPackets) /\ Len(event_fifo') >= Len(event_fifo)
      <4> DEFINE both == event_fifo \o <<TA!Packet("Gen2Transaction"), TA!Packet("Halted")>>
      <4>1. event_fifo \in Seq(AccessPackets) /\ Len(event_fifo) \in Nat
        BY <1>0
      <4>2. {TA!Packet("Gen2Transaction"), TA!Packet("Halted")} \subseteq AccessPackets
        BY PacketKinds
      <4>3. both \in Seq(AccessPackets) /\ Len(both) = Len(event_fifo) + 2
        BY ONLY <4>1, <4>2, AppendTwoAt
      <4> HIDE DEF both
      <4>4. event_fifo' \in {event_fifo, both}
        BY <3>1 DEF both
      <4>5. QED
        BY ONLY <4>1, <4>3, <4>4
    <3>4. Len(event_fifo) \in Nat /\ Len(event_fifo') \in Nat
      BY <1>0, <3>3
    <3>5. QED
      BY <1>0, <3>1, <3>2, <3>3, <3>4
  <2>13. CASE UNCHANGED TA!vars
    BY <1>0, <2>13 DEF TA!vars
  <2>14. QED
    BY <2>3, <2>4, <2>5, <2>6, <2>7, <2>8, <2>9, <2>10, <2>11, <2>12, <2>13
    DEF TA!Next, TA!Handles, TA!Publishes, TA!Commands
<1>5. QED
  BY <1>1, <1>2, <1>3, <1>4 DEF AccessTypes

(* A run begins when all is at rest, and there is only one.                *)
Quiet ==
    /\ queue = <<>> /\ event_fifo = <<>> /\ pc["irq"] = "idle"
    /\ ~op /\ ~round_done /\ ~irq_pending /\ halted_tag = 0

AccessLive == runs = 1 /\ ex10_result = "success"

AccessStarts ==
    /\ runs \in {0, 1}
    /\ runs = 0 => pc["app"] = "idle" /\ ~misdirected /\ Quiet
    /\ pc["app"] = "start" => Quiet /\ ~misdirected /\ tags = 0 /\ offered = {} /\ expiries = 0
    /\ pc["app"] # "idle" => AccessLive

(* Which interrupts are still to come, and what of the FIFO is to be read, *)
(* while the round runs and after its end.                                 *)
AccessRound ==
    /\ halted_tag # 0 => op
    /\ pc["irq"] \in {"round", "restart"} => ~op /\ ~round_done
    /\ op => ~round_done
    /\ round_done => irq_pending /\ (pc["irq"] # "idle" => num_bytes < Len(event_fifo))
    /\ ~op /\ ~round_done =>
        /\ ~irq_pending
        /\ pc["irq"] = "idle" => event_fifo = <<>>
        /\ pc["irq"] # "idle" => num_bytes = Len(event_fifo)

LEMMA AccessQuietStep ==
    ASSUME AccessTypes, Quiet, pc["app"] \in {"idle", "start"}, TA!Next
    PROVE  TA!RunInventory \/ TA!StartInventory
BY DEF Quiet, TA!Next, TA!Handles, TA!Publishes, TA!Commands, TA!ReadsTag, TA!EndsRound,
   TA!DwellTimeEnds, TA!StopOp, TA!HandlerReadsStatus, TA!RoundDone, TA!Restart, TA!TagLost,
   TA!ReadEventFifo, TA!Reinit, TA!PublishTimesOut, TA!Peek, TA!CallbackPacket,
   TA!ExecuteAccessCommands, TA!SendHaltedSequence, TA!CallbackReturns, TA!Drained, TA!StillHalted,
   TA!ContinueFromHalted, TA!At, TA!Command

LEMMA AccessStartsStep ==
    ASSUME AccessTypes, AccessStarts, TA!Next \/ UNCHANGED TA!vars
    PROVE  AccessStarts'
<1> USE DEF TA!chip, TA!callback, TA!ghosts, TA!UnchangedByChip, TA!UnchangedByPublish, TA!Return,
        TA!At, TA!Command
<1>0. /\ runs \in {0, 1}
      /\ runs = 0 => pc["app"] = "idle" /\ ~misdirected /\ Quiet
      /\ pc["app"] = "start" => Quiet /\ ~misdirected /\ tags = 0 /\ offered = {} /\ expiries = 0
      /\ pc["app"] # "idle" => AccessLive
  BY DEF AccessStarts
<1>1. CASE UNCHANGED TA!vars
  BY <1>1, <1>0 DEF TA!vars, AccessStarts, Quiet, AccessLive
<1>2. CASE TA!RunInventory
  <2>1. runs = 0 /\ runs' = 1 /\ Quiet /\ ex10_result' = "success"
    BY <1>0, <1>2 DEF TA!RunInventory
  <2>2. TA!Goto("app", "start") /\ ~misdirected' /\ tags' = 0 /\ offered' = {} /\ expiries' = 0
    BY <1>2 DEF TA!RunInventory
  <2>3. pc'["irq"] = pc["irq"]
    BY <2>2, AccessGoto
  <2>4. Quiet'
    BY <1>2, <2>1, <2>3 DEF TA!RunInventory, Quiet
  <2>5. QED
    BY <2>1, <2>2, <2>4 DEF AccessStarts, AccessLive
<1>3. CASE TA!StartInventory
  <2>1. pc["app"] = "start" /\ runs' = runs /\ runs = 1 /\ AccessLive
    BY <1>0, <1>3 DEF TA!StartInventory, AccessLive
  <2>2. \/ TA!Goto("app", "peek") /\ UNCHANGED ex10_result
        \/ TA!Goto("app", "idle")
    BY <1>3 DEF TA!StartInventory
  <2>3. pc'["app"] = "idle" \/ (pc'["app"] = "peek" /\ ex10_result' = "success")
    BY <2>1, <2>2, AccessGoto DEF AccessLive
  <2>4. QED
    BY <2>1, <2>3 DEF AccessStarts, AccessLive
<1>4. CASE TA!Next /\ ~TA!RunInventory /\ ~TA!StartInventory
  <2>1. runs = 1 /\ pc["app"] # "start"
    BY <1>0, <1>4, AccessQuietStep
  <2>2. CASE \/ TA!ReadsTag \/ TA!EndsRound \/ TA!DwellTimeEnds \/ TA!StopOp \/ TA!Handles \/ TA!Reinit
    <3>1. UNCHANGED <<runs, ex10_result>>
      BY <2>2 DEF TA!ReadsTag, TA!EndsRound, TA!DwellTimeEnds, TA!StopOp, TA!Reinit, TA!Handles,
         TA!HandlerReadsStatus, TA!RoundDone, TA!Restart, TA!TagLost, TA!ReadEventFifo
    <3>2. UNCHANGED pc \/ \E step : TA!Goto("irq", step)
      BY <2>2 DEF TA!ReadsTag, TA!EndsRound, TA!DwellTimeEnds, TA!StopOp, TA!Reinit, TA!Handles,
         TA!HandlerReadsStatus, TA!RoundDone, TA!Restart, TA!TagLost, TA!ReadEventFifo
    <3>3. pc'["app"] = pc["app"]
      BY <3>2, AccessGoto
    <3>4. QED
      BY <1>0, <2>1, <3>1, <3>3 DEF AccessStarts, AccessLive
  <2>3. CASE TA!Publishes \/ TA!PublishTimesOut \/ TA!SendHaltedSequence \/ TA!ContinueFromHalted
    <3>1. runs' = runs /\ pc["app"] # "idle"
      BY <2>3 DEF TA!Publishes, TA!PublishTimesOut, TA!Peek, TA!CallbackPacket, TA!ExecuteAccessCommands,
         TA!SendHaltedSequence, TA!CallbackReturns, TA!Drained, TA!StillHalted, TA!ContinueFromHalted
    <3>2. \/ TA!Goto("app", "idle")
          \/ UNCHANGED ex10_result /\ UNCHANGED pc
          \/ UNCHANGED ex10_result /\ \E step : step \notin {"start", "idle"} /\ TA!Goto("app", step)
      BY <2>3 DEF TA!Publishes, TA!PublishTimesOut, TA!Peek, TA!CallbackPacket, TA!ExecuteAccessCommands,
         TA!SendHaltedSequence, TA!CallbackReturns, TA!Drained, TA!StillHalted, TA!ContinueFromHalted
    <3>3. \/ pc'["app"] = "idle"
          \/ UNCHANGED ex10_result /\ pc'["app"] # "start"
      BY <2>1, <3>2, AccessGoto
    <3>4. QED
      BY <1>0, <2>1, <3>1, <3>3 DEF AccessStarts, AccessLive
  <2>4. QED
    BY <1>4, <2>2, <2>3 DEF TA!Next, TA!Commands
<1>5. QED
  BY <1>1, <1>2, <1>3, <1>4

LEMMA AccessRoundStep ==
    ASSUME AccessTypes, AccessStarts, AccessRound, TA!Next \/ UNCHANGED TA!vars
    PROVE  AccessRound'
<1> USE DEF TA!chip, TA!callback, TA!ghosts, TA!UnchangedByChip, TA!UnchangedByPublish, TA!Return,
        TA!At, TA!Command
<1>0. /\ halted_tag # 0 => op
      /\ pc["irq"] \in {"round", "restart"} => ~op /\ ~round_done
      /\ op => ~round_done
      /\ round_done => irq_pending /\ (pc["irq"] # "idle" => num_bytes < Len(event_fifo))
      /\ ~op /\ ~round_done =>
          /\ ~irq_pending
          /\ pc["irq"] = "idle" => event_fifo = <<>>
          /\ pc["irq"] # "idle" => num_bytes = Len(event_fifo)
  BY DEF AccessRound
<1>n. /\ Len(event_fifo) \in Nat /\ num_bytes \in Nat /\ event_fifo \in Seq(AccessPackets)
      /\ pc["irq"] # "idle" => num_bytes <= Len(event_fifo)
  BY DEF AccessTypes
<1>1. ASSUME UNCHANGED <<op, halted_tag, event_fifo, round_done, irq_pending, num_bytes>>,
             \/ UNCHANGED pc
             \/ \E step : TA!Goto("app", step)
             \/ pc["irq"] # "idle" /\ \E step : step \in {"lost", "fifo"} /\ TA!Goto("irq", step)
      PROVE  AccessRound'
  <2>1. \/ pc'["irq"] = pc["irq"]
        \/ pc["irq"] # "idle" /\ pc'["irq"] \in {"lost", "fifo"}
    BY <1>1, AccessGoto
  <2>2. QED
    BY <1>0, <1>1, <2>1 DEF AccessRound
<1>2. CASE TA!ReadsTag
  <2>1. op /\ op' = op /\ irq_pending' = TRUE /\ UNCHANGED <<round_done, pc, num_bytes>>
    BY <1>2 DEF TA!ReadsTag
  <2>2. QED
    BY <1>0, <2>1 DEF AccessRound
<1>3. CASE TA!EndsRound \/ TA!DwellTimeEnds \/ TA!StopOp
  <2>1. /\ op /\ ~op' /\ halted_tag' = 0 /\ round_done' /\ irq_pending'
        /\ pc' = pc /\ num_bytes' = num_bytes
        /\ event_fifo' = Append(event_fifo, TA!Summary(done_reason'))
        /\ done_reason' \in {"Done", "Regulatory", "Host"}
    BY <1>3, AccessRoundEnds
  <2>2. Len(event_fifo') = Len(event_fifo) + 1
    BY <1>n, <2>1, AppendAt, PacketKinds
  <2>3. pc["irq"] # "idle" => num_bytes < Len(event_fifo) + 1
    BY <1>n
  <2>4. pc["irq"] \notin {"round", "restart"}
    BY <1>0, <2>1
  <2>5. QED
    BY <2>1, <2>2, <2>3, <2>4 DEF AccessRound
<1>4. CASE TA!HandlerReadsStatus
  <2>1. /\ pc["irq"] = "idle" /\ TA!Goto("irq", IF round_done THEN "round" ELSE "fifo")
        /\ num_bytes' = Len(event_fifo) /\ ~round_done' /\ ~irq_pending'
        /\ UNCHANGED <<op, halted_tag, event_fifo>>
    BY <1>4 DEF TA!HandlerReadsStatus
  <2>2. pc'["irq"] = IF round_done THEN "round" ELSE "fifo"
    BY <2>1, AccessGoto
  <2>3. QED
    BY <1>0, <2>1, <2>2 DEF AccessRound
<1>5. CASE TA!RoundDone
  <2>1. /\ pc["irq"] = "round" /\ UNCHANGED <<op, halted_tag, event_fifo, round_done, irq_pending, num_bytes>>
        /\ \E step : step \in {"restart", "lost", "fifo"} /\ TA!Goto("irq", step)
    BY <1>5 DEF TA!RoundDone
  <2>2. pc'["irq"] \in {"restart", "lost", "fifo"}
    BY <2>1, AccessGoto
  <2>3. QED
    BY <1>0, <2>1, <2>2 DEF AccessRound
<1>6. CASE TA!Restart
  <2>1. /\ pc["irq"] = "restart" /\ UNCHANGED <<halted_tag, event_fifo, round_done, irq_pending, num_bytes>>
        /\ TA!Goto("irq", "lost") /\ op' \in {op, TRUE}
    BY <1>6 DEF TA!Restart
  <2>2. pc'["irq"] = "lost"
    BY <2>1, AccessGoto
  <2>3. QED
    BY <1>0, <2>1, <2>2 DEF AccessRound
<1>7. CASE TA!TagLost
  BY <1>1, <1>7 DEF TA!TagLost
<1>8. CASE TA!ReadEventFifo
  <2>1. /\ pc["irq"] = "fifo" /\ UNCHANGED <<op, halted_tag, round_done, irq_pending, num_bytes>>
        /\ TA!Goto("irq", "idle") /\ event_fifo' = SubSeq(event_fifo, num_bytes + 1, Len(event_fifo))
    BY <1>8 DEF TA!ReadEventFifo
  <2>2. pc'["irq"] = "idle"
    BY <2>1, AccessGoto
  <2>3. event_fifo' \in Seq(AccessPackets) /\ Len(event_fifo') = Len(event_fifo) - num_bytes
    BY <1>n, <2>1, ReadAt
  <2>4. num_bytes = Len(event_fifo) => event_fifo' = <<>>
    BY <1>n, <2>3
  <2>5. QED
    BY <1>0, <2>1, <2>2, <2>4 DEF AccessRound
<1>9. CASE \/ TA!Reinit \/ TA!RunInventory \/ TA!PublishTimesOut \/ TA!Publishes
  BY <1>1, <1>9 DEF TA!Reinit, TA!RunInventory, TA!Publishes, TA!PublishTimesOut, TA!Peek,
     TA!CallbackPacket, TA!ExecuteAccessCommands, TA!CallbackReturns, TA!Drained, TA!StillHalted
<1>10. CASE TA!StartInventory
  <2>1. /\ Quiet /\ UNCHANGED <<halted_tag, event_fifo, round_done, irq_pending, num_bytes>>
        /\ \E step : TA!Goto("app", step)
    BY <1>10 DEF TA!StartInventory, AccessStarts
  <2>2. pc'["irq"] = pc["irq"]
    BY <2>1, AccessGoto
  <2>3. QED
    BY <1>0, <2>1, <2>2 DEF AccessRound, Quiet
<1>11. CASE TA!SendHaltedSequence
  <2>1. /\ TA!Goto("app", "callback") /\ pc["irq"] = "idle"
        /\ UNCHANGED <<op, halted_tag, round_done, num_bytes>>
        /\ \/ UNCHANGED <<event_fifo, irq_pending>>
           \/ halted_tag # 0 /\ irq_pending' = TRUE
    BY <1>11 DEF TA!SendHaltedSequence, AccessTypes
  <2>2. pc'["irq"] = "idle"
    BY <2>1, AccessGoto
  <2>3. QED
    BY <1>0, <2>1, <2>2 DEF AccessRound
<1>12. CASE TA!ContinueFromHalted
  <2>1. /\ UNCHANGED <<op, event_fifo, round_done, irq_pending, num_bytes>>
        /\ halted_tag' \in {halted_tag, 0} /\ \E step : TA!Goto("app", step)
    BY <1>12 DEF TA!ContinueFromHalted
  <2>2. pc'["irq"] = pc["irq"]
    BY <2>1, AccessGoto
  <2>3. QED
    BY <1>0, <2>1, <2>2 DEF AccessRound
<1>13. CASE UNCHANGED TA!vars
  BY <1>1, <1>13 DEF TA!vars
<1>14. QED
  BY <1>2, <1>3, <1>4, <1>5, <1>6, <1>7, <1>8, <1>9, <1>10, <1>11, <1>12, <1>13
  DEF TA!Next, TA!Handles, TA!Commands

(* The summary of a round that ended for good is the last packet the Ex10  *)
(* sends, and when it is in the queue nothing more is to come.             *)
AccessEnds ==
    /\ \A i \in 1 .. Len(event_fifo) : Final(event_fifo[i]) =>
            i = Len(event_fifo) /\ ~op /\ done_reason # "Regulatory" /\ pc["irq"] # "restart"
    /\ \A i \in 1 .. Len(queue) : Final(queue[i]) =>
            /\ ~op /\ ~round_done /\ pc["irq"] = "idle" /\ event_fifo = <<>>
            /\ \A j \in 1 .. Len(queue) : j > i => ~Read(queue[j])
    /\ pc["app"] = "idle" /\ AccessLive => ~op /\ ~round_done /\ pc["irq"] = "idle"

LEMMA AccessEndsStep ==
    ASSUME AccessTypes, AccessStarts, AccessRound, AccessEnds, TA!Next \/ UNCHANGED TA!vars
    PROVE  AccessEnds'
<1> USE DEF TA!chip, TA!callback, TA!ghosts, TA!UnchangedByChip, TA!UnchangedByPublish, TA!Return,
        TA!At, TA!Command
<1> DEFINE InFifo(i) == i = Len(event_fifo) /\ ~op /\ done_reason # "Regulatory" /\ pc["irq"] # "restart"
           Over == ~op /\ ~round_done /\ pc["irq"] = "idle" /\ event_fifo = <<>>
           Last(i) == \A j \in 1 .. Len(queue) : j > i => ~Read(queue[j])
<1>e. /\ \A i \in 1 .. Len(event_fifo) : Final(event_fifo[i]) => InFifo(i)
      /\ \A i \in 1 .. Len(queue) : Final(queue[i]) => Over /\ Last(i)
      /\ pc["app"] = "idle" /\ AccessLive => ~op /\ ~round_done /\ pc["irq"] = "idle"
  BY DEF AccessEnds
<1>t. /\ queue \in Seq(AccessPackets) /\ event_fifo \in Seq(AccessPackets)
      /\ Len(queue) \in Nat /\ Len(event_fifo) \in Nat /\ num_bytes \in Nat
      /\ pc["irq"] # "idle" => num_bytes <= Len(event_fifo)
  BY DEF AccessTypes
<1>r. /\ pc["irq"] \in {"round", "restart"} => ~op /\ ~round_done
      /\ op => ~round_done
      /\ round_done => irq_pending /\ (pc["irq"] # "idle" => num_bytes < Len(event_fifo))
      /\ ~op /\ ~round_done => ~irq_pending
      /\ halted_tag # 0 => op
  BY DEF AccessRound
<1>q. ~Over => \A i \in 1 .. Len(queue) : ~Final(queue[i])
  BY <1>e
<1>f. op => \A i \in 1 .. Len(event_fifo) : ~Final(event_fifo[i])
  BY <1>e
<1>l. AccessLive' /\ UNCHANGED <<runs, ex10_result>> => AccessLive
  BY DEF AccessLive
<1> HIDE DEF Over, Last
<1>1. CASE TA!ReadsTag
  <2>1. /\ op /\ op' /\ UNCHANGED <<queue, pc>> /\ UNCHANGED <<runs, ex10_result>>
        /\ \/ event_fifo' = event_fifo \o <<TA!TagRead(tags', TRUE), TA!Packet("Halted")>>
           \/ event_fifo' = Append(event_fifo, TA!TagRead(tags', FALSE))
        /\ tags' = tags + 1
    BY <1>1 DEF TA!ReadsTag
  <2>2. ~Over
    BY <2>1 DEF Over
  <2>3. tags' \in Nat
    BY <2>1 DEF AccessTypes
  <2>4. /\ TA!TagRead(tags', TRUE) \in AccessPackets /\ ~Final(TA!TagRead(tags', TRUE))
        /\ TA!TagRead(tags', FALSE) \in AccessPackets /\ ~Final(TA!TagRead(tags', FALSE))
        /\ TA!Packet("Halted") \in AccessPackets /\ ~Final(TA!Packet("Halted"))
    BY <2>3, PacketKinds
  <2>5. \A i \in 1 .. Len(event_fifo') : ~Final(event_fifo'[i])
    <3>1. CASE event_fifo' = event_fifo \o <<TA!TagRead(tags', TRUE), TA!Packet("Halted")>>
      <4>0. ASSUME NEW d \in AccessPackets, NEW e \in AccessPackets, event_fifo' = event_fifo \o <<d, e>>
            PROVE  /\ Len(event_fifo') = Len(event_fifo) + 2
                   /\ \A i \in 1 .. Len(event_fifo) : event_fifo'[i] = event_fifo[i]
                   /\ event_fifo'[Len(event_fifo) + 1] = d /\ event_fifo'[Len(event_fifo) + 2] = e
        BY <1>t, <4>0, AppendTwoAt
      <4>1. /\ Len(event_fifo') = Len(event_fifo) + 2
            /\ \A i \in 1 .. Len(event_fifo) : event_fifo'[i] = event_fifo[i]
            /\ event_fifo'[Len(event_fifo) + 1] = TA!TagRead(tags', TRUE)
            /\ event_fifo'[Len(event_fifo) + 2] = TA!Packet("Halted")
        BY ONLY <2>4, <3>1, <4>0
      <4>2. \A i \in 1 .. Len(event_fifo) + 2 :
                i \in 1 .. Len(event_fifo) \/ i = Len(event_fifo) + 1 \/ i = Len(event_fifo) + 2
        BY <1>t
      <4>3. QED
        BY <1>f, <2>1, <2>4, <4>1, <4>2
    <3>2. CASE event_fifo' = Append(event_fifo, TA!TagRead(tags', FALSE))
      <4>1. /\ Len(event_fifo') = Len(event_fifo) + 1
            /\ \A i \in 1 .. Len(event_fifo) : event_fifo'[i] = event_fifo[i]
            /\ event_fifo'[Len(event_fifo) + 1] = TA!TagRead(tags', FALSE)
        BY <1>t, <2>4, <3>2, AppendAt
      <4>2. \A i \in 1 .. Len(event_fifo) + 1 : i \in 1 .. Len(event_fifo) \/ i = Len(event_fifo) + 1
        BY <1>t
      <4>3. QED
        BY <1>f, <2>1, <2>4, <4>1, <4>2
    <3>3. QED
      BY <2>1, <3>1, <3>2
  <2>6. QED
    BY <1>e, <1>q, <1>l, <2>1, <2>2, <2>5 DEF AccessEnds
<1>2. CASE TA!EndsRound \/ TA!DwellTimeEnds \/ TA!StopOp
  <2>1. /\ op /\ ~op' /\ UNCHANGED <<queue, pc>> /\ UNCHANGED <<runs, ex10_result>>
        /\ event_fifo' = Append(event_fifo, TA!Summary(done_reason'))
        /\ done_reason' \in {"Done", "Regulatory", "Host"}
    BY <1>2, AccessRoundEnds
  <2>2. ~Over
    BY <2>1 DEF Over
  <2>3. /\ TA!Summary(done_reason') \in AccessPackets
        /\ Final(TA!Summary(done_reason')) => done_reason' # "Regulatory"
    BY <2>1, PacketKinds
  <2>4. /\ Len(event_fifo') = Len(event_fifo) + 1
        /\ \A i \in 1 .. Len(event_fifo) : event_fifo'[i] = event_fifo[i]
        /\ event_fifo'[Len(event_fifo) + 1] = TA!Summary(done_reason')
    BY <1>t, <2>1, <2>3, AppendAt
  <2>5. \A i \in 1 .. Len(event_fifo) + 1 : i \in 1 .. Len(event_fifo) \/ i = Len(event_fifo) + 1
    BY <1>t
  <2>6. \A i \in 1 .. Len(event_fifo') : Final(event_fifo'[i]) => i = Len(event_fifo') /\ done_reason' # "Regulatory"
    BY <1>f, <2>1, <2>3, <2>4, <2>5
  <2>7. pc'["irq"] # "restart"
    BY <1>r, <2>1
  <2>8. ~(pc'["app"] = "idle" /\ AccessLive')
    BY <1>e, <1>l, <2>1
  <2>9. QED
    BY <1>q, <2>1, <2>2, <2>6, <2>7, <2>8 DEF AccessEnds
<1>3. CASE TA!HandlerReadsStatus
  <2>1. /\ pc["irq"] = "idle" /\ irq_pending /\ TA!Goto("irq", IF round_done THEN "round" ELSE "fifo")
        /\ UNCHANGED <<op, done_reason, queue, event_fifo>> /\ UNCHANGED <<runs, ex10_result>>
    BY <1>3 DEF TA!HandlerReadsStatus
  <2>2. op \/ round_done
    BY <1>r, <2>1
  <2>3. pc'["irq"] # "restart" /\ pc'["app"] = pc["app"]
    BY <2>1, AccessGoto
  <2>4. ~Over
    BY <2>2 DEF Over
  <2>5. QED
    BY <1>e, <1>q, <1>l, <2>1, <2>2, <2>3, <2>4 DEF AccessEnds
<1>4. CASE TA!RoundDone \/ TA!Restart \/ TA!TagLost
  <2>1. /\ pc["irq"] # "idle" /\ UNCHANGED <<done_reason, event_fifo>> /\ UNCHANGED <<runs, ex10_result>>
        /\ queue' \in {queue, Append(queue, TA!Packet("Ex10Result"))}
    BY <1>4, AccessPushError DEF TA!RoundDone, TA!Restart, TA!TagLost
  <2>2. ~Over
    BY <2>1 DEF Over
  <2>3. TA!Packet("Ex10Result") \in AccessPackets /\ ~Final(TA!Packet("Ex10Result"))
    BY PacketKinds
  <2>4. \A i \in 1 .. Len(queue') : ~Final(queue'[i])
    <3>1. CASE queue' = Append(queue, TA!Packet("Ex10Result"))
      <4>1. /\ Len(queue') = Len(queue) + 1
            /\ \A i \in 1 .. Len(queue) : queue'[i] = queue[i]
            /\ queue'[Len(queue) + 1] = TA!Packet("Ex10Result")
        BY <1>t, <2>3, <3>1, AppendAt
      <4>2. \A i \in 1 .. Len(queue) + 1 : i \in 1 .. Len(queue) \/ i = Len(queue) + 1
        BY <1>t
      <4>3. QED
        BY <1>q, <2>2, <2>3, <4>1, <4>2
    <3>2. QED
      BY <1>q, <2>1, <2>2, <3>1
  <2>5. \A i \in 1 .. Len(event_fifo') : Final(event_fifo'[i]) =>
            i = Len(event_fifo') /\ ~op' /\ done_reason' # "Regulatory" /\ pc'["irq"] # "restart"
    <3>1. CASE TA!RoundDone
      <4>1. /\ op' = op
            /\ \/ TA!Goto("irq", IF done_reason = "Regulatory" THEN "restart" ELSE "lost")
               \/ TA!Goto("irq", "fifo")
        BY <3>1 DEF TA!RoundDone
      <4>2. done_reason # "Regulatory" => pc'["irq"] # "restart"
        BY <4>1, AccessGoto
      <4>3. QED
        BY <1>e, <2>1, <4>1, <4>2
    <3>2. CASE TA!Restart
      <4>1. pc["irq"] = "restart"
        BY <3>2 DEF TA!Restart
      <4>2. QED
        BY <1>e, <2>1, <4>1
    <3>3. CASE TA!TagLost
      <4>1. op' = op /\ TA!Goto("irq", "fifo")
        BY <3>3 DEF TA!TagLost
      <4>2. pc'["irq"] # "restart"
        BY <4>1, AccessGoto
      <4>3. QED
        BY <1>e, <2>1, <4>1, <4>2
    <3>4. QED
      BY <1>4, <3>1, <3>2, <3>3
  <2>6. pc'["app"] = pc["app"]
    <3>1. \E step : TA!Goto("irq", step)
      BY <1>4 DEF TA!RoundDone, TA!Restart, TA!TagLost
    <3>2. QED
      BY <3>1, AccessGoto
  <2>7. QED
    BY <1>e, <1>l, <2>1, <2>4, <2>5, <2>6 DEF AccessEnds
<1>5. CASE TA!ReadEventFifo
  <2>1. /\ pc["irq"] = "fifo" /\ event_fifo' = SubSeq(event_fifo, num_bytes + 1, Len(event_fifo))
        /\ queue' = queue \o SubSeq(event_fifo, 1, num_bytes)
        /\ UNCHANGED <<op, done_reason, round_done>> /\ UNCHANGED <<runs, ex10_result>>
        /\ TA!Goto("irq", "idle")
    BY <1>5 DEF TA!ReadEventFifo
  <2>2. pc'["irq"] = "idle" /\ pc'["app"] = pc["app"]
    BY <2>1, AccessGoto
  <2>3. ~Over
    BY <2>1 DEF Over
  <2>4. /\ num_bytes <= Len(event_fifo)
        /\ event_fifo' \in Seq(AccessPackets) /\ Len(event_fifo') = Len(event_fifo) - num_bytes
        /\ \A i \in 1 .. Len(event_fifo) - num_bytes : event_fifo'[i] = event_fifo[num_bytes + i]
        /\ Len(queue') = Len(queue) + num_bytes
        /\ \A i \in 1 .. Len(queue) : queue'[i] = queue[i]
        /\ \A i \in 1 .. num_bytes : queue'[Len(queue) + i] = event_fifo[i]
    <3> DEFINE rest == SubSeq(event_fifo, num_bytes + 1, Len(event_fifo))
               grown == queue \o SubSeq(event_fifo, 1, num_bytes)
    <3>1. /\ num_bytes \in Nat /\ num_bytes <= Len(event_fifo)
          /\ queue \in Seq(AccessPackets) /\ event_fifo \in Seq(AccessPackets)
      BY <1>t, <2>1
    <3>2. /\ rest \in Seq(AccessPackets) /\ Len(rest) = Len(event_fifo) - num_bytes
          /\ \A i \in 1 .. Len(event_fifo) - num_bytes : rest[i] = event_fifo[num_bytes + i]
          /\ Len(grown) = Len(queue) + num_bytes
          /\ \A i \in 1 .. Len(queue) : grown[i] = queue[i]
          /\ \A i \in 1 .. num_bytes : grown[Len(queue) + i] = event_fifo[i]
      <4>1. /\ rest \in Seq(AccessPackets) /\ Len(rest) = Len(event_fifo) - num_bytes
            /\ \A i \in 1 .. Len(event_fifo) - num_bytes : rest[i] = event_fifo[num_bytes + i]
        BY <3>1, ReadAt
      <4>2. /\ Len(grown) = Len(queue) + num_bytes
            /\ \A i \in 1 .. Len(queue) : grown[i] = queue[i]
        BY <3>1, ReadAt
      <4>3. \A i \in 1 .. num_bytes : grown[Len(queue) + i] = event_fifo[i]
        BY <3>1, ReadAt
      <4>4. QED
        BY ONLY <4>1, <4>2, <4>3
    <3>3. event_fifo' = rest /\ queue' = grown
      BY <2>1
    <3> HIDE DEF rest, grown
    <3>4. QED
      BY ONLY <3>1, <3>2, <3>3
  <2>5. ASSUME NEW i \in 1 .. Len(event_fifo'), Final(event_fifo'[i])
        PROVE  i = Len(event_fifo') /\ ~op' /\ done_reason' # "Regulatory" /\ pc'["irq"] # "restart"
    <3>1. num_bytes + i \in 1 .. Len(event_fifo) /\ event_fifo'[i] = event_fifo[num_bytes + i]
      <4>1. \A m, n \in Nat : n <= m => \A k \in 1 .. m - n : n + k \in 1 .. m
        OBVIOUS
      <4>2. num_bytes + i \in 1 .. Len(event_fifo)
        BY <1>t, <2>4, <4>1
      <4>3. QED
        BY <2>4, <4>2
    <3>2. InFifo(num_bytes + i)
      BY <1>e, <2>5, <3>1
    <3>3. QED
      BY <1>t, <2>1, <2>2, <2>4, <3>2
  <2>6. ASSUME NEW i \in 1 .. Len(queue'), Final(queue'[i])
        PROVE  /\ ~op' /\ ~round_done' /\ pc'["irq"] = "idle" /\ event_fifo' = <<>>
               /\ \A j \in 1 .. Len(queue') : j > i => ~Read(queue'[j])
    <3>1. PICK k \in 1 .. num_bytes : i = Len(queue) + k
      <4>1. i \in 1 .. Len(queue) \/ (i - Len(queue) \in 1 .. num_bytes /\ i = Len(queue) + (i - Len(queue)))
        BY <1>t, <2>4
      <4>2. i \notin 1 .. Len(queue)
        BY <1>q, <2>3, <2>4, <2>6
      <4>3. QED
        BY <4>1, <4>2
    <3>2. k \in 1 .. Len(event_fifo) /\ Final(event_fifo[k])
      BY <1>t, <2>4, <2>6, <3>1
    <3>3. InFifo(k)
      BY <1>e, <3>2
    <3>4. num_bytes = Len(event_fifo) /\ i = Len(queue') /\ ~op
      <4>1. k = Len(event_fifo) /\ ~op
        BY <3>3
      <4>2. k \in 1 .. num_bytes /\ num_bytes <= Len(event_fifo) /\ Len(queue') = Len(queue) + num_bytes
        BY <2>4
      <4>3. num_bytes = Len(event_fifo)
        BY ONLY <1>t, <4>1, <4>2
      <4>4. QED
        BY <3>1, <4>1, <4>2, <4>3
    <3>5. ~round_done
      BY <1>r, <1>t, <2>1, <3>4
    <3>6. event_fifo' = <<>>
      BY <1>t, <2>4, <3>4
    <3>7. QED
      BY <1>t, <2>1, <2>2, <2>4, <3>4, <3>5, <3>6
  <2>7. QED
    BY <1>e, <1>l, <2>1, <2>2, <2>5, <2>6 DEF AccessEnds
<1>6. CASE TA!RunInventory \/ TA!StartInventory
  <2>1. Quiet /\ UNCHANGED <<queue, event_fifo>>
    <3>1. CASE TA!RunInventory
      <4>1. runs < 1 /\ runs \in {0, 1} /\ UNCHANGED <<queue, event_fifo>>
        BY <3>1 DEF TA!RunInventory, AccessStarts
      <4>2. QED
        BY <4>1 DEF AccessStarts
    <3>2. CASE TA!StartInventory
      BY <3>2 DEF TA!StartInventory, AccessStarts
    <3>3. QED
      BY <1>6, <3>1, <3>2
  <2>2. Len(<<>>) = 0
    OBVIOUS
  <2>3. ~(pc'["app"] = "idle" /\ AccessLive')
    <3>1. CASE TA!RunInventory
      <4>1. TA!Goto("app", "start")
        BY <3>1 DEF TA!RunInventory
      <4>2. QED
        BY <4>1, AccessGoto
    <3>2. CASE TA!StartInventory
      <4>1. TA!Goto("app", "peek") \/ ex10_result' = "error"
        BY <3>2 DEF TA!StartInventory
      <4>2. QED
        BY <4>1, AccessGoto DEF AccessLive
    <3>3. QED
      BY <1>6, <3>1, <3>2
  <2>4. QED
    BY <2>1, <2>2, <2>3 DEF AccessEnds, Quiet
<1>7. CASE TA!Peek \/ TA!CallbackPacket
  <2>1. /\ queue # <<>> /\ queue' = Tail(queue)
        /\ UNCHANGED <<op, done_reason, round_done, event_fifo>>
        /\ UNCHANGED pc \/ \E step : TA!Goto("app", step)
    BY <1>7 DEF TA!Peek, TA!CallbackPacket
  <2>2. pc'["irq"] = pc["irq"]
    BY <2>1, AccessGoto
  <2>3. /\ Head(queue) = queue[1] /\ Len(queue') = Len(queue) - 1 /\ Len(queue) >= 1
        /\ \A i \in 1 .. Len(queue) - 1 : queue'[i] = queue[i + 1]
    BY <1>t, <2>1, TailAt
  <2>4. ASSUME NEW i \in 1 .. Len(queue'), Final(queue'[i])
        PROVE  Over /\ \A j \in 1 .. Len(queue') : j > i => ~Read(queue'[j])
    <3>1. i + 1 \in 1 .. Len(queue) /\ queue'[i] = queue[i + 1]
      BY <1>t, <2>3
    <3>2. Over /\ Last(i + 1)
      BY <1>e, <2>4, <3>1
    <3>3. \A j \in 1 .. Len(queue') : j > i => ~Read(queue'[j])
      <4>1. \A j \in 1 .. Len(queue') : j + 1 \in 1 .. Len(queue) /\ queue'[j] = queue[j + 1] /\ (j > i => j + 1 > i + 1)
        BY <1>t, <2>3
      <4>2. QED
        BY <3>2, <4>1 DEF Last
    <3>4. QED
      BY <3>2, <3>3
  <2>5. pc'["app"] = "idle" /\ AccessLive' => Over
    <3>1. CASE TA!CallbackPacket
      <4>1. pc["app"] = "callback" /\ pc' = pc
        BY <3>1 DEF TA!CallbackPacket
      <4>2. QED
        BY <4>1
    <3>2. CASE TA!Peek
      <4>1. \/ \E step : step \in {"callback", "send_resume"} /\ TA!Goto("app", step)
            \/ ex10_result' = "error"
            \/ Final(Head(queue))
            \/ pc["app"] = "peek" /\ pc' = pc
        BY <3>2 DEF TA!Peek, Final
      <4>2. Final(Head(queue)) => Over
        BY <1>e, <1>t, <2>3
      <4>3. QED
        BY <4>1, <4>2, AccessGoto DEF AccessLive
    <3>3. QED
      BY <1>7, <3>1, <3>2
  <2>6. QED
    BY <1>e, <2>1, <2>2, <2>4, <2>5 DEF AccessEnds, Over
<1>8. CASE \/ TA!PublishTimesOut \/ TA!ExecuteAccessCommands \/ TA!CallbackReturns \/ TA!Drained
           \/ TA!StillHalted \/ TA!ContinueFromHalted
  <2>1. /\ UNCHANGED <<op, done_reason, round_done, event_fifo, queue>>
        /\ UNCHANGED pc \/ \E step : TA!Goto("app", step)
    BY <1>8 DEF TA!PublishTimesOut, TA!ExecuteAccessCommands, TA!CallbackReturns, TA!Drained,
       TA!StillHalted, TA!ContinueFromHalted
  <2>2. pc'["irq"] = pc["irq"]
    BY <2>1, AccessGoto
  <2>3. ~(pc'["app"] = "idle" /\ AccessLive')
    <3>1. \/ ex10_result' = "error"
          \/ pc["app"] # "idle" /\ pc' = pc
          \/ \E step : step # "idle" /\ TA!Goto("app", step)
      BY <1>8 DEF TA!PublishTimesOut, TA!ExecuteAccessCommands, TA!CallbackReturns, TA!Drained,
         TA!StillHalted, TA!ContinueFromHalted
    <3>2. QED
      BY <3>1, AccessGoto DEF AccessLive
  <2>4. QED
    BY <1>e, <2>1, <2>2, <2>3 DEF AccessEnds, Over, Last
<1>9. CASE TA!SendHaltedSequence
  <2>1. /\ UNCHANGED <<op, done_reason, round_done, queue>> /\ TA!Goto("app", "callback")
        /\ \/ UNCHANGED event_fifo
           \/ /\ halted_tag # 0
              /\ event_fifo' = event_fifo \o <<TA!Packet("Gen2Transaction"), TA!Packet("Halted")>>
    BY <1>9 DEF TA!SendHaltedSequence
  <2>2. pc'["irq"] = pc["irq"] /\ pc'["app"] # "idle"
    BY <2>1, AccessGoto
  <2>3. CASE UNCHANGED event_fifo
    BY <1>e, <2>1, <2>2, <2>3 DEF AccessEnds, Over, Last
  <2>4. CASE /\ halted_tag # 0
             /\ event_fifo' = event_fifo \o <<TA!Packet("Gen2Transaction"), TA!Packet("Halted")>>
    <3>1. op /\ ~Over
      BY <1>r, <2>4 DEF Over
    <3>2. /\ TA!Packet("Gen2Transaction") \in AccessPackets /\ ~Final(TA!Packet("Gen2Transaction"))
          /\ TA!Packet("Halted") \in AccessPackets /\ ~Final(TA!Packet("Halted"))
      BY PacketKinds
    <3>3. /\ Len(event_fifo') = Len(event_fifo) + 2
          /\ \A i \in 1 .. Len(event_fifo) : event_fifo'[i] = event_fifo[i]
          /\ event_fifo'[Len(event_fifo) + 1] = TA!Packet("Gen2Transaction")
          /\ event_fifo'[Len(event_fifo) + 2] = TA!Packet("Halted")
      BY <1>t, <2>4, <3>2, AppendTwoAt
    <3>4. \A i \in 1 .. Len(event_fifo) + 2 :
              i \in 1 .. Len(event_fifo) \/ i = Len(event_fifo) + 1 \/ i = Len(event_fifo) + 2
      BY <1>t
    <3>5. \A i \in 1 .. Len(event_fifo') : ~Final(event_fifo'[i])
      BY <1>f, <3>1, <3>2, <3>3, <3>4
    <3>6. QED
      BY <1>q, <2>1, <2>2, <3>1, <3>5 DEF AccessEnds
  <2>5. QED
    BY <2>1, <2>3, <2>4
<1>10. CASE TA!Reinit \/ UNCHANGED TA!vars
  <2>1. /\ UNCHANGED <<op, done_reason, round_done, event_fifo, pc>> /\ UNCHANGED <<runs, ex10_result>>
        /\ queue' \in {queue, <<>>}
    BY <1>10 DEF TA!Reinit, TA!vars
  <2>2. Len(<<>>) = 0
    OBVIOUS
  <2>3. \A i \in 1 .. Len(queue') : Final(queue'[i]) => Over /\ \A j \in 1 .. Len(queue') : j > i => ~Read(queue'[j])
    BY <1>e, <2>1, <2>2 DEF Last
  <2>4. QED
    BY <1>e, <1>l, <2>1, <2>3 DEF AccessEnds, Over
<1>11. QED
  BY <1>1, <1>2, <1>3, <1>4, <1>5, <1>6, <1>7, <1>8, <1>9, <1>10
  DEF TA!Next, TA!Handles, TA!Publishes, TA!Commands

(* While no timer cut the round: the TagRead that tells of the halt is the *)
(* last that was sent, it tells of the tag the Ex10 is still halted on,    *)
(* and what the callback does for it follows before the next.              *)
NoReads(list) == \A i \in 1 .. Len(list) : ~Read(list[i])

Uncut == AccessLive /\ tag_halted_callback /\ expiries = 0

FifoHalts ==
    \A i \in 1 .. Len(event_fifo) : HaltedRead(event_fifo[i]) =>
        /\ halted_tag = event_fifo[i].tag /\ halted_tag # 0
        /\ \A j \in 1 .. Len(event_fifo) : j > i => ~Read(event_fifo[j])
QueueHalts ==
    \A i \in 1 .. Len(queue) : HaltedRead(queue[i]) =>
        /\ halted_tag = queue[i].tag /\ halted_tag # 0 /\ NoReads(event_fifo)
        /\ \A j \in 1 .. Len(queue) : j > i => ~Read(queue[j])

Called == pc["app"] \in {"callback", "go", "drained", "still_halted", "send_resume"}
Acts == pc["app"] \in {"go", "send_resume"} \/ (pc["app"] = "callback" /\ expects # <<>>)
Taken == halted_tag = tag_read.tag /\ halted_tag # 0 /\ NoReads(queue) /\ NoReads(event_fifo)
CallHalts ==
    /\ Called /\ HaltedRead(tag_read) => Taken
    /\ Acts => HaltedRead(tag_read)

AccessHalts == FifoHalts /\ QueueHalts /\ CallHalts

LEMMA NoReadsAppend ==
    ASSUME NEW list \in Seq(AccessPackets), NEW e \in AccessPackets, NoReads(list), ~Read(e)
    PROVE  NoReads(Append(list, e))
<1>1. /\ Len(Append(list, e)) = Len(list) + 1 /\ Len(list) \in Nat
      /\ \A i \in 1 .. Len(list) : Append(list, e)[i] = list[i]
      /\ Append(list, e)[Len(list) + 1] = e
  BY AppendAt
<1>2. \A i \in 1 .. Len(list) + 1 : i \in 1 .. Len(list) \/ i = Len(list) + 1
  BY <1>1
<1>3. QED
  BY <1>1, <1>2 DEF NoReads

LEMMA NoReadsAppendTwo ==
    ASSUME NEW list \in Seq(AccessPackets), NEW d \in AccessPackets, NEW e \in AccessPackets,
           NoReads(list), ~Read(d), ~Read(e)
    PROVE  NoReads(list \o <<d, e>>)
<1>1. /\ Len(list \o <<d, e>>) = Len(list) + 2 /\ Len(list) \in Nat
      /\ \A i \in 1 .. Len(list) : (list \o <<d, e>>)[i] = list[i]
      /\ (list \o <<d, e>>)[Len(list) + 1] = d /\ (list \o <<d, e>>)[Len(list) + 2] = e
  BY AppendTwoAt
<1>2. \A i \in 1 .. Len(list) + 2 : i \in 1 .. Len(list) \/ i = Len(list) + 1 \/ i = Len(list) + 2
  BY <1>1
<1>3. QED
  BY <1>1, <1>2 DEF NoReads

LEMMA NoReadsTail ==
    ASSUME NEW list \in Seq(AccessPackets), list # <<>>, NoReads(list)
    PROVE  NoReads(Tail(list))
<1>1. /\ Len(Tail(list)) = Len(list) - 1 /\ Len(list) \in Nat /\ Len(list) >= 1
      /\ \A i \in 1 .. Len(list) - 1 : Tail(list)[i] = list[i + 1]
  BY TailAt
<1>2. \A i \in 1 .. Len(list) - 1 : i + 1 \in 1 .. Len(list)
  BY <1>1
<1>3. QED
  BY <1>1, <1>2 DEF NoReads

LEMMA UncutStays ==
    ASSUME AccessStarts, TA!Next \/ UNCHANGED TA!vars, ~TA!RunInventory, Uncut', expiries \in Nat
    PROVE  Uncut
<1>1. /\ runs' = runs /\ tag_halted_callback' = tag_halted_callback
      /\ ex10_result' = ex10_result \/ ex10_result' = "error"
      /\ expiries' \in {expiries, expiries + 1}
  BY DEF TA!Next, TA!Handles, TA!Publishes, TA!Commands, TA!ReadsTag, TA!EndsRound,
     TA!DwellTimeEnds, TA!StopOp, TA!HandlerReadsStatus, TA!RoundDone, TA!Restart, TA!TagLost,
     TA!ReadEventFifo, TA!Reinit, TA!StartInventory, TA!PublishTimesOut, TA!Peek, TA!vars,
     TA!CallbackPacket, TA!ExecuteAccessCommands, TA!SendHaltedSequence, TA!CallbackReturns,
     TA!Drained, TA!StillHalted, TA!ContinueFromHalted, TA!UnchangedByChip, TA!UnchangedByPublish, TA!Return
<1>2. QED
  BY <1>1 DEF Uncut, AccessLive

LEMMA AccessHaltsStep ==
    ASSUME AccessTypes, AccessStarts, AccessRound, AccessEnds, Uncut => AccessHalts, Read(tag_read),
           TA!Next \/ UNCHANGED TA!vars, Uncut'
    PROVE  AccessHalts'
<1> USE DEF TA!chip, TA!callback, TA!ghosts, TA!UnchangedByChip, TA!UnchangedByPublish, TA!Return,
        TA!At, TA!Command
<1>1. CASE TA!RunInventory
  <2>1. runs < 1 /\ runs \in {0, 1} /\ UNCHANGED <<queue, event_fifo, halted_tag>> /\ TA!Goto("app", "start")
    BY <1>1 DEF TA!RunInventory, AccessStarts
  <2>2. Quiet
    BY <2>1 DEF AccessStarts
  <2>3. pc'["app"] = "start" /\ Len(<<>>) = 0
    BY <2>1, AccessGoto
  <2>4. QED
    BY <2>1, <2>2, <2>3 DEF AccessHalts, FifoHalts, QueueHalts, CallHalts, Called, Acts, Quiet
<1> SUFFICES ASSUME ~TA!RunInventory PROVE AccessHalts'
  BY <1>1
<1> DEFINE InFifo(i) == /\ halted_tag = event_fifo[i].tag /\ halted_tag # 0
                        /\ \A j \in 1 .. Len(event_fifo) : j > i => ~Read(event_fifo[j])
           InQueue(i) == /\ halted_tag = queue[i].tag /\ halted_tag # 0 /\ NoReads(event_fifo)
                         /\ \A j \in 1 .. Len(queue) : j > i => ~Read(queue[j])
<1>t. /\ queue \in Seq(AccessPackets) /\ event_fifo \in Seq(AccessPackets)
      /\ Len(queue) \in Nat /\ Len(event_fifo) \in Nat /\ num_bytes \in Nat
      /\ tags \in Nat /\ expiries \in Nat
      /\ pc["irq"] # "idle" => num_bytes <= Len(event_fifo)
  BY DEF AccessTypes
<1>u. Uncut
  BY <1>t, UncutStays
<1>h. /\ \A i \in 1 .. Len(event_fifo) : HaltedRead(event_fifo[i]) => InFifo(i)
      /\ \A i \in 1 .. Len(queue) : HaltedRead(queue[i]) => InQueue(i)
      /\ Called /\ HaltedRead(tag_read) => Taken
      /\ Acts => HaltedRead(tag_read)
  BY <1>u DEF AccessHalts, FifoHalts, QueueHalts, CallHalts
<1>c. /\ Called <=> pc["app"] \in {"callback", "go", "drained", "still_halted", "send_resume"}
      /\ Acts <=> pc["app"] \in {"go", "send_resume"} \/ (pc["app"] = "callback" /\ expects # <<>>)
      /\ Called' <=> pc'["app"] \in {"callback", "go", "drained", "still_halted", "send_resume"}
      /\ Acts' <=> pc'["app"] \in {"go", "send_resume"} \/ (pc'["app"] = "callback" /\ expects' # <<>>)
  BY DEF Called, Acts
<1>z. halted_tag = 0 =>
        /\ \A i \in 1 .. Len(event_fifo) : ~HaltedRead(event_fifo[i])
        /\ \A i \in 1 .. Len(queue) : ~HaltedRead(queue[i])
        /\ Called => ~HaltedRead(tag_read)
        /\ ~Acts
  BY <1>h, <1>c DEF InFifo, InQueue, Taken
<1>k. \A p \in AccessPackets : HaltedRead(p) => Read(p)
  BY PacketKinds
<1>n. /\ NoReads(event_fifo) => \A i \in 1 .. Len(event_fifo) : ~HaltedRead(event_fifo[i])
      /\ NoReads(queue) => \A i \in 1 .. Len(queue) : ~HaltedRead(queue[i])
  BY DEF NoReads, HaltedRead, Read
<1> HIDE DEF InFifo, InQueue
<1>2. CASE TA!ReadsTag
  <2>1. /\ halted_tag = 0 /\ UNCHANGED <<queue, pc, tag_read, expects>> /\ tags' = tags + 1
        /\ \/ /\ halted_tag' = tags'
              /\ event_fifo' = event_fifo \o <<TA!TagRead(tags', TRUE), TA!Packet("Halted")>>
           \/ /\ halted_tag' = halted_tag
              /\ event_fifo' = Append(event_fifo, TA!TagRead(tags', FALSE))
    BY <1>2 DEF TA!ReadsTag
  <2>2. tags' \in Nat /\ tags' # 0
    BY <1>t, <2>1
  <2>3. /\ TA!TagRead(tags', TRUE) \in AccessPackets /\ TA!TagRead(tags', TRUE).tag = tags'
        /\ TA!TagRead(tags', FALSE) \in AccessPackets /\ ~HaltedRead(TA!TagRead(tags', FALSE))
        /\ TA!Packet("Halted") \in AccessPackets /\ ~HaltedRead(TA!Packet("Halted"))
        /\ ~Read(TA!Packet("Halted"))
    BY <2>2, PacketKinds
  <2>4. \A i \in 1 .. Len(event_fifo') : HaltedRead(event_fifo'[i]) =>
            /\ halted_tag' = event_fifo'[i].tag /\ halted_tag' # 0
            /\ \A j \in 1 .. Len(event_fifo') : j > i => ~Read(event_fifo'[j])
    <3>1. CASE event_fifo' = event_fifo \o <<TA!TagRead(tags', TRUE), TA!Packet("Halted")>> /\ halted_tag' = tags'
      <4>0. ASSUME NEW d \in AccessPackets, NEW e \in AccessPackets, event_fifo' = event_fifo \o <<d, e>>
            PROVE  /\ Len(event_fifo') = Len(event_fifo) + 2
                   /\ \A i \in 1 .. Len(event_fifo) : event_fifo'[i] = event_fifo[i]
                   /\ event_fifo'[Len(event_fifo) + 1] = d /\ event_fifo'[Len(event_fifo) + 2] = e
        BY <1>t, <4>0, AppendTwoAt
      <4>1. /\ Len(event_fifo') = Len(event_fifo) + 2
            /\ \A i \in 1 .. Len(event_fifo) : event_fifo'[i] = event_fifo[i]
            /\ event_fifo'[Len(event_fifo) + 1] = TA!TagRead(tags', TRUE)
            /\ event_fifo'[Len(event_fifo) + 2] = TA!Packet("Halted")
        BY ONLY <2>3, <3>1, <4>0
      <4>2. \A i \in 1 .. Len(event_fifo) + 2 :
                i \in 1 .. Len(event_fifo) \/ i = Len(event_fifo) + 1 \/ i = Len(event_fifo) + 2
        BY <1>t
      <4>3. \A i \in 1 .. Len(event_fifo') : HaltedRead(event_fifo'[i]) => i = Len(event_fifo) + 1
        BY <1>z, <2>1, <2>3, <4>1, <4>2
      <4>4. \A j \in 1 .. Len(event_fifo') : j > Len(event_fifo) + 1 => j = Len(event_fifo) + 2
        BY <1>t, <4>1
      <4>5. QED
        BY <2>2, <2>3, <3>1, <4>1, <4>3, <4>4
    <3>2. CASE event_fifo' = Append(event_fifo, TA!TagRead(tags', FALSE))
      <4>0. ASSUME NEW e \in AccessPackets, event_fifo' = Append(event_fifo, e)
            PROVE  /\ Len(event_fifo') = Len(event_fifo) + 1 /\ event_fifo'[Len(event_fifo) + 1] = e
                   /\ \A i \in 1 .. Len(event_fifo) : event_fifo'[i] = event_fifo[i]
        BY <1>t, <4>0, AppendAt
      <4>1. /\ Len(event_fifo') = Len(event_fifo) + 1
            /\ \A i \in 1 .. Len(event_fifo) : event_fifo'[i] = event_fifo[i]
            /\ event_fifo'[Len(event_fifo) + 1] = TA!TagRead(tags', FALSE)
        BY ONLY <2>3, <3>2, <4>0
      <4>2. \A i \in 1 .. Len(event_fifo) + 1 : i \in 1 .. Len(event_fifo) \/ i = Len(event_fifo) + 1
        BY <1>t
      <4>3. QED
        BY <1>z, <2>1, <2>3, <4>1, <4>2
    <3>3. QED
      BY <2>1, <3>1, <3>2
  <2>5. FifoHalts'
    BY <2>4 DEF FifoHalts
  <2>6. QueueHalts' /\ CallHalts'
    BY <1>z, <1>c, <2>1 DEF QueueHalts, CallHalts
  <2>7. QED
    BY <2>5, <2>6 DEF AccessHalts
<1>3. CASE TA!EndsRound \/ TA!DwellTimeEnds \/ TA!StopOp
  <2>1. /\ halted_tag = 0 /\ halted_tag' = 0 /\ UNCHANGED <<queue, pc, tag_read, expects>>
        /\ event_fifo' = Append(event_fifo, TA!Summary(done_reason'))
        /\ done_reason' \in {"Done", "Regulatory", "Host"}
    <3>1. CASE TA!EndsRound
      BY <3>1, AccessRoundEnds DEF TA!EndsRound
    <3>2. CASE TA!DwellTimeEnds
      <4>1. expiries' = expiries + 1 /\ expiries' = 0
        BY <3>2 DEF TA!DwellTimeEnds, Uncut
      <4>2. QED
        BY <1>t, <4>1
    <3>3. CASE TA!StopOp
      BY <1>u, <3>3 DEF TA!StopOp, AccessEnds, Uncut
    <3>4. QED
      BY <1>3, <3>1, <3>2, <3>3
  <2>2. TA!Summary(done_reason') \in AccessPackets /\ ~HaltedRead(TA!Summary(done_reason'))
    BY <2>1, PacketKinds
  <2>3. \A i \in 1 .. Len(event_fifo') : ~HaltedRead(event_fifo'[i])
    <3>1. /\ Len(event_fifo') = Len(event_fifo) + 1
          /\ \A i \in 1 .. Len(event_fifo) : event_fifo'[i] = event_fifo[i]
          /\ event_fifo'[Len(event_fifo) + 1] = TA!Summary(done_reason')
      BY <1>t, <2>1, <2>2, AppendAt
    <3>2. \A i \in 1 .. Len(event_fifo) + 1 : i \in 1 .. Len(event_fifo) \/ i = Len(event_fifo) + 1
      BY <1>t
    <3>3. QED
      BY <1>z, <2>1, <2>2, <3>1, <3>2
  <2>4. FifoHalts'
    BY <2>3 DEF FifoHalts
  <2>5. QueueHalts' /\ CallHalts'
    BY <1>z, <1>c, <2>1 DEF QueueHalts, CallHalts
  <2>6. QED
    BY <2>4, <2>5 DEF AccessHalts
<1>4. ASSUME UNCHANGED <<halted_tag, event_fifo, tag_read>>,
             queue' \in {queue, <<>>, Append(queue, TA!Packet("Ex10Result"))},
             \/ pc'["app"] = pc["app"] /\ expects' = expects
             \/ pc'["app"] \in {"idle", "start", "peek"}
             \/ Called /\ pc'["app"] \in {"callback", "drained", "still_halted"} /\ expects' \in {expects, <<>>}
                  /\ (pc'["app"] = "callback" => pc["app"] = "callback")
             \/ Called /\ HaltedRead(tag_read) /\ pc'["app"] \in {"go", "send_resume"}
      PROVE  AccessHalts'
  <2>1. TA!Packet("Ex10Result") \in AccessPackets /\ ~Read(TA!Packet("Ex10Result")) /\ ~HaltedRead(TA!Packet("Ex10Result"))
    BY PacketKinds
  <2>2. NoReads(queue) => NoReads(queue')
    <3>1. NoReads(<<>>)
      <4>1. Len(<<>>) = 0
        OBVIOUS
      <4>2. QED
        BY <4>1 DEF NoReads
    <3>2. QED
      BY <1>t, <1>4, <2>1, <3>1, NoReadsAppend
  <2>3. \A i \in 1 .. Len(queue') : HaltedRead(queue'[i]) =>
            /\ halted_tag' = queue'[i].tag /\ halted_tag' # 0 /\ NoReads(event_fifo)'
            /\ \A j \in 1 .. Len(queue') : j > i => ~Read(queue'[j])
    <3>1. CASE queue' = Append(queue, TA!Packet("Ex10Result"))
      <4>1. /\ Len(queue') = Len(queue) + 1
            /\ \A i \in 1 .. Len(queue) : queue'[i] = queue[i]
            /\ queue'[Len(queue) + 1] = TA!Packet("Ex10Result")
        BY <1>t, <2>1, <3>1, AppendAt
      <4>2. \A i \in 1 .. Len(queue) + 1 : i \in 1 .. Len(queue) \/ i = Len(queue) + 1
        BY <1>t
      <4>3. QED
        BY <1>h, <1>4, <2>1, <4>1, <4>2 DEF InQueue
    <3>2. CASE queue' = <<>>
      <4>1. Len(queue') = 0
        BY <3>2
      <4>2. QED
        BY <4>1
    <3>3. CASE queue' = queue
      BY <1>h, <1>4, <3>3 DEF InQueue
    <3>4. QED
      BY <1>4, <3>1, <3>2, <3>3
  <2>4. \A i \in 1 .. Len(event_fifo') : HaltedRead(event_fifo'[i]) =>
            /\ halted_tag' = event_fifo'[i].tag /\ halted_tag' # 0
            /\ \A j \in 1 .. Len(event_fifo') : j > i => ~Read(event_fifo'[j])
    BY <1>h, <1>4 DEF InFifo
  <2>5. CallHalts'
    BY <1>h, <1>c, <1>4, <2>2 DEF Taken, CallHalts
  <2>6. FifoHalts' /\ QueueHalts'
    BY <2>3, <2>4 DEF FifoHalts, QueueHalts
  <2>7. QED
    BY <2>5, <2>6 DEF AccessHalts
<1>5. CASE TA!HandlerReadsStatus \/ TA!RoundDone \/ TA!Restart \/ TA!TagLost
  <2>1. /\ UNCHANGED <<halted_tag, event_fifo, tag_read>> /\ UNCHANGED expects
        /\ queue' \in {queue, Append(queue, TA!Packet("Ex10Result"))}
        /\ \E step : TA!Goto("irq", step)
    BY <1>5, AccessPushError DEF TA!HandlerReadsStatus, TA!RoundDone, TA!Restart, TA!TagLost
  <2>2. pc'["app"] = pc["app"]
    BY <2>1, AccessGoto
  <2>3. QED
    BY <1>4, <2>1, <2>2
<1>6. CASE TA!ReadEventFifo
  <2>1. /\ pc["irq"] = "fifo" /\ event_fifo' = SubSeq(event_fifo, num_bytes + 1, Len(event_fifo))
        /\ queue' = queue \o SubSeq(event_fifo, 1, num_bytes)
        /\ UNCHANGED <<halted_tag, tag_read, expects>>
        /\ TA!Goto("irq", "idle")
    BY <1>6 DEF TA!ReadEventFifo
  <2>2. pc'["app"] = pc["app"]
    BY <2>1, AccessGoto
  <2>n. num_bytes <= Len(event_fifo)
    BY <1>t, <2>1
  <2>3. /\ Len(event_fifo') = Len(event_fifo) - num_bytes
        /\ \A i \in 1 .. Len(event_fifo) - num_bytes : event_fifo'[i] = event_fifo[num_bytes + i]
        /\ Len(queue') = Len(queue) + num_bytes
        /\ \A i \in 1 .. Len(queue) : queue'[i] = queue[i]
        /\ \A i \in 1 .. num_bytes : queue'[Len(queue) + i] = event_fifo[i]
    BY ONLY <1>t, <2>1, <2>n, ReadAt
  <2>4. \A i \in 1 .. Len(event_fifo') :
            num_bytes + i \in 1 .. Len(event_fifo) /\ event_fifo'[i] = event_fifo[num_bytes + i]
    <3>1. \A m, n \in Nat : n <= m => \A k \in 1 .. m - n : n + k \in 1 .. m
      OBVIOUS
    <3>2. QED
      BY <1>t, <2>n, <2>3, <3>1
  <2>5. ASSUME NEW i \in 1 .. Len(queue')
        PROVE  \/ i \in 1 .. Len(queue) /\ queue'[i] = queue[i]
               \/ /\ i - Len(queue) \in 1 .. Len(event_fifo) /\ i - Len(queue) <= num_bytes
                  /\ i > Len(queue) /\ queue'[i] = event_fifo[i - Len(queue)]
    <3>1. i \in 1 .. Len(queue) \/ (i - Len(queue) \in 1 .. num_bytes /\ i = Len(queue) + (i - Len(queue)) /\ i > Len(queue))
      BY <1>t, <2>3
    <3>2. i - Len(queue) \in 1 .. num_bytes => i - Len(queue) \in 1 .. Len(event_fifo) /\ i - Len(queue) <= num_bytes
      BY <1>t, <2>n
    <3>3. QED
      BY <2>3, <3>1, <3>2
  <2>6. NoReads(event_fifo) => NoReads(event_fifo')
    BY <2>4 DEF NoReads
  <2>7. NoReads(queue) /\ NoReads(event_fifo) => NoReads(queue')
    BY <2>5 DEF NoReads
  <2>8. ASSUME NEW i \in 1 .. Len(event_fifo'), HaltedRead(event_fifo'[i])
        PROVE  /\ halted_tag' = event_fifo'[i].tag /\ halted_tag' # 0
               /\ \A j \in 1 .. Len(event_fifo') : j > i => ~Read(event_fifo'[j])
    <3>1. InFifo(num_bytes + i)
      BY <1>h, <2>4, <2>8
    <3>2. \A j \in 1 .. Len(event_fifo') : j > i => num_bytes + j > num_bytes + i
      BY <1>t
    <3>3. QED
      BY <2>1, <2>4, <3>1, <3>2 DEF InFifo
  <2>9. ASSUME NEW i \in 1 .. Len(queue'), HaltedRead(queue'[i])
        PROVE  /\ halted_tag' = queue'[i].tag /\ halted_tag' # 0 /\ NoReads(event_fifo')
               /\ \A j \in 1 .. Len(queue') : j > i => ~Read(queue'[j])
    <3>1. CASE i \in 1 .. Len(queue) /\ queue'[i] = queue[i]
      <4>1. InQueue(i)
        BY <1>h, <2>9, <3>1
      <4>2. \A j \in 1 .. Len(queue') : j > i => ~Read(queue'[j])
        BY <2>5, <4>1 DEF InQueue, NoReads
      <4>3. QED
        BY <2>1, <2>6, <3>1, <4>1, <4>2 DEF InQueue
    <3>2. CASE /\ i - Len(queue) \in 1 .. Len(event_fifo) /\ i - Len(queue) <= num_bytes
               /\ i > Len(queue) /\ queue'[i] = event_fifo[i - Len(queue)]
      <4>1. InFifo(i - Len(queue))
        BY <1>h, <2>9, <3>2
      <4>2. \A j \in 1 .. Len(event_fifo') : num_bytes + j > i - Len(queue)
        BY <1>t, <3>2
      <4>3. NoReads(event_fifo')
        BY <2>4, <4>1, <4>2 DEF InFifo, NoReads
      <4>4. \A j \in 1 .. Len(queue') : j > i => j \notin 1 .. Len(queue) /\ j - Len(queue) > i - Len(queue)
        BY <1>t, <2>3, <3>2
      <4>5. \A j \in 1 .. Len(queue') : j > i => ~Read(queue'[j])
        BY <2>5, <4>1, <4>4 DEF InFifo
      <4>6. QED
        BY <2>1, <3>2, <4>1, <4>3, <4>5 DEF InFifo
    <3>3. QED
      BY <2>5, <3>1, <3>2
  <2>10. CallHalts'
    BY <1>h, <1>c, <2>1, <2>2, <2>6, <2>7 DEF Taken, CallHalts
  <2>11. FifoHalts'
    BY <2>8 DEF FifoHalts
  <2>12. QueueHalts'
    BY <2>9 DEF QueueHalts
  <2>13. QED
    BY <2>10, <2>11, <2>12 DEF AccessHalts
<1>7. CASE TA!Reinit \/ UNCHANGED TA!vars
  <2>1. /\ UNCHANGED <<halted_tag, event_fifo, tag_read>> /\ UNCHANGED <<expects, pc>>
        /\ queue' \in {queue, <<>>}
    BY <1>7 DEF TA!Reinit, TA!vars
  <2>2. QED
    BY <1>4, <2>1
<1>8. CASE TA!StartInventory \/ TA!PublishTimesOut
  <2>1. /\ UNCHANGED <<halted_tag, event_fifo, tag_read>> /\ UNCHANGED queue
        /\ TA!Goto("app", "peek") \/ TA!Goto("app", "idle")
    BY <1>8 DEF TA!StartInventory, TA!PublishTimesOut
  <2>2. pc'["app"] \in {"idle", "peek"}
    BY <2>1, AccessGoto
  <2>3. QED
    BY <1>4, <2>1, <2>2
<1>9. CASE TA!Peek \/ TA!CallbackPacket
  <2>1. queue # <<>> /\ queue' = Tail(queue) /\ UNCHANGED <<halted_tag, event_fifo>>
    BY <1>9 DEF TA!Peek, TA!CallbackPacket
  <2>2. /\ Head(queue) = queue[1] /\ Len(queue') = Len(queue) - 1 /\ Len(queue) >= 1
        /\ \A i \in 1 .. Len(queue) - 1 : queue'[i] = queue[i + 1]
    BY <1>t, <2>1, TailAt
  <2>3. \A i \in 1 .. Len(queue') : i + 1 \in 1 .. Len(queue) /\ queue'[i] = queue[i + 1] /\ i + 1 > 1
    BY <1>t, <2>2
  <2>4. ASSUME NEW i \in 1 .. Len(queue'), HaltedRead(queue'[i])
        PROVE  /\ halted_tag' = queue'[i].tag /\ halted_tag' # 0 /\ NoReads(event_fifo')
               /\ \A j \in 1 .. Len(queue') : j > i => ~Read(queue'[j])
    <3>1. InQueue(i + 1)
      BY <1>h, <2>3, <2>4
    <3>2. \A j \in 1 .. Len(queue') : j > i => j + 1 > i + 1
      OBVIOUS
    <3>3. QED
      BY <2>1, <2>3, <3>1, <3>2 DEF InQueue
  <2>5. \A i \in 1 .. Len(event_fifo') : HaltedRead(event_fifo'[i]) =>
            /\ halted_tag' = event_fifo'[i].tag /\ halted_tag' # 0
            /\ \A j \in 1 .. Len(event_fifo') : j > i => ~Read(event_fifo'[j])
    BY <1>h, <2>1 DEF InFifo
  <2>6. (Called' /\ HaltedRead(tag_read') => Taken') /\ (Acts' => HaltedRead(tag_read'))
    <3>1. CASE TA!CallbackPacket
      <4>1. pc["app"] = "callback" /\ expects # <<>> /\ UNCHANGED <<pc, tag_read>>
        BY <3>1 DEF TA!CallbackPacket
      <4>2. HaltedRead(tag_read) /\ Taken
        BY <1>h, <1>c, <4>1
      <4>3. NoReads(queue')
        BY <1>t, <2>1, <4>2, NoReadsTail DEF Taken
      <4>4. QED
        BY <1>c, <2>1, <4>1, <4>2, <4>3 DEF Taken
    <3>2. CASE TA!Peek
      <4>1. \/ TA!Goto("app", "callback") /\ tag_read' = Head(queue) /\ Read(Head(queue))
               /\ expects' = IF Head(queue).halted_on_tag THEN TA!Access ELSE <<>>
            \/ TA!Goto("app", "idle")
            \/ pc["app"] = "peek" /\ pc' = pc
            \/ tag_halted_callback = FALSE
        BY <3>2 DEF TA!Peek, Read
      <4>2. CASE TA!Goto("app", "callback") /\ tag_read' = Head(queue) /\ Read(Head(queue))
                 /\ expects' = IF Head(queue).halted_on_tag THEN TA!Access ELSE <<>>
        <5>1. pc'["app"] = "callback"
          BY <4>2, AccessGoto
        <5>2. expects' # <<>> => HaltedRead(tag_read')
          BY <4>2 DEF HaltedRead, Read
        <5>3. HaltedRead(tag_read') => Taken'
          <6>1. 1 \in 1 .. Len(queue)
            BY <1>t, <2>2
          <6>2. HaltedRead(tag_read') => InQueue(1)
            BY <1>h, <2>2, <4>2, <6>1
          <6>3. InQueue(1) => NoReads(queue')
            BY <2>3 DEF InQueue, NoReads
          <6>4. QED
            BY <2>1, <2>2, <4>2, <6>2, <6>3 DEF InQueue, Taken
        <5>4. QED
          BY <1>c, <5>1, <5>2, <5>3
      <4>3. CASE TA!Goto("app", "idle")
        BY <1>c, <4>3, AccessGoto
      <4>4. CASE pc["app"] = "peek" /\ pc' = pc
        BY <1>c, <4>4
      <4>5. QED
        BY <1>u, <4>1, <4>2, <4>3, <4>4 DEF Uncut
    <3>3. QED
      BY <1>9, <3>1, <3>2
  <2>7. QueueHalts' /\ FifoHalts'
    BY <2>4, <2>5 DEF FifoHalts, QueueHalts
  <2>8. QED
    BY <2>6, <2>7 DEF AccessHalts, CallHalts
<1>10. CASE TA!ExecuteAccessCommands \/ TA!CallbackReturns \/ TA!Drained \/ TA!StillHalted
  <2>1. UNCHANGED <<halted_tag, event_fifo, tag_read>> /\ UNCHANGED queue /\ Called
    BY <1>10, <1>c DEF TA!ExecuteAccessCommands, TA!CallbackReturns, TA!Drained, TA!StillHalted
  <2>2. CASE TA!ExecuteAccessCommands
    <3>1. /\ pc["app"] = "callback" /\ expects # <<>>
          /\ \/ TA!Goto("app", "go")
             \/ pc' = pc /\ expects' = <<>>
      BY <2>2 DEF TA!ExecuteAccessCommands
    <3>2. HaltedRead(tag_read)
      BY <1>h, <1>c, <3>1
    <3>3. pc'["app"] = "go" \/ (pc'["app"] = "callback" /\ expects' = <<>>)
      BY <3>1, AccessGoto
    <3>4. QED
      BY <1>4, <2>1, <3>1, <3>2, <3>3
  <2>3. CASE TA!CallbackReturns
    <3>1. expects' = expects /\ (TA!Goto("app", "drained") \/ TA!Goto("app", "idle"))
      BY <2>3 DEF TA!CallbackReturns
    <3>2. pc'["app"] \in {"drained", "idle"}
      BY <3>1, AccessGoto
    <3>3. QED
      BY <1>4, <2>1, <3>1, <3>2
  <2>4. CASE TA!Drained
    <3>1. expects' = expects /\ (TA!Goto("app", "still_halted") \/ TA!Goto("app", "idle"))
      BY <2>4 DEF TA!Drained
    <3>2. pc'["app"] \in {"still_halted", "idle"}
      BY <3>1, AccessGoto
    <3>3. QED
      BY <1>4, <2>1, <3>1, <3>2
  <2>5. CASE TA!StillHalted
    <3>1. TA!Goto("app", "peek") \/ (TA!Goto("app", "send_resume") /\ tag_read.halted_on_tag)
      BY <2>5 DEF TA!StillHalted
    <3>2. pc'["app"] = "peek" \/ (pc'["app"] = "send_resume" /\ HaltedRead(tag_read))
      BY <3>1, AccessGoto DEF HaltedRead, Read
    <3>3. QED
      BY <1>4, <2>1, <3>2
  <2>6. QED
    BY <1>10, <2>2, <2>3, <2>4, <2>5
<1>11. CASE TA!SendHaltedSequence
  <2>1. /\ pc["app"] = "go" /\ TA!Goto("app", "callback") /\ UNCHANGED <<halted_tag, queue, tag_read>>
        /\ event_fifo' \in {event_fifo, event_fifo \o <<TA!Packet("Gen2Transaction"), TA!Packet("Halted")>>}
    BY <1>11 DEF TA!SendHaltedSequence
  <2>2. pc'["app"] = "callback"
    BY <2>1, AccessGoto
  <2>3. HaltedRead(tag_read) /\ Taken
    BY <1>h, <1>c, <2>1
  <2>4. NoReads(event_fifo')
    <3>1. /\ TA!Packet("Gen2Transaction") \in AccessPackets /\ ~Read(TA!Packet("Gen2Transaction"))
          /\ TA!Packet("Halted") \in AccessPackets /\ ~Read(TA!Packet("Halted"))
      BY PacketKinds
    <3>2. NoReads(event_fifo \o <<TA!Packet("Gen2Transaction"), TA!Packet("Halted")>>)
      BY <1>t, <2>3, <3>1, NoReadsAppendTwo DEF Taken
    <3>3. QED
      BY <2>1, <2>3, <3>2 DEF Taken
  <2>5. /\ \A i \in 1 .. Len(event_fifo') : ~HaltedRead(event_fifo'[i])
        /\ \A i \in 1 .. Len(queue') : ~HaltedRead(queue'[i])
    BY <1>n, <2>1, <2>3, <2>4 DEF Taken, NoReads, HaltedRead, Read
  <2>6. FifoHalts' /\ QueueHalts'
    BY <2>5 DEF FifoHalts, QueueHalts
  <2>7. CallHalts'
    BY <2>1, <2>3, <2>4 DEF CallHalts, Taken
  <2>8. QED
    BY <2>6, <2>7 DEF AccessHalts
<1>12. CASE TA!ContinueFromHalted
  <2>1. /\ pc["app"] = "send_resume" /\ UNCHANGED <<queue, event_fifo, tag_read>>
        /\ TA!Goto("app", "peek") \/ TA!Goto("app", "idle")
    BY <1>12 DEF TA!ContinueFromHalted
  <2>2. pc'["app"] \in {"peek", "idle"}
    BY <2>1, AccessGoto
  <2>3. HaltedRead(tag_read) /\ Taken
    BY <1>h, <1>c, <2>1
  <2>4. FifoHalts' /\ QueueHalts'
    BY <1>n, <2>1, <2>3 DEF FifoHalts, QueueHalts, Taken
  <2>5. CallHalts'
    BY <1>c, <2>2 DEF CallHalts
  <2>6. QED
    BY <2>4, <2>5 DEF AccessHalts
<1>13. QED
  BY <1>2, <1>3, <1>5, <1>6, <1>7, <1>8, <1>9, <1>10, <1>11, <1>12
  DEF TA!Next, TA!Handles, TA!Publishes, TA!Commands

(* While no timer cut the round: each tag that was read was offered to the *)
(* callback or waits, and all were offered when the run returns.           *)
Waits(tag, list) == \E i \in 1 .. Len(list) : Read(list[i]) /\ list[i].tag = tag

AccessOffers ==
    /\ \A tag : tag \in offered \/ Waits(tag, queue) \/ Waits(tag, event_fifo) <=> tag \in 1 .. tags
    /\ pc["app"] = "idle" => offered = 1 .. tags

LEMMA WaitsAppend ==
    ASSUME NEW list \in Seq(AccessPackets), NEW e \in AccessPackets, NEW tag
    PROVE  Waits(tag, Append(list, e)) <=> Waits(tag, list) \/ (Read(e) /\ e.tag = tag)
<1>1. /\ Len(Append(list, e)) = Len(list) + 1 /\ Len(list) \in Nat
      /\ \A i \in 1 .. Len(list) : Append(list, e)[i] = list[i]
      /\ Append(list, e)[Len(list) + 1] = e
  BY AppendAt
<1>2. \A i : i \in 1 .. Len(list) + 1 <=> i \in 1 .. Len(list) \/ i = Len(list) + 1
  BY <1>1
<1>3. QED
  BY <1>1, <1>2 DEF Waits

LEMMA WaitsAppendTwo ==
    ASSUME NEW list \in Seq(AccessPackets), NEW d \in AccessPackets, NEW e \in AccessPackets, ~Read(e), NEW tag
    PROVE  Waits(tag, list \o <<d, e>>) <=> Waits(tag, list) \/ (Read(d) /\ d.tag = tag)
<1>1. /\ Len(list \o <<d, e>>) = Len(list) + 2 /\ Len(list) \in Nat
      /\ \A i \in 1 .. Len(list) : (list \o <<d, e>>)[i] = list[i]
      /\ (list \o <<d, e>>)[Len(list) + 1] = d /\ (list \o <<d, e>>)[Len(list) + 2] = e
  BY AppendTwoAt
<1>2. \A i : i \in 1 .. Len(list) + 2 <=> i \in 1 .. Len(list) \/ i = Len(list) + 1 \/ i = Len(list) + 2
  BY <1>1
<1>3. QED
  BY <1>1, <1>2 DEF Waits

LEMMA WaitsTail ==
    ASSUME NEW list \in Seq(AccessPackets), list # <<>>, NEW tag
    PROVE  Waits(tag, list) <=> Waits(tag, Tail(list)) \/ (Read(Head(list)) /\ Head(list).tag = tag)
<1>1. /\ Len(Tail(list)) = Len(list) - 1 /\ Len(list) \in Nat /\ Len(list) >= 1
      /\ \A i \in 1 .. Len(list) - 1 : Tail(list)[i] = list[i + 1]
      /\ Head(list) = list[1]
  BY TailAt
<1>2. ASSUME Waits(tag, list)
      PROVE  Waits(tag, Tail(list)) \/ (Read(Head(list)) /\ Head(list).tag = tag)
  <2>1. PICK i \in 1 .. Len(list) : Read(list[i]) /\ list[i].tag = tag
    BY <1>2 DEF Waits
  <2>2. CASE i = 1
    BY <1>1, <2>1, <2>2
  <2>3. CASE i # 1
    <3>1. i - 1 \in 1 .. Len(list) - 1 /\ (i - 1) + 1 = i
      BY <1>1, <2>3
    <3>2. Tail(list)[i - 1] = list[i]
      BY <1>1, <3>1
    <3>3. QED
      BY <1>1, <2>1, <3>1, <3>2 DEF Waits
  <2>4. QED
    BY <2>2, <2>3
<1>3. ASSUME Waits(tag, Tail(list))
      PROVE  Waits(tag, list)
  <2>1. PICK i \in 1 .. Len(list) - 1 : Read(Tail(list)[i]) /\ Tail(list)[i].tag = tag
    BY <1>1, <1>3 DEF Waits
  <2>2. i + 1 \in 1 .. Len(list) /\ Tail(list)[i] = list[i + 1]
    BY <1>1
  <2>3. QED
    BY <2>1, <2>2 DEF Waits
<1>4. Read(Head(list)) /\ Head(list).tag = tag => Waits(tag, list)
  <2>1. 1 \in 1 .. Len(list)
    BY <1>1
  <2>2. QED
    BY <1>1, <2>1 DEF Waits
<1>5. QED
  BY <1>2, <1>3, <1>4

LEMMA WaitsRead ==
    ASSUME NEW list \in Seq(AccessPackets), NEW fifo \in Seq(AccessPackets), NEW n \in Nat, n <= Len(fifo), NEW tag
    PROVE  Waits(tag, list \o SubSeq(fifo, 1, n)) \/ Waits(tag, SubSeq(fifo, n + 1, Len(fifo)))
                <=> Waits(tag, list) \/ Waits(tag, fifo)
<1> DEFINE longer == list \o SubSeq(fifo, 1, n)
           rest == SubSeq(fifo, n + 1, Len(fifo))
<1>1. /\ Len(rest) = Len(fifo) - n
      /\ \A i \in 1 .. Len(fifo) - n : rest[i] = fifo[n + i]
      /\ Len(longer) = Len(list) + n
      /\ \A i \in 1 .. Len(list) : longer[i] = list[i]
      /\ \A i \in 1 .. n : longer[Len(list) + i] = fifo[i]
  BY ReadAt
<1>2. Len(list) \in Nat /\ Len(fifo) \in Nat
  OBVIOUS
<1> HIDE DEF longer, rest
<1>3. ASSUME Waits(tag, list) PROVE Waits(tag, longer)
  <2>1. PICK i \in 1 .. Len(list) : Read(list[i]) /\ list[i].tag = tag
    BY <1>3 DEF Waits
  <2>2. i \in 1 .. Len(longer) /\ longer[i] = list[i]
    BY <1>1, <1>2
  <2>3. QED
    BY <2>1, <2>2 DEF Waits
<1>4. ASSUME Waits(tag, fifo) PROVE Waits(tag, longer) \/ Waits(tag, rest)
  <2>1. PICK i \in 1 .. Len(fifo) : Read(fifo[i]) /\ fifo[i].tag = tag
    BY <1>4 DEF Waits
  <2>2. CASE i <= n
    <3>1. i \in 1 .. n /\ Len(list) + i \in 1 .. Len(longer)
      BY <1>1, <1>2, <2>2
    <3>2. longer[Len(list) + i] = fifo[i]
      BY <1>1, <3>1
    <3>3. QED
      BY <2>1, <3>1, <3>2 DEF Waits
  <2>3. CASE i > n
    <3>1. i - n \in 1 .. Len(rest) /\ n + (i - n) = i
      BY <1>1, <1>2, <2>3
    <3>2. rest[i - n] = fifo[i]
      BY <1>1, <3>1
    <3>3. QED
      BY <2>1, <3>1, <3>2 DEF Waits
  <2>4. QED
    BY <1>2, <2>2, <2>3
<1>5. ASSUME Waits(tag, longer) PROVE Waits(tag, list) \/ Waits(tag, fifo)
  <2>1. PICK i \in 1 .. Len(list) + n : Read(longer[i]) /\ longer[i].tag = tag
    BY <1>1, <1>5 DEF Waits
  <2>2. CASE i <= Len(list)
    <3>1. i \in 1 .. Len(list)
      BY <1>2, <2>2
    <3>2. QED
      BY <1>1, <2>1, <3>1 DEF Waits
  <2>3. CASE i > Len(list)
    <3>1. i - Len(list) \in 1 .. n /\ i - Len(list) \in 1 .. Len(fifo) /\ Len(list) + (i - Len(list)) = i
      BY <1>2, <2>3
    <3>2. longer[i] = fifo[i - Len(list)]
      BY <1>1, <3>1
    <3>3. QED
      BY <2>1, <3>1, <3>2 DEF Waits
  <2>4. QED
    BY <1>2, <2>2, <2>3
<1>6. ASSUME Waits(tag, rest) PROVE Waits(tag, fifo)
  <2>1. PICK i \in 1 .. Len(fifo) - n : Read(rest[i]) /\ rest[i].tag = tag
    BY <1>1, <1>6 DEF Waits
  <2>2. n + i \in 1 .. Len(fifo) /\ rest[i] = fifo[n + i]
    <3>1. \A m, k \in Nat : k <= m => \A j \in 1 .. m - k : k + j \in 1 .. m
      OBVIOUS
    <3>2. QED
      BY <1>1, <1>2, <3>1
  <2>3. QED
    BY <2>1, <2>2 DEF Waits
<1>7. QED
  BY <1>3, <1>4, <1>5, <1>6 DEF longer, rest

LEMMA AccessOffersStep ==
    ASSUME AccessTypes, AccessStarts, AccessRound, AccessEnds, Read(tag_read),
           Uncut => AccessHalts /\ AccessOffers, TA!Next \/ UNCHANGED TA!vars, Uncut'
    PROVE  AccessOffers'
<1> USE DEF TA!chip, TA!callback, TA!ghosts, TA!UnchangedByChip, TA!UnchangedByPublish, TA!Return,
        TA!At, TA!Command
<1>w. \A tag : ~Waits(tag, <<>>)
  <2>1. Len(<<>>) = 0
    OBVIOUS
  <2>2. QED
    BY <2>1 DEF Waits
<1>1. CASE TA!RunInventory
  <2>1. /\ runs < 1 /\ runs \in {0, 1} /\ UNCHANGED <<queue, event_fifo>>
        /\ offered' = {} /\ tags' = 0 /\ TA!Goto("app", "start")
    BY <1>1 DEF TA!RunInventory, AccessStarts
  <2>2. Quiet
    BY <2>1 DEF AccessStarts
  <2>3. pc'["app"] = "start"
    BY <2>1, AccessGoto
  <2>4. QED
    BY <1>w, <2>1, <2>2, <2>3 DEF AccessOffers, Quiet
<1> SUFFICES ASSUME ~TA!RunInventory PROVE AccessOffers'
  BY <1>1
<1>t. /\ queue \in Seq(AccessPackets) /\ event_fifo \in Seq(AccessPackets)
      /\ num_bytes \in Nat /\ tags \in Nat /\ expiries \in Nat
      /\ pc["irq"] # "idle" => num_bytes <= Len(event_fifo)
  BY DEF AccessTypes
<1>u. Uncut
  BY <1>t, UncutStays
<1>o. /\ \A tag : tag \in offered \/ Waits(tag, queue) \/ Waits(tag, event_fifo) <=> tag \in 1 .. tags
      /\ pc["app"] = "idle" => offered = 1 .. tags
  BY <1>u DEF AccessOffers
<1>i. pc["app"] = "idle" => ~op
  BY <1>u DEF AccessEnds, Uncut
<1>2. ASSUME UNCHANGED <<offered, tags>>,
             pc'["app"] = "idle" => pc["app"] = "idle",
             \A tag : Waits(tag, queue') \/ Waits(tag, event_fifo') \/ tag \in offered
                         <=> Waits(tag, queue) \/ Waits(tag, event_fifo) \/ tag \in offered
      PROVE  AccessOffers'
  BY <1>o, <1>2 DEF AccessOffers
<1>e. TA!Packet("Ex10Result") \in AccessPackets /\ ~Read(TA!Packet("Ex10Result"))
  BY PacketKinds
<1>a. \A tag : Waits(tag, Append(queue, TA!Packet("Ex10Result"))) <=> Waits(tag, queue)
  BY <1>t, <1>e, WaitsAppend
<1>3. CASE TA!ReadsTag
  <2>1. /\ op /\ UNCHANGED <<queue, pc, offered>> /\ tags' = tags + 1
        /\ \/ event_fifo' = event_fifo \o <<TA!TagRead(tags', TRUE), TA!Packet("Halted")>>
           \/ event_fifo' = Append(event_fifo, TA!TagRead(tags', FALSE))
    BY <1>3 DEF TA!ReadsTag
  <2>2. tags' \in Nat
    BY <1>t, <2>1
  <2>3. \A halted \in BOOLEAN : /\ TA!TagRead(tags', halted) \in AccessPackets /\ Read(TA!TagRead(tags', halted))
                                /\ TA!TagRead(tags', halted).tag = tags'
    BY <2>2, PacketKinds
  <2>4. TA!Packet("Halted") \in AccessPackets /\ ~Read(TA!Packet("Halted"))
    BY PacketKinds
  <2>5. \A tag : Waits(tag, event_fifo') <=> Waits(tag, event_fifo) \/ tag = tags'
    <3>1. \A d, e \in AccessPackets : ~Read(e) => \A tag :
              Waits(tag, event_fifo \o <<d, e>>) <=> Waits(tag, event_fifo) \/ (Read(d) /\ d.tag = tag)
      BY <1>t, WaitsAppendTwo
    <3>2. \A e \in AccessPackets : \A tag :
              Waits(tag, Append(event_fifo, e)) <=> Waits(tag, event_fifo) \/ (Read(e) /\ e.tag = tag)
      BY <1>t, WaitsAppend
    <3>3. CASE event_fifo' = event_fifo \o <<TA!TagRead(tags', TRUE), TA!Packet("Halted")>>
      BY ONLY <2>3, <2>4, <3>1, <3>3
    <3>4. CASE event_fifo' = Append(event_fifo, TA!TagRead(tags', FALSE))
      BY ONLY <2>3, <3>2, <3>4
    <3>5. QED
      BY <2>1, <3>3, <3>4
  <2>6. \A tag : tag \in 1 .. tags' <=> tag \in 1 .. tags \/ tag = tags'
    BY <1>t, <2>1
  <2>7. QED
    BY <1>o, <1>i, <2>1, <2>5, <2>6 DEF AccessOffers
<1>4. CASE TA!EndsRound \/ TA!DwellTimeEnds \/ TA!StopOp
  <2>1. /\ UNCHANGED <<queue, pc, offered, tags>>
        /\ event_fifo' = Append(event_fifo, TA!Summary(done_reason'))
        /\ done_reason' \in {"Done", "Regulatory", "Host"}
    BY <1>4, AccessRoundEnds
  <2>2. TA!Summary(done_reason') \in AccessPackets /\ ~Read(TA!Summary(done_reason'))
    BY <2>1, PacketKinds
  <2>3. \A tag : Waits(tag, event_fifo') <=> Waits(tag, event_fifo)
    BY <1>t, <2>1, <2>2, WaitsAppend
  <2>4. QED
    BY <1>2, <2>1, <2>3
<1>5. CASE TA!HandlerReadsStatus \/ TA!RoundDone \/ TA!Restart \/ TA!TagLost
  <2>1. /\ UNCHANGED <<event_fifo, offered, tags>>
        /\ queue' \in {queue, Append(queue, TA!Packet("Ex10Result"))}
        /\ \E step : TA!Goto("irq", step)
    BY <1>5, AccessPushError DEF TA!HandlerReadsStatus, TA!RoundDone, TA!Restart, TA!TagLost
  <2>2. pc'["app"] = pc["app"]
    BY <2>1, AccessGoto
  <2>3. QED
    BY <1>2, <1>a, <2>1, <2>2
<1>6. CASE TA!ReadEventFifo
  <2>1. /\ pc["irq"] = "fifo" /\ event_fifo' = SubSeq(event_fifo, num_bytes + 1, Len(event_fifo))
        /\ queue' = queue \o SubSeq(event_fifo, 1, num_bytes)
        /\ UNCHANGED <<offered, tags>> /\ TA!Goto("irq", "idle")
    BY <1>6 DEF TA!ReadEventFifo
  <2>2. pc'["app"] = pc["app"]
    BY <2>1, AccessGoto
  <2>3. num_bytes <= Len(event_fifo)
    BY <1>t, <2>1
  <2>4. \A tag : Waits(tag, queue') \/ Waits(tag, event_fifo') <=> Waits(tag, queue) \/ Waits(tag, event_fifo)
    BY ONLY <1>t, <2>1, <2>3, WaitsRead
  <2>5. QED
    BY <1>2, <2>1, <2>2, <2>4
<1>7. CASE TA!Reinit
  <2>1. UNCHANGED <<pc, event_fifo, offered, tags>> /\ queue' = <<>> /\ pc["app"] = "idle"
    BY <1>7 DEF TA!Reinit, TA!AtRest
  <2>2. QED
    BY <1>o, <1>w, <2>1 DEF AccessOffers
<1>8. CASE \/ TA!StartInventory \/ TA!PublishTimesOut \/ TA!ExecuteAccessCommands \/ TA!CallbackReturns
           \/ TA!Drained \/ TA!StillHalted \/ TA!ContinueFromHalted
  <2>1. /\ UNCHANGED <<event_fifo, queue, offered, tags>>
        /\ \/ pc' = pc
           \/ ex10_result' = "error"
           \/ \E step : step # "idle" /\ TA!Goto("app", step)
    BY <1>8 DEF TA!StartInventory, TA!PublishTimesOut, TA!ExecuteAccessCommands, TA!CallbackReturns,
       TA!Drained, TA!StillHalted, TA!ContinueFromHalted
  <2>2. ex10_result' # "error"
    BY DEF Uncut, AccessLive
  <2>3. pc'["app"] = "idle" => pc["app"] = "idle"
    BY <2>1, <2>2, AccessGoto
  <2>4. QED
    BY <1>2, <2>1, <2>3
<1>9. CASE TA!SendHaltedSequence
  <2>1. /\ UNCHANGED <<queue, offered, tags>> /\ TA!Goto("app", "callback")
        /\ event_fifo' \in {event_fifo, event_fifo \o <<TA!Packet("Gen2Transaction"), TA!Packet("Halted")>>}
    BY <1>9 DEF TA!SendHaltedSequence
  <2>2. pc'["app"] = "callback"
    BY <2>1, AccessGoto
  <2>3. /\ TA!Packet("Gen2Transaction") \in AccessPackets /\ ~Read(TA!Packet("Gen2Transaction"))
        /\ TA!Packet("Halted") \in AccessPackets /\ ~Read(TA!Packet("Halted"))
    BY PacketKinds
  <2>4. \A tag : Waits(tag, event_fifo') <=> Waits(tag, event_fifo)
    <3>1. \A d, e \in AccessPackets : ~Read(e) => \A tag :
              Waits(tag, event_fifo \o <<d, e>>) <=> Waits(tag, event_fifo) \/ (Read(d) /\ d.tag = tag)
      BY <1>t, WaitsAppendTwo
    <3>2. QED
      BY ONLY <2>1, <2>3, <3>1
  <2>5. QED
    BY <1>2, <2>1, <2>2, <2>4
<1>10. CASE TA!CallbackPacket
  <2>1. /\ pc["app"] = "callback" /\ expects # <<>> /\ queue # <<>> /\ queue' = Tail(queue)
        /\ UNCHANGED <<pc, event_fifo, offered, tags>>
    BY <1>10 DEF TA!CallbackPacket
  <2>2. NoReads(queue)
    BY <1>u, <2>1 DEF AccessHalts, CallHalts, Called, Acts, Taken
  <2>3. NoReads(queue')
    BY <1>t, <2>1, <2>2, NoReadsTail
  <2>4. \A tag : ~Waits(tag, queue) /\ ~Waits(tag, queue')
    BY <2>2, <2>3 DEF NoReads, Waits
  <2>5. QED
    BY <1>2, <2>1, <2>4
<1>11. CASE TA!Peek
  <2>1. pc["app"] = "peek" /\ queue # <<>> /\ queue' = Tail(queue) /\ UNCHANGED <<event_fifo, tags>>
    BY <1>11 DEF TA!Peek
  <2>2. tag_halted_callback = TRUE \/ tag_halted_callback
    BY <1>u DEF Uncut
  <2>3. \A tag : Waits(tag, queue) <=> Waits(tag, queue') \/ (Read(Head(queue)) /\ Head(queue).tag = tag)
    BY <1>t, <2>1, WaitsTail
  <2>4. CASE Read(Head(queue))
    <3>1. offered' = offered \cup {Head(queue).tag} /\ TA!Goto("app", "callback")
      BY <1>11, <2>2, <2>4 DEF TA!Peek, Read
    <3>2. pc'["app"] = "callback"
      BY <3>1, AccessGoto
    <3>3. QED
      BY <1>o, <2>1, <2>3, <2>4, <3>1, <3>2 DEF AccessOffers
  <2>5. CASE ~Read(Head(queue)) /\ ~Final(Head(queue))
    <3>1. offered' = offered /\ (pc' = pc \/ ex10_result' = "error")
      BY <1>11, <2>5 DEF TA!Peek, Read, Final
    <3>2. ex10_result' # "error"
      BY DEF Uncut, AccessLive
    <3>3. QED
      BY <1>2, <2>1, <2>3, <2>5, <3>1, <3>2
  <2>6. CASE ~Read(Head(queue)) /\ Final(Head(queue))
    <3>1. offered' = offered
      BY <1>11, <2>6 DEF TA!Peek, Read
    <3>2. Head(queue) = queue[1] /\ 1 \in 1 .. Len(queue)
      BY <1>t, <2>1, TailAt
    <3>3. event_fifo = <<>> /\ \A j \in 1 .. Len(queue) : j > 1 => ~Read(queue[j])
      BY <2>6, <3>2 DEF AccessEnds
    <3>4. \A j \in 1 .. Len(queue) : ~Read(queue[j])
      <4>1. \A j \in 1 .. Len(queue) : j = 1 \/ j > 1
        BY <1>t
      <4>2. QED
        BY <2>6, <3>2, <3>3, <4>1
    <3>5. \A tag : ~Waits(tag, queue) /\ ~Waits(tag, event_fifo)
      BY <1>w, <3>3, <3>4 DEF Waits
    <3>6. \A tag : ~Waits(tag, queue')
      BY <2>3, <3>5
    <3>7. offered = 1 .. tags
      <4>1. \A tag : tag \in offered <=> tag \in 1 .. tags
        BY <1>o, <3>5
      <4>2. QED
        BY <4>1
    <3>8. QED
      BY <1>o, <2>1, <3>1, <3>5, <3>6, <3>7 DEF AccessOffers
  <2>7. QED
    BY <2>4, <2>5, <2>6
<1>12. CASE UNCHANGED TA!vars
  BY <1>2, <1>12 DEF TA!vars
<1>13. QED
  BY <1>3, <1>4, <1>5, <1>6, <1>7, <1>8, <1>9, <1>10, <1>11, <1>12
  DEF TA!Next, TA!Handles, TA!Publishes, TA!Commands

LEMMA AccessReadStep ==
    ASSUME Read(tag_read), TA!Next \/ UNCHANGED TA!vars
    PROVE  Read(tag_read')
<1>1. tag_read' = tag_read \/ (tag_read' = Head(queue) /\ Head(queue).packet_type = "TagRead")
  BY DEF TA!Next, TA!Handles, TA!Publishes, TA!Commands, TA!ReadsTag, TA!EndsRound,
     TA!DwellTimeEnds, TA!StopOp, TA!HandlerReadsStatus, TA!RoundDone, TA!Restart, TA!TagLost,
     TA!ReadEventFifo, TA!Reinit, TA!RunInventory, TA!StartInventory, TA!PublishTimesOut, TA!Peek, TA!vars,
     TA!CallbackPacket, TA!ExecuteAccessCommands, TA!SendHaltedSequence, TA!CallbackReturns,
     TA!Drained, TA!StillHalted, TA!ContinueFromHalted, TA!UnchangedByChip, TA!UnchangedByPublish,
     TA!chip, TA!callback, TA!ghosts
<1>2. QED
  BY <1>1 DEF Read

(* A command that takes effect while no timer cut the round reaches the    *)
(* tag that it is for.                                                     *)
LEMMA AccessReachesStep ==
    ASSUME AccessTypes, AccessStarts, Uncut => AccessHalts, expiries = 0 => ~misdirected,
           TA!Next \/ UNCHANGED TA!vars
    PROVE  expiries' = 0 => ~misdirected'
<1> SUFFICES ASSUME expiries' = 0 PROVE ~misdirected'
  OBVIOUS
<1>1. CASE TA!RunInventory
  BY <1>1 DEF TA!RunInventory
<1>2. CASE TA!DwellTimeEnds
  <2>1. expiries' = expiries + 1 /\ expiries \in Nat
    BY <1>2 DEF TA!DwellTimeEnds, AccessTypes
  <2>2. QED
    BY <2>1
<1>3. CASE TA!SendHaltedSequence \/ TA!ContinueFromHalted
  <2>1. /\ pc["app"] \in {"go", "send_resume"} /\ expiries' = expiries
        /\ misdirected' = misdirected \/ TA!Reaches
    BY <1>3 DEF TA!SendHaltedSequence, TA!ContinueFromHalted, TA!At, TA!Command
  <2>2. AccessLive /\ ~misdirected
    BY <2>1 DEF AccessStarts
  <2>3. tag_halted_callback => halted_tag = tag_read.tag
    BY <2>1, <2>2 DEF Uncut, AccessHalts, CallHalts, Called, Acts, Taken
  <2>4. QED
    BY <2>1, <2>2, <2>3 DEF TA!Reaches
<1>4. CASE (TA!Next \/ UNCHANGED TA!vars) /\ ~TA!RunInventory /\ ~TA!DwellTimeEnds /\ ~TA!SendHaltedSequence /\ ~TA!ContinueFromHalted
  <2>1. UNCHANGED <<misdirected, expiries>>
    BY <1>4 DEF TA!Next, TA!Handles, TA!Publishes, TA!Commands, TA!ReadsTag, TA!EndsRound,
       TA!StopOp, TA!HandlerReadsStatus, TA!RoundDone, TA!Restart, TA!TagLost,
       TA!ReadEventFifo, TA!Reinit, TA!StartInventory, TA!PublishTimesOut, TA!Peek, TA!vars,
       TA!CallbackPacket, TA!ExecuteAccessCommands, TA!CallbackReturns,
       TA!Drained, TA!StillHalted, TA!UnchangedByChip, TA!UnchangedByPublish,
       TA!chip, TA!callback, TA!ghosts
  <2>2. QED
    BY <2>1
<1>5. QED
  BY <1>1, <1>2, <1>3, <1>4

AccessInv ==
    /\ AccessTypes /\ AccessStarts /\ AccessRound /\ AccessEnds /\ Read(tag_read)
    /\ Uncut => AccessHalts /\ AccessOffers
    /\ expiries = 0 => ~misdirected

(* AccessReachesTags: for any number of tags, of failures and of results   *)
(* queued, with the Ex10 ahead of the queue, while no timer cuts the round *)
(* each access and each resume reaches the tag of the callback's packet;   *)
(* and success tells that the round is over and every tag was offered.     *)
THEOREM AccessAlwaysReachesTags == Spec => []AccessReachesTags
<1> DEFINE Inv == use_case = "tag_access" => AccessInv
<1>1. Init => Inv
  <2> SUFFICES ASSUME Init PROVE AccessInv
    OBVIOUS
  <2> USE DEF Init, TA!Init
  <2>0. Len(<<>>) = 0 /\ <<>> \in Seq(AccessPackets)
    OBVIOUS
  <2>1. tag_read \in AccessPackets /\ Read(tag_read)
    BY PacketKinds DEF TA!NoTag
  <2>2. AccessTypes
    BY <2>0, <2>1 DEF AccessTypes
  <2>3. AccessStarts
    BY DEF AccessStarts, Quiet
  <2>4. AccessRound /\ AccessEnds
    BY <2>0 DEF AccessRound, AccessEnds, AccessLive
  <2>5. ~Uncut /\ ~misdirected
    BY DEF Uncut, AccessLive
  <2>6. QED
    BY <2>1, <2>2, <2>3, <2>4, <2>5 DEF AccessInv
<1>2. Inv /\ [Next]_vars => Inv'
  <2> SUFFICES ASSUME AccessInv, TA!Next \/ UNCHANGED TA!vars PROVE AccessInv'
    BY ChosenStep
  <2>1. AccessTypes' /\ AccessStarts' /\ AccessRound' /\ AccessEnds' /\ Read(tag_read')
    BY AccessTypesStep, AccessStartsStep, AccessRoundStep, AccessEndsStep, AccessReadStep DEF AccessInv
  <2>2. Uncut' => AccessHalts' /\ AccessOffers'
    BY AccessHaltsStep, AccessOffersStep DEF AccessInv
  <2>3. expiries' = 0 => ~misdirected'
    BY AccessReachesStep DEF AccessInv
  <2>4. QED
    BY <2>1, <2>2, <2>3 DEF AccessInv
<1>3. Inv => AccessReachesTags
  <2> SUFFICES ASSUME AccessInv PROVE TA!ReachesItsTag /\ TA!SuccessMeansComplete
    BY DEF AccessReachesTags
  <2>1. TA!ReachesItsTag
    BY DEF AccessInv, TA!ReachesItsTag
  <2>2. TA!SuccessMeansComplete
    <3> SUFFICES ASSUME pc["app"] = "idle", runs > 0, ex10_result = "success"
                 PROVE  /\ ~op /\ pc["irq"] = "idle"
                        /\ tag_halted_callback /\ expiries = 0 => offered = 1..tags
      BY DEF TA!SuccessMeansComplete, TA!At
    <3>1. AccessLive
      BY DEF AccessInv, AccessStarts, AccessLive
    <3>2. QED
      BY <3>1 DEF AccessInv, AccessEnds, Uncut, AccessOffers
  <2>3. QED
    BY <2>1, <2>2
<1> HIDE DEF Inv
<1>4. QED
  BY <1>1, <1>2, <1>3, PTL DEF Spec

-----------------------------------------------------------------------------
(* Activity sequence.  What is to be done next is known to one party only: *)
(* a thread that walks on, or the round that runs or whose end is not yet  *)
(* handled.  Before an activity is performed as many were as the iterator  *)
(* has passed, and one more until it is over.                              *)
Before == {"next", "wait", "perform", "round_callback", "callback"}
During == {"update", "ramp_down", "dynamic", "ramp_up", "start", "run", "after"}
Threads == {"app", "irq"}
Walking(t) == pc[t] \in Before \cup During \cup {"round"}

WalkTypes ==
    /\ DOMAIN pc = Threads /\ DOMAIN activity = Threads
    /\ performed \in Seq(Nat) /\ activity_iter \in Nat /\ completed \in Nat /\ runs \in Nat
    /\ {op, round_done, irq_pending} \subseteq BOOLEAN
    /\ runs > 0 => activity_sequence \in ActivitySequences

WalkTurns ==
    /\ op => ~round_done
    /\ round_done => irq_pending
    /\ Walking("app") \/ pc["app"] = "check_op" =>
            ~op /\ ~round_done /\ pc["irq"] = "idle" /\ ~irq_pending
    /\ Walking("irq") => ~op /\ ~round_done

LEMMA WalkGoto ==
    ASSUME WalkTypes, NEW t \in Threads, NEW step, AS!Goto(t, step)
    PROVE  /\ pc'[t] = step
           /\ \A u \in Threads : u # t => pc'[u] = pc[u]
           /\ DOMAIN pc' = Threads
BY DEF WalkTypes, AS!Goto, Threads

LEMMA WalkFails ==
    ASSUME WalkTypes, NEW t \in Threads, AS!Fail(t)
    PROVE  /\ pc'[t] = IF t = "irq" THEN "fifo" ELSE "idle"
           /\ \A u \in Threads : u # t => pc'[u] = pc[u]
           /\ DOMAIN pc' = Threads
           /\ t = "irq" => ex10_result' = ex10_result
           /\ t = "app" => ex10_result' = "error"
<1>1. CASE t = "irq"
  BY <1>1, WalkGoto DEF AS!Fail
<1>2. CASE t # "irq"
  BY <1>2, WalkGoto DEF AS!Fail, Threads
<1>3. QED
  BY <1>1, <1>2

(* Where a step of the walk leads. *)
Leads(t, steps) ==
    /\ pc'[t] \in steps
    /\ \A u \in Threads : u # t => pc'[u] = pc[u]
    /\ DOMAIN pc' = Threads
    /\ ex10_result' = ex10_result

Ends(t) ==
    /\ pc'[t] = IF t = "irq" THEN "fifo" ELSE "idle"
    /\ \A u \in Threads : u # t => pc'[u] = pc[u]
    /\ DOMAIN pc' = Threads
    /\ t = "irq" => ex10_result' = ex10_result
    /\ t = "app" => ex10_result' = "error"

LEMMA WalkLeads ==
    ASSUME WalkTypes, NEW t \in Threads
    PROVE  /\ \A step : AS!Continues(t, step) => Leads(t, {step})
           /\ AS!Finishes(t) => Leads(t, {IF t = "irq" THEN "fifo" ELSE "peek_first"})
           /\ AS!Fails(t) \/ AS!MayFail(t) => Ends(t)
<1>1. \A step : AS!Continues(t, step) => Leads(t, {step})
  BY WalkGoto DEF AS!Continues, Leads
<1>2. AS!Finishes(t) => Leads(t, {IF t = "irq" THEN "fifo" ELSE "peek_first"})
  BY WalkGoto DEF AS!Finishes, AS!Finish, Leads
<1>3. AS!Fails(t) \/ AS!MayFail(t) => Ends(t)
  BY WalkFails DEF AS!Fails, AS!MayFail, Ends
<1>4. QED
  BY <1>1, <1>2, <1>3

(* The steps of the walk, in the variables that matter here.               *)
Kept == UNCHANGED <<runs, activity_sequence, round_done, irq_pending, completed>>
Held == UNCHANGED <<op, performed, activity_iter>>
Config(t) == activity[t].config

WalkNext(t) ==
    /\ pc[t] = "next" /\ Held /\ UNCHANGED <<sequence_cw, rf_mode, antenna, activity>>
    /\ \/ activity_iter >= AS!Count /\ Leads(t, {IF t = "irq" THEN "fifo" ELSE "peek_first"})
       \/ activity_iter < AS!Count /\ Leads(t, {"wait"})
WalkWait(t) ==
    /\ pc[t] = "wait" /\ Held /\ UNCHANGED <<sequence_cw, rf_mode, antenna>>
    /\ \/ Leads(t, {"perform"}) /\ activity' = [activity EXCEPT ![t] = AS!Current]
       \/ Ends(t) /\ UNCHANGED activity
WalkPerform(t) ==
    /\ pc[t] = "perform" /\ UNCHANGED <<op, activity_iter, activity, rf_mode, antenna>>
    /\ performed' = Append(performed, activity_iter)
    /\ activity[t].type_id \in AS!Types =>
        /\ sequence_cw' \in {sequence_cw, AS!Off}
        /\ \/ Leads(t, {"update"}) /\ activity[t].type_id \in {"round", "ramp"}
           \/ Leads(t, {"after"}) /\ activity[t].type_id # "round"
           \/ Ends(t)
WalkUpdate(t) ==
    /\ pc[t] = "update" /\ Held /\ UNCHANGED <<sequence_cw, antenna, activity>>
    /\ \/ /\ rf_mode' = Config(t).rf_mode
          /\ \/ Leads(t, {"ramp_up"}) /\ sequence_cw = AS!Off
             \/ Leads(t, {"ramp_down"})
             \/ Leads(t, {"dynamic"}) /\ antenna = Config(t).antenna
       \/ Ends(t)
WalkRampDown(t) ==
    /\ pc[t] = "ramp_down" /\ Held /\ UNCHANGED <<antenna, activity, rf_mode>>
    /\ \/ Leads(t, {"ramp_up"}) /\ sequence_cw' = AS!Off
       \/ Ends(t) /\ sequence_cw' \in {sequence_cw, AS!Off}
WalkChange(t) ==
    LET changed == IF sequence_cw = AS!Off THEN AS!Off ELSE [sequence_cw EXCEPT !.power = Config(t).power]
    IN /\ pc[t] = "dynamic" /\ Held /\ UNCHANGED <<activity, rf_mode>>
       /\ \/ /\ Leads(t, {IF activity[t].type_id = "round" THEN "start" ELSE "after"})
             /\ antenna' = Config(t).antenna /\ sequence_cw' = changed
          \/ Ends(t) /\ antenna' = antenna /\ sequence_cw' \in {sequence_cw, changed}
WalkRampUp(t) ==
    /\ pc[t] = "ramp_up" /\ Held /\ UNCHANGED <<activity, rf_mode>>
    /\ \/ /\ Leads(t, {IF activity[t].type_id = "round" THEN "start" ELSE "after"})
          /\ antenna' = Config(t).antenna /\ sequence_cw' = AS!CwOf(Config(t))
       \/ /\ Ends(t) /\ antenna' = Config(t).antenna
          /\ sequence_cw' \in {sequence_cw, AS!CwOf(Config(t))}
       \/ Ends(t) /\ UNCHANGED <<antenna, sequence_cw>>
WalkStart(t) ==
    LET on == IF sequence_cw = AS!Off THEN AS!CwOf(Config(t)) ELSE sequence_cw
    IN /\ pc[t] = "start" /\ Held /\ UNCHANGED <<activity, antenna>>
       /\ \/ Leads(t, {"run"}) /\ rf_mode' = Config(t).rf_mode /\ sequence_cw' = on
          \/ Ends(t) /\ sequence_cw' \in {sequence_cw, on}
WalkRun(t) ==
    /\ pc[t] = "run"
    /\ UNCHANGED <<performed, activity_iter, sequence_cw, rf_mode, antenna, activity>>
    /\ \/ op' = TRUE /\ Leads(t, {IF t = "irq" THEN "fifo" ELSE "peek_first"})
       \/ op' \in {op, TRUE} /\ Ends(t)
WalkAfter(t) ==
    /\ pc[t] = "after" /\ Leads(t, {"callback"}) /\ activity_iter' = activity_iter + 1
    /\ UNCHANGED <<op, performed, sequence_cw, rf_mode, antenna, activity>>
WalkCallback(t) ==
    /\ pc[t] = "callback" /\ Held /\ UNCHANGED <<sequence_cw, rf_mode, antenna, activity>>
    /\ Leads(t, {"next"}) \/ Ends(t)

Walk(t) ==
    /\ Kept
    /\ \/ WalkNext(t) \/ WalkWait(t) \/ WalkPerform(t) \/ WalkUpdate(t) \/ WalkRampDown(t)
       \/ WalkChange(t) \/ WalkRampUp(t) \/ WalkStart(t) \/ WalkRun(t) \/ WalkAfter(t)
       \/ WalkCallback(t)

LEMMA WalkSteps ==
    ASSUME WalkTypes, NEW t \in Threads, AS!Walks(t)
    PROVE  Walk(t)
<1> USE WalkLeads DEF AS!UnchangedByWalk, AS!walk, AS!power, AS!counts, AS!At, AS!Command, Kept, Held, Config
<1>1. CASE AS!NextActivity(t)
  <2>1. Kept /\ WalkNext(t)
    BY <1>1 DEF AS!NextActivity, WalkNext, WalkTypes, AS!Count
  <2>2. QED
    BY <2>1 DEF Walk
<1>2. CASE AS!WaitOp(t)
  <2>1. Kept /\ WalkWait(t)
    BY <1>2 DEF AS!WaitOp, WalkWait
  <2>2. QED
    BY <2>1 DEF Walk
<1>3. CASE AS!Perform(t)
  <2>1. Kept /\ WalkPerform(t)
    <3>1. Kept /\ pc[t] = "perform" /\ UNCHANGED <<op, activity_iter, activity, rf_mode, antenna>>
          /\ performed' = Append(performed, activity_iter)
      BY <1>3 DEF AS!Perform
    <3>2. ASSUME activity[t].type_id = "round" PROVE Leads(t, {"update"}) /\ sequence_cw' = sequence_cw
      BY <1>3, <3>2 DEF AS!Perform
    <3>3. ASSUME activity[t].type_id = "ramp" PROVE Leads(t, {"update"}) /\ sequence_cw' = sequence_cw
      BY <1>3, <3>3 DEF AS!Perform
    <3>4. ASSUME activity[t].type_id = "cw_off"
          PROVE  (Leads(t, {"after"}) \/ Ends(t)) /\ sequence_cw' \in {sequence_cw, AS!Off}
      BY <1>3, <3>4 DEF AS!Perform
    <3>5. ASSUME activity[t].type_id = "select"
          PROVE  (Leads(t, {"after"}) \/ Ends(t)) /\ sequence_cw' = sequence_cw
      BY <1>3, <3>5 DEF AS!Perform
    <3>6. QED
      BY <3>1, <3>2, <3>3, <3>4, <3>5 DEF WalkPerform, AS!Types
  <2>2. QED
    BY <2>1 DEF Walk
<1>4. CASE AS!Update(t)
  <2>1. Kept /\ WalkUpdate(t)
    BY <1>4 DEF AS!Update, WalkUpdate
  <2>2. QED
    BY <2>1 DEF Walk
<1>5. CASE AS!RampDown(t)
  <2>1. Kept /\ WalkRampDown(t)
    BY <1>5 DEF AS!RampDown, WalkRampDown
  <2>2. QED
    BY <2>1 DEF Walk
<1>6. CASE AS!ChangePower(t)
  <2>1. Kept /\ WalkChange(t)
    BY <1>6 DEF AS!ChangePower, WalkChange, AS!Powered, AS!Remember
  <2>2. QED
    BY <2>1 DEF Walk
<1>7. CASE AS!RampUp(t)
  <2>1. Kept /\ WalkRampUp(t)
    BY <1>7 DEF AS!RampUp, WalkRampUp, AS!Powered, AS!Remember
  <2>2. QED
    BY <2>1 DEF Walk
<1>8. CASE AS!StartInventory(t)
  <2>1. Kept /\ WalkStart(t)
    BY <1>8 DEF AS!StartInventory, WalkStart
  <2>2. QED
    BY <2>1 DEF Walk
<1>9. CASE AS!RunInventory(t)
  <2>1. Kept /\ WalkRun(t)
    BY <1>9 DEF AS!RunInventory, WalkRun
  <2>2. QED
    BY <2>1 DEF Walk
<1>10. CASE AS!AfterActivity(t)
  <2>1. Kept /\ WalkAfter(t)
    <3>1. AS!Goto(t, "callback") /\ ex10_result' = ex10_result
      BY <1>10 DEF AS!AfterActivity
    <3>2. Leads(t, {"callback"})
      BY <3>1, WalkGoto DEF Leads
    <3>3. QED
      BY <1>10, <3>2 DEF AS!AfterActivity, WalkAfter
  <2>2. QED
    BY <2>1 DEF Walk
<1>11. CASE AS!PostActivityCallback(t)
  <2>1. Kept /\ WalkCallback(t)
    <3>1. AS!MayFail(t) \/ (AS!Goto(t, "next") /\ ex10_result' = ex10_result)
      BY <1>11 DEF AS!PostActivityCallback
    <3>2. Leads(t, {"next"}) \/ Ends(t)
      BY <3>1, WalkGoto DEF Leads
    <3>3. QED
      BY <1>11, <3>2 DEF AS!PostActivityCallback, WalkCallback
  <2>2. QED
    BY <2>1 DEF Walk
<1>12. QED
  BY <1>1, <1>2, <1>3, <1>4, <1>5, <1>6, <1>7, <1>8, <1>9, <1>10, <1>11 DEF AS!Walks

LEMMA SequenceShape ==
    ASSUME WalkTypes, runs > 0
    PROVE  /\ AS!Count \in Nat /\ DOMAIN activity_sequence = 1 .. AS!Count
           /\ \A i \in 1 .. AS!Count : activity_sequence[i].type_id \in AS!Types
           /\ activity_iter < AS!Count => AS!Current.type_id \in AS!Types
<1>1. activity_sequence \in ActivitySequences
  BY DEF WalkTypes
<1>2. /\ activity_sequence \in Seq({activity_sequence[i] : i \in DOMAIN activity_sequence})
      /\ \A i \in DOMAIN activity_sequence : activity_sequence[i].type_id \in AS!Types
  BY <1>1, UseCasesConstants DEF AS!ActivityConstants
<1>3. Len(activity_sequence) \in Nat /\ DOMAIN activity_sequence = 1 .. Len(activity_sequence)
  BY <1>2, LenProperties
<1>4. activity_iter < Len(activity_sequence) => activity_iter + 1 \in 1 .. Len(activity_sequence)
  BY <1>3 DEF WalkTypes
<1>5. QED
  BY <1>2, <1>3, <1>4 DEF AS!Count, AS!Current

(* The end of a round, and the other steps of the Ex10, leave the walk.    *)
ChipStep ==
    /\ UNCHANGED <<activity_sequence, activity_iter, activity, performed>>
    /\ UNCHANGED <<rf_mode, antenna, pc, ex10_result, runs, completed>>
    /\ sequence_cw' \in {sequence_cw, AS!Off}
    /\ \/ op /\ op' = FALSE /\ round_done' = TRUE /\ irq_pending' = TRUE
       \/ op /\ UNCHANGED <<op, round_done>> /\ irq_pending' = TRUE
       \/ UNCHANGED <<op, round_done, irq_pending>>

LEMMA WalkChipSteps ==
    ASSUME WalkTypes, AS!EndsRound \/ AS!DwellTimeEnds \/ AS!ReadsTag
    PROVE  ChipStep
BY DEF ChipStep, WalkTypes, AS!EndsRound, AS!DwellTimeEnds, AS!ReadsTag, AS!EndRound, AS!walk, AS!power, AS!publish, AS!counts

(* The monitor thread takes up the end of a round. *)
StatusStep ==
    /\ UNCHANGED <<activity_sequence, activity_iter, activity, performed>>
    /\ UNCHANGED <<rf_mode, antenna, ex10_result, runs, completed, op, sequence_cw>>
    /\ pc["irq"] = "idle" /\ irq_pending /\ round_done' = FALSE /\ irq_pending' = FALSE
    /\ Leads("irq", {IF round_done THEN "round" ELSE "fifo"})

LEMMA WalkHandlerSteps ==
    ASSUME WalkTypes, AS!HandlerReadsStatus
    PROVE  StatusStep
<1>1. AS!Goto("irq", IF round_done THEN "round" ELSE "fifo") /\ ex10_result' = ex10_result
  BY DEF AS!HandlerReadsStatus, AS!publish
<1>2. Leads("irq", {IF round_done THEN "round" ELSE "fifo"})
  BY <1>1, WalkGoto DEF Leads, Threads
<1>3. QED
  BY <1>2 DEF StatusStep, AS!HandlerReadsStatus, AS!walk, AS!power, AS!publish, AS!At

(* The round at hand is started again, or counted, or has failed. *)
SwitchStep ==
    /\ UNCHANGED <<activity_sequence, performed, rf_mode, antenna, runs, op, sequence_cw, round_done, irq_pending>>
    /\ pc["irq"] = "round"
    /\ \/ /\ Leads("irq", {"start"}) /\ activity' = [activity EXCEPT !["irq"] = AS!Current]
          /\ UNCHANGED <<activity_iter, completed>>
       \/ /\ Leads("irq", {"round_callback"}) /\ activity' = activity
          /\ activity_iter' = activity_iter + 1 /\ completed' = completed + 1
       \/ Ends("irq") /\ UNCHANGED <<activity_iter, completed, activity>>

LEMMA WalkSwitches ==
    ASSUME WalkTypes, AS!Switch
    PROVE  SwitchStep
<1>0. "irq" \in Threads
  BY DEF Threads
<1>1. /\ UNCHANGED <<activity_sequence, performed, rf_mode, antenna, runs, op, sequence_cw, round_done, irq_pending>>
      /\ pc["irq"] = "round"
  BY DEF AS!Switch, AS!chip, AS!power, AS!At
<1>2. \/ /\ AS!Continues("irq", "start") /\ activity' = [activity EXCEPT !["irq"] = AS!Current]
         /\ UNCHANGED <<activity_iter, completed>>
      \/ /\ AS!Goto("irq", "round_callback") /\ activity' = activity /\ ex10_result' = ex10_result
         /\ activity_iter' = activity_iter + 1 /\ completed' = completed + 1
      \/ (AS!Fails("irq") \/ AS!MayFail("irq")) /\ UNCHANGED <<activity_iter, completed, activity>>
  BY DEF AS!Switch, AS!Restarts
<1>3. AS!Goto("irq", "round_callback") /\ ex10_result' = ex10_result => Leads("irq", {"round_callback"})
  BY <1>0, WalkGoto DEF Leads
<1>4. QED
  BY <1>0, <1>1, <1>2, <1>3, WalkLeads DEF SwitchStep

(* The rest of what the monitor thread and the application do.             *)
WalkIdle == UNCHANGED <<activity_sequence, activity_iter, activity, performed, rf_mode, antenna, runs,
                        completed, op, sequence_cw, round_done, irq_pending>>

MonitorStep ==
    /\ WalkIdle
    /\ \/ pc["irq"] = "round_callback" /\ (Leads("irq", {"next"}) \/ Ends("irq"))
       \/ pc["irq"] = "fifo" /\ Leads("irq", {"idle"})

AppStep ==
    /\ WalkIdle /\ DOMAIN pc' = Threads /\ pc'["irq"] = pc["irq"]
    /\ \/ pc["app"] = "check_op" /\ pc'["app"] = "next" /\ ex10_result' = ex10_result
       \/ /\ pc["app"] \in {"check_op", "peek_first", "peek", "count", "deliver", "check"}
          /\ \/ pc'["app"] \in {"peek_first", "peek", "count", "deliver", "check"} /\ pc["app"] # "check_op"
             \/ pc'["app"] = "idle" /\ ex10_result' # "success"
             \/ pc'["app"] = "idle" /\ activity_iter >= AS!Count /\ pc["app"] # "check_op"

LEMMA WalkOtherSteps ==
    ASSUME WalkTypes, AS!RoundCallback \/ AS!ReadEventFifo
    PROVE  MonitorStep
<1>0. "irq" \in Threads
  BY DEF Threads
<1>1. CASE AS!RoundCallback
  <2>1. /\ WalkIdle /\ pc["irq"] = "round_callback"
        /\ AS!MayFail("irq") \/ (AS!Goto("irq", "next") /\ ex10_result' = ex10_result)
    BY <1>1 DEF AS!RoundCallback, WalkIdle, AS!walk, AS!power, AS!UnchangedByWalk, AS!At
  <2>2. QED
    BY <1>0, <2>1, WalkLeads, WalkGoto DEF Leads, MonitorStep
<1>2. CASE AS!ReadEventFifo
  <2>1. WalkIdle /\ pc["irq"] = "fifo" /\ AS!Goto("irq", "idle") /\ ex10_result' = ex10_result
    BY <1>2 DEF AS!ReadEventFifo, WalkIdle, AS!walk, AS!power, AS!At, AS!publish
  <2>2. QED
    BY <1>0, <2>1, WalkGoto DEF Leads, MonitorStep
<1>3. QED
  BY <1>1, <1>2

LEMMA WalkAppSteps ==
    ASSUME WalkTypes, AS!AppChecksOp \/ AS!Publishes \/ AS!PublishTimesOut
    PROVE  AppStep
<1>0. "app" \in Threads /\ "irq" \in Threads /\ "app" # "irq"
  BY DEF Threads
<1> USE DEF AppStep, AS!UnchangedByPublish, WalkIdle, AS!walk, AS!power, AS!chip, AS!At, AS!Command
<1> DEFINE Moves == \E step : AS!Goto("app", step)
<1>1. Moves => DOMAIN pc' = Threads /\ pc'["irq"] = pc["irq"]
  BY <1>0, WalkGoto
<1>2. \A step : AS!Goto("app", step) => pc'["app"] = step
  BY <1>0, WalkGoto
<1>3. CASE AS!AppChecksOp
  <2>1. /\ WalkIdle /\ Moves /\ pc["app"] = "check_op"
        /\ \/ AS!Goto("app", "idle") /\ ex10_result' = "error"
           \/ AS!Goto("app", "next") /\ ex10_result' = ex10_result
    BY <1>3 DEF AS!AppChecksOp
  <2>2. QED
    BY <1>1, <1>2, <2>1
<1>4. CASE AS!PublishTimesOut
  <2>1. /\ WalkIdle /\ Moves /\ pc["app"] = "peek_first"
        /\ AS!Goto("app", "idle") /\ ex10_result' = "error"
    BY <1>4 DEF AS!PublishTimesOut
  <2>2. QED
    BY <1>1, <1>2, <2>1
<1>5. CASE AS!Peek
  <2>1. WalkIdle /\ pc["app"] \in {"peek_first", "peek"}
    BY <1>5 DEF AS!Peek
  <2>2. \/ AS!Goto("app", "check") \/ AS!Goto("app", "count") \/ AS!Goto("app", "deliver")
        \/ AS!Goto("app", "idle") /\ ex10_result' = "error"
    <3>1. CASE queue = <<>>
      BY <1>5, <3>1 DEF AS!Peek
    <3>2. CASE queue # <<>> /\ Head(queue) = "Ex10Result"
      BY <1>5, <3>2 DEF AS!Peek
    <3>3. CASE queue # <<>> /\ Head(queue) = "InventoryRoundSummary"
      <4>1. AS!Goto("app", IF inventory_round_pending > 0 THEN "count" ELSE "deliver")
        BY <1>5, <3>3 DEF AS!Peek
      <4>2. QED
        BY <4>1
    <3>4. CASE queue # <<>> /\ Head(queue) \notin {"Ex10Result", "InventoryRoundSummary"}
      BY <1>5, <3>4 DEF AS!Peek
    <3>5. QED
      BY <3>1, <3>2, <3>3, <3>4
  <2>3. pc'["app"] \in {"check", "count", "deliver"} \/ (pc'["app"] = "idle" /\ ex10_result' = "error")
    BY <1>2, <2>2
  <2>4. QED
    BY <1>1, <2>1, <2>2, <2>3
<1>6. CASE AS!CountDown \/ AS!Deliver
  <2>1. /\ WalkIdle /\ pc["app"] \in {"count", "deliver"} /\ Moves
        /\ AS!Goto("app", "deliver") \/ AS!Goto("app", "peek")
    BY <1>6 DEF AS!CountDown, AS!Deliver
  <2>2. pc'["app"] \in {"deliver", "peek"}
    BY <1>2, <2>1
  <2>3. QED
    BY <1>1, <2>1, <2>2
<1>7. CASE AS!CheckEnd
  <2>1. /\ WalkIdle /\ pc["app"] = "check" /\ Moves /\ ex10_result' = ex10_result
        /\ \/ AS!Goto("app", "peek_first")
           \/ AS!Goto("app", "idle") /\ (ex10_result # "success" \/ activity_iter >= AS!Count)
    BY <1>7 DEF AS!CheckEnd, AS!Over
  <2>2. QED
    BY <1>1, <1>2, <2>1
<1>8. QED
  BY <1>3, <1>4, <1>5, <1>6, <1>7 DEF AS!Publishes

(* An activity sequence is begun anew, or what was queued is dropped.      *)
StartStep ==
    /\ pc["app"] = "idle" /\ pc["irq"] = "idle" /\ ~op /\ ~irq_pending
    /\ UNCHANGED <<activity, rf_mode, antenna, op, sequence_cw, round_done, irq_pending>>
    /\ activity_iter' = 0
    /\ \/ /\ UNCHANGED <<activity_sequence, performed, pc, ex10_result, runs, completed>>
       \/ /\ activity_sequence' \in ActivitySequences /\ runs' = runs + 1
          /\ performed' = <<>> /\ completed' = 0
          /\ pc'["app"] = "check_op" /\ pc'["irq"] = "idle" /\ DOMAIN pc' = Threads

LEMMA WalkStartSteps ==
    ASSUME WalkTypes, AS!RunActivitySequence \/ AS!Reinit
    PROVE  StartStep
<1>0. "app" \in Threads /\ "irq" \in Threads /\ "app" # "irq"
  BY DEF Threads
<1> USE DEF AS!AtRest, AS!At, AS!chip, AS!power, AS!publish, StartStep
<1>1. CASE AS!RunActivitySequence
  <2>1. AS!Goto("app", "check_op")
    BY <1>1 DEF AS!RunActivitySequence
  <2>2. pc'["app"] = "check_op" /\ pc'["irq"] = pc["irq"] /\ DOMAIN pc' = Threads
    BY <1>0, <2>1, WalkGoto
  <2>3. QED
    BY <1>1, <2>2 DEF AS!RunActivitySequence
<1>2. CASE AS!Reinit
  BY <1>2 DEF AS!Reinit
<1>3. QED
  BY <1>1, <1>2

(* All there is to a step of an activity sequence. *)
LEMMA WalkCases ==
    ASSUME WalkTypes, AS!Next \/ UNCHANGED AS!vars
    PROVE  \/ ChipStep \/ StatusStep \/ SwitchStep \/ MonitorStep \/ AppStep \/ StartStep
           \/ \E t \in Threads : Walk(t)
           \/ WalkIdle /\ UNCHANGED <<pc, ex10_result>>
<1>1. CASE AS!EndsRound \/ AS!DwellTimeEnds \/ AS!ReadsTag
  BY <1>1, WalkChipSteps
<1>2. CASE AS!Handles
  <2>1. CASE AS!HandlerReadsStatus
    BY <2>1, WalkHandlerSteps
  <2>2. CASE AS!Switch
    BY <2>2, WalkSwitches
  <2>3. CASE AS!RoundCallback \/ AS!ReadEventFifo
    BY <2>3, WalkOtherSteps
  <2>4. CASE AS!Walks("irq")
    BY <2>4, WalkSteps DEF Threads
  <2>5. QED
    BY <1>2, <2>1, <2>2, <2>3, <2>4 DEF AS!Handles
<1>3. CASE AS!RunActivitySequence \/ AS!Reinit
  BY <1>3, WalkStartSteps
<1>4. CASE AS!AppChecksOp \/ AS!Publishes \/ AS!PublishTimesOut
  BY <1>4, WalkAppSteps
<1>5. CASE AS!Walks("app")
  BY <1>5, WalkSteps DEF Threads
<1>6. CASE UNCHANGED AS!vars
  BY <1>6 DEF AS!vars, AS!chip, AS!walk, AS!power, AS!publish, AS!counts, WalkIdle
<1>7. QED
  BY <1>1, <1>2, <1>3, <1>4, <1>5, <1>6 DEF AS!Next

(* Who walks is alone: no round runs or ended, and no other thread walks.  *)
Idles(u) == ~Walking(u) /\ pc[u] # "check_op"
LEMMA WalkAlone ==
    ASSUME WalkTypes, WalkTurns, NEW t \in Threads, Walk(t)
    PROVE  /\ Walking(t) /\ ~op /\ ~round_done /\ pc[t] # "round"
           /\ \A u \in Threads : u # t => Idles(u)
           /\ t = "app" => ~irq_pending /\ pc["irq"] = "idle"
<1>1. Walking(t) /\ pc[t] # "round"
  BY DEF Walk, Walking, Before, During, WalkNext, WalkWait, WalkPerform, WalkUpdate, WalkRampDown,
     WalkChange, WalkRampUp, WalkStart, WalkRun, WalkAfter, WalkCallback
<1>2. QED
  BY <1>1 DEF WalkTurns, Threads, Idles, Walking, Before, During

(* Where the walk goes. *)
Rest(t) == IF t = "irq" THEN "fifo" ELSE "peek_first"
Onward == (Before \ {"round_callback"}) \cup During
Known(t) == pc[t] = "perform" => activity[t].type_id \in AS!Types
LEMMA WalkGoes ==
    ASSUME NEW t \in Threads, Walk(t), Known(t)
    PROVE  /\ Leads(t, Onward) \/ Leads(t, {Rest(t)}) \/ Ends(t)
           /\ \/ op' = op
              \/ pc[t] = "run" /\ op' \in {op, TRUE} /\ (Leads(t, {Rest(t)}) \/ Ends(t))
<1>1. ASSUME NEW step \in Onward, Leads(t, {step}) PROVE Leads(t, Onward)
  BY <1>1 DEF Leads
<1>2. {"next", "wait", "perform", "callback"} \cup During \subseteq Onward
  BY DEF Onward, Before
<1>3. CASE WalkNext(t)
  BY <1>1, <1>2, <1>3 DEF WalkNext, Held, Rest
<1>4. CASE WalkWait(t) \/ WalkPerform(t) \/ WalkUpdate(t)
  BY <1>1, <1>2, <1>4 DEF WalkWait, WalkPerform, WalkUpdate, Held, During, Known
<1>5. CASE WalkRampDown(t) \/ WalkStart(t) \/ WalkAfter(t) \/ WalkCallback(t)
  BY <1>1, <1>2, <1>5 DEF WalkRampDown, WalkStart, WalkAfter, WalkCallback, Held, During
<1>6. CASE WalkChange(t) \/ WalkRampUp(t)
  BY <1>1, <1>2, <1>6 DEF WalkChange, WalkRampUp, Held, During
<1>7. CASE WalkRun(t)
  BY <1>7 DEF WalkRun, Rest
<1>8. QED
  BY <1>3, <1>4, <1>5, <1>6, <1>7 DEF Walk

LEMMA WalkTypesStep ==
    ASSUME WalkTypes, \A t \in Threads : Known(t), AS!Next \/ UNCHANGED AS!vars
    PROVE  WalkTypes'
<1> USE DEF Threads
<1>1. CASE ChipStep
  BY <1>1 DEF WalkTypes, ChipStep
<1>2. CASE StatusStep
  BY <1>2 DEF WalkTypes, StatusStep, Leads
<1>3. CASE SwitchStep
  BY <1>3 DEF WalkTypes, SwitchStep, Leads, Ends
<1>4. CASE MonitorStep
  BY <1>4 DEF WalkTypes, MonitorStep, WalkIdle, Leads, Ends
<1>5. CASE AppStep
  BY <1>5 DEF WalkTypes, AppStep, WalkIdle
<1>6. CASE StartStep
  <2>1. performed' \in Seq(Nat)
    <3>1. <<>> \in Seq(Nat)
      OBVIOUS
    <3>2. QED
      BY <1>6, <3>1 DEF WalkTypes, StartStep
  <2>2. runs' \in Nat /\ (runs' > 0 => activity_sequence' \in ActivitySequences)
    BY <1>6 DEF WalkTypes, StartStep
  <2>3. QED
    BY <1>6, <2>1, <2>2 DEF WalkTypes, StartStep
<1>7. ASSUME NEW t \in Threads, Walk(t) PROVE WalkTypes'
  <2>1. DOMAIN pc' = Threads /\ op' \in BOOLEAN
    BY <1>7, WalkGoes DEF Leads, Ends, WalkTypes
  <2>2. DOMAIN activity' = Threads
    BY <1>7 DEF WalkTypes, Walk, Held, WalkNext, WalkWait, WalkPerform, WalkUpdate, WalkRampDown,
       WalkChange, WalkRampUp, WalkStart, WalkRun, WalkAfter, WalkCallback
  <2>3. activity_iter' = activity_iter \/ activity_iter' = activity_iter + 1
    BY <1>7 DEF WalkTypes, Walk, Held, WalkNext, WalkWait, WalkPerform, WalkUpdate, WalkRampDown,
       WalkChange, WalkRampUp, WalkStart, WalkRun, WalkAfter, WalkCallback
  <2>4. performed' = performed \/ performed' = Append(performed, activity_iter)
    BY <1>7 DEF WalkTypes, Walk, Held, WalkNext, WalkWait, WalkPerform, WalkUpdate, WalkRampDown,
       WalkChange, WalkRampUp, WalkStart, WalkRun, WalkAfter, WalkCallback
  <2>5. performed' \in Seq(Nat)
    BY <2>4, AppendProperties DEF WalkTypes
  <2>6. activity_iter' \in Nat
    BY <2>3 DEF WalkTypes
  <2>7. QED
    BY <1>7, <2>1, <2>2, <2>5, <2>6 DEF WalkTypes, Walk, Kept
<1>8. CASE WalkIdle /\ UNCHANGED <<pc, ex10_result>>
  BY <1>8 DEF WalkTypes, WalkIdle
<1>9. QED
  BY <1>1, <1>2, <1>3, <1>4, <1>5, <1>6, <1>7, <1>8, WalkCases

LEMMA WalkTurnsStep ==
    ASSUME WalkTypes, WalkTurns, \A t \in Threads : Known(t), AS!Next \/ UNCHANGED AS!vars
    PROVE  WalkTurns'
<1> USE DEF Threads, Walking, Before, During
<1>1. CASE ChipStep
  BY <1>1 DEF WalkTurns, ChipStep
<1>2. CASE StatusStep
  BY <1>2 DEF WalkTurns, StatusStep, Leads
<1>3. CASE SwitchStep
  BY <1>3 DEF WalkTurns, SwitchStep, Leads, Ends
<1>4. CASE MonitorStep
  BY <1>4 DEF WalkTurns, MonitorStep, WalkIdle, Leads, Ends
<1>5. CASE AppStep
  BY <1>5 DEF WalkTurns, AppStep, WalkIdle
<1>6. CASE StartStep
  BY <1>6 DEF WalkTurns, StartStep
<1>7. ASSUME NEW t \in Threads, Walk(t) PROVE WalkTurns'
  <2>1. UNCHANGED <<round_done, irq_pending>>
    BY <1>7 DEF Walk, Kept
  <2>2. op' = op \/ (op' = TRUE /\ (Leads(t, {Rest(t)}) \/ Ends(t)))
    BY <1>7, WalkGoes DEF WalkTypes
  <2>3. QED
    BY <1>7, <2>1, <2>2, WalkGoes, WalkAlone DEF WalkTurns, Leads, Ends, Rest, Onward, Idles
<1>8. CASE WalkIdle /\ UNCHANGED <<pc, ex10_result>>
  BY <1>8 DEF WalkTurns, WalkIdle
<1>9. QED
  BY <1>1, <1>2, <1>3, <1>4, <1>5, <1>6, <1>7, <1>8, WalkCases

(* What has been performed, and what is to be done next.                   *)
RoundsUpTo(n) == Cardinality({i \in 1 .. n : activity_sequence[i].type_id = "round"})
Active == pc["app"] # "idle" \/ Walking("irq") \/ op \/ round_done
AtRound == op \/ round_done \/ pc["irq"] = "round"

OrderList == \A i \in 1 .. Len(performed) : performed[i] = i - 1
OrderRun ==
    Active => /\ runs > 0 /\ activity_iter <= Len(performed) /\ Len(performed) <= AS!Count
              /\ completed = RoundsUpTo(activity_iter)
OrderDone ==
    runs > 0 /\ pc["app"] = "idle" /\ ex10_result = "success" =>
        /\ Len(performed) = AS!Count /\ completed = AS!Rounds /\ ~op /\ ~round_done
        /\ pc["irq"] \notin During \cup {"wait", "perform", "round"}
OrderThread(t) ==
    /\ pc[t] \in Before \cup {"check_op"} => Len(performed) = activity_iter
    /\ pc[t] \in {"wait", "perform"} => activity_iter < AS!Count
    /\ pc[t] \in During => Len(performed) = activity_iter + 1
    /\ pc[t] \in During \cup {"perform"} => activity[t] = AS!Current
    /\ pc[t] \in {"update", "ramp_down", "dynamic", "ramp_up"} => AS!Current.type_id \in {"round", "ramp"}
    /\ pc[t] \in {"start", "run"} => AS!Current.type_id = "round"
    /\ pc[t] = "after" => AS!Current.type_id # "round"
OrderRound == AtRound => Len(performed) = activity_iter + 1 /\ AS!Current.type_id = "round"

OrderInv == OrderList /\ OrderRun /\ OrderDone /\ OrderRound /\ \A t \in Threads : OrderThread(t)

LEMMA OrderFrame ==
    ASSUME UNCHANGED activity_sequence
    PROVE  /\ AS!Count' = AS!Count /\ AS!Rounds' = AS!Rounds
           /\ activity_iter' = activity_iter =>
                AS!Current' = AS!Current /\ RoundsUpTo(activity_iter)' = RoundsUpTo(activity_iter)
           /\ performed' = performed => (OrderList <=> OrderList')
<1>1. AS!Count' = AS!Count
  BY DEF AS!Count
<1>2. AS!Rounds' = AS!Rounds
  BY DEF AS!Rounds
<1>3. ASSUME activity_iter' = activity_iter
      PROVE  AS!Current' = AS!Current /\ RoundsUpTo(activity_iter)' = RoundsUpTo(activity_iter)
  BY <1>3 DEF AS!Current, RoundsUpTo
<1>4. ASSUME performed' = performed PROVE OrderList <=> OrderList'
  BY <1>4 DEF OrderList
<1>5. QED
  BY <1>1, <1>2, <1>3, <1>4

(* The number of rounds among the first activities. *)
LEMMA RoundsCounted ==
    /\ RoundsUpTo(0) = 0
    /\ \A n \in Nat : RoundsUpTo(n + 1) =
            IF activity_sequence[n + 1].type_id = "round" THEN RoundsUpTo(n) + 1 ELSE RoundsUpTo(n)
<1> DEFINE R(n) == {i \in 1 .. n : activity_sequence[i].type_id = "round"}
<1>1. R(0) = {}
  OBVIOUS
<1>2. RoundsUpTo(0) = 0
  BY <1>1, FS_EmptySet DEF RoundsUpTo
<1>3. ASSUME NEW n \in Nat
      PROVE  RoundsUpTo(n + 1) =
            IF activity_sequence[n + 1].type_id = "round" THEN RoundsUpTo(n) + 1 ELSE RoundsUpTo(n)
  <2>1. R(n) \subseteq 1 .. n /\ n + 1 \notin R(n)
    OBVIOUS
  <2>2. IsFiniteSet(R(n))
    <3>1. IsFiniteSet(1 .. n)
      BY FS_Interval
    <3>2. QED
      BY ONLY <2>1, <3>1, FS_Subset
  <2>3. CASE activity_sequence[n + 1].type_id = "round"
    <3>1. R(n + 1) = R(n) \cup {n + 1}
      BY <2>3
    <3>2. Cardinality(R(n) \cup {n + 1}) = Cardinality(R(n)) + 1
      BY <2>1, <2>2, FS_AddElement
    <3>3. QED
      BY <2>3, <3>1, <3>2 DEF RoundsUpTo
  <2>4. CASE activity_sequence[n + 1].type_id # "round"
    <3>1. R(n + 1) = R(n)
      BY <2>4
    <3>2. QED
      BY <2>4, <3>1 DEF RoundsUpTo
  <2>5. QED
    BY <2>3, <2>4
<1>4. QED
  BY <1>2, <1>3

LEMMA OrderRounds ==
    ASSUME WalkTypes, runs > 0
    PROVE  AS!Rounds = RoundsUpTo(AS!Count)
<1>1. \A S : AS!Cardinality(S) = Cardinality(S)
  BY DEF AS!Cardinality, Cardinality
<1>2. QED
  BY <1>1, SequenceShape DEF AS!Rounds, RoundsUpTo

LEMMA OrderKnown ==
    ASSUME WalkTypes, OrderInv, NEW t \in Threads
    PROVE  Known(t)
<1> SUFFICES ASSUME pc[t] = "perform" PROVE activity[t].type_id \in AS!Types
  BY DEF Known
<1>1. Active
  BY DEF Active, Walking, Before, During, Threads
<1>2. runs > 0
  BY <1>1 DEF OrderInv, OrderRun
<1>3. activity_iter < AS!Count /\ activity[t] = AS!Current
  BY DEF OrderInv, OrderThread
<1>4. QED
  BY <1>2, <1>3, SequenceShape

(* What a step of the walk does to the order, for the thread that walks.   *)
LEMMA OrderThreadStep ==
    ASSUME WalkTypes, OrderInv, NEW t \in Threads, Walk(t)
    PROVE  OrderThread(t)'
<1>0. OrderThread(t) /\ Known(t)
  BY OrderKnown DEF OrderInv
<1>1. /\ activity_iter' = activity_iter => AS!Current' = AS!Current
      /\ AS!Count' = AS!Count
  BY OrderFrame DEF Walk, Kept
<1> USE DEF OrderThread, Before, During
<1>2. ASSUME Leads(t, {Rest(t)}) \/ Ends(t) PROVE OrderThread(t)'
  BY <1>2 DEF Leads, Ends, Rest
<1>3. CASE WalkNext(t)
  BY <1>0, <1>1, <1>2, <1>3 DEF WalkNext, Held, Leads, Rest
<1>4. CASE WalkWait(t)
  <2>1. CASE Leads(t, {"perform"}) /\ activity' = [activity EXCEPT ![t] = AS!Current]
    <3>1. activity'[t] = AS!Current
      BY <2>1 DEF WalkTypes
    <3>2. QED
      BY <1>0, <1>1, <1>4, <2>1, <3>1 DEF WalkWait, Held, Leads
  <2>2. QED
    BY <1>2, <1>4, <2>1 DEF WalkWait
<1>5. CASE WalkPerform(t)
  <2>1. Len(performed') = activity_iter' + 1
    <3>1. Len(performed') = Len(performed) + 1 /\ Len(performed) = activity_iter
      BY <1>0, <1>5, AppendProperties DEF WalkPerform, WalkTypes
    <3>2. QED
      BY <1>5, <3>1 DEF WalkPerform
  <2>2. activity' = activity /\ activity[t] = AS!Current /\ AS!Current' = AS!Current
    BY <1>0, <1>1, <1>5 DEF WalkPerform
  <2>3. \/ Leads(t, {"update"}) /\ activity[t].type_id \in {"round", "ramp"}
        \/ Leads(t, {"after"}) /\ activity[t].type_id # "round"
        \/ Ends(t)
    BY <1>0, <1>5 DEF WalkPerform, Known
  <2>4. QED
    BY <1>2, <2>1, <2>2, <2>3 DEF Leads
<1>6. CASE WalkUpdate(t)
  BY <1>0, <1>1, <1>2, <1>6 DEF WalkUpdate, Held, Leads
<1>7. CASE WalkRampDown(t)
  BY <1>0, <1>1, <1>2, <1>7 DEF WalkRampDown, Held, Leads
<1>8. CASE WalkChange(t)
  BY <1>0, <1>1, <1>2, <1>8 DEF WalkChange, Held, Leads
<1>9. CASE WalkRampUp(t)
  BY <1>0, <1>1, <1>2, <1>9 DEF WalkRampUp, Held, Leads
<1>10. CASE WalkStart(t)
  BY <1>0, <1>1, <1>2, <1>10 DEF WalkStart, Held, Leads
<1>11. CASE WalkRun(t)
  BY <1>2, <1>11 DEF WalkRun, Rest
<1>12. CASE WalkAfter(t)
  BY <1>0, <1>12 DEF WalkAfter, Leads
<1>13. CASE WalkCallback(t)
  BY <1>0, <1>1, <1>2, <1>13 DEF WalkCallback, Held, Leads
<1>14. QED
  BY <1>3, <1>4, <1>5, <1>6, <1>7, <1>8, <1>9, <1>10, <1>11, <1>12, <1>13 DEF Walk

LEMMA OrderWalkStep ==
    ASSUME WalkTypes, WalkTurns, OrderInv, NEW t \in Threads, Walk(t)
    PROVE  OrderInv'
<1>0. /\ Walking(t) /\ ~op /\ ~round_done /\ pc[t] # "round"
      /\ \A u \in Threads : u # t => Idles(u)
      /\ t = "app" => pc["irq"] = "idle"
  BY WalkAlone
<1>a. /\ Leads(t, Onward) \/ Leads(t, {Rest(t)}) \/ Ends(t)
      /\ op' = op \/ (pc[t] = "run" /\ op' \in {op, TRUE} /\ (Leads(t, {Rest(t)}) \/ Ends(t)))
  BY WalkGoes, OrderKnown
<1>b. UNCHANGED <<runs, activity_sequence, round_done, completed>> /\ AS!Count' = AS!Count /\ AS!Rounds' = AS!Rounds
  BY OrderFrame DEF Walk, Kept
<1>c. /\ runs > 0 /\ activity_iter <= Len(performed) /\ Len(performed) <= AS!Count
      /\ completed = RoundsUpTo(activity_iter) /\ AS!Count \in Nat /\ Len(performed) \in Nat /\ activity_iter \in Nat
  <2>1. Active
    BY <1>0 DEF Active, Walking, Before, During, Threads
  <2>2. QED
    BY <2>1, SequenceShape DEF OrderInv, OrderRun, WalkTypes
<1>d. OrderThread(t) /\ OrderThread(t)'
  BY OrderThreadStep DEF OrderInv
(* Three ways in which a step of the walk moves on. *)
<1>e. \/ /\ pc[t] = "perform" /\ activity_iter' = activity_iter
         /\ performed' = Append(performed, activity_iter) /\ Len(performed) = activity_iter
      \/ /\ pc[t] = "after" /\ performed' = performed /\ activity_iter' = activity_iter + 1
         /\ Len(performed) = activity_iter + 1 /\ AS!Current.type_id # "round"
      \/ UNCHANGED <<activity_iter, performed>>
  BY <1>d DEF OrderThread, Before, During, Walk, Held, WalkNext, WalkWait, WalkPerform, WalkUpdate, WalkRampDown,
     WalkChange, WalkRampUp, WalkStart, WalkRun, WalkAfter, WalkCallback
<1>1. OrderList' /\ activity_iter' <= Len(performed') /\ Len(performed') <= AS!Count
      /\ completed' = RoundsUpTo(activity_iter)'
  <2>1. CASE UNCHANGED <<activity_iter, performed>>
    BY <1>b, <1>c, <2>1, OrderFrame DEF OrderInv
  <2>2. CASE pc[t] = "perform" /\ activity_iter' = activity_iter
             /\ performed' = Append(performed, activity_iter) /\ Len(performed) = activity_iter
    <3>1. Len(performed') = activity_iter + 1 /\ activity_iter < AS!Count
      BY <1>d, <2>2, AppendProperties DEF OrderThread, WalkTypes
    <3>2. \A i \in 1 .. Len(performed') : performed'[i] = i - 1
      BY <1>c, <2>2, <3>1, AppendAt DEF WalkTypes, OrderInv, OrderList
    <3>3. RoundsUpTo(activity_iter)' = RoundsUpTo(activity_iter)
      BY <1>b, <2>2, OrderFrame
    <3>4. QED
      BY <1>b, <1>c, <2>2, <3>1, <3>2, <3>3 DEF OrderList
  <2>3. CASE pc[t] = "after" /\ performed' = performed /\ activity_iter' = activity_iter + 1
             /\ Len(performed) = activity_iter + 1 /\ AS!Current.type_id # "round"
    <3>1. RoundsUpTo(activity_iter + 1) = RoundsUpTo(activity_iter)
      BY <1>c, <2>3, RoundsCounted DEF AS!Current
    <3>2. RoundsUpTo(activity_iter)' = RoundsUpTo(activity_iter + 1)
      BY <1>b, <2>3 DEF RoundsUpTo
    <3>3. OrderList'
      BY <1>b, <2>3, OrderFrame DEF OrderInv
    <3>4. QED
      BY <1>b, <1>c, <2>3, <3>1, <3>2, <3>3
  <2>4. QED
    BY <1>e, <2>1, <2>2, <2>3
<1>2. OrderRun'
  BY <1>b, <1>c, <1>1 DEF OrderRun
<1>3. OrderDone'
  <2> SUFFICES ASSUME runs' > 0, pc'["app"] = "idle", ex10_result' = "success"
               PROVE  /\ Len(performed') = AS!Count /\ completed' = AS!Rounds /\ ~op' /\ ~round_done'
                      /\ pc'["irq"] \notin During \cup {"wait", "perform", "round"}
    BY <1>b DEF OrderDone
  <2>1. t = "irq" /\ pc["app"] = "idle" /\ ex10_result = "success"
    BY <1>a DEF Threads, Leads, Ends, Rest, Onward, Before, During
  <2>2. /\ Len(performed) = AS!Count /\ completed = AS!Rounds
        /\ pc["irq"] \notin During \cup {"wait", "perform", "round"}
    BY <1>c, <2>1 DEF OrderInv, OrderDone
  <2>3. pc["irq"] \in {"next", "callback"}
    BY <2>1, <2>2 DEF Walk, Held, WalkNext, WalkWait, WalkPerform, WalkUpdate, WalkRampDown, During,
     WalkChange, WalkRampUp, WalkStart, WalkRun, WalkAfter, WalkCallback
  <2>4. Len(performed) = activity_iter
    BY <1>d, <2>1, <2>3 DEF OrderThread, Before
  <2>5. pc'["irq"] \in {"next", "fifo"} /\ performed' = performed
    <3>1. CASE WalkNext("irq")
      BY <1>c, <2>2, <2>4, <3>1 DEF WalkNext, Leads, Held
    <3>2. CASE WalkCallback("irq")
      BY <3>2 DEF WalkCallback, Leads, Ends, Held
    <3>3. QED
      BY <2>1, <2>3, <3>1, <3>2 DEF Walk, WalkWait, WalkPerform, WalkUpdate, WalkRampDown,
         WalkChange, WalkRampUp, WalkStart, WalkRun, WalkAfter
  <2>6. QED
    <3>1. op' = op
      BY <1>a, <2>1, <2>3
    <3>2. Len(performed') = AS!Count /\ completed' = AS!Rounds
      BY <1>b, <2>2, <2>5
    <3>3. QED
      BY <1>0, <1>b, <2>5, <3>1, <3>2 DEF During
<1>4. OrderRound'
  <2> SUFFICES ASSUME AtRound' PROVE Len(performed') = activity_iter' + 1 /\ AS!Current'.type_id = "round"
    BY DEF OrderRound
  <2>1. pc'["irq"] # "round"
    BY <1>0, <1>a DEF Leads, Ends, Rest, Onward, Before, During, Threads
  <2>2. pc[t] = "run" /\ WalkRun(t)
    <3>1. op' # op /\ pc[t] = "run"
      BY <1>0, <1>a, <1>b, <2>1 DEF AtRound
    <3>2. QED
      BY <3>1 DEF Walk, WalkNext, WalkWait, WalkPerform, WalkUpdate, WalkRampDown,
     WalkChange, WalkRampUp, WalkStart, WalkAfter, WalkCallback
  <2>3. UNCHANGED <<activity_iter, performed>>
    BY <2>2 DEF WalkRun
  <2>4. AS!Current' = AS!Current
    BY <1>b, <2>3, OrderFrame
  <2>5. Len(performed) = activity_iter + 1 /\ AS!Current.type_id = "round"
    BY <1>d, <2>2 DEF OrderThread, During
  <2>6. QED
    BY <2>3, <2>4, <2>5
<1>5. \A u \in Threads : OrderThread(u)'
  <2>1. ASSUME NEW u \in Threads, u # t PROVE OrderThread(u)'
    <3>1. pc'[u] = pc[u] /\ Idles(u)
      BY <1>0, <1>a, <2>1 DEF Leads, Ends
    <3>2. QED
      BY <3>1 DEF OrderThread, Idles, Walking, Before, During
  <2>2. QED
    BY <1>d, <2>1
<1>6. QED
  BY <1>1, <1>2, <1>3, <1>4, <1>5 DEF OrderInv

LEMMA OrderStep ==
    ASSUME WalkTypes, WalkTurns, OrderInv, AS!Next \/ UNCHANGED AS!vars
    PROVE  OrderInv'
<1>0. "app" \in Threads /\ "irq" \in Threads /\ OrderThread("app") /\ OrderThread("irq")
  BY DEF OrderInv, Threads
<1>a. ASSUME UNCHANGED <<activity_sequence, activity_iter, performed, completed, runs>>
      PROVE  /\ AS!Count' = AS!Count /\ AS!Current' = AS!Current /\ OrderList' /\ AS!Rounds' = AS!Rounds
             /\ RoundsUpTo(activity_iter)' = RoundsUpTo(activity_iter)
             /\ (Active' => Active) => OrderRun'
  BY <1>a, OrderFrame DEF OrderInv, OrderRun
<1>1. CASE ChipStep
  <2>1. UNCHANGED <<activity_sequence, activity_iter, performed, completed, runs, pc, ex10_result, activity>>
    BY <1>1 DEF ChipStep
  <2>2. (AtRound' => AtRound) /\ (Active' => Active) /\ ((op' \/ round_done') => (op \/ round_done))
    BY <1>1 DEF ChipStep, AtRound, Active, Walking
  <2>3. \A t \in Threads : OrderThread(t)'
    BY <1>a, <2>1 DEF OrderInv, OrderThread
  <2>4. OrderRound'
    BY <1>a, <2>1, <2>2 DEF OrderInv, OrderRound
  <2>5. OrderDone'
    BY <1>a, <2>1, <2>2 DEF OrderInv, OrderDone
  <2>6. QED
    BY <1>a, <2>1, <2>2, <2>3, <2>4, <2>5 DEF OrderInv
<1>2. CASE StatusStep
  <2>1. UNCHANGED <<activity_sequence, activity_iter, performed, completed, runs, ex10_result, activity, op>>
    BY <1>2 DEF StatusStep
  <2>2. /\ pc'["app"] = pc["app"] /\ round_done' = FALSE
        /\ (pc'["irq"] = "round" /\ round_done) \/ (pc'["irq"] = "fifo" /\ ~round_done)
    BY <1>2 DEF StatusStep, Leads, Threads
  <2>3. (AtRound' => AtRound) /\ (Active' => Active)
    BY <2>1, <2>2 DEF AtRound, Active, Walking, Before, During
  <2>4. OrderThread("app")' /\ OrderThread("irq")'
    BY <1>0, <1>a, <2>1, <2>2 DEF OrderThread, Before, During
  <2>5. OrderRound'
    BY <1>a, <2>1, <2>3 DEF OrderInv, OrderRound
  <2>6. OrderDone'
    BY <1>a, <2>1, <2>2 DEF OrderInv, OrderDone, During
  <2>7. QED
    BY <1>a, <2>1, <2>3, <2>4, <2>5, <2>6 DEF OrderInv, Threads
<1>3. CASE SwitchStep
  <2>0. /\ UNCHANGED <<activity_sequence, performed, runs, op, round_done>> /\ pc["irq"] = "round"
        /\ pc'["app"] = pc["app"] /\ ex10_result' = ex10_result /\ ~op /\ ~round_done
        /\ ~Walking("app") /\ pc["app"] # "check_op"
    BY <1>3 DEF SwitchStep, Leads, Ends, Threads, WalkTurns, Walking
  <2>1. Active /\ AtRound
    BY <2>0 DEF Active, AtRound, Walking
  <2>2. /\ Len(performed) = activity_iter + 1 /\ AS!Current.type_id = "round" /\ Len(performed) <= AS!Count
        /\ completed = RoundsUpTo(activity_iter) /\ runs > 0 /\ activity_iter \in Nat /\ completed \in Nat
    BY <2>1 DEF OrderInv, OrderRound, OrderRun, WalkTypes
  <2>3. ~(pc["app"] = "idle" /\ ex10_result = "success")
    BY <2>0, <2>2 DEF OrderInv, OrderDone
  <2>4. OrderDone' /\ OrderThread("app")'
    <3>1. OrderDone'
      BY <2>0, <2>3 DEF OrderDone
    <3>2. pc'["app"] \notin Before \cup During \cup {"check_op"}
      BY <2>0 DEF Walking
    <3>3. QED
      BY <3>1, <3>2 DEF OrderThread, Before, During
  <2>5. CASE UNCHANGED <<activity_iter, completed>>
    <3>1. /\ \/ pc'["irq"] = "start" /\ activity'["irq"] = AS!Current
             \/ pc'["irq"] = "fifo"
      <4>1. \/ Leads("irq", {"start"}) /\ activity' = [activity EXCEPT !["irq"] = AS!Current]
            \/ Ends("irq")
        BY <1>3, <2>2, <2>5 DEF SwitchStep
      <4>2. QED
        BY <1>0, <4>1 DEF Leads, Ends, WalkTypes
    <3>2. OrderThread("irq")'
      BY <1>a, <2>0, <2>2, <2>5, <3>1 DEF OrderThread, Before, During
    <3>3. ~AtRound'
      BY <2>0, <3>1 DEF AtRound
    <3>4. OrderRun' /\ OrderList'
      BY <1>a, <2>0, <2>1, <2>5
    <3>5. QED
      BY <2>4, <3>2, <3>3, <3>4 DEF OrderInv, Threads, OrderRound
  <2>6. CASE Leads("irq", {"round_callback"}) /\ activity_iter' = activity_iter + 1 /\ completed' = completed + 1
    <3>1. pc'["irq"] = "round_callback"
      BY <2>6 DEF Leads
    <3>2. OrderThread("irq")' /\ ~AtRound'
      BY <2>0, <2>2, <2>6, <3>1 DEF OrderThread, AtRound, Before, During
    <3>3. RoundsUpTo(activity_iter + 1) = completed + 1
      BY <2>2, RoundsCounted DEF AS!Current
    <3>4. RoundsUpTo(activity_iter)' = RoundsUpTo(activity_iter + 1) /\ AS!Count' = AS!Count /\ OrderList'
      BY <2>0, <2>6, OrderFrame DEF RoundsUpTo, OrderInv
    <3>5. OrderRun'
      BY <2>0, <2>2, <2>6, <3>3, <3>4 DEF OrderRun
    <3>6. QED
      BY <2>4, <3>2, <3>4, <3>5 DEF OrderInv, Threads, OrderRound
  <2>7. QED
    BY <1>3, <2>5, <2>6 DEF SwitchStep
<1>4. CASE MonitorStep
  <2>1. UNCHANGED <<activity_sequence, activity_iter, performed, completed, runs, activity, op, round_done>>
    BY <1>4 DEF MonitorStep, WalkIdle
  <2>2. /\ pc'["app"] = pc["app"] /\ ex10_result' = ex10_result
        /\ \/ pc["irq"] = "round_callback" /\ pc'["irq"] \in {"next", "fifo"}
           \/ pc["irq"] = "fifo" /\ pc'["irq"] = "idle"
    BY <1>4 DEF MonitorStep, Leads, Ends, Threads
  <2>3. (AtRound' => AtRound) /\ (Active' => Active)
    BY <2>1, <2>2 DEF AtRound, Active, Walking, Before, During
  <2>4. OrderThread("app")' /\ OrderThread("irq")'
    BY <1>0, <1>a, <2>1, <2>2 DEF OrderThread, Before, During
  <2>5. OrderRound'
    BY <1>a, <2>1, <2>3 DEF OrderInv, OrderRound
  <2>6. OrderDone'
    BY <1>a, <2>1, <2>2 DEF OrderInv, OrderDone, During
  <2>7. QED
    BY <1>a, <2>1, <2>3, <2>4, <2>5, <2>6 DEF OrderInv, Threads
<1>5. CASE AppStep
  <2>1. UNCHANGED <<activity_sequence, activity_iter, performed, completed, runs, activity, op, round_done>>
    BY <1>5 DEF AppStep, WalkIdle
  <2>2. pc'["irq"] = pc["irq"] /\ pc["app"] # "idle"
    BY <1>5 DEF AppStep
  <2>3. (AtRound' => AtRound) /\ Active
    BY <2>1, <2>2 DEF AtRound, Active
  <2>4. OrderThread("irq")'
    BY <1>0, <1>a, <2>1, <2>2 DEF OrderThread
  <2>5. OrderThread("app")'
    <3>1. \/ pc["app"] = "check_op" /\ pc'["app"] = "next"
          \/ pc'["app"] \in {"peek_first", "peek", "count", "deliver", "check", "idle"}
      BY <1>5 DEF AppStep
    <3>2. QED
      BY <1>0, <1>a, <2>1, <3>1 DEF OrderThread, Before, During
  <2>6. OrderRound'
    BY <1>a, <2>1, <2>3 DEF OrderInv, OrderRound
  <2>7. OrderDone'
    <3> SUFFICES ASSUME pc'["app"] = "idle", ex10_result' = "success"
                 PROVE  /\ Len(performed) = AS!Count /\ completed = AS!Rounds /\ ~op /\ ~round_done
                        /\ pc["irq"] \notin During \cup {"wait", "perform", "round"}
      BY <1>a, <2>1, <2>2 DEF OrderDone
    <3>1. activity_iter >= AS!Count
      BY <1>5 DEF AppStep
    <3>2. /\ runs > 0 /\ activity_iter <= Len(performed) /\ Len(performed) <= AS!Count
          /\ completed = RoundsUpTo(activity_iter) /\ activity_iter \in Nat /\ Len(performed) \in Nat
      BY <2>3 DEF OrderInv, OrderRun, WalkTypes
    <3>3. AS!Count \in Nat /\ AS!Rounds = RoundsUpTo(AS!Count)
      BY <3>2, SequenceShape, OrderRounds
    <3>4. activity_iter = AS!Count /\ Len(performed) = AS!Count
      BY <3>1, <3>2, <3>3
    <3>5. ~AtRound
      BY <3>3, <3>4 DEF OrderInv, OrderRound
    <3>6. pc["irq"] \notin During \cup {"wait", "perform", "round"}
      BY <1>0, <3>3, <3>4, <3>5 DEF OrderThread, AtRound
    <3>7. QED
      BY <3>2, <3>3, <3>4, <3>5, <3>6 DEF AtRound
  <2>8. QED
    BY <1>a, <2>1, <2>3, <2>4, <2>5, <2>6, <2>7 DEF OrderInv, Threads
<1>6. CASE StartStep
  <2>0. /\ pc["app"] = "idle" /\ pc["irq"] = "idle" /\ ~op /\ ~irq_pending /\ ~round_done
        /\ UNCHANGED <<op, round_done>> /\ activity_iter' = 0 /\ pc'["irq"] = "idle"
    BY <1>6 DEF StartStep, WalkTurns
  <2>1. OrderThread("irq")' /\ OrderRound'
    BY <2>0 DEF OrderThread, Before, During, OrderRound, AtRound
  <2>2. CASE UNCHANGED <<activity_sequence, performed, pc, ex10_result, runs, completed>>
    <3>1. ~Active'
      BY <2>0, <2>2 DEF Active, Walking, Before, During
    <3>2. OrderList' /\ AS!Count' = AS!Count /\ AS!Rounds' = AS!Rounds
      BY <2>2, OrderFrame DEF OrderInv
    <3>3. OrderDone'
      BY <2>0, <2>2, <3>2 DEF OrderInv, OrderDone
    <3>4. OrderThread("app")'
      BY <2>0, <2>2 DEF OrderThread, Before, During
    <3>5. QED
      BY <2>1, <3>1, <3>2, <3>3, <3>4 DEF OrderInv, OrderRun, Threads
  <2>3. CASE /\ activity_sequence' \in ActivitySequences /\ runs' = runs + 1
             /\ performed' = <<>> /\ completed' = 0 /\ pc'["app"] = "check_op"
    <3>1. Len(performed') = 0
      <4>1. Len(<<>>) = 0
        OBVIOUS
      <4>2. QED
        BY <2>3, <4>1
    <3>2. AS!Count' \in Nat
      <4>1. activity_sequence' \in Seq({activity_sequence'[i] : i \in DOMAIN activity_sequence'})
        BY <2>3, UseCasesConstants DEF AS!ActivityConstants
      <4>2. QED
        BY <4>1, LenProperties DEF AS!Count
    <3>3. RoundsUpTo(activity_iter)' = 0
      <4>1. {i \in 1 .. 0 : activity_sequence'[i].type_id = "round"} = {}
        OBVIOUS
      <4>2. QED
        BY <2>0, <4>1, FS_EmptySet DEF RoundsUpTo
    <3>4. OrderRun'
      BY <2>0, <2>3, <3>1, <3>2, <3>3 DEF OrderRun, WalkTypes
    <3>5. OrderList' /\ OrderDone'
      BY <2>3, <3>1 DEF OrderList, OrderDone
    <3>6. OrderThread("app")'
      BY <2>0, <2>3, <3>1 DEF OrderThread, Before, During
    <3>7. QED
      BY <2>1, <3>4, <3>5, <3>6 DEF OrderInv, Threads
  <2>4. QED
    BY <1>6, <2>2, <2>3 DEF StartStep
<1>7. ASSUME NEW t \in Threads, Walk(t) PROVE OrderInv'
  BY <1>7, OrderWalkStep
<1>8. CASE WalkIdle /\ UNCHANGED <<pc, ex10_result>>
  <2>1. UNCHANGED <<activity_sequence, activity_iter, performed, completed, runs, activity, op, round_done, pc, ex10_result>>
    BY <1>8 DEF WalkIdle
  <2>2. (AtRound' <=> AtRound) /\ (Active' <=> Active)
    BY <2>1 DEF AtRound, Active, Walking
  <2>3. \A t \in Threads : OrderThread(t)'
    BY <1>a, <2>1 DEF OrderInv, OrderThread
  <2>4. OrderRound' /\ OrderDone'
    BY <1>a, <2>1, <2>2 DEF OrderInv, OrderRound, OrderDone
  <2>5. QED
    BY <1>a, <2>1, <2>2, <2>3, <2>4 DEF OrderInv
<1>9. QED
  BY <1>1, <1>2, <1>3, <1>4, <1>5, <1>6, <1>7, <1>8, WalkCases

(* The transmitter has the antenna that is remembered, and on the way to a *)
(* round, in it and until its end is handled, all that the round asks for. *)
Wanted == AS!Current.config
Fit == antenna = Wanted.antenna /\ sequence_cw \in {AS!Off, AS!CwOf(Wanted)}
PowerOn ==
    /\ sequence_cw = [antenna |-> sequence_cw.antenna, power |-> sequence_cw.power]
    /\ sequence_cw # AS!Off => sequence_cw.antenna = antenna
PowerThread(t) ==
    /\ pc[t] = "dynamic" => antenna = Wanted.antenna
    /\ pc[t] = "ramp_up" => sequence_cw = AS!Off
    /\ pc[t] \in {"ramp_down", "dynamic", "ramp_up", "run"} => rf_mode = Wanted.rf_mode
    /\ pc[t] \in {"start", "run"} => Fit
PowerRound == AtRound => Fit /\ rf_mode = Wanted.rf_mode

PowerInv == PowerOn /\ PowerRound /\ \A t \in Threads : PowerThread(t)

LEMMA PowerWalkStep ==
    ASSUME WalkTypes, WalkTurns, OrderInv, PowerInv, NEW t \in Threads, Walk(t)
    PROVE  PowerInv'
<1>0. /\ Walking(t) /\ ~op /\ ~round_done /\ pc[t] # "round"
      /\ \A u \in Threads : u # t => Idles(u)
      /\ t = "app" => pc["irq"] = "idle"
  BY WalkAlone
<1>a. /\ Leads(t, Onward) \/ Leads(t, {Rest(t)}) \/ Ends(t)
      /\ op' = op \/ (pc[t] = "run" /\ op' \in {op, TRUE} /\ (Leads(t, {Rest(t)}) \/ Ends(t)))
  BY WalkGoes, OrderKnown
<1>b. /\ OrderThread(t) /\ PowerThread(t) /\ PowerOn /\ Known(t)
      /\ activity_iter' = activity_iter => Wanted' = Wanted
      /\ pc[t] \in During \ {"after"} => Config(t) = Wanted
  BY OrderFrame, OrderKnown DEF Walk, Kept, OrderInv, PowerInv, Wanted, Config, OrderThread
<1>c. UNCHANGED round_done
  BY DEF Walk, Kept
<1>d. \A config : LET on == AS!CwOf(config) IN
            on = [antenna |-> on.antenna, power |-> on.power] /\ on.antenna = config.antenna
  BY DEF AS!CwOf
<1>e. AS!Off = [antenna |-> AS!Off.antenna, power |-> AS!Off.power]
  BY DEF AS!Off
<1> DEFINE Done == Leads(t, {Rest(t)}) \/ Ends(t)
<1>f. Done => pc'[t] \in {"fifo", "idle", "peek_first"}
  BY DEF Leads, Ends, Rest
<1> HIDE DEF Done
<1>g. ASSUME NEW p \in {"next", "wait", "perform", "callback", "after", "update", "fifo", "idle", "peek_first"},
             pc'[t] = p
      PROVE  PowerThread(t)'
  BY <1>g DEF PowerThread
<1>1. PowerOn' /\ PowerThread(t)'
  <2>1. CASE WalkNext(t)
    BY <1>b, <1>f, <1>g, <2>1 DEF WalkNext, PowerOn, Leads, Done
  <2>2. CASE WalkWait(t)
    BY <1>b, <1>f, <1>g, <2>2 DEF WalkWait, PowerOn, Leads, Done
  <2>3. CASE WalkPerform(t)
    <3>1. sequence_cw' \in {sequence_cw, AS!Off} /\ antenna' = antenna
          /\ (Leads(t, {"update"}) \/ Leads(t, {"after"}) \/ Done)
      BY <1>b, <2>3 DEF WalkPerform, Known, Done
    <3>2. PowerThread(t)'
      BY <1>f, <1>g, <3>1 DEF Leads
    <3>3. QED
      BY <1>b, <1>e, <3>1, <3>2 DEF PowerOn
  <2>4. CASE WalkUpdate(t)
    <3>1. UNCHANGED <<sequence_cw, antenna>> /\ Wanted' = Wanted /\ Config(t) = Wanted
      BY <1>b, <2>4 DEF WalkUpdate, Held, During
    <3>2. CASE Done
      BY <1>b, <1>f, <1>g, <3>1, <3>2 DEF PowerOn
    <3>3. CASE ~Done
      BY <1>b, <2>4, <3>1, <3>3 DEF WalkUpdate, PowerOn, PowerThread, Leads, Done
    <3>4. QED
      BY <3>2, <3>3
  <2>5. CASE WalkRampDown(t)
    <3>1. sequence_cw' \in {sequence_cw, AS!Off} /\ UNCHANGED <<antenna, rf_mode>> /\ Wanted' = Wanted
      BY <1>b, <2>5 DEF WalkRampDown, Held
    <3>2. PowerThread(t)'
      <4>1. CASE Done
        BY <1>f, <1>g, <4>1
      <4>2. CASE ~Done
        BY <1>b, <2>5, <3>1, <4>2 DEF WalkRampDown, PowerThread, Leads, Done
      <4>3. QED
        BY <4>1, <4>2
    <3>3. QED
      BY <1>b, <1>e, <3>1, <3>2 DEF PowerOn
  <2>6. CASE WalkChange(t)
    <3> DEFINE changed == IF sequence_cw = AS!Off THEN AS!Off ELSE [sequence_cw EXCEPT !.power = Config(t).power]
    <3>1. Wanted' = Wanted /\ Config(t) = Wanted /\ antenna = Wanted.antenna
      BY <1>b, <2>6 DEF WalkChange, Held, During, PowerThread
    <3>2. /\ changed = [antenna |-> changed.antenna, power |-> changed.power]
          /\ changed # AS!Off => changed.antenna = antenna
          /\ changed \in {AS!Off, AS!CwOf(Wanted)}
      <4>1. CASE sequence_cw = AS!Off
        BY <1>e, <4>1
      <4>2. CASE sequence_cw # AS!Off
        <5>1. sequence_cw = [antenna |-> antenna, power |-> sequence_cw.power]
          BY <1>b, <4>2 DEF PowerOn
        <5>2. changed = [antenna |-> antenna, power |-> Wanted.power]
          BY <3>1, <4>2, <5>1
        <5>3. QED
          BY <3>1, <5>2 DEF AS!CwOf
      <4>3. QED
        BY <4>1, <4>2
    <3>3. \/ /\ Leads(t, {IF activity[t].type_id = "round" THEN "start" ELSE "after"})
             /\ antenna' = Wanted.antenna /\ sequence_cw' = changed
          \/ Done /\ antenna' = antenna /\ sequence_cw' \in {sequence_cw, changed}
      BY <2>6, <3>1 DEF WalkChange, Done
    <3> HIDE DEF changed
    <3>4. PowerOn'
      BY <1>b, <3>1, <3>2, <3>3 DEF PowerOn
    <3>5. PowerThread(t)'
      BY <1>f, <1>g, <3>1, <3>2, <3>3 DEF PowerThread, Leads, Fit
    <3>6. QED
      BY <3>4, <3>5
  <2>7. CASE WalkRampUp(t)
    <3>1. Wanted' = Wanted /\ Config(t) = Wanted /\ sequence_cw = AS!Off
      BY <1>b, <2>7 DEF WalkRampUp, Held, During, PowerThread
    <3>2. \/ /\ Leads(t, {IF activity[t].type_id = "round" THEN "start" ELSE "after"})
             /\ antenna' = Wanted.antenna /\ sequence_cw' = AS!CwOf(Wanted)
          \/ Done /\ antenna' = Wanted.antenna /\ sequence_cw' \in {AS!Off, AS!CwOf(Wanted)}
          \/ Done /\ UNCHANGED <<antenna, sequence_cw>>
      BY <2>7, <3>1 DEF WalkRampUp, Done
    <3>3. PowerOn'
      BY <1>b, <1>d, <1>e, <3>2 DEF PowerOn
    <3>4. PowerThread(t)'
      BY <1>f, <1>g, <3>1, <3>2 DEF PowerThread, Leads, Fit
    <3>5. QED
      BY <3>3, <3>4
  <2>8. CASE WalkStart(t)
    <3>1. Wanted' = Wanted /\ Config(t) = Wanted /\ Fit /\ antenna' = antenna
      BY <1>b, <2>8 DEF WalkStart, Held, During, PowerThread
    <3>2. \/ /\ Leads(t, {"run"}) /\ rf_mode' = Wanted.rf_mode /\ sequence_cw' = AS!CwOf(Wanted)
          \/ Done /\ sequence_cw' \in {sequence_cw, AS!CwOf(Wanted)}
      BY <2>8, <3>1 DEF WalkStart, Done, Fit
    <3>3. PowerOn'
      BY <1>b, <1>d, <3>1, <3>2 DEF PowerOn, Fit
    <3>4. PowerThread(t)'
      BY <1>f, <1>g, <3>1, <3>2 DEF PowerThread, Leads, Fit
    <3>5. QED
      BY <3>3, <3>4
  <2>9. CASE WalkRun(t)
    <3>1. Done
      BY <2>9 DEF WalkRun, Done, Rest
    <3>2. QED
      BY <1>b, <1>f, <1>g, <2>9, <3>1 DEF WalkRun, PowerOn
  <2>10. CASE WalkAfter(t) \/ WalkCallback(t)
    BY <1>b, <1>f, <1>g, <2>10 DEF WalkAfter, WalkCallback, PowerOn, Leads, Done
  <2>11. QED
    BY <2>1, <2>2, <2>3, <2>4, <2>5, <2>6, <2>7, <2>8, <2>9, <2>10 DEF Walk
<1>2. PowerRound'
  <2> SUFFICES ASSUME AtRound' PROVE Fit' /\ rf_mode' = Wanted'.rf_mode
    BY DEF PowerRound
  <2>1. pc'["irq"] # "round"
    BY <1>0, <1>a DEF Leads, Ends, Rest, Onward, Before, During, Threads
  <2>2. op' # op /\ pc[t] = "run"
    BY <1>0, <1>a, <1>c, <2>1 DEF AtRound
  <2>3. WalkRun(t)
    BY <2>2 DEF Walk, WalkNext, WalkWait, WalkPerform, WalkUpdate, WalkRampDown,
     WalkChange, WalkRampUp, WalkStart, WalkAfter, WalkCallback
  <2>4. UNCHANGED <<sequence_cw, rf_mode, antenna, activity_iter>>
    BY <2>3 DEF WalkRun
  <2>5. QED
    BY <1>b, <2>2, <2>4 DEF PowerThread, Fit
<1>3. \A u \in Threads : PowerThread(u)'
  <2>1. ASSUME NEW u \in Threads, u # t PROVE PowerThread(u)'
    <3>1. pc'[u] = pc[u] /\ Idles(u)
      BY <1>0, <1>a, <2>1 DEF Leads, Ends
    <3>2. QED
      BY <3>1 DEF PowerThread, Idles, Walking, Before, During
  <2>2. QED
    BY <1>1, <2>1
<1>4. QED
  BY <1>1, <1>2, <1>3 DEF PowerInv

LEMMA PowerStep ==
    ASSUME WalkTypes, WalkTurns, OrderInv, PowerInv, AS!Next \/ UNCHANGED AS!vars
    PROVE  PowerInv'
<1>0. "app" \in Threads /\ "irq" \in Threads /\ PowerThread("app") /\ PowerThread("irq") /\ PowerOn
  BY DEF PowerInv, Threads
<1>a. ASSUME UNCHANGED <<activity_sequence, activity_iter, rf_mode, antenna>>,
             sequence_cw' \in {sequence_cw, AS!Off}
      PROVE  Wanted' = Wanted /\ PowerOn' /\ (Fit => Fit') /\ ((AtRound' => AtRound) => PowerRound')
  <2>1. Wanted' = Wanted
    BY <1>a, OrderFrame DEF Wanted
  <2>2. PowerOn'
    BY <1>0, <1>a DEF PowerOn, AS!Off
  <2>3. Fit => Fit'
    BY <1>a, <2>1 DEF Fit
  <2>4. QED
    BY <1>a, <2>1, <2>2, <2>3 DEF PowerInv, PowerRound
<1>b. ASSUME UNCHANGED <<activity_sequence, activity_iter, rf_mode, antenna>>,
             sequence_cw' \in {sequence_cw, AS!Off}, NEW t \in Threads, pc'[t] = pc[t]
      PROVE  PowerThread(t)'
  BY <1>a, <1>b DEF PowerInv, PowerThread
<1>c. ASSUME NEW t \in Threads,
             pc'[t] \notin {"dynamic", "ramp_up", "ramp_down", "start", "run"}
      PROVE  PowerThread(t)'
  BY <1>c DEF PowerThread
<1>1. CASE ChipStep
  <2>1. /\ UNCHANGED <<activity_sequence, activity_iter, rf_mode, antenna, pc>>
        /\ sequence_cw' \in {sequence_cw, AS!Off} /\ (AtRound' => AtRound)
    BY <1>1 DEF ChipStep, AtRound
  <2>2. QED
    BY <1>a, <1>b, <2>1 DEF PowerInv
<1>2. CASE StatusStep
  <2>1. UNCHANGED <<activity_sequence, activity_iter, rf_mode, antenna, sequence_cw, op>>
    BY <1>2 DEF StatusStep
  <2>2. /\ pc'["app"] = pc["app"] /\ round_done' = FALSE
        /\ (pc'["irq"] = "round" /\ round_done) \/ (pc'["irq"] = "fifo" /\ ~round_done)
    BY <1>2 DEF StatusStep, Leads, Threads
  <2>3. AtRound' => AtRound
    BY <2>1, <2>2 DEF AtRound
  <2>4. PowerThread("irq")' /\ PowerThread("app")'
    BY <1>0, <1>b, <1>c, <2>1, <2>2
  <2>5. QED
    BY <1>a, <2>1, <2>3, <2>4 DEF PowerInv, Threads
<1>3. CASE SwitchStep
  <2>1. /\ UNCHANGED <<activity_sequence, rf_mode, antenna, sequence_cw, op, round_done>> /\ pc["irq"] = "round"
        /\ pc'["app"] = pc["app"] /\ ~op /\ ~round_done /\ pc["app"] \notin Before \cup During
    BY <1>3 DEF SwitchStep, Leads, Ends, Threads, WalkTurns, Walking
  <2>2. PowerOn'
    BY <1>0, <2>1 DEF PowerOn
  <2>3. PowerThread("app")'
    BY <1>0, <1>c, <2>1 DEF During
  <2>4. pc'["irq"] \in {"round_callback", "fifo"} \/ (pc'["irq"] = "start" /\ activity_iter' = activity_iter)
    BY <1>3 DEF SwitchStep, Leads, Ends
  <2>5. PowerThread("irq")'
    <3>1. Fit
      BY <2>1 DEF PowerInv, PowerRound, AtRound
    <3>2. CASE pc'["irq"] = "start" /\ activity_iter' = activity_iter
      BY <1>a, <2>1, <3>1, <3>2 DEF PowerThread
    <3>3. QED
      BY <1>0, <1>c, <2>4, <3>2
  <2>6. ~AtRound'
    BY <2>1, <2>4 DEF AtRound
  <2>7. QED
    BY <2>2, <2>3, <2>5, <2>6 DEF PowerInv, PowerRound, Threads
<1>4. CASE MonitorStep
  <2>1. UNCHANGED <<activity_sequence, activity_iter, rf_mode, antenna, sequence_cw, op, round_done>>
    BY <1>4 DEF MonitorStep, WalkIdle
  <2>2. pc'["app"] = pc["app"] /\ pc'["irq"] \in {"next", "fifo", "idle"}
    BY <1>4 DEF MonitorStep, Leads, Ends, Threads
  <2>3. AtRound' => AtRound
    BY <2>1, <2>2 DEF AtRound
  <2>4. PowerThread("irq")' /\ PowerThread("app")'
    BY <1>0, <1>b, <1>c, <2>1, <2>2
  <2>5. QED
    BY <1>a, <2>1, <2>3, <2>4 DEF PowerInv, Threads
<1>5. CASE AppStep
  <2>1. UNCHANGED <<activity_sequence, activity_iter, rf_mode, antenna, sequence_cw, op, round_done>>
    BY <1>5 DEF AppStep, WalkIdle
  <2>2. pc'["irq"] = pc["irq"] /\ pc'["app"] \in {"next", "peek_first", "peek", "count", "deliver", "check", "idle"}
    BY <1>5 DEF AppStep
  <2>3. AtRound' => AtRound
    BY <2>1, <2>2 DEF AtRound
  <2>4. PowerThread("irq")' /\ PowerThread("app")'
    BY <1>0, <1>b, <1>c, <2>1, <2>2
  <2>5. QED
    BY <1>a, <2>1, <2>3, <2>4 DEF PowerInv, Threads
<1>6. CASE StartStep
  <2>1. /\ UNCHANGED <<rf_mode, antenna, sequence_cw>> /\ ~op' /\ ~round_done'
        /\ pc'["irq"] = "idle" /\ pc'["app"] \in {"idle", "check_op"}
    BY <1>6 DEF StartStep, WalkTurns
  <2>2. PowerOn' /\ ~AtRound'
    BY <1>0, <2>1 DEF PowerOn, AtRound
  <2>3. PowerThread("irq")' /\ PowerThread("app")'
    BY <1>0, <1>c, <2>1
  <2>4. QED
    BY <2>2, <2>3 DEF PowerInv, PowerRound, Threads
<1>7. ASSUME NEW t \in Threads, Walk(t) PROVE PowerInv'
  BY <1>7, PowerWalkStep
<1>8. CASE WalkIdle /\ UNCHANGED <<pc, ex10_result>>
  <2>1. UNCHANGED <<activity_sequence, activity_iter, rf_mode, antenna, sequence_cw, op, round_done, pc>>
    BY <1>8 DEF WalkIdle
  <2>2. AtRound' => AtRound
    BY <2>1 DEF AtRound
  <2>3. QED
    BY <1>a, <1>b, <2>1, <2>2 DEF PowerInv
<1>9. QED
  BY <1>1, <1>2, <1>3, <1>4, <1>5, <1>6, <1>7, <1>8, WalkCases

SequenceInv == WalkTypes /\ WalkTurns /\ OrderInv /\ PowerInv

(* SequenceIsPerformed: for any sequences, any number of runs, failures,   *)
(* tags and expiries of the dwell time, the two threads perform each       *)
(* activity once and in its order, a run that succeeds has performed them  *)
(* all, and a round that runs has the configuration that it asks for       *)
(* (continue_activity_sequence, update_power_from_sequence).               *)
THEOREM SequenceAlwaysPerformed == Spec => []SequenceIsPerformed
<1> DEFINE Inv == use_case = "activity_sequence" => SequenceInv
<1>1. Init => Inv
  <2> SUFFICES ASSUME Init PROVE SequenceInv
    OBVIOUS
  <2> USE DEF Init, AS!Init
  <2>0. Len(<<>>) = 0 /\ <<>> \in Seq(Nat)
    OBVIOUS
  <2>1. WalkTypes /\ DOMAIN pc = Threads /\ \A t \in Threads : pc[t] = "idle"
    <3>1. DOMAIN pc = Threads /\ DOMAIN activity = Threads /\ \A t \in Threads : pc[t] = "idle"
      BY DEF Threads
    <3>2. performed \in Seq(Nat) /\ activity_iter \in Nat /\ completed \in Nat /\ runs \in Nat /\ ~(runs > 0)
      BY <2>0
    <3>3. {op, round_done, irq_pending} \subseteq BOOLEAN
      OBVIOUS
    <3>4. QED
      BY <3>1, <3>2, <3>3 DEF WalkTypes
  <2>2. WalkTurns
    BY <2>1 DEF WalkTurns, Threads, Walking, Before, During
  <2>3. ~Active /\ ~AtRound
    BY <2>1 DEF Active, AtRound, Threads, Walking, Before, During
  <2>4. \A t \in Threads : OrderThread(t) /\ PowerThread(t)
    BY <2>1 DEF OrderThread, PowerThread, Before, During
  <2>5. OrderInv
    BY <2>0, <2>3, <2>4 DEF OrderInv, OrderList, OrderRun, OrderDone, OrderRound
  <2>6. PowerInv
    BY <2>3, <2>4 DEF PowerInv, PowerOn, PowerRound, AS!Off
  <2>7. QED
    BY <2>1, <2>2, <2>5, <2>6 DEF SequenceInv
<1>2. Inv /\ [Next]_vars => Inv'
  <2> SUFFICES ASSUME SequenceInv, AS!Next \/ UNCHANGED AS!vars PROVE SequenceInv'
    BY ChosenStep
  <2>1. \A t \in Threads : Known(t)
    BY OrderKnown DEF SequenceInv
  <2>2. WalkTypes' /\ WalkTurns' /\ OrderInv' /\ PowerInv'
    BY <2>1, WalkTypesStep, WalkTurnsStep, OrderStep, PowerStep DEF SequenceInv
  <2>3. QED
    BY <2>2 DEF SequenceInv
<1>3. Inv => SequenceIsPerformed
  <2> SUFFICES ASSUME SequenceInv PROVE AS!PerformedInOrder /\ AS!RoundAsConfigured
    BY DEF SequenceIsPerformed
  <2>1. DOMAIN performed = 1 .. Len(performed)
    BY LenProperties DEF SequenceInv, WalkTypes
  <2>2. AS!PerformedInOrder
    BY <2>1 DEF SequenceInv, OrderInv, OrderList, OrderDone, AS!PerformedInOrder, AS!Returned, AS!At
  <2>3. AS!RoundAsConfigured
    BY DEF SequenceInv, PowerInv, PowerRound, AtRound, Fit, Wanted, AS!RoundAsConfigured
  <2>4. QED
    BY <2>2, <2>3
<1> HIDE DEF Inv
<1>4. QED
  BY <1>1, <1>2, <1>3, PTL DEF Spec

-----------------------------------------------------------------------------
(* Power sweep.  The packets, and how many of them tell of a tag.          *)
SweepEvents == {"InventoryRoundSummary", "TagRead", "ContinuousInventorySummary"}
SweepPackets ==
    {<<kind>> : kind \in {"InventoryRoundSummary", "TagRead", "Ex10Result"}}
    \cup {<<"ContinuousInventorySummary", n>> : n \in Nat}
TagEvents(fifo) == Cardinality({i \in 1 .. Len(fifo) : fifo[i] = "TagRead"})
TagPackets(list) == Cardinality({i \in 1 .. Len(list) : list[i][1] = "TagRead"})
Count(condition) == IF condition THEN 1 ELSE 0

LEMMA SweepPacketKinds ==
    /\ \A kind \in {"InventoryRoundSummary", "TagRead", "Ex10Result"} :
            <<kind>> \in SweepPackets /\ <<kind>>[1] = kind
    /\ \A n \in Nat : /\ <<"ContinuousInventorySummary", n>> \in SweepPackets
                      /\ <<"ContinuousInventorySummary", n>>[1] = "ContinuousInventorySummary"
                      /\ <<"ContinuousInventorySummary", n>>[2] = n
    /\ \A p \in SweepPackets : p[1] = "ContinuousInventorySummary" => p[2] \in Nat
BY DEF SweepPackets

LEMMA Counting == \A S : PS!Cardinality(S) = Cardinality(S)
BY DEF PS!Cardinality, Cardinality

LEMMA FirstCount ==
    ASSUME NEW n \in Nat, NEW A \in SUBSET (1 .. n)
    PROVE  IsFiniteSet(A) /\ Cardinality(A) \in Nat
<1>1. IsFiniteSet(1 .. n)
  BY FS_Interval
<1>2. IsFiniteSet(A)
  BY ONLY <1>1, FS_Subset
<1>3. QED
  BY ONLY <1>2, FS_CardinalityType

(* Places in two lists, of which one is behind the other. *)
Joined(C, n, A, m, B) ==
    /\ n \in Nat /\ m \in Nat /\ A \in SUBSET (1 .. n) /\ B \in SUBSET (1 .. m) /\ C \in SUBSET Int
    /\ \A i \in Int : i \in C <=> i \in A \/ i - n \in B

LEMMA JoinedCount ==
    ASSUME NEW C, NEW n, NEW A, NEW m, NEW B, Joined(C, n, A, m, B)
    PROVE  Cardinality(C) = Cardinality(A) + Cardinality(B)
<1>0. n \in Nat /\ m \in Nat /\ A \in SUBSET (1 .. n) /\ B \in SUBSET (1 .. m) /\ C \in SUBSET Int
      /\ \A i \in Int : i \in C <=> i \in A \/ i - n \in B
  BY DEF Joined
<1> DEFINE moved == {n + i : i \in B}
           f == [i \in B |-> n + i]
<1>1. IsFiniteSet(A) /\ IsFiniteSet(B) /\ Cardinality(A) \in Nat /\ Cardinality(B) \in Nat
  BY <1>0, FirstCount
<1>2. f \in Bijection(B, moved)
  BY <1>0 DEF Bijection, Injection, Surjection, IsInjective
<1>3. IsFiniteSet(moved) /\ Cardinality(moved) = Cardinality(B)
  BY <1>1, <1>2, FS_Bijection, FS_Surjection DEF ExistsBijection, Bijection
<1>4. A \cap moved = {}
  <2>1. ASSUME NEW i \in B PROVE n + i \notin A
    BY <1>0
  <2>2. QED
    BY <2>1
<1> HIDE DEF moved
<1>5. Cardinality(A \cup moved) = Cardinality(A) + Cardinality(moved) - Cardinality(A \cap moved)
  BY ONLY <1>1, <1>3, FS_Union
<1>6. Cardinality(A \cap moved) = 0
  BY ONLY <1>4, FS_EmptySet
<1>7. C = A \cup moved
  <2>1. \A i \in Int : i \in moved <=> i - n \in B
    <3>1. \A i \in Int : i - n \in B => i = n + (i - n)
      BY <1>0
    <3>2. \A j \in B : (n + j) - n = j
      BY <1>0
    <3>3. QED
      BY <1>0, <3>1, <3>2 DEF moved
  <2>2. A \subseteq Int /\ moved \subseteq Int
    BY <1>0 DEF moved
  <2>3. QED
    BY <1>0, <2>1, <2>2
<1>8. QED
  BY <1>1, <1>3, <1>5, <1>6, <1>7

LEMMA TagAppended ==
    /\ \A fifo \in Seq(SweepEvents) : \A e \in SweepEvents :
            TagEvents(Append(fifo, e)) = TagEvents(fifo) + Count(e = "TagRead")
    /\ \A fifo \in Seq(SweepEvents) : TagEvents(fifo) \in Nat
    /\ \A list \in Seq(SweepPackets) : \A p \in SweepPackets :
            TagPackets(Append(list, p)) = TagPackets(list) + Count(p[1] = "TagRead")
    /\ \A list \in Seq(SweepPackets) : TagPackets(list) \in Nat
    /\ TagEvents(<<>>) = 0 /\ TagPackets(<<>>) = 0
<1>1. ASSUME NEW n \in Nat, NEW A \in SUBSET (1 .. n)
      PROVE  Cardinality(A \cup {n + 1}) = Cardinality(A) + 1
  <2>1. n + 1 \notin A
    OBVIOUS
  <2>2. QED
    BY ONLY <1>1, <2>1, FirstCount, FS_AddElement
<1>2. ASSUME NEW fifo \in Seq(SweepEvents), NEW e \in SweepEvents
      PROVE  /\ TagEvents(Append(fifo, e)) = TagEvents(fifo) + Count(e = "TagRead")
             /\ TagEvents(fifo) \in Nat
  <2> DEFINE A == {i \in 1 .. Len(fifo) : fifo[i] = "TagRead"}
             more == {i \in 1 .. Len(Append(fifo, e)) : Append(fifo, e)[i] = "TagRead"}
  <2>1. Len(fifo) \in Nat /\ A \in SUBSET (1 .. Len(fifo))
    OBVIOUS
  <2>2. more = IF e = "TagRead" THEN A \cup {Len(fifo) + 1} ELSE A
    <3>1. /\ Len(Append(fifo, e)) = Len(fifo) + 1 /\ Append(fifo, e)[Len(fifo) + 1] = e
          /\ \A i \in 1 .. Len(fifo) : Append(fifo, e)[i] = fifo[i]
      BY AppendAt
    <3>2. \A i \in 1 .. Len(fifo) + 1 : i \in 1 .. Len(fifo) \/ i = Len(fifo) + 1
      BY <2>1
    <3>3. QED
      BY <2>1, <3>1, <3>2
  <2>3. Cardinality(A) \in Nat
    BY <2>1, FirstCount
  <2>4. Cardinality(A \cup {Len(fifo) + 1}) = Cardinality(A) + 1
    BY <1>1, <2>1
  <2>5. TagEvents(Append(fifo, e)) = Cardinality(more) /\ TagEvents(fifo) = Cardinality(A)
    BY DEF TagEvents
  <2> HIDE DEF A, more
  <2>6. QED
    BY <2>2, <2>3, <2>4, <2>5 DEF Count
<1>3. ASSUME NEW list \in Seq(SweepPackets), NEW p \in SweepPackets
      PROVE  /\ TagPackets(Append(list, p)) = TagPackets(list) + Count(p[1] = "TagRead")
             /\ TagPackets(list) \in Nat
  <2> DEFINE A == {i \in 1 .. Len(list) : list[i][1] = "TagRead"}
             more == {i \in 1 .. Len(Append(list, p)) : Append(list, p)[i][1] = "TagRead"}
  <2>1. Len(list) \in Nat /\ A \in SUBSET (1 .. Len(list))
    OBVIOUS
  <2>2. more = IF p[1] = "TagRead" THEN A \cup {Len(list) + 1} ELSE A
    <3>1. /\ Len(Append(list, p)) = Len(list) + 1 /\ Append(list, p)[Len(list) + 1] = p
          /\ \A i \in 1 .. Len(list) : Append(list, p)[i] = list[i]
      BY AppendAt
    <3>2. \A i \in 1 .. Len(list) + 1 : i \in 1 .. Len(list) \/ i = Len(list) + 1
      BY <2>1
    <3>3. QED
      BY <2>1, <3>1, <3>2
  <2>3. Cardinality(A) \in Nat
    BY <2>1, FirstCount
  <2>4. Cardinality(A \cup {Len(list) + 1}) = Cardinality(A) + 1
    BY <1>1, <2>1
  <2>5. TagPackets(Append(list, p)) = Cardinality(more) /\ TagPackets(list) = Cardinality(A)
    BY DEF TagPackets
  <2> HIDE DEF A, more
  <2>6. QED
    BY <2>2, <2>3, <2>4, <2>5 DEF Count
<1>4. TagEvents(<<>>) = 0 /\ TagPackets(<<>>) = 0
  <2>1. {i \in 1 .. Len(<<>>) : <<>>[i] = "TagRead"} = {} /\ {i \in 1 .. Len(<<>>) : <<>>[i][1] = "TagRead"} = {}
    OBVIOUS
  <2>2. QED
    BY <2>1, FS_EmptySet DEF TagEvents, TagPackets
<1>5. "TagRead" \in SweepEvents /\ <<"TagRead">> \in SweepPackets
  BY SweepPacketKinds DEF SweepEvents
<1>6. QED
  BY ONLY <1>2, <1>3, <1>4, <1>5

LEMMA TagTaken ==
    ASSUME NEW list \in Seq(SweepPackets), list # <<>>
    PROVE  TagPackets(list) = Count(Head(list)[1] = "TagRead") + TagPackets(Tail(list))
<1> DEFINE rest == Tail(list)
           A == IF list[1][1] = "TagRead" THEN {1} ELSE {}
           B == {i \in 1 .. Len(list) - 1 : rest[i][1] = "TagRead"}
           all == {i \in 1 .. Len(list) : list[i][1] = "TagRead"}
<1>1. /\ Head(list) = list[1] /\ rest \in Seq(SweepPackets) /\ Len(rest) = Len(list) - 1
      /\ \A i \in 1 .. Len(list) - 1 : rest[i] = list[i + 1]
      /\ Len(list) \in Nat /\ Len(list) >= 1
  BY TailAt
<1> HIDE DEF rest
<1>2. \A i \in Int : i \in all <=> i \in A \/ i - 1 \in B
  <2>1. ASSUME NEW i \in Int PROVE i \in all <=> i \in A \/ i - 1 \in B
    <3>1. CASE i = 1
      BY <1>1, <3>1
    <3>2. CASE i # 1
      <4>1. i \in 1 .. Len(list) <=> i - 1 \in 1 .. Len(list) - 1
        BY <1>1, <3>2
      <4>2. i - 1 \in 1 .. Len(list) - 1 => rest[i - 1] = list[i]
        BY <1>1
      <4>3. QED
        BY <3>2, <4>1, <4>2
    <3>3. QED
      BY <3>1, <3>2
  <2>2. QED
    BY <2>1
<1>3. Cardinality(all) = Cardinality(A) + Cardinality(B)
  <2> DEFINE m == Len(list) - 1
             n == 1
  <2>1. Joined(all, n, A, m, B)
    BY <1>1, <1>2 DEF Joined
  <2> HIDE DEF A, B, m, n, all
  <2>2. QED
    BY ONLY <2>1, JoinedCount
<1>4. Cardinality(A) = Count(list[1][1] = "TagRead")
  BY FS_EmptySet, FS_Singleton DEF Count
<1>5. TagPackets(list) = Cardinality(all) /\ TagPackets(rest) = Cardinality(B)
  BY <1>1 DEF TagPackets
<1>6. Head(list) = list[1] /\ Tail(list) = rest
  BY <1>1 DEF rest
<1> HIDE DEF A, B, all
<1>7. QED
  BY <1>3, <1>4, <1>5, <1>6

(* The step after a remainder, whatever the quotient. *)
LEMMA NextModulo ==
    ASSUME NEW n \in Nat, n > 0, NEW a \in Nat
    PROVE  ((a % n) + 1) % n = (a + 1) % n
<1>1. ASSUME NEW q \in Nat, NEW r \in 0 .. n - 1 PROVE (n * q + r) % n = r
  BY <1>1
<1> DEFINE q == a \div n
           r == a % n
<1>2. q \in Nat /\ r \in 0 .. n - 1
  OBVIOUS
<1>3. a = n * q + r
  OBVIOUS
<1> HIDE DEF q, r
<1>4. CASE r # n - 1
  <2>1. r + 1 \in 0 .. n - 1
    BY <1>2, <1>4
  <2>2. (r + 1) % n = r + 1
    BY <2>1
  <2>3. (n * q + (r + 1)) % n = r + 1
    BY <1>1, <1>2, <2>1
  <2>4. a + 1 = n * q + (r + 1)
    BY <1>2, <1>3
  <2>5. QED
    BY ONLY <2>2, <2>3, <2>4 DEF r
<1>5. CASE r = n - 1
  <2>1. (n * (q + 1) + 0) % n = 0
    <3>1. q + 1 \in Nat /\ 0 \in 0 .. n - 1
      BY <1>2
    <3>2. QED
      BY <1>1, <3>1
  <2>2. a + 1 = n * (q + 1) + 0
    BY <1>2, <1>3, <1>5
  <2>3. n % n = 0
    OBVIOUS
  <2>4. r + 1 = n
    BY <1>5
  <2>5. QED
    BY ONLY <2>1, <2>2, <2>3, <2>4 DEF r
<1>6. QED
  BY <1>4, <1>5

Turning == {"round", "overshoot", "get_cw_is_on", "update_power", "continue"}
Summing == {"summary", "error_summary"}
Summary == "ContinuousInventorySummary"
HasError(list) == \E k \in 1 .. Len(list) : list[k][1] = "Ex10Result"

SweepPlaces ==
    /\ DOMAIN pc = {"app", "irq"} /\ pc["app"] \in {"idle", "start", "publish"}
    /\ pc["irq"] \in {"idle", "fifo"} \cup Turning \cup Summing
    /\ next_step \in {"fifo", "continue"} /\ ex10_result \in {"success", "stop", "error", "none"}
    /\ pc["app"] # "idle" => runs > 0 /\ ex10_result \in {"success", "stop"}
    /\ runs > 0 => sweep_conditions \in SweepConditions
    /\ op \in BOOLEAN /\ round_done \in BOOLEAN /\ irq_pending \in BOOLEAN
SweepLists == event_fifo \in Seq(SweepEvents) /\ queue \in Seq(SweepPackets) /\ swept \in Seq(Nat)
SweepNumbers ==
    /\ num_bytes \in Nat /\ round_count \in Nat /\ tag_count \in Nat /\ summaries \in Nat
    /\ published \in Nat /\ tags \in Nat /\ runs \in Nat /\ failures \in Nat
SweepLevel ==
    /\ iterator \in 0 .. Len(PowerLevels) - 1 /\ first \in 0 .. Len(PowerLevels) - 1
    /\ sweep_power = PowerLevels[iterator + 1] /\ sweep_power \in Nat /\ cw \in Nat
SweepTypes == SweepPlaces /\ SweepLists /\ SweepNumbers /\ SweepLevel

(* What the steps do, as far as the invariant tells it apart. *)
Moves(app, irq) == pc'["app"] = app /\ pc'["irq"] = irq /\ DOMAIN pc' = {"app", "irq"}
Fails == failures' = failures + 1

SweepRoundEnds ==
    /\ op /\ op' = FALSE /\ round_done' = TRUE /\ irq_pending' = TRUE
    /\ event_fifo' = Append(event_fifo, "InventoryRoundSummary") /\ tags' = tags /\ cw' \in {cw, 0}
    /\ \/ done_reason' = "Done" /\ cw # 0 /\ swept' = Append(swept, cw)
       \/ done_reason' # "Done" /\ swept' = swept
SweepDark ==
    ~op /\ cw' = 0 /\ UNCHANGED <<op, event_fifo, done_reason, round_done, irq_pending, swept, tags>>
SweepReadsTag ==
    /\ op /\ tags' = tags + 1 /\ event_fifo' = Append(event_fifo, "TagRead") /\ irq_pending' = TRUE
    /\ UNCHANGED <<op, cw, done_reason, round_done, swept>>
SweepChip ==
    /\ SweepRoundEnds \/ SweepDark \/ SweepReadsTag
    /\ failures' = failures \/ Fails
    /\ UNCHANGED <<iterator, sweep_power, state, stop_reason, round_count, tag_count, sweep_conditions,
                   first, runs, pc, next_step, num_bytes, queue, ex10_result, summaries, published, told>>

SweepStatus ==
    /\ pc["irq"] = "idle" /\ irq_pending
    /\ Moves(pc["app"], IF round_done THEN "round" ELSE "fifo")
    /\ num_bytes' = Len(event_fifo) /\ round_done' = FALSE /\ irq_pending' = FALSE
    /\ UNCHANGED <<op, cw, event_fifo, done_reason, iterator, sweep_power, state, stop_reason,
                   round_count, tag_count, sweep_conditions, first, runs, next_step, queue,
                   ex10_result, swept, summaries, published, told, tags, failures>>

SweepQuiet ==
    UNCHANGED <<op, event_fifo, done_reason, round_done, irq_pending, tag_count, sweep_conditions,
                first, runs, num_bytes, ex10_result, swept, summaries, published, told, tags>>
Completes == pc["irq"] = "round" /\ done_reason = "Done"
Reached(count) == sweep_conditions.rounds > 0 /\ count >= sweep_conditions.rounds
SweepDecides ==
    /\ pc["irq"] \in {"round", "overshoot"} /\ SweepQuiet /\ UNCHANGED <<cw, next_step, queue, failures>>
    /\ round_count' = IF Completes THEN round_count + 1 ELSE round_count
    /\ stop_reason = "None" => /\ stop_reason' = "MaxNumberOfRounds" => Reached(round_count')
                               /\ stop_reason' = "None" => ~Reached(round_count')
    /\ \/ /\ stop_reason' # "None" /\ state' = "Idle" /\ Moves(pc["app"], "summary")
          /\ UNCHANGED <<iterator, sweep_power>>
       \/ /\ stop_reason' = "None" /\ state' = state /\ Completes /\ Moves(pc["app"], "get_cw_is_on")
          /\ iterator' = (iterator + 1) % Len(PowerLevels) /\ sweep_power' = PowerLevels[iterator' + 1]
       \/ /\ stop_reason' = "None" /\ state' = state /\ ~Completes /\ Moves(pc["app"], "continue")
          /\ UNCHANGED <<iterator, sweep_power>>

SweepGoesOn ==
    /\ SweepQuiet
    /\ UNCHANGED <<iterator, sweep_power, state, stop_reason, round_count, next_step, queue, failures>>
    /\ \/ /\ pc["irq"] = "round" /\ done_reason # "Done" /\ Moves(pc["app"], "overshoot") /\ cw' = cw
       \/ /\ pc["irq"] = "get_cw_is_on" /\ Moves(pc["app"], "continue") /\ cw = 0 /\ cw' = cw
       \/ /\ pc["irq"] = "get_cw_is_on" /\ Moves(pc["app"], "update_power") /\ cw' = cw
       \/ /\ pc["irq"] = "update_power" /\ Moves(pc["app"], "continue") /\ cw' \in {0, sweep_power}

SweepErrs ==
    /\ pc["irq"] \in {"round", "overshoot", "update_power", "continue"} /\ SweepQuiet /\ PS!PushError
    /\ Moves(pc["app"], "error_summary") \/ Moves(pc["app"], "fifo")
    /\ UNCHANGED <<iterator, sweep_power, stop_reason, round_count>>
    /\ \/ pc["irq"] = "round" /\ failures' = failures /\ cw' = cw /\ next_step' = "fifo"
       \/ Fails /\ next_step' \in {"fifo", "continue"} /\ cw' \in {0, cw, sweep_power}

SweepInserts ==
    /\ pc["irq"] \in Summing
    /\ Moves(pc["app"], IF pc["irq"] = "summary" THEN "fifo" ELSE next_step)
    /\ \/ /\ event_fifo' = Append(event_fifo, Summary) /\ irq_pending' = TRUE
          /\ summaries' = summaries + 1 /\ UNCHANGED <<queue, failures>>
       \/ /\ Fails /\ UNCHANGED <<event_fifo, irq_pending, summaries>>
          /\ IF pc["irq"] = "summary" THEN PS!PushError ELSE queue' = queue
    /\ UNCHANGED <<op, cw, done_reason, round_done, iterator, sweep_power, state, stop_reason,
                   round_count, tag_count, sweep_conditions, first, runs, next_step, num_bytes,
                   ex10_result, swept, published, told, tags>>

SweepStarts ==
    /\ op' = TRUE /\ cw' = IF cw = 0 THEN sweep_power ELSE cw
    /\ \/ pc["irq"] = "continue" /\ Moves(pc["app"], "fifo")
       \/ pc["app"] = "start" /\ pc["irq"] = "idle" /\ Moves("publish", "idle")
    /\ UNCHANGED <<event_fifo, done_reason, round_done, irq_pending, iterator, sweep_power, state,
                   stop_reason, round_count, tag_count, sweep_conditions, first, runs, next_step,
                   num_bytes, queue, ex10_result, swept, summaries, published, told, tags, failures>>
SweepStartFails ==
    /\ pc["app"] = "start" /\ pc["irq"] = "idle" /\ Moves("idle", "idle") /\ ex10_result' = "error"
    /\ Fails /\ cw' \in {cw, sweep_power}
    /\ UNCHANGED <<op, event_fifo, done_reason, round_done, irq_pending, iterator, sweep_power,
                   stop_reason, round_count, tag_count, sweep_conditions, first, runs, next_step,
                   num_bytes, queue, swept, summaries, published, told, tags>>

SweepReads ==
    /\ pc["irq"] = "fifo" /\ Moves(pc["app"], "idle") /\ PS!ReadEventFifo
    /\ UNCHANGED <<op, cw, done_reason, round_done, irq_pending, iterator, sweep_power, state,
                   stop_reason, round_count, sweep_conditions, first, runs, next_step, num_bytes,
                   ex10_result, swept, summaries, published, told, tags, failures>>

SweepReinit ==
    /\ pc["app"] = "idle" /\ pc["irq"] = "idle" /\ ex10_result' = "none"
    /\ op' = FALSE /\ cw' = 0 /\ event_fifo' = <<>> /\ round_done' = FALSE /\ irq_pending' = FALSE
    /\ queue' = <<>>
    /\ UNCHANGED <<iterator, sweep_power, stop_reason, round_count, tag_count, sweep_conditions, first,
                   runs, pc, next_step, num_bytes, swept, summaries, published, told, tags, failures>>
SweepBegins ==
    /\ pc["app"] = "idle" /\ pc["irq"] = "idle" /\ ~irq_pending /\ ~op /\ queue = <<>>
    /\ runs' = runs + 1 /\ sweep_conditions' \in SweepConditions /\ stop_reason' = "None"
    /\ round_count' = 0 /\ tag_count' = 0 /\ sweep_power' = PowerLevels[iterator + 1]
    /\ first' = iterator /\ ex10_result' = "success" /\ Moves("start", "idle") /\ swept' = <<>>
    /\ summaries' = 0 /\ published' = 0 /\ tags' = 0
    /\ UNCHANGED <<op, cw, event_fifo, done_reason, round_done, irq_pending, iterator, next_step,
                   num_bytes, queue, failures>>

SweepPublishes ==
    /\ pc["app"] = "publish" /\ queue # <<>> /\ queue' = Tail(queue)
    /\ published' = published + Count(Head(queue)[1] = "TagRead")
    /\ told' = IF Head(queue)[1] = Summary THEN Head(queue)[2] ELSE told
    /\ \/ /\ Head(queue)[1] = "Ex10Result" /\ ex10_result' = "error"
       \/ /\ Head(queue)[1] # "Ex10Result" /\ ex10_result' \in {"success", "stop"}
          /\ state' \in {state, "StopRequested"}
    /\ \/ Head(queue)[1] \in {"Ex10Result", Summary} /\ Moves("idle", pc["irq"])
       \/ Head(queue)[1] \notin {"Ex10Result", Summary} /\ Moves("publish", pc["irq"])
    /\ UNCHANGED <<op, cw, event_fifo, done_reason, round_done, irq_pending, iterator, sweep_power,
                   stop_reason, round_count, tag_count, sweep_conditions, first, runs, next_step,
                   num_bytes, swept, summaries, tags, failures>>

SweepStep ==
    \/ SweepChip \/ SweepStatus \/ SweepDecides \/ SweepGoesOn \/ SweepErrs \/ SweepInserts
    \/ SweepStarts \/ SweepStartFails \/ SweepReads \/ SweepReinit \/ SweepBegins \/ SweepPublishes

LEMMA SweepGoto ==
    ASSUME SweepTypes, NEW step
    PROVE  /\ PS!Goto("app", step) => Moves(step, pc["irq"])
           /\ PS!Goto("irq", step) => Moves(pc["app"], step)
BY DEF SweepTypes, SweepPlaces, PS!Goto, Moves

LEMMA SweepSteps ==
    ASSUME SweepTypes, PS!Next
    PROVE  SweepStep
<1> USE DEF PS!At, PS!MayFail, Fails
<1>1. CASE PS!EndsRound \/ PS!DwellTimeEnds \/ PS!ReadsTag
  <2>1. SweepRoundEnds \/ SweepDark \/ SweepReadsTag
    BY <1>1 DEF PS!EndsRound, PS!DwellTimeEnds, PS!ReadsTag, PS!EndRound, PS!Off, SweepRoundEnds,
       SweepDark, SweepReadsTag
  <2>2. failures' = failures \/ Fails
    BY <1>1 DEF PS!EndsRound, PS!DwellTimeEnds, PS!ReadsTag
  <2>3. PS!UnchangedByChip
    BY <1>1 DEF PS!EndsRound, PS!DwellTimeEnds, PS!ReadsTag
  <2>4. QED
    BY <2>1, <2>2, <2>3 DEF PS!UnchangedByChip, PS!sweep, PS!inventory_state, PS!run, PS!account,
       SweepChip, SweepStep
<1>2. CASE PS!HandlerReadsStatus
  <2>1. Moves(pc["app"], IF round_done THEN "round" ELSE "fifo")
    BY <1>2, SweepGoto DEF PS!HandlerReadsStatus
  <2>2. QED
    BY <1>2, <2>1 DEF PS!HandlerReadsStatus, PS!sweep, PS!inventory_state, PS!run, PS!account,
       SweepStatus, SweepStep
<1>3. ASSUME NEW count, NEW complete \in BOOLEAN, PS!AfterRound(count, complete), SweepQuiet,
             UNCHANGED <<cw, failures>>, round_count' = count, complete = Completes,
             pc["irq"] \in {"round", "overshoot"},
             count = IF Completes THEN round_count + 1 ELSE round_count
      PROVE  SweepStep
  <2>1. UNCHANGED <<next_step, queue>>
    BY <1>3 DEF PS!AfterRound
  <2>2. /\ \A step : PS!Goto("irq", step) => Moves(pc["app"], step)
    BY SweepGoto
  <2>3. \/ /\ stop_reason' # "None" /\ state' = "Idle" /\ Moves(pc["app"], "summary")
           /\ UNCHANGED <<iterator, sweep_power>>
        \/ /\ stop_reason' = "None" /\ state' = state /\ Completes /\ Moves(pc["app"], "get_cw_is_on")
           /\ iterator' = (iterator + 1) % Len(PowerLevels) /\ sweep_power' = PowerLevels[iterator' + 1]
        \/ /\ stop_reason' = "None" /\ state' = state /\ ~Completes /\ Moves(pc["app"], "continue")
           /\ UNCHANGED <<iterator, sweep_power>>
    BY <1>3, <2>2 DEF PS!AfterRound, PS!NextLevel, PS!sweep
  <2>4. stop_reason = "None" => /\ stop_reason' = "MaxNumberOfRounds" => Reached(round_count')
                                /\ stop_reason' = "None" => ~Reached(round_count')
    BY <1>3 DEF PS!AfterRound, PS!Reason, Reached
  <2>5. QED
    BY <1>3, <2>1, <2>3, <2>4 DEF SweepDecides, SweepStep
<1>4. ASSUME NEW step, PS!HandleError(step), SweepQuiet, UNCHANGED <<iterator, sweep_power, stop_reason, round_count>>,
             pc["irq"] \in {"round", "overshoot", "update_power", "continue"},
             \/ pc["irq"] = "round" /\ failures' = failures /\ cw' = cw /\ step = "fifo"
             \/ Fails /\ step \in {"fifo", "continue"} /\ cw' \in {0, cw, sweep_power}
      PROVE  SweepStep
  <2>1. Moves(pc["app"], "error_summary") /\ PS!PushError /\ next_step' = step
    BY <1>4, SweepGoto DEF PS!HandleError
  <2>2. QED
    BY <1>4, <2>1 DEF SweepErrs, SweepStep
<1>5. CASE PS!RoundDone
  <2> USE DEF Completes
  <2>0. SweepQuiet /\ pc["irq"] = "round" /\ cw' = cw
    BY <1>5 DEF PS!RoundDone, PS!chip, PS!run, PS!account, SweepQuiet
  <2>1. \/ done_reason = "Done" /\ round_count' = round_count + 1 /\ PS!AfterRound(round_count', TRUE) /\ failures' = failures
        \/ done_reason # "Done" /\ round_count' = round_count /\ PS!AfterRound(round_count, FALSE) /\ failures' = failures
        \/ /\ done_reason # "Done" /\ PS!Goto("irq", "overshoot")
           /\ UNCHANGED <<iterator, sweep_power, state, stop_reason, round_count, next_step, queue, failures>>
        \/ PS!HandleError("fifo") /\ UNCHANGED <<iterator, sweep_power, stop_reason, round_count, failures>>
        \/ /\ Fails /\ PS!PushError /\ PS!Goto("irq", "fifo")
           /\ UNCHANGED <<iterator, sweep_power, stop_reason, round_count, next_step>>
    BY <1>5 DEF PS!RoundDone, PS!sweep
  <2>2. CASE done_reason = "Done" /\ round_count' = round_count + 1 /\ PS!AfterRound(round_count', TRUE) /\ failures' = failures
    BY <1>3, <2>0, <2>2
  <2>3. CASE done_reason # "Done" /\ round_count' = round_count /\ PS!AfterRound(round_count, FALSE) /\ failures' = failures
    BY <1>3, <2>0, <2>3
  <2>4. CASE /\ done_reason # "Done" /\ PS!Goto("irq", "overshoot")
             /\ UNCHANGED <<iterator, sweep_power, state, stop_reason, round_count, next_step, queue, failures>>
    BY <2>0, <2>4, SweepGoto DEF SweepGoesOn, SweepStep
  <2>5. CASE PS!HandleError("fifo") /\ UNCHANGED <<iterator, sweep_power, stop_reason, round_count, failures>>
    BY <1>4, <2>0, <2>5
  <2>6. CASE /\ Fails /\ PS!PushError /\ PS!Goto("irq", "fifo")
             /\ UNCHANGED <<iterator, sweep_power, stop_reason, round_count, next_step>>
    BY <2>0, <2>6, SweepGoto DEF SweepErrs, SweepStep, SweepTypes, SweepPlaces
  <2>7. QED
    BY <2>1, <2>2, <2>3, <2>4, <2>5, <2>6
<1>6. CASE PS!UpdateTimerOvershoot
  <2>0. SweepQuiet /\ pc["irq"] = "overshoot" /\ cw' = cw /\ round_count' = round_count
    BY <1>6 DEF PS!UpdateTimerOvershoot, PS!chip, PS!run, PS!account, SweepQuiet
  <2>1. \/ PS!AfterRound(round_count, FALSE) /\ failures' = failures
        \/ Fails /\ PS!HandleError("fifo") /\ UNCHANGED <<iterator, sweep_power, stop_reason>>
    BY <1>6 DEF PS!UpdateTimerOvershoot, PS!sweep
  <2>2. CASE PS!AfterRound(round_count, FALSE) /\ failures' = failures
    BY <1>3, <2>0, <2>2 DEF Completes
  <2>3. CASE Fails /\ PS!HandleError("fifo") /\ UNCHANGED <<iterator, sweep_power, stop_reason>>
    BY <1>4, <2>0, <2>3
  <2>4. QED
    BY <2>1, <2>2, <2>3
<1>7. CASE PS!InsertSummary
  <2>1. Moves(pc["app"], IF pc["irq"] = "summary" THEN "fifo" ELSE next_step)
    BY <1>7, SweepGoto DEF PS!InsertSummary
  <2>2. QED
    BY <1>7, <2>1 DEF PS!InsertSummary, PS!sweep, PS!inventory_state, PS!run, SweepInserts, SweepStep,
       Summing, Summary
<1>8. CASE PS!GetCwIsOn
  <2>1. Moves(pc["app"], IF cw = 0 THEN "continue" ELSE "update_power")
    BY <1>8, SweepGoto DEF PS!GetCwIsOn, PS!Off
  <2>2. QED
    BY <1>8, <2>1 DEF PS!GetCwIsOn, PS!chip, PS!sweep, PS!inventory_state, PS!run, PS!account,
       SweepQuiet, SweepGoesOn, SweepStep
<1>9. CASE PS!RoundDoneUpdatePower
  <2>0. /\ SweepQuiet /\ pc["irq"] = "update_power"
        /\ UNCHANGED <<iterator, sweep_power, stop_reason, round_count>>
    BY <1>9 DEF PS!RoundDoneUpdatePower, PS!sweep, PS!run, PS!account, SweepQuiet
  <2>1. \/ cw' \in {0, sweep_power} /\ PS!Goto("irq", "continue") /\ UNCHANGED <<state, next_step, queue, failures>>
        \/ Fails /\ cw' \in {0, cw, sweep_power} /\ PS!HandleError("continue")
    BY <1>9 DEF PS!RoundDoneUpdatePower, PS!Off
  <2>2. CASE cw' \in {0, sweep_power} /\ PS!Goto("irq", "continue") /\ UNCHANGED <<state, next_step, queue, failures>>
    BY <2>0, <2>2, SweepGoto DEF SweepGoesOn, SweepStep
  <2>3. CASE Fails /\ cw' \in {0, cw, sweep_power} /\ PS!HandleError("continue")
    BY <1>4, <2>0, <2>3
  <2>4. QED
    BY <2>1, <2>2, <2>3
<1>10. CASE PS!ContinueInventory
  <2>0. /\ pc["irq"] = "continue"
        /\ UNCHANGED <<event_fifo, done_reason, round_done, irq_pending, iterator, sweep_power,
                       stop_reason, round_count, tag_count, sweep_conditions, first, runs, num_bytes,
                       ex10_result, swept, summaries, published, told, tags>>
    BY <1>10 DEF PS!ContinueInventory, PS!sweep, PS!run, PS!account
  <2>1. \/ PS!StartsRound /\ PS!Goto("irq", "fifo") /\ UNCHANGED <<state, next_step, queue, failures>>
        \/ Fails /\ PS!HandleError("fifo") /\ cw' \in {0, cw, sweep_power} /\ op' = op
    BY <1>10 DEF PS!ContinueInventory, PS!Off
  <2>2. CASE PS!StartsRound /\ PS!Goto("irq", "fifo") /\ UNCHANGED <<state, next_step, queue, failures>>
    BY <2>0, <2>2, SweepGoto DEF PS!StartsRound, PS!Off, SweepStarts, SweepStep
  <2>3. CASE Fails /\ PS!HandleError("fifo") /\ cw' \in {0, cw, sweep_power} /\ op' = op
    <3>1. SweepQuiet
      BY <2>0, <2>3 DEF SweepQuiet
    <3>2. QED
      BY <1>4, <2>0, <2>3, <3>1
  <2>4. QED
    BY <2>1, <2>2, <2>3
<1>11. CASE PS!ReadEventFifo
  <2>1. pc["irq"] = "fifo" /\ Moves(pc["app"], "idle")
    BY <1>11, SweepGoto DEF PS!ReadEventFifo
  <2>2. UNCHANGED <<op, cw, done_reason, round_done, irq_pending, iterator, sweep_power, state,
                   stop_reason, round_count, sweep_conditions, first, runs, next_step, num_bytes,
                   ex10_result, swept, summaries, published, told, tags, failures>>
    BY <1>11 DEF PS!ReadEventFifo, PS!sweep, PS!run, PS!account
  <2>3. QED
    BY <1>11, <2>1, <2>2 DEF SweepReads, SweepStep
<1>12. CASE PS!Reinit
  BY <1>12 DEF PS!Reinit, PS!sweep, PS!run, PS!account, PS!Off, SweepReinit, SweepStep
<1>13. CASE PS!ContinuousInventory
  <2>1. Moves("start", "idle") /\ pc["app"] = "idle" /\ pc["irq"] = "idle" /\ ~irq_pending
    BY <1>13, SweepGoto DEF PS!ContinuousInventory, PS!AtRest
  <2>2. QED
    BY <1>13, <2>1 DEF PS!ContinuousInventory, PS!chip, SweepBegins, SweepStep
<1>14. CASE PS!StartInventory
  <2>0. /\ pc["app"] = "start" /\ pc["irq"] = "idle"
        /\ UNCHANGED <<event_fifo, done_reason, round_done, irq_pending, iterator, sweep_power,
                       stop_reason, round_count, tag_count, sweep_conditions, first, runs, next_step,
                       num_bytes, queue, swept, summaries, published, told, tags>>
    BY <1>14 DEF PS!StartInventory, PS!sweep, PS!run, PS!account
  <2>1. \/ PS!StartsRound /\ PS!Goto("app", "publish") /\ UNCHANGED <<state, ex10_result, failures>>
        \/ Fails /\ PS!Goto("app", "idle") /\ ex10_result' = "error" /\ cw' \in {cw, sweep_power} /\ op' = op
    BY <1>14 DEF PS!StartInventory
  <2>2. CASE PS!StartsRound /\ PS!Goto("app", "publish") /\ UNCHANGED <<state, ex10_result, failures>>
    BY <2>0, <2>2, SweepGoto DEF PS!StartsRound, PS!Off, SweepStarts, SweepStep
  <2>3. CASE Fails /\ PS!Goto("app", "idle") /\ ex10_result' = "error" /\ cw' \in {cw, sweep_power} /\ op' = op
    BY <2>0, <2>3, SweepGoto DEF SweepStartFails, SweepStep
  <2>4. QED
    BY <2>1, <2>2, <2>3
<1>15. CASE PS!PublishPackets
  <2>1. /\ pc["app"] = "publish" /\ queue # <<>> /\ queue' = Tail(queue)
        /\ published' = published + Count(Head(queue)[1] = "TagRead")
        /\ told' = IF Head(queue)[1] = Summary THEN Head(queue)[2] ELSE told
    BY <1>15 DEF PS!PublishPackets, Count, Summary
  <2>2. \/ /\ Head(queue)[1] = "Ex10Result" /\ ex10_result' = "error"
        \/ /\ Head(queue)[1] # "Ex10Result" /\ ex10_result' \in {"success", "stop"}
           /\ state' \in {state, "StopRequested"}
    BY <1>15 DEF PS!PublishPackets
  <2>3. \/ Head(queue)[1] \in {"Ex10Result", Summary} /\ PS!Goto("app", "idle")
        \/ Head(queue)[1] \notin {"Ex10Result", Summary} /\ pc' = pc
    BY <1>15 DEF PS!PublishPackets, Summary
  <2>4. \/ Head(queue)[1] \in {"Ex10Result", Summary} /\ Moves("idle", pc["irq"])
        \/ Head(queue)[1] \notin {"Ex10Result", Summary} /\ Moves("publish", pc["irq"])
    BY <2>1, <2>3, SweepGoto DEF SweepTypes, SweepPlaces, Moves
  <2>5. UNCHANGED <<op, cw, event_fifo, done_reason, round_done, irq_pending, iterator, sweep_power,
                   stop_reason, round_count, tag_count, sweep_conditions, first, runs, next_step,
                   num_bytes, swept, summaries, tags, failures>>
    BY <1>15 DEF PS!PublishPackets, PS!chip, PS!sweep, PS!run
  <2>6. QED
    BY <2>1, <2>2, <2>4, <2>5 DEF SweepPublishes, SweepStep
<1>16. QED
  BY <1>1, <1>2, <1>5, <1>6, <1>7, <1>8, <1>9, <1>10, <1>11, <1>12, <1>13, <1>14, <1>15
  DEF PS!Next, PS!Handles

(* fifo_data_handler(): the packets of the first num_bytes go to the       *)
(* queue, with the number of tags up to it in the summary.                 *)
TagsIn(n) == Cardinality({j \in 1 .. n : event_fifo[j] = "TagRead"})
SweepMoved ==
    /\ event_fifo' \in Seq(SweepEvents) /\ Len(event_fifo') = Len(event_fifo) - num_bytes
    /\ \A i \in 1 .. Len(event_fifo') : event_fifo'[i] = event_fifo[num_bytes + i]
    /\ queue' \in Seq(SweepPackets) /\ Len(queue') = Len(queue) + num_bytes
    /\ \A i \in 1 .. Len(queue) : queue'[i] = queue[i]
    /\ \A i \in 1 .. num_bytes :
            /\ queue'[Len(queue) + i][1] = event_fifo[i]
            /\ event_fifo[i] = Summary => queue'[Len(queue) + i][2] = tag_count + TagsIn(i)
    /\ tag_count' = tag_count + TagsIn(num_bytes) /\ TagsIn(num_bytes) \in Nat

LEMMA SweepMoves ==
    ASSUME SweepTypes, PS!ReadEventFifo, num_bytes <= Len(event_fifo)
    PROVE  SweepMoved
<1> DEFINE node == SubSeq(event_fifo, 1, num_bytes)
           read == [i \in DOMAIN node |->
                IF node[i] = "ContinuousInventorySummary" THEN <<node[i], tag_count + PS!TagsUpTo(node, i)>>
                ELSE <<node[i]>>]
<1>1. /\ event_fifo \in Seq(SweepEvents) /\ queue \in Seq(SweepPackets)
      /\ num_bytes \in Nat /\ tag_count \in Nat /\ Len(event_fifo) \in Nat /\ Len(queue) \in Nat
      /\ \A i \in 1 .. Len(event_fifo) : event_fifo[i] \in SweepEvents
  BY DEF SweepTypes, SweepLists, SweepNumbers
<1>2. /\ event_fifo' \in Seq(SweepEvents) /\ Len(event_fifo') = Len(event_fifo) - num_bytes
      /\ \A i \in 1 .. Len(event_fifo') : event_fifo'[i] = event_fifo[num_bytes + i]
  <2> DEFINE rest == SubSeq(event_fifo, num_bytes + 1, Len(event_fifo))
  <2>1. /\ rest \in Seq(SweepEvents) /\ Len(rest) = Len(event_fifo) - num_bytes
        /\ \A i \in 1 .. Len(event_fifo) - num_bytes : rest[i] = event_fifo[num_bytes + i]
    BY ONLY <1>1, num_bytes <= Len(event_fifo), ReadAt
  <2>2. event_fifo' = rest
    BY DEF PS!ReadEventFifo
  <2> HIDE DEF rest
  <2>3. QED
    BY ONLY <2>1, <2>2
<1>3. node \in Seq(SweepEvents) /\ Len(node) = num_bytes /\ \A i \in 1 .. num_bytes : node[i] = event_fifo[i]
  <2>1. \A i \in 1 .. num_bytes : event_fifo[i] \in SweepEvents
    BY <1>1
  <2>2. QED
    BY <1>1, <2>1, SubSeqProperties
<1>4. queue' = queue \o read /\ tag_count' = tag_count + PS!TagsUpTo(node, Len(node))
  BY DEF PS!ReadEventFifo
<1> HIDE DEF node
<1>5. \A i \in 1 .. num_bytes : PS!TagsUpTo(node, i) = TagsIn(i) /\ TagsIn(i) \in Nat
  <2> SUFFICES ASSUME NEW i \in 1 .. num_bytes PROVE PS!TagsUpTo(node, i) = TagsIn(i) /\ TagsIn(i) \in Nat
    OBVIOUS
  <2>1. {j \in 1 .. i : node[j] = "TagRead"} = {j \in 1 .. i : event_fifo[j] = "TagRead"}
    BY <1>1, <1>3
  <2>2. {j \in 1 .. i : event_fifo[j] = "TagRead"} \in SUBSET (1 .. i) /\ i \in Nat
    OBVIOUS
  <2>3. Cardinality({j \in 1 .. i : event_fifo[j] = "TagRead"}) \in Nat
    BY <2>2, FirstCount
  <2>4. QED
    BY <2>1, <2>3, Counting DEF PS!TagsUpTo, TagsIn
<1>6. PS!TagsUpTo(node, num_bytes) = TagsIn(num_bytes) /\ TagsIn(num_bytes) \in Nat
  <2>1. CASE num_bytes = 0
    <3>1. {j \in 1 .. 0 : node[j] = "TagRead"} = {} /\ {j \in 1 .. 0 : event_fifo[j] = "TagRead"} = {}
      OBVIOUS
    <3>2. QED
      BY <2>1, <3>1, Counting, FS_EmptySet DEF PS!TagsUpTo, TagsIn
  <2>2. CASE num_bytes # 0
    <3>1. num_bytes \in 1 .. num_bytes
      BY <1>1, <2>2
    <3>2. QED
      BY <1>5, <3>1
  <2>3. QED
    BY <2>1, <2>2
<1>7. /\ DOMAIN read = 1 .. num_bytes
      /\ \A i \in 1 .. num_bytes : read[i] = IF event_fifo[i] = "ContinuousInventorySummary"
                                             THEN <<event_fifo[i], tag_count + TagsIn(i)>> ELSE <<event_fifo[i]>>
  <2>1. DOMAIN node = 1 .. num_bytes
    BY <1>3, LenProperties
  <2>2. QED
    BY <1>3, <1>5, <2>1
<1> HIDE DEF read
<1>8. \A i \in 1 .. num_bytes : /\ read[i] \in SweepPackets /\ read[i][1] = event_fifo[i]
                                /\ event_fifo[i] = Summary => read[i][2] = tag_count + TagsIn(i)
  <2> SUFFICES ASSUME NEW i \in 1 .. num_bytes
               PROVE  /\ read[i] \in SweepPackets /\ read[i][1] = event_fifo[i]
                      /\ event_fifo[i] = Summary => read[i][2] = tag_count + TagsIn(i)
    OBVIOUS
  <2>1. event_fifo[i] \in SweepEvents /\ tag_count + TagsIn(i) \in Nat
    BY <1>1, <1>5
  <2>2. CASE event_fifo[i] = "ContinuousInventorySummary"
    <3> DEFINE m == tag_count + TagsIn(i)
    <3>1. read[i] = <<"ContinuousInventorySummary", m>>
      BY <1>7, <2>2
    <3> HIDE DEF m
    <3>2. m \in Nat
      BY <2>1 DEF m
    <3>3. read[i] \in SweepPackets /\ read[i][1] = "ContinuousInventorySummary" /\ read[i][2] = m
      BY <3>1, <3>2, SweepPacketKinds
    <3>4. QED
      BY <2>2, <3>3 DEF m
  <2>3. CASE event_fifo[i] # "ContinuousInventorySummary"
    <3>1. read[i] = <<event_fifo[i]>> /\ event_fifo[i] \in {"InventoryRoundSummary", "TagRead", "Ex10Result"}
      BY <1>7, <2>1, <2>3 DEF SweepEvents
    <3>2. QED
      BY <2>3, <3>1, SweepPacketKinds DEF Summary
  <2>4. QED
    BY <2>2, <2>3
<1>9. read \in Seq(SweepPackets) /\ Len(read) = num_bytes
  <2>1. read \in [1 .. num_bytes -> SweepPackets]
    <3>1. read = [i \in 1 .. num_bytes |-> read[i]]
      BY <1>7 DEF read
    <3>2. QED
      BY <1>8, <3>1
  <2>2. QED
    BY <1>1, <2>1
<1>10. /\ queue \o read \in Seq(SweepPackets) /\ Len(queue \o read) = Len(queue) + num_bytes
       /\ \A i \in 1 .. Len(queue) + num_bytes :
             (queue \o read)[i] = IF i <= Len(queue) THEN queue[i] ELSE read[i - Len(queue)]
  BY <1>1, <1>9, ConcatProperties
<1>11. /\ \A i \in 1 .. Len(queue) : queue'[i] = queue[i]
       /\ \A i \in 1 .. num_bytes : queue'[Len(queue) + i] = read[i]
  BY <1>1, <1>4, <1>10
<1>12. tag_count' = tag_count + TagsIn(num_bytes) /\ TagsIn(num_bytes) \in Nat
  BY <1>3, <1>4, <1>6
<1>13. queue' \in Seq(SweepPackets) /\ Len(queue') = Len(queue) + num_bytes
  BY <1>4, <1>10
<1>14. QED
  BY <1>2, <1>8, <1>11, <1>12, <1>13 DEF SweepMoved

(* What is read leaves the FIFO and enters the queue.                      *)
LEMMA TagsMoved ==
    ASSUME SweepTypes, SweepMoved, num_bytes <= Len(event_fifo)
    PROVE  /\ TagEvents(event_fifo) = TagsIn(num_bytes) + TagEvents(event_fifo')
           /\ TagPackets(queue') = TagPackets(queue) + TagsIn(num_bytes)
<1>0. num_bytes \in Nat /\ Len(event_fifo) \in Nat /\ Len(queue) \in Nat
  BY DEF SweepTypes, SweepLists, SweepNumbers
<1> DEFINE C == {i \in 1 .. Len(event_fifo) : event_fifo[i] = "TagRead"}
           A == {j \in 1 .. num_bytes : event_fifo[j] = "TagRead"}
           B == {i \in 1 .. Len(event_fifo') : event_fifo'[i] = "TagRead"}
           D == {i \in 1 .. Len(queue') : queue'[i][1] = "TagRead"}
           Q == {i \in 1 .. Len(queue) : queue[i][1] = "TagRead"}
<1>1. Joined(C, num_bytes, A, Len(event_fifo'), B)
  <2>1. \A i \in 1 .. Len(event_fifo') : event_fifo'[i] = event_fifo[num_bytes + i]
    BY DEF SweepMoved
  <2>2. Len(event_fifo') = Len(event_fifo) - num_bytes
    BY DEF SweepMoved
  <2>3. ASSUME NEW i \in Int
        PROVE  i \in C <=> i \in A \/ i - num_bytes \in B
    <3>1. CASE i <= num_bytes
      BY <1>0, <2>2, <3>1
    <3>2. CASE i > num_bytes
      <4>1. i \in 1 .. Len(event_fifo) <=> i - num_bytes \in 1 .. Len(event_fifo')
        BY <1>0, <2>2, <3>2
      <4>2. i - num_bytes \in 1 .. Len(event_fifo') => event_fifo'[i - num_bytes] = event_fifo[i]
        <5>1. num_bytes + (i - num_bytes) = i
          BY <1>0
        <5>2. QED
          BY <2>1, <5>1
      <4>3. i \notin A
        BY <1>0, <3>2
      <4>4. QED
        BY <4>1, <4>2, <4>3
    <3>3. QED
      BY <1>0, <3>1, <3>2
  <2>4. QED
    BY <1>0, <2>2, <2>3 DEF Joined
<1>2. Joined(D, Len(queue), Q, num_bytes, A)
  <2>1. /\ Len(queue') = Len(queue) + num_bytes
        /\ \A i \in 1 .. Len(queue) : queue'[i] = queue[i]
        /\ \A i \in 1 .. num_bytes : queue'[Len(queue) + i][1] = event_fifo[i]
    BY DEF SweepMoved
  <2>2. ASSUME NEW i \in Int
        PROVE  i \in D <=> i \in Q \/ i - Len(queue) \in A
    <3>1. CASE i <= Len(queue)
      BY <1>0, <2>1, <3>1
    <3>2. CASE i > Len(queue)
      <4>1. i \in 1 .. Len(queue') <=> i - Len(queue) \in 1 .. num_bytes
        BY <1>0, <2>1, <3>2
      <4>2. i - Len(queue) \in 1 .. num_bytes => queue'[i][1] = event_fifo[i - Len(queue)]
        <5>1. Len(queue) + (i - Len(queue)) = i
          BY <1>0
        <5>2. QED
          BY <2>1, <5>1
      <4>3. i \notin Q
        BY <1>0, <3>2
      <4>4. QED
        BY <4>1, <4>2, <4>3
    <3>3. QED
      BY <1>0, <3>1, <3>2
  <2>3. QED
    BY <1>0, <2>1, <2>2 DEF Joined
<1>3. /\ TagEvents(event_fifo) = Cardinality(C) /\ TagsIn(num_bytes) = Cardinality(A)
      /\ TagEvents(event_fifo') = Cardinality(B) /\ TagPackets(queue') = Cardinality(D)
      /\ TagPackets(queue) = Cardinality(Q)
  BY DEF TagEvents, TagPackets, TagsIn
<1> HIDE DEF A, B, C, D, Q
<1>4. Cardinality(C) = Cardinality(A) + Cardinality(B)
  BY ONLY <1>1, JoinedCount
<1>5. Cardinality(D) = Cardinality(Q) + Cardinality(A)
  BY ONLY <1>2, JoinedCount
<1>6. QED
  BY <1>3, <1>4, <1>5

(* The FIFO has what its level said when the status was read, and more     *)
(* only with an interrupt.                                                 *)
SweepFifo ==
    /\ pc["irq"] # "idle" => num_bytes <= Len(event_fifo) /\ (~irq_pending => num_bytes = Len(event_fifo))
    /\ pc["irq"] = "idle" /\ ~irq_pending => event_fifo = <<>>

(* The Ex10, the monitor and the application take turns with the round.    *)
SweepTurns ==
    /\ op => ~round_done
    /\ runs = 0 => /\ ~op /\ ~irq_pending /\ pc["app"] = "idle" /\ pc["irq"] = "idle" /\ queue = <<>>
    /\ round_done => irq_pending
    /\ pc["irq"] \in Turning \cup Summing => ~op /\ ~round_done /\ pc["app"] # "start"
    /\ pc["app"] = "start" => ~op /\ ~round_done /\ pc["irq"] = "idle" /\ ~irq_pending

LEMMA SweepPushes ==
    ASSUME SweepTypes, PS!PushError, ResultBuffers \in Nat \ {0}
    PROVE  /\ queue' \in Seq(SweepPackets) /\ HasError(queue')
           /\ \/ queue' = queue
              \/ queue' = Append(queue, <<"Ex10Result">>)
           /\ ~HasError(queue) => queue' = Append(queue, <<"Ex10Result">>)
<1>0. queue \in Seq(SweepPackets) /\ Len(queue) \in Nat /\ DOMAIN queue = 1 .. Len(queue)
  BY LenProperties DEF SweepTypes, SweepLists
<1>1. <<"Ex10Result">> \in SweepPackets /\ <<"Ex10Result">>[1] = "Ex10Result"
  BY SweepPacketKinds
<1> DEFINE e == <<"Ex10Result">>
           longer == Append(queue, e)
<1>2. /\ longer \in Seq(SweepPackets) /\ Len(longer) = Len(queue) + 1
      /\ longer[Len(queue) + 1] = e
  BY <1>0, <1>1, AppendAt
<1>3. HasError(longer)
  <2>1. Len(queue) + 1 \in 1 .. Len(longer)
    BY <1>0, <1>2
  <2>2. longer[Len(queue) + 1][1] = "Ex10Result"
    BY <1>1, <1>2
  <2> HIDE DEF longer
  <2>3. QED
    BY <2>1, <2>2 DEF HasError
<1>4. queue' = IF PS!Cardinality({i \in DOMAIN queue : queue[i][1] = "Ex10Result"}) < ResultBuffers
               THEN longer ELSE queue
  BY DEF PS!PushError
<1> HIDE DEF longer
<1>5. ~HasError(queue) => queue' = longer
  <2>1. HAVE ~HasError(queue)
  <2>2. {i \in DOMAIN queue : queue[i][1] = "Ex10Result"} = {}
    BY <1>0, <2>1 DEF HasError
  <2>3. PS!Cardinality({i \in DOMAIN queue : queue[i][1] = "Ex10Result"}) = 0
    BY <2>2, Counting, FS_EmptySet
  <2>4. QED
    BY <1>4, <2>3
<1>6. queue' = queue \/ queue' = longer
  BY <1>4
<1>7. HasError(queue')
  BY <1>3, <1>5, <1>6
<1>8. QED
  BY <1>0, <1>2, <1>5, <1>6, <1>7 DEF longer

LEMMA SweepConstants ==
    /\ ResultBuffers \in Nat \ {0} /\ Len(PowerLevels) \in Nat /\ Len(PowerLevels) > 0
    /\ \A i \in 0 .. Len(PowerLevels) - 1 : PowerLevels[i + 1] \in Nat \ {0}
    /\ \A s \in SweepConditions : s.rounds \in Nat
<1>1. /\ PowerLevels \in Seq(Nat \ {0}) /\ PowerLevels # <<>> /\ ResultBuffers # 0 /\ ResultBuffers \in Nat
      /\ \A s \in SweepConditions : s.rounds \in Nat
  BY UseCasesConstants DEF PS!PowerSweepConstants
<1>2. Len(PowerLevels) \in Nat /\ Len(PowerLevels) > 0
      /\ \A i \in 1 .. Len(PowerLevels) : PowerLevels[i] \in Nat \ {0}
  BY <1>1, EmptySeq
<1>3. \A i \in 0 .. Len(PowerLevels) - 1 : i + 1 \in 1 .. Len(PowerLevels)
  BY <1>2
<1>4. QED
  BY <1>1, <1>2, <1>3

LEMMA SweepTypesStep ==
    ASSUME SweepTypes, SweepFifo, SweepStep
    PROVE  SweepTypes'
<1>0. SweepPlaces /\ SweepLists /\ SweepNumbers /\ SweepLevel
  BY DEF SweepTypes
<1>c. Len(PowerLevels) \in Nat /\ Len(PowerLevels) > 0
  BY SweepConstants
<1>d. \A i \in 0 .. Len(PowerLevels) - 1 : PowerLevels[i + 1] \in Nat
  BY SweepConstants
<1>e. event_fifo \in Seq(SweepEvents) /\ queue \in Seq(SweepPackets) /\ swept \in Seq(Nat) /\ cw \in Nat
  BY <1>0 DEF SweepLists, SweepLevel
<1>f. Append(event_fifo, "InventoryRoundSummary") \in Seq(SweepEvents) /\ Append(event_fifo, "TagRead") \in Seq(SweepEvents)
      /\ Append(event_fifo, Summary) \in Seq(SweepEvents)
  <2>1. "InventoryRoundSummary" \in SweepEvents /\ "TagRead" \in SweepEvents /\ Summary \in SweepEvents
    BY DEF SweepEvents, Summary
  <2>2. QED
    BY ONLY <1>e, <2>1, AppendAt
<1>l. ASSUME UNCHANGED <<iterator, first, sweep_power>>, cw' \in {0, cw, sweep_power}
      PROVE  SweepLevel'
  BY ONLY <1>0, <1>l DEF SweepLevel
<1>n. ASSUME UNCHANGED <<num_bytes, round_count, tag_count, summaries, published, tags, runs>>,
             failures' = failures \/ Fails
      PROVE  SweepNumbers'
  BY ONLY <1>0, <1>n DEF SweepNumbers, Fails
<1>1. CASE SweepChip
  <2>0. UNCHANGED <<iterator, sweep_power, state, stop_reason, round_count, tag_count, sweep_conditions,
                   first, runs, pc, next_step, num_bytes, queue, ex10_result, summaries, published, told>>
    BY <1>1 DEF SweepChip
  <2>1. /\ event_fifo' = event_fifo \/ event_fifo' = Append(event_fifo, "InventoryRoundSummary")
           \/ event_fifo' = Append(event_fifo, "TagRead")
        /\ swept' = swept \/ swept' = Append(swept, cw)
    BY <1>1 DEF SweepChip, SweepRoundEnds, SweepDark, SweepReadsTag
  <2>2. SweepLists'
    <3>1. Append(swept, cw) \in Seq(Nat)
      BY ONLY <1>e, AppendAt
    <3>2. QED
      BY <1>e, <1>f, <2>0, <2>1, <3>1 DEF SweepLists
  <2>3. op' \in BOOLEAN /\ round_done' \in BOOLEAN /\ irq_pending' \in BOOLEAN
    BY <1>0, <1>1 DEF SweepPlaces, SweepChip, SweepRoundEnds, SweepDark, SweepReadsTag
  <2>t. (tags' = tags \/ tags' = tags + 1) /\ (failures' = failures \/ Fails)
    BY <1>1 DEF SweepChip, SweepRoundEnds, SweepDark, SweepReadsTag
  <2>w. cw' \in {0, cw, sweep_power}
    BY <1>1 DEF SweepChip, SweepRoundEnds, SweepDark, SweepReadsTag
  <2>4. SweepLevel'
    BY ONLY <1>l, <2>0, <2>w
  <2>5. SweepNumbers'
    BY ONLY <1>0, <2>0, <2>t DEF SweepNumbers, Fails
  <2>6. SweepPlaces'
    BY ONLY <1>0, <2>0, <2>3 DEF SweepPlaces
  <2>7. QED
    BY <2>2, <2>4, <2>5, <2>6 DEF SweepTypes
<1>2. CASE SweepStatus
  <2>0. /\ num_bytes' = Len(event_fifo) /\ round_done' = FALSE /\ irq_pending' = FALSE
        /\ UNCHANGED <<op, cw, event_fifo, done_reason, iterator, sweep_power, state, stop_reason,
                   round_count, tag_count, sweep_conditions, first, runs, next_step, queue,
                   ex10_result, swept, summaries, published, told, tags, failures>>
    BY <1>2 DEF SweepStatus
  <2>1. pc'["app"] = pc["app"] /\ pc'["irq"] \in {"round", "fifo"} /\ DOMAIN pc' = {"app", "irq"}
    BY <1>2 DEF SweepStatus, Moves
  <2>2. Len(event_fifo) \in Nat
    BY <1>e
  <2>3. SweepNumbers'
    BY ONLY <1>0, <2>0, <2>2 DEF SweepNumbers
  <2>4. SweepPlaces'
    BY ONLY <1>0, <2>0, <2>1 DEF SweepPlaces, Turning
  <2>5. SweepLists' /\ SweepLevel'
    BY <1>l, <1>e, <2>0 DEF SweepLists
  <2>6. QED
    BY <2>3, <2>4, <2>5 DEF SweepTypes
<1>q. ASSUME SweepQuiet PROVE SweepNumbers' <=> round_count' \in Nat /\ failures' \in Nat
  <2>1. UNCHANGED <<num_bytes, tag_count, summaries, published, tags, runs>>
    BY <1>q DEF SweepQuiet
  <2>2. QED
    BY ONLY <1>0, <2>1 DEF SweepNumbers
<1>p. ASSUME SweepQuiet, pc'["app"] = pc["app"], DOMAIN pc' = {"app", "irq"},
             pc'["irq"] \in {"fifo"} \cup Turning \cup Summing, next_step' \in {"fifo", "continue"}
      PROVE  SweepPlaces'
  BY ONLY <1>0, <1>p DEF SweepPlaces, SweepQuiet
<1>3. CASE SweepDecides
  <2>0. SweepQuiet /\ UNCHANGED <<cw, next_step, queue, failures>>
    BY <1>3 DEF SweepDecides
  <2>1. SweepLevel'
    <3> DEFINE n == Len(PowerLevels)
    <3>1. iterator \in Nat
      BY <1>0, <1>c DEF SweepLevel
    <3>2. (iterator + 1) % n \in 0 .. n - 1
      BY ONLY <1>c, <3>1
    <3>3. CASE iterator' = (iterator + 1) % n /\ sweep_power' = PowerLevels[iterator' + 1]
      <4>1. iterator' \in 0 .. n - 1 /\ sweep_power' \in Nat
        BY <1>d, <3>2, <3>3
      <4>2. first' = first /\ cw' = cw
        BY <2>0 DEF SweepQuiet
      <4>3. QED
        BY ONLY <1>0, <3>3, <4>1, <4>2 DEF SweepLevel
    <3>4. CASE UNCHANGED <<iterator, sweep_power>>
      <4>1. first' = first /\ cw' = cw
        BY <2>0 DEF SweepQuiet
      <4>2. QED
        BY <1>l, <3>4, <4>1
    <3>5. QED
      BY <1>3, <3>3, <3>4 DEF SweepDecides
  <2>2. SweepNumbers'
    <3>1. round_count' = round_count \/ round_count' = round_count + 1
      BY <1>3 DEF SweepDecides
    <3>2. round_count' \in Nat /\ failures' \in Nat
      BY ONLY <1>0, <2>0, <3>1 DEF SweepNumbers
    <3>3. QED
      BY <1>q, <2>0, <3>2
  <2>3. pc'["app"] = pc["app"] /\ pc'["irq"] \in Turning \cup Summing /\ DOMAIN pc' = {"app", "irq"}
    BY <1>3 DEF SweepDecides, Moves, Turning, Summing
  <2>4. next_step' \in {"fifo", "continue"}
    BY <1>0, <2>0 DEF SweepPlaces
  <2>5. SweepPlaces' /\ SweepLists'
    BY <1>p, <1>e, <2>0, <2>3, <2>4 DEF SweepLists, SweepQuiet
  <2>6. QED
    BY <2>1, <2>2, <2>5 DEF SweepTypes
<1>4. CASE SweepGoesOn
  <2>0. SweepQuiet /\ UNCHANGED <<iterator, sweep_power, state, stop_reason, round_count, next_step, queue, failures>>
    BY <1>4 DEF SweepGoesOn
  <2>1. pc'["app"] = pc["app"] /\ pc'["irq"] \in Turning /\ DOMAIN pc' = {"app", "irq"}
    BY <1>4 DEF SweepGoesOn, Moves, Turning
  <2>2. cw' \in {0, cw, sweep_power}
    BY <1>4 DEF SweepGoesOn
  <2>3. SweepLevel'
    BY <1>l, <2>0, <2>2 DEF SweepQuiet
  <2>4. SweepNumbers'
    BY <1>0, <1>q, <2>0 DEF SweepNumbers
  <2>5. next_step' \in {"fifo", "continue"}
    BY <1>0, <2>0 DEF SweepPlaces
  <2>6. SweepPlaces' /\ SweepLists'
    BY <1>p, <1>e, <2>0, <2>1, <2>5 DEF SweepLists, SweepQuiet
  <2>7. QED
    BY <2>3, <2>4, <2>6 DEF SweepTypes
<1>5. CASE SweepErrs
  <2>0. SweepQuiet /\ UNCHANGED <<iterator, sweep_power, stop_reason, round_count>>
    BY <1>5 DEF SweepErrs
  <2>1. pc'["app"] = pc["app"] /\ pc'["irq"] \in {"error_summary", "fifo"} /\ DOMAIN pc' = {"app", "irq"}
    BY <1>5 DEF SweepErrs, Moves
  <2>2. cw' \in {0, cw, sweep_power} /\ (failures' = failures \/ Fails) /\ next_step' \in {"fifo", "continue"}
    BY <1>5 DEF SweepErrs
  <2>3. queue' \in Seq(SweepPackets)
    BY <1>5, SweepPushes, SweepConstants DEF SweepErrs
  <2>4. failures' \in Nat /\ round_count' \in Nat
    BY ONLY <1>0, <2>0, <2>2 DEF SweepNumbers, Fails
  <2>5. SweepNumbers' /\ SweepLevel'
    BY <1>l, <1>q, <2>0, <2>2, <2>4 DEF SweepQuiet
  <2>6. SweepPlaces' /\ SweepLists'
    BY <1>p, <1>e, <2>0, <2>1, <2>2, <2>3 DEF SweepLists, SweepQuiet, Summing
  <2>7. QED
    BY <2>5, <2>6 DEF SweepTypes
<1>6. CASE SweepInserts
  <2>0. UNCHANGED <<op, cw, done_reason, round_done, iterator, sweep_power, state, stop_reason,
                   round_count, tag_count, sweep_conditions, first, runs, next_step, num_bytes,
                   ex10_result, swept, published, told, tags>>
    BY <1>6 DEF SweepInserts
  <2>1. pc'["app"] = pc["app"] /\ pc'["irq"] \in {"continue", "fifo"} /\ DOMAIN pc' = {"app", "irq"}
    BY <1>0, <1>6 DEF SweepInserts, Moves, SweepPlaces
  <2>2. queue' \in Seq(SweepPackets)
    BY <1>e, <1>6, SweepPushes, SweepConstants DEF SweepInserts
  <2>3. /\ event_fifo' = event_fifo \/ event_fifo' = Append(event_fifo, Summary)
        /\ irq_pending' = irq_pending \/ irq_pending' = TRUE
        /\ summaries' \in {summaries, summaries + 1} /\ (failures' = failures \/ Fails)
    BY <1>6 DEF SweepInserts
  <2>4. SweepLists'
    BY <1>e, <1>f, <2>0, <2>2, <2>3 DEF SweepLists
  <2>5. SweepNumbers'
    BY ONLY <1>0, <2>0, <2>3 DEF SweepNumbers, Fails
  <2>6. SweepLevel'
    BY <1>l, <2>0
  <2>7. SweepPlaces'
    BY ONLY <1>0, <2>0, <2>1, <2>3 DEF SweepPlaces, Turning
  <2>8. QED
    BY <2>4, <2>5, <2>6, <2>7 DEF SweepTypes
<1>7. CASE SweepStarts
  <2>0. /\ op' = TRUE
        /\ UNCHANGED <<event_fifo, done_reason, round_done, irq_pending, iterator, sweep_power, state,
                   stop_reason, round_count, tag_count, sweep_conditions, first, runs, next_step,
                   num_bytes, queue, ex10_result, swept, summaries, published, told, tags, failures>>
    BY <1>7 DEF SweepStarts
  <2>1. /\ DOMAIN pc' = {"app", "irq"} /\ pc'["irq"] \in {"idle", "fifo"} /\ pc'["app"] \in {"idle", "start", "publish"}
        /\ pc'["app"] # "idle" => pc["app"] # "idle"
    BY <1>0, <1>7 DEF SweepStarts, Moves, SweepPlaces
  <2>2. cw' \in {0, cw, sweep_power}
    BY <1>7 DEF SweepStarts
  <2>3. SweepLists' /\ SweepNumbers' /\ SweepLevel'
    BY <1>e, <1>l, <1>n, <2>0, <2>2 DEF SweepLists
  <2>4. SweepPlaces'
    BY ONLY <1>0, <2>0, <2>1 DEF SweepPlaces
  <2>5. QED
    BY <2>3, <2>4 DEF SweepTypes
<1>8. CASE SweepStartFails
  <2>0. /\ cw' \in {0, cw, sweep_power} /\ Fails /\ ex10_result' = "error"
        /\ UNCHANGED <<op, event_fifo, done_reason, round_done, irq_pending, iterator, sweep_power,
                   stop_reason, round_count, tag_count, sweep_conditions, first, runs, next_step,
                   num_bytes, queue, swept, summaries, published, told, tags>>
    BY <1>8 DEF SweepStartFails
  <2>1. pc'["app"] = "idle" /\ pc'["irq"] = "idle" /\ DOMAIN pc' = {"app", "irq"}
    BY <1>8 DEF SweepStartFails, Moves
  <2>2. SweepLists' /\ SweepNumbers' /\ SweepLevel'
    BY <1>e, <1>l, <1>n, <2>0 DEF SweepLists
  <2>3. SweepPlaces'
    BY ONLY <1>0, <2>0, <2>1 DEF SweepPlaces
  <2>4. QED
    BY <2>2, <2>3 DEF SweepTypes
<1>9. CASE SweepReads
  <2>0. UNCHANGED <<op, cw, done_reason, round_done, irq_pending, iterator, sweep_power, state,
                   stop_reason, round_count, sweep_conditions, first, runs, next_step, num_bytes,
                   ex10_result, swept, summaries, published, told, tags, failures>>
    BY <1>9 DEF SweepReads
  <2>1. SweepMoved
    BY <1>9, SweepMoves DEF SweepReads, SweepFifo
  <2>2. event_fifo' \in Seq(SweepEvents) /\ queue' \in Seq(SweepPackets)
    BY <2>1 DEF SweepMoved
  <2>3. tag_count' \in Nat
    <3>1. tag_count' = tag_count + TagsIn(num_bytes) /\ TagsIn(num_bytes) \in Nat /\ tag_count \in Nat
      BY <1>0, <2>1 DEF SweepMoved, SweepNumbers
    <3>2. QED
      BY ONLY <3>1
  <2>4. SweepLists' /\ SweepLevel'
    BY <1>e, <1>l, <2>0, <2>2 DEF SweepLists
  <2>5. SweepNumbers'
    BY ONLY <1>0, <2>0, <2>3 DEF SweepNumbers
  <2>6. pc'["app"] = pc["app"] /\ pc'["irq"] = "idle" /\ DOMAIN pc' = {"app", "irq"}
    BY <1>9 DEF SweepReads, Moves
  <2>7. SweepPlaces'
    BY ONLY <1>0, <2>0, <2>6 DEF SweepPlaces
  <2>8. QED
    BY <2>4, <2>5, <2>7 DEF SweepTypes
<1>10. CASE SweepReinit
  <2>0. /\ pc["app"] = "idle" /\ ex10_result' = "none"
        /\ op' = FALSE /\ cw' \in {0, cw, sweep_power} /\ round_done' = FALSE /\ irq_pending' = FALSE
        /\ UNCHANGED <<iterator, sweep_power, stop_reason, round_count, tag_count, sweep_conditions, first,
                   runs, pc, next_step, num_bytes, swept, summaries, published, told, tags, failures>>
    BY <1>10 DEF SweepReinit
  <2>1. event_fifo' = <<>> /\ queue' = <<>>
    BY <1>10 DEF SweepReinit
  <2>2. <<>> \in Seq(SweepEvents) /\ <<>> \in Seq(SweepPackets)
    OBVIOUS
  <2>3. SweepLists' /\ SweepNumbers' /\ SweepLevel'
    BY <1>e, <1>l, <1>n, <2>0, <2>1, <2>2 DEF SweepLists
  <2>4. SweepPlaces'
    BY ONLY <1>0, <2>0 DEF SweepPlaces
  <2>5. QED
    BY <2>3, <2>4 DEF SweepTypes
<1>11. CASE SweepBegins
  <2>0. /\ runs' = runs + 1 /\ sweep_conditions' \in SweepConditions
        /\ round_count' = 0 /\ tag_count' = 0 /\ summaries' = 0 /\ published' = 0 /\ tags' = 0
        /\ first' = iterator /\ sweep_power' = PowerLevels[iterator + 1] /\ ex10_result' = "success"
        /\ swept' = <<>>
        /\ UNCHANGED <<op, cw, event_fifo, done_reason, round_done, irq_pending, iterator, next_step,
                   num_bytes, queue, failures>>
    BY <1>11 DEF SweepBegins
  <2>1. pc'["app"] = "start" /\ pc'["irq"] = "idle" /\ DOMAIN pc' = {"app", "irq"}
    BY <1>11 DEF SweepBegins, Moves
  <2>2. <<>> \in Seq(Nat)
    OBVIOUS
  <2>3. SweepNumbers' /\ runs' > 0
    BY ONLY <1>0, <2>0 DEF SweepNumbers
  <2>4. SweepLevel'
    BY ONLY <1>0, <1>d, <2>0 DEF SweepLevel
  <2>5. SweepLists'
    BY <1>e, <2>0, <2>2 DEF SweepLists
  <2>6. SweepPlaces'
    BY ONLY <1>0, <2>0, <2>1, <2>3 DEF SweepPlaces
  <2>7. QED
    BY <2>3, <2>4, <2>5, <2>6 DEF SweepTypes
<1>12. CASE SweepPublishes
  <2>0. UNCHANGED <<op, cw, event_fifo, done_reason, round_done, irq_pending, iterator, sweep_power,
                   stop_reason, round_count, tag_count, sweep_conditions, first, runs, next_step,
                   num_bytes, swept, summaries, tags, failures>>
    BY <1>12 DEF SweepPublishes
  <2>1. queue' \in Seq(SweepPackets)
    <3>1. queue # <<>> /\ queue' = Tail(queue)
      BY <1>12 DEF SweepPublishes
    <3>2. QED
      BY ONLY <1>e, <3>1, TailAt
  <2>2. published' \in Nat
    <3>1. published' = published + 1 \/ published' = published + 0
      BY <1>12 DEF SweepPublishes, Count
    <3>2. QED
      BY ONLY <1>0, <3>1 DEF SweepNumbers
  <2>3. pc'["app"] = "publish" => ex10_result' \in {"success", "stop"}
    BY <1>12 DEF SweepPublishes, Moves
  <2>4. ex10_result' \in {"success", "stop", "error", "none"}
    BY <1>12 DEF SweepPublishes
  <2>5. pc'["app"] \in {"idle", "publish"} /\ pc'["irq"] = pc["irq"] /\ DOMAIN pc' = {"app", "irq"}
    BY <1>12 DEF SweepPublishes, Moves
  <2>6. pc["app"] # "idle"
    BY <1>12 DEF SweepPublishes
  <2>7. SweepPlaces'
    BY ONLY <1>0, <2>0, <2>3, <2>4, <2>5, <2>6 DEF SweepPlaces
  <2>8. SweepNumbers'
    BY ONLY <1>0, <2>0, <2>2 DEF SweepNumbers
  <2>9. SweepLists' /\ SweepLevel'
    BY <1>e, <1>l, <2>0, <2>1 DEF SweepLists
  <2>10. QED
    BY <2>7, <2>8, <2>9 DEF SweepTypes
<1>13. QED
  BY <1>1, <1>2, <1>3, <1>4, <1>5, <1>6, <1>7, <1>8, <1>9, <1>10, <1>11, <1>12 DEF SweepStep

LEMMA SweepFifoStep ==
    ASSUME SweepTypes, SweepFifo, SweepTurns, SweepStep
    PROVE  SweepFifo'
<1>0. /\ event_fifo \in Seq(SweepEvents) /\ Len(event_fifo) \in Nat /\ num_bytes \in Nat
      /\ irq_pending \in BOOLEAN /\ pc["irq"] \in {"idle", "fifo"} \cup Turning \cup Summing
  BY DEF SweepTypes, SweepLists, SweepNumbers, SweepPlaces
<1>a. \A e \in SweepEvents : Len(Append(event_fifo, e)) >= Len(event_fifo)
  BY ONLY <1>0, AppendAt
<1>b. ASSUME UNCHANGED <<event_fifo, num_bytes, irq_pending>>,
             pc'["irq"] = "idle" <=> pc["irq"] = "idle"
      PROVE  SweepFifo'
  BY ONLY <1>b, SweepFifo DEF SweepFifo
<1>c. ASSUME NEW e \in SweepEvents, event_fifo' = Append(event_fifo, e), irq_pending' = TRUE,
             num_bytes' = num_bytes, pc["irq"] # "idle" \/ pc' = pc
      PROVE  SweepFifo'
  <2>1. pc["irq"] # "idle" => num_bytes' <= Len(event_fifo')
    <3>1. num_bytes <= Len(event_fifo) /\ Len(event_fifo) \in Nat /\ Len(event_fifo') \in Nat
              => num_bytes <= Len(event_fifo')
      BY ONLY <1>0, <1>a, <1>c
    <3>2. Len(event_fifo') \in Nat
      BY ONLY <1>0, <1>c, AppendAt
    <3>3. QED
      BY <1>0, <1>c, <3>1, <3>2 DEF SweepFifo
  <2>2. pc'["irq"] # "idle" => pc["irq"] # "idle"
    BY <1>c
  <2>3. QED
    BY <1>c, <2>1, <2>2 DEF SweepFifo
<1>1. CASE SweepChip
  <2>0. UNCHANGED <<pc, num_bytes>>
    BY <1>1 DEF SweepChip
  <2>1. \/ event_fifo' = Append(event_fifo, "InventoryRoundSummary") /\ irq_pending' = TRUE
        \/ event_fifo' = Append(event_fifo, "TagRead") /\ irq_pending' = TRUE
        \/ UNCHANGED <<event_fifo, irq_pending>>
    BY <1>1 DEF SweepChip, SweepRoundEnds, SweepDark, SweepReadsTag
  <2>2. "InventoryRoundSummary" \in SweepEvents /\ "TagRead" \in SweepEvents
    BY DEF SweepEvents
  <2>3. QED
    BY <1>b, <1>c, <2>0, <2>1, <2>2
<1>2. CASE SweepStatus
  BY <1>2, <1>0 DEF SweepStatus, SweepFifo, Moves
<1>3. CASE SweepDecides \/ SweepGoesOn \/ SweepErrs
  <2>1. UNCHANGED <<event_fifo, num_bytes, irq_pending>>
    BY <1>3 DEF SweepDecides, SweepGoesOn, SweepErrs, SweepQuiet
  <2>2. pc'["irq"] # "idle" /\ pc["irq"] # "idle"
    BY <1>3 DEF SweepDecides, SweepGoesOn, SweepErrs, Moves
  <2>3. QED
    BY <1>b, <2>1, <2>2
<1>4. CASE SweepInserts
  <2>1. pc["irq"] # "idle" /\ pc'["irq"] # "idle" /\ num_bytes' = num_bytes
    BY <1>4 DEF SweepInserts, Moves, Summing, SweepTypes, SweepPlaces
  <2>2. \/ event_fifo' = Append(event_fifo, Summary) /\ irq_pending' = TRUE
        \/ UNCHANGED <<event_fifo, irq_pending>>
    BY <1>4 DEF SweepInserts
  <2>3. Summary \in SweepEvents
    BY DEF SweepEvents, Summary
  <2>4. QED
    BY <1>b, <1>c, <2>1, <2>2, <2>3
<1>5. CASE SweepStarts \/ SweepStartFails
  <2>1. UNCHANGED <<event_fifo, num_bytes, irq_pending>>
    BY <1>5 DEF SweepStarts, SweepStartFails
  <2>2. (pc'["irq"] # "idle" /\ pc["irq"] # "idle") \/ (pc'["irq"] = "idle" /\ pc["irq"] = "idle")
    BY <1>5 DEF SweepStarts, SweepStartFails, Moves
  <2>3. QED
    BY <1>b, <2>1, <2>2
<1>6. CASE SweepReads
  <2>1. pc["irq"] = "fifo" /\ pc'["irq"] = "idle" /\ irq_pending' = irq_pending
    BY <1>6 DEF SweepReads, Moves
  <2>2. num_bytes <= Len(event_fifo) /\ (~irq_pending => num_bytes = Len(event_fifo))
    BY <2>1 DEF SweepFifo
  <2>3. event_fifo' \in Seq(SweepEvents) /\ Len(event_fifo') = Len(event_fifo) - num_bytes
    BY <1>6, <2>2, SweepMoves DEF SweepReads, SweepMoved
  <2>4. ~irq_pending => Len(event_fifo') = 0
    BY <1>0, <2>2, <2>3
  <2>5. ~irq_pending => event_fifo' = <<>>
    BY <2>3, <2>4, EmptySeq
  <2>6. QED
    BY <2>1, <2>5 DEF SweepFifo
<1>7. CASE SweepReinit
  <2>1. pc'["irq"] = "idle" /\ event_fifo' = <<>>
    BY <1>7 DEF SweepReinit
  <2>2. QED
    BY <2>1 DEF SweepFifo
<1>8. CASE SweepBegins \/ SweepPublishes
  <2>1. UNCHANGED <<event_fifo, num_bytes, irq_pending>>
    BY <1>8 DEF SweepBegins, SweepPublishes
  <2>2. pc'["irq"] = pc["irq"]
    BY <1>8 DEF SweepBegins, SweepPublishes, Moves
  <2>3. QED
    BY <1>b, <2>1, <2>2
<1>9. QED
  BY <1>1, <1>2, <1>3, <1>4, <1>5, <1>6, <1>7, <1>8 DEF SweepStep

LEMMA SweepTurnsStep ==
    ASSUME SweepTypes, SweepFifo, SweepTurns, SweepStep
    PROVE  SweepTurns'
<1>0. /\ pc["irq"] \in {"idle", "fifo"} \cup Turning \cup Summing /\ pc["app"] \in {"idle", "start", "publish"}
      /\ runs \in Nat /\ next_step \in {"fifo", "continue"}
  BY DEF SweepTypes, SweepNumbers, SweepPlaces
<1>r. pc["irq"] # "idle" \/ pc["app"] # "idle" \/ op \/ irq_pending \/ queue # <<>> => runs # 0
  BY DEF SweepTurns
<1> USE DEF Turning, Summing
<1>1. CASE SweepChip
  <2>1. UNCHANGED <<pc, runs, queue>>
    BY <1>1 DEF SweepChip
  <2>2. CASE op
    <3>1. runs # 0 /\ pc["irq"] \notin Turning \cup Summing /\ pc["app"] # "start" /\ ~round_done
      BY <2>2, <1>r DEF SweepTurns
    <3>2. (~op' /\ round_done' /\ irq_pending') \/ (op' /\ ~round_done')
      BY <1>1, <2>2, <3>1 DEF SweepChip, SweepRoundEnds, SweepDark, SweepReadsTag
    <3>3. QED
      BY <2>1, <3>1, <3>2 DEF SweepTurns
  <2>3. CASE ~op
    <3>1. UNCHANGED <<op, round_done, irq_pending>>
      BY <1>1, <2>3 DEF SweepChip, SweepRoundEnds, SweepDark, SweepReadsTag
    <3>2. QED
      BY <2>1, <3>1 DEF SweepTurns
  <2>4. QED
    BY <2>2, <2>3
<1>2. CASE SweepStatus
  <2>1. /\ pc["irq"] = "idle" /\ irq_pending /\ round_done' = FALSE /\ irq_pending' = FALSE
        /\ op' = op /\ runs' = runs /\ pc'["app"] = pc["app"]
        /\ (pc'["irq"] = "round" /\ round_done) \/ (pc'["irq"] = "fifo" /\ ~round_done)
    BY <1>2 DEF SweepStatus, Moves
  <2>2. runs # 0 /\ pc["app"] # "start" /\ (round_done => ~op)
    BY <1>r, <2>1 DEF SweepTurns
  <2>3. QED
    BY <2>1, <2>2 DEF SweepTurns
<1>3. CASE SweepDecides \/ SweepGoesOn \/ SweepErrs \/ SweepInserts
  <2>1. /\ op' = op /\ round_done' = round_done /\ runs' = runs
        /\ pc["irq"] \in Turning \cup Summing
    BY <1>3 DEF SweepDecides, SweepGoesOn, SweepErrs, SweepInserts, SweepQuiet
  <2>2. pc'["app"] = pc["app"] /\ pc'["irq"] # "idle"
    BY <1>3, <1>0 DEF SweepDecides, SweepGoesOn, SweepErrs, SweepInserts, Moves
  <2>3. runs # 0 /\ ~op /\ ~round_done /\ pc["app"] # "start"
    BY <1>r, <2>1 DEF SweepTurns
  <2>4. QED
    BY <2>1, <2>2, <2>3 DEF SweepTurns
<1>4. CASE SweepStarts
  <2>1. runs' = runs /\ round_done' = round_done
    BY <1>4 DEF SweepStarts
  <2>2. pc'["irq"] \in {"idle", "fifo"} /\ pc'["app"] # "start" /\ ~round_done /\ runs # 0
    BY <1>4, <1>r DEF SweepStarts, Moves, SweepTurns
  <2>3. QED
    BY <2>1, <2>2 DEF SweepTurns
<1>5. CASE SweepStartFails
  <2>1. UNCHANGED <<runs, op, round_done, irq_pending>>
    BY <1>5 DEF SweepStartFails
  <2>2. pc'["irq"] = "idle" /\ pc'["app"] = "idle" /\ runs # 0
    BY <1>5, <1>r DEF SweepStartFails, Moves
  <2>3. QED
    BY <2>1, <2>2 DEF SweepTurns
<1>6. CASE SweepReads
  <2>1. UNCHANGED <<runs, op, round_done, irq_pending>>
    BY <1>6 DEF SweepReads
  <2>2. pc'["irq"] = "idle" /\ pc'["app"] = pc["app"] /\ runs # 0 /\ pc["app"] # "start"
    BY <1>6, <1>r DEF SweepReads, Moves, SweepTurns
  <2>3. QED
    BY <2>1, <2>2 DEF SweepTurns
<1>7. CASE SweepReinit
  BY <1>7 DEF SweepReinit, SweepTurns
<1>8. CASE SweepBegins
  <2>1. UNCHANGED <<op, round_done, irq_pending>> /\ runs' # 0 /\ ~op /\ ~irq_pending
    BY <1>8, <1>0 DEF SweepBegins
  <2>2. pc'["irq"] = "idle" /\ pc'["app"] = "start"
    BY <1>8 DEF SweepBegins, Moves
  <2>3. QED
    BY <2>1, <2>2 DEF SweepTurns
<1>9. CASE SweepPublishes
  <2>1. UNCHANGED <<runs, op, round_done, irq_pending>> /\ runs # 0
    BY <1>9, <1>r DEF SweepPublishes
  <2>2. pc'["irq"] = pc["irq"] /\ pc'["app"] # "start"
    BY <1>9 DEF SweepPublishes, Moves
  <2>3. QED
    BY <2>1, <2>2 DEF SweepTurns
<1>10. QED
  BY <1>1, <1>2, <1>3, <1>4, <1>5, <1>6, <1>7, <1>8, <1>9 DEF SweepStep

(* Where the iterator is: at the level of the next round, or still at the  *)
(* one of the round that is completed.                                     *)
SweepRound == round_done \/ pc["irq"] = "round"
Due ==
    \/ op \/ pc["app"] = "start" \/ pc["irq"] \in Turning \ {"round"}
    \/ SweepRound /\ done_reason # "Done"
Past == SweepRound /\ done_reason = "Done"
LevelPower ==
    /\ next_step = "fifo"
    /\ pc["irq"] \notin {"get_cw_is_on", "update_power"} => cw \in {0, sweep_power}
LevelList == \A i \in 1 .. Len(swept) : swept[i] = PS!Level(i)
LevelDue == Due => iterator = (first + Len(swept)) % Len(PowerLevels)
LevelPast == Past => Len(swept) > 0 /\ iterator = (first + (Len(swept) - 1)) % Len(PowerLevels)
SweepLevels == failures = 0 => LevelPower /\ LevelList /\ LevelDue /\ LevelPast

LEMMA SweepLevelsStep ==
    ASSUME SweepTypes, SweepTurns, SweepLevels, SweepStep
    PROVE  SweepLevels'
<1> SUFFICES ASSUME failures' = 0
             PROVE  LevelPower' /\ LevelList' /\ LevelDue' /\ LevelPast'
  BY DEF SweepLevels
<1>0. /\ pc["irq"] \in {"idle", "fifo"} \cup Turning \cup Summing /\ failures \in Nat
      /\ iterator \in 0 .. Len(PowerLevels) - 1 /\ first \in 0 .. Len(PowerLevels) - 1
      /\ sweep_power = PowerLevels[iterator + 1] /\ swept \in Seq(Nat) /\ Len(swept) \in Nat /\ cw \in Nat
  BY DEF SweepTypes, SweepNumbers, SweepPlaces, SweepLevel, SweepLists
<1>n. Len(PowerLevels) \in Nat /\ Len(PowerLevels) > 0 /\ iterator \in Nat /\ first \in Nat
  BY <1>0, SweepConstants
<1>f. ~Fails
  BY <1>0 DEF Fails
<1>r. /\ failures = 0 \/ failures' # failures
      /\ op => ~round_done /\ pc["irq"] \notin Turning /\ pc["app"] # "start"
      /\ pc["irq"] \in Turning \cup Summing => ~op /\ ~round_done /\ pc["app"] # "start"
      /\ pc["app"] = "start" => ~op /\ ~round_done /\ pc["irq"] = "idle" /\ ~irq_pending
  BY DEF SweepTurns
<1>h. failures = 0 => LevelPower /\ LevelList /\ LevelDue /\ LevelPast
  BY DEF SweepLevels
<1>l. ASSUME UNCHANGED <<swept, first>>, LevelList PROVE LevelList'
  BY <1>l DEF LevelList, PS!Level
<1>i. ASSUME UNCHANGED <<swept, first, iterator>>, LevelList, LevelDue, LevelPast, Due' => Due, Past' => Past
      PROVE  LevelList' /\ LevelDue' /\ LevelPast'
  BY <1>l, <1>i DEF LevelDue, LevelPast
<1>1. CASE SweepChip
  <2>0. UNCHANGED <<iterator, sweep_power, first, pc, next_step>> /\ failures = 0
    BY <1>1, <1>f DEF SweepChip
  <2>1. LevelPower /\ LevelList /\ LevelDue /\ LevelPast
    BY <1>h, <2>0
  <2>2. LevelPower'
    <3>1. cw' \in {cw, 0}
      BY <1>1 DEF SweepChip, SweepRoundEnds, SweepDark, SweepReadsTag
    <3>2. QED
      BY <2>0, <2>1, <3>1 DEF LevelPower
  <2>3. CASE SweepDark \/ SweepReadsTag
    <3>1. UNCHANGED <<op, round_done, done_reason, swept>>
      BY <2>3 DEF SweepDark, SweepReadsTag
    <3>2. (Due' => Due) /\ (Past' => Past)
      BY <2>0, <3>1 DEF Due, Past, SweepRound
    <3>3. QED
      BY <1>i, <2>0, <2>1, <2>2, <3>1, <3>2
  <2>4. CASE SweepRoundEnds /\ done_reason' # "Done"
    <3>1. op /\ swept' = swept /\ ~Past'
      BY <2>4 DEF SweepRoundEnds, Past
    <3>2. Due
      BY <3>1 DEF Due
    <3>3. QED
      BY <1>l, <2>0, <2>1, <2>2, <3>1, <3>2 DEF LevelDue, LevelPast
  <2>5. CASE SweepRoundEnds /\ done_reason' = "Done"
    <3>1. op /\ swept' = Append(swept, cw) /\ cw # 0 /\ op' = FALSE /\ round_done'
      BY <2>5 DEF SweepRoundEnds
    <3>2. ~Due'
      BY <1>r, <2>0, <2>5, <3>1 DEF Due, SweepRound
    <3>3. iterator = (first + Len(swept)) % Len(PowerLevels)
      BY <2>1, <3>1 DEF LevelDue, Due
    <3>4. cw = PowerLevels[iterator + 1]
      <4>1. pc["irq"] \notin {"get_cw_is_on", "update_power"}
        BY <1>r, <3>1 DEF Turning
      <4>2. QED
        BY <1>0, <2>1, <3>1, <4>1 DEF LevelPower
    <3>5. /\ Len(swept') = Len(swept) + 1 /\ \A i \in 1 .. Len(swept) : swept'[i] = swept[i]
          /\ swept'[Len(swept) + 1] = cw
      BY ONLY <1>0, <3>1, AppendAt
    <3>6. (first + (Len(swept) + 1)) - 1 = first + Len(swept) /\ first + ((Len(swept) + 1) - 1) = first + Len(swept)
      BY <1>0, <1>n
    <3>7. LevelPast'
      <4>1. Len(swept') > 0
        BY <1>0, <3>5
      <4>2. iterator' = (first' + (Len(swept') - 1)) % Len(PowerLevels)
        BY <2>0, <3>3, <3>5, <3>6
      <4>3. QED
        BY <4>1, <4>2 DEF LevelPast
    <3>8. PS!Level(Len(swept) + 1) = cw
      BY <3>3, <3>4, <3>6 DEF PS!Level
    <3>9. \A i : PS!Level(i)' = PS!Level(i)
      BY <2>0 DEF PS!Level
    <3>10. ASSUME NEW i \in 1 .. Len(swept') PROVE swept'[i] = PS!Level(i)
      <4>1. i \in 1 .. Len(swept) \/ i = Len(swept) + 1
        BY <1>0, <3>5
      <4>2. QED
        BY <2>1, <3>5, <3>8, <4>1 DEF LevelList
    <3>11. LevelList'
      BY <3>9, <3>10 DEF LevelList
    <3>12. QED
      BY <2>2, <3>2, <3>7, <3>11 DEF LevelDue
  <2>6. QED
    BY <1>1, <2>3, <2>4, <2>5 DEF SweepChip
<1>2. CASE SweepStatus \/ SweepReads \/ SweepPublishes
  <2>0. UNCHANGED <<op, cw, done_reason, iterator, sweep_power, first, swept, next_step>> /\ failures = 0
    BY <1>2 DEF SweepStatus, SweepReads, SweepPublishes
  <2>1. LevelPower /\ LevelList /\ LevelDue /\ LevelPast
    BY <1>h, <2>0
  <2>2. /\ pc'["app"] = "start" => pc["app"] = "start"
        /\ pc'["irq"] \in Turning \ {"round"} => pc["irq"] \in Turning \ {"round"}
        /\ pc'["irq"] \notin {"get_cw_is_on", "update_power"} => pc["irq"] \notin {"get_cw_is_on", "update_power"}
        /\ SweepRound' => SweepRound
    BY <1>2 DEF SweepStatus, SweepReads, SweepPublishes, Moves, Turning, SweepRound
  <2>3. LevelPower'
    BY <2>0, <2>1, <2>2 DEF LevelPower
  <2>4. (Due' => Due) /\ (Past' => Past)
    BY <2>0, <2>2 DEF Due, Past
  <2>5. QED
    BY <1>i, <2>0, <2>1, <2>3, <2>4
<1>3. CASE SweepDecides
  <2>0. /\ UNCHANGED <<op, cw, done_reason, round_done, first, swept, next_step>> /\ failures = 0
        /\ pc["irq"] \in {"round", "overshoot"}
    BY <1>3 DEF SweepDecides, SweepQuiet
  <2>1. LevelPower /\ LevelList /\ LevelDue /\ LevelPast
    BY <1>h, <2>0
  <2>2. ~op' /\ ~round_done' /\ pc["app"] # "start"
    BY <1>r, <2>0 DEF Turning
  <2>3. CASE Moves(pc["app"], "summary") /\ UNCHANGED <<iterator, sweep_power>>
    <3>1. ~Due' /\ ~Past'
      BY <2>2, <2>3 DEF Due, Past, SweepRound, Moves, Turning
    <3>2. LevelPower'
      BY <2>0, <2>1, <2>3 DEF LevelPower
    <3>3. QED
      BY <1>l, <2>0, <2>1, <3>1, <3>2 DEF LevelDue, LevelPast
  <2>4. CASE /\ Completes /\ Moves(pc["app"], "get_cw_is_on")
             /\ iterator' = (iterator + 1) % Len(PowerLevels) /\ sweep_power' = PowerLevels[iterator' + 1]
    <3>1. ~Past'
      BY <2>2, <2>4 DEF Past, SweepRound, Moves
    <3>2. Len(swept) > 0 /\ iterator = (first + (Len(swept) - 1)) % Len(PowerLevels)
      BY <2>1, <2>4 DEF LevelPast, Past, SweepRound, Completes
    <3> DEFINE a == first + (Len(swept) - 1)
               n == Len(PowerLevels)
    <3>3. a \in Nat /\ a + 1 = first + Len(swept) /\ n \in Nat /\ n > 0
      BY <1>0, <1>n, <3>2
    <3>4. iterator = a % n /\ iterator' = (iterator + 1) % n
      BY <2>4, <3>2
    <3> HIDE DEF a, n
    <3>5. iterator' = (a + 1) % n
      BY ONLY <3>3, <3>4, NextModulo
    <3>6. iterator' = (first' + Len(swept')) % Len(PowerLevels)
      BY <2>0, <3>3, <3>5 DEF n
    <3>7. LevelPower'
      BY <2>0, <2>1, <2>4 DEF LevelPower, Moves
    <3>8. QED
      BY <1>l, <2>0, <2>1, <3>1, <3>6, <3>7 DEF LevelDue, LevelPast
  <2>5. CASE ~Completes /\ Moves(pc["app"], "continue") /\ UNCHANGED <<iterator, sweep_power>>
    <3>1. Due
      BY <2>0, <2>5 DEF Due, SweepRound, Completes, Turning
    <3>2. ~Past'
      BY <2>2, <2>5 DEF Past, SweepRound, Moves
    <3>3. LevelPower'
      BY <2>0, <2>1, <2>5 DEF LevelPower
    <3>4. LevelDue'
      BY <2>0, <2>1, <2>5, <3>1 DEF LevelDue
    <3>5. QED
      BY <1>l, <2>0, <2>1, <3>2, <3>3, <3>4 DEF LevelPast
  <2>6. QED
    BY <1>3, <2>3, <2>4, <2>5 DEF SweepDecides
<1>4. CASE SweepGoesOn
  <2>0. /\ UNCHANGED <<op, done_reason, round_done, first, swept, next_step, iterator, sweep_power>> /\ failures = 0
    BY <1>4 DEF SweepGoesOn, SweepQuiet
  <2>1. LevelPower /\ LevelList /\ LevelDue /\ LevelPast
    BY <1>h, <2>0
  <2>2. /\ pc["irq"] \in Turning /\ (pc["irq"] = "round" => done_reason # "Done")
        /\ pc'["irq"] # "round"
    BY <1>4 DEF SweepGoesOn, Turning, Moves
  <2>3. Due
    BY <2>2 DEF Due, SweepRound
  <2>4. ~Past'
    BY <1>r, <2>0, <2>2 DEF Past, SweepRound
  <2>5. LevelPower'
    <3>1. pc'["irq"] \notin {"get_cw_is_on", "update_power"} => cw' \in {0, sweep_power}
      BY <1>4, <2>1 DEF SweepGoesOn, Moves, LevelPower
    <3>2. QED
      BY <2>0, <2>1, <3>1 DEF LevelPower
  <2>6. LevelDue'
    BY <2>0, <2>1, <2>3 DEF LevelDue
  <2>7. QED
    BY <1>l, <2>0, <2>1, <2>4, <2>5, <2>6 DEF LevelPast
<1>5. CASE SweepErrs \/ SweepInserts
  <2>0. /\ UNCHANGED <<op, done_reason, round_done, first, swept, iterator, sweep_power>> /\ failures = 0
        /\ next_step' = "fifo" /\ cw' = cw
        /\ pc["irq"] \in Summing \cup {"round"} /\ pc'["irq"] \in {"fifo", "error_summary"} /\ pc'["app"] = pc["app"]
    <3>1. /\ UNCHANGED <<op, done_reason, round_done, first, swept, iterator, sweep_power>> /\ failures' = failures
          /\ cw' = cw /\ pc["irq"] \in Summing \cup {"round"} /\ pc'["app"] = pc["app"]
      BY <1>5, <1>f DEF SweepErrs, SweepInserts, SweepQuiet, Moves
    <3>2. LevelPower
      BY <1>h, <3>1
    <3>3. next_step' = "fifo" /\ pc'["irq"] \in {"fifo", "error_summary"}
      BY <1>5, <1>f, <3>2 DEF SweepErrs, SweepInserts, Moves, LevelPower
    <3>4. QED
      BY <3>1, <3>3
  <2>1. LevelPower /\ LevelList
    BY <1>h, <2>0
  <2>2. ~op' /\ ~round_done' /\ pc'["app"] # "start"
    BY <1>r, <2>0 DEF Turning
  <2>3. ~Due' /\ ~Past'
    BY <2>0, <2>2 DEF Due, Past, SweepRound, Turning
  <2>4. LevelPower'
    BY <2>0, <2>1 DEF LevelPower, Summing
  <2>5. QED
    BY <1>l, <2>0, <2>1, <2>3, <2>4 DEF LevelDue, LevelPast
<1>6. CASE SweepStarts
  <2>0. /\ UNCHANGED <<done_reason, round_done, first, swept, iterator, sweep_power, next_step>> /\ failures = 0
        /\ cw' = IF cw = 0 THEN sweep_power ELSE cw
    BY <1>6 DEF SweepStarts
  <2>1. LevelPower /\ LevelList /\ LevelDue /\ LevelPast
    BY <1>h, <2>0
  <2>2. /\ pc["irq"] \notin {"get_cw_is_on", "update_power"} /\ pc'["irq"] # "round" /\ Due /\ ~round_done
    BY <1>6, <1>r DEF SweepStarts, Moves, Due, Turning
  <2>3. ~Past'
    BY <2>0, <2>2 DEF Past, SweepRound
  <2>4. LevelPower'
    BY <2>0, <2>1, <2>2 DEF LevelPower
  <2>5. LevelDue'
    BY <2>0, <2>1, <2>2 DEF LevelDue
  <2>6. QED
    BY <1>l, <2>0, <2>1, <2>3, <2>4, <2>5 DEF LevelPast
<1>7. CASE SweepStartFails
  BY <1>7, <1>f DEF SweepStartFails
<1>8. CASE SweepReinit
  <2>0. /\ UNCHANGED <<first, swept, iterator, sweep_power, next_step, pc>> /\ failures = 0 /\ cw' = 0
        /\ pc["app"] = "idle" /\ pc["irq"] = "idle" /\ ~op' /\ ~round_done'
    BY <1>8 DEF SweepReinit
  <2>1. LevelPower /\ LevelList
    BY <1>h, <2>0
  <2>2. ~Due' /\ ~Past'
    BY <2>0 DEF Due, Past, SweepRound, Turning
  <2>3. LevelPower'
    BY <2>0, <2>1 DEF LevelPower
  <2>4. QED
    BY <1>l, <2>0, <2>1, <2>2, <2>3 DEF LevelDue, LevelPast
<1>9. CASE SweepBegins
  <2>0. /\ UNCHANGED <<round_done, iterator, cw, next_step>> /\ failures = 0 /\ swept' = <<>> /\ first' = iterator
        /\ sweep_power' = PowerLevels[iterator + 1] /\ pc["irq"] = "idle" /\ pc'["irq"] = "idle" /\ ~irq_pending
    BY <1>9 DEF SweepBegins, Moves
  <2>1. LevelPower
    BY <1>h, <2>0
  <2>2. ~Past'
    BY <2>0 DEF Past, SweepRound, SweepTurns
  <2>3. LevelPower'
    BY <1>0, <2>0, <2>1 DEF LevelPower
  <2>4. Len(swept') = 0
    BY <2>0
  <2>5. LevelList'
    BY <2>4 DEF LevelList
  <2>6. LevelDue'
    <3> DEFINE n == Len(PowerLevels)
    <3>1. n \in Nat /\ n > 0 /\ iterator \in 0 .. n - 1
      BY <1>0, <1>n
    <3> HIDE DEF n
    <3>2. iterator % n = iterator /\ iterator + 0 = iterator
      BY ONLY <3>1
    <3>3. QED
      BY <2>0, <2>4, <3>2 DEF LevelDue, n
  <2>7. QED
    BY <2>2, <2>3, <2>5, <2>6 DEF LevelPast
<1>10. QED
  BY <1>1, <1>2, <1>3, <1>4, <1>5, <1>6, <1>7, <1>8, <1>9 DEF SweepStep

(* The end of a run.  A run that has met no error is sound: it goes on     *)
(* without a summary, or is over with one, which is the last that is read. *)
ErrorAhead(list) ==
    \E k \in 1 .. Len(list) :
        list[k][1] = "Ex10Result" /\ \A j \in 1 .. Len(list) : j < k => list[j][1] # Summary
Succeeds == ex10_result \in {"success", "stop"}
Sound == runs > 0 /\ Succeeds /\ ~HasError(queue)
Going == pc["app"] = "start" \/ op \/ round_done \/ pc["irq"] \in Turning
NoneIn(list) == \A i \in 1 .. Len(list) : list[i][1] # Summary
NoSummary == (\A i \in 1 .. Len(event_fifo) : event_fifo[i] # Summary) /\ NoneIn(queue)

SweepAhead == HasError(queue) /\ Succeeds => pc["app"] = "publish" /\ ErrorAhead(queue)

RunGoing ==
    Going => /\ summaries = 0 /\ stop_reason = "None" /\ pc["app"] # "idle" /\ ~Reached(round_count)
             /\ Len(swept) = round_count + Count(Past)
RunOver ==
    ~Going => /\ state # "Ongoing" /\ summaries = Count(pc["irq"] # "summary")
              /\ stop_reason = "MaxNumberOfRounds" => Len(swept) = sweep_conditions.rounds
RunStops == pc["irq"] # "error_summary" /\ (pc["irq"] = "summary" => pc["app"] = "publish")
SteadyRun == RunGoing /\ RunOver /\ RunStops

PlaceNone == Going \/ pc["irq"] = "summary" => NoSummary
PlaceFifo == \A i \in 1 .. Len(event_fifo) : event_fifo[i] = Summary => i = Len(event_fifo)
PlaceQueue ==
    \A i \in 1 .. Len(queue) :
        queue[i][1] = Summary => i = Len(queue) /\ queue[i][2] = tag_count /\ event_fifo = <<>>
SteadyPlace == PlaceNone /\ PlaceFifo /\ PlaceQueue

SteadyTally ==
    /\ tags = tag_count + TagEvents(event_fifo)
    /\ pc["app"] # "idle" => tag_count = published + TagPackets(queue)
    /\ pc["app"] = "idle" => told = published /\ published = tags /\ queue = <<>> /\ event_fifo = <<>>

SweepSteady == Sound => SteadyRun /\ SteadyPlace /\ SteadyTally

LEMMA ErrorsKept ==
    ASSUME SweepTypes, SweepFifo
    PROVE  /\ SweepReads => /\ HasError(queue') <=> HasError(queue)
                            /\ ErrorAhead(queue) => ErrorAhead(queue')
           /\ queue' = Append(queue, <<"Ex10Result">>) =>
                /\ ErrorAhead(queue) => ErrorAhead(queue')
                /\ NoneIn(queue) => ErrorAhead(queue')
           /\ queue # <<>> /\ queue' = Tail(queue) /\ Head(queue)[1] # "Ex10Result" =>
                /\ HasError(queue') <=> HasError(queue)
                /\ ErrorAhead(queue) => ErrorAhead(queue') /\ Head(queue)[1] # Summary
<1>0. queue \in Seq(SweepPackets) /\ Len(queue) \in Nat /\ num_bytes \in Nat /\ Len(event_fifo) \in Nat
      /\ \A i \in 1 .. Len(event_fifo) : event_fifo[i] # "Ex10Result"
  BY DEF SweepTypes, SweepLists, SweepNumbers, SweepEvents
<1>1. ASSUME SweepReads
      PROVE  (HasError(queue') <=> HasError(queue)) /\ (ErrorAhead(queue) => ErrorAhead(queue'))
  <2>1. SweepMoved /\ num_bytes <= Len(event_fifo)
    BY <1>1, SweepMoves DEF SweepReads, SweepFifo
  <2>2. /\ Len(queue') = Len(queue) + num_bytes
        /\ \A i \in 1 .. Len(queue) : i \in 1 .. Len(queue') /\ queue'[i] = queue[i]
    BY <1>0, <2>1 DEF SweepMoved
  <2>3. ASSUME NEW i \in 1 .. Len(queue'), i \notin 1 .. Len(queue)
        PROVE  queue'[i][1] # "Ex10Result" /\ i > Len(queue)
    <3>1. i - Len(queue) \in 1 .. num_bytes /\ Len(queue) + (i - Len(queue)) = i /\ i > Len(queue)
      BY <1>0, <2>2, <2>3
    <3>2. i - Len(queue) \in 1 .. Len(event_fifo)
      BY <1>0, <2>1, <3>1
    <3>3. queue'[i][1] = event_fifo[i - Len(queue)]
      BY <2>1, <3>1 DEF SweepMoved
    <3>4. QED
      BY <1>0, <3>1, <3>2, <3>3
  <2>4. HasError(queue') <=> HasError(queue)
    BY <2>2, <2>3 DEF HasError
  <2>5. ErrorAhead(queue) => ErrorAhead(queue')
    <3>1. SUFFICES ASSUME NEW k \in 1 .. Len(queue), queue[k][1] = "Ex10Result",
                          \A j \in 1 .. Len(queue) : j < k => queue[j][1] # Summary
                   PROVE  ErrorAhead(queue')
      BY DEF ErrorAhead
    <3>2. \A j \in 1 .. Len(queue') : j < k => j \in 1 .. Len(queue)
      BY <1>0, <2>2
    <3>3. QED
      BY <2>2, <3>1, <3>2 DEF ErrorAhead
  <2>6. QED
    BY <2>4, <2>5
<1>2. ASSUME queue' = Append(queue, <<"Ex10Result">>)
      PROVE  (ErrorAhead(queue) => ErrorAhead(queue')) /\ (NoneIn(queue) => ErrorAhead(queue'))
  <2> DEFINE e == <<"Ex10Result">>
  <2>1. e \in SweepPackets /\ e[1] = "Ex10Result"
    BY SweepPacketKinds
  <2>2. /\ Len(queue') = Len(queue) + 1 /\ \A i \in 1 .. Len(queue) : queue'[i] = queue[i]
        /\ queue'[Len(queue) + 1] = e
    BY ONLY <1>0, <1>2, <2>1, AppendAt
  <2>3. queue'[Len(queue) + 1][1] = "Ex10Result"
    BY <2>1, <2>2
  <2> HIDE DEF e
  <2>4. /\ Len(queue) + 1 \in 1 .. Len(queue')
        /\ \A j \in 1 .. Len(queue') : j < Len(queue) + 1 => j \in 1 .. Len(queue)
    BY <1>0, <2>2
  <2>5. NoneIn(queue) => ErrorAhead(queue')
    BY <2>2, <2>3, <2>4 DEF NoneIn, ErrorAhead
  <2>6. ErrorAhead(queue) => ErrorAhead(queue')
    <3>1. SUFFICES ASSUME NEW k \in 1 .. Len(queue), queue[k][1] = "Ex10Result",
                          \A j \in 1 .. Len(queue) : j < k => queue[j][1] # Summary
                   PROVE  ErrorAhead(queue')
      BY DEF ErrorAhead
    <3>2. k \in 1 .. Len(queue') /\ \A j \in 1 .. Len(queue') : j < k => j \in 1 .. Len(queue)
      BY <1>0, <2>2
    <3>3. QED
      BY <2>2, <3>1, <3>2 DEF ErrorAhead
  <2>7. QED
    BY <2>5, <2>6
<1>3. ASSUME queue # <<>>, queue' = Tail(queue), Head(queue)[1] # "Ex10Result"
      PROVE  /\ HasError(queue') <=> HasError(queue)
             /\ ErrorAhead(queue) => ErrorAhead(queue') /\ Head(queue)[1] # Summary
  <2>1. /\ Head(queue) = queue[1] /\ Len(queue') = Len(queue) - 1 /\ Len(queue) >= 1
        /\ \A i \in 1 .. Len(queue) - 1 : queue'[i] = queue[i + 1]
    BY ONLY <1>0, <1>3, TailAt
  <2>2. \A i \in 1 .. Len(queue') : i + 1 \in 1 .. Len(queue) /\ queue'[i] = queue[i + 1]
    BY <1>0, <2>1
  <2>3. \A k \in 1 .. Len(queue) : queue[k][1] = "Ex10Result" =>
            k > 1 /\ k - 1 \in 1 .. Len(queue') /\ (k - 1) + 1 = k /\ queue'[k - 1][1] = "Ex10Result"
    <3>1. SUFFICES ASSUME NEW k \in 1 .. Len(queue), queue[k][1] = "Ex10Result"
                   PROVE  k > 1 /\ k - 1 \in 1 .. Len(queue') /\ (k - 1) + 1 = k /\ queue'[k - 1][1] = "Ex10Result"
      OBVIOUS
    <3>2. k # 1
      BY <1>3, <2>1, <3>1
    <3>3. k > 1 /\ k - 1 \in 1 .. Len(queue') /\ (k - 1) + 1 = k
      BY <1>0, <2>1, <3>2
    <3>4. QED
      BY <2>2, <3>1, <3>3
  <2>4. HasError(queue') <=> HasError(queue)
    BY <2>2, <2>3 DEF HasError
  <2>5. ErrorAhead(queue) => ErrorAhead(queue') /\ Head(queue)[1] # Summary
    <3>1. SUFFICES ASSUME NEW k \in 1 .. Len(queue), queue[k][1] = "Ex10Result",
                          \A j \in 1 .. Len(queue) : j < k => queue[j][1] # Summary
                   PROVE  ErrorAhead(queue') /\ Head(queue)[1] # Summary
      BY DEF ErrorAhead
    <3>2. k > 1 /\ k - 1 \in 1 .. Len(queue') /\ queue'[k - 1][1] = "Ex10Result"
      BY <2>3, <3>1
    <3>3. \A j \in 1 .. Len(queue') : j < k - 1 => j + 1 < k
      OBVIOUS
    <3>4. \A j \in 1 .. Len(queue') : j < k - 1 => queue'[j][1] # Summary
      BY <2>2, <3>1, <3>3
    <3>5. 1 \in 1 .. Len(queue)
      BY <1>0, <2>1
    <3>6. QED
      BY <2>1, <3>1, <3>2, <3>4, <3>5 DEF ErrorAhead
  <2>6. QED
    BY <2>4, <2>5
<1>4. QED
  BY <1>1, <1>2, <1>3

(* A run becomes sound by its begin only. *)
LEMMA SweepSound ==
    ASSUME SweepTypes, SweepFifo, SweepTurns, SweepStep, ~SweepBegins, Sound'
    PROVE  Sound
<1>0. ~HasError(queue') /\ Succeeds' /\ runs' > 0
  BY DEF Sound
<1>1. CASE SweepErrs
  BY <1>0, <1>1, SweepPushes, SweepConstants DEF SweepErrs
<1>2. CASE SweepChip \/ SweepStatus \/ SweepDecides \/ SweepGoesOn \/ SweepStarts
  <2>1. UNCHANGED <<queue, runs, ex10_result>>
    BY <1>2 DEF SweepChip, SweepStatus, SweepDecides, SweepGoesOn, SweepStarts, SweepQuiet
  <2>2. QED
    BY <1>0, <2>1 DEF Sound, Succeeds
<1>3. CASE SweepInserts
  <2>1. UNCHANGED <<runs, ex10_result>> /\ (PS!PushError \/ queue' = queue)
    BY <1>3 DEF SweepInserts
  <2>2. queue' = queue
    BY <1>0, <2>1, SweepPushes, SweepConstants
  <2>3. QED
    BY <1>0, <2>1, <2>2 DEF Sound, Succeeds
<1>4. CASE SweepStartFails \/ SweepReinit
  BY <1>0, <1>4 DEF SweepStartFails, SweepReinit, Succeeds
<1>5. CASE SweepReads
  <2>1. UNCHANGED <<runs, ex10_result>>
    BY <1>5 DEF SweepReads
  <2>2. QED
    BY <1>0, <1>5, <2>1, ErrorsKept DEF Sound, Succeeds
<1>6. CASE SweepPublishes
  <2>1. /\ runs' = runs /\ queue # <<>> /\ queue' = Tail(queue) /\ pc["app"] = "publish"
        /\ Head(queue)[1] # "Ex10Result"
    BY <1>0, <1>6 DEF SweepPublishes, Succeeds
  <2>2. Succeeds
    BY <2>1 DEF SweepTypes, SweepPlaces, Succeeds
  <2>3. QED
    BY <1>0, <2>1, <2>2, ErrorsKept DEF Sound
<1>7. QED
  BY <1>1, <1>2, <1>3, <1>4, <1>5, <1>6 DEF SweepStep

LEMMA SweepAheadStep ==
    ASSUME SweepTypes, SweepFifo, SweepTurns, SweepAhead, SweepSteady, SweepStep
    PROVE  SweepAhead'
<1> SUFFICES ASSUME HasError(queue'), Succeeds'
             PROVE  pc'["app"] = "publish" /\ ErrorAhead(queue')
  BY DEF SweepAhead
<1>1. ASSUME PS!PushError, UNCHANGED ex10_result, pc'["app"] = pc["app"],
             pc["irq"] \in Turning \/ pc["irq"] = "summary"
      PROVE  pc'["app"] = "publish" /\ ErrorAhead(queue')
  <2>1. Succeeds /\ pc["app"] # "start" /\ runs > 0
    BY <1>1 DEF Succeeds, SweepTurns, Turning, Summing, SweepTypes, SweepNumbers
  <2>2. \/ queue' = queue
        \/ queue' = Append(queue, <<"Ex10Result">>)
    BY <1>1, SweepPushes, SweepConstants
  <2>3. CASE HasError(queue)
    BY <1>1, <2>1, <2>2, <2>3, ErrorsKept DEF SweepAhead
  <2>4. CASE ~HasError(queue)
    <3>1. SteadyRun /\ SteadyPlace
      BY <2>1, <2>4 DEF Sound, SweepSteady
    <3>2. pc["app"] # "idle" /\ NoSummary
      BY <1>1, <3>1 DEF Going, SteadyRun, RunGoing, RunStops, SteadyPlace, PlaceNone
    <3>3. pc["app"] = "publish"
      BY <2>1, <3>2 DEF SweepTypes, SweepPlaces
    <3>4. queue' = Append(queue, <<"Ex10Result">>)
      BY <1>1, <2>4, SweepPushes, SweepConstants
    <3>5. QED
      BY <1>1, <3>2, <3>3, <3>4, ErrorsKept DEF NoSummary
  <2>5. QED
    BY <2>3, <2>4
<1>2. ASSUME UNCHANGED <<queue, ex10_result>>, pc["app"] = "publish" => pc'["app"] = "publish"
      PROVE  pc'["app"] = "publish" /\ ErrorAhead(queue')
  BY <1>2 DEF SweepAhead, Succeeds
<1>3. CASE SweepErrs
  <2>1. /\ PS!PushError /\ UNCHANGED ex10_result /\ pc'["app"] = pc["app"] /\ pc["irq"] \in Turning
    BY <1>3 DEF SweepErrs, SweepQuiet, Moves, Turning
  <2>2. QED
    BY <1>1, <2>1
<1>4. CASE SweepInserts
  <2>1. /\ ex10_result' = ex10_result /\ pc'["app"] = pc["app"]
        /\ queue' = queue \/ (PS!PushError /\ pc["irq"] = "summary")
    BY <1>4 DEF SweepInserts, Moves
  <2>2. QED
    BY <1>1, <1>2, <2>1
<1>5. CASE SweepChip \/ SweepStatus \/ SweepDecides \/ SweepGoesOn \/ SweepStarts
  <2>1. UNCHANGED <<queue, ex10_result>>
    BY <1>5 DEF SweepChip, SweepStatus, SweepDecides, SweepGoesOn, SweepStarts, SweepQuiet
  <2>2. pc["app"] = "publish" => pc'["app"] = "publish"
    BY <1>5 DEF SweepChip, SweepStatus, SweepDecides, SweepGoesOn, SweepStarts, Moves
  <2>3. QED
    BY <1>2, <2>1, <2>2
<1>6. CASE SweepStartFails \/ SweepReinit
  BY <1>6 DEF SweepStartFails, SweepReinit, Succeeds
<1>7. CASE SweepReads
  <2>1. ex10_result' = ex10_result /\ pc'["app"] = pc["app"]
    BY <1>7 DEF SweepReads, Moves
  <2>2. QED
    BY <1>7, <2>1, ErrorsKept DEF SweepAhead, Succeeds
<1>8. CASE SweepBegins
  <2>1. queue' = <<>>
    BY <1>8 DEF SweepBegins
  <2>2. Len(<<>>) = 0
    OBVIOUS
  <2>3. QED
    BY <2>1, <2>2 DEF HasError
<1>9. CASE SweepPublishes
  <2>1. /\ queue # <<>> /\ queue' = Tail(queue) /\ pc["app"] = "publish" /\ Head(queue)[1] # "Ex10Result"
        /\ Head(queue)[1] # Summary => pc'["app"] = "publish"
    BY <1>9 DEF SweepPublishes, Succeeds, Moves
  <2>2. Succeeds
    BY <2>1 DEF SweepTypes, SweepPlaces, Succeeds
  <2>3. QED
    BY <2>1, <2>2, ErrorsKept DEF SweepAhead
<1>10. QED
  BY <1>3, <1>4, <1>5, <1>6, <1>7, <1>8, <1>9 DEF SweepStep

SweepSame == SweepTypes /\ SweepFifo /\ SweepTurns /\ SweepStep /\ ~SweepBegins /\ Sound /\ Sound'

(* Of a sound run's steps, those that err do not leave it sound. *)
LEMMA SoundSteps ==
    ASSUME SweepSame, SteadyRun
    PROVE  /\ \/ SweepChip \/ SweepStatus \/ SweepDecides \/ SweepGoesOn \/ SweepStarts \/ SweepReads \/ SweepPublishes
              \/ SweepInserts /\ pc["irq"] = "summary" /\ event_fifo' = Append(event_fifo, Summary)
                    /\ summaries' = summaries + 1 /\ queue' = queue /\ Moves(pc["app"], "fifo")
           /\ SweepPublishes => Head(queue)[1] # "Ex10Result"
<1>0. ~HasError(queue') /\ Succeeds'
  BY DEF Sound, SweepSame
<1>1. ~SweepErrs
  BY <1>0, SweepPushes, SweepConstants DEF SweepErrs, SweepSame
<1>2. ~SweepStartFails /\ ~SweepReinit
  BY <1>0 DEF SweepStartFails, SweepReinit, Succeeds
<1>3. SweepPublishes => Head(queue)[1] # "Ex10Result"
  BY <1>0 DEF SweepPublishes, Succeeds
<1>4. CASE SweepInserts
  <2>1. pc["irq"] = "summary"
    BY <1>4 DEF SweepInserts, Summing, SteadyRun, RunStops
  <2>2. ~PS!PushError
    BY <1>0, SweepPushes, SweepConstants DEF SweepSame
  <2>3. Moves(pc["app"], "fifo")
    BY <1>4, <2>1 DEF SweepInserts, Moves
  <2>4. event_fifo' = Append(event_fifo, Summary) /\ summaries' = summaries + 1 /\ queue' = queue
    BY <1>4, <2>1, <2>2 DEF SweepInserts
  <2>5. QED
    BY <1>3, <1>4, <2>1, <2>3, <2>4
<1>5. QED
  BY <1>1, <1>2, <1>3, <1>4 DEF SweepSame, SweepStep

LEMMA GoingSteps ==
    ASSUME SweepSame, SteadyRun
    PROVE  /\ SweepDecides \/ SweepGoesOn \/ SweepStarts \/ SweepRoundEnds \/ SweepReadsTag =>
                Going /\ pc["irq"] # "summary"
           /\ SweepInserts => ~Going /\ ~Going'
           /\ SweepChip \/ SweepStatus \/ SweepReads \/ SweepGoesOn \/ SweepStarts \/ SweepPublishes =>
                (Going' <=> Going) /\ (pc'["irq"] # "summary" \/ pc'["irq"] = pc["irq"])
<1>0. /\ op => ~round_done /\ pc["irq"] \notin Turning \cup Summing
      /\ pc["irq"] \in Turning \cup Summing => ~op /\ ~round_done /\ pc["app"] # "start"
      /\ pc["app"] = "start" => ~op /\ ~round_done /\ pc["irq"] = "idle" /\ ~irq_pending
      /\ round_done \in BOOLEAN
  BY DEF SweepTurns, SweepSame, SweepTypes, SweepPlaces
<1>1. SweepDecides \/ SweepGoesOn \/ SweepStarts => Going /\ pc["irq"] # "summary"
  BY DEF SweepDecides, SweepGoesOn, SweepStarts, Going, Turning
<1>2. SweepRoundEnds \/ SweepReadsTag => Going /\ pc["irq"] # "summary"
  BY <1>0 DEF SweepRoundEnds, SweepReadsTag, Going, Summing
<1>3. SweepInserts => ~Going /\ ~Going'
  <2>1. HAVE SweepInserts
  <2>2. pc["irq"] \in Summing /\ UNCHANGED <<op, round_done>> /\ pc'["app"] = pc["app"] /\ pc'["irq"] = "fifo"
    BY <2>1, SoundSteps DEF SweepInserts, Moves, SweepChip, SweepStatus, SweepDecides, SweepGoesOn, SweepStarts,
       SweepReads, SweepPublishes, Summing, SteadyRun, RunStops
  <2>3. QED
    BY <1>0, <2>2 DEF Going, Turning, Summing
<1>4. CASE SweepChip
  <2>1. pc' = pc
    BY <1>4 DEF SweepChip
  <2>2. (op \/ round_done) <=> (op' \/ round_done')
    BY <1>0, <1>4 DEF SweepChip, SweepRoundEnds, SweepDark, SweepReadsTag
  <2>3. QED
    BY <1>1, <1>2, <1>3, <2>1, <2>2 DEF Going
<1>5. CASE SweepStatus
  <2>1. /\ pc["irq"] = "idle" /\ round_done' = FALSE /\ op' = op /\ pc'["app"] = pc["app"]
        /\ (round_done /\ pc'["irq"] = "round") \/ (~round_done /\ pc'["irq"] = "fifo")
    BY <1>5 DEF SweepStatus, Moves
  <2>2. QED
    BY <1>1, <1>2, <1>3, <2>1 DEF Going, Turning
<1>6. CASE SweepReads
  <2>1. /\ pc["irq"] = "fifo" /\ pc'["irq"] = "idle" /\ UNCHANGED <<op, round_done>> /\ pc'["app"] = pc["app"]
    BY <1>6 DEF SweepReads, Moves
  <2>2. QED
    BY <1>1, <1>2, <1>3, <2>1 DEF Going, Turning
<1>7. CASE SweepGoesOn
  <2>1. pc["irq"] \in Turning /\ pc'["irq"] \in Turning
    BY <1>7 DEF SweepGoesOn, Moves, Turning
  <2>2. QED
    BY <1>1, <1>2, <1>3, <2>1 DEF Going, Turning
<1>8. CASE SweepStarts
  <2>1. op' /\ pc'["irq"] # "summary"
    BY <1>8 DEF SweepStarts, Moves
  <2>2. QED
    BY <1>1, <1>2, <1>3, <1>8, <2>1 DEF Going
<1>9. CASE SweepPublishes
  <2>1. /\ pc["app"] = "publish" /\ pc'["irq"] = pc["irq"] /\ UNCHANGED <<op, round_done>>
        /\ pc'["app"] # "start"
    BY <1>9 DEF SweepPublishes, Moves
  <2>2. QED
    BY <1>1, <1>2, <1>3, <2>1 DEF Going
<1>10. QED
  BY <1>1, <1>2, <1>3, <1>4, <1>5, <1>6, <1>7, <1>8, <1>9

LEMMA SteadyPlaceStep ==
    ASSUME SweepSame, SteadyRun, SteadyPlace
    PROVE  SteadyPlace'
<1>0. /\ event_fifo \in Seq(SweepEvents) /\ queue \in Seq(SweepPackets) /\ tag_count \in Nat /\ num_bytes \in Nat
      /\ Len(event_fifo) \in Nat /\ Len(queue) \in Nat
  BY DEF SweepSame, SweepTypes, SweepLists, SweepNumbers
<1>p. PlaceNone /\ PlaceFifo /\ PlaceQueue
  BY DEF SteadyPlace
<1>n. NoSummary' => SteadyPlace'
  BY DEF NoSummary, NoneIn, SteadyPlace, PlaceNone, PlaceFifo, PlaceQueue
<1>u. ASSUME UNCHANGED <<event_fifo, queue, tag_count>>,
             Going \/ pc["irq"] = "summary" \/ ((Going' => Going) /\ pc'["irq"] # "summary") \/ ((Going' => Going) /\ pc'["irq"] = pc["irq"])
      PROVE  SteadyPlace'
  <2>1. CASE Going \/ pc["irq"] = "summary"
    <3>1. NoSummary
      BY <1>p, <2>1 DEF PlaceNone
    <3>2. NoSummary'
      BY <1>u, <3>1 DEF NoSummary, NoneIn
    <3>3. QED
      BY <1>n, <3>2
  <2>2. CASE ~Going /\ pc["irq"] # "summary"
    <3>1. PlaceNone'
      BY <1>u, <2>2 DEF PlaceNone
    <3>2. PlaceFifo' /\ PlaceQueue'
      BY <1>u, <1>p DEF PlaceFifo, PlaceQueue
    <3>3. QED
      BY <3>1, <3>2 DEF SteadyPlace
  <2>3. QED
    BY <2>1, <2>2
<1>1. CASE SweepChip
  <2>0. UNCHANGED <<queue, tag_count, pc>> /\ (Going' <=> Going)
    BY <1>1, GoingSteps DEF SweepChip
  <2>1. CASE SweepDark
    BY <1>u, <2>0, <2>1 DEF SweepDark
  <2>2. ASSUME NEW e \in SweepEvents, e # Summary, event_fifo' = Append(event_fifo, e), Going
        PROVE  SteadyPlace'
    <3>1. NoSummary
      BY <1>p, <2>2 DEF PlaceNone
    <3>2. /\ Len(event_fifo') = Len(event_fifo) + 1 /\ event_fifo'[Len(event_fifo) + 1] = e
          /\ \A i \in 1 .. Len(event_fifo) : event_fifo'[i] = event_fifo[i]
      BY ONLY <1>0, <2>2, AppendAt
    <3>3. \A i \in 1 .. Len(event_fifo') : i \in 1 .. Len(event_fifo) \/ i = Len(event_fifo) + 1
      BY <1>0, <3>2
    <3>4. \A i \in 1 .. Len(event_fifo') : event_fifo'[i] # Summary
      BY <2>2, <3>1, <3>2, <3>3 DEF NoSummary
    <3>5. NoneIn(queue')
      BY <2>0, <3>1 DEF NoSummary, NoneIn
    <3>6. QED
      BY <1>n, <3>4, <3>5 DEF NoSummary
  <2>3. "InventoryRoundSummary" \in SweepEvents \ {Summary} /\ "TagRead" \in SweepEvents \ {Summary}
    BY DEF SweepEvents, Summary
  <2>4. CASE SweepRoundEnds
    BY <2>2, <2>3, <2>4, GoingSteps DEF SweepRoundEnds
  <2>5. CASE SweepReadsTag
    BY <2>2, <2>3, <2>5, GoingSteps DEF SweepReadsTag
  <2>6. QED
    BY <1>1, <2>1, <2>4, <2>5 DEF SweepChip
<1>2. CASE SweepStatus
  <2>1. UNCHANGED <<event_fifo, queue, tag_count>>
    BY <1>2 DEF SweepStatus
  <2>2. pc["irq"] = "idle" /\ (pc'["irq"] # "summary" \/ pc'["irq"] = pc["irq"]) /\ (Going' => Going)
    BY <1>2, GoingSteps DEF SweepStatus
  <2>3. QED
    BY <1>u, <2>1, <2>2
<1>3. CASE SweepDecides \/ SweepGoesOn \/ SweepStarts
  <2>1. UNCHANGED <<event_fifo, queue, tag_count>>
    BY <1>3 DEF SweepDecides, SweepGoesOn, SweepStarts, SweepQuiet
  <2>2. Going
    BY <1>3, GoingSteps
  <2>3. QED
    BY <1>u, <2>1, <2>2
<1>4. CASE SweepReads
  <2>1. SweepMoved /\ num_bytes <= Len(event_fifo)
    BY <1>4, SweepMoves DEF SweepReads, SweepFifo, SweepSame
  <2>2. /\ event_fifo' \in Seq(SweepEvents) /\ Len(event_fifo') = Len(event_fifo) - num_bytes
        /\ Len(queue') = Len(queue) + num_bytes /\ tag_count' = tag_count + TagsIn(num_bytes)
    BY <2>1 DEF SweepMoved
  <2>3. \A i \in 1 .. Len(event_fifo') : num_bytes + i \in 1 .. Len(event_fifo) /\ event_fifo'[i] = event_fifo[num_bytes + i]
    BY <1>0, <2>1, <2>2 DEF SweepMoved
  <2>4. ASSUME NEW i \in 1 .. Len(queue')
        PROVE  \/ i \in 1 .. Len(queue) /\ queue'[i] = queue[i]
               \/ /\ i - Len(queue) \in 1 .. num_bytes /\ i - Len(queue) \in 1 .. Len(event_fifo)
                  /\ queue'[i][1] = event_fifo[i - Len(queue)]
                  /\ event_fifo[i - Len(queue)] = Summary => queue'[i][2] = tag_count + TagsIn(i - Len(queue))
    <3>1. CASE i \in 1 .. Len(queue)
      BY <2>1, <3>1 DEF SweepMoved
    <3>2. CASE i \notin 1 .. Len(queue)
      <4>1. i - Len(queue) \in 1 .. num_bytes /\ Len(queue) + (i - Len(queue)) = i
        BY <1>0, <2>2, <3>2
      <4>2. i - Len(queue) \in 1 .. Len(event_fifo)
        BY <1>0, <2>1, <4>1
      <4>3. QED
        BY <2>1, <4>1, <4>2 DEF SweepMoved
    <3>3. QED
      BY <3>1, <3>2
  <2>5. NoSummary => NoSummary'
    BY <2>3, <2>4 DEF NoSummary, NoneIn
  <2>6. PlaceNone'
    <3>1. pc["irq"] = "fifo" /\ pc'["irq"] = "idle" /\ (Going' => Going)
      BY <1>4, GoingSteps DEF SweepReads, Moves
    <3>2. QED
      BY <1>p, <2>5, <3>1 DEF PlaceNone
  <2>7. PlaceFifo'
    <3>1. ASSUME NEW i \in 1 .. Len(event_fifo'), event_fifo'[i] = Summary
          PROVE  i = Len(event_fifo')
      <4>1. num_bytes + i = Len(event_fifo)
        BY <1>p, <2>3, <3>1 DEF PlaceFifo
      <4>2. QED
        BY <1>0, <2>2, <4>1
    <3>2. QED
      BY <3>1 DEF PlaceFifo
  <2>8. PlaceQueue'
    <3>1. ASSUME NEW i \in 1 .. Len(queue'), queue'[i][1] = Summary
          PROVE  i = Len(queue') /\ queue'[i][2] = tag_count' /\ event_fifo' = <<>>
      <4>1. CASE i \in 1 .. Len(queue) /\ queue'[i] = queue[i]
        <5>1. i = Len(queue) /\ queue[i][2] = tag_count /\ event_fifo = <<>>
          BY <1>p, <3>1, <4>1 DEF PlaceQueue
        <5>2. Len(event_fifo) = 0
          BY <5>1
        <5>3. num_bytes = 0 /\ Len(event_fifo') = 0 /\ Len(queue') = Len(queue)
          BY <1>0, <2>1, <2>2, <5>2
        <5>4. TagsIn(0) = 0
          <6>1. {j \in 1 .. 0 : event_fifo[j] = "TagRead"} = {}
            OBVIOUS
          <6>2. QED
            BY <6>1, FS_EmptySet DEF TagsIn
        <5>5. tag_count' = tag_count
          BY <1>0, <2>2, <5>3, <5>4
        <5>6. event_fifo' = <<>>
          BY <2>2, <5>3, EmptySeq
        <5>7. QED
          BY <4>1, <5>1, <5>3, <5>5, <5>6
      <4>2. CASE /\ i - Len(queue) \in 1 .. num_bytes /\ i - Len(queue) \in 1 .. Len(event_fifo)
                 /\ queue'[i][1] = event_fifo[i - Len(queue)]
                 /\ event_fifo[i - Len(queue)] = Summary => queue'[i][2] = tag_count + TagsIn(i - Len(queue))
        <5>1. i - Len(queue) = Len(event_fifo)
          BY <1>p, <3>1, <4>2 DEF PlaceFifo
        <5>2. num_bytes = Len(event_fifo) /\ i - Len(queue) = num_bytes
          BY <1>0, <2>1, <4>2, <5>1
        <5>3. Len(event_fifo') = 0 /\ i = Len(queue')
          BY <1>0, <2>2, <5>2
        <5>4. event_fifo' = <<>>
          BY <2>2, <5>3, EmptySeq
        <5>5. queue'[i][2] = tag_count'
          BY <2>2, <3>1, <4>2, <5>2
        <5>6. QED
          BY <5>3, <5>4, <5>5
      <4>3. QED
        BY <2>4, <4>1, <4>2
    <3>2. QED
      BY <3>1 DEF PlaceQueue
  <2>9. QED
    BY <2>6, <2>7, <2>8 DEF SteadyPlace
<1>5. CASE SweepPublishes
  <2>1. queue # <<>> /\ queue' = Tail(queue) /\ UNCHANGED <<event_fifo, tag_count>> /\ pc'["irq"] = pc["irq"]
    BY <1>5 DEF SweepPublishes, Moves
  <2>2. /\ Len(queue') = Len(queue) - 1 /\ Len(queue) >= 1
        /\ \A i \in 1 .. Len(queue) - 1 : queue'[i] = queue[i + 1]
    BY ONLY <1>0, <2>1, TailAt
  <2>3. \A i \in 1 .. Len(queue') : i + 1 \in 1 .. Len(queue) /\ queue'[i] = queue[i + 1] /\ (i + 1 = Len(queue) => i = Len(queue'))
    BY <1>0, <2>2
  <2>4. NoSummary => NoSummary'
    BY <2>1, <2>3 DEF NoSummary, NoneIn
  <2>5. PlaceNone'
    <3>1. Going' => Going
      BY <1>5, GoingSteps
    <3>2. QED
      BY <1>p, <2>1, <2>4, <3>1 DEF PlaceNone
  <2>6. PlaceFifo'
    BY <1>p, <2>1 DEF PlaceFifo
  <2>7. PlaceQueue'
    BY <1>p, <2>1, <2>3 DEF PlaceQueue
  <2>8. QED
    BY <2>5, <2>6, <2>7 DEF SteadyPlace
<1>6. CASE SweepInserts /\ pc["irq"] = "summary" /\ event_fifo' = Append(event_fifo, Summary)
           /\ queue' = queue /\ Moves(pc["app"], "fifo")
  <2>1. NoSummary
    BY <1>p, <1>6 DEF PlaceNone
  <2>2. PlaceNone'
    BY <1>6, GoingSteps DEF PlaceNone, Moves
  <2>3. Summary \in SweepEvents
    BY DEF SweepEvents, Summary
  <2>4. /\ Len(event_fifo') = Len(event_fifo) + 1
        /\ \A i \in 1 .. Len(event_fifo) : event_fifo'[i] = event_fifo[i]
    BY ONLY <1>0, <1>6, <2>3, AppendAt
  <2>5. \A i \in 1 .. Len(event_fifo') : i \in 1 .. Len(event_fifo) \/ i = Len(event_fifo')
    BY <1>0, <2>4
  <2>6. PlaceFifo'
    BY <2>1, <2>4, <2>5 DEF PlaceFifo, NoSummary
  <2>7. PlaceQueue'
    BY <1>6, <2>1 DEF PlaceQueue, NoSummary, NoneIn
  <2>8. QED
    BY <2>2, <2>6, <2>7 DEF SteadyPlace
<1>7. QED
  BY <1>1, <1>2, <1>3, <1>4, <1>5, <1>6, SoundSteps

LEMMA SteadyRunStep ==
    ASSUME SweepSame, SteadyRun, SteadyPlace
    PROVE  SteadyRun'
<1>0. /\ swept \in Seq(Nat) /\ Len(swept) \in Nat /\ cw \in Nat /\ round_count \in Nat /\ summaries \in Nat
      /\ pc["app"] \in {"idle", "start", "publish"} /\ sweep_conditions \in SweepConditions
  BY DEF SweepSame, SweepTypes, SweepLists, SweepNumbers, SweepLevel, SweepPlaces, Sound
<1>t. /\ op => ~round_done /\ pc["irq"] \notin Turning \cup Summing
      /\ pc["irq"] \in Turning \cup Summing => ~op /\ ~round_done /\ pc["app"] # "start"
      /\ pc["app"] = "start" => ~op /\ ~round_done /\ pc["irq"] = "idle" /\ ~irq_pending
  BY DEF SweepTurns, SweepSame
<1>m. sweep_conditions.rounds \in Nat
  BY <1>0, SweepConstants
<1>r. RunGoing /\ RunOver /\ RunStops
  BY DEF SteadyRun
<1>g. ASSUME UNCHANGED <<summaries, stop_reason, round_count, sweep_conditions, swept>>,
             Going, Going', pc["app"] # "idle" => pc'["app"] # "idle", Past' <=> Past,
             pc'["irq"] \notin {"summary", "error_summary"}
      PROVE  SteadyRun'
  <2>1. /\ summaries' = 0 /\ stop_reason' = "None" /\ pc'["app"] # "idle" /\ ~Reached(round_count)'
        /\ Len(swept) = round_count + Count(Past)
    BY <1>r, <1>g DEF RunGoing, Reached
  <2>2. Count(Past') = Count(Past)
    BY <1>g DEF Count
  <2>3. Len(swept') = round_count' + Count(Past')
    BY <1>g, <2>1, <2>2
  <2>4. QED
    BY <1>g, <2>1, <2>3 DEF RunGoing, RunOver, RunStops, SteadyRun
<1>o. ASSUME UNCHANGED <<summaries, stop_reason, swept, sweep_conditions>>, state' # "Ongoing" \/ state' = state,
             ~Going, ~Going', pc'["irq"] # "error_summary",
             pc'["irq"] = "summary" <=> pc["irq"] = "summary",
             pc'["irq"] = "summary" => pc'["app"] = "publish"
      PROVE  SteadyRun'
  BY <1>r, <1>o DEF RunGoing, RunOver, RunStops, SteadyRun
<1>s. pc["irq"] = "summary" => pc["app"] = "publish"
  BY <1>r DEF RunStops
<1>e. pc["irq"] # "error_summary"
  BY <1>r DEF RunStops
<1>1. CASE SweepChip
  <2>0. UNCHANGED <<pc, summaries, stop_reason, round_count, sweep_conditions, state>> /\ (Going' <=> Going)
    BY <1>1, GoingSteps DEF SweepChip
  <2>1. CASE SweepDark \/ SweepReadsTag
    <3>1. UNCHANGED <<done_reason, round_done, swept>>
      BY <2>1 DEF SweepDark, SweepReadsTag
    <3>2. Past' <=> Past
      BY <2>0, <3>1 DEF Past, SweepRound
    <3>3. CASE Going
      <4>1. pc["irq"] # "summary"
        BY <1>t, <3>3 DEF Going, Turning, Summing
      <4>2. QED
        BY <1>g, <1>e, <2>0, <3>1, <3>2, <3>3, <4>1
    <3>4. CASE ~Going
      BY <1>o, <1>s, <1>e, <2>0, <3>1, <3>4
    <3>5. QED
      BY <3>3, <3>4
  <2>2. CASE SweepRoundEnds
    <3>1. /\ Going /\ Going' /\ pc["irq"] # "summary" /\ op
      BY <2>0, <2>2, GoingSteps DEF SweepRoundEnds
    <3>2. ~Past
      BY <1>t, <3>1 DEF Past, SweepRound, Turning
    <3>3. Len(swept') = round_count + Count(Past')
      <4>1. Len(swept) = round_count
        <5>1. Len(swept) = round_count + 0
          BY <1>r, <3>1, <3>2 DEF RunGoing, Count
        <5>2. QED
          BY ONLY <1>0, <5>1
      <4>2. CASE done_reason' = "Done" /\ swept' = Append(swept, cw)
        <5>1. Past'
          BY <2>2, <4>2 DEF SweepRoundEnds, Past, SweepRound
        <5>2. Len(swept') = Len(swept) + 1
          BY ONLY <1>0, <4>2, AppendAt
        <5>3. QED
          BY <4>1, <5>1, <5>2 DEF Count
      <4>3. CASE done_reason' # "Done" /\ swept' = swept
        <5>1. ~Past'
          BY <4>3 DEF Past
        <5>2. round_count + 0 = round_count
          BY <1>0
        <5>3. QED
          BY <4>1, <4>3, <5>1, <5>2 DEF Count
      <4>4. QED
        BY <2>2, <4>2, <4>3 DEF SweepRoundEnds
    <3>4. RunGoing'
      BY <1>r, <2>0, <3>1, <3>3 DEF RunGoing, Reached
    <3>5. QED
      BY <1>r, <2>0, <3>1, <3>4 DEF SteadyRun, RunOver, RunStops
  <2>3. QED
    BY <1>1, <2>1, <2>2 DEF SweepChip
<1>2. CASE SweepStatus \/ SweepReads
  <2>1. /\ UNCHANGED <<done_reason, swept, summaries, stop_reason, round_count, sweep_conditions, state>>
        /\ Going' <=> Going
    BY <1>2, GoingSteps DEF SweepStatus, SweepReads
  <2>2. /\ pc["irq"] \in {"idle", "fifo"} /\ pc'["irq"] \in {"round", "fifo", "idle"} /\ pc'["app"] = pc["app"]
        /\ SweepRound' <=> SweepRound
    BY <1>2 DEF SweepStatus, SweepReads, Moves, SweepRound
  <2>3. Past' <=> Past
    BY <2>1, <2>2 DEF Past
  <2>4. QED
    BY <1>g, <1>o, <2>1, <2>2, <2>3
<1>3. CASE SweepDecides
  <2>0. /\ UNCHANGED <<op, done_reason, round_done, swept, summaries, sweep_conditions>>
        /\ pc["irq"] \in {"round", "overshoot"} /\ ~op /\ ~round_done /\ pc["app"] # "start" /\ Going
    BY <1>3, <1>t, GoingSteps DEF SweepDecides, SweepQuiet, Turning
  <2>1. /\ summaries = 0 /\ stop_reason = "None" /\ pc["app"] = "publish" /\ ~Reached(round_count)
        /\ Len(swept) = round_count + Count(Past)
    BY <1>0, <1>r, <2>0 DEF RunGoing
  <2>2. Past <=> Completes
    BY <2>0 DEF Past, SweepRound, Completes
  <2>3. Len(swept) = round_count' /\ round_count' \in Nat
    <3>1. round_count' = IF Past THEN round_count + 1 ELSE round_count
      BY <1>3, <2>2 DEF SweepDecides
    <3>2. round_count + 0 = round_count /\ round_count + 1 \in Nat
      BY <1>0
    <3>3. QED
      BY <1>0, <2>1, <3>1, <3>2 DEF Count
  <2>4. /\ stop_reason' = "MaxNumberOfRounds" => Reached(round_count')
        /\ stop_reason' = "None" => ~Reached(round_count')
    BY <1>3, <2>1 DEF SweepDecides
  <2>5. CASE stop_reason' # "None" /\ state' = "Idle" /\ Moves(pc["app"], "summary")
    <3>1. ~Going'
      BY <2>0, <2>5 DEF Going, Moves, Turning
    <3>2. stop_reason' = "MaxNumberOfRounds" => Len(swept) = sweep_conditions.rounds
      <4>1. HAVE stop_reason' = "MaxNumberOfRounds"
      <4>2. sweep_conditions.rounds > 0 /\ round_count' >= sweep_conditions.rounds
        BY <2>4, <4>1 DEF Reached
      <4>3. ~(round_count >= sweep_conditions.rounds)
        BY <2>1, <4>2 DEF Reached
      <4>4. round_count' = round_count + 1 \/ round_count' = round_count
        BY <1>3 DEF SweepDecides
      <4>5. round_count' = sweep_conditions.rounds
        BY ONLY <1>0, <1>m, <4>2, <4>3, <4>4
      <4>6. QED
        BY <2>3, <4>5
    <3>3. RunOver'
      BY <2>0, <2>1, <2>5, <3>2 DEF RunOver, Moves, Count
    <3>4. RunGoing' /\ RunStops'
      BY <2>1, <2>5, <3>1 DEF RunGoing, RunStops, Moves
    <3>5. QED
      BY <3>3, <3>4 DEF SteadyRun
  <2>6. CASE stop_reason' = "None" /\ (Moves(pc["app"], "get_cw_is_on") \/ Moves(pc["app"], "continue"))
    <3>1. Going' /\ ~Past' /\ pc'["app"] = "publish" /\ pc'["irq"] \in {"get_cw_is_on", "continue"}
      BY <2>0, <2>1, <2>6 DEF Going, Moves, Turning, Past, SweepRound
    <3>2. Len(swept') = round_count' + Count(Past')
      <4> DEFINE n == round_count'
      <4>1. n + 0 = n
        <5>1. n \in Nat
          BY <2>3
        <5> HIDE DEF n
        <5>2. QED
          BY ONLY <5>1
      <4>2. Count(Past') = 0 /\ swept' = swept
        BY <2>0, <3>1 DEF Count
      <4>3. QED
        BY ONLY <2>3, <4>1, <4>2
    <3>3. ~Reached(round_count)'
      BY <2>0, <2>4, <2>6 DEF Reached
    <3>4. RunGoing'
      BY <2>0, <2>1, <2>6, <3>1, <3>2, <3>3 DEF RunGoing
    <3>5. QED
      BY <3>1, <3>4 DEF SteadyRun, RunOver, RunStops
  <2>7. QED
    BY <1>3, <2>5, <2>6 DEF SweepDecides
<1>4. CASE SweepGoesOn
  <2>1. /\ UNCHANGED <<op, done_reason, round_done, swept, summaries, stop_reason, round_count, sweep_conditions>>
        /\ pc'["app"] = pc["app"] /\ pc'["irq"] \in Turning \ {"round"}
        /\ pc["irq"] \in Turning /\ (pc["irq"] = "round" => done_reason # "Done")
    BY <1>4 DEF SweepGoesOn, SweepQuiet, Moves, Turning
  <2>2. ~Past /\ ~Past' /\ Going /\ Going'
    BY <1>t, <2>1 DEF Past, SweepRound, Going
  <2>3. QED
    BY <1>g, <2>1, <2>2 DEF Turning
<1>5. CASE SweepStarts
  <2>1. /\ UNCHANGED <<round_done, swept, summaries, stop_reason, round_count, sweep_conditions>>
        /\ Going /\ Going' /\ ~round_done
        /\ pc["irq"] # "round" /\ pc'["irq"] \in {"idle", "fifo"}
        /\ pc["app"] # "idle" => pc'["app"] # "idle"
    BY <1>5, <1>t, GoingSteps DEF SweepStarts, Moves, Turning
  <2>2. ~Past /\ ~Past'
    BY <2>1 DEF Past, SweepRound
  <2>3. QED
    BY <1>g, <2>1, <2>2
<1>6. CASE SweepPublishes
  <2>1. /\ UNCHANGED <<done_reason, round_done, swept, summaries, stop_reason, round_count, sweep_conditions>>
        /\ pc'["irq"] = pc["irq"] /\ pc["app"] = "publish" /\ queue # <<>>
        /\ pc'["app"] = "publish" \/ (pc'["app"] = "idle" /\ Head(queue)[1] = Summary)
    BY <1>6, SoundSteps DEF SweepPublishes, Moves
  <2>2. (Going' <=> Going) /\ (Past' <=> Past)
    BY <1>6, <2>1, GoingSteps DEF Past, SweepRound
  <2>3. state' # "Ongoing" \/ state' = state
    BY <1>6, SoundSteps DEF SweepPublishes
  <2>4. Head(queue)[1] = Summary => ~NoSummary
    <3>1. queue \in Seq(SweepPackets)
      BY DEF SweepSame, SweepTypes, SweepLists
    <3>2. Head(queue) = queue[1] /\ Len(queue) >= 1 /\ Len(queue) \in Nat
      BY <2>1, <3>1
    <3>3. 1 \in 1 .. Len(queue)
      BY <3>2
    <3>4. QED
      BY <3>2, <3>3 DEF NoSummary, NoneIn
  <2>5. Going \/ pc["irq"] = "summary" => pc'["app"] = "publish"
    BY <2>1, <2>4 DEF SteadyPlace, PlaceNone
  <2>6. CASE Going
    <3>1. pc["irq"] # "summary"
      BY <1>t, <2>6 DEF Going, Turning, Summing
    <3>2. QED
      BY <1>g, <1>e, <2>1, <2>2, <2>5, <2>6, <3>1
  <2>7. CASE ~Going
    BY <1>o, <1>e, <2>1, <2>2, <2>3, <2>5, <2>7
  <2>8. QED
    BY <2>6, <2>7
<1>7. CASE SweepInserts /\ pc["irq"] = "summary" /\ summaries' = summaries + 1 /\ Moves(pc["app"], "fifo")
  <2>1. ~Going /\ ~Going'
    BY <1>7, GoingSteps
  <2>2. UNCHANGED <<state, stop_reason, swept, sweep_conditions>>
    BY <1>7 DEF SweepInserts
  <2>3. pc'["irq"] = "fifo" /\ summaries = 0
    BY <1>7, <1>r, <2>1 DEF Moves, RunOver, Count
  <2>4. summaries' = 1
    BY <1>7, <2>3
  <2>5. RunOver'
    BY <1>r, <2>1, <2>2, <2>3, <2>4 DEF RunOver, Count
  <2>6. QED
    BY <2>1, <2>3, <2>5 DEF SteadyRun, RunGoing, RunStops
<1>8. QED
  BY <1>1, <1>2, <1>3, <1>4, <1>5, <1>6, <1>7, SoundSteps

LEMMA SteadyTallyStep ==
    ASSUME SweepSame, SteadyRun, SteadyPlace, SteadyTally
    PROVE  SteadyTally'
<1>0. /\ event_fifo \in Seq(SweepEvents) /\ queue \in Seq(SweepPackets) /\ tag_count \in Nat /\ num_bytes \in Nat
      /\ Len(event_fifo) \in Nat /\ Len(queue) \in Nat /\ published \in Nat /\ tags \in Nat
      /\ TagEvents(event_fifo) \in Nat /\ TagPackets(queue) \in Nat
  BY TagAppended DEF SweepSame, SweepTypes, SweepLists, SweepNumbers
<1>g. Going => pc["app"] # "idle"
  BY DEF SteadyRun, RunGoing
<1>u. ASSUME UNCHANGED <<tags, tag_count, event_fifo, published, queue, told>>,
             pc'["app"] = "idle" <=> pc["app"] = "idle"
      PROVE  SteadyTally'
  BY <1>u DEF SteadyTally, TagEvents, TagPackets
<1>a. ASSUME NEW e \in SweepEvents, event_fifo' = Append(event_fifo, e), pc["app"] # "idle",
             UNCHANGED <<tag_count, published, queue>>, tags' = tags + Count(e = "TagRead"),
             pc'["app"] = pc["app"]
      PROVE  SteadyTally'
  <2>1. TagEvents(event_fifo') = TagEvents(event_fifo) + Count(e = "TagRead")
    BY <1>0, <1>a, TagAppended
  <2>2. Count(e = "TagRead") \in Nat
    BY DEF Count
  <2>3. tags' = tag_count' + TagEvents(event_fifo')
    <3>1. tags = tag_count + TagEvents(event_fifo)
      BY DEF SteadyTally
    <3> DEFINE c == Count(e = "TagRead")
    <3>2. tags' = tags + c /\ tag_count' = tag_count /\ c \in Nat
      BY <1>a, <2>2
    <3>3. TagEvents(event_fifo') = TagEvents(event_fifo) + c
      BY <2>1
    <3> HIDE DEF c
    <3>4. QED
      BY ONLY <1>0, <3>1, <3>2, <3>3
  <2>4. TagPackets(queue') = TagPackets(queue)
    BY <1>a
  <2>5. QED
    BY <1>a, <2>3, <2>4 DEF SteadyTally
<1>1. CASE SweepChip
  <2>0. UNCHANGED <<queue, tag_count, pc, published, told>>
    BY <1>1 DEF SweepChip
  <2>1. CASE SweepDark
    BY <1>u, <2>0, <2>1 DEF SweepDark
  <2>2. CASE SweepRoundEnds
    <3>1. pc["app"] # "idle" /\ event_fifo' = Append(event_fifo, "InventoryRoundSummary") /\ tags' = tags
      BY <1>g, <2>2, GoingSteps DEF SweepRoundEnds
    <3>2. "InventoryRoundSummary" \in SweepEvents /\ Count("InventoryRoundSummary" = "TagRead") = 0
      BY DEF SweepEvents, Count
    <3>3. tags' = tags + 0
      BY <1>0, <3>1
    <3>4. QED
      BY <1>a, <2>0, <3>1, <3>2, <3>3
  <2>3. CASE SweepReadsTag
    <3>1. pc["app"] # "idle" /\ event_fifo' = Append(event_fifo, "TagRead") /\ tags' = tags + 1
      BY <1>g, <2>3, GoingSteps DEF SweepReadsTag
    <3>2. "TagRead" \in SweepEvents /\ Count("TagRead" = "TagRead") = 1
      BY DEF SweepEvents, Count
    <3>3. QED
      BY <1>a, <2>0, <3>1, <3>2
  <2>4. QED
    BY <1>1, <2>1, <2>2, <2>3 DEF SweepChip
<1>2. CASE SweepStatus \/ SweepDecides \/ SweepGoesOn
  <2>1. UNCHANGED <<tags, tag_count, event_fifo, published, queue, told>>
    BY <1>2 DEF SweepStatus, SweepDecides, SweepGoesOn, SweepQuiet
  <2>2. pc'["app"] = pc["app"]
    BY <1>2 DEF SweepStatus, SweepDecides, SweepGoesOn, Moves
  <2>3. QED
    BY <1>u, <2>1, <2>2
<1>3. CASE SweepStarts
  <2>1. UNCHANGED <<tags, tag_count, event_fifo, published, queue, told>>
    BY <1>3 DEF SweepStarts
  <2>2. pc["app"] # "idle" /\ pc'["app"] # "idle"
    BY <1>3, <1>g, GoingSteps DEF SweepStarts, Moves
  <2>3. QED
    BY <1>u, <2>1, <2>2
<1>4. CASE SweepReads
  <2>1. SweepMoved /\ num_bytes <= Len(event_fifo)
    BY <1>4, SweepMoves DEF SweepReads, SweepFifo, SweepSame
  <2> DEFINE moved == TagsIn(num_bytes)
  <2>2. /\ TagEvents(event_fifo) = moved + TagEvents(event_fifo')
        /\ TagPackets(queue') = TagPackets(queue) + moved
        /\ tag_count' = tag_count + moved /\ moved \in Nat
    BY <2>1, TagsMoved DEF SweepMoved, SweepSame
  <2>3. UNCHANGED <<tags, published, told>> /\ pc'["app"] = pc["app"]
    BY <1>4 DEF SweepReads, Moves
  <2>4. TagEvents(event_fifo') \in Nat /\ TagPackets(queue') \in Nat
    BY <2>1, TagAppended DEF SweepMoved
  <2> HIDE DEF moved
  <2>5. tags' = tag_count' + TagEvents(event_fifo')
    <3>1. tags = tag_count + TagEvents(event_fifo) /\ tags' = tags
      BY <2>3 DEF SteadyTally
    <3>2. QED
      BY ONLY <1>0, <2>2, <2>4, <3>1
  <2>6. pc'["app"] # "idle" => tag_count' = published' + TagPackets(queue')
    <3>1. HAVE pc'["app"] # "idle"
    <3>2. tag_count = published + TagPackets(queue) /\ published' = published
      BY <2>3, <3>1 DEF SteadyTally
    <3>3. QED
      BY ONLY <1>0, <2>2, <2>4, <3>2
  <2>7. pc'["app"] = "idle" => told' = published' /\ published' = tags' /\ queue' = <<>> /\ event_fifo' = <<>>
    <3>1. HAVE pc'["app"] = "idle"
    <3>2. told = published /\ published = tags /\ queue = <<>> /\ event_fifo = <<>>
      BY <2>3, <3>1 DEF SteadyTally
    <3>3. Len(queue) = 0 /\ Len(event_fifo) = 0
      BY <3>2
    <3>4. /\ event_fifo' \in Seq(SweepEvents) /\ Len(event_fifo') = Len(event_fifo) - num_bytes
          /\ queue' \in Seq(SweepPackets) /\ Len(queue') = Len(queue) + num_bytes
      BY <2>1 DEF SweepMoved
    <3>5. Len(queue') = 0 /\ Len(event_fifo') = 0
      BY <1>0, <2>1, <3>3, <3>4
    <3>6. queue' = <<>> /\ event_fifo' = <<>>
      BY <3>4, <3>5, EmptySeq
    <3>7. QED
      BY <2>3, <3>2, <3>6
  <2>8. QED
    BY <2>5, <2>6, <2>7 DEF SteadyTally
<1>5. CASE SweepPublishes
  <2>1. /\ queue # <<>> /\ queue' = Tail(queue) /\ UNCHANGED <<event_fifo, tag_count, tags>> /\ pc["app"] = "publish"
        /\ published' = published + Count(Head(queue)[1] = "TagRead")
        /\ told' = IF Head(queue)[1] = Summary THEN Head(queue)[2] ELSE told
        /\ pc'["app"] = "publish" \/ (pc'["app"] = "idle" /\ Head(queue)[1] = Summary)
    BY <1>5, SoundSteps DEF SweepPublishes, Moves
  <2> DEFINE c == Count(Head(queue)[1] = "TagRead")
  <2>2. TagPackets(queue) = c + TagPackets(queue')
    BY <1>0, <2>1, TagTaken
  <2>3. /\ Head(queue) = queue[1] /\ queue' \in Seq(SweepPackets) /\ Len(queue') = Len(queue) - 1 /\ Len(queue) >= 1
    BY ONLY <1>0, <2>1, TailAt
  <2>4. TagPackets(queue') \in Nat
    BY <2>3, TagAppended
  <2>5. c \in Nat /\ published' = published + c
    BY <2>1 DEF Count
  <2>6. tags = tag_count + TagEvents(event_fifo) /\ tag_count = published + TagPackets(queue)
    BY <2>1 DEF SteadyTally
  <2>7. tags' = tag_count' + TagEvents(event_fifo')
    BY <2>1, <2>6
  <2>8. tag_count' = published' + TagPackets(queue')
    <3>1. tag_count' = tag_count
      BY <2>1
    <3> HIDE DEF c
    <3>2. QED
      BY ONLY <1>0, <2>2, <2>4, <2>5, <2>6, <3>1
  <2>9. CASE pc'["app"] = "publish"
    BY <2>7, <2>8, <2>9 DEF SteadyTally
  <2>10. CASE pc'["app"] = "idle" /\ Head(queue)[1] = Summary
    <3>1. 1 \in 1 .. Len(queue)
      BY <1>0, <2>3
    <3>2. 1 = Len(queue) /\ queue[1][2] = tag_count /\ event_fifo = <<>>
      BY <2>3, <2>10, <3>1 DEF SteadyPlace, PlaceQueue
    <3>3. Len(queue') = 0
      BY <1>0, <2>3, <3>2
    <3>4. queue' = <<>> /\ event_fifo' = <<>>
      BY <2>1, <2>3, <3>2, <3>3, EmptySeq
    <3>5. TagPackets(queue') = 0 /\ TagEvents(event_fifo') = 0
      BY <3>4, TagAppended
    <3>6. published' \in Nat
      BY <1>0, <2>5
    <3>7. tag_count' = published' /\ tags' = tag_count'
      <4>1. tag_count' \in Nat
        BY <1>0, <2>1
      <4>2. QED
        <5> DEFINE p == published'
                   q == tag_count'
        <5>1. p \in Nat /\ q \in Nat /\ q = p + 0 /\ tags' = q + 0
          BY <2>7, <2>8, <3>5, <3>6, <4>1
        <5> HIDE DEF p, q
        <5>2. q = p /\ tags' = q
          BY ONLY <5>1
        <5>3. QED
          BY <5>2 DEF p, q
    <3>8. told' = tag_count'
      BY <2>1, <2>3, <2>10, <3>2
    <3>9. QED
      BY <2>7, <2>10, <3>4, <3>7, <3>8 DEF SteadyTally
  <2>11. QED
    BY <2>1, <2>9, <2>10
<1>6. CASE SweepInserts /\ pc["irq"] = "summary" /\ event_fifo' = Append(event_fifo, Summary)
           /\ queue' = queue /\ Moves(pc["app"], "fifo")
  <2>1. pc["app"] = "publish" /\ pc'["app"] = pc["app"]
    BY <1>6 DEF SteadyRun, RunStops, Moves
  <2>2. UNCHANGED <<tag_count, published, tags>>
    BY <1>6 DEF SweepInserts
  <2>3. Summary \in SweepEvents /\ Count(Summary = "TagRead") = 0
    BY DEF SweepEvents, Summary, Count
  <2>4. tags' = tags + 0
    BY <1>0, <2>2
  <2>5. QED
    BY <1>a, <1>6, <2>1, <2>2, <2>3, <2>4
<1>7. QED
  BY <1>1, <1>2, <1>3, <1>4, <1>5, <1>6, SoundSteps

LEMMA SweepSteadyStep ==
    ASSUME SweepTypes, SweepFifo, SweepTurns, SweepSteady, SweepStep
    PROVE  SweepSteady'
<1>1. CASE SweepBegins
  <2>0. /\ pc["app"] = "idle" /\ pc["irq"] = "idle" /\ ~irq_pending /\ ~op /\ queue = <<>> /\ runs \in Nat
        /\ runs' = runs + 1 /\ sweep_conditions' \in SweepConditions /\ stop_reason' = "None"
        /\ round_count' = 0 /\ tag_count' = 0 /\ swept' = <<>>
        /\ summaries' = 0 /\ published' = 0 /\ tags' = 0 /\ pc'["app"] = "start" /\ pc'["irq"] = "idle"
        /\ UNCHANGED <<op, event_fifo, done_reason, round_done, queue>>
    BY <1>1 DEF SweepBegins, Moves, SweepTypes, SweepNumbers
  <2>1. event_fifo' = <<>> /\ queue' = <<>>
    BY <2>0 DEF SweepFifo
  <2>2. Len(<<>>) = 0
    OBVIOUS
  <2>3. NoSummary'
    BY <2>1, <2>2 DEF NoSummary, NoneIn
  <2>4. SteadyPlace'
    BY <2>3 DEF NoSummary, NoneIn, SteadyPlace, PlaceNone, PlaceFifo, PlaceQueue
  <2>5. SteadyTally'
    <3>1. TagEvents(event_fifo') = 0 /\ TagPackets(queue') = 0 /\ 0 + 0 = 0
      BY <2>1, TagAppended
    <3>2. QED
      BY <2>0, <3>1 DEF SteadyTally
  <2>6. ~Past' /\ Going'
    BY <2>0 DEF Past, SweepRound, Going, SweepTurns
  <2>7. ~Reached(round_count)'
    <3>1. sweep_conditions'.rounds \in Nat
      BY <2>0, SweepConstants
    <3>2. ~(sweep_conditions'.rounds > 0 /\ 0 >= sweep_conditions'.rounds)
      BY ONLY <3>1
    <3>3. QED
      BY <2>0, <3>2 DEF Reached
  <2>8. Len(swept') = round_count' + Count(Past')
    <3>1. Count(Past') = 0
      BY <2>6 DEF Count
    <3>2. QED
      BY <2>0, <2>2, <3>1
  <2>9. SteadyRun'
    BY <2>0, <2>6, <2>7, <2>8 DEF SteadyRun, RunGoing, RunOver, RunStops
  <2>10. QED
    BY <2>4, <2>5, <2>9 DEF SweepSteady
<1>2. CASE ~SweepBegins
  <2> SUFFICES ASSUME Sound' PROVE SteadyRun' /\ SteadyPlace' /\ SteadyTally'
    BY DEF SweepSteady
  <2>1. Sound
    BY <1>2, SweepSound
  <2>2. SweepSame /\ SteadyRun /\ SteadyPlace /\ SteadyTally
    BY <1>2, <2>1 DEF SweepSame, SweepSteady
  <2>3. QED
    BY <2>2, SteadyRunStep, SteadyPlaceStep, SteadyTallyStep
<1>3. QED
  BY <1>1, <1>2

SweepInv ==
    SweepTypes /\ SweepFifo /\ SweepTurns /\ SweepLevels /\ SweepAhead /\ SweepSteady

(* PowersAreSwept: for any list of powers, any number of runs, rounds,     *)
(* tags and expiries of the dwell time, the completed rounds of runs       *)
(* without a failure have the powers of the list in turn, and a run that   *)
(* returns without an error, whatever failed before, is over: one summary, *)
(* which tells of all tags, all of them published, and the rounds that     *)
(* were asked for (continuous_inventory_interrupt_handler,                 *)
(* publish_packets).                                                       *)
THEOREM PowersAlwaysSwept == Spec => []PowersAreSwept
<1> DEFINE Inv == use_case = "power_sweep" => SweepInv
<1>1. Init => Inv
  <2> SUFFICES ASSUME PS!Init PROVE SweepInv
    BY DEF Init
  <2>0. Len(<<>>) = 0 /\ <<>> \in Seq(Nat) /\ <<>> \in Seq(SweepEvents) /\ <<>> \in Seq(SweepPackets)
    OBVIOUS
  <2>1. /\ op = FALSE /\ cw = 0 /\ event_fifo = <<>> /\ done_reason = "None"
        /\ round_done = FALSE /\ irq_pending = FALSE /\ iterator = 0 /\ sweep_power = PowerLevels[1]
        /\ round_count = 0 /\ tag_count = 0 /\ next_step = "fifo" /\ num_bytes = 0 /\ queue = <<>>
        /\ ex10_result = "success" /\ swept = <<>> /\ first = 0 /\ summaries = 0 /\ published = 0
        /\ tags = 0 /\ runs = 0 /\ failures = 0
    BY DEF PS!Init, PS!Off
  <2>2. DOMAIN pc = {"app", "irq"} /\ pc["app"] = "idle" /\ pc["irq"] = "idle"
    BY DEF PS!Init
  <2>3. SweepTypes
    <3>1. SweepPlaces
      <4>1. op = FALSE /\ round_done = FALSE /\ irq_pending = FALSE
        BY ONLY <2>1
      <4>2. op \in BOOLEAN /\ round_done \in BOOLEAN /\ irq_pending \in BOOLEAN
        BY ONLY <4>1
      <4>3. runs = 0
        BY ONLY <2>1
      <4>4. ~(runs > 0)
        BY ONLY <4>3
      <4>5. next_step \in {"fifo", "continue"} /\ ex10_result \in {"success", "stop", "error", "none"}
        BY <2>1
      <4>6. QED
        BY ONLY <2>2, <4>2, <4>4, <4>5 DEF SweepPlaces
    <3>2. SweepLists
      BY <2>0, <2>1 DEF SweepLists
    <3>3. SweepNumbers
      BY <2>1 DEF SweepNumbers
    <3>4. SweepLevel
      <4>1. 0 \in 0 .. Len(PowerLevels) - 1 /\ 0 + 1 = 1
        BY SweepConstants
      <4>2. PowerLevels[1] \in Nat
        BY <4>1, SweepConstants
      <4>3. QED
        BY <2>1, <4>1, <4>2 DEF SweepLevel
    <3>5. QED
      BY <3>1, <3>2, <3>3, <3>4 DEF SweepTypes
  <2>4. SweepFifo
    BY <2>1, <2>2 DEF SweepFifo
  <2>5. SweepTurns
    BY <2>1, <2>2 DEF SweepTurns, Turning, Summing
  <2>6. SweepLevels
    <3>1. ~Due /\ ~Past
      BY <2>1, <2>2 DEF Due, Past, SweepRound, Turning
    <3>2. LevelPower /\ LevelList
      BY <2>0, <2>1 DEF LevelPower, LevelList
    <3>3. QED
      BY <3>1, <3>2 DEF SweepLevels, LevelDue, LevelPast
  <2>7. SweepAhead
    BY <2>0, <2>1 DEF SweepAhead, HasError
  <2>8. SweepSteady
    BY <2>1 DEF SweepSteady, Sound
  <2>9. QED
    BY <2>3, <2>4, <2>5, <2>6, <2>7, <2>8 DEF SweepInv
<1>2. Inv /\ [Next]_vars => Inv'
  <2> SUFFICES ASSUME SweepInv, PS!Next \/ UNCHANGED PS!vars PROVE SweepInv'
    BY ChosenStep
  <2>1. SweepTypes /\ SweepFifo /\ SweepTurns /\ SweepLevels /\ SweepAhead /\ SweepSteady
    BY DEF SweepInv
  <2>2. CASE PS!Next
    <3>1. SweepStep
      BY <2>1, <2>2, SweepSteps
    <3>2. SweepTypes' /\ SweepFifo' /\ SweepTurns'
      BY <2>1, <3>1, SweepTypesStep, SweepFifoStep, SweepTurnsStep
    <3>3. SweepLevels' /\ SweepAhead' /\ SweepSteady'
      BY <2>1, <3>1, SweepLevelsStep, SweepAheadStep, SweepSteadyStep
    <3>4. QED
      BY <3>2, <3>3 DEF SweepInv
  <2>3. CASE UNCHANGED PS!vars
    <3>1. UNCHANGED <<op, cw, event_fifo, done_reason, round_done, irq_pending, iterator, sweep_power,
                      state, stop_reason, round_count, tag_count, sweep_conditions, pc, next_step,
                      num_bytes, queue, ex10_result, swept, first, summaries, published, told, tags,
                      runs, failures>>
      BY <2>3 DEF PS!vars, PS!chip, PS!sweep, PS!inventory_state, PS!run, PS!account
    <3>2. SweepTypes'
      BY <2>1, <3>1 DEF SweepTypes, SweepPlaces, SweepLists, SweepNumbers, SweepLevel
    <3>3. SweepFifo' /\ SweepTurns'
      BY <2>1, <3>1 DEF SweepFifo, SweepTurns
    <3>4. SweepLevels'
      BY <2>1, <3>1 DEF SweepLevels, LevelPower, LevelList, LevelDue, LevelPast, Due, Past, SweepRound, PS!Level
    <3>5. SweepAhead'
      BY <2>1, <3>1 DEF SweepAhead, HasError, ErrorAhead, Succeeds
    <3>6. SweepSteady'
      <4>1. (Sound' <=> Sound) /\ (Going' <=> Going) /\ (Past' <=> Past) /\ (NoSummary' <=> NoSummary)
        BY <3>1 DEF Sound, Succeeds, HasError, Going, Past, SweepRound, NoSummary, NoneIn
      <4>2. SteadyRun => SteadyRun'
        BY <3>1, <4>1 DEF SteadyRun, RunGoing, RunOver, RunStops, Reached, Count
      <4>3. SteadyPlace => SteadyPlace'
        BY <3>1, <4>1 DEF SteadyPlace, PlaceNone, PlaceFifo, PlaceQueue
      <4>4. SteadyTally => SteadyTally'
        BY <3>1 DEF SteadyTally, TagEvents, TagPackets
      <4>5. QED
        BY <2>1, <4>1, <4>2, <4>3, <4>4 DEF SweepSteady
    <3>7. QED
      BY <3>2, <3>3, <3>4, <3>5, <3>6 DEF SweepInv
  <2>4. QED
    BY <2>2, <2>3
<1>3. Inv => PowersAreSwept
  <2> SUFFICES ASSUME SweepInv PROVE PS!LevelsInTurn /\ PS!SuccessMeansStopped
    BY DEF PowersAreSwept
  <2>1. DOMAIN swept = 1 .. Len(swept)
    BY LenProperties DEF SweepInv, SweepTypes, SweepLists
  <2>2. PS!LevelsInTurn
    BY <2>1 DEF SweepInv, SweepLevels, LevelList, PS!LevelsInTurn
  <2>3. PS!SuccessMeansStopped
    <3>1. SUFFICES ASSUME pc["app"] = "idle", runs > 0, Succeeds
                   PROVE  /\ ~op /\ summaries = 1 /\ state # "Ongoing"
                          /\ told = published /\ published = tags
                          /\ stop_reason = "MaxNumberOfRounds" => Len(swept) = sweep_conditions.rounds
      BY DEF PS!SuccessMeansStopped, PS!Returned, PS!At, Succeeds
    <3>2. Sound
      BY <3>1 DEF SweepInv, SweepAhead, Sound
    <3>3. SteadyRun /\ SteadyTally
      BY <3>2 DEF SweepInv, SweepSteady
    <3>4. ~Going /\ pc["irq"] # "summary"
      BY <3>1, <3>3 DEF SteadyRun, RunGoing, RunStops
    <3>5. ~op
      BY <3>4 DEF Going
    <3>6. QED
      BY <3>1, <3>3, <3>4, <3>5 DEF SteadyRun, RunOver, SteadyTally, Count
  <2>4. QED
    BY <2>2, <2>3
<1> HIDE DEF Inv
<1>4. QED
  BY <1>1, <1>2, <1>3, PTL DEF Spec
=============================================================================
