-------------------------- MODULE LineShots_proofs --------------------------
(***************************************************************************)
(* Proofs about the lines that timingCore.v fires, for all numbers of      *)
(* points, lines and frames, all tables, writes and swaps.                 *)
(*                                                                         *)
(* The properties relate registers that lag behind each other, so each     *)
(* part of the invariant says what a register still owes to an earlier     *)
(* cycle: that the banks are settled when the first point is waited for    *)
(* (SettleInv), which word each stage of the read pipeline holds           *)
(* (PipeInv), how far the counter of the delay is (ShotInv), and how long  *)
(* the laser driver is busy (BusyInv).                                     *)
(***************************************************************************)
EXTENDS LineShots, TLAPS

\* Lines that the address of nine bits can count (the ports of the code allow longer ones,
\* which never end).
LineFits == PointsPerLine < AddrMod

\* Every delay that is ever in a table is at least n.
LongDelays(n) ==
  /\ \A t \in InitialTables, b \in Banks, m \in Memories, a \in Addresses : t[b][m][a].ticks >= n
  /\ \A wr \in WriteSet : wr.data.ticks >= n

LineTypeOK ==
  /\ table \in [Banks -> [Memories -> [Addresses -> Words]]]
  /\ dout \in Pipelines
  /\ cur_state_r \in {"IDLE", "WAIT", "DELAY", "TRIGGER", "NEW_LINE"}
  /\ wait_over_r \in BOOLEAN /\ line_completed_r \in BOOLEAN /\ fire_next_point_r \in BOOLEAN
  /\ trigger_r \in BOOLEAN /\ new_line_r \in BOOLEAN /\ mem_updated_i \in BOOLEAN
  /\ raddr_r \in Addresses /\ ticks_cnt_r \in 0 .. TickMod - 1
  /\ update_mem_r \in BOOLEAN /\ mem_grp_r \in Nat /\ mem_cycles_cnt_r \in Nat
  /\ mem_sel_cur_state_r \in MM!Playing \cup MM!Waiting
  /\ mem_grp_cur_state_r \in MM!GroupStates
  /\ fired \in 0 .. PointsPerLine + 2 /\ waited \in Nat

\* Outputs of the line FSM, one cycle behind its state.
OutputInv ==
  /\ new_line_r => cur_state_r = "IDLE"
  /\ trigger_r => cur_state_r \in {"DELAY", "NEW_LINE"}
  /\ trigger_r => ~fire_next_point_r /\ ticks_cnt_r = 0
  /\ ticks_cnt_en_r = (cur_state_r = "DELAY")
  /\ cur_state_r # "DELAY" => waited = 0
  /\ cur_state_r = "DELAY" => waited >= 1
  /\ cur_state_r = "DELAY" /\ fire_next_point_r => waited >= 2

\* No swap of the banks and no change of the frame is under way.
NoSwapComing ==
  /\ mem_sel_cur_state_r \in MM!Playing => MM!mem_ok_w
  /\ mem_grp_cur_state_r = "MEM_IDLE"

Firing == cur_state_r \in {"DELAY", "TRIGGER", "NEW_LINE"}

\* The report of a line starts what may change the table; it is over before the next
\* line fires, since the line FSM takes three cycles to get there.
SettleInv ==
  /\ cur_state_r = "WAIT" /\ wait_over_r => NoSwapComing
  /\ Firing => NoSwapComing
  /\ Firing => update_mem_r = (mem_sel_cur_state_r \in {"MEM0", "WAIT_MEM0"})

CoreInv == LineTypeOK /\ OutputInv /\ SettleInv

\* The points of a line, counted by the address and by the history.
WholeInv ==
  /\ cur_state_r \in {"IDLE", "WAIT"} => raddr_r = 0 /\ ~line_completed_r
  /\ cur_state_r = "WAIT" => fired = 0
  /\ cur_state_r = "DELAY" => raddr_r = fired /\ fired <= PointsPerLine
  /\ cur_state_r = "DELAY" /\ line_completed_r => raddr_r = PointsPerLine
  /\ cur_state_r = "DELAY" /\ waited >= 2 /\ raddr_r = PointsPerLine => line_completed_r
  /\ cur_state_r = "TRIGGER" /\ line_completed_r => raddr_r = 0 /\ fired = PointsPerLine + 1
  /\ cur_state_r = "TRIGGER" /\ ~line_completed_r => raddr_r = fired /\ fired <= PointsPerLine
  /\ cur_state_r = "NEW_LINE" => raddr_r = 0 /\ fired = PointsPerLine + 1

\* Stage s of the pipelines of the table in use.
Stage(s) == dout[BankRead(update_mem_r)][MemoryOf(mem_grp_r)][s]

PipeInv ==
  /\ \A s \in 1 .. ReadLatency : cur_state_r = "DELAY" /\ waited > s => Stage(s) = LineTable[raddr_r]
  /\ cur_state_r = "TRIGGER" => Stage(1).active = pixel_on
  /\ trigger_r /\ ReadLatency = 2 => Stage(2).active = pixel_on

\* With delays of at least n in the tables, nothing shorter comes out of them.
Filled(n, s) == \A b \in Banks, m \in Memories : dout[b][m][s].ticks >= n

LongInv(n) ==
  /\ \A b \in Banks, m \in Memories, a \in Addresses : table[b][m][a].ticks >= n
  /\ signal_r[1] # signal_r[2] => Filled(n, 1)
  /\ edge_r \/ cur_state_r # "IDLE" => \A s \in 1 .. ReadLatency : Filled(n, s)

\* The counter of the delay and the cycles waited.
ShotInv ==
  /\ cur_state_r = "DELAY" /\ ~fire_next_point_r => ticks_cnt_r = waited - 1
  /\ cur_state_r = "DELAY" /\ ~fire_next_point_r /\ waited > ReadLatency
       => ticks_cnt_r <= LineTable[raddr_r].ticks
  /\ cur_state_r = "DELAY" /\ fire_next_point_r => waited = LineTable[raddr_r].ticks + 2

\* Cycles until the laser driver is ready for a trigger again.
Busy == IF ld_state_r = "LASER_TRIGGER"
        THEN IF pulse_over_r THEN 2 ELSE PulseLength + 3 - pulse_cnt_r
        ELSE IF pulse_cnt_r = 0 THEN 0 ELSE 1

BusyInv ==
  /\ ld_state_r \in {"LASER_IDLE", "LASER_TRIGGER"} /\ pulse_over_r \in BOOLEAN
  /\ pulse_cnt_r \in 0 .. PulseMod - 1
  /\ ld_state_r = "LASER_TRIGGER" /\ ~pulse_over_r => pulse_cnt_r <= PulseLength
  /\ trigger_r => Busy = 0
  /\ cur_state_r = "TRIGGER" => Busy <= 1
  /\ cur_state_r = "DELAY" /\ fire_next_point_r => Busy <= 2
  /\ cur_state_r = "DELAY" => Busy + ticks_cnt_r <= PulseLength + 4 \/ Busy = 0

\* Selectors beyond the last memory fall back to memory 0 (memoryManager.v:160-205).
LEMMA SelectedMemory ==
  /\ \A n \in Nat : MemoryOf(n) \in Memories
  /\ \A u \in BOOLEAN : BankRead(u) \in Banks /\ BankWritten(u) \in Banks /\ BankRead(u) # BankWritten(u)
  BY MemoryAssumption DEF MemoryOf, Memories, BankRead, BankWritten, Banks

\* The write port reaches one word of the bank that is not read.
LEMMA WrittenTable ==
  ASSUME LineTypeOK, WritePort
  PROVE  /\ table' \in [Banks -> [Memories -> [Addresses -> Words]]]
         /\ table'[BankRead(update_mem_r)] = table[BankRead(update_mem_r)]
         /\ \A b \in Banks, m \in Memories, a \in Addresses :
              table'[b][m][a] = table[b][m][a] \/ \E wr \in WriteSet : table'[b][m][a] = wr.data
<1>1. table \in [Banks -> [Memories -> [Addresses -> Words]]] /\ update_mem_r \in BOOLEAN
  BY DEF LineTypeOK
<1>2. CASE NoWrite
  BY <1>1, <1>2 DEF NoWrite
<1>3. ASSUME NEW wr \in WriteSet, Write(update_mem_r, wr.selector, wr.addr, wr.data)
      PROVE  /\ table' \in [Banks -> [Memories -> [Addresses -> Words]]]
             /\ table'[BankRead(update_mem_r)] = table[BankRead(update_mem_r)]
             /\ \A b \in Banks, m \in Memories, a \in Addresses :
                  table'[b][m][a] = table[b][m][a] \/ table'[b][m][a] = wr.data
  <2>1. wr.selector \in Nat /\ wr.addr \in Addresses /\ wr.data \in Words
    BY WriteAssumption
  <2>2. PICK bank \in Banks, memory \in Memories :
          /\ bank = BankWritten(update_mem_r) /\ memory = MemoryOf(wr.selector)
          /\ bank # BankRead(update_mem_r)
    BY <1>1, <2>1, SelectedMemory
  <2>3. table' = [table EXCEPT ![bank] = [table[bank] EXCEPT ![memory] =
                    [table[bank][memory] EXCEPT ![wr.addr] = wr.data]]]
    BY <1>3, <2>2 DEF Write
  <2>4. [table[bank][memory] EXCEPT ![wr.addr] = wr.data] \in [Addresses -> Words]
    BY <1>1, <2>1
  <2>5. [table[bank] EXCEPT ![memory] = [table[bank][memory] EXCEPT ![wr.addr] = wr.data]]
          \in [Memories -> [Addresses -> Words]]
    BY <1>1, <2>4
  <2>6. table' \in [Banks -> [Memories -> [Addresses -> Words]]]
    BY <1>1, <2>3, <2>5
  <2>7. table'[BankRead(update_mem_r)] = table[BankRead(update_mem_r)]
    BY <1>1, <2>2, <2>3, SelectedMemory
  <2>8. ASSUME NEW b \in Banks, NEW m \in Memories, NEW a \in Addresses
        PROVE  table'[b][m][a] = table[b][m][a] \/ table'[b][m][a] = wr.data
    <3>1. b # bank => table'[b] = table[b]
      BY <1>1, <2>3
    <3>2. table'[bank] = [table[bank] EXCEPT ![memory] =
                            [table[bank][memory] EXCEPT ![wr.addr] = wr.data]]
      BY <1>1, <2>3
    <3>3. m # memory => table'[bank][m] = table[bank][m]
      BY <1>1, <3>2
    <3>4. table'[bank][memory] = [table[bank][memory] EXCEPT ![wr.addr] = wr.data]
      BY <1>1, <3>2
    <3>5. table'[bank][memory][a] = IF a = wr.addr THEN wr.data ELSE table[bank][memory][a]
      BY <1>1, <3>4
    <3> QED
      BY <3>1, <3>3, <3>5
  <2> QED
    BY <2>6, <2>7, <2>8
<1> QED
  BY <1>2, <1>3 DEF WritePort

\* One cycle of the block RAMs.
LEMMA ReadStages ==
  ASSUME LineTypeOK, dout' = ReadAll(dout, raddr_r)
  PROVE  /\ dout' \in Pipelines
         /\ \A b \in Banks, m \in Memories : dout'[b][m][1] = table[b][m][raddr_r]
         /\ \A b \in Banks, m \in Memories : ReadLatency = 2 => dout'[b][m][2] = dout[b][m][1]
<1>1. /\ table \in [Banks -> [Memories -> [Addresses -> Words]]] /\ raddr_r \in Addresses
      /\ dout \in [Banks -> [Memories -> [1 .. ReadLatency -> Words]]]
  BY DEF LineTypeOK, Pipelines
<1>2. ASSUME NEW b \in Banks, NEW m \in Memories
      PROVE  /\ dout'[b][m] = [s \in 1 .. ReadLatency |->
                                 IF s = 1 THEN table[b][m][raddr_r] ELSE dout[b][m][s - 1]]
             /\ dout'[b][m] \in [1 .. ReadLatency -> Words]
  <2>1. dout'[b][m] = [s \in 1 .. ReadLatency |->
                         IF s = 1 THEN table[b][m][raddr_r] ELSE dout[b][m][s - 1]]
    BY DEF ReadAll
  <2>2. table[b][m][raddr_r] \in Words
    BY <1>1
  <2>3. \A s \in 1 .. ReadLatency : s # 1 => s - 1 \in 1 .. ReadLatency
    BY MemoryAssumption
  <2>4. dout[b][m] \in [1 .. ReadLatency -> Words]
    BY <1>1
  <2>5. \A s \in 1 .. ReadLatency : s # 1 => dout[b][m][s - 1] \in Words
    BY <2>3, <2>4
  <2> QED
    BY <2>1, <2>2, <2>5
<1>3. dout' \in Pipelines
  <2> DEFINE Row(b) == [m \in Memories |-> [s \in 1 .. ReadLatency |->
                          IF s = 1 THEN table[b][m][raddr_r] ELSE dout[b][m][s - 1]]]
  <2>1. dout' = [b \in Banks |-> Row(b)]
    BY DEF ReadAll
  <2>2. ASSUME NEW b \in Banks PROVE Row(b) \in [Memories -> [1 .. ReadLatency -> Words]]
    BY <1>2
  <2> QED
    BY <2>1, <2>2 DEF Pipelines
<1>4. 1 \in 1 .. ReadLatency /\ (ReadLatency = 2 => 2 \in 1 .. ReadLatency /\ 2 - 1 = 1)
  BY MemoryAssumption
<1>5. ASSUME NEW b \in Banks, NEW m \in Memories
      PROVE  /\ dout'[b][m][1] = table[b][m][raddr_r]
             /\ ReadLatency = 2 => dout'[b][m][2] = dout[b][m][1]
  <2>1. dout'[b][m] = [s \in 1 .. ReadLatency |->
                         IF s = 1 THEN table[b][m][raddr_r] ELSE dout[b][m][s - 1]]
    BY <1>2
  <2>2. dout'[b][m][1] = table[b][m][raddr_r]
    BY <1>4, <2>1
  <2>3. ReadLatency = 2 => dout'[b][m][2] = dout[b][m][1]
    BY <1>4, <2>1
  <2> QED
    BY <2>2, <2>3
<1> QED
  BY <1>3, <1>5

\* The reset state satisfies the core of the invariant.
LEMMA CoreInit == Init => CoreInv
<1> SUFFICES ASSUME Init PROVE CoreInv
  OBVIOUS
<1> USE DEF Init, TCInit
<1>1. Blank \in Words /\ 0 \in Addresses /\ 0 \in 0 .. TickMod - 1
  BY MemoryAssumption DEF Blank, Words, Addresses
<1>2. table \in [Banks -> [Memories -> [Addresses -> Words]]]
  BY TableAssumption
<1>3. dout \in Pipelines
  BY <1>1 DEF Pipelines
<1>4. /\ update_mem_r = TRUE /\ mem_grp_r = 0 /\ mem_cycles_cnt_r = 0
      /\ mem_sel_cur_state_r = "MEM0" /\ mem_grp_cur_state_r = "MEM_IDLE"
      /\ mem_updated_i \in BOOLEAN
  BY DEF MM!MMInit
<1>5. LineTypeOK
  <2>1. 0 \in 0 .. PointsPerLine + 2 /\ 0 \in Nat
    BY LineAssumption
  <2>2. "MEM0" \in MM!Playing \cup MM!Waiting /\ "MEM_IDLE" \in MM!GroupStates
    BY DEF MM!Playing, MM!GroupStates
  <2> QED
    BY <1>1, <1>2, <1>3, <1>4, <2>1, <2>2 DEF LineTypeOK
<1>6. OutputInv /\ SettleInv
  BY DEF OutputInv, SettleInv, Firing
<1> QED
  BY <1>5, <1>6 DEF CoreInv

\* A clock edge keeps the registers in their ranges.
LEMMA TypeStep == CoreInv /\ Next => LineTypeOK'
<1> SUFFICES ASSUME CoreInv, Next PROVE LineTypeOK'
  OBVIOUS
<1>1. LineTypeOK /\ TCClock /\ Record /\ mem_updated_i' \in BOOLEAN
  BY DEF CoreInv, Next, TCNext
<1>2. PICK zc_i \in BOOLEAN : LineClock(zc_i)
  BY <1>1 DEF TCClock
<1>3. table' \in [Banks -> [Memories -> [Addresses -> Words]]] /\ dout' \in Pipelines
  BY <1>1, WrittenTable, ReadStages DEF TCClock
<1>4. cur_state_r' \in {"IDLE", "WAIT", "DELAY", "TRIGGER", "NEW_LINE"}
  BY <1>1, <1>2 DEF LineTypeOK, LineClock, LineState
<1>5. /\ wait_over_r' \in BOOLEAN /\ line_completed_r' \in BOOLEAN
      /\ fire_next_point_r' \in BOOLEAN /\ trigger_r' \in BOOLEAN /\ new_line_r' \in BOOLEAN
  BY <1>1, <1>2 DEF LineTypeOK, LineClock, WaitOver, LineCompleted, FireNextPoint, LineOutputs
<1>6. raddr_r' \in Addresses
  <2>1. AddrMod \in Nat /\ AddrMod > 0 /\ raddr_r \in Nat /\ raddr_r \in Addresses
    BY <1>1, MemoryAssumption DEF LineTypeOK, Addresses
  <2>2. (raddr_r + 1) % AddrMod \in 0 .. AddrMod - 1 /\ 0 \in 0 .. AddrMod - 1
    BY <2>1
  <2> QED
    BY <1>2, <2>1, <2>2 DEF LineClock, ReadAddress, Addresses
<1>7. ticks_cnt_r' \in 0 .. TickMod - 1
  <2>1. TickMod \in Nat /\ TickMod > 0 /\ ticks_cnt_r \in Nat
    BY <1>1, MemoryAssumption DEF LineTypeOK
  <2>2. (ticks_cnt_r + 1) % TickMod \in 0 .. TickMod - 1 /\ 0 \in 0 .. TickMod - 1
    BY <2>1
  <2> QED
    BY <1>2, <2>2 DEF LineClock, Counters, CounterNext
<1>8. MM!BankSelection /\ MM!MemCyclesCnt /\ MM!UpdateMem /\ MM!GroupState /\ MM!MemGrp
  BY <1>1 DEF TCClock, MM!Clock, MM!BankClock, MM!GroupClock
<1>9. update_mem_r' \in BOOLEAN
  BY <1>8 DEF MM!UpdateMem
<1>10. mem_cycles_cnt_r' \in Nat
  <2>1. (mem_cycles_cnt_r + 1) % CycleMod \in Nat
    BY <1>1, WidthAssumption DEF LineTypeOK
  <2> QED
    BY <1>1, <1>8, <2>1 DEF MM!MemCyclesCnt, LineTypeOK
<1>11. mem_grp_r' \in Nat
  <2>1. (mem_grp_r + 1) % GroupMod \in Nat
    BY <1>1, WidthAssumption DEF LineTypeOK
  <2> QED
    BY <1>1, <1>8, <2>1 DEF MM!MemGrp, MM!NextGroup, LineTypeOK
<1>12. mem_sel_cur_state_r' \in MM!Playing \cup MM!Waiting
  BY <1>1, <1>8
  DEF LineTypeOK, MM!BankSelection, MM!KeepPlaying, MM!StartWaiting, MM!SwapOnQuota, MM!KeepWaiting,
      MM!SwapOnLine, MM!PlayOther, MM!WaitFor, MM!Playing, MM!Waiting
<1>13. mem_grp_cur_state_r' \in MM!GroupStates
  BY <1>1, <1>8 DEF LineTypeOK, MM!GroupState, MM!GroupStates
<1>14. fired' \in 0 .. PointsPerLine + 2 /\ waited' \in Nat
  BY <1>1, LineAssumption DEF LineTypeOK, Record
<1> QED
  BY <1>1, <1>3, <1>4, <1>5, <1>6, <1>7, <1>9, <1>10, <1>11, <1>12, <1>13, <1>14 DEF LineTypeOK

\* A clock edge keeps the outputs of the line FSM one cycle behind its state.
LEMMA OutputStep == CoreInv /\ Next => OutputInv'
<1> SUFFICES ASSUME CoreInv, Next PROVE OutputInv'
  OBVIOUS
<1>1. LineTypeOK /\ OutputInv /\ Record
  BY DEF CoreInv, Next
<1>2. PICK zc_i \in BOOLEAN : LineClock(zc_i)
  BY DEF Next, TCNext, TCClock
<1>3. LineState /\ FireNextPoint /\ LineOutputs /\ Counters
  BY <1>2 DEF LineClock
<1>4. new_line_r' => cur_state_r' = "IDLE"
  BY <1>3 DEF LineState, LineOutputs
<1>5. trigger_r' => cur_state_r' \in {"DELAY", "NEW_LINE"}
  BY <1>3 DEF LineState, LineOutputs
<1>6. ticks_cnt_en_r' = (cur_state_r' = "DELAY")
  BY <1>3 DEF LineOutputs
<1>7. waited' = IF cur_state_r' = "DELAY" THEN waited + 1 ELSE 0
  BY <1>1 DEF Record
<1>8. waited \in Nat /\ (cur_state_r = "DELAY" => waited >= 1)
  BY <1>1 DEF LineTypeOK, OutputInv
<1>9. fire_next_point_r' => cur_state_r = "DELAY"
  BY <1>3 DEF FireNextPoint
<1>10. trigger_r' => cur_state_r = "TRIGGER"
  BY <1>3 DEF LineOutputs
<1>11. cur_state_r = "TRIGGER" => ticks_cnt_r' = 0
  BY <1>1, <1>3 DEF Counters, CounterNext, OutputInv
<1> QED
  BY <1>4, <1>5, <1>6, <1>7, <1>8, <1>9, <1>10, <1>11 DEF OutputInv

\* What a cycle without a report does to banks and frame: an overdue swap is made, and
\* nothing is left to do after it (memoryManager.v:67-158).
LEMMA Settle ==
  ASSUME LineTypeOK, MM!Clock, ~new_line_r
  PROVE  /\ NoSwapComing'
         /\ NoSwapComing => mem_sel_cur_state_r' = mem_sel_cur_state_r /\ mem_grp_r' = mem_grp_r
<1>1. /\ MM!BankSelection /\ MM!MemCyclesCnt /\ MM!GroupState /\ MM!MemGrp
      /\ mem_sel_cur_state_r \in MM!Playing \cup MM!Waiting
      /\ mem_grp_cur_state_r \in MM!GroupStates
  BY DEF MM!Clock, MM!BankClock, MM!GroupClock, LineTypeOK
<1>2. mem_grp_cur_state_r' = "MEM_IDLE"
  BY <1>1 DEF MM!GroupState, MM!GroupStates
<1>3. MM!mem_ok_w'
  <2>1. 0 <= MemCycles
    BY WidthAssumption
  <2> QED
    BY <1>1, <2>1 DEF MM!MemCyclesCnt, MM!mem_ok_w
<1>4. NoSwapComing => mem_sel_cur_state_r' = mem_sel_cur_state_r
  BY <1>1 DEF NoSwapComing, MM!BankSelection, MM!KeepPlaying, MM!StartWaiting, MM!SwapOnQuota,
       MM!KeepWaiting, MM!SwapOnLine, MM!Playing, MM!Waiting
<1>5. NoSwapComing => mem_grp_r' = mem_grp_r
  BY <1>1 DEF NoSwapComing, MM!MemGrp
<1> QED
  BY <1>2, <1>3, <1>4, <1>5 DEF NoSwapComing

\* A line finds banks and frame settled.
LEMMA SettleStep == CoreInv /\ Next => SettleInv'
<1> SUFFICES ASSUME CoreInv, Next PROVE SettleInv'
  OBVIOUS
<1>1. LineTypeOK /\ OutputInv /\ SettleInv /\ MM!Clock /\ MM!UpdateMem
  BY DEF CoreInv, Next, TCNext, TCClock, MM!Clock, MM!BankClock
<1>2. PICK zc_i \in BOOLEAN : LineClock(zc_i)
  BY DEF Next, TCNext, TCClock
<1>3. LineState /\ WaitOver
  BY <1>2 DEF LineClock
<1>4. wait_over_r' => cur_state_r = "WAIT"
  BY <1>3 DEF WaitOver
<1>5. cur_state_r # "IDLE" => NoSwapComing'
  BY <1>1, Settle DEF OutputInv
<1>6. Firing' => Firing \/ (cur_state_r = "WAIT" /\ wait_over_r)
  BY <1>3 DEF LineState, Firing
<1>7. Firing' => /\ cur_state_r # "IDLE" /\ NoSwapComing
                 /\ mem_sel_cur_state_r' = mem_sel_cur_state_r
  BY <1>1, <1>6, Settle DEF SettleInv, OutputInv, Firing
<1>8. Firing' => update_mem_r' = (mem_sel_cur_state_r' \in {"MEM0", "WAIT_MEM0"})
  BY <1>1, <1>7 DEF MM!UpdateMem
<1> QED
  BY <1>4, <1>5, <1>7, <1>8 DEF SettleInv

\* While points are fired, bank and frame stay (memoryManager.v:68-156).
LEMMA BankStays ==
  ASSUME CoreInv, Next, Firing
  PROVE  update_mem_r' = update_mem_r /\ mem_grp_r' = mem_grp_r
<1>1. LineTypeOK /\ OutputInv /\ SettleInv /\ MM!Clock /\ MM!UpdateMem
  BY DEF CoreInv, Next, TCNext, TCClock, MM!Clock, MM!BankClock
<1>2. NoSwapComing /\ ~new_line_r
  BY <1>1 DEF SettleInv, OutputInv, Firing
<1>3. mem_grp_r' = mem_grp_r
  BY <1>1, <1>2, Settle
<1> QED
  BY <1>1, <1>3 DEF SettleInv, MM!UpdateMem

\* Stuttering.
LEMMA CoreStutter == CoreInv /\ UNCHANGED lsvars => CoreInv'
<1> SUFFICES ASSUME CoreInv, UNCHANGED lsvars PROVE CoreInv'
  OBVIOUS
<1> USE DEF lsvars, tcvars, lineRegs, edgeRegs, MM!bankRegs, MM!groupRegs
<1>1. LineTypeOK'
  BY DEF CoreInv, LineTypeOK, MM!Playing, MM!Waiting, MM!GroupStates
<1>2. OutputInv'
  BY DEF CoreInv, OutputInv
<1>3. SettleInv'
  BY DEF CoreInv, SettleInv, Firing, NoSwapComing, MM!mem_ok_w, MM!Playing
<1> QED
  BY <1>1, <1>2, <1>3 DEF CoreInv

\* The core of the invariant is inductive.
LEMMA CoreStep == CoreInv /\ [Next]_lsvars => CoreInv'
  BY TypeStep, OutputStep, SettleStep, CoreStutter DEF CoreInv

\* The core of the invariant holds in every reachable state: the line FSM finds banks and
\* frame settled (timingCore.v:81-164, memoryManager.v:68-156).
THEOREM LineCore == Spec => []CoreInv
  BY CoreInit, CoreStep, PTL DEF Spec

\* The table in use is not written, and it is not exchanged while points are fired.
LEMMA TableStays ==
  ASSUME CoreInv, Next, Firing
  PROVE  LineTable' = LineTable
<1>1. update_mem_r' = update_mem_r /\ mem_grp_r' = mem_grp_r
  BY BankStays
<1>2. table'[BankRead(update_mem_r)] = table[BankRead(update_mem_r)]
  BY WrittenTable DEF CoreInv, Next, TCNext, TCClock
<1> QED
  BY <1>1, <1>2 DEF LineTable

\* Bank, frame and contents of the table do not change while points of a line are read
\* from it, whenever the writer writes and whenever the banks are swapped
\* (memoryManager.v:68-156, timestampMem.v:35-36).
THEOREM TableStable == Spec => TableStableInLine
<1>1. ASSUME CoreInv, Next, {cur_state_r, cur_state_r'} \subseteq {"DELAY", "TRIGGER"}
      PROVE  LineTable' = LineTable
  BY <1>1, TableStays DEF Firing
<1>2. CoreInv /\ [Next]_lsvars
        => [{cur_state_r, cur_state_r'} \subseteq {"DELAY", "TRIGGER"} => LineTable' = LineTable]_lsvars
  BY <1>1
<1> QED
  BY <1>2, LineCore, PTL DEF Spec, TableStableInLine

\* The line FSM keeps the contract that MemoryManager is checked and proved under: one
\* report per line and never two in a row (timingCore.v:143-148).
THEOREM ContractKept == Spec => KeepsMemoryContract
<1>1. Init => MM!MMInit
  BY DEF Init, TCInit, MM!MMInit
<1>2. CoreInv /\ [Next]_lsvars => [MM!MMNext]_MM!mmvars
  <2>1. ASSUME CoreInv, Next PROVE MM!MMNext
    <3>1. MM!Clock /\ mem_updated_i' \in BOOLEAN
      BY <2>1 DEF Next, TCNext, TCClock
    <3>2. new_line_r' \in BOOLEAN
      BY <2>1, TypeStep DEF LineTypeOK
    <3>3. PICK zc_i \in BOOLEAN : LineClock(zc_i)
      BY <2>1 DEF Next, TCNext, TCClock
    <3>4. new_line_r => ~new_line_r'
      BY <2>1, <3>3 DEF CoreInv, OutputInv, LineClock, LineOutputs
    <3> QED
      BY <3>1, <3>2, <3>4 DEF MM!MMNext, MM!Inputs
  <2>2. ASSUME UNCHANGED lsvars PROVE UNCHANGED MM!mmvars
    BY <2>2 DEF lsvars, tcvars, lineRegs, MM!mmvars, MM!bankRegs, MM!groupRegs
  <2> QED
    BY <2>1, <2>2
<1> QED
  BY <1>1, <1>2, LineCore, PTL DEF Spec, KeepsMemoryContract, MM!MMSpec

\* The reset state satisfies the part about points and addresses.
LEMMA WholeInit == Init => WholeInv
  BY DEF Init, TCInit, WholeInv

\* A clock edge moves the address on exactly when a point is triggered, and flags the
\* line complete while its last point is waited for (timingCore.v:81-131,150-157).
LEMMA WholeStep == LineFits /\ CoreInv /\ WholeInv /\ Next => WholeInv'
<1> SUFFICES ASSUME LineFits, CoreInv, WholeInv, Next PROVE WholeInv'
  OBVIOUS
<1>1. LineTypeOK /\ OutputInv /\ Record
  BY DEF CoreInv, Next
<1>2. PICK zc_i \in BOOLEAN : LineClock(zc_i)
  BY DEF Next, TCNext, TCClock
<1>3. LineState /\ LineCompleted /\ ReadAddress
  BY <1>2 DEF LineClock
<1>4. /\ PointsPerLine \in Nat /\ AddrMod \in Nat /\ PointsPerLine < AddrMod
      /\ raddr_r \in Nat /\ fired \in Nat /\ waited \in Nat /\ line_completed_r \in BOOLEAN
      /\ fire_next_point_r \in BOOLEAN
  BY <1>1, LineAssumption, MemoryAssumption DEF LineTypeOK, LineFits, Addresses
<1>5. waited' = IF cur_state_r' = "DELAY" THEN waited + 1 ELSE 0
  BY <1>1 DEF Record
<1>6. CASE cur_state_r = "IDLE"
  <2>1. cur_state_r' \in {"IDLE", "WAIT"}
    BY <1>3, <1>6 DEF LineState
  <2>2. raddr_r' = 0 /\ ~line_completed_r'
    BY <1>3, <1>6, <2>1 DEF WholeInv, LineCompleted, ReadAddress
  <2>3. fired' = 0
    BY <1>1, <1>6 DEF Record, Fire
  <2> QED
    BY <2>1, <2>2, <2>3 DEF WholeInv
<1>7. CASE cur_state_r = "WAIT"
  <2>1. cur_state_r' \in {"WAIT", "DELAY"}
    BY <1>3, <1>7 DEF LineState
  <2>2. raddr_r' = 0 /\ ~line_completed_r'
    BY <1>3, <1>7, <2>1 DEF WholeInv, LineCompleted, ReadAddress
  <2>3. fired' = 0 /\ 0 <= PointsPerLine
    BY <1>1, <1>4, <1>7 DEF WholeInv, Record, Fire
  <2>4. ~(waited' >= 2)
    BY <1>1, <1>5, <1>7 DEF OutputInv
  <2> QED
    BY <2>1, <2>2, <2>3, <2>4 DEF WholeInv
<1>8. CASE cur_state_r = "DELAY" /\ ~fire_next_point_r
  <2>1. cur_state_r' = "DELAY" /\ fired' = fired /\ raddr_r' = raddr_r
    BY <1>1, <1>3, <1>4, <1>8 DEF LineState, ReadAddress, Record, Fire
  <2>2. line_completed_r' <=> (line_completed_r \/ raddr_r >= PointsPerLine)
    BY <1>3, <1>4, <1>8 DEF LineCompleted
  <2>3. raddr_r = fired /\ fired <= PointsPerLine
    BY <1>8 DEF WholeInv
  <2>4. line_completed_r' <=> raddr_r = PointsPerLine
    BY <1>4, <1>8, <2>2, <2>3 DEF WholeInv
  <2> QED
    BY <2>1, <2>3, <2>4 DEF WholeInv
<1>9. CASE cur_state_r = "DELAY" /\ fire_next_point_r
  <2>1. /\ cur_state_r' = "TRIGGER"
        /\ line_completed_r' = (line_completed_r \/ raddr_r >= PointsPerLine)
    BY <1>3, <1>4, <1>9 DEF LineState, LineCompleted
  <2>2. raddr_r = fired /\ fired <= PointsPerLine /\ fired' = fired + 1
    BY <1>1, <1>4, <1>9, <2>1 DEF WholeInv, Record, Fire
  <2>3. CASE raddr_r < PointsPerLine
    <3>1. raddr_r' = raddr_r + 1
      <4>1. raddr_r + 1 \in 0 .. AddrMod - 1
        BY <1>4, <2>3
      <4>2. (raddr_r + 1) % AddrMod = raddr_r + 1
        BY <1>4, <4>1
      <4> QED
        BY <1>3, <1>4, <2>1, <2>3, <4>2 DEF ReadAddress
    <3>2. ~line_completed_r'
      BY <1>4, <1>9, <2>1, <2>3 DEF WholeInv
    <3> QED
      BY <1>4, <2>1, <2>2, <2>3, <3>1, <3>2 DEF WholeInv
  <2>4. CASE raddr_r >= PointsPerLine
    <3>1. raddr_r' = 0 /\ line_completed_r'
      <4>1. ~(raddr_r < PointsPerLine)
        BY <1>4, <2>4
      <4> QED
        BY <1>3, <2>1, <2>4, <4>1 DEF ReadAddress
    <3>2. fired' = PointsPerLine + 1
      BY <1>4, <2>2, <2>4
    <3> QED
      BY <2>1, <3>1, <3>2 DEF WholeInv
  <2> QED
    BY <1>4, <2>3, <2>4
<1>10. CASE cur_state_r = "TRIGGER"
  <2>1. /\ cur_state_r' = IF line_completed_r THEN "NEW_LINE" ELSE "DELAY"
        /\ fired' = fired /\ raddr_r' = raddr_r /\ line_completed_r' = line_completed_r
    BY <1>1, <1>3, <1>4, <1>10 DEF LineState, LineCompleted, ReadAddress, Record, Fire
  <2>2. ~(waited' >= 2)
    BY <1>1, <1>5, <1>10 DEF OutputInv
  <2>3. CASE line_completed_r
    <3>1. raddr_r' = 0 /\ fired' = PointsPerLine + 1
      BY <1>10, <2>1, <2>3 DEF WholeInv
    <3> QED
      BY <2>1, <2>3, <3>1 DEF WholeInv
  <2>4. CASE ~line_completed_r
    <3>1. raddr_r = fired /\ fired <= PointsPerLine
      BY <1>10, <2>4 DEF WholeInv
    <3>2. raddr_r' = fired' /\ fired' <= PointsPerLine
      BY <2>1, <3>1
    <3> QED
      BY <2>1, <2>2, <2>4, <3>2 DEF WholeInv
  <2> QED
    BY <2>3, <2>4
<1>11. CASE cur_state_r = "NEW_LINE"
  <2>1. /\ cur_state_r' = "IDLE" /\ raddr_r' = raddr_r /\ ~line_completed_r'
    BY <1>3, <1>11 DEF LineState, LineCompleted, ReadAddress
  <2> QED
    BY <1>11, <2>1 DEF WholeInv
<1> QED
  BY <1>1, <1>4, <1>6, <1>7, <1>8, <1>9, <1>10, <1>11 DEF LineTypeOK

\* For every number of points that the address can count, the points of a line are fired
\* in the order of their addresses, from address 0, and the line ends after exactly
\* points_per_line_i + 1 of them (timingCore.v:81-131,150-157).
THEOREM LinesWhole == ASSUME LineFits PROVE Spec => []WholeLine
<1>1. CoreInv /\ WholeInv /\ [Next]_lsvars => WholeInv'
  <2>1. ASSUME WholeInv, UNCHANGED lsvars PROVE WholeInv'
    BY <2>1 DEF lsvars, tcvars, lineRegs, WholeInv
  <2> QED
    BY <2>1, WholeStep
<1>2. WholeInv => WholeLine
  BY DEF WholeInv, WholeLine
<1> QED
  BY <1>1, <1>2, LineCore, WholeInit, PTL DEF Spec

\* What stands in the pipelines in the next cycle, for the table in use.
LEMMA StageStep ==
  ASSUME CoreInv, Next
  PROVE  /\ Firing => Stage(1)' = LineTable[raddr_r]
         /\ Firing /\ ReadLatency = 2 => Stage(2)' = Stage(1)
<1>1. LineTypeOK /\ dout' = ReadAll(dout, raddr_r)
  BY DEF CoreInv, Next, TCNext, TCClock
<1>2. BankRead(update_mem_r) \in Banks /\ MemoryOf(mem_grp_r) \in Memories
  BY <1>1, SelectedMemory DEF LineTypeOK
<1>3. Firing => update_mem_r' = update_mem_r /\ mem_grp_r' = mem_grp_r
  BY BankStays
<1> QED
  BY <1>1, <1>2, <1>3, ReadStages DEF Stage, LineTable

LEMMA PipeInit == Init => PipeInv
  BY DEF Init, TCInit, PipeInv

\* The word of the point that is waited for comes through the stages, and its flag goes on
\* after the address has moved (memoryManager.v:207-211, timingCore.v:150-164).
LEMMA PipeStep == CoreInv /\ PipeInv /\ Next => PipeInv'
<1> SUFFICES ASSUME CoreInv, PipeInv, Next PROVE PipeInv'
  OBVIOUS
<1>1. LineTypeOK /\ OutputInv /\ Record
  BY DEF CoreInv, Next
<1>2. PICK zc_i \in BOOLEAN : LineClock(zc_i)
  BY DEF Next, TCNext, TCClock
<1>3. LineState /\ ReadAddress /\ LineOutputs
  BY <1>2 DEF LineClock
<1>4. waited \in Nat /\ waited' = IF cur_state_r' = "DELAY" THEN waited + 1 ELSE 0
  BY <1>1 DEF Record, LineTypeOK
<1>5. ASSUME NEW s \in 1 .. ReadLatency, cur_state_r' = "DELAY", waited' > s
      PROVE  Stage(s)' = LineTable'[raddr_r']
  <2>1. waited >= s /\ s \in {1, 2} /\ (s = 2 => ReadLatency = 2)
    BY <1>4, <1>5, MemoryAssumption
  <2>2. cur_state_r = "DELAY" /\ Firing
    BY <1>1, <1>4, <2>1 DEF OutputInv, Firing
  <2>3. raddr_r' = raddr_r /\ LineTable' = LineTable
    BY <1>3, <1>5, <2>2, TableStays DEF ReadAddress
  <2>4. CASE s = 1
    BY <2>2, <2>3, <2>4, StageStep
  <2>5. CASE s = 2
    <3>1. Stage(1) = LineTable[raddr_r]
      <4>1. 1 \in 1 .. ReadLatency /\ waited > 1
        BY <1>4, <2>1, <2>5
      <4> QED
        BY <2>2, <4>1 DEF PipeInv
    <3>2. Stage(2)' = Stage(1)
      BY <2>1, <2>2, <2>5, StageStep
    <3> QED
      BY <2>3, <2>5, <3>1, <3>2
  <2> QED
    BY <2>1, <2>4, <2>5
<1>6. ASSUME cur_state_r' = "TRIGGER"
      PROVE  Stage(1)'.active = pixel_on'
  <2>1. cur_state_r = "DELAY"
    BY <1>3, <1>6 DEF LineState
  <2>2. pixel_on' = LineTable[raddr_r].active
    BY <1>1, <1>6, <2>1 DEF Record, Fire
  <2>3. Stage(1)' = LineTable[raddr_r]
    BY <2>1, StageStep DEF Firing
  <2> QED
    BY <2>2, <2>3
<1>7. ASSUME trigger_r', ReadLatency = 2
      PROVE  Stage(2)'.active = pixel_on'
  <2>1. cur_state_r = "TRIGGER"
    BY <1>3, <1>7 DEF LineOutputs
  <2>2. pixel_on' = pixel_on
    BY <1>1, <2>1 DEF Record, Fire
  <2>3. Stage(2)' = Stage(1)
    BY <1>7, <2>1, StageStep DEF Firing
  <2>4. Stage(1).active = pixel_on
    BY <2>1 DEF PipeInv
  <2> QED
    BY <2>2, <2>3, <2>4
<1> QED
  BY <1>5, <1>6, <1>7 DEF PipeInv

\* The pipelines hold what they should in every reachable state.
LEMMA PipeAlways == Spec => []PipeInv
<1>1. CoreInv /\ PipeInv /\ [Next]_lsvars => PipeInv'
  <2>1. ASSUME PipeInv, UNCHANGED lsvars PROVE PipeInv'
    <3>1. \A s : Stage(s)' = Stage(s)
      BY <2>1 DEF lsvars, tcvars, MM!bankRegs, MM!groupRegs, Stage
    <3>2. LineTable' = LineTable
      BY <2>1 DEF lsvars, tcvars, MM!bankRegs, MM!groupRegs, LineTable
    <3>3. UNCHANGED <<cur_state_r, waited, raddr_r, trigger_r, pixel_on>>
      BY <2>1 DEF lsvars, tcvars, lineRegs
    <3> QED
      BY <2>1, <3>1, <3>2, <3>3 DEF PipeInv
  <2> QED
    BY <2>1, PipeStep
<1> QED
  BY <1>1, LineCore, PipeInit, PTL DEF Spec

\* With a block RAM of two stages, the flag beside a trigger is that of the point triggered,
\* although the address has moved on (timingCore.v:150-164, memoryManager.v:207-211).
THEOREM FlagsRight == ASSUME ReadLatency = 2 PROVE Spec => []RightPixel
<1>1. PipeInv => RightPixel
  BY DEF PipeInv, RightPixel, active_pixel_w, pixel_w, Output, Stage
<1> QED
  BY <1>1, PipeAlways, PTL

\* With long delays in the tables, there are only long delays in the pipelines when a line
\* is on its way.
LEMMA LongInit == ASSUME NEW n \in Nat, LongDelays(n) PROVE Init => LongInv(n)
  BY DEF Init, TCInit, LongDelays, LongInv

LEMMA LongStep ==
  ASSUME NEW n \in Nat, LongDelays(n), CoreInv, LongInv(n), Next
  PROVE  LongInv(n)'
<1>1. LineTypeOK /\ dout' = ReadAll(dout, raddr_r) /\ WritePort
  BY DEF CoreInv, Next, TCNext, TCClock
<1>2. PICK zc_i \in BOOLEAN : LineClock(zc_i)
  BY DEF Next, TCNext, TCClock
<1>3. LineState /\ EdgeDetector(zc_i)
  BY <1>2 DEF LineClock
<1>4. ASSUME NEW b \in Banks, NEW m \in Memories, NEW a \in Addresses
      PROVE  table'[b][m][a].ticks >= n
  BY <1>1, WrittenTable DEF LongInv, LongDelays
<1>5. Filled(n, 1)'
  <2>1. raddr_r \in Addresses
    BY <1>1 DEF LineTypeOK
  <2> QED
    BY <1>1, <2>1, ReadStages DEF Filled, LongInv
<1>6. ASSUME edge_r' \/ cur_state_r' # "IDLE"
      PROVE  \A s \in 1 .. ReadLatency : Filled(n, s)'
  <2>1. Filled(n, 1)
    <3>1. signal_r[1] # signal_r[2] \/ edge_r \/ cur_state_r # "IDLE"
      BY <1>3, <1>6 DEF EdgeDetector, LineState
    <3>2. 1 \in 1 .. ReadLatency
      BY MemoryAssumption
    <3> QED
      BY <3>1, <3>2 DEF LongInv
  <2>2. ReadLatency = 2 => Filled(n, 2)'
    BY <1>1, <2>1, ReadStages DEF Filled
  <2>3. \A s \in 1 .. ReadLatency : s = 1 \/ (s = 2 /\ ReadLatency = 2)
    BY MemoryAssumption
  <2> QED
    BY <1>5, <2>2, <2>3
<1> QED
  BY <1>4, <1>5, <1>6 DEF LongInv

LEMMA LongInductive ==
  ASSUME NEW n \in Nat, LongDelays(n)
  PROVE  CoreInv /\ LongInv(n) /\ [Next]_lsvars => LongInv(n)'
<1>1. ASSUME LongInv(n), UNCHANGED lsvars PROVE LongInv(n)'
  BY <1>1 DEF lsvars, tcvars, lineRegs, edgeRegs, LongInv, Filled
<1> QED
  BY <1>1, LongStep

\* The word at the multiplexers is a long one while a point is waited for, and the one of
\* the point as soon as it can have come through.
LEMMA WordAtOutput ==
  ASSUME NEW n \in Nat, CoreInv, PipeInv, LongInv(n), cur_state_r = "DELAY"
  PROVE  /\ timestamp_w \in 0 .. TickMod - 1 /\ timestamp_w >= n
         /\ waited > ReadLatency => timestamp_w = LineTable[raddr_r].ticks
         /\ LineTable[raddr_r].ticks >= n
<1>1. /\ BankRead(update_mem_r) \in Banks /\ MemoryOf(mem_grp_r) \in Memories
      /\ raddr_r \in Addresses
  BY SelectedMemory DEF CoreInv, LineTypeOK
<1>2. timestamp_w = Stage(ReadLatency).ticks /\ ReadLatency \in 1 .. ReadLatency
  BY MemoryAssumption DEF timestamp_w, pixel_w, Output, Stage
<1>3. Stage(ReadLatency) \in Words
  BY <1>1, <1>2 DEF CoreInv, LineTypeOK, Pipelines, Stage
<1>4. Stage(ReadLatency).ticks >= n /\ LineTable[raddr_r].ticks >= n
  BY <1>1, <1>2 DEF LongInv, Filled, Stage, LineTable
<1>5. waited > ReadLatency => Stage(ReadLatency) = LineTable[raddr_r]
  BY <1>2 DEF PipeInv
<1> QED
  BY <1>2, <1>3, <1>4, <1>5 DEF Words

\* What the counter of the delay does while a point is waited for (counter.v,
\* timingCore.v:124-129).
LEMMA DelayStep ==
  ASSUME CoreInv, Next, cur_state_r' = "DELAY"
  PROVE  /\ cur_state_r = "DELAY" =>
              /\ ~fire_next_point_r /\ raddr_r' = raddr_r
              /\ ticks_cnt_r' = (ticks_cnt_r + 1) % TickMod
              /\ fire_next_point_r' = (ticks_cnt_r >= timestamp_w)
         /\ cur_state_r # "DELAY" => ticks_cnt_r' = 0 /\ fire_next_point_r' = FALSE
         /\ waited' = waited + 1
<1>1. LineTypeOK /\ OutputInv /\ Record
  BY DEF CoreInv, Next
<1>2. PICK zc_i \in BOOLEAN : LineClock(zc_i)
  BY DEF Next, TCNext, TCClock
<1>3. LineState /\ ReadAddress /\ FireNextPoint /\ Counters
  BY <1>2 DEF LineClock
<1>4. cur_state_r = "DELAY" => ~fire_next_point_r /\ raddr_r' = raddr_r
  BY <1>3 DEF LineState, ReadAddress
<1>5. fire_next_point_r' = (cur_state_r = "DELAY" /\ ticks_cnt_r >= timestamp_w)
  BY <1>3 DEF FireNextPoint
<1>6. ticks_cnt_r' = IF cur_state_r = "DELAY" THEN (ticks_cnt_r + 1) % TickMod ELSE 0
  BY <1>1, <1>3 DEF Counters, CounterNext, OutputInv
<1>7. waited' = waited + 1
  BY <1>1 DEF Record
<1>8. cur_state_r = "DELAY" => fire_next_point_r' = (ticks_cnt_r >= timestamp_w)
  BY <1>5
<1>9. cur_state_r # "DELAY" => fire_next_point_r' = FALSE
  BY <1>5
<1>10. cur_state_r # "DELAY" => ticks_cnt_r' = 0
  BY <1>6
<1>11. cur_state_r = "DELAY" => ticks_cnt_r' = (ticks_cnt_r + 1) % TickMod
  BY <1>6
<1> QED
  BY <1>4, <1>7, <1>8, <1>9, <1>10, <1>11

LEMMA ShotInit == Init => ShotInv
  BY DEF Init, TCInit, ShotInv

\* The counter runs with the cycles, and no comparison is made with a word that has not
\* come through the block RAM yet.
LEMMA ShotStep ==
  ASSUME CoreInv, PipeInv, LongInv(ReadLatency), ShotInv, Next
  PROVE  ShotInv'
<1>1. CASE cur_state_r' # "DELAY"
  BY <1>1 DEF ShotInv
<1>2. CASE cur_state_r' = "DELAY" /\ cur_state_r # "DELAY"
  <2>1. ticks_cnt_r' = 0 /\ fire_next_point_r' = FALSE /\ waited' = 1
    <3>1. ticks_cnt_r' = 0 /\ fire_next_point_r' = FALSE /\ waited' = waited + 1
      BY <1>2, DelayStep
    <3>2. waited = 0
      BY <1>2 DEF CoreInv, OutputInv
    <3> QED
      BY <3>1, <3>2
  <2>2. ~(waited' > ReadLatency) /\ waited' - 1 = 0
    BY <2>1, MemoryAssumption
  <2> QED
    BY <2>1, <2>2 DEF ShotInv
<1>3. CASE cur_state_r' = "DELAY" /\ cur_state_r = "DELAY"
  <2>1. /\ ~fire_next_point_r /\ raddr_r' = raddr_r /\ waited' = waited + 1
        /\ ticks_cnt_r' = (ticks_cnt_r + 1) % TickMod
        /\ fire_next_point_r' = (ticks_cnt_r >= timestamp_w)
    BY <1>3, DelayStep
  <2>2. PICK ticks : ticks = LineTable[raddr_r].ticks
    OBVIOUS
  <2>3. ReadLatency \in Nat /\ TickMod \in Nat
    BY MemoryAssumption
  <2>4. /\ timestamp_w \in 0 .. TickMod - 1 /\ timestamp_w >= ReadLatency
        /\ waited > ReadLatency => timestamp_w = ticks
        /\ ticks >= ReadLatency
    BY <1>3, <2>2, <2>3, WordAtOutput
  <2>5. LineTable'[raddr_r'].ticks = ticks
    BY <1>3, <2>1, <2>2, TableStays DEF Firing
  <2>6. /\ waited \in Nat /\ waited >= 1 /\ ticks_cnt_r = waited - 1
        /\ waited > ReadLatency => ticks_cnt_r <= ticks
    BY <1>3, <2>1, <2>2 DEF ShotInv, CoreInv, OutputInv, LineTypeOK
  <2>7. CASE ticks_cnt_r >= timestamp_w
    <3>1. waited > ReadLatency
      BY <2>3, <2>4, <2>6, <2>7
    <3>2. ticks_cnt_r = ticks /\ waited' = ticks + 2
      BY <2>1, <2>3, <2>4, <2>6, <2>7, <3>1
    <3> QED
      BY <2>1, <2>5, <2>7, <3>2 DEF ShotInv
  <2>8. CASE ~(ticks_cnt_r >= timestamp_w)
    <3>1. ticks_cnt_r + 1 \in 0 .. TickMod - 1 /\ ticks_cnt_r + 1 <= timestamp_w
      BY <2>3, <2>4, <2>6, <2>8
    <3>2. ticks_cnt_r' = waited
      BY <2>1, <2>3, <2>6, <3>1
    <3>3. waited' > ReadLatency => waited <= ticks
      BY <2>1, <2>3, <2>4, <2>6, <3>1
    <3>4. waited' - 1 = waited
      BY <2>1, <2>6
    <3> QED
      BY <2>1, <2>5, <2>8, <3>2, <3>3, <3>4 DEF ShotInv
  <2> QED
    BY <2>7, <2>8
<1> QED
  BY <1>1, <1>2, <1>3

\* If every delay is at least the latency of the block RAM, a point is triggered exactly
\* ticks + 2 cycles after the line FSM began to wait for it, ticks being its own table
\* entry, never that of the point before (timingCore.v:124-129).
THEOREM ShotsInTime == ASSUME LongDelays(ReadLatency) PROVE Spec => ShotAtItsTime
<1>1. ReadLatency \in Nat
  BY MemoryAssumption
<1>2. CoreInv /\ PipeInv /\ LongInv(ReadLatency) /\ ShotInv /\ [Next]_lsvars => ShotInv'
  <2>1. ASSUME ShotInv, UNCHANGED lsvars PROVE ShotInv'
    BY <2>1 DEF lsvars, tcvars, lineRegs, edgeRegs, MM!bankRegs, MM!groupRegs, ShotInv, LineTable
  <2> QED
    BY <2>1, ShotStep
<1>3. CoreInv /\ ShotInv /\ [Next]_lsvars => [Fire => waited = LineTable[raddr_r].ticks + 2]_lsvars
  <2>1. ASSUME CoreInv, ShotInv, Next, Fire PROVE waited = LineTable[raddr_r].ticks + 2
    <3>1. fire_next_point_r
      BY <2>1 DEF Fire, Next, TCNext, TCClock, LineClock, LineState
    <3> QED
      BY <2>1, <3>1 DEF ShotInv, Fire
  <2> QED
    BY <2>1
<1>4. Init => LongInv(ReadLatency)
  BY <1>1, LongInit
<1>5. CoreInv /\ LongInv(ReadLatency) /\ [Next]_lsvars => LongInv(ReadLatency)'
  BY <1>1, LongInductive
<1> QED
  BY <1>2, <1>3, <1>4, <1>5, LineCore, PipeAlways, ShotInit, PTL DEF Spec, ShotAtItsTime

\* The registers of the laser driver.
DriverTypeOK ==
  /\ ld_state_r \in {"LASER_IDLE", "LASER_TRIGGER"} /\ pulse_over_r \in BOOLEAN
  /\ pulse_cnt_r \in 0 .. PulseMod - 1
  /\ ld_state_r = "LASER_TRIGGER" /\ ~pulse_over_r => pulse_cnt_r <= PulseLength

\* A trigger keeps the driver busy for PulseLength + 3 cycles, and without one the time
\* that is left runs down (laserDriver.v:45-85).
LEMMA DriverStep ==
  ASSUME DriverTypeOK, LD!LDClock, PulseLength >= 1, trigger_r \in BOOLEAN,
         trigger_r => Busy = 0
  PROVE  /\ DriverTypeOK'
         /\ Busy \in 0 .. PulseLength + 3 /\ Busy' \in 0 .. PulseLength + 3
         /\ ~trigger_r => Busy' < Busy \/ Busy' = 0
<1> USE DEF DriverTypeOK
<1>1. /\ PulseLength \in Nat /\ PulseMod \in Nat /\ PulseLength < PulseMod /\ PulseMod > 0
      /\ pulse_cnt_r \in Nat /\ pulse_cnt_r < PulseMod
  BY WidthAssumption
<1>2. LD!LaserState /\ LD!PulseOutput /\ LD!PulseOver
  BY DEF LD!LDClock
<1>3. pulse_over_r' \in BOOLEAN /\ (pulse_over_r' <=> pulse_cnt_r >= PulseLength)
  <2>1. pulse_cnt_r < PulseLength => ~(pulse_cnt_r >= PulseLength)
    BY <1>1
  <2> QED
    BY <1>2, <2>1 DEF LD!PulseOver
<1>4. (pulse_cnt_r + 1) % PulseMod \in 0 .. PulseMod - 1 /\ 0 \in 0 .. PulseMod - 1
  BY <1>1
<1>5. CASE ld_state_r = "LASER_IDLE"
  <2>1. pulse_cnt_r' = 0
    BY <1>2, <1>5 DEF LD!PulseOutput
  <2>2. CASE LD!trigger_w
    <3>1. trigger_r /\ ld_state_r' = "LASER_TRIGGER"
      BY <1>2, <1>5, <2>2 DEF LD!LaserState, LD!trigger_w
    <3>2. pulse_cnt_r = 0
      BY <1>5, <3>1 DEF Busy
    <3>3. ~(0 >= PulseLength) /\ ~pulse_over_r'
      BY <1>1, <1>3, <3>2
    <3>4. Busy = 0 /\ Busy' = PulseLength + 3 - 0
      BY <1>5, <2>1, <3>1, <3>2, <3>3 DEF Busy
    <3> QED
      BY <1>1, <1>3, <1>4, <2>1, <3>1, <3>4
  <2>3. CASE ~LD!trigger_w
    <3>1. ld_state_r' = "LASER_IDLE"
      BY <1>2, <1>5, <2>3 DEF LD!LaserState
    <3>2. Busy \in {0, 1} /\ Busy' = 0
      BY <1>5, <2>1, <3>1 DEF Busy
    <3> QED
      BY <1>1, <1>3, <1>4, <2>1, <3>1, <3>2
  <2> QED
    BY <2>2, <2>3
<1>6. CASE ld_state_r = "LASER_TRIGGER" /\ pulse_over_r
  <2>1. ld_state_r' = "LASER_IDLE"
    BY <1>2, <1>6 DEF LD!LaserState
  <2>2. pulse_cnt_r' \in 0 .. PulseMod - 1
    BY <1>2, <1>4, <1>6 DEF LD!PulseOutput
  <2>3. Busy = 2 /\ Busy' \in {0, 1}
    BY <1>6, <2>1 DEF Busy
  <2>4. Busy' < Busy
    BY <2>3
  <2> QED
    BY <1>1, <1>3, <2>1, <2>2, <2>3, <2>4
<1>7. CASE ld_state_r = "LASER_TRIGGER" /\ ~pulse_over_r
  <2>1. ld_state_r' = "LASER_TRIGGER" /\ pulse_cnt_r' = (pulse_cnt_r + 1) % PulseMod
    BY <1>2, <1>7 DEF LD!LaserState, LD!PulseOutput
  <2>2. pulse_cnt_r <= PulseLength /\ Busy = PulseLength + 3 - pulse_cnt_r
    BY <1>7 DEF Busy
  <2>3. CASE pulse_cnt_r = PulseLength
    <3>1. pulse_over_r'
      BY <1>1, <1>3, <2>3
    <3>2. Busy = 3 /\ Busy' = 2 /\ Busy' < Busy
      BY <1>1, <2>1, <2>2, <2>3, <3>1 DEF Busy
    <3> QED
      BY <1>1, <1>3, <1>4, <2>1, <3>1, <3>2
  <2>4. CASE pulse_cnt_r # PulseLength
    <3>1. pulse_cnt_r < PulseLength /\ pulse_cnt_r + 1 \in 0 .. PulseMod - 1
      BY <1>1, <2>2, <2>4
    <3>2. pulse_cnt_r' = pulse_cnt_r + 1
      BY <1>1, <2>1, <3>1
    <3>3. ~pulse_over_r'
      BY <1>1, <1>3, <3>1
    <3>4. Busy' = PulseLength + 3 - (pulse_cnt_r + 1)
      BY <2>1, <3>2, <3>3 DEF Busy
    <3>5. Busy' < Busy /\ Busy' \in 0 .. PulseLength + 3 /\ Busy \in 0 .. PulseLength + 3
      BY <1>1, <2>2, <3>1, <3>4
    <3>6. pulse_cnt_r' \in 0 .. PulseMod - 1 /\ pulse_cnt_r' <= PulseLength
      BY <1>1, <3>1, <3>2
    <3> QED
      BY <1>3, <2>1, <3>5, <3>6
  <2> QED
    BY <2>3, <2>4
<1> QED
  BY <1>5, <1>6, <1>7

LEMMA BusyInit == Init => BusyInv
<1>1. 0 \in 0 .. PulseMod - 1
  BY WidthAssumption
<1> QED
  BY <1>1 DEF Init, TCInit, LD!LDInit, BusyInv, Busy

\* The next trigger comes later than the driver is ready.
LEMMA BusyStep ==
  ASSUME PulseLength >= 1, CoreInv, PipeInv, LongInv(PulseLength + 1), BusyInv, Next
  PROVE  BusyInv'
<1>1. LineTypeOK /\ OutputInv
  BY DEF CoreInv
<1>2. PICK zc_i \in BOOLEAN : LineClock(zc_i)
  BY DEF Next, TCNext, TCClock
<1>3. LineState /\ LineOutputs
  BY <1>2 DEF LineClock
<1>4. DriverTypeOK /\ LD!LDClock /\ trigger_r \in BOOLEAN
  BY <1>1 DEF BusyInv, DriverTypeOK, Next, TCNext, TCClock, LineTypeOK
<1>5. /\ DriverTypeOK'
      /\ Busy \in 0 .. PulseLength + 3 /\ Busy' \in 0 .. PulseLength + 3
      /\ ~trigger_r => Busy' < Busy \/ Busy' = 0
  BY <1>4, DriverStep DEF BusyInv
<1>6. PulseLength \in Nat /\ TickMod \in Nat /\ TickMod > 0 /\ ticks_cnt_r \in Nat
  BY <1>1, WidthAssumption, MemoryAssumption DEF LineTypeOK
<1>7. trigger_r' => Busy' = 0
  <2>1. trigger_r' => cur_state_r = "TRIGGER"
    BY <1>3 DEF LineOutputs
  <2>2. cur_state_r = "TRIGGER" => ~trigger_r /\ Busy <= 1
    BY <1>1 DEF OutputInv, BusyInv
  <2> QED
    BY <1>5, <1>6, <2>1, <2>2
<1>8. cur_state_r' = "TRIGGER" => Busy' <= 1
  <2>1. cur_state_r' = "TRIGGER" => cur_state_r = "DELAY" /\ fire_next_point_r
    BY <1>3 DEF LineState
  <2>2. cur_state_r' = "TRIGGER" => ~trigger_r /\ Busy <= 2
    BY <1>1, <2>1 DEF OutputInv, BusyInv
  <2> QED
    BY <1>5, <1>6, <2>2
<1>9. CASE cur_state_r' = "DELAY" /\ cur_state_r = "DELAY"
  <2>1. /\ ~fire_next_point_r /\ ticks_cnt_r' = (ticks_cnt_r + 1) % TickMod
        /\ fire_next_point_r' = (ticks_cnt_r >= timestamp_w)
    BY <1>9, DelayStep
  <2>2. Busy + ticks_cnt_r <= PulseLength + 4 \/ Busy = 0
    BY <1>9 DEF BusyInv
  <2>3. trigger_r => ticks_cnt_r = 0 /\ Busy = 0
    BY <1>1 DEF OutputInv, BusyInv
  <2>4. timestamp_w \in 0 .. TickMod - 1 /\ timestamp_w >= PulseLength + 1
    BY <1>6, <1>9, WordAtOutput
  <2>5. fire_next_point_r' => Busy' <= 2
    <3>1. fire_next_point_r' => ticks_cnt_r >= PulseLength + 1
      <4>1. PICK ts \in 0 .. TickMod - 1 : ts = timestamp_w
        BY <2>4
      <4>2. ts \in Nat /\ ts >= PulseLength + 1
        BY <1>6, <2>4, <4>1
      <4>3. fire_next_point_r' => ticks_cnt_r >= ts
        BY <2>1, <4>1
      <4> QED
        BY <1>6, <4>2, <4>3
    <3>2. fire_next_point_r' => ~trigger_r /\ Busy <= 3
      BY <1>5, <1>6, <2>2, <2>3, <3>1
    <3> QED
      BY <1>5, <1>6, <3>2
  <2>6. ticks_cnt_r' \in Nat /\ ticks_cnt_r' <= ticks_cnt_r + 1
    BY <1>6, <2>1
  <2>7. PICK b \in Nat, c \in Nat, k \in Nat, l \in Nat :
          b = Busy /\ c = Busy' /\ k = ticks_cnt_r /\ l = ticks_cnt_r'
    BY <1>5, <1>6, <2>6
  <2>8. c + l <= PulseLength + 4 \/ c = 0
    <3>1. CASE trigger_r
      <4>1. l <= 1 /\ c <= PulseLength + 3
        BY <1>5, <1>6, <2>3, <2>6, <2>7, <3>1
      <4> QED
        BY <1>6, <4>1
    <3>2. CASE ~trigger_r
      <4>1. (c < b \/ c = 0) /\ l <= k + 1 /\ (b + k <= PulseLength + 4 \/ b = 0)
        BY <1>5, <2>2, <2>6, <2>7, <3>2
      <4> QED
        BY <1>6, <4>1
    <3> QED
      BY <3>1, <3>2
  <2>9. Busy' + ticks_cnt_r' <= PulseLength + 4 \/ Busy' = 0
    BY <2>7, <2>8
  <2> QED
    BY <1>5, <1>7, <1>9, <2>5, <2>9 DEF BusyInv, DriverTypeOK
<1>10. CASE cur_state_r' = "DELAY" /\ cur_state_r # "DELAY"
  <2>1. ticks_cnt_r' = 0 /\ fire_next_point_r' = FALSE
    BY <1>10, DelayStep
  <2>2. PICK c \in 0 .. PulseLength + 3 : c = Busy'
    BY <1>5
  <2>3. c + 0 <= PulseLength + 4
    BY <1>6
  <2>4. Busy' + ticks_cnt_r' <= PulseLength + 4
    BY <2>1, <2>2, <2>3
  <2> QED
    BY <1>5, <1>7, <1>10, <2>1, <2>4 DEF BusyInv, DriverTypeOK
<1>11. CASE cur_state_r' # "DELAY"
  BY <1>5, <1>7, <1>8, <1>11 DEF BusyInv, DriverTypeOK
<1> QED
  BY <1>9, <1>10, <1>11

\* If every delay exceeds the pulse length, which is not zero, no trigger for an active
\* point finds the laser driver busy with the pulse before, or its counter not yet cleared:
\* no shot is lost or cut to one cycle, whatever the tables (laserDriver.v:45-85).
THEOREM ShotsKept ==
  ASSUME PulseLength >= 1, LongDelays(PulseLength + 1) PROVE Spec => []NoShotLost
<1>1. PulseLength \in Nat /\ PulseLength + 1 \in Nat
  BY WidthAssumption
<1>2. Init => LongInv(PulseLength + 1)
  BY <1>1, LongInit
<1>3. CoreInv /\ LongInv(PulseLength + 1) /\ [Next]_lsvars => LongInv(PulseLength + 1)'
  BY <1>1, LongInductive
<1>4. CoreInv /\ PipeInv /\ LongInv(PulseLength + 1) /\ BusyInv /\ [Next]_lsvars => BusyInv'
  <2>1. ASSUME BusyInv, UNCHANGED lsvars PROVE BusyInv'
    BY <2>1 DEF lsvars, tcvars, lineRegs, edgeRegs, LD!ldRegs, BusyInv, Busy
  <2> QED
    BY <2>1, BusyStep
<1>5. CoreInv /\ LongInv(PulseLength + 1) /\ BusyInv => NoShotLost
  <2>1. ASSUME CoreInv, LongInv(PulseLength + 1), NEW b \in Banks, NEW m \in Memories,
               NEW a \in Addresses
        PROVE  table[b][m][a].ticks > PulseLength
    <3>1. table[b][m][a].ticks >= PulseLength + 1 /\ table[b][m][a].ticks \in Nat
      BY <2>1 DEF LongInv, CoreInv, LineTypeOK, Words
    <3> QED
      BY <1>1, <3>1
  <2>2. ASSUME BusyInv, trigger_r PROVE ld_state_r = "LASER_IDLE" /\ pulse_cnt_r < PulseLength
    BY <1>1, <2>2, WidthAssumption DEF BusyInv, Busy
  <2> QED
    BY <2>1, <2>2 DEF NoShotLost
<1> QED
  BY <1>2, <1>3, <1>4, <1>5, LineCore, PipeAlways, BusyInit, PTL DEF Spec
=============================================================================
