------------------------- MODULE TableUpdate_proofs -------------------------
(***************************************************************************)
(* Proof that an update writes every word of every frame once, and that    *)
(* the bank that is played lacks none, for all frames, all times of a      *)
(* point and all latencies of the arithmetic chain.                        *)
(*                                                                         *)
(* Two arguments meet.  A swap of the banks goes through four registers    *)
(* before an update begins, and the line that causes it keeps the next one *)
(* away until mem_updated is withdrawn (SwapInv, FrozenInv).  And the two  *)
(* pulses of the chain alternate, because a gap in the stream of operands  *)
(* is never so short that an update could miss a pulse when it begins      *)
(* (ChainInv, PhaseInv), so that the address, stepped by one of them, and  *)
(* the counters, stepped by the other, stay together (CountInv).           *)
(***************************************************************************)
EXTENDS TableUpdate, SequenceTheorems, WellFoundedInduction, TLAPS

\* The line FSM does not report lines faster than a swap takes.
LinesApart == MinLine >= 6

\* The registers that a swap goes through, one cycle each, since the line that caused it.
SwapInv ==
  /\ mem_sel_cur_state_r \in MM!Playing \cup MM!Waiting
  /\ mem_cycles_cnt_r \in 0 .. MemCyclesP
  /\ quiet \in 0 .. MinLine
  /\ new_line_i => quiet = 0
  /\ mem_cycles_cnt_r = MemCyclesP => quiet = 1
  /\ quiet \notin 1 .. 2 => update_mem_r = (MM!front = 0)
  /\ quiet \notin 2 .. 3 => mem_switch_r[1] = update_mem_r
  /\ quiet \notin 3 .. 4 => mem_switch_r[2] = mem_switch_r[1]
  /\ ticks_update_r => quiet \in 4 .. 5

\* While a table is computed, the bank that is played is the one that update_mem shows.
FrozenInv ==
  /\ cur_state_r # "IDLE" => update_mem_r = (MM!front = 0)
  /\ cur_state_r # "IDLE" /\ mem_updated_r => quiet \in 5 .. 6

UnitOK(unit) ==
  /\ unit = [left |-> unit.left, op |-> unit.op]
  /\ unit.left \in Nat /\ unit.op \in Int
  /\ unit.op = NoOperand => unit = Off

\* The operands in the chain, from the units before arcTan to those behind it.
Stage(i) == IF i = 0 THEN ResultOf(front_unit)
            ELSE IF i = DrainDelay + 1 THEN back_unit.op ELSE delay_line[i]

\* A gap between two operands is at least two cycles wide, all along the chain, so the
\* valid level at its end stays low for three cycles.
ChainInv ==
  /\ UnitOK(front_unit) /\ UnitOK(back_unit)
  /\ delay_line \in Seq(Int) /\ Len(delay_line) = DrainDelay
  /\ dtTick_states_r \in BOOLEAN \X BOOLEAN
  /\ new_dtTick_r \in BOOLEAN /\ next_dtTick_r \in BOOLEAN
  /\ Stage(1) # NoOperand /\ Stage(0) = NoOperand => front_unit = Off
  /\ \A i \in 1 .. DrainDelay :
       Stage(i + 1) # NoOperand /\ Stage(i) = NoOperand => Stage(i - 1) = NoOperand
  /\ dtTick_states_r[1] /\ ~Ready(back_unit) => back_unit = Off /\ Stage(DrainDelay) = NoOperand
  /\ ~dtTick_states_r[1] /\ dtTick_states_r[2] => back_unit = Off
  /\ next_dtTick_r => ~dtTick_states_r[1] /\ ~dtTick_states_r[2] /\ ~Ready(back_unit)
  /\ new_dtTick_r => dtTick_states_r[2]

\* The level of which the two pulses are the edges, up to the last pulse taken.
Level == (dtTick_states_r[2] /\ ~new_dtTick_r) \/ next_dtTick_r

\* The phases of an update and the flags that end them.
PhaseInv ==
  /\ cur_state_r \in {"IDLE", "EDGE_TICKS", "MEM_UPDATE"}
  /\ cur_state_r = "IDLE" => ~edgeTicks_stored_r /\ ~edgeTicks_saved_r
  /\ cur_state_r # "MEM_UPDATE" => ~mem_update_over_r /\ ~we_r
  /\ mem_update_over_r => we_r
  /\ we_r => Level
  /\ cur_state_r = "EDGE_TICKS" /\ edgeTicks_stored_r => ~dtTick_states_r[2]
  /\ cur_state_r = "EDGE_TICKS" /\ edgeTicks_stored_r /\ ~edgeTicks_saved_r => ~dtTick_states_r[1]
  /\ cur_state_r = "EDGE_TICKS" /\ edgeTicks_saved_r => edgeTicks_stored_r
  /\ cur_state_r = "EDGE_TICKS" => waddr_r = 0 /\ frame_number_cnt_r = 0
                                   /\ passages_cnt_r = 0 /\ line_points_cnt_r = 0

\* The point that the counters show, as a column, and the cells from there on.
Column == passages_cnt_r * LinePoints + line_points_cnt_r
NextColumn(c) == IF c < FrameColumns - 1 THEN c + 1 ELSE 0
Rest(f, c) == {cell \in Cells : cell[1] > f \/ (cell[1] = f /\ cell[2] >= c)}

CounterOK ==
  /\ frame_number_cnt_r \in 0 .. FrameNumber - 1 /\ passages_cnt_r \in 0 .. Passages - 1
  /\ line_points_cnt_r \in 0 .. LinePoints - 1
  /\ waddr_r \in 0 .. FrameColumns - 1 /\ mem_select_r \in 0 .. FrameNumber - 1
  /\ theta_data_r \in Nat /\ theta_aux0_r \in Nat /\ theta_aux1_r \in Nat /\ theta_ref_r \in Nat
  /\ missing \in [Banks -> SUBSET Cells]

\* Before the time of a point comes, when its word is written, and until the next point
\* is asked for.
Awaiting == /\ ~Level /\ ~we_r /\ ~mem_update_over_r
            /\ waddr_r = Column /\ missing[back_bank] = Rest(frame_number_cnt_r, Column)

Writing == /\ Level /\ we_r
           /\ missing[back_bank] = Rest(mem_select_r, waddr_r)
           /\ mem_update_over_r <=> mem_select_r = FrameNumber - 1 /\ waddr_r = FrameColumns - 1
           /\ Column = NextColumn(waddr_r)
           /\ ~mem_update_over_r =>
                frame_number_cnt_r = IF Column = 0 THEN mem_select_r + 1 ELSE mem_select_r

Written == /\ Level /\ ~we_r /\ ~mem_update_over_r
           /\ Column = NextColumn(waddr_r)
           /\ missing[back_bank] = Rest(frame_number_cnt_r, Column)

CountInv ==
  /\ missing[BankRead(update_mem_r)] = {}
  /\ cur_state_r = "IDLE" => missing[back_bank] = {}
  /\ cur_state_r = "EDGE_TICKS" => missing[back_bank] = Cells
  /\ cur_state_r = "MEM_UPDATE" => Awaiting \/ Writing \/ Written

UpdateInv == SwapInv /\ FrozenInv /\ ChainInv /\ PhaseInv /\ CounterOK /\ CountInv
-----------------------------------------------------------------------------
\* The constants.
LEMMA Sizes ==
  /\ FrameNumber \in Nat \ {0} /\ LinePoints \in Nat \ {0} /\ Passages \in Nat \ {0}
  /\ FrameColumns \in Nat \ {0} /\ FrameColumns <= AddrMod /\ AddrMod \in Nat \ {0}
  /\ FrameColumns = LinePoints * Passages
  /\ MinLine \in Nat /\ DrainDelay \in Nat \ {0}
<1>1. /\ FrameNumber \in Nat \ {0} /\ LinePoints \in Nat \ {0} /\ FrameColumns \in Nat \ {0}
      /\ FrameColumns <= AddrMod /\ AddrMod \in Nat \ {0} /\ FrameColumns = LinePoints * Passages
      /\ MinLine \in Nat /\ DrainDelay \in Nat \ {0}
  BY FrameAssumption, MemoryAssumption, LatencyAssumption
<1>2. Passages \in Int
  BY <1>1 DEF Passages
<1>3. Passages > 0
  BY <1>1, <1>2
<1> QED
  BY <1>1, <1>2, <1>3

\* The bank FSM changes the bank only in the cycle of a line or in the one after it, and
\* only while mem_updated is up (memoryManager.v:68-98).
LEMMA SwapCause ==
  ASSUME SwapInv, MM!BankSelection
  PROVE  /\ mem_sel_cur_state_r' \in MM!Playing \cup MM!Waiting
         /\ quiet \notin 0 .. 1 => MM!front' = MM!front
         /\ ~mem_updated_r => MM!front' = MM!front
<1>1. MemCyclesP \in Nat \ {0} /\ mem_cycles_cnt_r \in 0 .. MemCyclesP
  BY QuotaPortAssumption DEF SwapInv
<1>2. ~MM!mem_ok_w => quiet = 1
  <2>1. ~MM!mem_ok_w => mem_cycles_cnt_r = MemCyclesP
    BY <1>1 DEF MM!mem_ok_w
  <2> QED
    BY <2>1 DEF SwapInv
<1>3. CASE MM!KeepPlaying \/ MM!KeepWaiting
  BY <1>3 DEF MM!KeepPlaying, MM!KeepWaiting, MM!front, SwapInv
<1>4. CASE MM!StartWaiting
  BY <1>4 DEF MM!StartWaiting, MM!front, MM!WaitFor, MM!BankOf, MM!Playing, MM!Waiting
<1>5. CASE MM!SwapOnQuota
  BY <1>2, <1>5 DEF MM!SwapOnQuota, MM!PlayOther, MM!Playing, MM!Waiting
<1>6. CASE MM!SwapOnLine
  BY <1>6 DEF MM!SwapOnLine, MM!PlayOther, MM!Playing, MM!Waiting, SwapInv
<1> QED
  BY <1>3, <1>4, <1>5, <1>6 DEF MM!BankSelection

\* The counter of lines reaches the quota only in the cycle after a line
\* (memoryManager.v:88-98).
LEMMA QuotaStep ==
  ASSUME LinesApart, SwapInv, MM!MemCyclesCnt, LineReports
  PROVE  /\ mem_cycles_cnt_r' \in 0 .. MemCyclesP
         /\ mem_cycles_cnt_r' = MemCyclesP => quiet' = 1
         /\ quiet' \in 0 .. MinLine /\ (new_line_i' => quiet' = 0)
<1>1. /\ MemCyclesP \in Nat \ {0} /\ CycleMod \in Nat \ {0} /\ MinLine \in Nat /\ MinLine >= 6
      /\ mem_cycles_cnt_r \in 0 .. MemCyclesP /\ quiet \in 0 .. MinLine
  BY QuotaPortAssumption, Sizes DEF SwapInv, LinesApart
<1>2. quiet' \in 0 .. MinLine /\ (new_line_i' => quiet' = 0)
  BY <1>1 DEF LineReports
<1>3. CASE new_line_i
  <2>1. quiet = 0 /\ mem_cycles_cnt_r # MemCyclesP
    BY <1>3 DEF SwapInv
  <2>2. quiet' = 1
    BY <1>1, <2>1 DEF LineReports
  <2>3. mem_cycles_cnt_r' = (mem_cycles_cnt_r + 1) % CycleMod
    BY <1>3 DEF MM!MemCyclesCnt
  <2>4. mem_cycles_cnt_r' \in 0 .. mem_cycles_cnt_r + 1
    BY <1>1, <2>3
  <2> QED
    BY <1>1, <1>2, <2>1, <2>2, <2>4
<1>4. CASE ~new_line_i /\ MM!mem_ok_w
  <2>1. mem_cycles_cnt_r' = mem_cycles_cnt_r /\ mem_cycles_cnt_r <= MemCyclesP - 1
    BY <1>4 DEF MM!MemCyclesCnt, MM!mem_ok_w
  <2> QED
    BY <1>1, <1>2, <2>1
<1>5. CASE ~new_line_i /\ ~MM!mem_ok_w
  <2>1. mem_cycles_cnt_r' = 0
    BY <1>5 DEF MM!MemCyclesCnt
  <2> QED
    BY <1>1, <1>2, <2>1
<1> QED
  BY <1>3, <1>4, <1>5

\* A cycle of the registers that follow a swap (memoryManager.v:101-111,
\* laserSynchronizer.v:139-157).
LEMMA SwapStep ==
  ASSUME LinesApart, SwapInv, SyncNext
  PROVE  SwapInv'
<1>1. /\ MM!BankSelection /\ MM!MemCyclesCnt /\ MM!UpdateMem /\ MemorySwitch /\ LineReports
  BY DEF SyncNext, SyncClock, MM!Clock, MM!BankClock
<1>2. /\ mem_cycles_cnt_r' \in 0 .. MemCyclesP
      /\ mem_cycles_cnt_r' = MemCyclesP => quiet' = 1
      /\ quiet' \in 0 .. MinLine /\ (new_line_i' => quiet' = 0)
  BY <1>1, QuotaStep
<1>3. /\ mem_sel_cur_state_r' \in MM!Playing \cup MM!Waiting
      /\ quiet \notin 0 .. 1 => MM!front' = MM!front
  BY <1>1, SwapCause
<1>4. /\ update_mem_r' = (MM!front = 0)
      /\ mem_switch_r'[1] = update_mem_r /\ mem_switch_r'[2] = mem_switch_r[1]
      /\ ticks_update_r' => mem_switch_r[2] # mem_switch_r[1]
  <2>1. update_mem_r' = (MM!front = 0)
    BY <1>1 DEF MM!UpdateMem, MM!front, MM!BankOf, MM!Playing, MM!Waiting, SwapInv
  <2>2. mem_switch_r' = <<update_mem_r, mem_switch_r[1]>>
        /\ ticks_update_r' = (mem_switch_r[1] # mem_switch_r[2])
    BY <1>1 DEF MemorySwitch
  <2>3. mem_switch_r'[1] = update_mem_r /\ mem_switch_r'[2] = mem_switch_r[1]
    BY <2>2
  <2> QED
    BY <2>1, <2>2, <2>3
<1>5. PICK q \in 0 .. MinLine, r \in 0 .. MinLine : q = quiet /\ r = quiet'
  BY <1>2 DEF SwapInv
<1>6. r = q + 1 \/ (q = MinLine /\ r \in {0, MinLine})
  BY <1>1, <1>5, Sizes DEF LineReports
<1>7. MinLine \in Nat /\ MinLine >= 6
  BY Sizes DEF LinesApart
<1>8. /\ r \notin 1 .. 2 => q \notin 0 .. 1
      /\ r \notin 2 .. 3 => q \notin 1 .. 2
      /\ r \notin 3 .. 4 => q \notin 2 .. 3
      /\ q \in 3 .. 4 => r \in 4 .. 5
  BY <1>5, <1>6, <1>7
<1> QED
  BY <1>2, <1>3, <1>4, <1>5, <1>8 DEF SwapInv

\* The banks stay in place from the step that begins an update to the one that ends it
\* (laserSynchronizer.v:98-157).
LEMMA FrozenStep ==
  ASSUME LinesApart, SwapInv, FrozenInv, SyncNext
  PROVE  /\ FrozenInv'
         /\ cur_state_r # "IDLE" \/ cur_state_r' # "IDLE" => update_mem_r' = update_mem_r
<1>1. MM!BankSelection /\ MM!UpdateMem /\ MemorySwitch /\ LineReports /\ SyncState
  BY DEF SyncNext, SyncClock, MM!Clock, MM!BankClock
<1>2. /\ quiet \notin 0 .. 1 => MM!front' = MM!front
      /\ ~mem_updated_r => MM!front' = MM!front
  BY <1>1, SwapCause
<1>3. update_mem_r' = (MM!front = 0)
  BY <1>1 DEF MM!UpdateMem, MM!front, MM!BankOf, MM!Playing, MM!Waiting, SwapInv
<1>4. mem_updated_r' => cur_state_r = "IDLE"
  BY <1>1 DEF MemorySwitch, SyncState
<1>5. CASE cur_state_r # "IDLE"
  <2>1. MM!front' = MM!front
    BY <1>2, <1>5 DEF FrozenInv
  <2>2. update_mem_r = (MM!front = 0)
    BY <1>5 DEF FrozenInv
  <2> QED
    BY <1>3, <1>4, <1>5, <2>1, <2>2 DEF FrozenInv
<1>6. CASE cur_state_r = "IDLE" /\ cur_state_r' # "IDLE"
  <2>1. quiet \in 4 .. 5
    BY <1>1, <1>6 DEF SyncState, SwapInv
  <2>2. MM!front' = MM!front /\ update_mem_r = (MM!front = 0)
    BY <1>2, <2>1 DEF SwapInv
  <2>3. quiet' \in 5 .. 6
    BY <1>1, <2>1, Sizes DEF LineReports, LinesApart
  <2> QED
    BY <1>3, <2>2, <2>3 DEF FrozenInv
<1>7. CASE cur_state_r = "IDLE" /\ cur_state_r' = "IDLE"
  BY <1>7 DEF FrozenInv
<1> QED
  BY <1>5, <1>6, <1>7
-----------------------------------------------------------------------------
\* A clock edge of a unit (HandshakeUnit).
LEMMA UnitStep ==
  ASSUME NEW unit, UnitOK(unit), NEW operand \in Int, NEW latency \in Nat \ {0}
  PROVE  /\ UnitOK(Step(unit, operand, latency))
         /\ Step(unit, operand, latency).op = NoOperand <=> operand = NoOperand
         /\ operand = NoOperand => Step(unit, operand, latency) = Off
         /\ Ready(unit) /\ operand # NoOperand => Ready(Step(unit, operand, latency))
         /\ unit = Off => ~Ready(Step(unit, operand, latency))
<1> DEFINE next == Step(unit, operand, latency)
<1>1. CASE operand = NoOperand
  BY <1>1 DEF Step, UnitOK, Off, NoOperand, Ready
<1>2. CASE operand # NoOperand /\ unit = Off
  BY <1>2 DEF Step, UnitOK, Off, NoOperand, Ready
<1>3. CASE operand # NoOperand /\ unit # Off /\ unit.left > 0
  <2>1. next = [left |-> unit.left - 1, op |-> unit.op]
    BY <1>3 DEF Step, UnitOK
  <2>2. unit.left \in Nat /\ unit.op \in Int /\ unit.op # NoOperand
    BY <1>3 DEF UnitOK
  <2> QED
    BY <1>3, <2>1, <2>2 DEF UnitOK, Ready
<1>4. CASE operand # NoOperand /\ unit # Off /\ ~(unit.left > 0)
  <2>1. next = unit
    BY <1>4 DEF Step
  <2>2. unit.op # NoOperand
    BY <1>4 DEF UnitOK
  <2> QED
    BY <1>4, <2>1, <2>2
<1> QED
  BY <1>1, <1>2, <1>3, <1>4

\* A clock edge of the shift register: the operand at each place moves to the next
\* (arcTan.v).
LEMMA ShiftStep ==
  ASSUME NEW x \in Int, NEW line \in Seq(Int), NEW n \in Nat \ {0}, Len(line) = n
  PROVE  LET next == <<x>> \o SubSeq(line, 1, n - 1)
         IN  /\ next \in Seq(Int) /\ Len(next) = n /\ next[1] = x
             /\ \A i \in 2 .. n : next[i] = line[i - 1]
<1> DEFINE tail == SubSeq(line, 1, n - 1)
           next == <<x>> \o tail
<1>1. tail \in Seq(Int) /\ Len(tail) = n - 1 /\ \A i \in 1 .. n - 1 : tail[i] = line[i]
  <2>1. 1 \in 1 .. n + 1 /\ n - 1 \in 0 .. n
    OBVIOUS
  <2> QED
    BY <2>1, SubSeqProperties
<1>2. <<x>> \in Seq(Int) /\ Len(<<x>>) = 1 /\ <<x>>[1] = x
  OBVIOUS
<1> HIDE DEF tail
<1>3. /\ next \in Seq(Int) /\ Len(next) = 1 + (n - 1)
      /\ \A i \in 1 .. 1 + (n - 1) : next[i] = IF i <= 1 THEN <<x>>[i] ELSE tail[i - 1]
  BY <1>1, <1>2, ConcatProperties
<1>4. next[1] = x
  BY <1>2, <1>3
<1>5. ASSUME NEW i \in 2 .. n PROVE next[i] = line[i - 1]
  <2>1. i \in 1 .. 1 + (n - 1) /\ ~(i <= 1) /\ i - 1 \in 1 .. n - 1
    OBVIOUS
  <2>2. next[i] = tail[i - 1]
    BY <1>3, <2>1
  <2> QED
    BY <1>1, <2>1, <2>2
<1> QED
  BY <1>3, <1>4, <1>5 DEF tail

\* A clock edge of the chain, seen at its stages (cordicManager.v:66-78).
LEMMA StageStep ==
  ASSUME ChainInv, theta_data_r \in Int, ChainClock(theta_valid_r, theta_data_r)
  PROVE  /\ UnitOK(front_unit)' /\ UnitOK(back_unit)'
         /\ delay_line' \in Seq(Int) /\ Len(delay_line') = DrainDelay
         /\ \A i \in 1 .. DrainDelay : Stage(i)' = Stage(i - 1)
         /\ Stage(DrainDelay + 1)' = NoOperand <=> Stage(DrainDelay) = NoOperand
         /\ front_unit = Off => Stage(0)' = NoOperand
         /\ Stage(0) # NoOperand /\ Stage(0)' = NoOperand => front_unit' = Off
         /\ Stage(DrainDelay) = NoOperand => back_unit' = Off
         /\ back_unit = Off => ~Ready(back_unit')
         /\ Ready(back_unit) /\ ~Ready(back_unit') => Stage(DrainDelay) = NoOperand
<1>1. /\ FrontLatency \in Nat \ {0} /\ BackLatency \in Nat \ {0} /\ DrainDelay \in Nat \ {0}
  BY LatencyAssumption
<1>2. UnitOK(front_unit) /\ UnitOK(back_unit) /\ delay_line \in Seq(Int)
      /\ Len(delay_line) = DrainDelay
  BY DEF ChainInv
<1>3. PICK o \in Int : o = IF theta_valid_r THEN theta_data_r ELSE NoOperand
  BY DEF NoOperand
<1>4. /\ front_unit' = Step(front_unit, o, FrontLatency)
      /\ delay_line' = <<ResultOf(front_unit)>> \o SubSeq(delay_line, 1, DrainDelay - 1)
      /\ back_unit' = Step(back_unit, delay_line[DrainDelay], BackLatency)
  BY <1>3 DEF ChainClock
<1>5. ResultOf(front_unit) \in Int /\ (ResultOf(front_unit) = NoOperand <=> ~Ready(front_unit))
  BY <1>2 DEF ResultOf, Ready, NoOperand, UnitOK
<1>6. /\ delay_line' \in Seq(Int) /\ Len(delay_line') = DrainDelay
      /\ delay_line'[1] = ResultOf(front_unit)
      /\ \A i \in 2 .. DrainDelay : delay_line'[i] = delay_line[i - 1]
  BY <1>1, <1>2, <1>4, <1>5, ShiftStep
<1>7. delay_line[DrainDelay] \in Int /\ Stage(DrainDelay) = delay_line[DrainDelay]
  BY <1>1, <1>2 DEF Stage
<1>8. /\ UnitOK(front_unit')
      /\ front_unit = Off => ~Ready(front_unit')
      /\ Ready(front_unit) /\ ~Ready(front_unit') => front_unit' = Off
  BY <1>1, <1>2, <1>4, UnitStep
<1>9. /\ UnitOK(back_unit')
      /\ back_unit'.op = NoOperand <=> Stage(DrainDelay) = NoOperand
      /\ Stage(DrainDelay) = NoOperand => back_unit' = Off
      /\ back_unit = Off => ~Ready(back_unit')
      /\ Ready(back_unit) /\ ~Ready(back_unit') => Stage(DrainDelay) = NoOperand
  BY <1>1, <1>2, <1>4, <1>7, UnitStep
<1>10. UnitOK(front_unit)' /\ UnitOK(back_unit)'
  BY <1>8, <1>9 DEF UnitOK
<1>11. ASSUME NEW i \in 1 .. DrainDelay PROVE Stage(i)' = Stage(i - 1)
  <2>1. Stage(i)' = delay_line'[i]
    BY <1>1 DEF Stage
  <2>2. CASE i = 1
    BY <1>6, <2>1, <2>2 DEF Stage
  <2>3. CASE i # 1
    <3>1. i \in 2 .. DrainDelay /\ i - 1 # 0 /\ i - 1 # DrainDelay + 1
      BY <1>1, <2>3
    <3> QED
      BY <1>6, <2>1, <3>1 DEF Stage
  <2> QED
    BY <2>2, <2>3
<1>12. Stage(DrainDelay + 1)' = back_unit'.op
  BY <1>1 DEF Stage
<1>13. /\ Stage(0) # NoOperand <=> Ready(front_unit)
       /\ Stage(0)' # NoOperand <=> Ready(front_unit')
  <2>1. Stage(0)' = ResultOf(front_unit')
    BY DEF Stage, ResultOf, Ready
  <2>2. ResultOf(front_unit') = NoOperand <=> ~Ready(front_unit')
    BY DEF ResultOf, Ready
  <2> QED
    BY <1>5, <2>1, <2>2 DEF Stage
<1> QED
  BY <1>6, <1>8, <1>9, <1>10, <1>11, <1>12, <1>13

\* Every clock edge keeps the gaps wide, and the pulses are the edges of one level
\* (cordicManager.v:66-78).
LEMMA ChainStep ==
  ASSUME ChainInv, theta_data_r \in Int, ChainClock(theta_valid_r, theta_data_r)
  PROVE  /\ ChainInv'
         /\ Level' <=> dtTick_states_r[2]
         /\ dtTick_states_r'[2] <=> dtTick_states_r[1]
         /\ next_dtTick_r => ~dtTick_states_r'[1] /\ ~dtTick_states_r'[2]
<1>1. /\ UnitOK(front_unit)' /\ UnitOK(back_unit)'
      /\ delay_line' \in Seq(Int) /\ Len(delay_line') = DrainDelay
      /\ \A i \in 1 .. DrainDelay : Stage(i)' = Stage(i - 1)
      /\ Stage(DrainDelay + 1)' = NoOperand <=> Stage(DrainDelay) = NoOperand
      /\ front_unit = Off => Stage(0)' = NoOperand
      /\ Stage(0) # NoOperand /\ Stage(0)' = NoOperand => front_unit' = Off
      /\ Stage(DrainDelay) = NoOperand => back_unit' = Off
      /\ back_unit = Off => ~Ready(back_unit')
      /\ Ready(back_unit) /\ ~Ready(back_unit') => Stage(DrainDelay) = NoOperand
  BY StageStep
<1>2. DrainDelay \in Nat \ {0}
  BY LatencyAssumption
<1>3. PICK a \in BOOLEAN, b \in BOOLEAN, v \in BOOLEAN :
        dtTick_states_r = <<a, b>> /\ v = Ready(back_unit) /\ (v <=> Ready(back_unit))
  <2>1. PICK a \in BOOLEAN, b \in BOOLEAN : dtTick_states_r = <<a, b>>
    BY DEF ChainInv
  <2>2. PICK v \in BOOLEAN : v = Ready(back_unit) /\ (v <=> Ready(back_unit))
    BY DEF Ready
  <2> QED
    BY <2>1, <2>2
<1>4. /\ dtTick_states_r' = <<v, a>>
      /\ new_dtTick_r' = (a /\ ~b) /\ next_dtTick_r' = (~a /\ b)
  BY <1>3 DEF ChainClock, EdgePulses, dtTicks_valid_w
<1>5. Stage(1)' # NoOperand /\ Stage(0)' = NoOperand => front_unit' = Off
  BY <1>1, <1>2
<1>6. ASSUME NEW i \in 1 .. DrainDelay, Stage(i + 1)' # NoOperand, Stage(i)' = NoOperand
      PROVE  Stage(i - 1)' = NoOperand
  <2>1. Stage(i) # NoOperand
    <3>1. CASE i = DrainDelay
      BY <1>1, <1>6, <3>1
    <3>2. CASE i # DrainDelay
      <4>1. i + 1 \in 1 .. DrainDelay /\ i + 1 - 1 = i
        BY <1>2, <3>2
      <4>2. Stage(i + 1)' = Stage(i)
        BY <1>1, <4>1
      <4> QED
        BY <1>6, <4>2
    <3> QED
      BY <3>1, <3>2
  <2>2. Stage(i - 1) = NoOperand
    BY <1>1, <1>6
  <2>3. CASE i = 1
    BY <1>1, <1>2, <2>1, <2>2, <2>3 DEF ChainInv
  <2>4. CASE i # 1
    <3>1. i - 1 \in 1 .. DrainDelay /\ i - 1 + 1 = i
      BY <1>2, <2>4
    <3>2. Stage(i - 1 - 1) = NoOperand
      BY <2>1, <2>2, <3>1 DEF ChainInv
    <3> QED
      BY <1>1, <3>1, <3>2
  <2> QED
    BY <2>3, <2>4
<1>7. v /\ ~Ready(back_unit') => back_unit' = Off /\ Stage(DrainDelay)' = NoOperand
  <2>1. SUFFICES ASSUME v, ~Ready(back_unit')
                 PROVE  back_unit' = Off /\ Stage(DrainDelay)' = NoOperand
    OBVIOUS
  <2>2. Stage(DrainDelay) = NoOperand
    BY <1>1, <1>3, <2>1
  <2>3. Stage(DrainDelay + 1) # NoOperand
    <3>1. Stage(DrainDelay + 1) = back_unit.op
      BY <1>2 DEF Stage
    <3> QED
      BY <1>3, <2>1, <3>1 DEF Ready
  <2>4. Stage(DrainDelay - 1) = NoOperand
    BY <1>2, <2>2, <2>3 DEF ChainInv
  <2> QED
    BY <1>1, <1>2, <2>2, <2>4
<1>8. ~v /\ a => back_unit' = Off
  <2>1. ~v /\ a => Stage(DrainDelay) = NoOperand
    BY <1>3 DEF ChainInv
  <2> QED
    BY <1>1, <2>1
<1>9. ~a /\ b => ~v /\ ~Ready(back_unit')
  <2>1. ~a /\ b => back_unit = Off
    BY <1>3 DEF ChainInv
  <2>2. back_unit = Off => ~v
    <3>1. back_unit = Off => ~Ready(back_unit)
      BY DEF Ready, Off
    <3> QED
      BY <1>3, <3>1
  <2> QED
    BY <1>1, <2>1, <2>2
<1>10. /\ dtTick_states_r' \in BOOLEAN \X BOOLEAN
       /\ new_dtTick_r' \in BOOLEAN /\ next_dtTick_r' \in BOOLEAN
       /\ dtTick_states_r'[1] = v /\ dtTick_states_r'[2] = a
       /\ dtTick_states_r[1] = a /\ dtTick_states_r[2] = b
  BY <1>3, <1>4
<1>11. Ready(back_unit)' <=> Ready(back_unit')
  BY DEF Ready
<1>12. /\ dtTick_states_r'[1] /\ ~Ready(back_unit)' => back_unit' = Off /\ Stage(DrainDelay)' = NoOperand
       /\ ~dtTick_states_r'[1] /\ dtTick_states_r'[2] => back_unit' = Off
       /\ next_dtTick_r' => ~dtTick_states_r'[1] /\ ~dtTick_states_r'[2] /\ ~Ready(back_unit)'
       /\ new_dtTick_r' => dtTick_states_r'[2]
  BY <1>4, <1>7, <1>8, <1>9, <1>10, <1>11
<1>13. ChainInv'
  BY <1>1, <1>5, <1>6, <1>10, <1>12 DEF ChainInv
<1>14. Level' <=> b
  BY <1>4, <1>10 DEF Level
<1>15. next_dtTick_r => ~v /\ ~a
  BY <1>3 DEF ChainInv
<1> QED
  BY <1>10, <1>13, <1>14, <1>15
-----------------------------------------------------------------------------
\* The pulses tell the level that is coming from the level that was.
LEMMA Pulses ==
  ASSUME ChainInv
  PROVE  /\ tick_Valid_w <=> dtTick_states_r[2] /\ ~Level
         /\ tick_notValid_w <=> ~dtTick_states_r[2] /\ Level
BY DEF ChainInv, Level, tick_Valid_w, tick_notValid_w

\* A cycle of the flags (laserSynchronizer.v:98-137,159-179).
LEMMA FlagStep ==
  ASSUME SyncNext
  PROVE  /\ edgeTicks_saved_r' <=> cur_state_r = "EDGE_TICKS" /\ edgeTicks_stored_r
         /\ edgeTicks_stored_r' <=>
              cur_state_r = "EDGE_TICKS" /\ (edgeTicks_stored_r \/ tick_notValid_w)
         /\ mem_update_over_r' <=> cur_state_r = "MEM_UPDATE" /\ LastPoint /\ tick_Valid_w
         /\ we_r' <=> cur_state_r = "MEM_UPDATE" /\ tick_Valid_w
BY DEF SyncNext, SyncClock, PhasesDone, EdgeTick, WriteEnable

\* A cycle of the phases; MEM_UPDATE is entered while the level is down
\* (laserSynchronizer.v:98-137).
LEMMA PhaseStep ==
  ASSUME ChainInv, PhaseInv, theta_data_r \in Int, SyncNext
  PROVE  /\ PhaseInv'
         /\ cur_state_r = "EDGE_TICKS" /\ cur_state_r' = "MEM_UPDATE" => ~Level'
<1>1. /\ SyncState /\ FrameIteration /\ WriteAddress
      /\ ChainClock(theta_valid_r, theta_data_r)
  BY DEF SyncNext, SyncClock
<1>2. /\ Level' <=> dtTick_states_r[2]
      /\ dtTick_states_r'[2] <=> dtTick_states_r[1]
      /\ next_dtTick_r => ~dtTick_states_r'[1] /\ ~dtTick_states_r'[2]
  BY <1>1, ChainStep
<1>3. CASE cur_state_r = "IDLE"
  <2>1. cur_state_r' \in {"IDLE", "EDGE_TICKS"}
    BY <1>1, <1>3 DEF SyncState
  <2>2. ~edgeTicks_saved_r' /\ ~edgeTicks_stored_r' /\ ~mem_update_over_r' /\ ~we_r'
    BY <1>3, FlagStep
  <2>3. waddr_r' = 0 /\ frame_number_cnt_r' = 0 /\ passages_cnt_r' = 0 /\ line_points_cnt_r' = 0
    BY <1>1, <1>3 DEF FrameIteration, WriteAddress
  <2> QED
    BY <2>1, <2>2, <2>3 DEF PhaseInv
<1>4. CASE cur_state_r = "EDGE_TICKS"
  <2>1. /\ cur_state_r' \in {"EDGE_TICKS", "MEM_UPDATE"}
        /\ cur_state_r' = "MEM_UPDATE" <=> edgeTicks_saved_r
    BY <1>1, <1>4 DEF SyncState
  <2>2. /\ edgeTicks_saved_r' <=> edgeTicks_stored_r
        /\ edgeTicks_stored_r' <=> edgeTicks_stored_r \/ next_dtTick_r
        /\ ~mem_update_over_r' /\ ~we_r'
    BY <1>4, FlagStep DEF tick_notValid_w
  <2>3. waddr_r' = 0 /\ frame_number_cnt_r' = 0 /\ passages_cnt_r' = 0 /\ line_points_cnt_r' = 0
    BY <1>1, <1>4 DEF FrameIteration, WriteAddress
  <2>4. edgeTicks_saved_r => edgeTicks_stored_r /\ ~dtTick_states_r[2]
    BY <1>4 DEF PhaseInv
  <2>5. cur_state_r' = "EDGE_TICKS" /\ edgeTicks_stored_r => ~dtTick_states_r'[2]
    BY <1>2, <1>4, <2>1 DEF PhaseInv
  <2>6. cur_state_r' = "EDGE_TICKS" => PhaseInv'
    BY <1>2, <2>2, <2>3, <2>5 DEF PhaseInv
  <2>7. cur_state_r' = "MEM_UPDATE" => PhaseInv' /\ ~Level'
    BY <1>2, <2>1, <2>2, <2>4 DEF PhaseInv
  <2> QED
    BY <2>1, <2>6, <2>7
<1>5. CASE cur_state_r = "MEM_UPDATE"
  <2>1. /\ cur_state_r' \in {"MEM_UPDATE", "IDLE"}
        /\ cur_state_r' = "IDLE" <=> mem_update_over_r
    BY <1>1, <1>5 DEF SyncState
  <2>2. /\ ~edgeTicks_saved_r' /\ ~edgeTicks_stored_r'
        /\ mem_update_over_r' => we_r'
        /\ we_r' => tick_Valid_w
    BY <1>5, FlagStep
  <2>3. mem_update_over_r => ~tick_Valid_w
    BY <1>5, Pulses DEF PhaseInv
  <2>4. tick_Valid_w => Level'
    BY <1>2, Pulses
  <2> QED
    BY <1>5, <2>1, <2>2, <2>3, <2>4 DEF PhaseInv
<1> QED
  BY <1>3, <1>4, <1>5 DEF PhaseInv
-----------------------------------------------------------------------------
\* The cells that remain after one is written.
LEMMA RestStep ==
  ASSUME NEW f \in 0 .. FrameNumber - 1, NEW c \in 0 .. FrameColumns - 1
  PROVE  /\ <<f, c>> \in Rest(f, c)
         /\ c < FrameColumns - 1 => Rest(f, c) \ {<<f, c>>} = Rest(f, c + 1)
         /\ c = FrameColumns - 1 /\ f < FrameNumber - 1 => Rest(f, c) \ {<<f, c>>} = Rest(f + 1, 0)
         /\ c = FrameColumns - 1 /\ f = FrameNumber - 1 => Rest(f, c) \ {<<f, c>>} = {}
         /\ Rest(0, 0) = Cells
<1>1. FrameNumber \in Nat \ {0} /\ FrameColumns \in Nat \ {0}
  BY Sizes
<1>2. \A cell \in Cells :
        /\ cell[1] \in 0 .. FrameNumber - 1 /\ cell[2] \in 0 .. FrameColumns - 1
        /\ cell = <<f, c>> <=> cell[1] = f /\ cell[2] = c
  BY DEF Cells, Frames, Columns
<1>3. <<f, c>> \in Rest(f, c)
  BY <1>1 DEF Rest, Cells, Frames, Columns
<1>4. ASSUME c < FrameColumns - 1 PROVE Rest(f, c) \ {<<f, c>>} = Rest(f, c + 1)
  BY <1>1, <1>2, <1>4 DEF Rest
<1>5. ASSUME c = FrameColumns - 1, f < FrameNumber - 1
      PROVE  Rest(f, c) \ {<<f, c>>} = Rest(f + 1, 0)
  BY <1>1, <1>2, <1>5 DEF Rest
<1>6. ASSUME c = FrameColumns - 1, f = FrameNumber - 1
      PROVE  Rest(f, c) \ {<<f, c>>} = {}
  BY <1>1, <1>2, <1>6 DEF Rest
<1>7. Rest(0, 0) = Cells
  BY <1>1, <1>2 DEF Rest
<1> QED
  BY <1>3, <1>4, <1>5, <1>6, <1>7

\* Points of a passage and passages of a line make up the columns, in order.
LEMMA ColumnOrder ==
  ASSUME NEW P \in Nat \ {0}, NEW L \in Nat \ {0}, NEW p \in 0 .. P - 1, NEW l \in 0 .. L - 1
  PROVE  /\ p * L + l \in 0 .. L * P - 1
         /\ l < L - 1 => p * L + l < L * P - 1
         /\ l = L - 1 /\ p < P - 1 => (p + 1) * L = p * L + l + 1 /\ p * L + l < L * P - 1
         /\ l = L - 1 /\ p = P - 1 => p * L + l = L * P - 1
<1> DEFINE d == P - 1 - p
<1>1. d \in Nat /\ p \in Nat /\ l \in Nat /\ P = p + d + 1
  OBVIOUS
<1>2. d * L \in Nat /\ p * L \in Nat
  BY <1>1
<1>3. L * P = p * L + d * L + L
  BY <1>1
<1>4. d > 0 => d * L >= L
  <2>1. CASE d > 0
    <3>1. d - 1 \in Nat /\ (d - 1) * L \in Nat
      BY <1>1, <2>1
    <3>2. d * L = (d - 1) * L + L
      BY <1>1
    <3> QED
      BY <1>2, <3>1, <3>2
  <2> QED
    BY <2>1
<1>5. (p + 1) * L = p * L + L
  BY <1>1
<1>6. d = 0 => d * L = 0
  OBVIOUS
<1> HIDE DEF d
<1>7. PICK x \in Nat, y \in Nat : x = d * L /\ y = p * L
  BY <1>2
<1>8. y + l \in 0 .. y + x + L - 1
  BY <1>1, <1>7
<1>9. l < L - 1 => y + l < y + x + L - 1
  BY <1>1, <1>7
<1>10. l = L - 1 /\ p < P - 1 => y + L = y + l + 1 /\ y + l < y + x + L - 1
  BY <1>1, <1>4, <1>7
<1>11. l = L - 1 /\ p = P - 1 => y + l = y + x + L - 1
  BY <1>1, <1>6, <1>7
<1> QED
  BY <1>3, <1>5, <1>7, <1>8, <1>9, <1>10, <1>11

\* The counters go through the columns of each frame in order, and through the frames
\* (laserSynchronizer.v:181-217).
LEMMA ColumnStep ==
  ASSUME CounterOK
  PROVE  /\ Column \in 0 .. FrameColumns - 1
         /\ cur_state_r = "MEM_UPDATE" /\ tick_Valid_w /\ FrameIteration =>
              /\ Column' = NextColumn(Column)
              /\ Column < FrameColumns - 1 => frame_number_cnt_r' = frame_number_cnt_r
              /\ Column = FrameColumns - 1 => frame_number_cnt_r' = Succ(frame_number_cnt_r, FrameLast)
         /\ FrameIteration => /\ frame_number_cnt_r' \in 0 .. FrameNumber - 1
                              /\ passages_cnt_r' \in 0 .. Passages - 1
                              /\ line_points_cnt_r' \in 0 .. LinePoints - 1
<1>1. /\ FrameNumber \in Nat \ {0} /\ LinePoints \in Nat \ {0} /\ Passages \in Nat \ {0}
      /\ FrameColumns \in Nat \ {0} /\ FrameColumns = LinePoints * Passages
  BY Sizes
<1>2. PICK f \in 0 .. FrameNumber - 1, p \in 0 .. Passages - 1, l \in 0 .. LinePoints - 1 :
        f = frame_number_cnt_r /\ p = passages_cnt_r /\ l = line_points_cnt_r
  BY DEF CounterOK
<1>3. /\ p * LinePoints + l \in 0 .. FrameColumns - 1
      /\ l < LinePoints - 1 => p * LinePoints + l < FrameColumns - 1
      /\ l = LinePoints - 1 /\ p < Passages - 1 =>
           (p + 1) * LinePoints = p * LinePoints + l + 1 /\ p * LinePoints + l < FrameColumns - 1
      /\ l = LinePoints - 1 /\ p = Passages - 1 => p * LinePoints + l = FrameColumns - 1
  BY <1>1, ColumnOrder
<1>4. PICK c \in 0 .. FrameColumns - 1 : c = p * LinePoints + l
  BY <1>3
<1>5. Column = c
  BY <1>2, <1>4 DEF Column
<1>6. ASSUME cur_state_r = "MEM_UPDATE", tick_Valid_w, FrameIteration
      PROVE  /\ Column' = NextColumn(Column)
             /\ Column < FrameColumns - 1 => frame_number_cnt_r' = frame_number_cnt_r
             /\ Column = FrameColumns - 1 => frame_number_cnt_r' = Succ(frame_number_cnt_r, FrameLast)
             /\ frame_number_cnt_r' \in 0 .. FrameNumber - 1
             /\ passages_cnt_r' \in 0 .. Passages - 1
             /\ line_points_cnt_r' \in 0 .. LinePoints - 1
  <2>1. /\ line_points_cnt_r' = Succ(l, l >= LinePoints - 1)
        /\ passages_cnt_r' = IF l >= LinePoints - 1 THEN Succ(p, p >= Passages - 1) ELSE p
        /\ frame_number_cnt_r' = IF l >= LinePoints - 1 /\ p >= Passages - 1
                                 THEN Succ(f, f >= FrameNumber - 1) ELSE f
    BY <1>2, <1>6 DEF FrameIteration, PointLast, PassageLast, FrameLast
  <2>2. Column' = passages_cnt_r' * LinePoints + line_points_cnt_r'
    BY DEF Column
  <2>3. Succ(frame_number_cnt_r, FrameLast) = Succ(f, f >= FrameNumber - 1)
    BY <1>2 DEF FrameLast
  <2>4. CASE l < LinePoints - 1
    <3>1. line_points_cnt_r' = l + 1 /\ passages_cnt_r' = p /\ frame_number_cnt_r' = f
      BY <1>1, <2>1, <2>4 DEF Succ
    <3>2. p * LinePoints + (l + 1) = c + 1 /\ c < FrameColumns - 1
      BY <1>1, <1>3, <1>4, <2>4
    <3> QED
      BY <1>1, <1>2, <1>5, <2>2, <2>4, <3>1, <3>2 DEF NextColumn
  <2>5. CASE l = LinePoints - 1 /\ p < Passages - 1
    <3>1. line_points_cnt_r' = 0 /\ passages_cnt_r' = p + 1 /\ frame_number_cnt_r' = f
      BY <1>1, <2>1, <2>5 DEF Succ
    <3>2. (p + 1) * LinePoints + 0 = c + 1 /\ c < FrameColumns - 1
      BY <1>1, <1>3, <1>4, <2>5
    <3> QED
      BY <1>1, <1>2, <1>5, <2>2, <2>5, <3>1, <3>2 DEF NextColumn
  <2>6. CASE l = LinePoints - 1 /\ p = Passages - 1
    <3>1. line_points_cnt_r' = 0 /\ passages_cnt_r' = 0
          /\ frame_number_cnt_r' = Succ(f, f >= FrameNumber - 1)
      BY <1>1, <2>1, <2>6 DEF Succ
    <3>2. 0 * LinePoints + 0 = 0 /\ c = FrameColumns - 1
      BY <1>1, <1>3, <1>4, <2>6
    <3>3. Succ(f, f >= FrameNumber - 1) \in 0 .. FrameNumber - 1
      BY <1>1 DEF Succ
    <3> QED
      BY <1>1, <1>2, <1>5, <2>2, <2>3, <3>1, <3>2, <3>3 DEF NextColumn
  <2> QED
    BY <1>1, <2>4, <2>5, <2>6
<1>7. ASSUME FrameIteration, ~(cur_state_r = "MEM_UPDATE" /\ tick_Valid_w)
      PROVE  /\ frame_number_cnt_r' \in 0 .. FrameNumber - 1
             /\ passages_cnt_r' \in 0 .. Passages - 1
             /\ line_points_cnt_r' \in 0 .. LinePoints - 1
  BY <1>1, <1>2, <1>7 DEF FrameIteration, pointRegs
<1> QED
  BY <1>3, <1>4, <1>5, <1>6, <1>7

\* A cycle keeps the counters and the operand in their ranges.
LEMMA CounterStep ==
  ASSUME CounterOK, SyncNext, Record
  PROVE  CounterOK'
<1>1. /\ FrameIteration /\ ThetaData /\ WriteAddress /\ mem_select_r' = frame_number_cnt_r
  BY DEF SyncNext, SyncClock, WriteEnable
<1>2. /\ FrameNumber \in Nat \ {0} /\ LinePoints \in Nat \ {0} /\ Passages \in Nat \ {0}
      /\ FrameColumns \in Nat \ {0} /\ FrameColumns <= AddrMod /\ AddrMod \in Nat \ {0}
  BY Sizes
<1>3. /\ frame_number_cnt_r' \in 0 .. FrameNumber - 1 /\ passages_cnt_r' \in 0 .. Passages - 1
      /\ line_points_cnt_r' \in 0 .. LinePoints - 1
  BY <1>1, ColumnStep
<1>4. waddr_r' \in 0 .. FrameColumns - 1 /\ mem_select_r' \in 0 .. FrameNumber - 1
  <2>1. waddr_r \in 0 .. FrameColumns - 1 /\ frame_number_cnt_r \in 0 .. FrameNumber - 1
    BY DEF CounterOK
  <2>2. waddr_r < FrameColumns - 1 => (waddr_r + 1) % AddrMod = waddr_r + 1
    BY <1>2, <2>1
  <2> QED
    BY <1>1, <1>2, <2>1, <2>2 DEF WriteAddress
<1>5. ThetaStep \in Nat /\ TotalPoints - 1 \in Nat
  BY <1>2 DEF ThetaStep, TotalPoints
<1>6. theta_aux0_r' \in Nat /\ theta_aux1_r' \in Nat /\ theta_ref_r' \in Nat
  <2>1. /\ line_points_cnt_r \in Nat /\ passages_cnt_r \in Nat
        /\ frame_number_cnt_r \in 0 .. FrameNumber - 1
        /\ theta_aux0_r \in Nat /\ theta_aux1_r \in Nat /\ theta_ref_r \in Nat
    BY DEF CounterOK
  <2>2. /\ line_points_cnt_r * ThetaStep \in Nat /\ passages_cnt_r \div 2 \in Nat
        /\ FrameNumber - 1 - frame_number_cnt_r \in Nat
    BY <1>2, <1>5, <2>1
  <2>3. (passages_cnt_r \div 2) * FrameNumber \in Nat
    BY <1>2, <2>2
  <2> QED
    BY <1>1, <2>1, <2>2, <2>3 DEF ThetaData
<1>7. theta_data_r' \in Nat
  BY <1>1, <1>5 DEF ThetaData, CounterOK
<1>8. missing' \in [Banks -> SUBSET Cells]
  BY DEF Record, CounterOK
<1> QED
  BY <1>3, <1>4, <1>6, <1>7, <1>8 DEF CounterOK

\* A cycle of the history of missing cells.
LEMMA MissingStep ==
  ASSUME CounterOK, Record
  PROVE  /\ back_bank \in Banks /\ BankRead(update_mem_r) \in Banks
         /\ back_bank # BankRead(update_mem_r)
         /\ \A b \in Banks : b = back_bank \/ b = BankRead(update_mem_r)
         /\ missing'[BankRead(update_mem_r)] = missing[BankRead(update_mem_r)]
         /\ Begin => missing'[back_bank] = Cells
         /\ ~Begin /\ we_r => missing'[back_bank] = missing[back_bank] \ {<<mem_select_r, waddr_r>>}
         /\ ~Begin /\ ~we_r => missing'[back_bank] = missing[back_bank]
<1>1. /\ back_bank \in Banks /\ BankRead(update_mem_r) \in Banks
      /\ back_bank # BankRead(update_mem_r)
      /\ \A b \in Banks : b = back_bank \/ b = BankRead(update_mem_r)
  BY DEF back_bank, BankWritten, BankRead, Banks
<1>2. PICK w \in Banks : w = back_bank
  BY <1>1
<1>3. missing' = [missing EXCEPT ![w] = IF Begin THEN Cells
                    ELSE IF we_r THEN missing[w] \ {<<mem_select_r, waddr_r>>} ELSE missing[w]]
  BY <1>2 DEF Record
<1>4. missing \in [Banks -> SUBSET Cells]
  BY DEF CounterOK
<1> QED
  BY <1>1, <1>2, <1>3, <1>4

\* The three phases of a point: a cycle of MEM_UPDATE that is not the last
\* (laserSynchronizer.v:181-217,274-328).
LEMMA PointStep ==
  ASSUME ChainInv, CounterOK, CounterOK', Awaiting \/ Writing \/ Written,
         cur_state_r = "MEM_UPDATE", ~mem_update_over_r,
         Level' <=> dtTick_states_r[2],
         update_mem_r' = update_mem_r, SyncNext, Record
  PROVE  (Awaiting \/ Writing \/ Written)'
<1>1. /\ tick_Valid_w <=> dtTick_states_r[2] /\ ~Level
      /\ tick_notValid_w <=> ~dtTick_states_r[2] /\ Level
  BY Pulses
<1>2. /\ mem_update_over_r' <=> LastPoint /\ tick_Valid_w
      /\ we_r' <=> tick_Valid_w
  BY FlagStep
<1>3. /\ FrameIteration /\ WriteAddress /\ mem_select_r' = frame_number_cnt_r
      /\ ~Begin /\ back_bank' = back_bank
  BY DEF SyncNext, SyncClock, WriteEnable, Begin, back_bank
<1>4. /\ FrameNumber \in Nat \ {0} /\ FrameColumns \in Nat \ {0} /\ FrameColumns <= AddrMod
      /\ AddrMod \in Nat \ {0}
  BY Sizes
<1>5. PICK f \in 0 .. FrameNumber - 1, c \in 0 .. FrameColumns - 1, w \in 0 .. FrameColumns - 1,
           m \in 0 .. FrameNumber - 1 :
        f = frame_number_cnt_r /\ c = Column /\ w = waddr_r /\ m = mem_select_r
  BY ColumnStep DEF CounterOK
<1>6. /\ tick_notValid_w => waddr_r' = NextColumn(w)
      /\ ~tick_notValid_w => waddr_r' = w
  <2>1. w < FrameColumns - 1 => (w + 1) % AddrMod = w + 1
    BY <1>4, <1>5
  <2> QED
    BY <1>3, <1>5, <2>1 DEF WriteAddress, NextColumn
<1>7. ~tick_Valid_w => Column' = c /\ frame_number_cnt_r' = f
  BY <1>3, <1>5 DEF FrameIteration, pointRegs, Column
<1>8. /\ we_r => missing'[back_bank'] = missing[back_bank] \ {<<m, w>>}
      /\ ~we_r => missing'[back_bank'] = missing[back_bank]
  BY <1>3, <1>5, MissingStep
<1>9. CASE Awaiting /\ tick_Valid_w
  <2>1. /\ Column' = NextColumn(c)
        /\ c < FrameColumns - 1 => frame_number_cnt_r' = f
        /\ c = FrameColumns - 1 => frame_number_cnt_r' = Succ(f, f >= FrameNumber - 1)
    BY <1>3, <1>5, <1>9, ColumnStep DEF FrameLast
  <2>2. Level' /\ we_r' /\ waddr_r' = c /\ mem_select_r' = f
    BY <1>1, <1>2, <1>3, <1>5, <1>6, <1>9 DEF Awaiting
  <2>3. missing'[back_bank'] = Rest(f, c)
    BY <1>5, <1>8, <1>9 DEF Awaiting
  <2>4. mem_update_over_r' <=> f = FrameNumber - 1 /\ c = FrameColumns - 1
    BY <1>2, <1>4, <1>5, <1>9 DEF Awaiting, LastPoint
  <2>5. ~mem_update_over_r' => frame_number_cnt_r' = IF NextColumn(c) = 0 THEN f + 1 ELSE f
    BY <1>4, <1>5, <2>1, <2>4 DEF NextColumn, Succ
  <2>6. Writing'
    BY <2>1, <2>2, <2>3, <2>4, <2>5 DEF Writing, Rest, NextColumn
  <2> QED
    BY <2>6
<1>10. CASE Awaiting /\ ~tick_Valid_w
  <2>1. ~Level' /\ ~we_r' /\ ~mem_update_over_r'
    BY <1>1, <1>2, <1>10 DEF Awaiting
  <2>2. waddr_r' = c /\ missing'[back_bank'] = Rest(f, c)
    BY <1>1, <1>5, <1>6, <1>8, <1>10 DEF Awaiting
  <2>3. Awaiting'
    BY <1>7, <1>10, <2>1, <2>2 DEF Awaiting, Rest
  <2> QED
    BY <2>3
<1>11. CASE Writing \/ Written
  <2>1. ~tick_Valid_w /\ ~we_r' /\ ~mem_update_over_r' /\ (tick_notValid_w <=> ~Level')
    BY <1>1, <1>2, <1>11 DEF Writing, Written
  <2>2. missing'[back_bank'] = Rest(f, c)
    <3>1. CASE Written
      BY <1>5, <1>8, <3>1 DEF Written
    <3>2. CASE Writing
      <4>1. /\ missing'[back_bank'] = Rest(m, w) \ {<<m, w>>}
            /\ ~(m = FrameNumber - 1 /\ w = FrameColumns - 1)
            /\ c = NextColumn(w) /\ f = IF c = 0 THEN m + 1 ELSE m
        BY <1>5, <1>8, <3>2 DEF Writing
      <4>2. CASE w < FrameColumns - 1
        <5>1. c = w + 1 /\ f = m
          BY <1>4, <4>1, <4>2 DEF NextColumn
        <5> QED
          BY <4>1, <4>2, <5>1, RestStep
      <4>3. CASE w = FrameColumns - 1
        <5>1. c = 0 /\ f = m + 1 /\ m < FrameNumber - 1
          BY <1>4, <4>1, <4>3 DEF NextColumn
        <5> QED
          BY <4>1, <4>3, <5>1, RestStep
      <4> QED
        BY <1>4, <4>2, <4>3
    <3> QED
      BY <1>11, <3>1, <3>2
  <2>3. c = NextColumn(w)
    BY <1>5, <1>11 DEF Writing, Written
  <2>4. CASE Level'
    <3>1. waddr_r' = w
      BY <1>6, <2>1, <2>4
    <3>2. Written'
      BY <1>7, <2>1, <2>2, <2>3, <2>4, <3>1 DEF Written, Rest, NextColumn
    <3> QED
      BY <3>2
  <2>5. CASE ~Level'
    <3>1. waddr_r' = c
      BY <1>6, <2>1, <2>3, <2>5
    <3>2. Awaiting'
      BY <1>7, <2>1, <2>2, <2>5, <3>1 DEF Awaiting, Rest
    <3> QED
      BY <3>2
  <2> QED
    BY <2>4, <2>5
<1> QED
  BY <1>9, <1>10, <1>11

\* What the cells that are missing say in the cycle of a write.
LEMMA WriteOfMissing ==
  ASSUME PhaseInv, CounterOK, CountInv, SyncState, Record
  PROVE  /\ we_r => <<mem_select_r, waddr_r>> \in missing[back_bank]
         /\ End => missing'[back_bank] = {}
<1>1. ASSUME we_r
      PROVE  /\ <<mem_select_r, waddr_r>> \in missing[back_bank]
             /\ missing'[back_bank] = missing[back_bank] \ {<<mem_select_r, waddr_r>>}
             /\ missing[back_bank] = Rest(mem_select_r, waddr_r)
             /\ mem_update_over_r => mem_select_r = FrameNumber - 1 /\ waddr_r = FrameColumns - 1
  <2>1. cur_state_r = "MEM_UPDATE"
    BY <1>1 DEF PhaseInv
  <2>2. Writing
    BY <1>1, <2>1 DEF CountInv, Awaiting, Written
  <2>3. <<mem_select_r, waddr_r>> \in Rest(mem_select_r, waddr_r)
    BY RestStep DEF CounterOK
  <2>4. missing'[back_bank] = missing[back_bank] \ {<<mem_select_r, waddr_r>>}
    BY <1>1, <2>1, MissingStep DEF Begin
  <2> QED
    BY <2>2, <2>3, <2>4 DEF Writing
<1>2. ASSUME End PROVE missing'[back_bank] = {}
  <2>1. cur_state_r = "MEM_UPDATE" /\ mem_update_over_r
    BY <1>2 DEF End, SyncState
  <2>2. we_r
    BY <2>1 DEF CountInv, Awaiting, Writing, Written
  <2>3. mem_select_r \in 0 .. FrameNumber - 1 /\ waddr_r \in 0 .. FrameColumns - 1
    BY DEF CounterOK
  <2>4. Rest(mem_select_r, waddr_r) \ {<<mem_select_r, waddr_r>>} = {}
    BY <1>1, <2>1, <2>2, <2>3, RestStep
  <2> QED
    BY <1>1, <2>2, <2>4
<1> QED
  BY <1>1, <1>2

\* A cycle keeps what is missing in step with the counters.
LEMMA CountStep ==
  ASSUME LinesApart, UpdateInv, CounterOK', PhaseInv', SyncNext, Record
  PROVE  CountInv'
<1>1. /\ SwapInv /\ FrozenInv /\ ChainInv /\ PhaseInv /\ CounterOK /\ CountInv
      /\ theta_data_r \in Int
  BY DEF UpdateInv, CounterOK
<1>2. /\ SyncState /\ FrameIteration /\ WriteAddress /\ ChainClock(theta_valid_r, theta_data_r)
  BY DEF SyncNext, SyncClock
<1>3. /\ back_bank \in Banks /\ BankRead(update_mem_r) \in Banks
      /\ back_bank # BankRead(update_mem_r)
      /\ \A b \in Banks : b = back_bank \/ b = BankRead(update_mem_r)
      /\ missing'[BankRead(update_mem_r)] = {}
      /\ Begin => missing'[back_bank] = Cells
      /\ ~Begin /\ ~we_r => missing'[back_bank] = missing[back_bank]
  BY <1>1, MissingStep DEF CountInv
<1>4. cur_state_r # "IDLE" \/ cur_state_r' # "IDLE" => update_mem_r' = update_mem_r
  BY <1>1, FrozenStep
<1>5. /\ BankRead(update_mem_r') \in Banks /\ BankWritten(update_mem_r') \in Banks
      /\ back_bank' = BankWritten(update_mem_r')
  BY DEF BankRead, BankWritten, Banks, back_bank
<1>6. CASE cur_state_r = "IDLE" /\ cur_state_r' = "IDLE"
  <2>1. missing'[back_bank] = {}
    BY <1>1, <1>3, <1>6 DEF PhaseInv, Begin, CountInv
  <2>2. \A b \in Banks : missing'[b] = {}
    BY <1>3, <2>1
  <2> QED
    BY <1>5, <1>6, <2>2 DEF CountInv
<1>7. CASE cur_state_r = "IDLE" /\ cur_state_r' # "IDLE"
  <2>1. Begin
    BY <1>2, <1>7 DEF SyncState, Begin
  <2>2. update_mem_r' = update_mem_r /\ back_bank' = back_bank
    BY <1>4, <1>7 DEF back_bank
  <2> QED
    BY <1>3, <2>1, <2>2 DEF CountInv, Begin, Cells, Frames, Columns
<1>8. CASE cur_state_r = "EDGE_TICKS"
  <2>1. update_mem_r' = update_mem_r /\ back_bank' = back_bank
    BY <1>4, <1>8 DEF back_bank
  <2>2. missing'[back_bank'] = Cells
    BY <1>1, <1>3, <1>8, <2>1 DEF PhaseInv, Begin, CountInv
  <2>3. CASE cur_state_r' = "EDGE_TICKS"
    BY <1>3, <2>1, <2>2, <2>3 DEF CountInv, Cells, Frames, Columns
  <2>4. CASE cur_state_r' = "MEM_UPDATE"
    <3>1. ~Level' /\ ~we_r' /\ ~mem_update_over_r'
      BY <1>1, <1>8, <2>4, PhaseStep, FlagStep
    <3>2. waddr_r' = 0 /\ frame_number_cnt_r' = 0 /\ passages_cnt_r' = 0 /\ line_points_cnt_r' = 0
      BY <1>2, <1>8 DEF FrameIteration, WriteAddress
    <3>3. Column' = 0
      BY <3>2, Sizes DEF Column
    <3>4. Rest(0, 0) = Cells
      <4>1. 0 \in 0 .. FrameNumber - 1 /\ 0 \in 0 .. FrameColumns - 1
        BY Sizes
      <4> QED
        BY <4>1, RestStep
    <3>5. Awaiting'
      BY <2>2, <3>1, <3>2, <3>3, <3>4 DEF Awaiting, Rest, Cells, Frames, Columns
    <3> QED
      BY <1>3, <2>1, <2>4, <3>5 DEF CountInv
  <2> QED
    BY <1>2, <1>8, <2>3, <2>4 DEF SyncState
<1>9. CASE cur_state_r = "MEM_UPDATE"
  <2>1. update_mem_r' = update_mem_r /\ back_bank' = back_bank
    BY <1>4, <1>9 DEF back_bank
  <2>2. CASE mem_update_over_r
    <3>1. cur_state_r' = "IDLE"
      BY <1>2, <1>9, <2>2 DEF SyncState
    <3>2. missing'[back_bank] = {}
      BY <1>1, <1>2, <1>9, <3>1, WriteOfMissing DEF End
    <3> QED
      BY <1>3, <2>1, <3>1, <3>2 DEF CountInv
  <2>3. CASE ~mem_update_over_r
    <3>1. cur_state_r' = "MEM_UPDATE"
      BY <1>2, <1>9, <2>3 DEF SyncState
    <3>2. Level' <=> dtTick_states_r[2]
      BY <1>1, <1>2, ChainStep
    <3>3. (Awaiting \/ Writing \/ Written)'
      BY <1>1, <1>9, <2>1, <2>3, <3>2, PointStep DEF CountInv
    <3> QED
      BY <1>3, <2>1, <3>1, <3>3 DEF CountInv
  <2> QED
    BY <2>2, <2>3
<1> QED
  BY <1>1, <1>6, <1>7, <1>8, <1>9 DEF PhaseInv
-----------------------------------------------------------------------------
LEMMA UpdateInit == Init => UpdateInv
<1> SUFFICES ASSUME Init PROVE UpdateInv
  OBVIOUS
<1>1. SyncInit /\ ChainInit /\ MM!MMInit /\ missing = [b \in Banks |-> {}]
  BY DEF Init, SyncInit
<1>2. /\ FrameNumber \in Nat \ {0} /\ LinePoints \in Nat \ {0} /\ Passages \in Nat \ {0}
      /\ FrameColumns \in Nat \ {0} /\ MinLine \in Nat /\ DrainDelay \in Nat \ {0}
      /\ MemCyclesP \in Nat \ {0}
  BY Sizes, QuotaPortAssumption
<1>3. SwapInv
  <2>1. /\ mem_sel_cur_state_r = "MEM0" /\ mem_cycles_cnt_r = 0 /\ update_mem_r = TRUE
        /\ new_line_i = FALSE /\ quiet = 0 /\ mem_switch_r = <<TRUE, TRUE>> /\ ticks_update_r = FALSE
    BY <1>1 DEF SyncInit, MM!MMInit
  <2>2. update_mem_r = (MM!front = 0)
    BY <2>1 DEF MM!front, MM!BankOf
  <2>3. mem_switch_r[1] = update_mem_r /\ mem_switch_r[2] = mem_switch_r[1]
    BY <2>1
  <2>4. mem_sel_cur_state_r \in MM!Playing \cup MM!Waiting
    BY <2>1 DEF MM!Playing
  <2>5. ~ticks_update_r /\ quiet = 0 /\ mem_cycles_cnt_r = 0
    BY <2>1
  <2> QED
    BY <1>2, <2>2, <2>3, <2>4, <2>5 DEF SwapInv
<1>4. cur_state_r = "IDLE" /\ FrozenInv /\ PhaseInv
  BY <1>1 DEF SyncInit, FrozenInv, PhaseInv
<1>5. ChainInv
  <2>1. /\ front_unit = Off /\ back_unit = Off
        /\ delay_line = [i \in 1 .. DrainDelay |-> NoOperand]
        /\ dtTick_states_r = <<FALSE, FALSE>> /\ new_dtTick_r = FALSE /\ next_dtTick_r = FALSE
    BY <1>1 DEF ChainInit
  <2>2. UnitOK(Off) /\ ~Ready(Off)
    BY DEF UnitOK, Off, NoOperand, Ready
  <2>3. delay_line \in Seq(Int) /\ Len(delay_line) = DrainDelay
    BY <1>2, <2>1 DEF NoOperand
  <2>4. Stage(0) = NoOperand /\ \A i \in 1 .. DrainDelay : Stage(i) = NoOperand
    BY <1>2, <2>1, <2>2 DEF Stage, ResultOf
  <2>5. \A i \in 1 .. DrainDelay : Stage(i - 1) = NoOperand
    <3>1. SUFFICES ASSUME NEW i \in 1 .. DrainDelay PROVE Stage(i - 1) = NoOperand
      OBVIOUS
    <3>2. i - 1 = 0 \/ i - 1 \in 1 .. DrainDelay
      BY <1>2
    <3> QED
      BY <2>4, <3>2
  <2> QED
    BY <1>2, <2>1, <2>2, <2>3, <2>4, <2>5 DEF ChainInv
<1>6. CounterOK
  <2>1. TotalPoints - 1 \in Nat
    BY <1>2 DEF TotalPoints
  <2> QED
    BY <1>1, <1>2, <2>1 DEF CounterOK, SyncInit
<1>7. CountInv
  BY <1>1, <1>4 DEF CountInv, BankRead, BankWritten, back_bank, Banks
<1> QED
  BY <1>3, <1>4, <1>5, <1>6, <1>7 DEF UpdateInv

LEMMA UpdateStep ==
  ASSUME LinesApart, UpdateInv, [Next]_tuvars
  PROVE  UpdateInv'
<1>1. CASE Next
  <2>1. SyncNext /\ Record
    BY <1>1 DEF Next
  <2>2. SwapInv' /\ FrozenInv' /\ CounterOK'
    BY <2>1, SwapStep, FrozenStep, CounterStep DEF UpdateInv
  <2>3. ChainInv' /\ PhaseInv'
    BY <2>1, ChainStep, PhaseStep DEF UpdateInv, CounterOK, SyncNext, SyncClock
  <2>4. CountInv'
    BY <2>1, <2>2, <2>3, CountStep
  <2> QED
    BY <2>2, <2>3, <2>4 DEF UpdateInv
<1>2. CASE UNCHANGED tuvars
  <2>1. /\ SwapInv' /\ FrozenInv'
    BY <1>2 DEF UpdateInv, tuvars, syncvars, fsmRegs, swapRegs, MM!bankRegs, SwapInv, FrozenInv,
                MM!front
  <2>2. ChainInv' /\ PhaseInv'
    BY <1>2 DEF UpdateInv, tuvars, syncvars, fsmRegs, edgeTickRegs, pointRegs, writeRegs, chainRegs,
                ChainInv, PhaseInv, Stage, UnitOK, ResultOf, Ready, Level
  <2>3. CounterOK' /\ CountInv'
    BY <1>2 DEF UpdateInv, tuvars, syncvars, fsmRegs, pointRegs, thetaRegs, writeRegs, chainRegs,
                MM!bankRegs, CounterOK, CountInv, Awaiting, Writing, Written, Level, Column,
                back_bank
  <2> QED
    BY <2>1, <2>2, <2>3 DEF UpdateInv
<1> QED
  BY <1>1, <1>2

\* The inductive invariant, for every instance in which lines are at least seven cycles
\* apart (laserSynchronizer.v:98-328, memoryManager.v:68-111, cordicManager.v:66-78).
THEOREM UpdateInvariance == ASSUME LinesApart PROVE Spec => []UpdateInv
<1>1. Init => UpdateInv
  BY UpdateInit
<1>2. UpdateInv /\ [Next]_tuvars => UpdateInv'
  BY UpdateStep
<1> QED
  BY <1>1, <1>2, PTL DEF Spec

\* The bank that is played never lacks a word of a table, whenever lines end and however
\* long the arithmetic takes (laserSynchronizer.v:139-157, memoryManager.v:68-77).
THEOREM FrontComplete == ASSUME LinesApart PROVE Spec => []FrontTableComplete
<1>1. UpdateInv => FrontTableComplete
  BY DEF UpdateInv, CountInv, FrontTableComplete
<1> QED
  BY <1>1, UpdateInvariance, PTL

\* An update writes every word of every frame once, and ends when it has written all of
\* them, even if results of the update before it are still in the chain when it begins
\* (laserSynchronizer.v:181-217,309-328).
THEOREM WordsWrittenOnce == ASSUME LinesApart PROVE Spec => EachWordOnce
<1>1. ASSUME UpdateInv, [Next]_tuvars
      PROVE  [/\ we_r => <<mem_select_r, waddr_r>> \in missing[back_bank]
              /\ End => missing'[back_bank] = {}]_tuvars
  <2>1. CASE Next
    <3>1. SyncState /\ Record
      BY <2>1 DEF Next, SyncNext, SyncClock
    <3> QED
      BY <1>1, <3>1, WriteOfMissing DEF UpdateInv
  <2> QED
    BY <1>1, <2>1
<1> QED
  BY <1>1, UpdateInvariance, PTL DEF Spec, EachWordOnce
-----------------------------------------------------------------------------
(***************************************************************************)
(* The level along the chain: a place is up if valid was up there in the   *)
(* cycle before.  When the synchronizer waits for a result, the ups come   *)
(* first; when it waits for the fall, last.  An update that begins before  *)
(* the chain is drained has, until that fall, ups at both ends.            *)
(***************************************************************************)
Last == DrainDelay + 6

Up(i) == \/ i = 0 /\ front_unit.op # NoOperand
         \/ i \in 1 .. DrainDelay + 2 /\ Stage(i - 1) # NoOperand
         \/ i = DrainDelay + 3 /\ Ready(back_unit)
         \/ i = DrainDelay + 4 /\ dtTick_states_r[1]
         \/ i = DrainDelay + 5 /\ dtTick_states_r[2]
         \/ i = Last /\ Level

Places == 0 .. Last
AllDown == \A i \in Places : ~Up(i)
Rising == \A i, j \in Places : i < j /\ Up(j) => Up(i)
Falling == \A i, j \in Places : i < j /\ Up(i) => Up(j)
NoIsland == \A i, j, k \in Places : i < j /\ j < k /\ ~Up(i) /\ Up(j) => Up(k)

\* Four phases, of which an update that begins early skips one.
FlowInv ==
  /\ ~theta_valid_r => Falling
  /\ theta_valid_r => NoIsland
  /\ cur_state_r = "IDLE" => ~theta_valid_r /\ ~Up(0)
  /\ cur_state_r = "EDGE_TICKS" /\ edgeTicks_stored_r /\ ~theta_valid_r => AllDown
  /\ cur_state_r = "EDGE_TICKS" /\ drained /\ theta_valid_r => Rising /\ ~edgeTicks_stored_r
  /\ cur_state_r = "MEM_UPDATE" /\ theta_valid_r => Rising
  /\ we_r => ~theta_valid_r /\ Up(Last - 1)

HandshakeInv == ChainInv /\ PhaseInv /\ CounterOK /\ FlowInv

\* A clock edge moves the ups one place on; a unit may hold one back, but not one that it
\* has let through.
LEMMA UpStep ==
  ASSUME ChainInv, theta_data_r \in Nat, ChainClock(theta_valid_r, theta_data_r)
  PROVE  /\ Up(0)' <=> theta_valid_r
         /\ \A i \in 2 .. Last : i # DrainDelay + 3 => (Up(i)' <=> Up(i - 1))
         /\ Up(1)' => Up(0) /\ Up(0)'
         /\ Up(1) /\ Up(0)' => Up(1)'
         /\ Up(DrainDelay + 3)' => Up(DrainDelay + 2) /\ Up(DrainDelay + 2)'
         /\ Up(DrainDelay + 3) /\ Up(DrainDelay + 2)' => Up(DrainDelay + 3)'
<1>1. DrainDelay \in Nat \ {0} /\ FrontLatency \in Nat \ {0}
  BY LatencyAssumption
<1>2. /\ \A i \in 1 .. DrainDelay : Stage(i)' = Stage(i - 1)
      /\ Stage(DrainDelay + 1)' = NoOperand <=> Stage(DrainDelay) = NoOperand
      /\ front_unit = Off => Stage(0)' = NoOperand
      /\ Stage(0) # NoOperand /\ Stage(0)' = NoOperand => front_unit' = Off
      /\ back_unit = Off => ~Ready(back_unit')
      /\ Ready(back_unit) /\ ~Ready(back_unit') => Stage(DrainDelay) = NoOperand
      /\ UnitOK(front_unit) /\ UnitOK(back_unit)
  BY StageStep DEF ChainInv
<1>3. front_unit'.op = NoOperand <=> ~theta_valid_r
  <2>1. PICK o \in Int : o = IF theta_valid_r THEN theta_data_r ELSE NoOperand
    BY DEF NoOperand
  <2>2. front_unit' = Step(front_unit, o, FrontLatency) /\ (o = NoOperand <=> ~theta_valid_r)
    BY <2>1 DEF ChainClock, NoOperand
  <2> QED
    BY <1>1, <1>2, <2>2, UnitStep
<1>4. Up(0)' <=> theta_valid_r
  BY <1>1, <1>3 DEF Up, Last
<1>5. /\ Level' <=> dtTick_states_r[2]
      /\ dtTick_states_r'[2] <=> dtTick_states_r[1]
      /\ dtTick_states_r'[1] <=> Ready(back_unit)
  <2>1. dtTick_states_r'[1] <=> Ready(back_unit)
    BY DEF ChainClock, dtTicks_valid_w
  <2> QED
    BY <2>1, ChainStep
<1>6. /\ Up(0) <=> front_unit # Off
      /\ Up(1) <=> Stage(0) # NoOperand
      /\ Up(1)' <=> Stage(0)' # NoOperand
      /\ Up(DrainDelay + 2) <=> Stage(DrainDelay + 1) # NoOperand
      /\ Up(DrainDelay + 2)' <=> Stage(DrainDelay + 1)' # NoOperand
      /\ Up(DrainDelay + 3) <=> Ready(back_unit)
      /\ Up(DrainDelay + 3)' <=> Ready(back_unit)'
  BY <1>1, <1>2 DEF Up, Last, UnitOK, Off, NoOperand
<1>7. /\ Stage(DrainDelay + 1) = back_unit.op
      /\ Ready(back_unit)' <=> Ready(back_unit')
      /\ Stage(0)' # NoOperand => front_unit'.op # NoOperand
  BY <1>1 DEF Stage, Ready, ResultOf
<1>8. /\ Up(1)' => Up(0) /\ Up(0)'
      /\ Up(1) /\ Up(0)' => Up(1)'
  <2>1. front_unit' = Off => front_unit'.op = NoOperand
    BY DEF Off
  <2> QED
    BY <1>2, <1>3, <1>4, <1>6, <1>7, <2>1
<1>9. /\ Up(DrainDelay + 3)' => Up(DrainDelay + 2) /\ Up(DrainDelay + 2)'
      /\ Up(DrainDelay + 3) /\ Up(DrainDelay + 2)' => Up(DrainDelay + 3)'
  <2>1. Ready(back_unit') => back_unit.op # NoOperand
    BY <1>2 DEF UnitOK
  <2>2. Ready(back_unit') => Stage(DrainDelay + 1)' # NoOperand
    BY <1>1 DEF Stage, Ready
  <2> QED
    BY <1>2, <1>6, <1>7, <2>1, <2>2
<1>10. ASSUME NEW i \in 2 .. Last, i # DrainDelay + 3 PROVE Up(i)' <=> Up(i - 1)
  <2>1. CASE i \in 2 .. DrainDelay + 1
    <3>1. i - 1 \in 1 .. DrainDelay /\ i - 1 \in 1 .. DrainDelay + 2 /\ i \in 1 .. DrainDelay + 2
          /\ i # 0 /\ i - 1 # 0
      BY <1>1, <2>1
    <3>2. Up(i)' <=> Stage(i - 1)' # NoOperand
      BY <1>1, <2>1, <3>1 DEF Up, Last
    <3>3. Up(i - 1) <=> Stage(i - 1 - 1) # NoOperand
      BY <1>1, <2>1, <3>1 DEF Up, Last
    <3> QED
      BY <1>2, <3>1, <3>2, <3>3
  <2>2. CASE i = DrainDelay + 2
    <3>1. Up(i - 1) <=> Stage(DrainDelay) # NoOperand
      <4>1. i - 1 \in 1 .. DrainDelay + 2 /\ i - 1 # 0 /\ i - 1 - 1 = DrainDelay
        BY <1>1, <2>2
      <4> QED
        BY <4>1 DEF Up
    <3> QED
      BY <1>2, <1>6, <2>2, <3>1
  <2>3. CASE i = DrainDelay + 4
    BY <1>1, <1>5, <2>3 DEF Up, Last
  <2>4. CASE i = DrainDelay + 5
    BY <1>1, <1>5, <2>4 DEF Up, Last
  <2>5. CASE i = Last
    BY <1>1, <1>5, <2>5 DEF Up, Last
  <2> QED
    BY <1>1, <1>10, <2>1, <2>2, <2>3, <2>4, <2>5 DEF Last
<1> QED
  BY <1>4, <1>8, <1>9, <1>10

\* What a clock edge does to the ups, all that the next lemmas need of it.
Moved ==
  /\ Up(0)' <=> theta_valid_r
  /\ \A i \in 2 .. Last : i # DrainDelay + 3 => (Up(i)' <=> Up(i - 1))
  /\ Up(1)' => Up(0) /\ Up(0)'
  /\ Up(1) /\ Up(0)' => Up(1)'
  /\ Up(DrainDelay + 3)' => Up(DrainDelay + 2) /\ Up(DrainDelay + 2)'
  /\ Up(DrainDelay + 3) /\ Up(DrainDelay + 2)' => Up(DrainDelay + 3)'

\* An up was up one place before, and where both places were up, it stays up if the place
\* before it does.
LEMMA MovedOne ==
  ASSUME Moved, NEW i \in 1 .. Last
  PROVE  /\ Up(i)' => Up(i - 1)
         /\ Up(i - 1) /\ Up(i) /\ Up(i - 1)' => Up(i)'
<1>1. DrainDelay \in Nat \ {0}
  BY LatencyAssumption
<1>2. CASE i = 1
  BY <1>2 DEF Moved
<1>3. CASE i = DrainDelay + 3
  <2>1. i - 1 = DrainDelay + 2
    BY <1>1, <1>3
  <2> QED
    BY <1>3, <2>1 DEF Moved
<1>4. CASE i # 1 /\ i # DrainDelay + 3
  <2>1. i \in 2 .. Last
    BY <1>1, <1>4 DEF Last
  <2> QED
    BY <1>4, <2>1 DEF Moved
<1> QED
  BY <1>2, <1>3, <1>4

\* A place stays up where it and the two before it were up, and valid at the first.
LEMMA MovedUp ==
  ASSUME Moved, NEW i \in 1 .. Last, theta_valid_r \/ i # 1, Up(i - 1), Up(i), i = 1 \/ Up(i - 2)
  PROVE  Up(i)'
<1>1. DrainDelay \in Nat \ {0}
  BY LatencyAssumption
<1>2. CASE i = 1
  BY <1>2 DEF Moved
<1>3. CASE i = DrainDelay + 3
  <2>1. DrainDelay + 2 \in 2 .. Last /\ DrainDelay + 2 # DrainDelay + 3
        /\ (DrainDelay + 2) - 1 = i - 2
    BY <1>1, <1>3 DEF Last
  <2>2. Up(DrainDelay + 2)'
    BY <1>1, <1>3, <2>1 DEF Moved
  <2> QED
    BY <1>3, <2>2 DEF Moved
<1>4. CASE i # 1 /\ i # DrainDelay + 3
  <2>1. i \in 2 .. Last
    BY <1>1, <1>4 DEF Last
  <2> QED
    BY <1>4, <2>1 DEF Moved
<1> QED
  BY <1>2, <1>3, <1>4

\* While valid is up, the ups that come first go on.
LEMMA RisingKept == ASSUME Moved, theta_valid_r, Rising PROVE Rising'
<1>1. DrainDelay \in Nat \ {0} /\ Last \in Nat
  BY LatencyAssumption DEF Last
<1>2. ASSUME NEW i \in Places, NEW j \in Places, i < j, Up(j)' PROVE Up(i)'
  <2>1. i \in Nat /\ j \in Nat /\ j <= Last /\ j \in 1 .. Last
    BY <1>1, <1>2 DEF Places
  <2>2. Up(j - 1)
    BY <1>2, <2>1, MovedOne
  <2>3. ASSUME NEW k \in Nat, k <= j - 1 PROVE Up(k)
    <3>1. k \in Places /\ j - 1 \in Places /\ (k < j - 1 \/ k = j - 1)
      BY <1>1, <2>1, <2>3 DEF Places
    <3> QED
      BY <2>2, <3>1 DEF Rising
  <2>4. CASE i = 0
    BY <2>4 DEF Moved
  <2>5. CASE i # 0
    <3>1. i \in 1 .. Last /\ i - 1 \in Nat /\ i <= j - 1 /\ i - 1 <= j - 1
      BY <1>1, <1>2, <2>1, <2>5
    <3>2. i = 1 \/ (i - 2 \in Nat /\ i - 2 <= j - 1)
      BY <2>1, <2>5, <3>1
    <3>3. Up(i - 1) /\ Up(i) /\ (i = 1 \/ Up(i - 2))
      BY <2>1, <2>3, <3>1, <3>2
    <3> QED
      BY <3>1, <3>3, MovedUp
  <2> QED
    BY <2>4, <2>5
<1> QED
  BY <1>2 DEF Rising, Places, Last

\* While valid is down, the ups that come last drain away.
LEMMA FallingKept == ASSUME Moved, ~theta_valid_r, Falling PROVE Falling'
<1>1. DrainDelay \in Nat \ {0} /\ Last \in Nat
  BY LatencyAssumption DEF Last
<1>2. ASSUME NEW i \in Places, NEW j \in Places, i < j, Up(i)' PROVE Up(j)'
  <2>1. i \in Nat /\ j \in 1 .. Last /\ i # 0
    BY <1>1, <1>2 DEF Places, Moved
  <2>2. i \in 1 .. Last /\ Up(i - 1)
    BY <1>1, <1>2, <2>1, MovedOne
  <2>3. ASSUME NEW k \in Nat, i - 1 <= k, k <= Last PROVE Up(k)
    <3>1. k \in Places /\ i - 1 \in Places /\ (i - 1 < k \/ i - 1 = k)
      BY <1>1, <2>2, <2>3 DEF Places
    <3> QED
      BY <2>2, <3>1 DEF Falling
  <2>4. /\ j - 1 \in Nat /\ i - 1 <= j - 1 /\ j - 1 <= Last
        /\ j \in Nat /\ i - 1 <= j /\ j <= Last
        /\ j - 2 \in Nat /\ i - 1 <= j - 2 /\ j - 2 <= Last /\ j # 1
    BY <1>1, <1>2, <2>1, <2>2
  <2>5. Up(j - 1) /\ Up(j) /\ Up(j - 2)
    BY <2>3, <2>4
  <2> QED
    BY <2>1, <2>4, <2>5, MovedUp
<1> QED
  BY <1>2 DEF Falling, Places, Last

\* While valid is up, no up comes between two downs.
LEMMA NoIslandKept == ASSUME Moved, theta_valid_r, NoIsland PROVE NoIsland'
<1>1. DrainDelay \in Nat \ {0} /\ Last \in Nat
  BY LatencyAssumption DEF Last
<1>2. ASSUME NEW i \in Places, NEW j \in Places, NEW k \in Places,
             i < j, j < k, ~Up(i)', Up(j)'
      PROVE  Up(k)'
  <2>1. i # 0 /\ i \in 1 .. Last /\ j \in 2 .. Last /\ k \in 3 .. Last
    BY <1>1, <1>2 DEF Places, Moved
  <2>2. Up(j - 1)
    BY <1>1, <1>2, <2>1, MovedOne
  <2>3. PICK d \in Places : d < j - 1 /\ ~Up(d)
    <3>1. ~(Up(i - 1) /\ Up(i) /\ (i = 1 \/ Up(i - 2)))
      BY <1>2, <2>1, MovedUp
    <3>2. i - 1 \in Places /\ i - 1 < j - 1 /\ (i = 1 \/ (i - 2 \in Places /\ i - 2 < j - 1))
      BY <1>1, <1>2, <2>1 DEF Places
    <3>3. CASE ~Up(i)
      <4>1. i # j - 1 /\ i < j - 1
        BY <1>2, <2>1, <2>2, <3>3
      <4> QED
        BY <3>3, <4>1
    <3> QED
      BY <3>1, <3>2, <3>3
  <2>4. ASSUME NEW l \in Nat, j - 1 <= l, l <= Last PROVE Up(l)
    <3>1. l \in Places /\ j - 1 \in Places /\ (j - 1 < l \/ j - 1 = l)
      BY <1>1, <2>1, <2>4 DEF Places
    <3> QED
      BY <2>2, <2>3, <3>1 DEF NoIsland
  <2>5. /\ k - 1 \in Nat /\ j - 1 <= k - 1 /\ k - 1 <= Last
        /\ k \in Nat /\ j - 1 <= k /\ k <= Last
        /\ k - 2 \in Nat /\ j - 1 <= k - 2 /\ k - 2 <= Last /\ k \in 1 .. Last
    BY <1>1, <1>2, <2>1
  <2>6. Up(k - 1) /\ Up(k) /\ Up(k - 2)
    BY <2>4, <2>5
  <2> QED
    BY <2>5, <2>6, MovedUp
<1> QED
  BY <1>2 DEF NoIsland, Places, Last

\* What the ends of the chain say.
LEMMA Ends ==
  ASSUME ChainInv
  PROVE  /\ tick_Valid_w <=> Up(Last - 1) /\ ~Up(Last)
         /\ tick_notValid_w <=> ~Up(Last - 1) /\ Up(Last)
         /\ Level <=> Up(Last)
<1>1. DrainDelay \in Nat \ {0}
  BY LatencyAssumption
<1>2. Up(Last) <=> Level
  BY <1>1 DEF Up, Last
<1>3. Up(Last - 1) <=> dtTick_states_r[2]
  BY <1>1 DEF Up, Last
<1> QED
  BY <1>2, <1>3, Pulses

\* When a new result has come through, everything is up and begins to fall.
LEMMA TickTurns ==
  ASSUME Moved, theta_valid_r, NoIsland, Up(Last - 1), ~Up(Last)
  PROVE  \A i \in Places : Up(i)'
<1>1. DrainDelay \in Nat \ {0} /\ Last \in Nat
  BY LatencyAssumption DEF Last
<1>2. ASSUME NEW k \in Nat, k <= Last - 1 PROVE Up(k)
  <2>1. k \in Places /\ Last - 1 \in Places /\ Last \in Places
        /\ (k = Last - 1 \/ (k < Last - 1 /\ Last - 1 < Last))
    BY <1>1, <1>2 DEF Places
  <2> QED
    BY <2>1 DEF NoIsland
<1>3. ASSUME NEW i \in Places PROVE Up(i)'
  <2>1. CASE i = 0
    BY <2>1 DEF Moved
  <2>2. CASE i \in 1 .. Last - 1
    <3>1. /\ i \in 1 .. Last /\ i \in Nat /\ i <= Last - 1 /\ i - 1 \in Nat /\ i - 1 <= Last - 1
          /\ i = 1 \/ (i - 2 \in Nat /\ i - 2 <= Last - 1)
      BY <1>1, <2>2
    <3>2. Up(i - 1) /\ Up(i) /\ (i = 1 \/ Up(i - 2))
      BY <1>2, <3>1
    <3> QED
      BY <3>1, <3>2, MovedUp
  <2>3. CASE i = Last
    <3>1. Last \in 2 .. Last /\ Last # DrainDelay + 3
      BY <1>1 DEF Last
    <3> QED
      BY <2>3, <3>1 DEF Moved
  <2> QED
    BY <1>1, <2>1, <2>2, <2>3 DEF Places
<1> QED
  BY <1>3

\* When its fall has come through, everything is down.
LEMMA NextTurns ==
  ASSUME Moved, ~theta_valid_r, Falling, ~Up(Last - 1)
  PROVE  AllDown'
<1>1. DrainDelay \in Nat \ {0} /\ Last \in Nat
  BY LatencyAssumption DEF Last
<1>2. ASSUME NEW i \in Places PROVE ~Up(i)'
  <2>1. CASE i = 0
    BY <2>1 DEF Moved
  <2>2. CASE i # 0
    <3>1. i \in 1 .. Last /\ i - 1 \in Places /\ Last - 1 \in Places
          /\ (i - 1 = Last - 1 \/ i - 1 < Last - 1)
      BY <1>1, <2>2 DEF Places
    <3>2. ~Up(i - 1)
      BY <3>1 DEF Falling
    <3> QED
      BY <3>1, <3>2, MovedOne
  <2> QED
    BY <2>1, <2>2
<1> QED
  BY <1>2 DEF AllDown, Places, Last

\* When no result is under way, everything is down.
LEMMA DrainedDown ==
  ASSUME ChainInv, Drained
  PROVE  AllDown
<1>1. DrainDelay \in Nat \ {0}
  BY LatencyAssumption
<1>2. /\ front_unit = Off /\ back_unit = Off /\ dtTick_states_r = <<FALSE, FALSE>> /\ ~next_dtTick_r
      /\ \A i \in 1 .. DrainDelay : delay_line[i] = NoOperand
  BY DEF Drained
<1>3. ~Ready(front_unit) /\ ~Ready(back_unit)
      /\ front_unit.op = NoOperand /\ back_unit.op = NoOperand
  BY <1>2 DEF Ready, Off
<1>4. \A i \in 0 .. DrainDelay + 1 : Stage(i) = NoOperand
  BY <1>1, <1>2, <1>3 DEF Stage, ResultOf
<1>5. ~dtTick_states_r[1] /\ ~dtTick_states_r[2] /\ ~Level
  BY <1>2 DEF Level
<1>6. ASSUME NEW i \in Places PROVE ~Up(i)
  <2>1. i \in 1 .. DrainDelay + 2 => i - 1 \in 0 .. DrainDelay + 1
    BY <1>1
  <2> QED
    BY <1>3, <1>4, <1>5, <2>1 DEF Up
<1> QED
  BY <1>6 DEF AllDown

\* What holds of a chain that is empty, and of one in which the ups come last or first.
LEMMA Shapes ==
  /\ AllDown => Rising /\ Falling
  /\ Falling => NoIsland
  /\ NoIsland /\ ~Up(Last) => Rising
<1>1. DrainDelay \in Nat \ {0} /\ Last \in Nat
  BY LatencyAssumption DEF Last
<1>2. ASSUME NoIsland, ~Up(Last) PROVE Rising
  <2>1. ASSUME NEW i \in Places, NEW j \in Places, i < j, Up(j), ~Up(i) PROVE FALSE
    <3>1. j # Last /\ j < Last /\ Last \in Places
      BY <1>1, <1>2, <2>1 DEF Places
    <3> QED
      BY <1>2, <2>1, <3>1 DEF NoIsland
  <2> QED
    BY <2>1 DEF Rising
<1>3. ASSUME Falling PROVE NoIsland
  BY <1>3 DEF Falling, NoIsland
<1> QED
  BY <1>2, <1>3 DEF AllDown, Rising, Falling

\* The same of the next state.
LEMMA ShapesNext ==
  /\ AllDown' => Rising' /\ Falling'
  /\ Falling' => NoIsland'
  /\ NoIsland' /\ ~Up(Last)' => Rising'
BY Shapes, PTL

\* The synchronizer and the chain wait for each other in turn
\* (laserSynchronizer.v:98-137,223-246, cordicManager.v:66-78).
LEMMA FlowStep ==
  ASSUME ChainInv, PhaseInv, CounterOK, FlowInv, SyncNext, Record
  PROVE  FlowInv'
<1>1. /\ SyncState /\ ThetaValid /\ ChainClock(theta_valid_r, theta_data_r)
      /\ theta_data_r \in Nat /\ theta_data_r \in Int
  BY DEF SyncNext, SyncClock, CounterOK
<1>2. Moved
  BY <1>1, UpStep DEF Moved
<1>3. DrainDelay \in Nat \ {0} /\ Last \in Nat /\ 0 \in Places /\ Last - 1 \in Places /\ Last \in Places
  BY LatencyAssumption DEF Last, Places
<1>4. /\ tick_Valid_w <=> Up(Last - 1) /\ ~Up(Last)
      /\ tick_notValid_w <=> ~Up(Last - 1) /\ Up(Last)
  BY Ends
<1>5. /\ Up(Last)' <=> Up(Last - 1)
      /\ Up(0)' <=> theta_valid_r
  BY <1>2, <1>3 DEF Moved, Last
<1>6. /\ edgeTicks_stored_r' <=>
           cur_state_r = "EDGE_TICKS" /\ (edgeTicks_stored_r \/ tick_notValid_w)
      /\ we_r' <=> cur_state_r = "MEM_UPDATE" /\ tick_Valid_w
  BY FlagStep
<1>7. drained' = IF Begin THEN Drained ELSE drained
  BY DEF Record
<1>8. CASE cur_state_r = "IDLE"
  <2>1. ~theta_valid_r /\ Falling'
    BY <1>2, <1>8, FallingKept DEF FlowInv
  <2>2. ~Up(0)' /\ NoIsland' /\ ~edgeTicks_stored_r' /\ ~we_r'
    BY <1>5, <1>6, <1>8, <2>1, ShapesNext
  <2>3. CASE ~ticks_update_r
    <3>1. cur_state_r' = "IDLE" /\ ~theta_valid_r'
      BY <1>1, <1>8, <2>3 DEF SyncState, ThetaValid
    <3> QED
      BY <2>1, <2>2, <3>1 DEF FlowInv
  <2>4. CASE ticks_update_r
    <3>1. cur_state_r' = "EDGE_TICKS" /\ theta_valid_r'
      BY <1>1, <1>8, <2>4 DEF SyncState, ThetaValid
    <3>2. drained' => Rising'
      <4>1. drained' => AllDown
        BY <1>7, <1>8, <3>1, DrainedDown DEF Begin
      <4>2. AllDown => ~Up(Last - 1)
        BY <1>3 DEF AllDown
      <4>3. AllDown => AllDown'
        BY <1>2, <2>1, <4>2, NextTurns, Shapes
      <4> QED
        BY <4>1, <4>3, ShapesNext
    <3> QED
      BY <2>2, <3>1, <3>2 DEF FlowInv
  <2> QED
    BY <2>3, <2>4
<1>9. CASE cur_state_r = "EDGE_TICKS"
  <2>1. /\ cur_state_r' \in {"EDGE_TICKS", "MEM_UPDATE"} /\ ~we_r'
        /\ cur_state_r' = "MEM_UPDATE" <=> edgeTicks_saved_r
        /\ theta_valid_r' <=> ~tick_Valid_w /\ (edgeTicks_saved_r \/ theta_valid_r)
        /\ drained' <=> drained
        /\ edgeTicks_stored_r' <=> edgeTicks_stored_r \/ tick_notValid_w
    BY <1>1, <1>6, <1>7, <1>9 DEF SyncState, ThetaValid, Begin
  <2>2. /\ edgeTicks_saved_r => edgeTicks_stored_r
        /\ edgeTicks_stored_r => ~tick_Valid_w
    BY <1>9, Pulses DEF PhaseInv
  <2>3. cur_state_r' = "MEM_UPDATE" => ~Up(Last)'
    <3>1. cur_state_r' = "MEM_UPDATE" => ~Level'
      BY <1>1, <1>9, PhaseStep
    <3>2. Up(Last)' <=> Level'
      BY <1>3 DEF Up, Last
    <3> QED
      BY <3>1, <3>2
  <2>4. CASE theta_valid_r /\ tick_Valid_w
    <3>1. NoIsland /\ Up(Last - 1) /\ ~Up(Last) /\ ~edgeTicks_stored_r /\ ~tick_notValid_w
      BY <1>4, <2>2, <2>4 DEF FlowInv
    <3>2. \A i \in Places : Up(i)'
      BY <1>2, <2>4, <3>1, TickTurns
    <3>3. Falling'
      BY <3>2 DEF Falling, Places, Last
    <3>4. ~theta_valid_r' /\ cur_state_r' = "EDGE_TICKS" /\ ~edgeTicks_stored_r'
      BY <2>1, <2>2, <2>4, <3>1
    <3> QED
      BY <2>1, <3>3, <3>4 DEF FlowInv
  <2>5. CASE theta_valid_r /\ ~tick_Valid_w
    <3>1. theta_valid_r' /\ NoIsland'
      BY <1>2, <2>1, <2>5, NoIslandKept DEF FlowInv
    <3>2. cur_state_r' = "MEM_UPDATE" => Rising'
      BY <2>3, <3>1, ShapesNext
    <3>3. drained => Rising' /\ ~edgeTicks_stored_r'
      <4>1. drained => Rising /\ ~edgeTicks_stored_r
        BY <1>9, <2>5 DEF FlowInv
      <4>2. Rising => ~tick_notValid_w
        BY <1>3, <1>4 DEF Rising
      <4> QED
        BY <1>2, <2>1, <2>5, <4>1, <4>2, RisingKept
    <3> QED
      BY <2>1, <3>1, <3>2, <3>3 DEF FlowInv
  <2>6. CASE ~theta_valid_r
    <3>1. Falling /\ (edgeTicks_stored_r => AllDown)
      BY <1>9, <2>6 DEF FlowInv
    <3>2. Falling'
      BY <1>2, <2>6, <3>1, FallingKept
    <3>3. edgeTicks_stored_r' => AllDown'
      <4>1. AllDown => ~Up(Last - 1)
        BY <1>3 DEF AllDown
      <4>2. edgeTicks_stored_r' => ~Up(Last - 1)
        BY <1>4, <2>1, <3>1, <4>1
      <4> QED
        BY <1>2, <2>6, <3>1, <4>2, NextTurns
    <3>4. theta_valid_r' => cur_state_r' = "MEM_UPDATE" /\ edgeTicks_stored_r'
      BY <2>1, <2>2, <2>6
    <3>5. theta_valid_r' => Rising' /\ NoIsland'
      BY <3>2, <3>3, <3>4, ShapesNext
    <3> QED
      BY <2>1, <3>2, <3>3, <3>4, <3>5 DEF FlowInv
  <2> QED
    BY <2>4, <2>5, <2>6
<1>10. CASE cur_state_r = "MEM_UPDATE"
  <2>1. /\ cur_state_r' \in {"IDLE", "MEM_UPDATE"} /\ ~edgeTicks_stored_r'
        /\ cur_state_r' = "IDLE" <=> mem_update_over_r
        /\ theta_valid_r' <=> ~tick_Valid_w /\ (tick_notValid_w \/ theta_valid_r)
        /\ we_r' <=> tick_Valid_w
    BY <1>1, <1>6, <1>10 DEF SyncState, ThetaValid
  <2>2. we_r => ~theta_valid_r /\ ~tick_notValid_w /\ ~tick_Valid_w
    <3>1. we_r => ~theta_valid_r /\ Up(Last - 1) /\ Level
      BY DEF FlowInv, PhaseInv
    <3> QED
      BY <1>4, <3>1, Pulses
  <2>3. cur_state_r' = "IDLE" => ~theta_valid_r' /\ ~Up(0)'
    BY <1>5, <2>1, <2>2 DEF PhaseInv
  <2>4. CASE theta_valid_r /\ tick_Valid_w
    <3>1. NoIsland /\ Up(Last - 1) /\ ~Up(Last)
      BY <1>4, <2>4 DEF FlowInv
    <3>2. \A i \in Places : Up(i)'
      BY <1>2, <2>4, <3>1, TickTurns
    <3>3. Falling' /\ Up(Last - 1)'
      BY <1>3, <3>2 DEF Falling, Places, Last
    <3> QED
      BY <2>1, <2>3, <2>4, <3>3 DEF FlowInv
  <2>5. CASE theta_valid_r /\ ~tick_Valid_w
    <3>1. Rising' /\ theta_valid_r'
      BY <1>2, <1>10, <2>1, <2>5, RisingKept DEF FlowInv
    <3>2. NoIsland'
      BY <1>2, <2>5, NoIslandKept DEF FlowInv
    <3> QED
      BY <2>1, <2>3, <2>5, <3>1, <3>2 DEF FlowInv
  <2>6. CASE ~theta_valid_r
    <3>1. Falling /\ Falling'
      BY <1>2, <2>6, FallingKept DEF FlowInv
    <3>2. ~tick_Valid_w
      BY <1>3, <1>4, <3>1 DEF Falling
    <3>3. theta_valid_r' => Rising' /\ NoIsland'
      BY <1>2, <1>4, <2>1, <2>6, <3>1, NextTurns, ShapesNext
    <3> QED
      BY <2>1, <2>3, <3>1, <3>2, <3>3 DEF FlowInv
  <2> QED
    BY <2>4, <2>5, <2>6
<1> QED
  BY <1>8, <1>9, <1>10 DEF PhaseInv

LEMMA HandshakeInit == Init => HandshakeInv
<1> SUFFICES ASSUME Init PROVE HandshakeInv
  OBVIOUS
<1>1. ChainInv /\ PhaseInv /\ CounterOK
  BY UpdateInit DEF UpdateInv
<1>2. cur_state_r = "IDLE" /\ ~theta_valid_r /\ ~we_r /\ Drained
  BY DEF Init, SyncInit, ChainInit, Drained
<1>3. AllDown /\ Falling
  BY <1>1, <1>2, DrainedDown, Shapes
<1>4. ~Up(0)
  BY <1>3, LatencyAssumption DEF AllDown, Places, Last
<1> QED
  BY <1>1, <1>2, <1>3, <1>4 DEF HandshakeInv, FlowInv

LEMMA HandshakeStep ==
  ASSUME HandshakeInv, [Next]_tuvars
  PROVE  HandshakeInv'
<1>1. CASE Next
  <2>1. SyncNext /\ Record
    BY <1>1 DEF Next
  <2>2. theta_data_r \in Int /\ ChainClock(theta_valid_r, theta_data_r)
    BY <2>1 DEF HandshakeInv, CounterOK, SyncNext, SyncClock
  <2> QED
    BY <2>1, <2>2, ChainStep, PhaseStep, CounterStep, FlowStep DEF HandshakeInv
<1>2. CASE UNCHANGED tuvars
  <2>1. ChainInv' /\ PhaseInv' /\ CounterOK'
    BY <1>2 DEF HandshakeInv, tuvars, syncvars, fsmRegs, edgeTickRegs, pointRegs, thetaRegs,
                writeRegs, chainRegs, ChainInv, PhaseInv, CounterOK, Stage, UnitOK, ResultOf,
                Ready, Level
  <2>2. \A i : Up(i)' <=> Up(i)
    BY <1>2 DEF tuvars, syncvars, chainRegs, Up, Last, Stage, ResultOf, Ready, Level
  <2>3. FlowInv'
    BY <1>2, <2>2 DEF HandshakeInv, FlowInv, tuvars, syncvars, fsmRegs, edgeTickRegs, thetaRegs,
                      writeRegs, Falling, NoIsland, Rising, AllDown, Places, Last
  <2> QED
    BY <2>1, <2>3 DEF HandshakeInv
<1> QED
  BY <1>1, <1>2

\* The inductive invariant of the handshake, however fast lines come
\* (laserSynchronizer.v:98-137,223-246, cordicManager.v:66-78).
THEOREM HandshakeInvariance == Spec => []HandshakeInv
<1> QED
  BY HandshakeInit, HandshakeStep, PTL DEF Spec

\* A cycle of valid: it rises only when the units before arcTan are off
\* (laserSynchronizer.v:223-246).
LEMMA ValidStep ==
  ASSUME HandshakeInv, SyncNext
  PROVE  /\ ~theta_valid_r /\ theta_valid_r' => front_unit = Off
         /\ drained /\ theta_valid_r /\ theta_valid_r' => theta_data_r' = theta_data_r
<1>1. SyncState /\ ThetaValid /\ ThetaData
  BY DEF SyncNext, SyncClock
<1>2. ChainInv /\ PhaseInv /\ FlowInv
  BY DEF HandshakeInv
<1>3. 0 \in Places /\ Last - 1 \in Places /\ Last \in Places /\ 0 < Last - 1 /\ Last - 1 < Last
  BY LatencyAssumption DEF Last, Places
<1>4. ~Up(0) => front_unit = Off
  BY <1>2 DEF Up, ChainInv, UnitOK
<1>5. tick_notValid_w <=> ~Up(Last - 1) /\ Up(Last)
  BY <1>2, Ends
<1>6. CASE cur_state_r = "IDLE"
  BY <1>2, <1>4, <1>6 DEF FlowInv
<1>7. CASE cur_state_r = "EDGE_TICKS"
  <2>1. /\ theta_valid_r' => edgeTicks_saved_r \/ theta_valid_r
        /\ ~edgeTicks_saved_r => theta_data_r' = theta_data_r
    BY <1>1, <1>7 DEF ThetaValid, ThetaData
  <2>2. edgeTicks_saved_r => edgeTicks_stored_r
    BY <1>2, <1>7 DEF PhaseInv
  <2>3. ~theta_valid_r /\ edgeTicks_stored_r => ~Up(0)
    BY <1>2, <1>3, <1>7 DEF FlowInv, AllDown
  <2>4. drained /\ theta_valid_r => ~edgeTicks_stored_r
    BY <1>2, <1>7 DEF FlowInv
  <2> QED
    BY <1>4, <2>1, <2>2, <2>3, <2>4
<1>8. CASE cur_state_r = "MEM_UPDATE"
  <2>1. /\ theta_valid_r' => tick_notValid_w \/ theta_valid_r
        /\ ~tick_notValid_w => theta_data_r' = theta_data_r
    BY <1>1, <1>8 DEF ThetaValid, ThetaData
  <2>2. ~theta_valid_r /\ tick_notValid_w => ~Up(0)
    BY <1>2, <1>3, <1>5 DEF FlowInv, Falling
  <2>3. theta_valid_r => ~tick_notValid_w
    BY <1>2, <1>3, <1>5, <1>8 DEF FlowInv, Rising
  <2> QED
    BY <1>4, <2>1, <2>2, <2>3
<1> QED
  BY <1>2, <1>6, <1>7, <1>8 DEF PhaseInv

\* The same behind arcTan (arcTan.v).
LEMMA BackValidStep ==
  ASSUME ChainInv, theta_data_r \in Int, ChainClock(theta_valid_r, theta_data_r),
         delay_line[DrainDelay] = NoOperand, delay_line'[DrainDelay] # NoOperand
  PROVE  back_unit = Off
<1>1. DrainDelay \in Nat \ {0}
  BY LatencyAssumption
<1>2. Stage(DrainDelay) = NoOperand /\ Stage(DrainDelay - 1) # NoOperand
  <2>1. Stage(DrainDelay)' = Stage(DrainDelay - 1)
    BY <1>1, StageStep
  <2>2. Stage(DrainDelay)' = delay_line'[DrainDelay] /\ Stage(DrainDelay) = delay_line[DrainDelay]
    BY <1>1 DEF Stage
  <2> QED
    BY <2>1, <2>2
<1>3. Stage(DrainDelay + 1) = NoOperand
  BY <1>1, <1>2 DEF ChainInv
<1>4. back_unit.op = NoOperand
  BY <1>1, <1>3 DEF Stage
<1> QED
  BY <1>4 DEF ChainInv, UnitOK

\* What the arithmetic units need of the synchronizer, they get in every instance, however
\* fast lines come: valid has been low for two cycles when it rises, and in an update that
\* began with the chain empty the operand stays while valid is up
\* (laserSynchronizer.v:223-271, new_fixed_mul.v:60-75).
THEOREM UnitsGetRest == Spec => UnitsRest
<1>1. ASSUME HandshakeInv, [Next]_tuvars
      PROVE  [/\ ~theta_valid_r /\ theta_valid_r' => front_unit = Off
              /\ delay_line[DrainDelay] = NoOperand /\ delay_line'[DrainDelay] # NoOperand
                   => back_unit = Off
              /\ drained /\ theta_valid_r /\ theta_valid_r' => theta_data_r' = theta_data_r]_tuvars
  <2>1. CASE Next
    <3>1. SyncNext
      BY <2>1 DEF Next
    <3>2. ChainInv /\ theta_data_r \in Int /\ ChainClock(theta_valid_r, theta_data_r)
      BY <1>1, <3>1 DEF HandshakeInv, CounterOK, SyncNext, SyncClock
    <3> QED
      BY <1>1, <3>1, <3>2, ValidStep, BackValidStep
  <2> QED
    BY <1>1, <2>1
<1> QED
  BY <1>1, HandshakeInvariance, PTL DEF Spec, UnitsRest
-----------------------------------------------------------------------------
(***************************************************************************)
(* The contents of the tables: an update which begins with the chain       *)
(* empty computes one fire time for every position of the mirror, frame    *)
(* by frame, and the delays it writes add up, point by point, to when each *)
(* is due.                                                                 *)
(*                                                                         *)
(* The operand that comes out of the chain is the one that was put in      *)
(* (OperandInv), that one belongs to the point which the counters show,    *)
(* although it is put together from registers one cycle behind them        *)
(* (ThetaInv), and the counters, which stop at the last address, go        *)
(* through all points (AddressInv, CoverInv).  A delay is made from that   *)
(* point's time, the one kept from the point before (LastInv) and the      *)
(* edge's (EdgeInv); it reaches the cell of its point (WordInv, CellsInv), *)
(* and by induction over the columns the sums of a row agree with the due  *)
(* times modulo the width of a delay (SumsLead).  The software's delays    *)
(* lead in the same way from one of its times to the next (SumsAre), and   *)
(* these times are those of the same positions (TimesMeet).                *)
(***************************************************************************)

\* The operand of a point is the only one in the chain.
OperandInv ==
  drained /\ theta_valid_r =>
    /\ front_unit.op \in {NoOperand, theta_data_r}
    /\ \A i \in 0 .. DrainDelay + 1 : Stage(i) \in {NoOperand, theta_data_r}

\* The iteration of a point: frame f, passage q, point l of the passage.
RefOf(f, q) == IF q % 2 = 1 THEN FrameNumber - 1 - f ELSE f
ThetaOf(f, q, l) == RefOf(f, q) + l * ThetaStep + (q \div 2) * FrameNumber

ThetaInv ==
  cur_state_r = "MEM_UPDATE" =>
    /\ theta_valid_r =>
         theta_data_r = ThetaOf(frame_number_cnt_r, passages_cnt_r, line_points_cnt_r)
    /\ ~theta_valid_r /\ ~we_r =>
         /\ theta_ref_r = RefOf(frame_number_cnt_r, passages_cnt_r)
         /\ theta_aux0_r = line_points_cnt_r * ThetaStep
         /\ theta_aux1_r = (passages_cnt_r \div 2) * FrameNumber

\* The address and the counters step in turn.
AddressInv ==
  cur_state_r = "MEM_UPDATE" => /\ ~Level => waddr_r = Column
                                /\ Level => Column = NextColumn(waddr_r)

\* The points, those before one of them in the order of the counters, and where each is due.
Points == Frames \X (0 .. Passages - 1) \X (0 .. LinePoints - 1)
Before(f, q, l) ==
  {pt \in Points : \/ pt[1] < f
                   \/ pt[1] = f /\ pt[2] < q
                   \/ pt[1] = f /\ pt[2] = q /\ pt[3] < l}
Where(pt) == <<pt[1], PositionOf(ThetaOf(pt[1], pt[2], pt[3]), pt[2])>>

CoverInv ==
  /\ cur_state_r = "EDGE_TICKS" => covered = {}
  /\ cur_state_r = "MEM_UPDATE" /\ drained =>
       covered = {Where(pt) : pt \in IF mem_update_over_r THEN Points
                                     ELSE Before(frame_number_cnt_r, passages_cnt_r,
                                                 line_points_cnt_r)}

PositionInv == HandshakeInv /\ OperandInv /\ ThetaInv /\ AddressInv /\ CoverInv
-----------------------------------------------------------------------------
\* A place among L rows of P, and one from the other end.
LEMMA PlaceInRows ==
  ASSUME NEW L \in Nat \ {0}, NEW P \in Nat \ {0}, NEW l \in 0 .. L - 1, NEW h \in 0 .. P - 1
  PROVE  /\ l * P + h \in 0 .. L * P - 1
         /\ (L - 1 - l) * P + (P - 1 - h) \in 0 .. L * P - 1
         /\ (L - 1 - l) * P + (P - 1 - h) = L * P - 1 - (l * P + h)
<1>1. (L - 1 - l) * P + (P - 1 - h) = L * P - 1 - (l * P + h)
  OBVIOUS
<1>2. l * P + h \in 0 .. L * P - 1
  OBVIOUS
<1>3. PICK x \in Int, n \in Int : x = l * P + h /\ n = L * P
  OBVIOUS
<1> QED
  BY <1>1, <1>2, <1>3

\* Forwards, frame f is at the positions that are f modulo the number of frames; backwards
\* the frames are counted from the other end, and the position too, so that the same holds.
LEMMA PositionOfPoint ==
  ASSUME NEW f \in 0 .. FrameNumber - 1, NEW q \in 0 .. Passages - 1,
         NEW l \in 0 .. LinePoints - 1
  PROVE  PositionOf(ThetaOf(f, q, l), q) =
           IF q % 2 = 0 THEN FrameNumber * (l * Passages + (q \div 2)) + f
           ELSE FrameNumber * ((LinePoints - 1 - l) * Passages + (Passages - 1 - (q \div 2))) + f
<1> DEFINE F == FrameNumber
           P == Passages
           L == LinePoints
           h == q \div 2
<1>1. /\ F \in Nat \ {0} /\ L \in Nat \ {0} /\ P \in Nat \ {0}
      /\ FrameColumns = L * P
  BY Sizes
<1>2. h \in 0 .. P - 1 /\ q % 2 \in {0, 1}
  BY <1>1
<1>3. ThetaStep = F * P /\ TotalPoints = (L * P) * F
  BY <1>1 DEF ThetaStep, TotalPoints
<1> HIDE DEF F, P, L, h
<1>4. CASE q % 2 = 0
  <2>1. PositionOf(ThetaOf(f, q, l), q) = f + l * (F * P) + h * F
    BY <1>3, <1>4 DEF PositionOf, ThetaOf, RefOf, F, h
  <2>2. f + l * (F * P) + h * F = F * (l * P + h) + f
    BY <1>1, <1>2 DEF F, P, L
  <2> QED
    BY <1>4, <2>1, <2>2 DEF F, P, L, h
<1>5. CASE q % 2 = 1
  <2>1. PositionOf(ThetaOf(f, q, l), q) =
          (L * P) * F - 1 - ((F - 1 - f) + l * (F * P) + h * F)
    BY <1>3, <1>5 DEF PositionOf, ThetaOf, RefOf, F, h
  <2>2. (L * P) * F - 1 - ((F - 1 - f) + l * (F * P) + h * F) =
          F * ((L - 1 - l) * P + (P - 1 - h)) + f
    BY <1>1, <1>2 DEF F, P, L
  <2> QED
    BY <1>5, <2>1, <2>2 DEF F, P, L, h
<1> QED
  BY <1>2, <1>4, <1>5

\* The points of all frames and passages take every position, and no other
\* (laserSynchronizer.v:223-272).
LEMMA AllPositions == {Where(pt) : pt \in Points} = {<<p % FrameNumber, p>> : p \in Positions}
<1> DEFINE F == FrameNumber
           P == Passages
           L == LinePoints
<1>1. /\ F \in Nat \ {0} /\ L \in Nat \ {0} /\ P \in Nat \ {0} /\ L * P \in Nat \ {0}
      /\ TotalPoints = F * (L * P)
  BY Sizes DEF TotalPoints
<1>2. Positions = 0 .. F * (L * P) - 1
  BY <1>1 DEF Positions
<1> HIDE DEF F, P, L
<1>3. ASSUME NEW pt \in Points
      PROVE  \E p \in Positions : Where(pt) = <<p % F, p>>
  <2>1. PICK f \in 0 .. F - 1, q \in 0 .. P - 1, l \in 0 .. L - 1 : pt = <<f, q, l>>
    BY <1>3 DEF Points, Frames, F, P, L
  <2>2. q \div 2 \in 0 .. P - 1 /\ q % 2 \in {0, 1}
    BY <1>1
  <2>3. PICK x \in 0 .. L * P - 1 : PositionOf(ThetaOf(f, q, l), q) = F * x + f
    <3>1. /\ l * P + (q \div 2) \in 0 .. L * P - 1
          /\ (L - 1 - l) * P + (P - 1 - (q \div 2)) \in 0 .. L * P - 1
      BY <1>1, <2>2, PlaceInRows
    <3>2. PositionOf(ThetaOf(f, q, l), q) =
            IF q % 2 = 0 THEN F * (l * P + (q \div 2)) + f
            ELSE F * ((L - 1 - l) * P + (P - 1 - (q \div 2))) + f
      BY PositionOfPoint DEF F, P, L
    <3> QED
      BY <2>2, <3>1, <3>2
  <2>4. F * x + f \in Positions /\ (F * x + f) % F = f
    <3>1. F * x + f \in 0 .. F * (L * P) - 1
      BY <1>1
    <3>2. (F * x + f) % F = f
      BY <1>1
    <3> QED
      BY <1>2, <3>1, <3>2
  <2>5. Where(pt) = <<f, F * x + f>>
    BY <2>1, <2>3 DEF Where
  <2> QED
    BY <2>4, <2>5
<1>4. ASSUME NEW p \in Positions
      PROVE  \E pt \in Points : Where(pt) = <<p % F, p>>
  <2> DEFINE f == p % F
             x == p \div F
             s == x % P
             row == x \div P
             q == IF 2 * s < P THEN 2 * s ELSE 2 * (P - 1 - s) + 1
             l == IF 2 * s < P THEN row ELSE L - 1 - row
  <2>1. f \in 0 .. F - 1 /\ x \in 0 .. L * P - 1 /\ p = F * x + f
    BY <1>1, <1>2
  <2>2. s \in 0 .. P - 1 /\ row \in 0 .. L - 1 /\ x = row * P + s
    <3>1. x \in 0 .. P * L - 1
      BY <1>1, <2>1
    <3> HIDE DEF x
    <3> QED
      BY <1>1, <3>1
  <2> HIDE DEF f, x, s, row
  <2>3. /\ q \in 0 .. P - 1 /\ l \in 0 .. L - 1
        /\ 2 * s < P => q % 2 = 0 /\ q \div 2 = s /\ l = row
        /\ ~(2 * s < P) => q % 2 = 1 /\ q \div 2 = P - 1 - s /\ L - 1 - l = row
    BY <1>1, <2>2
  <2> HIDE DEF q, l
  <2>4. PositionOf(ThetaOf(f, q, l), q) =
          IF q % 2 = 0 THEN F * (l * P + (q \div 2)) + f
          ELSE F * ((L - 1 - l) * P + (P - 1 - (q \div 2))) + f
    BY <2>1, <2>3, PositionOfPoint DEF F, P, L
  <2>5. PositionOf(ThetaOf(f, q, l), q) = p
    <3>1. CASE 2 * s < P
      BY <2>1, <2>2, <2>3, <2>4, <3>1
    <3>2. CASE ~(2 * s < P)
      <4>1. P - 1 - (q \div 2) = s
        BY <1>1, <2>2, <2>3, <3>2
      <4> QED
        BY <2>1, <2>2, <2>3, <2>4, <3>2, <4>1
    <3> QED
      BY <3>1, <3>2
  <2>6. <<f, q, l>> \in Points /\ Where(<<f, q, l>>) = <<f, p>>
    BY <2>1, <2>3, <2>5 DEF Points, Frames, Where, F, P, L
  <2> QED
    BY <2>6 DEF f
<1> QED
  BY <1>3, <1>4 DEF F
-----------------------------------------------------------------------------
\* The points in the order of the nested counters (laserSynchronizer.v:181-217).
LEMMA PointOrder ==
  ASSUME NEW f \in 0 .. FrameNumber - 1, NEW q \in 0 .. Passages - 1,
         NEW l \in 0 .. LinePoints - 1
  PROVE  /\ Before(0, 0, 0) = {}
         /\ l < LinePoints - 1 => Before(f, q, l + 1) = Before(f, q, l) \cup {<<f, q, l>>}
         /\ l = LinePoints - 1 /\ q < Passages - 1 =>
              Before(f, q + 1, 0) = Before(f, q, l) \cup {<<f, q, l>>}
         /\ l = LinePoints - 1 /\ q = Passages - 1 /\ f < FrameNumber - 1 =>
              Before(f + 1, 0, 0) = Before(f, q, l) \cup {<<f, q, l>>}
         /\ l = LinePoints - 1 /\ q = Passages - 1 /\ f = FrameNumber - 1 =>
              Points = Before(f, q, l) \cup {<<f, q, l>>}
<1>1. FrameNumber \in Nat \ {0} /\ LinePoints \in Nat \ {0} /\ Passages \in Nat \ {0}
  BY Sizes
<1>2. <<f, q, l>> \in Points
  BY DEF Points, Frames
<1>3. \A pt \in Points :
        /\ pt[1] \in 0 .. FrameNumber - 1 /\ pt[2] \in 0 .. Passages - 1
        /\ pt[3] \in 0 .. LinePoints - 1
        /\ pt = <<f, q, l>> <=> pt[1] = f /\ pt[2] = q /\ pt[3] = l
  BY DEF Points, Frames
<1>4. Before(0, 0, 0) = {}
  BY <1>1, <1>3 DEF Before
<1>5. ASSUME l < LinePoints - 1
      PROVE  Before(f, q, l + 1) = Before(f, q, l) \cup {<<f, q, l>>}
  BY <1>1, <1>2, <1>3, <1>5 DEF Before
<1>6. ASSUME l = LinePoints - 1, q < Passages - 1
      PROVE  Before(f, q + 1, 0) = Before(f, q, l) \cup {<<f, q, l>>}
  BY <1>1, <1>2, <1>3, <1>6 DEF Before
<1>7. ASSUME l = LinePoints - 1, q = Passages - 1, f < FrameNumber - 1
      PROVE  Before(f + 1, 0, 0) = Before(f, q, l) \cup {<<f, q, l>>}
  BY <1>1, <1>2, <1>3, <1>7 DEF Before
<1>8. ASSUME l = LinePoints - 1, q = Passages - 1, f = FrameNumber - 1
      PROVE  Points = Before(f, q, l) \cup {<<f, q, l>>}
  BY <1>1, <1>2, <1>3, <1>8 DEF Before
<1> QED
  BY <1>4, <1>5, <1>6, <1>7, <1>8

\* A unit puts out what was put in (HandshakeUnit).
LEMMA OperandOfUnit ==
  ASSUME NEW unit, UnitOK(unit), NEW operand \in Int, NEW latency \in Nat \ {0}
  PROVE  Step(unit, operand, latency).op \in {operand, unit.op}
<1>1. CASE operand = NoOperand
  BY <1>1 DEF Step, Off
<1>2. CASE operand # NoOperand /\ unit = Off
  BY <1>2 DEF Step
<1>3. CASE operand # NoOperand /\ unit # Off /\ unit.left > 0
  <2>1. Step(unit, operand, latency) = [left |-> unit.left - 1, op |-> unit.op]
    BY <1>3 DEF Step, UnitOK
  <2> QED
    BY <2>1
<1>4. CASE operand # NoOperand /\ unit # Off /\ ~(unit.left > 0)
  BY <1>4 DEF Step
<1> QED
  BY <1>1, <1>2, <1>3, <1>4

\* When valid rises in an update that began with the chain empty, the operand before has
\* left the chain (laserSynchronizer.v:223-246).
LEMMA EmptyAtRise ==
  ASSUME HandshakeInv, SyncNext, Record, ~theta_valid_r, theta_valid_r', drained'
  PROVE  AllDown'
<1>1. SyncState /\ ThetaValid /\ ChainClock(theta_valid_r, theta_data_r)
  BY DEF SyncNext, SyncClock
<1>2. ChainInv /\ PhaseInv /\ FlowInv /\ theta_data_r \in Nat
  BY DEF HandshakeInv, CounterOK
<1>3. Moved
  BY <1>1, <1>2, UpStep DEF Moved
<1>4. Last - 1 \in Places
  BY LatencyAssumption DEF Last, Places
<1>5. CASE cur_state_r = "IDLE"
  <2>1. ticks_update_r /\ cur_state_r' = "EDGE_TICKS"
    BY <1>1, <1>5 DEF SyncState, ThetaValid
  <2>2. Drained
    BY <1>5, <2>1 DEF Record, Begin
  <2>3. ~Up(Last - 1)
    BY <1>2, <1>4, <2>2, DrainedDown DEF AllDown
  <2> QED
    BY <1>2, <1>3, <2>3, NextTurns DEF FlowInv
<1>6. CASE cur_state_r = "EDGE_TICKS"
  <2>1. edgeTicks_saved_r
    BY <1>1, <1>6 DEF ThetaValid
  <2>2. ~Up(Last - 1)
    BY <1>2, <1>4, <1>6, <2>1 DEF PhaseInv, FlowInv, AllDown
  <2> QED
    BY <1>2, <1>3, <2>2, NextTurns DEF FlowInv
<1>7. CASE cur_state_r = "MEM_UPDATE"
  <2>1. tick_notValid_w
    BY <1>1, <1>7 DEF ThetaValid
  <2>2. ~Up(Last - 1)
    BY <1>2, <2>1, Ends
  <2> QED
    BY <1>2, <1>3, <2>2, NextTurns DEF FlowInv
<1> QED
  BY <1>2, <1>5, <1>6, <1>7 DEF PhaseInv

\* A cycle of the operand in the chain (cordicManager.v:66-78, laserSynchronizer.v:223-271).
LEMMA OperandStep ==
  ASSUME HandshakeInv, OperandInv, SyncNext, Record
  PROVE  OperandInv'
<1> SUFFICES ASSUME drained', theta_valid_r'
             PROVE  /\ front_unit'.op \in {NoOperand, theta_data_r'}
                    /\ \A i \in 0 .. DrainDelay + 1 : Stage(i)' \in {NoOperand, theta_data_r'}
  BY DEF OperandInv
<1>1. DrainDelay \in Nat \ {0} /\ FrontLatency \in Nat \ {0} /\ BackLatency \in Nat \ {0}
  BY LatencyAssumption
<1>2. ChainInv /\ FlowInv /\ theta_data_r \in Int /\ UnitOK(front_unit) /\ UnitOK(back_unit)
  BY DEF HandshakeInv, CounterOK, ChainInv
<1>3. ChainClock(theta_valid_r, theta_data_r)
  BY DEF SyncNext, SyncClock
<1>4. Stage(0)' \in {NoOperand, front_unit'.op} /\ Stage(DrainDelay + 1)' = back_unit'.op
  BY <1>1 DEF Stage, ResultOf
<1>5. CASE ~theta_valid_r
  <2>1. AllDown'
    BY <1>5, EmptyAtRise
  <2>2. \A i \in Places : ~Up(i)'
    BY <2>1 DEF AllDown, Places, Last
  <2>3. front_unit'.op = NoOperand
    <3>1. 0 \in Places
      BY <1>1 DEF Places, Last
    <3> QED
      BY <2>2, <3>1 DEF Up
  <2>4. ASSUME NEW i \in 0 .. DrainDelay + 1 PROVE Stage(i)' = NoOperand
    <3>1. i + 1 \in Places /\ i + 1 \in 1 .. DrainDelay + 2 /\ (i + 1) - 1 = i
      BY <1>1 DEF Places, Last
    <3>2. ~Up(i + 1)'
      BY <2>2, <3>1
    <3> QED
      BY <3>1, <3>2 DEF Up
  <2> QED
    BY <2>3, <2>4
<1>6. CASE theta_valid_r
  <2>1. drained /\ theta_data_r' = theta_data_r
    <3>1. drained
      BY <1>2, <1>6 DEF Record, Begin, FlowInv
    <3> QED
      BY <1>6, <3>1, ValidStep
  <2>2. /\ front_unit.op \in {NoOperand, theta_data_r}
        /\ \A i \in 0 .. DrainDelay + 1 : Stage(i) \in {NoOperand, theta_data_r}
    BY <1>6, <2>1 DEF OperandInv
  <2>3. front_unit'.op \in {NoOperand, theta_data_r}
    <3>1. front_unit' = Step(front_unit, theta_data_r, FrontLatency)
      BY <1>3, <1>6 DEF ChainClock
    <3> QED
      BY <1>1, <1>2, <2>2, <3>1, OperandOfUnit
  <2>4. back_unit'.op \in {NoOperand, theta_data_r}
    <3>1. PICK o \in Int : o = Stage(DrainDelay)
      BY <1>1, <1>2 DEF Stage, ChainInv
    <3>2. back_unit' = Step(back_unit, o, BackLatency)
      BY <1>1, <1>3, <3>1 DEF ChainClock, Stage
    <3>3. back_unit'.op \in {o, back_unit.op}
      BY <1>1, <1>2, <3>2, OperandOfUnit
    <3>4. back_unit.op = Stage(DrainDelay + 1)
      BY <1>1 DEF Stage
    <3>5. DrainDelay \in 0 .. DrainDelay + 1 /\ DrainDelay + 1 \in 0 .. DrainDelay + 1
      BY <1>1
    <3> QED
      BY <2>2, <3>1, <3>3, <3>4, <3>5
  <2>5. ASSUME NEW i \in 1 .. DrainDelay PROVE Stage(i)' \in {NoOperand, theta_data_r}
    <3>1. Stage(i)' = Stage(i - 1) /\ i - 1 \in 0 .. DrainDelay + 1
      BY <1>1, <1>2, <1>3, StageStep
    <3> QED
      BY <2>2, <3>1
  <2>6. ASSUME NEW i \in 0 .. DrainDelay + 1 PROVE Stage(i)' \in {NoOperand, theta_data_r}
    <3>1. i = 0 \/ i \in 1 .. DrainDelay \/ i = DrainDelay + 1
      BY <1>1
    <3> QED
      BY <1>4, <2>3, <2>4, <2>5, <3>1
  <2> QED
    BY <2>1, <2>3, <2>6
<1> QED
  BY <1>5, <1>6

\* A cycle of the synchronizer in MEM_UPDATE, or the one that enters it: the handshake
\* and the counters (laserSynchronizer.v:98-246).
LEMMA PhasesOfPoint ==
  ASSUME HandshakeInv, SyncNext
  PROVE  /\ tick_Valid_w /\ cur_state_r = "MEM_UPDATE" => theta_valid_r /\ ~theta_valid_r' /\ we_r' /\ ~Level
         /\ cur_state_r = "MEM_UPDATE" /\ theta_valid_r => ~tick_notValid_w
         /\ tick_notValid_w => ~we_r
         /\ cur_state_r = "EDGE_TICKS" /\ cur_state_r' = "MEM_UPDATE" =>
              /\ theta_valid_r' /\ theta_data_r' = 0 /\ ~Level' /\ ~mem_update_over_r'
              /\ waddr_r' = 0
              /\ frame_number_cnt_r' = 0 /\ passages_cnt_r' = 0 /\ line_points_cnt_r' = 0
<1>1. /\ SyncState /\ ThetaValid /\ ThetaData /\ FrameIteration /\ WriteAddress
  BY DEF SyncNext, SyncClock
<1>2. ChainInv /\ PhaseInv /\ FlowInv /\ theta_data_r \in Int
  BY DEF HandshakeInv, CounterOK
<1>3. Last - 1 \in Places /\ Last \in Places /\ Last - 1 < Last
  BY LatencyAssumption DEF Last, Places
<1>4. /\ tick_Valid_w <=> Up(Last - 1) /\ ~Up(Last)
      /\ tick_notValid_w <=> ~Up(Last - 1) /\ Up(Last)
      /\ Level <=> Up(Last)
  BY <1>2, Ends
<1>5. tick_Valid_w => theta_valid_r
  BY <1>2, <1>3, <1>4 DEF FlowInv, Falling
<1>6. cur_state_r = "MEM_UPDATE" /\ theta_valid_r => ~tick_notValid_w
  BY <1>2, <1>3, <1>4 DEF FlowInv, Rising
<1>7. tick_notValid_w => ~we_r
  BY <1>2, <1>4 DEF FlowInv
<1>8. tick_Valid_w /\ cur_state_r = "MEM_UPDATE" => ~theta_valid_r' /\ we_r' /\ ~Level
  BY <1>1, <1>4, FlagStep DEF ThetaValid
<1>9. ASSUME cur_state_r = "EDGE_TICKS", cur_state_r' = "MEM_UPDATE"
      PROVE  /\ theta_valid_r' /\ theta_data_r' = 0 /\ ~Level' /\ ~mem_update_over_r'
             /\ waddr_r' = 0
             /\ frame_number_cnt_r' = 0 /\ passages_cnt_r' = 0 /\ line_points_cnt_r' = 0
  <2>1. edgeTicks_saved_r
    BY <1>1, <1>9 DEF SyncState
  <2>2. ~tick_Valid_w
    BY <1>2, <1>9, <2>1, Pulses DEF PhaseInv
  <2>3. theta_valid_r' /\ theta_data_r' = 0
    BY <1>1, <1>9, <2>1, <2>2 DEF ThetaValid, ThetaData
  <2>4. ~Level'
    BY <1>2, <1>9, PhaseStep
  <2>5. ~mem_update_over_r'
    BY <1>9, FlagStep
  <2> QED
    BY <1>1, <1>9, <2>3, <2>4, <2>5 DEF WriteAddress, FrameIteration
<1> QED
  BY <1>5, <1>6, <1>7, <1>8, <1>9

\* The registers from which the operand is put together follow the counters before the next
\* operand is (laserSynchronizer.v:247-272).
LEMMA ThetaFollows ==
  ASSUME HandshakeInv, ThetaInv, SyncNext
  PROVE  ThetaInv'
<1> SUFFICES ASSUME cur_state_r' = "MEM_UPDATE" PROVE ThetaInv'
  BY DEF ThetaInv
<1>1. SyncState /\ ThetaValid /\ ThetaData /\ FrameIteration
  BY DEF SyncNext, SyncClock
<1>2. CASE cur_state_r = "EDGE_TICKS"
  <2>1. /\ theta_valid_r' /\ theta_data_r' = 0
        /\ frame_number_cnt_r' = 0 /\ passages_cnt_r' = 0 /\ line_points_cnt_r' = 0
    BY <1>2, PhasesOfPoint
  <2>2. ThetaOf(0, 0, 0) = 0
    <3>1. 0 * ThetaStep = 0 /\ (0 \div 2) * FrameNumber = 0
      BY Sizes DEF ThetaStep
    <3> QED
      BY <3>1 DEF ThetaOf, RefOf
  <2> QED
    BY <2>1, <2>2 DEF ThetaInv, ThetaOf, RefOf
<1>3. CASE cur_state_r = "MEM_UPDATE" /\ tick_Valid_w
  BY <1>3, PhasesOfPoint DEF ThetaInv
<1>4. CASE cur_state_r = "MEM_UPDATE" /\ ~tick_Valid_w
  <2>1. /\ frame_number_cnt_r' = frame_number_cnt_r /\ passages_cnt_r' = passages_cnt_r
        /\ line_points_cnt_r' = line_points_cnt_r
    BY <1>1, <1>4 DEF FrameIteration, pointRegs
  <2>2. /\ theta_ref_r' = RefOf(frame_number_cnt_r, passages_cnt_r)
        /\ theta_aux0_r' = line_points_cnt_r * ThetaStep
        /\ theta_aux1_r' = (passages_cnt_r \div 2) * FrameNumber
    BY <1>1, <1>4 DEF ThetaData, RefOf, mirror_reverse_w
  <2>3. theta_valid_r' =>
          theta_data_r' = ThetaOf(frame_number_cnt_r, passages_cnt_r, line_points_cnt_r)
    <3>1. theta_valid_r' <=> tick_notValid_w \/ theta_valid_r
      BY <1>1, <1>4 DEF ThetaValid
    <3>2. CASE theta_valid_r
      <4>1. ~tick_notValid_w
        BY <1>4, <3>2, PhasesOfPoint
      <4>2. theta_data_r' = theta_data_r
        BY <1>1, <1>4, <4>1 DEF ThetaData
      <4> QED
        BY <1>4, <3>2, <4>2 DEF ThetaInv
    <3>3. CASE ~theta_valid_r /\ tick_notValid_w
      <4>1. theta_data_r' = theta_ref_r + theta_aux0_r + theta_aux1_r
        BY <1>1, <1>4, <3>3 DEF ThetaData
      <4>2. ~we_r
        BY <3>3, PhasesOfPoint
      <4> QED
        BY <1>4, <3>3, <4>1, <4>2 DEF ThetaInv, ThetaOf
    <3> QED
      BY <3>1, <3>2, <3>3
  <2> QED
    BY <2>1, <2>2, <2>3 DEF ThetaInv, ThetaOf, RefOf
<1> QED
  BY <1>1, <1>2, <1>3, <1>4 DEF SyncState

\* The address steps with the one pulse, the counters with the other
\* (laserSynchronizer.v:181-217,309-322).
LEMMA AddressStep ==
  ASSUME HandshakeInv, AddressInv, SyncNext
  PROVE  AddressInv'
<1> SUFFICES ASSUME cur_state_r' = "MEM_UPDATE" PROVE AddressInv'
  BY DEF AddressInv
<1>1. /\ SyncState /\ FrameIteration /\ WriteAddress /\ ChainClock(theta_valid_r, theta_data_r)
      /\ ChainInv /\ CounterOK /\ theta_data_r \in Int
  BY DEF SyncNext, SyncClock, HandshakeInv, CounterOK
<1>2. CASE cur_state_r = "EDGE_TICKS"
  <2>1. ~Level' /\ waddr_r' = 0 /\ passages_cnt_r' = 0 /\ line_points_cnt_r' = 0
    BY <1>2, PhasesOfPoint
  <2>2. 0 * LinePoints + 0 = 0
    BY Sizes
  <2> QED
    BY <2>1, <2>2 DEF AddressInv, Column
<1>3. CASE cur_state_r = "MEM_UPDATE"
  <2>1. /\ tick_Valid_w => ~Level /\ Level'
        /\ tick_notValid_w => Level /\ ~Level'
        /\ ~tick_Valid_w /\ ~tick_notValid_w => (Level' <=> Level)
    BY <1>1, ChainStep, Pulses
  <2>2. /\ tick_Valid_w => Column' = NextColumn(Column)
        /\ ~tick_Valid_w => Column' = Column
    BY <1>1, <1>3, ColumnStep DEF FrameIteration, pointRegs, Column
  <2>3. /\ tick_notValid_w => waddr_r' = NextColumn(waddr_r)
        /\ ~tick_notValid_w => waddr_r' = waddr_r
    <3>1. waddr_r < FrameColumns - 1 => (waddr_r + 1) % AddrMod = waddr_r + 1
      BY <1>1, Sizes DEF CounterOK
    <3> QED
      BY <1>1, <1>3, <3>1 DEF WriteAddress, NextColumn
  <2>4. (~Level => waddr_r = Column) /\ (Level => Column = NextColumn(waddr_r))
    BY <1>3 DEF AddressInv
  <2>5. CASE tick_Valid_w
    <3>1. ~tick_notValid_w /\ Level' /\ Column' = NextColumn(waddr_r')
      BY <2>1, <2>2, <2>3, <2>4, <2>5
    <3> QED
      BY <3>1 DEF AddressInv, NextColumn
  <2>6. CASE tick_notValid_w
    <3>1. ~Level' /\ waddr_r' = Column'
      BY <2>1, <2>2, <2>3, <2>4, <2>6
    <3> QED
      BY <3>1 DEF AddressInv
  <2>7. CASE ~tick_Valid_w /\ ~tick_notValid_w
    <3>1. (Level' <=> Level) /\ waddr_r' = waddr_r /\ Column' = Column
      BY <2>1, <2>2, <2>3, <2>7
    <3> QED
      BY <2>4, <3>1 DEF AddressInv, NextColumn
  <2> QED
    BY <2>5, <2>6, <2>7
<1> QED
  BY <1>1, <1>2, <1>3 DEF SyncState

\* The counters take one point after the other, and the update is over with the last one
\* (laserSynchronizer.v:98-137,181-217).
LEMMA PointTaken ==
  ASSUME CounterOK, AddressInv, ~Level, cur_state_r = "MEM_UPDATE", tick_Valid_w, SyncNext
  PROVE  LET point == <<frame_number_cnt_r, passages_cnt_r, line_points_cnt_r>>
             before == Before(frame_number_cnt_r, passages_cnt_r, line_points_cnt_r)
         IN  /\ mem_update_over_r' => Points = before \cup {point}
             /\ ~mem_update_over_r' =>
                  Before(frame_number_cnt_r', passages_cnt_r', line_points_cnt_r') =
                    before \cup {point}
<1>1. FrameIteration
  BY DEF SyncNext, SyncClock
<1>2. /\ FrameNumber \in Nat \ {0} /\ LinePoints \in Nat \ {0} /\ Passages \in Nat \ {0}
      /\ FrameColumns \in Nat \ {0} /\ FrameColumns = LinePoints * Passages
  BY Sizes
<1>3. PICK f \in 0 .. FrameNumber - 1, q \in 0 .. Passages - 1, l \in 0 .. LinePoints - 1 :
        f = frame_number_cnt_r /\ q = passages_cnt_r /\ l = line_points_cnt_r
  BY DEF CounterOK
<1>4. PICK c \in 0 .. FrameColumns - 1 :
        /\ c = Column
        /\ c >= FrameColumns - 1 <=> l = LinePoints - 1 /\ q = Passages - 1
  <2>1. /\ q * LinePoints + l \in 0 .. FrameColumns - 1
        /\ l < LinePoints - 1 => q * LinePoints + l < FrameColumns - 1
        /\ l = LinePoints - 1 /\ q < Passages - 1 => q * LinePoints + l < FrameColumns - 1
        /\ l = LinePoints - 1 /\ q = Passages - 1 => q * LinePoints + l = FrameColumns - 1
    BY <1>2, ColumnOrder
  <2>2. PICK c \in 0 .. FrameColumns - 1 : c = q * LinePoints + l
    BY <2>1
  <2>3. c = Column
    BY <1>3, <2>2 DEF Column
  <2> QED
    BY <1>2, <2>1, <2>2, <2>3
<1>5. mem_update_over_r' <=>
        f = FrameNumber - 1 /\ l = LinePoints - 1 /\ q = Passages - 1
  <2>1. mem_update_over_r' <=> f >= FrameNumber - 1 /\ c >= FrameColumns - 1
    BY <1>3, <1>4, FlagStep DEF LastPoint, AddressInv
  <2> QED
    BY <1>2, <1>4, <2>1
<1>6. /\ line_points_cnt_r' = Succ(l, l >= LinePoints - 1)
      /\ passages_cnt_r' = IF l >= LinePoints - 1 THEN Succ(q, q >= Passages - 1) ELSE q
      /\ frame_number_cnt_r' = IF l >= LinePoints - 1 /\ q >= Passages - 1
                               THEN Succ(f, f >= FrameNumber - 1) ELSE f
  BY <1>1, <1>3 DEF FrameIteration, PointLast, PassageLast, FrameLast
<1>7. CASE l < LinePoints - 1
  <2>1. line_points_cnt_r' = l + 1 /\ passages_cnt_r' = q /\ frame_number_cnt_r' = f
        /\ ~mem_update_over_r'
    BY <1>2, <1>5, <1>6, <1>7 DEF Succ
  <2> QED
    BY <1>3, <1>7, <2>1, PointOrder
<1>8. CASE l = LinePoints - 1 /\ q < Passages - 1
  <2>1. line_points_cnt_r' = 0 /\ passages_cnt_r' = q + 1 /\ frame_number_cnt_r' = f
        /\ ~mem_update_over_r'
    BY <1>2, <1>5, <1>6, <1>8 DEF Succ
  <2> QED
    BY <1>3, <1>8, <2>1, PointOrder
<1>9. CASE l = LinePoints - 1 /\ q = Passages - 1 /\ f < FrameNumber - 1
  <2>1. line_points_cnt_r' = 0 /\ passages_cnt_r' = 0 /\ frame_number_cnt_r' = f + 1
        /\ ~mem_update_over_r'
    BY <1>2, <1>5, <1>6, <1>9 DEF Succ
  <2> QED
    BY <1>3, <1>9, <2>1, PointOrder
<1>10. CASE l = LinePoints - 1 /\ q = Passages - 1 /\ f = FrameNumber - 1
  <2>1. mem_update_over_r'
    BY <1>5, <1>10
  <2> QED
    BY <1>3, <1>10, <2>1, PointOrder
<1> QED
  BY <1>2, <1>3, <1>7, <1>8, <1>9, <1>10

\* The result that is taken is the time of the operand at hand, in an update that began with
\* the chain empty (cordicManager.v:66-78, laserSynchronizer.v:159-179,282-304).
LEMMA TimeTaken ==
  ASSUME HandshakeInv, OperandInv, drained, tick_Valid_w,
         cur_state_r \in {"EDGE_TICKS", "MEM_UPDATE"}
  PROVE  theta_valid_r /\ back_unit.op = theta_data_r /\ tick_data_w = TickOf[theta_data_r]
<1>1. DrainDelay \in Nat \ {0}
  BY LatencyAssumption
<1>2. /\ DrainDelay + 2 \in Places /\ DrainDelay + 3 \in Places
      /\ Last - 1 \in Places /\ Last \in Places /\ Last - 1 < Last
      /\ DrainDelay + 2 < Last - 1 /\ DrainDelay + 3 < Last - 1
  BY <1>1 DEF Places, Last
<1>3. Up(Last - 1) /\ ~Up(Last)
  BY Ends DEF HandshakeInv
<1>4. theta_valid_r
  BY <1>2, <1>3 DEF HandshakeInv, FlowInv, Falling
<1>5. Rising
  BY <1>4 DEF HandshakeInv, FlowInv
<1>6. Up(DrainDelay + 2) /\ Up(DrainDelay + 3)
  BY <1>2, <1>3, <1>5 DEF Rising
<1>7. Stage(DrainDelay + 1) # NoOperand /\ Ready(back_unit)
  BY <1>1, <1>6 DEF Up, Last
<1>8. Stage(DrainDelay + 1) = back_unit.op
  BY <1>1 DEF Stage
<1>9. Stage(DrainDelay + 1) \in {NoOperand, theta_data_r}
  BY <1>1, <1>4 DEF OperandInv
<1> QED
  BY <1>4, <1>7, <1>8, <1>9 DEF tick_data_w, dtTicks_valid_w

\* The time that is taken is that of the point which the counters show
\* (laserSynchronizer.v:181-217,247-272).
LEMMA CoverStep ==
  ASSUME PositionInv, SyncNext, Record
  PROVE  CoverInv'
<1>1. /\ SyncState /\ FrameIteration
      /\ HandshakeInv /\ ChainInv /\ CounterOK /\ PhaseInv
  BY DEF SyncNext, SyncClock, PositionInv, HandshakeInv
<1>2. CASE cur_state_r = "IDLE"
  <2>1. cur_state_r' \in {"IDLE", "EDGE_TICKS"} /\ (cur_state_r' = "EDGE_TICKS" => covered' = {})
    BY <1>1, <1>2 DEF SyncState, Record, Begin
  <2> QED
    BY <2>1 DEF CoverInv
<1>3. CASE cur_state_r = "EDGE_TICKS"
  <2>1. cur_state_r' \in {"EDGE_TICKS", "MEM_UPDATE"} /\ covered' = {}
    BY <1>1, <1>3 DEF SyncState, Record, Begin, PositionInv, CoverInv
  <2>2. cur_state_r' = "MEM_UPDATE" =>
          /\ ~mem_update_over_r'
          /\ frame_number_cnt_r' = 0 /\ passages_cnt_r' = 0 /\ line_points_cnt_r' = 0
    BY <1>1, <1>3, PhasesOfPoint
  <2>3. Before(0, 0, 0) = {}
    BY Sizes DEF Before, Points, Frames
  <2> QED
    BY <2>1, <2>2, <2>3 DEF CoverInv, Before
<1>4. CASE cur_state_r = "MEM_UPDATE"
  <2> DEFINE point == <<frame_number_cnt_r, passages_cnt_r, line_points_cnt_r>>
             before == Before(frame_number_cnt_r, passages_cnt_r, line_points_cnt_r)
             after == IF mem_update_over_r' THEN Points
                      ELSE Before(frame_number_cnt_r', passages_cnt_r', line_points_cnt_r')
  <2> SUFFICES ASSUME cur_state_r' = "MEM_UPDATE", drained'
               PROVE  covered' = {Where(pt) : pt \in after}
    BY <1>1, <1>4 DEF SyncState, CoverInv, Before
  <2>1. drained /\ ~mem_update_over_r /\ ~Begin
    BY <1>1, <1>4 DEF Record, Begin, SyncState
  <2>2. covered = {Where(pt) : pt \in before}
    BY <1>4, <2>1 DEF PositionInv, CoverInv
  <2>3. CASE ~tick_Valid_w
    <3>1. covered' = covered
      BY <1>4, <2>1, <2>3 DEF Record
    <3>2. /\ frame_number_cnt_r' = frame_number_cnt_r /\ passages_cnt_r' = passages_cnt_r
          /\ line_points_cnt_r' = line_points_cnt_r
      BY <1>1, <1>4, <2>3 DEF FrameIteration, pointRegs
    <3>3. ~mem_update_over_r'
      BY <2>3, FlagStep
    <3> QED
      BY <2>2, <3>1, <3>2, <3>3
  <2>4. CASE tick_Valid_w
    <3>1. theta_valid_r /\ ~Level
      BY <1>1, <1>4, <2>4, PhasesOfPoint
    <3>2. covered' = covered \cup
                       {<<frame_number_cnt_r, PositionOf(back_unit.op, passages_cnt_r)>>}
      BY <1>4, <2>1, <2>4 DEF Record
    <3>3. back_unit.op = theta_data_r
      BY <1>1, <1>4, <2>1, <2>4, TimeTaken DEF PositionInv
    <3>4. covered' = covered \cup {Where(point)}
      <4>1. theta_data_r = ThetaOf(frame_number_cnt_r, passages_cnt_r, line_points_cnt_r)
        BY <1>4, <3>1 DEF PositionInv, ThetaInv
      <4> QED
        BY <3>2, <3>3, <4>1 DEF Where
    <3>5. after = before \cup {point}
      BY <1>1, <1>4, <2>4, <3>1, PointTaken DEF PositionInv
    <3> HIDE DEF before, point, after
    <3> QED
      BY <2>2, <3>4, <3>5
  <2> QED
    BY <2>3, <2>4
<1> QED
  BY <1>1, <1>2, <1>3, <1>4 DEF PhaseInv
-----------------------------------------------------------------------------
LEMMA PositionInit == Init => PositionInv
<1>1. Init => HandshakeInv
  BY HandshakeInit
<1>2. Init => cur_state_r = "IDLE" /\ ~theta_valid_r /\ ~drained
  BY DEF Init, SyncInit
<1> QED
  BY <1>1, <1>2 DEF PositionInv, OperandInv, ThetaInv, AddressInv, CoverInv

LEMMA PositionStep ==
  ASSUME PositionInv, [Next]_tuvars
  PROVE  PositionInv'
<1>1. HandshakeInv'
  BY HandshakeStep DEF PositionInv
<1>2. CASE Next
  <2>1. SyncNext /\ Record
    BY <1>2 DEF Next
  <2> QED
    BY <1>1, <2>1, OperandStep, ThetaFollows, AddressStep, CoverStep DEF PositionInv
<1>3. CASE UNCHANGED tuvars
  <2>1. OperandInv' /\ ThetaInv'
    BY <1>3 DEF PositionInv, tuvars, syncvars, fsmRegs, pointRegs, thetaRegs, writeRegs, chainRegs,
                OperandInv, ThetaInv, ThetaOf, RefOf, Stage, ResultOf, Ready
  <2>2. AddressInv' /\ CoverInv'
    BY <1>3 DEF PositionInv, tuvars, syncvars, fsmRegs, pointRegs, writeRegs, chainRegs,
                AddressInv, CoverInv, Column, NextColumn, Level, Before, Where, PositionOf, ThetaOf,
                RefOf
  <2> QED
    BY <1>1, <2>1, <2>2 DEF PositionInv
<1> QED
  BY <1>2, <1>3

\* The inductive invariant of the points of an update, however fast lines come
\* (laserSynchronizer.v:181-272).
THEOREM PositionInvariance == Spec => []PositionInv
<1> QED
  BY PositionInit, PositionStep, PTL DEF Spec

\* For every number of frames, passages and points, and every latency, an update that
\* began with the chain empty ends when it has taken a time for each position of the
\* mirror, the frames in turn from position to position (laserSynchronizer.v:181-272).
THEOREM PositionsTaken == Spec => EveryPositionOnce
<1>1. ASSUME PositionInv, [Next]_tuvars
      PROVE  [End /\ drained => covered = {<<p % FrameNumber, p>> : p \in Positions}]_tuvars
  <2>1. CASE Next
    <3>1. SyncState
      BY <2>1 DEF Next, SyncNext, SyncClock
    <3>2. End /\ drained => covered = {Where(pt) : pt \in Points}
      BY <1>1, <3>1 DEF End, SyncState, PositionInv, CoverInv
    <3> QED
      BY <3>2, AllPositions
  <2> QED
    BY <1>1, <2>1
<1> QED
  BY <1>1, PositionInvariance, PTL DEF Spec, EveryPositionOnce
-----------------------------------------------------------------------------
(***************************************************************************)
(* Induction over the columns.  The library's induction theorems cannot be *)
(* instantiated here, but numbers have least elements, so that a set of    *)
(* them with 0 and with the successor of each of its elements is all.      *)
(***************************************************************************)
Less == {pair \in Nat \X Nat : pair[1] < pair[2]}

LEMMA LeastNumber ==
  ASSUME NEW T \in SUBSET Nat, T # {}
  PROVE  \E n \in T : \A m \in T : n <= m
<1>1. IsWellFoundedOn(Less, Nat)
  BY NatLessThanWellFounded DEF OpToRel, Less
<1>2. \E n \in T : \A m \in T : ~ (<<m, n>> \in Less)
  BY <1>1, WFMin
<1>3. \A m, n \in Nat : <<m, n>> \in Less <=> m < n
  BY DEF Less
<1>4. \A m, n \in Nat : ~ (m < n) => n <= m
  OBVIOUS
<1> QED
  BY <1>2, <1>3, <1>4

LEMMA AllNumbers ==
  ASSUME NEW S \in SUBSET Nat, 0 \in S, \A n \in S : n + 1 \in S
  PROVE  S = Nat
<1> SUFFICES ASSUME Nat \ S # {} PROVE FALSE
  OBVIOUS
<1>1. PICK n \in Nat \ S : \A m \in Nat \ S : n <= m
  BY LeastNumber
<1>2. n - 1 \in Nat /\ n - 1 \notin Nat \ S
  BY <1>1
<1> QED
  BY <1>2

\* The recursion of Sums has a solution.
LEMMA SumsExist ==
  ASSUME NEW row \in [Columns -> Int]
  PROVE  \E s : s = [a \in Columns |-> IF a = 0 THEN row[0] ELSE s[a - 1] + row[a]]
<1> DEFINE SumsUpTo(s, n) == /\ s \in [0 .. n -> Int] /\ s[0] = row[0]
                             /\ \A i \in 1 .. n : s[i] = s[i - 1] + row[i]
           Reached == {n \in Nat : n < FrameColumns => \E s : SumsUpTo(s, n)}
<1>1. FrameColumns \in Nat \ {0} /\ Columns = 0 .. FrameColumns - 1
  BY Sizes DEF Columns
<1>2. 0 \in Reached
  <2> DEFINE s == [i \in 0 .. 0 |-> row[0]]
  <2>1. row[0] \in Int
    BY <1>1
  <2>2. s \in [0 .. 0 -> Int] /\ s[0] = row[0]
    BY <2>1
  <2>3. 1 .. 0 = {}
    OBVIOUS
  <2> HIDE DEF s
  <2>4. SumsUpTo(s, 0)
    BY <2>2, <2>3
  <2> QED
    BY <2>4
<1>3. ASSUME NEW n \in Reached PROVE n + 1 \in Reached
  <2>1. n \in Nat /\ (n < FrameColumns => \E s : SumsUpTo(s, n))
    OBVIOUS
  <2> SUFFICES ASSUME n + 1 < FrameColumns PROVE \E s : SumsUpTo(s, n + 1)
    BY <2>1
  <2>smaller. n < FrameColumns
    BY <1>1, <2>1
  <2>2. PICK s : SumsUpTo(s, n)
    BY <2>1, <2>smaller
  <2> DEFINE t == [i \in 0 .. n + 1 |-> IF i <= n THEN s[i] ELSE s[n] + row[n + 1]]
  <2>3. /\ s \in [0 .. n -> Int] /\ s[0] = row[0]
        /\ \A i \in 1 .. n : s[i] = s[i - 1] + row[i]
    BY <2>2
  <2> HIDE DEF SumsUpTo
  <2>4. s[n] \in Int /\ row[n + 1] \in Int
    BY <1>1, <2>1, <2>3
  <2>5. t \in [0 .. n + 1 -> Int]
    BY <2>1, <2>3, <2>4
  <2>6. /\ t[n + 1] = s[n] + row[n + 1]
        /\ \A i \in 0 .. n : t[i] = s[i]
    BY <2>1
  <2> HIDE DEF t
  <2>7. ASSUME NEW i \in 1 .. n + 1 PROVE t[i] = t[i - 1] + row[i]
    <3>1. CASE i \in 1 .. n
      <4>1. i \in 0 .. n /\ i - 1 \in 0 .. n
        BY <2>1, <3>1
      <4> QED
        BY <2>3, <2>6, <3>1, <4>1
    <3>2. CASE i = n + 1
      <4>1. i - 1 = n /\ n \in 0 .. n
        BY <2>1, <3>2
      <4> QED
        BY <2>6, <3>2, <4>1
    <3> QED
      BY <2>1, <3>1, <3>2
  <2>8. t[0] = row[0]
    BY <2>1, <2>3, <2>6
  <2> QED
    BY <2>5, <2>7, <2>8 DEF SumsUpTo
<1>4. FrameColumns - 1 \in Reached
  <2>1. Reached \in SUBSET Nat
    OBVIOUS
  <2> HIDE DEF Reached
  <2>2. Reached = Nat
    BY <1>2, <1>3, <2>1, AllNumbers
  <2> QED
    BY <1>1, <2>2
<1>5. PICK s : SumsUpTo(s, FrameColumns - 1)
  BY <1>1, <1>4
<1>6. /\ s \in [Columns -> Int] /\ s[0] = row[0]
      /\ \A i \in 1 .. FrameColumns - 1 : s[i] = s[i - 1] + row[i]
  BY <1>1, <1>5
<1> HIDE DEF SumsUpTo, Reached
<1>7. ASSUME NEW a \in Columns PROVE s[a] = IF a = 0 THEN row[0] ELSE s[a - 1] + row[a]
  <2>1. CASE a = 0
    BY <1>6, <2>1
  <2>2. CASE a # 0
    <3>1. a \in 1 .. FrameColumns - 1
      BY <1>1, <2>2
    <3> QED
      BY <1>6, <2>2, <3>1
  <2> QED
    BY <2>1, <2>2
<1>8. s = [a \in Columns |-> IF a = 0 THEN row[0] ELSE s[a - 1] + row[a]]
  BY <1>6, <1>7
<1> QED
  BY <1>8

LEMMA SumsOfRow ==
  ASSUME NEW row \in [Columns -> Int]
  PROVE  /\ Sums(row)[0] = row[0]
         /\ \A a \in Columns \ {0} : Sums(row)[a] = Sums(row)[a - 1] + row[a]
<1>1. Sums(row) =
        CHOOSE s : s = [a \in Columns |-> IF a = 0 THEN row[0] ELSE s[a - 1] + row[a]]
  BY DEF Sums
<1>2. Sums(row) = [a \in Columns |-> IF a = 0 THEN row[0] ELSE Sums(row)[a - 1] + row[a]]
  BY <1>1, SumsExist
<1> DEFINE s == Sums(row)
<1>3. s = [a \in Columns |-> IF a = 0 THEN row[0] ELSE s[a - 1] + row[a]]
  BY <1>2
<1> HIDE DEF s
<1>4. 0 \in Columns
  BY Sizes DEF Columns
<1>5. s[0] = row[0] /\ \A a \in Columns \ {0} : s[a] = s[a - 1] + row[a]
  BY <1>3, <1>4
<1> QED
  BY <1>5 DEF s

\* Numbers that agree modulo the width of a delay, and one added to both.
LEMMA AddModulo ==
  ASSUME NEW M \in Nat \ {0}, NEW x \in Int, NEW y \in Int, NEW z \in Int, x % M = y % M
  PROVE  (x + z) % M = (y + z) % M
<1>1. /\ x = M * (x \div M) + (x % M) /\ y = M * (y \div M) + (y % M)
      /\ x \div M \in Int /\ y \div M \in Int /\ x % M \in Int
  OBVIOUS
<1>2. PICK i \in Int, j \in Int, r \in Int : x = M * i + r /\ y = M * j + r
  BY <1>1
<1>3. ASSUME NEW u \in Int, NEW k \in Int PROVE (u + M * k) % M = u % M
  <2>1. u = M * (u \div M) + (u % M) /\ u % M \in 0 .. M - 1 /\ u \div M \in Int
    OBVIOUS
  <2>2. u + M * k = M * ((u \div M) + k) + (u % M)
    BY <2>1
  <2>3. ASSUME NEW h \in Int, NEW r2 \in 0 .. M - 1 PROVE (M * h + r2) % M = r2
    OBVIOUS
  <2> QED
    BY <2>1, <2>2, <2>3
<1>4. x + z = (y + z) + M * (i - j)
  BY <1>2
<1>5. y + z \in Int /\ i - j \in Int
  OBVIOUS
<1> QED
  BY <1>3, <1>4, <1>5

\* A row whose words lead, modulo the width of a delay, from each due time to the next.
LEMMA SumsLead ==
  ASSUME NEW row \in [Columns -> Int], NEW due \in [Columns -> Int],
         row[0] % TickMod = due[0] % TickMod,
         \A a \in Columns \ {0} : (due[a - 1] + row[a]) % TickMod = due[a] % TickMod
  PROVE  \A a \in Columns : Sums(row)[a] % TickMod = due[a] % TickMod
<1> DEFINE s == Sums(row)
           Reached == {n \in Nat : n \in Columns => s[n] \in Int /\ s[n] % TickMod = due[n] % TickMod}
<1>1. Columns = 0 .. FrameColumns - 1 /\ FrameColumns \in Nat \ {0} /\ TickMod \in Nat \ {0}
  BY Sizes, MemoryAssumption DEF Columns
<1>2. s[0] = row[0] /\ \A a \in Columns \ {0} : s[a] = s[a - 1] + row[a]
  BY SumsOfRow
<1> HIDE DEF s
<1>3. 0 \in Reached
  BY <1>1, <1>2
<1>4. ASSUME NEW n \in Reached PROVE n + 1 \in Reached
  <2>1. n \in Nat /\ (n \in Columns => s[n] \in Int /\ s[n] % TickMod = due[n] % TickMod)
    OBVIOUS
  <2> SUFFICES ASSUME n + 1 \in Columns
               PROVE  s[n + 1] \in Int /\ s[n + 1] % TickMod = due[n + 1] % TickMod
    BY <2>1
  <2>2. /\ n \in Columns /\ n + 1 \in Columns \ {0} /\ (n + 1) - 1 = n
        /\ row[n + 1] \in Int /\ due[n] \in Int
    <3> HIDE DEF Reached
    <3>1. n \in Columns /\ n + 1 \in Columns \ {0} /\ (n + 1) - 1 = n
      BY <1>1, <2>1
    <3>2. row[n + 1] \in Int /\ due[n] \in Int
      BY <3>1
    <3> QED
      BY <3>1, <3>2
  <2>3. s[n + 1] = s[n] + row[n + 1]
    BY <1>2, <2>2
  <2>4. (s[n] + row[n + 1]) % TickMod = (due[n] + row[n + 1]) % TickMod
    BY <1>1, <2>1, <2>2, AddModulo
  <2>5. (due[n] + row[n + 1]) % TickMod = due[n + 1] % TickMod
    BY <2>2
  <2> QED
    BY <2>1, <2>2, <2>3, <2>4, <2>5
<1>5. Reached = Nat
  <2>1. Reached \in SUBSET Nat
    OBVIOUS
  <2> HIDE DEF Reached
  <2> QED
    BY <1>3, <1>4, <2>1, AllNumbers
<1>6. ASSUME NEW a \in Columns PROVE s[a] % TickMod = due[a] % TickMod
  <2>1. a \in Nat
    BY <1>1
  <2>2. a \in Reached
    <3> HIDE DEF Reached
    <3> QED
      BY <1>5, <2>1
  <2> QED
    BY <2>2
<1> QED
  BY <1>6 DEF s
-----------------------------------------------------------------------------
\* The time of a point, and the delay that the table is to hold for it.
Edge == TickOf[TotalPoints - 1]
TimeOf(f, q, l) == TickOf[ThetaOf(f, q, l)]
DelayOf(f, q, l) ==
  IF l > 0 THEN (TimeOf(f, q, l) - TimeOf(f, q, l - 1)) % TickMod
  ELSE IF q > 0
       THEN (TimeOf(f, q, 0) + ((Edge - TimeOf(f, q - 1, LinePoints - 1)) % TickMod)) % TickMod
       ELSE TimeOf(f, q, l)
DelayAt(f, a) == DelayOf(f, a \div LinePoints, a % LinePoints)

LEMMA TimesAreTicks ==
  /\ Edge \in 0 .. TickMod - 1
  /\ \A f \in Frames, q \in 0 .. Passages - 1, l \in 0 .. LinePoints - 1 :
       TimeOf(f, q, l) \in 0 .. TickMod - 1
<1>1. /\ FrameNumber \in Nat \ {0} /\ FrameColumns \in Nat \ {0} /\ TickMod \in Nat \ {0}
      /\ LinePoints \in Nat \ {0} /\ Passages \in Nat \ {0}
  BY Sizes, MemoryAssumption
<1>2. TotalPoints \in Nat \ {0} /\ TickOf \in [0 .. TotalPoints - 1 -> 0 .. TickMod - 1]
  BY <1>1, FrameAssumption DEF TotalPoints
<1>3. ASSUME NEW f \in Frames, NEW q \in 0 .. Passages - 1, NEW l \in 0 .. LinePoints - 1
      PROVE  ThetaOf(f, q, l) \in 0 .. TotalPoints - 1
  <2>1. <<f, q, l>> \in Points
    BY DEF Points
  <2>2. PICK p \in Positions : Where(<<f, q, l>>) = <<p % FrameNumber, p>>
    BY <2>1, AllPositions
  <2>3. PositionOf(ThetaOf(f, q, l), q) \in 0 .. TotalPoints - 1
    BY <2>2 DEF Where, Positions
  <2>4. ThetaOf(f, q, l) \in Int
    <3>1. ThetaStep \in Int /\ q \div 2 \in Int /\ RefOf(f, q) \in Int
      BY <1>1 DEF ThetaStep, RefOf, Frames
    <3>2. l * ThetaStep \in Int /\ (q \div 2) * FrameNumber \in Int
      BY <1>1, <3>1
    <3> QED
      BY <3>1, <3>2 DEF ThetaOf
  <2> QED
    BY <1>2, <2>3, <2>4 DEF PositionOf
<1>4. Edge \in 0 .. TickMod - 1
  BY <1>2 DEF Edge
<1>5. ASSUME NEW f \in Frames, NEW q \in 0 .. Passages - 1, NEW l \in 0 .. LinePoints - 1
      PROVE  TimeOf(f, q, l) \in 0 .. TickMod - 1
  BY <1>2, <1>3 DEF TimeOf
<1> QED
  BY <1>4, <1>5

\* A remainder may be taken before it is added.
LEMMA AddRemainder ==
  ASSUME NEW M \in Nat \ {0}, NEW x \in Int, NEW z \in Int
  PROVE  (x + (z % M)) % M = (x + z) % M
<1>1. z % M \in Int /\ (z % M) % M = z % M
  OBVIOUS
<1>2. ((z % M) + x) % M = (z + x) % M
  BY <1>1, AddModulo
<1>3. (z % M) + x = x + (z % M) /\ z + x = x + z
  BY <1>1
<1> QED
  BY <1>2, <1>3

\* The place of a point in its line: passage, and point of the passage.
LEMMA Place ==
  ASSUME NEW a \in Columns
  PROVE  /\ a \div LinePoints \in 0 .. Passages - 1 /\ a % LinePoints \in 0 .. LinePoints - 1
         /\ a = (a \div LinePoints) * LinePoints + (a % LinePoints)
<1>1. LinePoints \in Nat \ {0} /\ Passages \in Nat \ {0} /\ a \in 0 .. LinePoints * Passages - 1
  BY Sizes DEF Columns
<1> QED
  BY <1>1

\* When a point is due, by its place (laserSynchronizer.v:223-272).
LEMMA DueTimeOf ==
  ASSUME NEW f \in Frames, NEW a \in Columns
  PROVE  DueTime(f, a) = Passage(a) * Edge + TimeOf(f, a \div LinePoints, a % LinePoints)
<1>1. PICK q \in Int, l \in Int : q = a \div LinePoints /\ l = a % LinePoints
  BY Place
<1>2. PICK x \in Int, y \in Int, r \in Int :
        x = l * ThetaStep /\ y = (q \div 2) * FrameNumber /\ r = RefOf(f, q)
  <2>1. q \div 2 \in Int /\ FrameNumber \in Int /\ Passages \in Int /\ f \in Int
    BY <1>1, Sizes DEF Frames
  <2>2. ThetaStep \in Int /\ RefOf(f, q) \in Int
    BY <2>1 DEF ThetaStep, RefOf
  <2>3. l * ThetaStep \in Int /\ (q \div 2) * FrameNumber \in Int
    BY <1>1, <2>1, <2>2
  <2> QED
    BY <2>2, <2>3
<1>3. r = IF q % 2 = 0 THEN f ELSE FrameNumber - 1 - f
  BY <1>1, <1>2, Sizes DEF RefOf
<1>4. r + x + y = r + y + x
  OBVIOUS
<1> QED
  BY <1>1, <1>2, <1>3, <1>4 DEF DueTime, Passage, TimeOf, ThetaOf, Edge

\* The delays lead from each point's due time to the next one's.
LEMMA DelaysLead ==
  ASSUME NEW f \in Frames
  PROVE  /\ \A a \in Columns : DueTime(f, a) \in Int /\ DelayAt(f, a) \in Int
         /\ DelayAt(f, 0) % TickMod = DueTime(f, 0) % TickMod
         /\ \A a \in Columns \ {0} :
              (DueTime(f, a - 1) + DelayAt(f, a)) % TickMod = DueTime(f, a) % TickMod
<1> DEFINE L == LinePoints
           P == Passages
           M == TickMod
<1>1. /\ L \in Nat \ {0} /\ P \in Nat \ {0} /\ M \in Nat \ {0}
      /\ Columns = 0 .. L * P - 1
  BY Sizes, MemoryAssumption DEF Columns
<1>2. \A a \in Columns : DueTime(f, a) = (a \div L) * Edge + TimeOf(f, a \div L, a % L)
  BY DueTimeOf DEF Passage
<1>3. Edge \in Int /\ \A q \in 0 .. P - 1, l \in 0 .. L - 1 : TimeOf(f, q, l) \in Int
  BY TimesAreTicks, <1>1
<1>remainder. \A z \in Int : z % M \in Int
  BY <1>1
<1>4. \A a \in Int : DelayAt(f, a) = DelayOf(f, a \div L, a % L)
  BY DEF DelayAt
<1> HIDE DEF L, P, M
<1>5. ASSUME NEW a \in Columns
      PROVE  /\ a \div L \in 0 .. P - 1 /\ a % L \in 0 .. L - 1
             /\ a = (a \div L) * L + (a % L)
  <2>1. a \in 0 .. L * P - 1
    BY <1>1
  <2> QED
    BY <1>1, <2>1
<1>6. ASSUME NEW a \in Columns PROVE DueTime(f, a) \in Int /\ DelayAt(f, a) \in Int
  <2>1. PICK q \in 0 .. P - 1, l \in 0 .. L - 1 : q = a \div L /\ l = a % L
    BY <1>5
  <2>2. a \in Int /\ q * Edge \in Int
    BY <1>1, <1>3
  <2>3. DueTime(f, a) \in Int
    BY <1>2, <1>3, <2>1, <2>2
  <2>4. CASE l > 0
    <3>1. TimeOf(f, q, l) - TimeOf(f, q, l - 1) \in Int
      <4>1. l - 1 \in 0 .. L - 1
        BY <1>1, <2>4
      <4> QED
        BY <1>3, <4>1
    <3>2. DelayOf(f, q, l) = (TimeOf(f, q, l) - TimeOf(f, q, l - 1)) % M
      BY <2>4 DEF DelayOf, M
    <3> QED
      BY <1>4, <1>remainder, <2>1, <2>2, <2>3, <3>1, <3>2
  <2>5. CASE l = 0 /\ q > 0
    <3>1. q - 1 \in 0 .. P - 1 /\ L - 1 \in 0 .. L - 1 /\ 0 \in 0 .. L - 1
      BY <1>1, <2>5
    <3>2. Edge - TimeOf(f, q - 1, L - 1) \in Int /\ TimeOf(f, q, 0) \in Int
      BY <1>3, <3>1
    <3>3. TimeOf(f, q, 0) + ((Edge - TimeOf(f, q - 1, L - 1)) % M) \in Int
      BY <1>1, <3>2
    <3>4. DelayOf(f, q, l) = (TimeOf(f, q, 0) + ((Edge - TimeOf(f, q - 1, L - 1)) % M)) % M
      BY <2>5 DEF DelayOf, L, M
    <3> QED
      BY <1>4, <1>remainder, <2>1, <2>2, <2>3, <3>3, <3>4
  <2>6. CASE l = 0 /\ q = 0
    <3>1. DelayOf(f, q, l) = TimeOf(f, q, l)
      BY <2>6 DEF DelayOf
    <3> QED
      BY <1>3, <1>4, <2>1, <2>2, <2>3, <3>1
  <2> QED
    BY <2>4, <2>5, <2>6
<1>7. DelayAt(f, 0) % M = DueTime(f, 0) % M
  <2>1. 0 \div L = 0 /\ 0 % L = 0 /\ 0 \in 0 .. P - 1 /\ 0 \in 0 .. L - 1
    BY <1>1
  <2>2. DelayAt(f, 0) = TimeOf(f, 0, 0)
    BY <1>4, <2>1 DEF DelayOf
  <2>3. DueTime(f, 0) = 0 * Edge + TimeOf(f, 0, 0)
    BY <1>1, <1>2, <2>1
  <2> QED
    BY <1>3, <2>1, <2>2, <2>3
<1>8. ASSUME NEW a \in Columns \ {0}
      PROVE  (DueTime(f, a - 1) + DelayAt(f, a)) % M = DueTime(f, a) % M
  <2>1. PICK q \in 0 .. P - 1, l \in 0 .. L - 1 :
          q = a \div L /\ l = a % L /\ a = q * L + l
    BY <1>5
  <2>2. a \in Int /\ a - 1 \in Int /\ q * Edge \in Int
    BY <1>1, <1>3
  <2>3. DueTime(f, a) = q * Edge + TimeOf(f, q, l) /\ DelayAt(f, a) = DelayOf(f, q, l)
    BY <1>2, <1>4, <2>1, <2>2
  <2>column. a - 1 \in Columns
    BY <1>1
  <2>4. CASE l > 0
    <3>1. (a - 1) \div L = q /\ (a - 1) % L = l - 1
      BY <1>1, <2>1, <2>4
    <3>2. PICK t \in Int, u \in Int : t = TimeOf(f, q, l) /\ u = TimeOf(f, q, l - 1)
      <4>1. l - 1 \in 0 .. L - 1
        BY <1>1, <2>4
      <4> QED
        BY <1>3, <4>1
    <3>3. DueTime(f, a - 1) = q * Edge + u
      BY <1>2, <2>column, <3>1, <3>2
    <3>4. DelayOf(f, q, l) = (t - u) % M
      BY <2>4, <3>2 DEF DelayOf, M
    <3>5. q * Edge + u \in Int /\ t - u \in Int /\ (q * Edge + u) + (t - u) = q * Edge + t
      BY <2>2, <3>2
    <3>6. ((q * Edge + u) + ((t - u) % M)) % M = ((q * Edge + u) + (t - u)) % M
      BY <1>1, <3>5, AddRemainder
    <3> QED
      BY <2>3, <3>2, <3>3, <3>4, <3>5, <3>6
  <2>5. CASE l = 0
    <3>1. q - 1 \in 0 .. P - 1 /\ q > 0
      BY <1>1, <2>1, <2>5
    <3>2. (a - 1) \div L = q - 1 /\ (a - 1) % L = L - 1
      BY <1>1, <2>1, <2>5, <3>1
    <3>3. PICK t \in Int, u \in Int : t = TimeOf(f, q, 0) /\ u = TimeOf(f, q - 1, L - 1)
      BY <1>1, <1>3, <3>1
    <3>4. PICK x \in Int : x = (q - 1) * Edge + u
      BY <1>3, <3>1, <3>3
    <3>5. DueTime(f, a - 1) = x
      BY <1>2, <2>column, <3>2, <3>3, <3>4
    <3>6. DelayOf(f, q, l) = (t + ((Edge - u) % M)) % M
      BY <2>5, <3>1, <3>3 DEF DelayOf, L, M
    <3>7. /\ Edge - u \in Int /\ t + (Edge - u) \in Int /\ (Edge - u) % M \in Int
          /\ x + (t + (Edge - u)) = q * Edge + t
      <4>1. (q - 1) * Edge + Edge = q * Edge
        BY <1>3
      <4>2. Edge - u \in Int /\ t + (Edge - u) \in Int
        BY <1>3, <3>3
      <4> QED
        BY <1>3, <1>remainder, <2>2, <3>3, <3>4, <4>1, <4>2
    <3>8. (t + ((Edge - u) % M)) % M = (t + (Edge - u)) % M
      BY <1>1, <3>7, AddRemainder
    <3>9. (x + ((t + (Edge - u)) % M)) % M = (x + (t + (Edge - u))) % M
      BY <1>1, <3>7, AddRemainder
    <3> QED
      BY <2>3, <2>5, <3>3, <3>5, <3>6, <3>7, <3>8, <3>9
  <2> QED
    BY <2>1, <2>4, <2>5
<1> QED
  BY <1>6, <1>7, <1>8 DEF M

\* A table that holds these delays adds up (laserSynchronizer.v:282-304).
LEMMA DelaysSum ==
  ASSUME NEW bank, \A f \in Frames, a \in Columns : bank[f][a].ticks = DelayAt(f, a)
  PROVE  AddsUp(bank)
<1> SUFFICES ASSUME NEW f \in Frames, NEW a \in Columns
             PROVE  Sums(Row(bank, f))[a] % TickMod = DueTime(f, a) % TickMod
  BY DEF AddsUp
<1> DEFINE row == Row(bank, f)
           due == [c \in Columns |-> DueTime(f, c)]
<1>1. row \in [Columns -> Int] /\ due \in [Columns -> Int]
  BY DelaysLead DEF Row
<1>2. \A c \in Columns : row[c] = DelayAt(f, c) /\ due[c] = DueTime(f, c)
  BY DEF Row
<1>3. 0 \in Columns /\ \A c \in Columns \ {0} : c - 1 \in Columns
  BY Sizes DEF Columns
<1> HIDE DEF row, due
<1>4. row[0] % TickMod = due[0] % TickMod
  BY <1>2, <1>3, DelaysLead
<1>5. ASSUME NEW c \in Columns \ {0} PROVE (due[c - 1] + row[c]) % TickMod = due[c] % TickMod
  BY <1>2, <1>3, DelaysLead
<1>6. Sums(row)[a] % TickMod = due[a] % TickMod
  BY <1>1, <1>4, <1>5, SumsLead
<1> QED
  BY <1>2, <1>6 DEF row
-----------------------------------------------------------------------------
\* The time of the edge, and that of the point before, across the edge too.
EdgeInv ==
  drained =>
    /\ cur_state_r = "EDGE_TICKS" /\ theta_valid_r => theta_data_r = TotalPoints - 1
    /\ cur_state_r = "EDGE_TICKS" /\ ~theta_valid_r => edgeTicks_r = Edge
    /\ cur_state_r = "MEM_UPDATE" => edgeTicks_r = Edge

LastInv ==
  drained /\ cur_state_r = "MEM_UPDATE" =>
    /\ line_points_cnt_r > 0 =>
         last_dt_Ticks_r = TimeOf(frame_number_cnt_r, passages_cnt_r, line_points_cnt_r - 1)
    /\ line_points_cnt_r = 0 /\ passages_cnt_r > 0 =>
         last_dt_Ticks_r = TimeOf(frame_number_cnt_r, passages_cnt_r - 1, LinePoints - 1)

\* The word on its way to the table, and those that are there.
WordInv == drained /\ we_r => wdata_r.ticks = DelayAt(mem_select_r, waddr_r)

Shaped(tables) ==
  /\ DOMAIN tables = Banks
  /\ \A b \in Banks : /\ DOMAIN tables[b] = Memories
                      /\ \A m \in Memories : DOMAIN tables[b][m] = Addresses

CellsInv ==
  drained /\ cur_state_r = "MEM_UPDATE" =>
    \A cell \in Cells \ missing[back_bank] :
      table[back_bank][cell[1]][cell[2]].ticks = DelayAt(cell[1], cell[2])

DelaysInv == EdgeInv /\ LastInv /\ WordInv /\ Shaped(table) /\ CellsInv

\* A cycle of the edge's time (laserSynchronizer.v:159-179,223-272).
LEMMA EdgeStep ==
  ASSUME HandshakeInv, OperandInv, EdgeInv, SyncNext, Record
  PROVE  EdgeInv'
<1> SUFFICES ASSUME drained' PROVE EdgeInv'
  BY DEF EdgeInv
<1>1. /\ SyncState /\ ThetaValid /\ ThetaData /\ EdgeTick
      /\ ChainInv /\ PhaseInv /\ FlowInv
  BY DEF SyncNext, SyncClock, HandshakeInv
<1>2. CASE cur_state_r = "IDLE"
  <2>1. cur_state_r' = "EDGE_TICKS" => theta_valid_r'
    BY <1>1, <1>2 DEF SyncState, ThetaValid
  <2>2. theta_data_r' = TotalPoints - 1 /\ cur_state_r' # "MEM_UPDATE"
    BY <1>1, <1>2 DEF SyncState, ThetaData
  <2> QED
    BY <2>1, <2>2 DEF EdgeInv, TotalPoints
<1>3. CASE cur_state_r = "EDGE_TICKS"
  <2>1. drained
    BY <1>3 DEF Record, Begin
  <2>2. cur_state_r' \in {"EDGE_TICKS", "MEM_UPDATE"}
    BY <1>1, <1>3 DEF SyncState
  <2>3. edgeTicks_saved_r => edgeTicks_stored_r /\ ~theta_valid_r
    BY <1>1, <1>3, <2>1 DEF PhaseInv, FlowInv
  <2>4. CASE tick_Valid_w
    <3>1. theta_valid_r /\ tick_data_w = TickOf[theta_data_r]
      BY <1>3, <2>1, <2>4, TimeTaken
    <3>2. theta_data_r = TotalPoints - 1
      BY <1>3, <2>1, <3>1 DEF EdgeInv
    <3>3. edgeTicks_r' = Edge
      BY <1>1, <1>3, <2>4, <3>1, <3>2 DEF EdgeTick, Edge
    <3>4. ~theta_valid_r'
      BY <1>1, <1>3, <2>4 DEF ThetaValid
    <3> QED
      BY <3>3, <3>4 DEF EdgeInv, Edge, TotalPoints
  <2>5. CASE ~tick_Valid_w
    <3>1. edgeTicks_r' = edgeTicks_r
      BY <1>1, <1>3, <2>5 DEF EdgeTick
    <3>2. CASE theta_valid_r
      <4>1. ~edgeTicks_saved_r
        BY <2>3, <3>2
      <4>2. cur_state_r' = "EDGE_TICKS" /\ theta_valid_r' /\ theta_data_r' = theta_data_r
        BY <1>1, <1>3, <2>5, <3>2, <4>1 DEF SyncState, ThetaValid, ThetaData
      <4> QED
        BY <1>3, <2>1, <3>2, <4>2 DEF EdgeInv, TotalPoints
    <3>3. CASE ~theta_valid_r
      <4>1. edgeTicks_r' = Edge
        BY <1>3, <2>1, <3>1, <3>3 DEF EdgeInv
      <4>2. theta_valid_r' => edgeTicks_saved_r
        BY <1>1, <1>3, <2>5, <3>3 DEF ThetaValid
      <4>3. theta_valid_r' => cur_state_r' = "MEM_UPDATE"
        BY <1>1, <1>3, <4>2 DEF SyncState
      <4> QED
        BY <4>1, <4>3 DEF EdgeInv, Edge, TotalPoints
    <3> QED
      BY <3>2, <3>3
  <2> QED
    BY <2>4, <2>5
<1>4. CASE cur_state_r = "MEM_UPDATE"
  <2>1. drained
    BY <1>4 DEF Record, Begin
  <2>2. edgeTicks_r' = edgeTicks_r /\ cur_state_r' \in {"IDLE", "MEM_UPDATE"}
    BY <1>1, <1>4 DEF EdgeTick, SyncState
  <2> QED
    BY <1>4, <2>1, <2>2 DEF EdgeInv, Edge, TotalPoints
<1> QED
  BY <1>1, <1>2, <1>3, <1>4 DEF PhaseInv

\* A cycle of the time that is kept from the point before
\* (laserSynchronizer.v:181-217,274-304).
LEMMA LastStep ==
  ASSUME PositionInv, LastInv, SyncNext, Record
  PROVE  LastInv'
<1> SUFFICES ASSUME drained', cur_state_r' = "MEM_UPDATE" PROVE LastInv'
  BY DEF LastInv
<1>1. /\ SyncState /\ FrameIteration /\ WriteData
      /\ HandshakeInv /\ OperandInv /\ ThetaInv /\ PhaseInv /\ CounterOK
  BY DEF SyncNext, SyncClock, PositionInv, HandshakeInv
<1>2. PICK f \in 0 .. FrameNumber - 1, q \in 0 .. Passages - 1, l \in 0 .. LinePoints - 1 :
        f = frame_number_cnt_r /\ q = passages_cnt_r /\ l = line_points_cnt_r
  BY <1>1 DEF CounterOK
<1>3. FrameNumber \in Nat \ {0} /\ LinePoints \in Nat \ {0} /\ Passages \in Nat \ {0}
  BY Sizes
<1>4. CASE cur_state_r = "EDGE_TICKS"
  <2>1. line_points_cnt_r' = 0 /\ passages_cnt_r' = 0
    BY <1>1, <1>4 DEF FrameIteration
  <2> QED
    BY <2>1 DEF LastInv
<1>5. CASE cur_state_r = "MEM_UPDATE" /\ ~tick_Valid_w
  <2>1. drained
    BY <1>5 DEF Record, Begin
  <2>2. /\ frame_number_cnt_r' = f /\ passages_cnt_r' = q /\ line_points_cnt_r' = l
        /\ last_dt_Ticks_r' = last_dt_Ticks_r
    BY <1>1, <1>2, <1>5 DEF FrameIteration, pointRegs, WriteData
  <2>3. /\ l > 0 => last_dt_Ticks_r = TimeOf(f, q, l - 1)
        /\ l = 0 /\ q > 0 => last_dt_Ticks_r = TimeOf(f, q - 1, LinePoints - 1)
    BY <1>2, <1>5, <2>1 DEF LastInv
  <2> QED
    BY <2>2, <2>3 DEF LastInv, TimeOf, ThetaOf, RefOf
<1>6. CASE cur_state_r = "MEM_UPDATE" /\ tick_Valid_w
  <2>1. drained
    BY <1>6 DEF Record, Begin
  <2>2. theta_valid_r /\ tick_data_w = TickOf[theta_data_r]
    BY <1>1, <1>6, <2>1, TimeTaken
  <2>3. last_dt_Ticks_r' = TimeOf(f, q, l)
    BY <1>1, <1>2, <1>6, <2>2 DEF WriteData, ThetaInv, TimeOf
  <2>4. /\ line_points_cnt_r' = Succ(l, l >= LinePoints - 1)
        /\ passages_cnt_r' = IF l >= LinePoints - 1 THEN Succ(q, q >= Passages - 1) ELSE q
        /\ frame_number_cnt_r' = IF l >= LinePoints - 1 /\ q >= Passages - 1
                                 THEN Succ(f, f >= FrameNumber - 1) ELSE f
    BY <1>1, <1>2, <1>6 DEF FrameIteration, PointLast, PassageLast, FrameLast
  <2>5. CASE l < LinePoints - 1
    <3>1. line_points_cnt_r' = l + 1 /\ passages_cnt_r' = q /\ frame_number_cnt_r' = f
      BY <1>3, <2>4, <2>5 DEF Succ
    <3>2. (l + 1) - 1 = l /\ l + 1 # 0
      OBVIOUS
    <3> QED
      BY <2>3, <3>1, <3>2 DEF LastInv, TimeOf, ThetaOf, RefOf
  <2>6. CASE l = LinePoints - 1 /\ q < Passages - 1
    <3>1. line_points_cnt_r' = 0 /\ passages_cnt_r' = q + 1 /\ frame_number_cnt_r' = f
      BY <1>3, <2>4, <2>6 DEF Succ
    <3>2. (q + 1) - 1 = q
      OBVIOUS
    <3> QED
      BY <2>3, <2>6, <3>1, <3>2 DEF LastInv, TimeOf, ThetaOf, RefOf
  <2>7. CASE l = LinePoints - 1 /\ q = Passages - 1
    <3>1. line_points_cnt_r' = 0 /\ passages_cnt_r' = 0
      BY <1>3, <2>4, <2>7 DEF Succ
    <3> QED
      BY <3>1 DEF LastInv
  <2> QED
    BY <1>3, <2>5, <2>6, <2>7
<1> QED
  BY <1>1, <1>4, <1>5, <1>6 DEF SyncState

\* The word made when a time is taken is the delay of the point at its address
\* (laserSynchronizer.v:282-328).
LEMMA WordStep ==
  ASSUME PositionInv, EdgeInv, LastInv, SyncNext, Record
  PROVE  WordInv'
<1> SUFFICES ASSUME drained', we_r' PROVE wdata_r'.ticks = DelayAt(mem_select_r', waddr_r')
  BY DEF WordInv, DelayAt, DelayOf, TimeOf, ThetaOf, RefOf, Edge, TotalPoints
<1>1. /\ WriteData /\ WriteAddress /\ WriteEnable
      /\ HandshakeInv /\ OperandInv /\ ThetaInv /\ AddressInv /\ CounterOK
  BY DEF SyncNext, SyncClock, PositionInv, HandshakeInv
<1>2. cur_state_r = "MEM_UPDATE" /\ tick_Valid_w
  BY FlagStep
<1>3. drained
  BY <1>2 DEF Record, Begin
<1>4. PICK f \in 0 .. FrameNumber - 1, q \in 0 .. Passages - 1, l \in 0 .. LinePoints - 1 :
        f = frame_number_cnt_r /\ q = passages_cnt_r /\ l = line_points_cnt_r
  BY <1>1 DEF CounterOK
<1>5. /\ LinePoints \in Nat \ {0} /\ Passages \in Nat \ {0}
      /\ FrameColumns \in Nat \ {0} /\ FrameColumns = LinePoints * Passages
  BY Sizes
<1>6. theta_valid_r /\ tick_data_w = TickOf[theta_data_r]
  BY <1>1, <1>2, <1>3, TimeTaken
<1>7. ~Level /\ ~tick_notValid_w
  BY <1>1, <1>2, <1>6, PhasesOfPoint
<1>8. waddr_r' = q * LinePoints + l /\ mem_select_r' = f
  BY <1>1, <1>2, <1>4, <1>7 DEF WriteAddress, WriteEnable, AddressInv, Column
<1>9. (q * LinePoints + l) \div LinePoints = q /\ (q * LinePoints + l) % LinePoints = l
  BY <1>5
<1>10. tick_data_w = TimeOf(f, q, l)
  BY <1>1, <1>2, <1>4, <1>6 DEF ThetaInv, TimeOf
<1>11. wdata_r'.ticks = DelayTicks
  BY <1>1, <1>2 DEF WriteData
<1>12. DelayTicks = DelayOf(f, q, l)
  <2>1. CASE l > 0
    <3>1. last_dt_Ticks_r = TimeOf(f, q, l - 1)
      BY <1>2, <1>3, <1>4, <2>1 DEF LastInv
    <3> QED
      BY <1>4, <1>10, <2>1, <3>1 DEF DelayTicks, DelayOf
  <2>2. CASE l = 0 /\ q > 0
    <3>1. last_dt_Ticks_r = TimeOf(f, q - 1, LinePoints - 1)
      BY <1>2, <1>3, <1>4, <2>2 DEF LastInv
    <3>2. edgeTicks_r = Edge
      BY <1>2, <1>3 DEF EdgeInv
    <3> QED
      BY <1>4, <1>10, <2>2, <3>1, <3>2 DEF DelayTicks, DelayOf, rem_cycle_w
  <2>3. CASE l = 0 /\ q = 0
    BY <1>4, <1>10, <2>3 DEF DelayTicks, DelayOf
  <2> QED
    BY <2>1, <2>2, <2>3
<1> QED
  BY <1>8, <1>9, <1>11, <1>12 DEF DelayAt

\* A cycle of the table: a word that is not missing any more is the one that was on its
\* way (laserSynchronizer.v:309-328).
LEMMA TableStep ==
  ASSUME CounterOK, PhaseInv, WordInv, Shaped(table), CellsInv, SyncNext, Record
  PROVE  /\ Shaped(table')
         /\ drained /\ cur_state_r = "MEM_UPDATE" =>
              \A cell \in Cells \ missing'[back_bank] :
                table'[back_bank][cell[1]][cell[2]].ticks = DelayAt(cell[1], cell[2])
<1>1. WritePort
  BY DEF SyncNext, SyncClock
<1>2. FrameNumber \in 1 .. MemGroups /\ FrameColumns \in 1 .. AddrMod
      /\ MemGroups \in Nat /\ AddrMod \in Nat
  BY FrameAssumption, MemoryAssumption
<1>3. PICK b \in Banks, m \in Frames, a \in Columns :
        b = back_bank /\ m = mem_select_r /\ a = waddr_r
  BY MissingStep DEF CounterOK, Frames, Columns
<1>4. m \in Memories /\ a \in Addresses /\ MemoryOf(m) = m
  BY <1>2 DEF Memories, Addresses, Frames, Columns, MemoryOf
<1>5. CASE ~we_r
  <2>1. table' = table
    BY <1>1, <1>5 DEF WritePort, NoWrite
  <2>2. cur_state_r = "MEM_UPDATE" => missing'[back_bank] = missing[back_bank]
    BY <1>5, MissingStep DEF Begin
  <2> QED
    BY <2>1, <2>2 DEF CellsInv
<1>6. CASE we_r
  <2>1. table' = [table EXCEPT ![b][m][a] = wdata_r]
    BY <1>1, <1>3, <1>4, <1>6 DEF WritePort, Write, back_bank
  <2>2. cur_state_r = "MEM_UPDATE"
    BY <1>6 DEF PhaseInv
  <2>3. missing'[b] = missing[b] \ {<<m, a>>}
    BY <1>3, <1>6, <2>2, MissingStep DEF Begin
  <2>4. Shaped(table')
    BY <1>3, <1>4, <2>1 DEF Shaped
  <2>5. table'[b][m][a] = wdata_r
    BY <1>3, <1>4, <2>1 DEF Shaped
  <2>6. ASSUME NEW f \in Memories, NEW c \in Addresses, <<f, c>> # <<m, a>>
        PROVE  table'[b][f][c] = table[b][f][c]
    BY <1>3, <1>4, <2>1, <2>6 DEF Shaped
  <2>7. ASSUME drained, NEW cell \in Cells \ missing'[b]
        PROVE  table'[b][cell[1]][cell[2]].ticks = DelayAt(cell[1], cell[2])
    <3>1. PICK f \in Frames, c \in Columns : cell = <<f, c>>
      BY <2>7 DEF Cells
    <3>2. CASE f = m /\ c = a
      <4>1. wdata_r.ticks = DelayAt(m, a)
        BY <1>3, <1>6, <2>7 DEF WordInv
      <4> QED
        BY <2>5, <3>1, <3>2, <4>1
    <3>3. CASE ~(f = m /\ c = a)
      <4>1. cell \in Cells \ missing[b]
        BY <2>3, <2>7, <3>1, <3>3
      <4>2. table[b][f][c].ticks = DelayAt(f, c)
        BY <1>3, <2>2, <2>7, <3>1, <4>1 DEF CellsInv
      <4>3. f \in Memories /\ c \in Addresses
        BY <1>2 DEF Memories, Addresses, Frames, Columns
      <4> QED
        BY <2>6, <3>1, <3>3, <4>2, <4>3
    <3> QED
      BY <3>2, <3>3
  <2> QED
    BY <1>3, <2>4, <2>7
<1> QED
  BY <1>5, <1>6

LEMMA DelaysStep ==
  ASSUME LinesApart, UpdateInv, PositionInv, PositionInv', DelaysInv, [Next]_tuvars
  PROVE  DelaysInv'
<1>1. CASE Next
  <2>1. SyncNext /\ Record /\ SyncState
    BY <1>1 DEF Next, SyncNext, SyncClock
  <2>2. HandshakeInv /\ OperandInv /\ CounterOK /\ PhaseInv
    BY DEF PositionInv, HandshakeInv
  <2>3. EdgeInv' /\ LastInv' /\ WordInv'
    BY <2>1, <2>2, EdgeStep, LastStep, WordStep DEF DelaysInv
  <2>4. /\ Shaped(table)'
        /\ drained /\ cur_state_r = "MEM_UPDATE" =>
             \A cell \in Cells \ missing'[back_bank] :
               table'[back_bank][cell[1]][cell[2]].ticks = DelayAt(cell[1], cell[2])
    BY <2>1, <2>2, TableStep DEF DelaysInv, Shaped, Banks, Memories, Addresses
  <2>5. CellsInv'
    <3> SUFFICES ASSUME drained', cur_state_r' = "MEM_UPDATE" PROVE CellsInv'
      BY DEF CellsInv
    <3>1. cur_state_r \in {"EDGE_TICKS", "MEM_UPDATE"} /\ drained
      BY <2>1 DEF SyncState, Record, Begin
    <3>2. back_bank' = back_bank
      BY <2>1, <3>1, FrozenStep DEF UpdateInv, back_bank
    <3>3. CASE cur_state_r = "EDGE_TICKS"
      <4>1. missing[back_bank] = Cells /\ ~we_r
        BY <3>3 DEF UpdateInv, CountInv, PhaseInv
      <4>2. missing'[back_bank] = Cells
        BY <2>1, <2>2, <3>3, <4>1, MissingStep DEF Begin
      <4> QED
        BY <3>2, <4>2 DEF CellsInv, Cells, Frames, Columns
    <3>4. CASE cur_state_r = "MEM_UPDATE"
      BY <2>4, <3>1, <3>2, <3>4
         DEF CellsInv, Cells, Frames, Columns, DelayAt, DelayOf, TimeOf, ThetaOf, RefOf, Edge,
             TotalPoints
    <3> QED
      BY <3>1, <3>3, <3>4
  <2> QED
    BY <2>3, <2>4, <2>5 DEF DelaysInv
<1>2. CASE UNCHANGED tuvars
  <2>1. EdgeInv' /\ LastInv' /\ WordInv'
    BY <1>2 DEF DelaysInv, tuvars, syncvars, fsmRegs, edgeTickRegs, pointRegs, thetaRegs, writeRegs,
                EdgeInv, LastInv, WordInv, DelayAt, DelayOf, TimeOf, ThetaOf, RefOf, Edge,
                TotalPoints
  <2>2. Shaped(table)' /\ CellsInv'
    BY <1>2 DEF DelaysInv, tuvars, syncvars, fsmRegs, MM!bankRegs, Shaped, Banks, Memories,
                Addresses, CellsInv, back_bank, Cells, Frames, Columns, DelayAt, DelayOf, TimeOf,
                ThetaOf, RefOf, Edge, TotalPoints
  <2> QED
    BY <2>1, <2>2 DEF DelaysInv
<1> QED
  BY <1>1, <1>2

LEMMA DelaysInit == Init => DelaysInv
<1> SUFFICES ASSUME Init PROVE DelaysInv
  OBVIOUS
<1>1. ~drained /\ table = [b \in Banks |-> InitialTable]
  BY DEF Init, SyncInit
<1>2. Shaped(table)
  BY <1>1, ContentsAssumption DEF Shaped
<1> QED
  BY <1>1, <1>2 DEF DelaysInv, EdgeInv, LastInv, WordInv, CellsInv

\* The inductive invariant of the words of an update (laserSynchronizer.v:159-304).
THEOREM DelaysInvariance == ASSUME LinesApart PROVE Spec => []DelaysInv
<1>1. UpdateInv /\ PositionInv /\ DelaysInv /\ [Next]_tuvars /\ PositionInv' => DelaysInv'
  BY DelaysStep
<1> QED
  BY <1>1, DelaysInit, UpdateInvariance, PositionInvariance, PTL DEF Spec

\* What an update leaves in the table.
LEMMA TableLeft ==
  ASSUME UpdateInv, DelaysInv, Next, End, drained
  PROVE  \A f \in Frames, a \in Columns : table'[back_bank][f][a].ticks = DelayAt(f, a)
<1>1. SyncNext /\ Record /\ SyncState
  BY DEF Next, SyncNext, SyncClock
<1>2. missing'[back_bank] = {}
  BY <1>1, WriteOfMissing DEF UpdateInv
<1>3. \A cell \in Cells : table'[back_bank][cell[1]][cell[2]].ticks = DelayAt(cell[1], cell[2])
  BY <1>1, <1>2, TableStep DEF UpdateInv, DelaysInv, End
<1>4. ASSUME NEW f \in Frames, NEW a \in Columns
      PROVE  table'[back_bank][f][a].ticks = DelayAt(f, a)
  <2>1. <<f, a>> \in Cells /\ <<f, a>>[1] = f /\ <<f, a>>[2] = a
    BY DEF Cells
  <2> QED
    BY <1>3, <2>1
<1> QED
  BY <1>4

\* If lines are not reported faster than a swap takes, then in every instance the table
\* that an update leaves, which began with the chain empty, adds up point by point to the
\* due times, whatever the times are (laserSynchronizer.v:159-179,223-304).
THEOREM TablesAddUp == ASSUME LinesApart PROVE Spec => DelaysAddUp
<1>1. ASSUME UpdateInv, DelaysInv, [Next]_tuvars
      PROVE  [End /\ drained => AddsUp(table'[back_bank])]_tuvars
  <2>1. CASE Next
    BY <1>1, <2>1, TableLeft, DelaysSum
  <2> QED
    BY <1>1, <2>1
<1> QED
  BY <1>1, DelaysInvariance, UpdateInvariance, PTL DEF Spec, DelaysAddUp
-----------------------------------------------------------------------------
\* The address of the variant that cordic.cpp:188-206 has in a comment: the mirror's column,
\* whichever way it moves.
myaddr(a) == (a % LinePoints) * Passages + ((a \div LinePoints) \div 2)

\* The place before.
LEMMA PlaceBefore ==
  ASSUME NEW a \in Columns \ {0}
  PROVE  /\ a - 1 \in Columns
         /\ a % LinePoints > 0 => /\ (a - 1) \div LinePoints = a \div LinePoints
                                  /\ (a - 1) % LinePoints = (a % LinePoints) - 1
         /\ a % LinePoints = 0 => /\ a \div LinePoints > 0
                                  /\ (a - 1) \div LinePoints = (a \div LinePoints) - 1
                                  /\ (a - 1) % LinePoints = LinePoints - 1
<1>1. LinePoints \in Nat \ {0} /\ a \in Nat \ {0} /\ a - 1 \in Columns
  BY Sizes DEF Columns
<1>2. PICK q \in Nat, l \in 0 .. LinePoints - 1 :
        q = a \div LinePoints /\ l = a % LinePoints /\ a = q * LinePoints + l
  BY <1>1, Place
<1>3. CASE l > 0
  <2>1. (a - 1) \div LinePoints = q /\ (a - 1) % LinePoints = l - 1
    BY <1>1, <1>2, <1>3
  <2> QED
    BY <1>1, <1>2, <1>3, <2>1
<1>4. CASE l = 0
  <2>1. q > 0
    BY <1>1, <1>2, <1>4
  <2>2. (a - 1) \div LinePoints = q - 1 /\ (a - 1) % LinePoints = LinePoints - 1
    BY <1>1, <1>2, <1>4, <2>1
  <2> QED
    BY <1>1, <1>2, <1>4, <2>1, <2>2
<1> QED
  BY <1>2, <1>3, <1>4

\* The software's address is that column, counted from the other end in backward passages
\* (MathThread.cpp:127-132).
LEMMA SoftwareAddress ==
  ASSUME NEW a \in Columns
  PROVE  /\ myaddr(a) \in Columns /\ Software!addr(a) \in Columns
         /\ Software!order(a) = Passage(a) % 2
         /\ Software!addr(a) = IF Passage(a) % 2 = 0 THEN myaddr(a)
                               ELSE FrameColumns - 1 - myaddr(a)
         /\ Software!addr(a) = 0 <=> a = 0
<1> DEFINE L == LinePoints
           P == Passages
<1>1. /\ L \in Nat \ {0} /\ P \in Nat \ {0} /\ Columns = 0 .. L * P - 1 /\ FrameColumns = L * P
  BY Sizes DEF Columns
<1>2. PICK q \in 0 .. P - 1, l \in 0 .. L - 1 :
        q = a \div L /\ l = a % L /\ a = q * L + l
  BY Place
<1>3. PICK h \in 0 .. P - 1 :
        h = q \div 2 /\ (q % 2 = 1 => h < P - 1) /\ (q % 2 = 0 /\ h = 0 <=> q = 0)
  BY <1>1, <1>2
<1>4. /\ myaddr(a) = l * P + h
      /\ Software!addr(a) = IF q % 2 = 0 THEN l * P + h ELSE (L - 1 - l) * P + P - 1 - h
      /\ Software!order(a) = q % 2 /\ Passage(a) % 2 = q % 2
  BY <1>2, <1>3 DEF myaddr, Software!addr, Software!order, Software!passage, Software!point,
                    Software!iterator, Software!NUMBER_OF_PASSAGES, Passages, Passage, P, L
<1> HIDE DEF L, P
<1>5. /\ l * P + h \in 0 .. L * P - 1
      /\ (L - 1 - l) * P + (P - 1 - h) \in 0 .. L * P - 1
      /\ (L - 1 - l) * P + (P - 1 - h) = L * P - 1 - (l * P + h)
  BY <1>1, PlaceInRows
<1>6. (L - 1 - l) * P + P - 1 - h = (L - 1 - l) * P + (P - 1 - h)
  BY <1>1
<1>7. q % 2 \in {0, 1}
  BY <1>1
<1>8. CASE q % 2 = 0
  <2>1. Software!addr(a) = l * P + h
    BY <1>4, <1>8
  <2>2. l * P + h = 0 <=> l = 0 /\ h = 0
    BY <1>1
  <2>3. a = 0 <=> l = 0 /\ q = 0
    BY <1>1, <1>2
  <2> QED
    BY <1>1, <1>3, <1>4, <1>5, <1>8, <2>1, <2>2, <2>3
<1>9. CASE q % 2 = 1
  <2>1. Software!addr(a) = (L - 1 - l) * P + (P - 1 - h)
    BY <1>4, <1>6, <1>9
  <2>2. (L - 1 - l) * P + (P - 1 - h) # 0
    BY <1>1, <1>3, <1>9
  <2>3. a # 0
    <3>1. q # 0
      BY <1>3, <1>9
    <3> QED
      BY <1>1, <1>2, <3>1
  <2> QED
    BY <1>1, <1>4, <1>5, <1>9, <2>1, <2>2, <2>3
<1> QED
  BY <1>7, <1>8, <1>9

\* What the two variants of cordic.cpp compute is the same (cordic.cpp:160-206).
LEMMA SoftwareDelay ==
  ASSUME NEW temp \in [Columns -> Int], NEW a \in Columns
  PROVE  Software!dt_ticks(temp, a) =
           IF a = 0 THEN temp[0]
           ELSE IF a % LinePoints = 0
                THEN temp[FrameColumns - 1] - temp[myaddr(a - 1)] + temp[myaddr(a)]
                ELSE temp[myaddr(a)] - temp[myaddr(a - 1)]
<1>1. CASE a = 0
  BY <1>1, SoftwareAddress DEF Software!dt_ticks
<1>2. CASE a # 0
  <2>1. a - 1 \in Columns
    BY <1>2, PlaceBefore
  <2>2. FrameColumns \in Nat /\ LinePoints \in Nat \ {0} /\ Passage(a) \in Nat /\ Passage(a - 1) \in Nat
    BY <2>1, Sizes, Place DEF Passage
  <2>3. PICK c \in Columns, d \in Columns, x \in Columns, y \in Columns :
          /\ c = myaddr(a) /\ d = myaddr(a - 1)
          /\ x = Software!addr(a) /\ y = Software!addr(a - 1)
    BY <2>1, SoftwareAddress
  <2>4. /\ x = IF Passage(a) % 2 = 0 THEN c ELSE FrameColumns - 1 - c
        /\ y = IF Passage(a - 1) % 2 = 0 THEN d ELSE FrameColumns - 1 - d
        /\ x # 0 /\ Software!order(a) = Passage(a) % 2
    BY <1>2, <2>1, <2>3, SoftwareAddress
  <2>5. \A n \in Columns : n \in Int /\ FrameColumns - 1 - (FrameColumns - 1 - n) = n
    BY <2>2 DEF Columns
  <2>6. Passage(a) % 2 \in {0, 1} /\ Passage(a - 1) % 2 \in {0, 1}
    BY <2>2
  <2>7. Software!point(a) = a % LinePoints /\ Software!prev_addr(a) = y
    BY <2>3 DEF Software!point, Software!prev_addr
  <2>8. IF Passage(a) % 2 = 0 THEN temp[x] = temp[c] ELSE temp[FrameColumns - 1 - x] = temp[c]
    BY <2>4, <2>5
  <2>9. CASE a % LinePoints = 0
    <3>1. Passage(a - 1) = Passage(a) - 1
      BY <1>2, <2>9, PlaceBefore DEF Passage
    <3>2. Passage(a - 1) % 2 # Passage(a) % 2
      BY <2>2, <3>1
    <3>3. IF Passage(a) % 2 = 0 THEN temp[FrameColumns - 1 - y] = temp[d] ELSE temp[y] = temp[d]
      BY <2>4, <2>5, <2>6, <3>2
    <3> QED
      BY <1>2, <2>3, <2>4, <2>7, <2>8, <2>9, <3>3 DEF Software!dt_ticks
  <2>10. CASE a % LinePoints # 0
    <3>1. a % LinePoints > 0
      BY <2>10, Place
    <3>2. Passage(a - 1) = Passage(a)
      BY <1>2, <3>1, PlaceBefore DEF Passage
    <3>3. IF Passage(a) % 2 = 0 THEN temp[y] = temp[d] ELSE temp[FrameColumns - 1 - y] = temp[d]
      BY <2>4, <2>5, <3>2
    <3> QED
      BY <1>2, <2>3, <2>4, <2>7, <2>8, <2>10, <3>3 DEF Software!dt_ticks
  <2> QED
    BY <2>9, <2>10
<1> QED
  BY <1>1, <1>2

\* Each column of a row belongs to one point (MathThread.cpp:125-132).
LEMMA AllAddresses == {Software!addr(a) : a \in Columns} = Columns
<1> DEFINE L == LinePoints
           P == Passages
<1>1. /\ L \in Nat \ {0} /\ P \in Nat \ {0} /\ Columns = 0 .. L * P - 1 /\ FrameColumns = L * P
  BY Sizes DEF Columns
<1>2. ASSUME NEW c \in Columns PROVE \E a \in Columns : Software!addr(a) = c
  <2> DEFINE s == c % P
             row == c \div P
             q == IF 2 * s < P THEN 2 * s ELSE 2 * (P - 1 - s) + 1
             l == IF 2 * s < P THEN row ELSE L - 1 - row
  <2> HIDE DEF L, P
  <2>1. s \in 0 .. P - 1 /\ row \in 0 .. L - 1 /\ c = row * P + s
    <3>1. c \in 0 .. P * L - 1
      BY <1>1
    <3> QED
      BY <1>1, <3>1
  <2> HIDE DEF s, row
  <2>2. /\ q \in 0 .. P - 1 /\ l \in 0 .. L - 1
        /\ 2 * s < P => q % 2 = 0 /\ q \div 2 = s /\ l = row
        /\ ~(2 * s < P) => q % 2 = 1 /\ q \div 2 = P - 1 - s /\ L - 1 - l = row
    BY <1>1, <2>1
  <2> HIDE DEF q, l
  <2>3. PICK a \in Columns : a = q * L + l
    BY <1>1, <2>2
  <2>4. a \div L = q /\ a % L = l
    BY <1>1, <2>2, <2>3
  <2>5. /\ myaddr(a) = l * P + (q \div 2)
        /\ Software!addr(a) = IF q % 2 = 0 THEN myaddr(a) ELSE L * P - 1 - myaddr(a)
    BY <1>1, <2>4, SoftwareAddress DEF myaddr, Passage, L, P
  <2>6. CASE 2 * s < P
    BY <2>1, <2>2, <2>5, <2>6
  <2>7. CASE ~(2 * s < P)
    <3>1. q \div 2 \in 0 .. P - 1 /\ P - 1 - (q \div 2) = s
      BY <1>1, <2>1, <2>2, <2>7
    <3>2. (L - 1 - l) * P + (P - 1 - (q \div 2)) = L * P - 1 - (l * P + (q \div 2))
      BY <1>1, <2>2, <3>1, PlaceInRows
    <3> QED
      BY <2>1, <2>2, <2>5, <2>7, <3>1, <3>2
  <2> QED
    BY <2>6, <2>7
<1> QED
  BY <1>2, SoftwareAddress

\* A row that leads exactly from each sum to the next.
LEMMA SumsAre ==
  ASSUME NEW row \in [Columns -> Int], NEW total \in [Columns -> Int],
         row[0] = total[0],
         \A a \in Columns \ {0} : total[a - 1] + row[a] = total[a]
  PROVE  \A a \in Columns : Sums(row)[a] = total[a]
<1> DEFINE s == Sums(row)
           Reached == {n \in Nat : n \in Columns => s[n] = total[n]}
<1>1. Columns = 0 .. FrameColumns - 1 /\ FrameColumns \in Nat \ {0}
  BY Sizes DEF Columns
<1>2. s[0] = row[0] /\ \A a \in Columns \ {0} : s[a] = s[a - 1] + row[a]
  BY SumsOfRow
<1> HIDE DEF s
<1>3. 0 \in Reached
  BY <1>1, <1>2
<1>4. ASSUME NEW n \in Reached PROVE n + 1 \in Reached
  <2>1. n \in Nat /\ (n \in Columns => s[n] = total[n])
    OBVIOUS
  <2> SUFFICES ASSUME n + 1 \in Columns PROVE s[n + 1] = total[n + 1]
    BY <2>1
  <2>2. n \in Columns /\ n + 1 \in Columns \ {0} /\ (n + 1) - 1 = n
    BY <1>1, <2>1
  <2> QED
    BY <1>2, <2>1, <2>2
<1>5. Reached = Nat
  <2>1. Reached \in SUBSET Nat
    OBVIOUS
  <2> HIDE DEF Reached
  <2> QED
    BY <1>3, <1>4, <2>1, AllNumbers
<1>6. ASSUME NEW a \in Columns PROVE s[a] = total[a]
  <2>1. a \in Nat
    BY <1>1
  <2>2. a \in Reached
    <3> HIDE DEF Reached
    <3> QED
      BY <1>5, <2>1
  <2> QED
    BY <2>2
<1> QED
  BY <1>6 DEF s

\* The mirror comes to later positions later, and a passage has more than one point.
Increasing == \A p, r \in Positions : p <= r => TickOf[p] <= TickOf[r]
PassageHasPoints == LinePoints >= 2

\* The software's fire times of a frame, those of every FrameNumber-th position from g on.
TimesFrom(g) == [c \in Columns |-> TickOf[c * FrameNumber + g]]

LEMMA TimesOfColumns ==
  ASSUME Increasing, NEW g \in Frames
  PROVE  /\ TimesFrom(g) \in [Columns -> 0 .. TickMod - 1]
         /\ \A c, d \in Columns : c <= d => TimesFrom(g)[c] <= TimesFrom(g)[d]
<1>1. /\ FrameNumber \in Nat \ {0} /\ FrameColumns \in Nat \ {0} /\ g \in 0 .. FrameNumber - 1
      /\ Columns = 0 .. FrameColumns - 1 /\ TotalPoints = FrameColumns * FrameNumber
      /\ TickOf \in [0 .. TotalPoints - 1 -> 0 .. TickMod - 1]
  BY Sizes, FrameAssumption DEF Frames, Columns, TotalPoints
<1>2. ASSUME NEW c \in Columns PROVE c * FrameNumber + g \in Positions
  <2>1. c * FrameNumber + g \in 0 .. FrameColumns * FrameNumber - 1
    BY <1>1
  <2> QED
    BY <1>1, <2>1 DEF Positions
<1>3. ASSUME NEW c \in Columns, NEW d \in Columns, c <= d
      PROVE  c * FrameNumber + g <= d * FrameNumber + g
  BY <1>1, <1>3
<1> QED
  BY <1>1, <1>2, <1>3 DEF TimesFrom, Positions, Increasing

\* They are the synchronizer's times, of frame g forwards and of the frame counted from the
\* other end backwards.
LEMMA TimesMeet ==
  ASSUME NEW g \in Frames, NEW a \in Columns
  PROVE  TimesFrom(g)[myaddr(a)] =
           TimeOf(IF Passage(a) % 2 = 0 THEN g ELSE FrameNumber - 1 - g,
                  a \div LinePoints, a % LinePoints)
<1>1. PICK q \in 0 .. Passages - 1, l \in 0 .. LinePoints - 1 :
        q = a \div LinePoints /\ l = a % LinePoints
  BY Place
<1>2. /\ FrameNumber \in Nat /\ Passages \in Nat /\ g \in Int /\ q % 2 \in {0, 1}
      /\ FrameNumber - 1 - (FrameNumber - 1 - g) = g
  BY Sizes DEF Frames
<1>3. PICK h \in Int : h = q \div 2
  BY <1>2
<1>4. (l * Passages + h) * FrameNumber + g = g + l * (FrameNumber * Passages) + h * FrameNumber
  BY <1>2
<1>5. RefOf(IF q % 2 = 0 THEN g ELSE FrameNumber - 1 - g, q) = g
  BY <1>2 DEF RefOf
<1>6. myaddr(a) = l * Passages + h /\ myaddr(a) \in Columns
  BY <1>1, <1>3, SoftwareAddress DEF myaddr
<1>7. TimesFrom(g)[myaddr(a)] = TickOf[(l * Passages + h) * FrameNumber + g]
  BY <1>6 DEF TimesFrom
<1>8. ThetaOf(IF q % 2 = 0 THEN g ELSE FrameNumber - 1 - g, q, l) =
        g + l * (FrameNumber * Passages) + h * FrameNumber
  BY <1>3, <1>5 DEF ThetaOf, ThetaStep
<1> QED
  BY <1>1, <1>4, <1>7, <1>8 DEF TimeOf, Passage

\* The delays of the software for one frame.
LEMMA DelaysOfFrame ==
  ASSUME Increasing, PassageHasPoints, NEW g \in Frames, NEW a \in Columns
  PROVE  LET temp == TimesFrom(g)
             delay(c) == Software!dt_ticks(temp, c)
         IN  /\ delay(a) \in 0 .. TickMod - 1
             /\ a % LinePoints # 0 => /\ a # 0
                                      /\ delay(a) = temp[myaddr(a)] - temp[myaddr(a - 1)]
             /\ a = 0 => delay(a) = temp[myaddr(a)]
             /\ a # 0 /\ a % LinePoints = 0 =>
                  delay(a) = temp[FrameColumns - 1] - temp[myaddr(a - 1)] + temp[myaddr(a)]
<1> DEFINE temp == TimesFrom(g)
           delay(c) == Software!dt_ticks(temp, c)
<1>1. /\ temp \in [Columns -> 0 .. TickMod - 1] /\ temp \in [Columns -> Int]
      /\ \A c, d \in Columns : c <= d => temp[c] <= temp[d]
  BY TimesOfColumns
<1>2. /\ FrameColumns \in Nat \ {0} /\ LinePoints \in Nat \ {0} /\ Passages \in Nat \ {0}
      /\ TickMod \in Nat \ {0} /\ FrameColumns - 1 \in Columns /\ Columns = 0 .. FrameColumns - 1
      /\ LinePoints >= 2
  BY Sizes, MemoryAssumption DEF Columns, PassageHasPoints
<1>3. PICK q \in 0 .. Passages - 1, l \in 0 .. LinePoints - 1 :
        q = a \div LinePoints /\ l = a % LinePoints
  BY Place
<1>4. delay(a) = IF a = 0 THEN temp[0]
                 ELSE IF l = 0
                      THEN temp[FrameColumns - 1] - temp[myaddr(a - 1)] + temp[myaddr(a)]
                      ELSE temp[myaddr(a)] - temp[myaddr(a - 1)]
  BY <1>1, <1>3, SoftwareDelay
<1>5. myaddr(a) \in Columns /\ myaddr(a) = l * Passages + (q \div 2)
  BY <1>3, SoftwareAddress DEF myaddr
<1> HIDE DEF temp, delay
<1>6. CASE a = 0
  <2>1. l = 0 /\ q = 0
    BY <1>2, <1>3, <1>6
  <2>2. myaddr(a) = 0
    BY <1>2, <1>5, <2>1
  <2>3. delay(a) = temp[myaddr(a)] /\ temp[myaddr(a)] \in 0 .. TickMod - 1
    BY <1>1, <1>4, <1>5, <1>6, <2>2
  <2> QED
    BY <1>3, <1>6, <2>1, <2>3 DEF temp, delay
<1>7. CASE a # 0 /\ l > 0
  <2>1. a - 1 \in Columns /\ (a - 1) \div LinePoints = q /\ (a - 1) % LinePoints = l - 1
    BY <1>3, <1>7, PlaceBefore
  <2>2. myaddr(a - 1) \in Columns /\ myaddr(a - 1) = (l - 1) * Passages + (q \div 2)
    BY <2>1, SoftwareAddress DEF myaddr
  <2>3. myaddr(a - 1) <= myaddr(a)
    <3>1. l * Passages = (l - 1) * Passages + Passages
      BY <1>2
    <3> QED
      BY <1>2, <1>5, <2>2, <3>1
  <2>4. temp[myaddr(a - 1)] \in 0 .. TickMod - 1 /\ temp[myaddr(a)] \in 0 .. TickMod - 1
        /\ temp[myaddr(a - 1)] <= temp[myaddr(a)]
    BY <1>1, <1>5, <2>2, <2>3
  <2>5. delay(a) = temp[myaddr(a)] - temp[myaddr(a - 1)]
    BY <1>4, <1>7
  <2>6. delay(a) \in 0 .. TickMod - 1
    BY <1>2, <2>4, <2>5
  <2> QED
    BY <1>3, <1>7, <2>5, <2>6 DEF temp, delay
<1>8. CASE a # 0 /\ l = 0
  <2>1. /\ a - 1 \in Columns /\ q > 0 /\ (a - 1) \div LinePoints = q - 1
        /\ (a - 1) % LinePoints = LinePoints - 1
    BY <1>3, <1>8, PlaceBefore
  <2>2. /\ myaddr(a - 1) \in Columns
        /\ myaddr(a - 1) = (LinePoints - 1) * Passages + ((q - 1) \div 2)
    BY <2>1, SoftwareAddress DEF myaddr
  <2>3. myaddr(a) <= myaddr(a - 1) /\ myaddr(a - 1) <= FrameColumns - 1
    <3>1. (LinePoints - 1) * Passages >= Passages
      BY <1>2
    <3>2. q \div 2 \in 0 .. Passages - 1 /\ (q - 1) \div 2 \in 0 .. Passages - 1
      BY <1>2, <2>1
    <3>3. 0 * Passages = 0
      BY <1>2
    <3> QED
      BY <1>2, <1>5, <1>8, <2>2, <3>1, <3>2, <3>3
  <2>4. /\ temp[myaddr(a - 1)] \in 0 .. TickMod - 1 /\ temp[myaddr(a)] \in 0 .. TickMod - 1
        /\ temp[FrameColumns - 1] \in 0 .. TickMod - 1
        /\ temp[myaddr(a)] <= temp[myaddr(a - 1)]
        /\ temp[myaddr(a - 1)] <= temp[FrameColumns - 1]
    BY <1>1, <1>2, <1>5, <2>2, <2>3
  <2>5. delay(a) = temp[FrameColumns - 1] - temp[myaddr(a - 1)] + temp[myaddr(a)]
    BY <1>4, <1>8
  <2>6. delay(a) \in 0 .. TickMod - 1
    BY <1>2, <2>4, <2>5
  <2> QED
    BY <1>3, <1>8, <2>5, <2>6 DEF temp, delay
<1> QED
  BY <1>3, <1>6, <1>7, <1>8

\* A table that holds these delays agrees with the software's schedule, frame by frame
\* (MathThread.cpp:116-176, cordic.cpp:151-193).
LEMMA FrameAgrees ==
  ASSUME Increasing, PassageHasPoints, NEW g \in Frames,
         NEW bank, \A f \in Frames, a \in Columns : bank[f][a].ticks = DelayAt(f, a)
  PROVE  Agrees(bank, TimesFrom(g), g, FrameNumber - 1 - g)
<1> DEFINE temp == TimesFrom(g)
           delay == [a \in Columns |-> Software!dt_ticks(temp, a)]
           FrameAt(a) == IF Passage(a) % 2 = 0 THEN g ELSE FrameNumber - 1 - g
           Far == temp[FrameColumns - 1]
           total == [a \in Columns |-> Passage(a) * Far + temp[myaddr(a)]]
<1>1. /\ FrameNumber \in Nat \ {0} /\ g \in 0 .. FrameNumber - 1 /\ TickMod \in Nat \ {0}
      /\ FrameColumns - 1 \in Columns /\ 0 \in Columns /\ Edge \in Int
  BY Sizes, MemoryAssumption, TimesAreTicks DEF Frames, Columns
<1>2. \A a \in Columns : FrameAt(a) \in Frames
  BY <1>1 DEF Frames
<1>3. /\ temp \in [Columns -> 0 .. TickMod - 1] /\ Far \in Int
      /\ \A a \in Columns : myaddr(a) \in Columns /\ temp[myaddr(a)] \in Int
      /\ \A a \in Columns : Passage(a) \in Nat
  BY <1>1, TimesOfColumns, SoftwareAddress, Place DEF Passage
<1>4. \A a \in Columns : temp[myaddr(a)] = TimeOf(FrameAt(a), a \div LinePoints, a % LinePoints)
  BY TimesMeet
<1>5. \A a \in Columns :
        /\ delay[a] \in 0 .. TickMod - 1
        /\ a % LinePoints # 0 => a # 0 /\ delay[a] = temp[myaddr(a)] - temp[myaddr(a - 1)]
        /\ a = 0 => delay[a] = temp[myaddr(a)]
        /\ a # 0 /\ a % LinePoints = 0 =>
             delay[a] = Far - temp[myaddr(a - 1)] + temp[myaddr(a)]
  BY DelaysOfFrame
<1>6. delay \in [Columns -> Int] /\ total \in [Columns -> Int]
  <2>1. \A a \in Columns : Passage(a) * Far + temp[myaddr(a)] \in Int
    BY <1>3
  <2> QED
    BY <1>5, <2>1
<1>7. \A a \in Columns : total[a] = Passage(a) * Far + temp[myaddr(a)]
  OBVIOUS
<1>8. \A a \in Columns : bank[FrameAt(a)][a].ticks = DelayAt(FrameAt(a), a)
  BY <1>2
<1> HIDE DEF temp, delay, FrameAt, Far, total
<1>9. ASSUME NEW a \in Columns, a % LinePoints # 0
      PROVE  delay[a] = bank[FrameAt(a)][a].ticks
  <2>1. a % LinePoints > 0 /\ a # 0 /\ a - 1 \in Columns
        /\ (a - 1) \div LinePoints = a \div LinePoints /\ (a - 1) % LinePoints = (a % LinePoints) - 1
    BY <1>5, <1>9, Place, PlaceBefore
  <2>2. FrameAt(a - 1) = FrameAt(a)
    BY <2>1 DEF FrameAt, Passage
  <2>3. PICK x \in Int, y \in Int : x = temp[myaddr(a)] /\ y = temp[myaddr(a - 1)]
    BY <1>3, <2>1
  <2>4. DelayAt(FrameAt(a), a) = (x - y) % TickMod
    BY <1>4, <2>1, <2>2, <2>3 DEF DelayAt, DelayOf
  <2>5. delay[a] = x - y /\ x - y \in 0 .. TickMod - 1
    BY <1>5, <1>9, <2>3
  <2>6. (x - y) % TickMod = x - y
    BY <1>1, <2>5
  <2> QED
    BY <1>8, <2>4, <2>5, <2>6
<1>10. \A a \in Columns : Sums(delay)[a] = total[a]
  <2>1. delay[0] = total[0]
    <3>1. Passage(0) = 0 /\ 0 * Far = 0
      BY <1>3, Sizes DEF Passage
    <3> QED
      BY <1>1, <1>3, <1>5, <1>7, <3>1
  <2>2. ASSUME NEW a \in Columns \ {0} PROVE total[a - 1] + delay[a] = total[a]
    <3>1. a - 1 \in Columns
      BY PlaceBefore
    <3>2. PICK x \in Int, y \in Int, e \in Int, q \in Int :
            x = temp[myaddr(a)] /\ y = temp[myaddr(a - 1)] /\ e = Far /\ q = Passage(a)
      BY <1>3, <3>1
    <3>3. total[a] = q * e + x /\ total[a - 1] = Passage(a - 1) * e + y
      BY <1>7, <3>1, <3>2
    <3>4. CASE a % LinePoints = 0
      <4>1. Passage(a - 1) = q - 1
        BY <3>2, <3>4, PlaceBefore DEF Passage
      <4>2. delay[a] = e - y + x
        BY <1>5, <3>2, <3>4
      <4>3. (q - 1) * e + e = q * e
        OBVIOUS
      <4> QED
        BY <3>3, <4>1, <4>2, <4>3
    <3>5. CASE a % LinePoints # 0
      <4>1. a % LinePoints > 0
        BY <3>5, Place
      <4>2. Passage(a - 1) = q
        BY <3>2, <4>1, PlaceBefore DEF Passage
      <4>3. delay[a] = x - y
        BY <1>5, <3>2, <3>5
      <4> QED
        BY <3>3, <4>2, <4>3
    <3> QED
      BY <3>4, <3>5
  <2> QED
    BY <1>6, <2>1, <2>2, SumsAre
<1>11. ASSUME NEW a \in Columns
       PROVE  (Sums(delay)[a] + Passage(a) * (Edge - Far)) % TickMod
                = Sums(Row(bank, FrameAt(a)))[a] % TickMod
  <2>1. Sums(Row(bank, FrameAt(a)))[a] % TickMod = DueTime(FrameAt(a), a) % TickMod
    BY <1>2, DelaysSum DEF AddsUp
  <2>2. PICK x \in Int, q \in Int, e \in Int, d \in Int :
          x = temp[myaddr(a)] /\ q = Passage(a) /\ e = Far /\ d = Edge
    BY <1>1, <1>3
  <2>3. DueTime(FrameAt(a), a) = q * d + x
    BY <1>2, <1>4, <2>2, DueTimeOf
  <2>4. Sums(delay)[a] = q * e + x
    BY <1>7, <1>10, <2>2
  <2>5. (q * e + x) + q * (d - e) = q * d + x
    OBVIOUS
  <2> QED
    BY <2>1, <2>2, <2>3, <2>4, <2>5
<1>12. \A a \in Columns :
         /\ delay[a] \in 0 .. TickMod - 1
         /\ a % LinePoints # 0 => delay[a] = bank[FrameAt(a)][a].ticks
         /\ (Sums(delay)[a] + Passage(a) * (Edge - Far)) % TickMod
              = Sums(Row(bank, FrameAt(a)))[a] % TickMod
  BY <1>5, <1>9, <1>11
<1> QED
  BY <1>12, Zenon DEF Agrees, temp, delay, FrameAt, Far, Edge

\* The same for all frames of both programs.
LEMMA AllAgree ==
  ASSUME Increasing, PassageHasPoints,
         NEW bank, \A f \in Frames, a \in Columns : bank[f][a].ticks = DelayAt(f, a)
  PROVE  AgreeWith(bank)
<1>1. /\ FrameNumber \in Nat \ {0} /\ FrameColumns \in Nat \ {0}
      /\ Frames = 0 .. FrameNumber - 1 /\ Columns = 0 .. FrameColumns - 1
  BY Sizes DEF Frames, Columns
<1>2. ASSUME NEW f \in Frames
      PROVE  Agrees(bank, Software!ReferenceTemp[f], f, FrameNumber - 1 - f)
  <2>1. Software!ReferenceTemp[f] = TimesFrom(f)
    BY <1>1 DEF Software!ReferenceTemp, TimesFrom
  <2> QED
    BY <2>1, FrameAgrees
<1>3. ASSUME NEW f \in 0 .. FrameNumber - 2
      PROVE  Agrees(bank, Software!MathTemp[f], f + 1, FrameNumber - 2 - f)
  <2>1. f + 1 \in Frames /\ f \in 0 .. FrameNumber - 1
        /\ FrameNumber - 1 - (f + 1) = FrameNumber - 2 - f
    BY <1>1
  <2>2. ASSUME NEW c \in Columns
        PROVE  Software!Min({c * FrameNumber + f + 1, Software!LastPosition})
                 = c * FrameNumber + (f + 1)
    <3>1. PICK x \in Int, y \in Int : x = c * FrameNumber + f + 1 /\ y = FrameColumns * FrameNumber - 1
      BY <1>1
    <3>2. x <= y
      BY <1>1, <3>1
    <3>3. Software!Min({x, y}) = x
      BY <3>2 DEF Software!Min
    <3> QED
      BY <1>1, <3>1, <3>3 DEF Software!LastPosition
  <2>3. Software!MathTemp[f] = TimesFrom(f + 1)
    BY <1>1, <2>1, <2>2 DEF Software!MathTemp, TimesFrom
  <2>4. Agrees(bank, TimesFrom(f + 1), f + 1, FrameNumber - 1 - (f + 1))
    BY <2>1, FrameAgrees
  <2> QED
    BY <2>1, <2>3, <2>4
<1> QED
  BY <1>2, <1>3, AllAddresses DEF AgreeWith

\* If lines are not reported faster than a swap takes, later positions are due later and a
\* passage has two points or more, then in every instance the table that an update leaves,
\* which began with the chain empty, is the software's, up to the turn of the frames, the
\* late position of MathThread and the rest at the edge
\* (MathThread.cpp:93-176, cordic.cpp:103-241, laserSynchronizer.v:159-304).
THEOREM TablesAgree ==
  ASSUME LinesApart, Increasing, PassageHasPoints PROVE Spec => SchedulesAgree
<1>1. ASSUME UpdateInv, DelaysInv, [Next]_tuvars
      PROVE  [End /\ drained => AgreeWith(table'[back_bank])]_tuvars
  <2>1. CASE Next
    <3>1. End /\ drained => \A f \in Frames, a \in Columns :
                              table'[back_bank][f][a].ticks = DelayAt(f, a)
      BY <1>1, <2>1, TableLeft
    <3> QED
      BY <3>1, AllAgree
  <2> QED
    BY <1>1, <2>1
<1> QED
  BY <1>1, DelaysInvariance, UpdateInvariance, PTL DEF Spec, SchedulesAgree
=============================================================================
