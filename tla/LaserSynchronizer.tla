------------------------- MODULE LaserSynchronizer -------------------------
(***************************************************************************)
(* hw/IPs/laserSynchronizer.v: after each swap of the banks it computes    *)
(* the fire times of all frames again and writes them to the bank that is  *)
(* not played.  First the time of the edge of the mirror's range is        *)
(* computed (EDGE_TICKS), then, point by point, each frame's table         *)
(* (MEM_UPDATE).  A line passes the mirror's range Passages times,         *)
(* forwards and backwards in turn, with LinePoints points each time.       *)
(* The parts are the synchronizer's own registers, the arithmetic chain    *)
(* (CordicChain) and the bank control of MemoryManager; the line FSM is    *)
(* represented by its reports, at least MinLine cycles apart.              *)
(***************************************************************************)
EXTENDS PointMemory, CordicChain

CONSTANTS
  FrameColumns, FrameLines, FrameNumber, MemCyclesP, LinePoints,  \* the *_P parameters
  CycleMod, LineMod, GroupMod,
  InitialTable,   \* contents of a bank after reset
  TickOf,         \* fire time of each iteration theta
  MinLine         \* least number of cycles between two lines

Passages == FrameColumns \div LinePoints
TotalPoints == FrameColumns * FrameNumber
ThetaStep == FrameNumber * Passages

ASSUME FrameAssumption ==
  /\ FrameNumber \in 1 .. MemGroups /\ LinePoints \in Nat \ {0}
  /\ FrameColumns \in 1 .. AddrMod /\ FrameColumns = LinePoints * Passages
  /\ TickOf \in [0 .. TotalPoints - 1 -> 0 .. TickMod - 1]
  /\ MinLine \in Nat

\* The block RAMs hold words after reset too.
ASSUME ContentsAssumption == InitialTable \in [Memories -> [Addresses -> Words]]

\* The quota and the counter that MM compares it with.
ASSUME QuotaPortAssumption == MemCyclesP \in Nat \ {0} /\ CycleMod \in Nat \ {0}

VARIABLES
  new_line_i, quiet,     \* a line is reported; cycles since the last report
  cur_state_r, edgeTicks_saved_r, mem_update_over_r,
  mem_switch_r, ticks_update_r, mem_updated_r,
  edgeTicks_r, edgeTicks_stored_r,
  frame_number_cnt_r, passages_cnt_r, line_points_cnt_r,
  theta_valid_r, theta_data_r, theta_aux0_r, theta_aux1_r, theta_ref_r,
  waddr_r, wdata_r, last_dt_Ticks_r, we_r, mem_select_r,
  mem_sel_cur_state_r, mem_cycles_cnt_r, update_mem_r,
  mem_grp_cur_state_r, lines_cnt_r, mem_grp_r

MM == INSTANCE MemoryManager
        WITH MemCycles <- MemCyclesP - 1, LinesPerFrame <- FrameLines - 1,
             NumberOfFrames <- FrameNumber - 1, mem_updated_i <- mem_updated_r

fsmRegs   == <<cur_state_r, edgeTicks_saved_r, mem_update_over_r>>
swapRegs  == <<mem_switch_r, ticks_update_r, mem_updated_r>>
edgeTickRegs == <<edgeTicks_r, edgeTicks_stored_r>>
pointRegs == <<frame_number_cnt_r, passages_cnt_r, line_points_cnt_r>>
thetaRegs == <<theta_valid_r, theta_data_r, theta_aux0_r, theta_aux1_r, theta_ref_r>>
writeRegs == <<waddr_r, wdata_r, last_dt_Ticks_r, we_r, mem_select_r>>
syncvars  == <<new_line_i, quiet, fsmRegs, swapRegs, edgeTickRegs, pointRegs, thetaRegs,
               writeRegs, MM!bankRegs, MM!groupRegs, table, chainRegs>>

tick_Valid_w == new_dtTick_r
tick_notValid_w == next_dtTick_r
tick_data_w == IF dtTicks_valid_w THEN TickOf[back_unit.op] ELSE 0
rem_cycle_w == (edgeTicks_r - last_dt_Ticks_r) % TickMod
mirror_reverse_w == passages_cnt_r % 2 = 1

Blank == [ticks |-> 0, active |-> FALSE]

SyncInit ==
  /\ new_line_i = FALSE /\ quiet = 0
  /\ cur_state_r = "IDLE" /\ edgeTicks_saved_r = FALSE /\ mem_update_over_r = FALSE
  /\ mem_switch_r = <<TRUE, TRUE>> /\ ticks_update_r = FALSE /\ mem_updated_r = TRUE
  /\ edgeTicks_r = 0 /\ edgeTicks_stored_r = FALSE
  /\ frame_number_cnt_r = 0 /\ passages_cnt_r = 0 /\ line_points_cnt_r = 0
  /\ theta_valid_r = FALSE /\ theta_data_r = TotalPoints - 1
  /\ theta_aux0_r = 0 /\ theta_aux1_r = 0 /\ theta_ref_r = 0
  /\ waddr_r = 0 /\ wdata_r = Blank /\ last_dt_Ticks_r = 0 /\ we_r = FALSE
  /\ mem_select_r = 0
  /\ table = [b \in Banks |-> InitialTable]
  /\ MM!MMInit
  /\ ChainInit
-----------------------------------------------------------------------------
SyncState ==
  \/ cur_state_r = "IDLE" /\ ~ticks_update_r /\ UNCHANGED cur_state_r
  \/ cur_state_r = "IDLE" /\ ticks_update_r /\ cur_state_r' = "EDGE_TICKS"
  \/ cur_state_r = "EDGE_TICKS" /\ ~edgeTicks_saved_r /\ UNCHANGED cur_state_r
  \/ cur_state_r = "EDGE_TICKS" /\ edgeTicks_saved_r /\ cur_state_r' = "MEM_UPDATE"
  \/ cur_state_r = "MEM_UPDATE" /\ ~mem_update_over_r /\ UNCHANGED cur_state_r
  \/ cur_state_r = "MEM_UPDATE" /\ mem_update_over_r /\ cur_state_r' = "IDLE"

LastPoint == frame_number_cnt_r >= FrameNumber - 1 /\ waddr_r >= FrameColumns - 1

\* Mutant: the update is over when the last frame begins.
PhasesDoneEarly ==
  /\ edgeTicks_saved_r' = (cur_state_r = "EDGE_TICKS" /\ edgeTicks_stored_r)
  /\ mem_update_over_r' =
       (cur_state_r = "MEM_UPDATE" /\ frame_number_cnt_r >= FrameNumber - 1 /\ tick_Valid_w)

PhasesDone ==
  /\ edgeTicks_saved_r' = (cur_state_r = "EDGE_TICKS" /\ edgeTicks_stored_r)
  /\ mem_update_over_r' = (cur_state_r = "MEM_UPDATE" /\ LastPoint /\ tick_Valid_w)

\* Mutant: the banks may be swapped while the edge tick is computed.
MemorySwitchLate ==
  /\ mem_switch_r' = <<update_mem_r, mem_switch_r[1]>>
  /\ ticks_update_r' = (mem_switch_r[1] # mem_switch_r[2])
  /\ mem_updated_r' = (cur_state_r # "EDGE_TICKS")

\* A change of update_mem is seen after two registers; the banks may be swapped
\* only while no table is being computed.
MemorySwitch ==
  /\ mem_switch_r' = <<update_mem_r, mem_switch_r[1]>>
  /\ ticks_update_r' = (mem_switch_r[1] # mem_switch_r[2])
  /\ mem_updated_r' = (cur_state_r \notin {"MEM_UPDATE", "EDGE_TICKS"})

EdgeTick ==
  /\ edgeTicks_r' = IF cur_state_r = "EDGE_TICKS" /\ tick_Valid_w THEN tick_data_w ELSE edgeTicks_r
  /\ edgeTicks_stored_r' = (cur_state_r = "EDGE_TICKS" /\ (edgeTicks_stored_r \/ tick_notValid_w))
-----------------------------------------------------------------------------
\* The three nested counters: points of a passage, passages of a line, frames.
PointLast   == line_points_cnt_r >= LinePoints - 1
PassageLast == passages_cnt_r >= Passages - 1
FrameLast   == frame_number_cnt_r >= FrameNumber - 1
Succ(n, last) == IF last THEN 0 ELSE n + 1

FrameIteration ==
  \/ /\ cur_state_r = "MEM_UPDATE" /\ tick_Valid_w
     /\ line_points_cnt_r' = Succ(line_points_cnt_r, PointLast)
     /\ passages_cnt_r' = IF PointLast THEN Succ(passages_cnt_r, PassageLast) ELSE passages_cnt_r
     /\ frame_number_cnt_r' = IF PointLast /\ PassageLast
                              THEN Succ(frame_number_cnt_r, FrameLast) ELSE frame_number_cnt_r
  \/ cur_state_r = "MEM_UPDATE" /\ ~tick_Valid_w /\ UNCHANGED pointRegs
  \/ /\ cur_state_r # "MEM_UPDATE"
     /\ line_points_cnt_r' = 0 /\ passages_cnt_r' = 0 /\ frame_number_cnt_r' = 0

\* Mutant: the next point is asked for without waiting for the fall of its ready.
ThetaValidEager ==
  \/ cur_state_r = "IDLE" /\ theta_valid_r' = ticks_update_r
  \/ /\ cur_state_r = "EDGE_TICKS"
     /\ theta_valid_r' = (~tick_Valid_w /\ (edgeTicks_saved_r \/ theta_valid_r))
  \/ cur_state_r = "MEM_UPDATE" /\ theta_valid_r' = ~tick_Valid_w

ThetaValid ==
  \/ cur_state_r = "IDLE" /\ theta_valid_r' = ticks_update_r
  \/ /\ cur_state_r = "EDGE_TICKS"
     /\ theta_valid_r' = (~tick_Valid_w /\ (edgeTicks_saved_r \/ theta_valid_r))
  \/ /\ cur_state_r = "MEM_UPDATE"
     /\ theta_valid_r' = (~tick_Valid_w /\ (tick_notValid_w \/ theta_valid_r))

\* Mutant: the frames are not reversed when the mirror moves back.
ThetaDataForward ==
  \/ /\ cur_state_r = "IDLE" /\ theta_data_r' = TotalPoints - 1
     /\ UNCHANGED <<theta_aux0_r, theta_aux1_r, theta_ref_r>>
  \/ /\ cur_state_r = "EDGE_TICKS"
     /\ theta_data_r' = IF edgeTicks_saved_r THEN 0 ELSE theta_data_r
     /\ UNCHANGED <<theta_aux0_r, theta_aux1_r, theta_ref_r>>
  \/ /\ cur_state_r = "MEM_UPDATE"
     /\ theta_aux0_r' = line_points_cnt_r * ThetaStep
     /\ theta_aux1_r' = (passages_cnt_r \div 2) * FrameNumber
     /\ theta_ref_r' = frame_number_cnt_r
     /\ theta_data_r' = IF tick_notValid_w
                        THEN theta_ref_r + theta_aux0_r + theta_aux1_r ELSE theta_data_r

ThetaData ==
  \/ /\ cur_state_r = "IDLE" /\ theta_data_r' = TotalPoints - 1
     /\ UNCHANGED <<theta_aux0_r, theta_aux1_r, theta_ref_r>>
  \/ /\ cur_state_r = "EDGE_TICKS"
     /\ theta_data_r' = IF edgeTicks_saved_r THEN 0 ELSE theta_data_r
     /\ UNCHANGED <<theta_aux0_r, theta_aux1_r, theta_ref_r>>
  \/ /\ cur_state_r = "MEM_UPDATE"
     /\ theta_aux0_r' = line_points_cnt_r * ThetaStep
     /\ theta_aux1_r' = (passages_cnt_r \div 2) * FrameNumber
     /\ theta_ref_r' = IF mirror_reverse_w THEN FrameNumber - 1 - frame_number_cnt_r
                       ELSE frame_number_cnt_r
     /\ theta_data_r' = IF tick_notValid_w
                        THEN theta_ref_r + theta_aux0_r + theta_aux1_r ELSE theta_data_r
-----------------------------------------------------------------------------
\* Mutant: the way across the edge of the mirror's range is left out.
DelayTicksNoEdge == IF line_points_cnt_r > 0 THEN (tick_data_w - last_dt_Ticks_r) % TickMod
                    ELSE tick_data_w

\* The delay written: since the point before, across the edge of the mirror's
\* range at the start of a passage, since the edge for the first point.
DelayTicks == IF line_points_cnt_r > 0 THEN (tick_data_w - last_dt_Ticks_r) % TickMod
              ELSE IF passages_cnt_r > 0 THEN (tick_data_w + rem_cycle_w) % TickMod
              ELSE tick_data_w

WriteData ==
  \/ /\ cur_state_r = "MEM_UPDATE" /\ tick_Valid_w
     /\ wdata_r' = [ticks |-> DelayTicks, active |-> TRUE]
     /\ last_dt_Ticks_r' = tick_data_w
  \/ cur_state_r = "MEM_UPDATE" /\ ~tick_Valid_w /\ UNCHANGED <<wdata_r, last_dt_Ticks_r>>
  \/ cur_state_r # "MEM_UPDATE" /\ wdata_r' = Blank /\ last_dt_Ticks_r' = 0

WriteAddress ==
  \/ /\ cur_state_r = "MEM_UPDATE" /\ tick_notValid_w
     /\ waddr_r' = IF waddr_r < FrameColumns - 1 THEN (waddr_r + 1) % AddrMod ELSE 0
  \/ cur_state_r = "MEM_UPDATE" /\ ~tick_notValid_w /\ UNCHANGED waddr_r
  \/ cur_state_r # "MEM_UPDATE" /\ waddr_r' = 0

WriteEnable == /\ we_r' = (cur_state_r = "MEM_UPDATE" /\ tick_Valid_w)
               /\ mem_select_r' = frame_number_cnt_r

WritePort == \/ we_r /\ Write(update_mem_r, mem_select_r, waddr_r, wdata_r)
             \/ ~we_r /\ NoWrite

SyncClock == /\ SyncState /\ PhasesDone /\ MemorySwitch /\ EdgeTick
             /\ FrameIteration /\ ThetaValid /\ ThetaData
             /\ WriteData /\ WriteAddress /\ WriteEnable /\ WritePort
             /\ ChainClock(theta_valid_r, theta_data_r)
             /\ MM!Clock

\* The line FSM: one report, then at least MinLine cycles without one.
LineReports == \/ quiet < MinLine /\ quiet' = quiet + 1 /\ new_line_i' = FALSE
               \/ quiet = MinLine /\ new_line_i' = FALSE /\ UNCHANGED quiet
               \/ quiet = MinLine /\ new_line_i' = TRUE /\ quiet' = 0

SyncNext == SyncClock /\ LineReports

SyncSpec == SyncInit /\ [][SyncNext]_syncvars
=============================================================================
