--------------------------- MODULE MemoryManager ---------------------------
(***************************************************************************)
(* Control of hw/IPs/memoryManager.v.  Each frame has a table of fire      *)
(* times, kept twice: the line FSM reads bank 0 while the table is being   *)
(* recomputed into bank 1, or the reverse.  Two machines step on each      *)
(* clock edge: the bank FSM swaps the banks once mem_cycles_i + 1 lines    *)
(* have been counted and the writer says that the back bank is complete    *)
(* (mem_updated_i); the group FSM counts the lines of a frame and moves to *)
(* the next frame's table.  Reset is Init.                                 *)
(*                                                                         *)
(* A variable is a register of the Verilog; new_line_i and mem_updated_i   *)
(* are the input wires during the current cycle.  Clock has one conjunct   *)
(* per always block, its right-hand sides reading this cycle's values.     *)
(***************************************************************************)
EXTENDS Naturals

CONSTANTS
  MemCycles, LinesPerFrame, NumberOfFrames,  \* configuration ports, "count - 1"
  CycleMod, LineMod, GroupMod    \* 2^width of mem_cycles_cnt_r, lines_cnt_r, mem_grp_r

\* The ports are as wide as the counters they are compared with.
ASSUME PortAssumption ==
  /\ CycleMod \in Nat /\ MemCycles \in 0 .. CycleMod - 1
  /\ LineMod \in Nat /\ LinesPerFrame \in 0 .. LineMod - 1
  /\ GroupMod \in Nat /\ NumberOfFrames \in 0 .. GroupMod - 1

\* Both callers pass "count - 1" of a count that fits the port.
ASSUME QuotaAssumption == MemCycles + 1 < CycleMod

VARIABLES
  new_line_i, mem_updated_i,
  mem_sel_cur_state_r, mem_cycles_cnt_r, update_mem_r,
  mem_grp_cur_state_r, lines_cnt_r, mem_grp_r

bankRegs  == <<mem_sel_cur_state_r, mem_cycles_cnt_r, update_mem_r>>
groupRegs == <<mem_grp_cur_state_r, lines_cnt_r, mem_grp_r>>
mmvars    == <<new_line_i, mem_updated_i, bankRegs, groupRegs>>

Playing == {"MEM0", "MEM1"}
Waiting == {"WAIT_MEM0", "WAIT_MEM1"}
GroupStates == {"MEM_IDLE", "MEM_LINE_INC", "MEM_SWITCH"}

BankOf(state)  == IF state \in {"MEM0", "WAIT_MEM0"} THEN 0 ELSE 1

\* Mutant: a bank is followed by itself.
PlaySame(state) == IF BankOf(state) = 0 THEN "MEM0" ELSE "MEM1"

PlayOther(state) == IF BankOf(state) = 0 THEN "MEM1" ELSE "MEM0"
WaitFor(state) == IF BankOf(state) = 0 THEN "WAIT_MEM0" ELSE "WAIT_MEM1"

\* The bank the bank FSM plays; update_mem_r follows it one cycle later.
front == BankOf(mem_sel_cur_state_r)

\* Mutant: the quota is over one line early.
mem_ok_strict == mem_cycles_cnt_r < MemCycles

mem_ok_w == mem_cycles_cnt_r <= MemCycles
frame_completed_w == lines_cnt_r = LinesPerFrame

MMInit == /\ new_line_i = FALSE
          /\ mem_updated_i \in BOOLEAN
          /\ mem_sel_cur_state_r = "MEM0"
          /\ mem_cycles_cnt_r = 0
          /\ update_mem_r = TRUE
          /\ mem_grp_cur_state_r = "MEM_IDLE"
          /\ lines_cnt_r = 0
          /\ mem_grp_r = 0
-----------------------------------------------------------------------------
KeepPlaying == /\ mem_sel_cur_state_r \in Playing
               /\ mem_ok_w
               /\ UNCHANGED mem_sel_cur_state_r

StartWaiting == /\ mem_sel_cur_state_r \in Playing
                /\ ~mem_ok_w /\ ~mem_updated_i
                /\ mem_sel_cur_state_r' = WaitFor(mem_sel_cur_state_r)

SwapOnQuota == /\ mem_sel_cur_state_r \in Playing
               /\ ~mem_ok_w /\ mem_updated_i
               /\ mem_sel_cur_state_r' = PlayOther(mem_sel_cur_state_r)

KeepWaiting == /\ mem_sel_cur_state_r \in Waiting
               /\ ~new_line_i \/ ~mem_updated_i
               /\ UNCHANGED mem_sel_cur_state_r

SwapOnLine == /\ mem_sel_cur_state_r \in Waiting
              /\ new_line_i /\ mem_updated_i
              /\ mem_sel_cur_state_r' = PlayOther(mem_sel_cur_state_r)

BankSelection == \/ KeepPlaying \/ StartWaiting \/ SwapOnQuota
                 \/ KeepWaiting \/ SwapOnLine

\* Mutant: the counter is not cleared when the quota is over.
MemCyclesCntNotCleared ==
  \/ new_line_i /\ mem_cycles_cnt_r' = (mem_cycles_cnt_r + 1) % CycleMod
  \/ ~new_line_i /\ UNCHANGED mem_cycles_cnt_r

MemCyclesCnt ==
  \/ new_line_i /\ mem_cycles_cnt_r' = (mem_cycles_cnt_r + 1) % CycleMod
  \/ ~new_line_i /\ ~mem_ok_w /\ mem_cycles_cnt_r' = 0
  \/ ~new_line_i /\ mem_ok_w /\ UNCHANGED mem_cycles_cnt_r

UpdateMem == update_mem_r' = (mem_sel_cur_state_r \in {"MEM0", "WAIT_MEM0"})
-----------------------------------------------------------------------------
GroupState ==
  \/ /\ mem_grp_cur_state_r = "MEM_IDLE" /\ ~new_line_i
     /\ UNCHANGED mem_grp_cur_state_r
  \/ /\ mem_grp_cur_state_r = "MEM_IDLE" /\ new_line_i /\ ~frame_completed_w
     /\ mem_grp_cur_state_r' = "MEM_LINE_INC"
  \/ /\ mem_grp_cur_state_r = "MEM_IDLE" /\ new_line_i /\ frame_completed_w
     /\ mem_grp_cur_state_r' = "MEM_SWITCH"
  \/ /\ mem_grp_cur_state_r \in {"MEM_LINE_INC", "MEM_SWITCH"}
     /\ mem_grp_cur_state_r' = "MEM_IDLE"

\* Mutant: the line counter is not cleared when the frame is switched.
LinesCntNotCleared ==
  \/ /\ mem_grp_cur_state_r = "MEM_LINE_INC"
     /\ lines_cnt_r' = (lines_cnt_r + 1) % LineMod
  \/ mem_grp_cur_state_r # "MEM_LINE_INC" /\ UNCHANGED lines_cnt_r

LinesCnt ==
  \/ /\ mem_grp_cur_state_r = "MEM_LINE_INC"
     /\ lines_cnt_r' = (lines_cnt_r + 1) % LineMod
  \/ mem_grp_cur_state_r = "MEM_SWITCH" /\ lines_cnt_r' = 0
  \/ mem_grp_cur_state_r = "MEM_IDLE" /\ UNCHANGED lines_cnt_r

\* Mutant: one frame too many.
NextGroupOneMore == IF mem_grp_r <= NumberOfFrames THEN (mem_grp_r + 1) % GroupMod ELSE 0

NextGroup == IF mem_grp_r < NumberOfFrames THEN (mem_grp_r + 1) % GroupMod ELSE 0

MemGrp ==
  \/ mem_grp_cur_state_r = "MEM_SWITCH" /\ mem_grp_r' = NextGroup
  \/ mem_grp_cur_state_r # "MEM_SWITCH" /\ UNCHANGED mem_grp_r
-----------------------------------------------------------------------------
BankClock  == BankSelection /\ MemCyclesCnt /\ UpdateMem
GroupClock == GroupState /\ LinesCnt /\ MemGrp
Clock == BankClock /\ GroupClock

\* The line FSM raises new_line for one cycle at a time (TimingCore checks it);
\* the writer may raise or drop mem_updated in any cycle.
Inputs == /\ new_line_i' \in BOOLEAN
          /\ new_line_i => ~new_line_i'
          /\ mem_updated_i' \in BOOLEAN

MMNext == Clock /\ Inputs
MMSpec == MMInit /\ [][MMNext]_mmvars
-----------------------------------------------------------------------------
(* Refinement: between a line pulse and the cycle in which the group FSM    *)
(* has booked it, the line or the frame is already counted abstractly.      *)
lineBar == CASE mem_grp_cur_state_r = "MEM_IDLE"     -> lines_cnt_r
             [] mem_grp_cur_state_r = "MEM_LINE_INC" -> lines_cnt_r + 1
             [] mem_grp_cur_state_r = "MEM_SWITCH"   -> 0
frameBar == IF mem_grp_cur_state_r = "MEM_SWITCH" THEN NextGroup ELSE mem_grp_r

Frames == INSTANCE FrameSequence
            WITH pulse <- new_line_i, line <- lineBar, frame <- frameBar

\* Implementation: the group FSM implements FrameSequence, so that no line
\* reported by the line FSM is lost or counted twice while the FSM books the
\* previous one (memoryManager.v:117-156).
ImplementsFrameSequence == Frames!FrameSpec
=============================================================================
