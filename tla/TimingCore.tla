----------------------------- MODULE TimingCore -----------------------------
(***************************************************************************)
(* hw/IPs/timingCore.v with the components it instantiates: the line FSM   *)
(* fires the points of a line at the delays that it reads from the table   *)
(* of the frame, the edge detector starts a line at a zero crossing of the *)
(* mirror, the laser driver makes a pulse of each trigger, and the memory  *)
(* manager chooses the table.  All of them step on one clock.              *)
(*                                                                         *)
(* Inputs: zc_i, the zero-crossing signal of the mirror, and the write     *)
(* port are read in one cycle only and are chosen in the step; the input   *)
(* mem_updated_i is a variable because MemoryManager has it as one.        *)
(***************************************************************************)
EXTENDS PointMemory

CONSTANTS
  PointsPerLine, LinesPerFrame, NumberOfFrames, MemCycles, PulseLength,
  QuarterDelay,                           \* ports, see timingCore.v:43-48
  CycleMod, LineMod, GroupMod, PulseMod,  \* widths of the counters
  InitialTables,                          \* contents of the memories after reset
  WriteSet                                \* writes the environment may make

ASSUME LineAssumption == PointsPerLine \in Nat /\ QuarterDelay \in 0 .. TickMod - 1
ASSUME WidthAssumption == /\ CycleMod \in Nat \ {0} /\ MemCycles \in 0 .. CycleMod - 1
                          /\ GroupMod \in Nat \ {0}
                          /\ PulseMod \in Nat /\ PulseLength \in 0 .. PulseMod - 1
ASSUME TableAssumption == InitialTables \subseteq [Banks -> [Memories -> [Addresses -> Words]]]
ASSUME WriteAssumption ==
  WriteSet \subseteq [selector : 0 .. GroupMod - 1, addr : Addresses, data : Words]

VARIABLES
  dout,   \* read pipelines of the block RAMs
  \* line FSM
  cur_state_r, wait_over_r, line_completed_r, fire_next_point_r,
  trigger_r, raddr_r, new_line_r, cnt_en_r, ticks_cnt_en_r,
  \* edge detector and counters
  signal_r, edge_r, cnt_r, ticks_cnt_r,
  \* laser driver
  ld_state_r, pulse_cnt_r, pulse_over_r, trigger_laser_r,
  \* memory manager
  mem_updated_i, mem_sel_cur_state_r, mem_cycles_cnt_r, update_mem_r,
  mem_grp_cur_state_r, lines_cnt_r, mem_grp_r

lineRegs == <<cur_state_r, wait_over_r, line_completed_r, fire_next_point_r,
              trigger_r, raddr_r, new_line_r, cnt_en_r, ticks_cnt_en_r>>
edgeRegs == <<signal_r, edge_r, cnt_r, ticks_cnt_r>>

pixel_w == Output(dout, update_mem_r, mem_grp_r)
timestamp_w == pixel_w.ticks
active_pixel_w == pixel_w.active

LD == INSTANCE LaserDriver WITH trigger_i <- trigger_r, active_pixel_i <- active_pixel_w
MM == INSTANCE MemoryManager WITH new_line_i <- new_line_r

tcvars == <<table, dout, lineRegs, edgeRegs, LD!ldRegs, mem_updated_i,
            MM!bankRegs, MM!groupRegs>>

Blank == [ticks |-> 0, active |-> FALSE]

TCInit ==
  /\ cur_state_r = "IDLE"
  /\ wait_over_r = FALSE /\ line_completed_r = FALSE /\ fire_next_point_r = FALSE
  /\ trigger_r = FALSE /\ raddr_r = 0 /\ new_line_r = FALSE
  /\ cnt_en_r = FALSE /\ ticks_cnt_en_r = FALSE
  /\ signal_r = <<FALSE, FALSE>> /\ edge_r = FALSE
  /\ cnt_r = 0 /\ ticks_cnt_r = 0
  /\ table \in InitialTables
  /\ dout = [b \in Banks |-> [m \in Memories |-> [s \in 1 .. ReadLatency |-> Blank]]]
  /\ LD!LDInit
  /\ MM!MMInit
-----------------------------------------------------------------------------
\* The line FSM.  A zero crossing is looked at in IDLE only.
LineState ==
  \/ cur_state_r = "IDLE" /\ ~edge_r /\ UNCHANGED cur_state_r
  \/ cur_state_r = "IDLE" /\ edge_r /\ cur_state_r' = "WAIT"
  \/ cur_state_r = "WAIT" /\ ~wait_over_r /\ UNCHANGED cur_state_r
  \/ cur_state_r = "WAIT" /\ wait_over_r /\ cur_state_r' = "DELAY"
  \/ cur_state_r = "DELAY" /\ ~fire_next_point_r /\ UNCHANGED cur_state_r
  \/ cur_state_r = "DELAY" /\ fire_next_point_r /\ cur_state_r' = "TRIGGER"
  \/ cur_state_r = "TRIGGER" /\ ~line_completed_r /\ cur_state_r' = "DELAY"
  \/ cur_state_r = "TRIGGER" /\ line_completed_r /\ cur_state_r' = "NEW_LINE"
  \/ cur_state_r = "NEW_LINE" /\ cur_state_r' = "IDLE"

WaitOver == wait_over_r' = (cur_state_r = "WAIT" /\ cnt_r >= QuarterDelay)

\* Mutant: the line is complete one point early.
LineCompletedEarly ==
  \/ /\ cur_state_r = "DELAY" /\ raddr_r + 1 >= PointsPerLine
     /\ line_completed_r' = TRUE
  \/ cur_state_r = "NEW_LINE" /\ line_completed_r' = FALSE
  \/ /\ cur_state_r # "NEW_LINE"
     /\ ~(cur_state_r = "DELAY" /\ raddr_r + 1 >= PointsPerLine)
     /\ UNCHANGED line_completed_r

LineCompleted ==
  \/ /\ cur_state_r = "DELAY" /\ raddr_r >= PointsPerLine
     /\ line_completed_r' = TRUE
  \/ cur_state_r = "NEW_LINE" /\ line_completed_r' = FALSE
  \/ /\ cur_state_r # "NEW_LINE"
     /\ ~(cur_state_r = "DELAY" /\ raddr_r >= PointsPerLine)
     /\ UNCHANGED line_completed_r

FireNextPoint == fire_next_point_r' = (cur_state_r = "DELAY" /\ ticks_cnt_r >= timestamp_w)

\* Mutant: the address starts over before the last point.
ReadAddressShort ==
  \/ cur_state_r' = "TRIGGER" /\ raddr_r + 1 < PointsPerLine /\ raddr_r' = (raddr_r + 1) % AddrMod
  \/ cur_state_r' = "TRIGGER" /\ raddr_r + 1 >= PointsPerLine /\ raddr_r' = 0
  \/ cur_state_r' # "TRIGGER" /\ UNCHANGED raddr_r

\* cur_state_r' is nxt_state_w: the address moves on as the point is triggered.
ReadAddress ==
  \/ cur_state_r' = "TRIGGER" /\ raddr_r < PointsPerLine /\ raddr_r' = (raddr_r + 1) % AddrMod
  \/ cur_state_r' = "TRIGGER" /\ raddr_r >= PointsPerLine /\ raddr_r' = 0
  \/ cur_state_r' # "TRIGGER" /\ UNCHANGED raddr_r

\* Mutant: the report is raised one cycle early and kept.
LineOutputsLong == /\ new_line_r' = ("NEW_LINE" \in {cur_state_r, cur_state_r'})
                   /\ trigger_r' = (cur_state_r = "TRIGGER")
                   /\ cnt_en_r' = (cur_state_r' = "WAIT")
                   /\ ticks_cnt_en_r' = (cur_state_r' = "DELAY")

LineOutputs == /\ new_line_r' = (cur_state_r = "NEW_LINE")
               /\ trigger_r' = (cur_state_r = "TRIGGER")
               /\ cnt_en_r' = (cur_state_r' = "WAIT")
               /\ ticks_cnt_en_r' = (cur_state_r' = "DELAY")

\* edgeDetector.v: an edge of either direction, two cycles after it is sampled.
EdgeDetector(zc_i) == /\ signal_r' = <<zc_i, signal_r[1]>>
                      /\ edge_r' = (signal_r[1] # signal_r[2])

\* Mutant: the counter does not start over.
CounterKeeps(cnt, en) == IF en THEN (cnt + 1) % TickMod ELSE cnt

\* counter.v
CounterNext(cnt, en) == IF en THEN (cnt + 1) % TickMod ELSE 0

Counters == /\ cnt_r' = CounterNext(cnt_r, cnt_en_r)
            /\ ticks_cnt_r' = CounterNext(ticks_cnt_r, ticks_cnt_en_r)

LineClock(zc_i) == /\ LineState /\ WaitOver /\ LineCompleted /\ FireNextPoint
                   /\ ReadAddress /\ LineOutputs
                   /\ EdgeDetector(zc_i) /\ Counters

\* The write port: at most one word in a cycle.
WritePort == \/ NoWrite
             \/ \E w \in WriteSet : Write(update_mem_r, w.selector, w.addr, w.data)

TCClock == /\ \E zc_i \in BOOLEAN : LineClock(zc_i)
           /\ WritePort /\ dout' = ReadAll(dout, raddr_r)
           /\ LD!LDClock
           /\ MM!Clock

TCNext == TCClock /\ mem_updated_i' \in BOOLEAN

TCSpec == TCInit /\ [][TCNext]_tcvars
=============================================================================
