----------------------------- MODULE LineShots -----------------------------
(***************************************************************************)
(* What the line FSM fires.  History variables:                            *)
(*   fired     points triggered since the line started (at most            *)
(*             PointsPerLine + 2 are told apart)                           *)
(*   waited    cycles the point to come has spent in DELAY                 *)
(*   pixel_on  flag in the table of the point triggered last               *)
(***************************************************************************)
EXTENDS TimingCore

VARIABLES fired, waited, pixel_on

lsvars == <<tcvars, fired, waited, pixel_on>>

\* The table that the line in progress is fired from.
LineTable == table[BankRead(update_mem_r)][MemoryOf(mem_grp_r)]

Fire == cur_state_r = "DELAY" /\ cur_state_r' = "TRIGGER"

Record ==
  /\ \/ cur_state_r = "IDLE" /\ fired' = 0
     \/ Fire /\ fired' = IF fired <= PointsPerLine THEN fired + 1 ELSE PointsPerLine + 2
     \/ cur_state_r # "IDLE" /\ ~Fire /\ UNCHANGED fired
  /\ waited' = IF cur_state_r' = "DELAY" THEN waited + 1 ELSE 0
  /\ pixel_on' = IF Fire THEN LineTable[raddr_r].active ELSE pixel_on

Init == TCInit /\ fired = 0 /\ waited = 0 /\ pixel_on = FALSE

Next == TCNext /\ Record

Spec == Init /\ [][Next]_lsvars

\* The clock never stops; nothing is assumed of the mirror or of the writer.
FairSpec == Spec /\ WF_lsvars(Next)
-----------------------------------------------------------------------------
\* Safety: the points of a line are fired in the order of their addresses, from
\* address 0, and the line ends after exactly points_per_line_i + 1 of them
\* (timingCore.v:81-131,150-157).
WholeLine ==
  /\ cur_state_r \in {"IDLE", "WAIT"} => raddr_r = 0 /\ ~line_completed_r
  /\ cur_state_r = "DELAY" => raddr_r = fired
  /\ cur_state_r = "NEW_LINE" => fired = PointsPerLine + 1

\* Action property: a point is triggered exactly ticks + 2 cycles after the line
\* FSM began to wait for it, ticks being its own table entry, never that of the
\* point before (timingCore.v:124-129, through the block RAM's latency).
ShotAtItsTime == [][Fire => waited = LineTable[raddr_r].ticks + 2]_lsvars

\* Safety: when the trigger reaches the laser driver, the flag beside it is that
\* of the point triggered, although the address has moved on
\* (timingCore.v:150-164, memoryManager.v:207-211).
RightPixel == trigger_r => active_pixel_w = pixel_on

\* Action property: bank, frame and contents of the table do not change while
\* points of a line are read from it, whenever the writer writes and whenever the
\* banks are swapped (memoryManager.v:68-156, timestampMem.v:35-36).
TableStableInLine ==
  [][{cur_state_r, cur_state_r'} \subseteq {"DELAY", "TRIGGER"} => LineTable' = LineTable]_lsvars

\* Safety: if the entries of the table exceed the pulse length, no trigger for
\* an active point finds the laser driver busy with the pulse before, or its
\* counter not yet cleared: no shot is lost or cut to one cycle
\* (laserDriver.v:45-85).
NoShotLost ==
  /\ \A b \in Banks, m \in Memories, a \in Addresses : table[b][m][a].ticks > PulseLength
  /\ trigger_r /\ active_pixel_w
  => ld_state_r = "LASER_IDLE" /\ pulse_cnt_r < PulseLength

\* Implementation: the line FSM keeps the contract that MemoryManager is checked
\* and proved under, one report per line and never two in a row
\* (timingCore.v:143-148).
KeepsMemoryContract == MM!MMSpec

\* Liveness: as long as the mirror keeps crossing its centre, lines complete
\* (timingCore.v:81-100).
LinesComplete == []<>edge_r => []<>new_line_r
=============================================================================
