---------------------------- MODULE TableUpdate ----------------------------
(***************************************************************************)
(* What an update of the tables achieves.  History variables:              *)
(*   missing   per bank, the cells not written since its update began      *)
(*   covered   pairs of a frame and a position of the mirror whose fire    *)
(*             time was computed                                           *)
(*   drained   no result was under way when the update began               *)
(*   edge_new  the edge tick was computed since the update began           *)
(***************************************************************************)
EXTENDS LaserSynchronizer

Software == INSTANCE FireSchedule

VARIABLES missing, covered, drained, edge_new

tuvars == <<syncvars, missing, covered, drained, edge_new>>

Frames == 0 .. FrameNumber - 1
Columns == 0 .. FrameColumns - 1
Cells == Frames \X Columns
Positions == 0 .. TotalPoints - 1

Begin == cur_state_r = "IDLE" /\ cur_state_r' = "EDGE_TICKS"
back_bank == BankWritten(update_mem_r)

\* Where the mirror is at iteration theta of a passage: it comes back from the far
\* edge in the odd passages.
PositionOf(theta, passage) == IF passage % 2 = 0 THEN theta ELSE TotalPoints - 1 - theta

Record ==
  /\ missing' = [missing EXCEPT ![back_bank] =
                   IF Begin THEN Cells
                   ELSE IF we_r THEN @ \ {<<mem_select_r, waddr_r>>} ELSE @]
  /\ covered' = IF Begin THEN {}
                ELSE IF cur_state_r = "MEM_UPDATE" /\ tick_Valid_w
                     THEN covered \cup {<<frame_number_cnt_r, PositionOf(back_unit.op, passages_cnt_r)>>}
                     ELSE covered
  /\ drained' = IF Begin THEN Drained ELSE drained
  /\ edge_new' = (~Begin /\ (edge_new \/ (cur_state_r = "EDGE_TICKS" /\ tick_Valid_w)))

Init == /\ SyncInit
        /\ missing = [b \in Banks |-> {}]
        /\ covered = {} /\ drained = FALSE /\ edge_new = FALSE

Next == SyncNext /\ Record

Spec == Init /\ [][Next]_tuvars

\* The clock never stops; nothing is assumed of the mirror.
FairSpec == Spec /\ WF_tuvars(Next)
-----------------------------------------------------------------------------
\* The step that ends an update; it is also the one that writes the last word.
End == cur_state_r = "MEM_UPDATE" /\ cur_state_r' = "IDLE"

\* Safety: the bank that is played never lacks a word: the banks are not swapped
\* between the start of an update and its last write, whatever the moment at
\* which lines end (laserSynchronizer.v:139-157, memoryManager.v:68-77).
FrontTableComplete == missing[BankRead(update_mem_r)] = {}

\* Action property: an update writes every word of every frame exactly once,
\* although the address, the frame and the enable come from counters stepped by
\* two different pulses (laserSynchronizer.v:181-217,309-328).
EachWordOnce ==
  [][/\ we_r => <<mem_select_r, waddr_r>> \in missing[back_bank]
     /\ End => missing'[back_bank] = {}]_tuvars

\* The time, from the first edge of the mirror's range, at which a point is due.
Passage(a) == a \div LinePoints
DueTime(f, a) ==
  LET j == Passage(a) \div 2
      from == IF Passage(a) % 2 = 0 THEN f ELSE FrameNumber - 1 - f
      theta == from + j * FrameNumber + (a % LinePoints) * ThetaStep
  IN  Passage(a) * TickOf[TotalPoints - 1] + TickOf[theta]

\* Point by point, the sum of what a row holds from its first point on.
Sums(row) == LET sum[a \in Columns] == IF a = 0 THEN row[0] ELSE sum[a - 1] + row[a]
             IN  sum
Row(bank, f) == [a \in Columns |-> bank[f][a].ticks]

AddsUp(bank) ==
  \A f \in Frames, a \in Columns : Sums(Row(bank, f))[a] % TickMod = DueTime(f, a) % TickMod

\* Action property: at the end of an update that began with the arithmetic chain
\* empty, the delays in the table add up, point by point, to the time at which
\* each point is due: nothing is lost at the edges between two passages
\* (laserSynchronizer.v:159-179,223-304).
DelaysAddUp == [][End /\ drained => AddsUp(table'[back_bank])]_tuvars

\* What the delays of the software for one frame, made from the fire times temp, are to
\* the table, given the frame of the table that they go with in forward and in backward
\* passages.
Agrees(bank, temp, forward, backward) ==
  LET delay == [a \in Columns |-> Software!dt_ticks(temp, a)]
      FrameAt(a) == IF Passage(a) % 2 = 0 THEN forward ELSE backward
      drift == TickOf[TotalPoints - 1] - temp[FrameColumns - 1]
  IN  \A a \in Columns :
        /\ delay[a] \in 0 .. TickMod - 1
        /\ a % LinePoints # 0 => delay[a] = bank[FrameAt(a)][a].ticks
        /\ (Sums(delay)[a] + Passage(a) * drift) % TickMod
             = Sums(Row(bank, FrameAt(a)))[a] % TickMod

AgreeWith(bank) ==
  /\ {Software!addr(a) : a \in Columns} = Columns
  /\ \A f \in Frames : Agrees(bank, Software!ReferenceTemp[f], f, FrameNumber - 1 - f)
  /\ \A f \in 0 .. FrameNumber - 2 :
       Agrees(bank, Software!MathTemp[f], f + 1, FrameNumber - 2 - f)

\* Action property: at the end of such an update the table is the one that the software
\* computes, though the one turns the frames round in backward passages and the other the
\* tables: point by point, the delays of cordic.cpp are those of the same frame, backwards
\* of the frame counted from the other end, and those of MathThread, which is one position
\* of the mirror late, those of the next frame and of the one before that. Over a line both
\* fall behind, with each passage, by what is between the frame's last point and the edge.
\* A delay never reaches into the next field of its word, and each column of a cloud's row
\* belongs to one point (MathThread.cpp:93-176, cordic.cpp:103-241,
\* laserSynchronizer.v:159-304).
SchedulesAgree == [][End /\ drained => AgreeWith(table'[back_bank])]_tuvars

\* Action property: at the end of such an update, the frames and passages together
\* have one point at every position of the mirror, and the frames alternate from
\* position to position whichever way the mirror moves (laserSynchronizer.v:223-272).
EveryPositionOnce ==
  [][End /\ drained => covered = {<<p % FrameNumber, p>> : p \in Positions}]_tuvars

\* Action property: what the arithmetic units need of the synchronizer: valid has
\* been low for two cycles when it rises, before and behind arcTan, and in an update
\* that began with the chain empty the operand does not change under a valid that is
\* up (laserSynchronizer.v:223-271,
\* new_fixed_mul.v:60-75).
UnitsRest ==
  [][/\ ~theta_valid_r /\ theta_valid_r' => front_unit = Off
     /\ delay_line[DrainDelay] = NoOperand /\ delay_line'[DrainDelay] # NoOperand => back_unit = Off
     /\ drained /\ theta_valid_r /\ theta_valid_r' => theta_data_r' = theta_data_r]_tuvars

\* Liveness: an update that has begun ends, and the banks may be swapped again:
\* the synchronizer and the arithmetic chain never wait for each other
\* (laserSynchronizer.v:98-113,223-246, cordicManager.v:66-78).
UpdateEnds == cur_state_r = "EDGE_TICKS" ~> cur_state_r = "IDLE" /\ mem_updated_r

\* Claim of laserSynchronizer.v:234, "trigger computation when previous state
\* done": when the points of an update are computed, its edge tick has been.
EdgeTickComputedFirst ==
  [][cur_state_r = "EDGE_TICKS" /\ cur_state_r' = "MEM_UPDATE" => edge_new]_tuvars
=============================================================================
