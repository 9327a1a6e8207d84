---------------------------- MODULE FireSchedule ----------------------------
(***************************************************************************)
(* The tables as MathThread.cpp computes them, and as the experiment       *)
(* cordic.cpp does: pure functions of the fire times of the positions of   *)
(* the mirror.  The loops over passages and points become functions of     *)
(* addr_aux, the place of a point in its line; the values of temp and      *)
(* temp_inv are functions of a frame and a column.                         *)
(***************************************************************************)
EXTENDS Integers, FiniteSetsExt

CONSTANTS
  FrameColumns, FrameNumber, LinePoints,   \* FRAME_COLUMNS, NUMBER_OF_FRAMES, POINTS_PER_LINE
  TickOf                                   \* acos of each position, in ticks

NUMBER_OF_PASSAGES == FrameColumns \div LinePoints
LastPosition == FrameColumns * FrameNumber - 1

\* MathThread steps to the next angle before it takes its arc cosine; past the edge the
\* real part of the arc cosine stays what it is at the edge.  cordic.cpp takes the arc
\* cosine first.
MathTemp == [f \in 0 .. FrameNumber - 1 |-> [c \in 0 .. FrameColumns - 1 |->
               TickOf[Min({c * FrameNumber + f + 1, LastPosition})]]]

ReferenceTemp == [f \in 0 .. FrameNumber - 1 |-> [c \in 0 .. FrameColumns - 1 |->
                    TickOf[c * FrameNumber + f]]]

\* Counters of the loops at a place.
passage(a) == a \div LinePoints
point(a) == a % LinePoints
order(a) == passage(a) % 2
iterator(a) == passage(a) \div 2

\* Mutant: the columns of a backward passage are those of the forward one.
addr_same(a) ==
  IF order(a) = 0 THEN point(a) * NUMBER_OF_PASSAGES + iterator(a)
  ELSE (LinePoints - 1 - point(a)) * NUMBER_OF_PASSAGES + iterator(a)

addr(a) ==
  IF order(a) = 0 THEN point(a) * NUMBER_OF_PASSAGES + iterator(a)
  ELSE (LinePoints - 1 - point(a)) * NUMBER_OF_PASSAGES + NUMBER_OF_PASSAGES - 1 - iterator(a)

prev_addr(a) == addr(a - 1)

\* The delay of the point at place a of a frame, given its fire times; temp_inv is temp
\* from the far edge, and the passage before went the other way.
dt_ticks(temp, a) ==
  LET inv(c) == temp[FrameColumns - 1 - c]
      time(c) == IF order(a) = 0 THEN temp[c] ELSE inv(c)
      timeBefore(c) == IF order(a) = 0 THEN inv(c) ELSE temp[c]
  IN  IF addr(a) = 0 THEN temp[0]
      ELSE IF point(a) = 0
           THEN temp[FrameColumns - 1] - timeBefore(prev_addr(a)) + time(addr(a))
           ELSE time(addr(a)) - time(prev_addr(a))
=============================================================================
