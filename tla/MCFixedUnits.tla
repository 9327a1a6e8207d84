---------------------------- MODULE MCFixedUnits ----------------------------
(***************************************************************************)
(* A small instance of FixedUnits: every pair of operands for the first    *)
(* result, two negative ones after it; and FireTimes, the numbers that the *)
(* units compute in a row, at their real size: 1800 positions.             *)
(***************************************************************************)
EXTENDS FixedUnits, FireTimes

MCFirst == (0 .. 2^N - 1) \X (0 .. 2^N - 1)
MCNext == {<<2^N - 1, 2^(N-1) + 3>>}

\* A time is put out when every unit of the chain reports its result.
ChainReports == div_done_r /\ mul_ready_r /\ sqrt_done_r /\ sub_ready_r

\* Safety: when a point is due, the mirror is at its position of the whole range, at most a
\* sixteenth of a step beyond and less than half a step before, in spite of all that is cut
\* off on the way from the position to the tick (cordicManager.v:56-135, thetaCos.v:67-127,
\* thetaSin.v:40-67, arcTan.v:48-161).
TimesRight == ChainReports => EachAtItsPosition

\* Safety: later positions have later times, over both halves of the range and up to the
\* edge, which is reached after half a period: no delay of a table is negative
\* (cordicManager.v:62-64, arcTan.v:66-98, laserSynchronizer.v:290-298).
TimesIncrease == ChainReports => Increasing
=============================================================================
