---------------------------- MODULE MCLineShots ----------------------------
(***************************************************************************)
(* A small instance of LineShots: three points in a line, two memories.    *)
(* The delays are at least PulseLength + 1, as NoShotLost needs.           *)
(***************************************************************************)
EXTENDS LineShots

Word(ticks, active) == [ticks |-> ticks, active |-> active]

\* The points of a line differ in delay and in flag, and so do the banks; two
\* neighbours are active.
MCTables ==
  {[b \in Banks |-> [m \in Memories |-> [a \in Addresses |->
      Word(IF a = m THEN 2 ELSE 3, a # 2 * (1 - b))]]]}

MCWrites == {[selector |-> 0, addr |-> 0, data |-> Word(3, FALSE)]}
=============================================================================
