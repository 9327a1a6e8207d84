--------------------------- MODULE MCTableUpdate ---------------------------
(***************************************************************************)
(* Small instances of TableUpdate.                                         *)
(***************************************************************************)
EXTENDS TableUpdate

MCInitialTable == [m \in Memories |-> [a \in Addresses |-> [ticks |-> 0, active |-> FALSE]]]

\* Increasing, and no two differences alike.
MCTickOf == [theta \in 0 .. TotalPoints - 1 |-> theta * theta + 1]
=============================================================================
