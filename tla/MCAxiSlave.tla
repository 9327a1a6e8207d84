----------------------------- MODULE MCAxiSlave -----------------------------
(***************************************************************************)
(* A small instance of AxiSlave: two words for one cell, one for another.  *)
(***************************************************************************)
EXTENDS AxiSlave

CONSTANTS c1, c2, w1, w2

MCPoints == {<<c1, w1>>, <<c1, w2>>, <<c2, w2>>}
=============================================================================
