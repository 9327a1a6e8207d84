------------------------------ MODULE BankUse ------------------------------
(***************************************************************************)
(* How long a bank of fire times is really played.  MemoryManager counts   *)
(* lines in mem_cycles_cnt_r, a counter that the two banks share and that  *)
(* goes on counting while the bank FSM waits for the writer.  History      *)
(* variables record what the bank in front got:                            *)
(*   played   lines reported while it was in front (capped at PlayedMax)   *)
(*   carried  lines already on the counter when it came to front           *)
(***************************************************************************)
EXTENDS MemoryManager

CONSTANT PlayedMax

ASSUME PlayedAssumption == PlayedMax \in Nat /\ PlayedMax > MemCycles + 1

VARIABLES played, carried

buvars == <<mmvars, played, carried>>

Quota == MemCycles + 1

LineCount(n) == IF new_line_i /\ n < PlayedMax THEN n + 1 ELSE n

Init == MMInit /\ played = 0 /\ carried = 0

\* The line reported in the cycle of a swap was played from the old bank.
Swap == /\ front' # front
        /\ played' = 0
        /\ carried' = mem_cycles_cnt_r'

Stay == /\ front' = front
        /\ played' = LineCount(played)
        /\ UNCHANGED carried

Next == MMNext /\ (Swap \/ Stay)

Spec == Init /\ [][Next]_buvars

\* The clock never stops; nothing is assumed of the mirror or of the writer.
FairSpec == Spec /\ WF_buvars(Next)
-----------------------------------------------------------------------------
\* Type invariant, with the ranges that the registers really use: lines_cnt_r and
\* mem_grp_r never exceed the ports they are compared with (memoryManager.v:132-156).
TypeOK ==
  /\ new_line_i \in BOOLEAN /\ mem_updated_i \in BOOLEAN
  /\ mem_sel_cur_state_r \in Playing \cup Waiting
  /\ mem_cycles_cnt_r \in 0 .. CycleMod - 1
  /\ update_mem_r \in BOOLEAN
  /\ mem_grp_cur_state_r \in GroupStates
  /\ lines_cnt_r \in 0 .. LinesPerFrame
  /\ mem_grp_r \in 0 .. NumberOfFrames
  /\ played \in 0 .. PlayedMax
  /\ carried \in 0 .. CycleMod - 1

\* The quota pulse (counter above mem_cycles_i) lasts one cycle, in which no
\* line is reported; this is what keeps the counter from running past it.
CounterWithinQuota ==
  /\ mem_cycles_cnt_r <= Quota
  /\ mem_cycles_cnt_r = Quota => ~new_line_i

\* While a bank is playing, the shared counter is what it inherited plus the
\* lines it really played.
CounterCharges == mem_sel_cur_state_r \in Playing => mem_cycles_cnt_r = played + carried

\* A bank that waits for the writer had its quota charged.
WaitingIsCharged == mem_sel_cur_state_r \in Waiting => played + carried >= Quota

\* Safety invariant, with the conjuncts that make it inductive: the counter
\* charges a bank for what it inherited and what it played, never more than the
\* quota (memoryManager.v:88-98 against the states of lines 68-77).
QuotaInv == CounterWithinQuota /\ CounterCharges /\ WaitingIsCharged

\* Action property: a bank that came to front with an empty counter is played
\* for its whole quota of lines before the banks are swapped again
\* (memoryManager.v:68-98).
FullQuotaUnlessCarried ==
  [][front' # front /\ carried = 0 => LineCount(played) >= Quota]_buvars

\* Liveness: if lines keep being reported and the writer is done for good, each
\* bank comes to front again and again (memoryManager.v:68-98).
BanksAlternate ==
  []<>new_line_i /\ <>[]mem_updated_i => []<>(front = 0) /\ []<>(front = 1)

\* The order of the frames, see MemoryManager.
FrameOrder == ImplementsFrameSequence
=============================================================================
