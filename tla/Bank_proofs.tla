----------------------------- MODULE Bank_proofs ----------------------------
(***************************************************************************)
(* Proofs about the banks, for every value of the ports and every width of *)
(* the counters that PortAssumption and QuotaAssumption allow.             *)
(*                                                                         *)
(* First the bank and group control by itself (BankUse).  The inductive    *)
(* invariant has a part for the bank FSM (QuotaInv) and a part for the     *)
(* group FSM (GroupInv): the state of the group FSM remembers which of the *)
(* two comparisons it was entered with.                                    *)
(*                                                                         *)
(* Then MathThread as its writer (BankHandshake), for every speed of the   *)
(* thread: it never writes into the bank that is played.  The argument is  *)
(* one of two stages, since update_mem_r follows the bank FSM one cycle    *)
(* later: once mem_updated is withdrawn the FSM stays with its bank, and   *)
(* the cycles of the computation give update_mem_r the time to follow.     *)
(* And a bank comes to front with old times only if lines were carried     *)
(* over from a wait, for quotas longer than two polls: PollInv follows a   *)
(* swap through update_mem_r, the last poll and the last answer, and       *)
(* counts the lines that are played on the way.                            *)
(***************************************************************************)
EXTENDS BankHandshake, TLAPS

\* The group FSM books a line only if the frame had lines left, and switches the
\* frame only at the last line; no line is reported while it does so
\* (memoryManager.v:117-142).
GroupInv == /\ mem_grp_cur_state_r = "MEM_LINE_INC" => lines_cnt_r < LinesPerFrame
            /\ mem_grp_cur_state_r = "MEM_SWITCH" => lines_cnt_r = LinesPerFrame
            /\ mem_grp_cur_state_r # "MEM_IDLE" => ~new_line_i

IInv == TypeOK /\ QuotaInv /\ GroupInv

\* The initial state satisfies the inductive invariant.
LEMMA InitIInv == Init => IInv
<1> SUFFICES ASSUME Init PROVE IInv
  OBVIOUS
<1> USE DEF Init, MMInit
<1>1. TypeOK
  <2>1. /\ new_line_i \in BOOLEAN /\ mem_updated_i \in BOOLEAN /\ update_mem_r \in BOOLEAN
        /\ mem_sel_cur_state_r \in Playing \cup Waiting
        /\ mem_grp_cur_state_r \in GroupStates
    BY DEF Playing, Waiting, GroupStates
  <2>2. /\ 0 \in 0 .. CycleMod - 1 /\ 0 \in 0 .. LinesPerFrame
        /\ 0 \in 0 .. NumberOfFrames /\ 0 \in 0 .. PlayedMax
    BY PortAssumption, QuotaAssumption, PlayedAssumption
  <2> QED
    BY <2>1, <2>2 DEF TypeOK
<1>2. CounterWithinQuota
  BY PortAssumption DEF CounterWithinQuota, Quota
<1>3. CounterCharges /\ WaitingIsCharged
  BY DEF CounterCharges, WaitingIsCharged, Waiting
<1>4. GroupInv
  BY DEF GroupInv
<1> QED
  BY <1>1, <1>2, <1>3, <1>4 DEF IInv, QuotaInv

\* A clock edge keeps every register in its range (memoryManager.v:79-156).
LEMMA TypeStep == IInv /\ Next => TypeOK'
<1> SUFFICES ASSUME IInv, Next PROVE TypeOK'
  OBVIOUS
<1> USE PortAssumption, QuotaAssumption, PlayedAssumption
<1>1. /\ new_line_i' \in BOOLEAN /\ mem_updated_i' \in BOOLEAN
      /\ update_mem_r' \in BOOLEAN
  BY DEF Next, MMNext, Inputs, Clock, BankClock, UpdateMem
<1>2. mem_sel_cur_state_r' \in Playing \cup Waiting
  BY DEF Next, MMNext, Clock, BankClock, BankSelection, KeepPlaying, StartWaiting,
         SwapOnQuota, KeepWaiting, SwapOnLine, PlayOther, WaitFor, Playing, Waiting
<1>3. mem_cycles_cnt_r' \in 0 .. CycleMod - 1
  BY DEF Next, MMNext, Clock, BankClock, MemCyclesCnt, IInv, TypeOK
<1>4. mem_grp_cur_state_r' \in GroupStates
  BY DEF Next, MMNext, Clock, GroupClock, GroupState, GroupStates, IInv, TypeOK
<1>5. lines_cnt_r' \in 0 .. LinesPerFrame
  BY DEF Next, MMNext, Clock, GroupClock, LinesCnt, IInv, TypeOK, GroupInv
<1>6. mem_grp_r' \in 0 .. NumberOfFrames
  BY DEF Next, MMNext, Clock, GroupClock, MemGrp, NextGroup, IInv, TypeOK
<1>7. played' \in 0 .. PlayedMax
  BY DEF Next, Swap, Stay, LineCount, IInv, TypeOK
<1>8. carried' \in 0 .. CycleMod - 1
  BY <1>3 DEF Next, Swap, Stay, IInv, TypeOK
<1> QED
  BY <1>1, <1>2, <1>3, <1>4, <1>5, <1>6, <1>7, <1>8 DEF TypeOK

\* What the counter does in one clock edge, given that it stays within the quota:
\* the addition never wraps (memoryManager.v:88-98).
LEMMA CounterStep ==
  ASSUME IInv, Next
  PROVE  /\ new_line_i  => /\ mem_cycles_cnt_r' = mem_cycles_cnt_r + 1
                           /\ mem_cycles_cnt_r <= MemCycles
                           /\ ~new_line_i'
         /\ ~new_line_i => mem_cycles_cnt_r' = IF mem_ok_w THEN mem_cycles_cnt_r ELSE 0
  BY PortAssumption, QuotaAssumption
  DEF IInv, TypeOK, QuotaInv, CounterWithinQuota, Quota, mem_ok_w,
      Next, MMNext, Inputs, Clock, BankClock, MemCyclesCnt

\* The quota is never exceeded.
LEMMA WithinStep == IInv /\ Next => CounterWithinQuota'
<1> SUFFICES ASSUME IInv, Next PROVE CounterWithinQuota'
  OBVIOUS
<1>1. mem_cycles_cnt_r \in Nat /\ new_line_i \in BOOLEAN /\ MemCycles \in Nat
  BY PortAssumption DEF IInv, TypeOK
<1>2. CASE new_line_i
  BY <1>1, <1>2, CounterStep DEF CounterWithinQuota, Quota
<1>3. CASE ~new_line_i
  BY <1>1, <1>3, CounterStep DEF CounterWithinQuota, Quota, mem_ok_w
<1> QED
  BY <1>1, <1>2, <1>3

\* Charging: one step of the bank FSM at a time (memoryManager.v:68-86).
LEMMA ChargeStep == IInv /\ Next => CounterCharges' /\ WaitingIsCharged'
<1> SUFFICES ASSUME IInv, Next PROVE CounterCharges' /\ WaitingIsCharged'
  OBVIOUS
<1> USE DEF CounterCharges, WaitingIsCharged, Playing, Waiting
<1>1. /\ mem_cycles_cnt_r \in Nat /\ new_line_i \in BOOLEAN /\ MemCycles \in Nat
      /\ played \in Nat /\ carried \in Nat /\ PlayedMax \in Nat
      /\ PlayedMax > Quota /\ Quota = MemCycles + 1
  BY PortAssumption, PlayedAssumption DEF IInv, TypeOK, Quota
<1>2. BankSelection /\ (Swap \/ Stay)
  BY DEF Next, MMNext, Clock, BankClock
<1>3. CASE KeepPlaying
  <2>1. Stay
    BY <1>2, <1>3 DEF KeepPlaying, Swap, front
  <2>2. mem_cycles_cnt_r = played + carried /\ mem_cycles_cnt_r <= MemCycles
    BY <1>1, <1>3 DEF KeepPlaying, mem_ok_w, IInv, QuotaInv
  <2>3. mem_cycles_cnt_r' = played' + carried'
    BY <1>1, <2>1, <2>2, CounterStep DEF Stay, LineCount, mem_ok_w
  <2> QED
    BY <1>3, <2>3 DEF KeepPlaying
<1>4. CASE StartWaiting
  <2>1. Stay
    BY <1>2, <1>4 DEF StartWaiting, WaitFor, BankOf, Swap, front
  <2>2. played + carried >= Quota
    BY <1>1, <1>4 DEF StartWaiting, mem_ok_w, IInv, QuotaInv
  <2>3. played' + carried' >= Quota
    BY <1>1, <2>1, <2>2 DEF Stay, LineCount
  <2> QED
    BY <1>4, <2>3 DEF StartWaiting, WaitFor
<1>5. CASE SwapOnQuota
  <2>1. Swap
    BY <1>2, <1>5 DEF SwapOnQuota, PlayOther, BankOf, Stay, front
  <2> QED
    BY <1>1, <1>5, <2>1, CounterStep, TypeStep
    DEF Swap, SwapOnQuota, PlayOther, TypeOK
<1>6. CASE KeepWaiting
  <2>1. Stay
    BY <1>2, <1>6 DEF KeepWaiting, Swap, front
  <2>2. played + carried >= Quota
    BY <1>6 DEF KeepWaiting, IInv, QuotaInv
  <2>3. played' + carried' >= Quota
    BY <1>1, <2>1, <2>2 DEF Stay, LineCount
  <2> QED
    BY <1>6, <2>3 DEF KeepWaiting
<1>7. CASE SwapOnLine
  <2>1. Swap
    BY <1>2, <1>7 DEF SwapOnLine, PlayOther, BankOf, Stay, front
  <2> QED
    BY <1>1, <1>7, <2>1, CounterStep, TypeStep
    DEF Swap, SwapOnLine, PlayOther, TypeOK
<1> QED
  BY <1>2, <1>3, <1>4, <1>5, <1>6, <1>7 DEF BankSelection

\* The group FSM books what it saw (memoryManager.v:117-142).
LEMMA GroupStep == IInv /\ Next => GroupInv'
  BY PortAssumption
  DEF IInv, TypeOK, GroupInv, GroupStates, Next, MMNext, Clock, GroupClock,
      GroupState, LinesCnt, frame_completed_w, Inputs

\* The invariant is inductive.
LEMMA IInvStep == IInv /\ [Next]_buvars => IInv'
<1>1. ASSUME IInv, Next PROVE IInv'
  BY <1>1, TypeStep, WithinStep, ChargeStep, GroupStep DEF IInv, QuotaInv
<1>2. ASSUME IInv, UNCHANGED buvars PROVE IInv'
  BY <1>2
  DEF buvars, mmvars, bankRegs, groupRegs, IInv, TypeOK, QuotaInv,
      CounterWithinQuota, CounterCharges, WaitingIsCharged, GroupInv
<1> QED
  BY <1>1, <1>2

\* The inductive invariant holds in every reachable state of the bank and group
\* control (memoryManager.v:67-158).
THEOREM Invariance == Spec => []IInv
  BY InitIInv, IInvStep, PTL DEF Spec

\* Type correctness: for every configuration, the counters stay within the ports
\* they are compared with (memoryManager.v:79-156).
THEOREM TypeCorrect == Spec => []TypeOK
<1>1. IInv => TypeOK
  BY DEF IInv
<1> QED
  BY <1>1, Invariance, PTL

\* For every configuration, a playing bank is charged exactly the lines it
\* inherited and the lines it played, and never more than its quota
\* (memoryManager.v:68-98).
THEOREM QuotaCharged == Spec => []QuotaInv
<1>1. IInv => QuotaInv
  BY DEF IInv
<1> QED
  BY <1>1, Invariance, PTL

\* A swap ends a full quota of the bank in front, unless that bank inherited lines
\* (memoryManager.v:68-98).
LEMMA QuotaAtSwap ==
  ASSUME IInv, Next, front' # front, carried = 0
  PROVE  LineCount(played) >= Quota
<1> USE DEF Playing, Waiting
<1>1. /\ mem_cycles_cnt_r \in Nat /\ MemCycles \in Nat /\ Quota = MemCycles + 1
      /\ played \in Nat /\ PlayedMax \in Nat
  BY PortAssumption, PlayedAssumption DEF IInv, TypeOK, Quota
<1>2. SwapOnQuota \/ SwapOnLine
  BY DEF Next, MMNext, Clock, BankClock, BankSelection, KeepPlaying, StartWaiting,
         KeepWaiting, WaitFor, BankOf, front
<1>3. played >= Quota
  <2>1. CASE SwapOnQuota
    BY <1>1, <2>1 DEF SwapOnQuota, mem_ok_w, IInv, QuotaInv, CounterCharges
  <2>2. CASE SwapOnLine
    BY <1>1, <2>2 DEF SwapOnLine, IInv, QuotaInv, WaitingIsCharged
  <2> QED
    BY <1>2, <2>1, <2>2
<1> QED
  BY <1>1, <1>3 DEF LineCount

\* For every configuration, a bank that came to front with an empty counter is
\* played for its whole quota before the next swap (memoryManager.v:68-98).
THEOREM FullQuota == Spec => FullQuotaUnlessCarried
<1>1. IInv /\ [Next]_buvars => [front' # front /\ carried = 0 => LineCount(played) >= Quota]_buvars
  BY QuotaAtSwap
<1> QED
  BY <1>1, Invariance, PTL DEF Spec, FullQuotaUnlessCarried

\* A step of the group FSM is a step of FrameSequence: the line counts at its
\* report, the cycles that book it stutter (memoryManager.v:117-156).
LEMMA FrameStep == IInv /\ Next => [Frames!FrameNext]_Frames!fvars
<1> SUFFICES ASSUME IInv, Next PROVE Frames!FrameNext
  OBVIOUS
<1> USE DEF lineBar, frameBar
<1>1. /\ lines_cnt_r \in 0 .. LinesPerFrame /\ mem_grp_r \in 0 .. NumberOfFrames
      /\ LinesPerFrame \in Nat /\ NumberOfFrames \in Nat /\ LineMod \in Nat
      /\ GroupMod \in Nat /\ LinesPerFrame < LineMod /\ NumberOfFrames < GroupMod
      /\ mem_grp_cur_state_r \in GroupStates
  BY PortAssumption DEF IInv, TypeOK
<1>2. new_line_i' \in BOOLEAN
  BY DEF Next, MMNext, Inputs
<1>3. GroupState /\ LinesCnt /\ MemGrp
  BY DEF Next, MMNext, Clock, GroupClock
<1>4. NextGroup = IF mem_grp_r < NumberOfFrames THEN mem_grp_r + 1 ELSE 0
  BY <1>1 DEF NextGroup
<1>5. CASE mem_grp_cur_state_r = "MEM_IDLE" /\ ~new_line_i
  <2>1. /\ mem_grp_cur_state_r' = "MEM_IDLE"
        /\ lines_cnt_r' = lines_cnt_r /\ mem_grp_r' = mem_grp_r
    BY <1>3, <1>5 DEF GroupState, LinesCnt, MemGrp
  <2>2. lineBar' = lineBar /\ frameBar' = frameBar
    BY <1>5, <2>1
  <2> QED
    BY <1>2, <1>5, <2>2 DEF Frames!FrameNext, Frames!NoLine
<1>6. CASE mem_grp_cur_state_r = "MEM_IDLE" /\ new_line_i /\ ~frame_completed_w
  <2>1. /\ mem_grp_cur_state_r' = "MEM_LINE_INC"
        /\ lines_cnt_r' = lines_cnt_r /\ mem_grp_r' = mem_grp_r
    BY <1>3, <1>6 DEF GroupState, LinesCnt, MemGrp
  <2>2. /\ lineBar = lines_cnt_r /\ lineBar' = lines_cnt_r + 1
        /\ frameBar' = frameBar /\ lines_cnt_r < LinesPerFrame
    BY <1>1, <1>6, <2>1 DEF frame_completed_w
  <2> QED
    BY <1>2, <1>6, <2>2 DEF Frames!FrameNext, Frames!NextLine
<1>7. CASE mem_grp_cur_state_r = "MEM_IDLE" /\ new_line_i /\ frame_completed_w
  <2>1. /\ mem_grp_cur_state_r' = "MEM_SWITCH"
        /\ lines_cnt_r' = lines_cnt_r /\ mem_grp_r' = mem_grp_r
    BY <1>3, <1>7 DEF GroupState, LinesCnt, MemGrp
  <2>2. NextGroup' = NextGroup
    BY <2>1 DEF NextGroup
  <2>3. /\ lineBar = LinesPerFrame /\ lineBar' = 0
        /\ frameBar = mem_grp_r /\ frameBar' = NextGroup
    BY <1>7, <2>1, <2>2 DEF frame_completed_w
  <2> QED
    BY <1>2, <1>4, <1>7, <2>3 DEF Frames!FrameNext, Frames!NextFrame
<1>8. CASE mem_grp_cur_state_r = "MEM_LINE_INC"
  <2>1. /\ mem_grp_cur_state_r' = "MEM_IDLE"
        /\ lines_cnt_r' = lines_cnt_r + 1 /\ mem_grp_r' = mem_grp_r
    BY <1>1, <1>3, <1>8 DEF GroupState, LinesCnt, MemGrp, IInv, GroupInv
  <2>2. lineBar' = lineBar /\ frameBar' = frameBar
    BY <1>8, <2>1
  <2> QED
    BY <1>2, <1>8, <2>2 DEF IInv, GroupInv, Frames!FrameNext, Frames!NoLine
<1>9. CASE mem_grp_cur_state_r = "MEM_SWITCH"
  <2>1. /\ mem_grp_cur_state_r' = "MEM_IDLE"
        /\ lines_cnt_r' = 0 /\ mem_grp_r' = NextGroup
    BY <1>3, <1>9 DEF GroupState, LinesCnt, MemGrp
  <2>2. lineBar' = lineBar /\ frameBar' = frameBar
    BY <1>9, <2>1
  <2> QED
    BY <1>2, <1>9, <2>2 DEF IInv, GroupInv, Frames!FrameNext, Frames!NoLine
<1> QED
  BY <1>1, <1>5, <1>6, <1>7, <1>8, <1>9 DEF GroupStates

\* The reset state maps to the first line of the first frame.
LEMMA FrameStart == Init => Frames!FrameInit
  BY DEF Init, MMInit, Frames!FrameInit, lineBar, frameBar

\* The mapped state depends on the registers only.
LEMMA FrameStutter == UNCHANGED buvars => UNCHANGED Frames!fvars
  BY DEF buvars, mmvars, groupRegs, bankRegs, Frames!fvars, lineBar, frameBar, NextGroup

\* For every configuration, the group selection implements FrameSequence: every
\* reported line counts once, and the frames follow each other in order, each for
\* its number of lines (memoryManager.v:117-156).
THEOREM FramesInOrder == Spec => FrameOrder
<1>1. IInv /\ [Next]_buvars => [Frames!FrameNext]_Frames!fvars
  BY FrameStep, FrameStutter
<1> QED
  BY <1>1, FrameStart, Invariance, PTL
  DEF Spec, FrameOrder, ImplementsFrameSequence, Frames!FrameSpec
-----------------------------------------------------------------------------

MathStates == {"start", "sleep", "enable", "disable", "compute", "write"}

\* The inductive invariant: mem_updated is withdrawn while tables are computed and
\* written, and while they are written update_mem_r shows the bank in front
\* (MathThread.cpp:78-176, memoryManager.v:101-111).
WriterInv ==
  /\ mem_sel_cur_state_r \in Playing \cup Waiting
  /\ math_pc \in MathStates
  /\ math_pc \in {"compute", "write"} => ~mem_updated_i
  /\ math_pc = "write" => update_mem_r = (front = 0)

\* It holds when the thread begins.
LEMMA WriterInit == HandshakeInit => WriterInv
BY DEF HandshakeInit, Init, MMInit, WriterInv, MathStates, Playing

\* While mem_updated is withdrawn, the bank FSM plays or waits for the bank that is in
\* front (memoryManager.v:68-77).
LEMMA NoSwapWithoutWriter ==
  ASSUME mem_sel_cur_state_r \in Playing \cup Waiting, ~mem_updated_i, BankSelection
  PROVE  front' = front
<1>1. CASE KeepPlaying \/ KeepWaiting
  BY <1>1 DEF KeepPlaying, KeepWaiting, front
<1>2. CASE StartWaiting
  BY <1>2 DEF StartWaiting, WaitFor, Playing, front, BankOf
<1>3. CASE SwapOnQuota \/ SwapOnLine
  BY <1>3 DEF SwapOnQuota, SwapOnLine
<1> QED
  BY <1>1, <1>2, <1>3 DEF BankSelection

\* The bank FSM keeps to its states (memoryManager.v:68-86).
LEMMA BankStates == BankSelection => mem_sel_cur_state_r' \in Playing \cup Waiting
BY DEF BankSelection, KeepPlaying, StartWaiting, SwapOnQuota, KeepWaiting, SwapOnLine,
       PlayOther, WaitFor, Playing, Waiting

\* Every cycle keeps the invariant.
LEMMA WriterStep == WriterInv /\ [HandshakeNext]_bhvars => WriterInv'
<1> SUFFICES ASSUME WriterInv, [HandshakeNext]_bhvars PROVE WriterInv'
  OBVIOUS
<1>1. CASE UNCHANGED bhvars
  BY <1>1 DEF WriterInv, bhvars, buvars, mmvars, bankRegs, mathVars, front
<1>2. CASE HandshakeNext
  <2>1. BankSelection /\ UpdateMem /\ (MathStep \/ MathPause)
    BY <1>2 DEF HandshakeNext, Clock, BankClock
  <2>2. mem_sel_cur_state_r' \in Playing \cup Waiting
    BY <2>1, BankStates
  <2>3. math_pc' \in MathStates
    BY <2>1 DEF MathStep, MathPause, MathPoll, MathEnable, MathDisable, MathCompute,
                MathWrite, mathVars, WriterInv, MathStates
  <2>4. math_pc' \in {"compute", "write"} => ~mem_updated_i'
    BY <2>1 DEF MathStep, MathPause, MathPoll, MathEnable, MathDisable, MathCompute,
                MathWrite, TimingCore_Memory_Disable, mathVars, WriterInv
  <2>5. ASSUME math_pc' = "write" PROVE update_mem_r' = (front' = 0)
    <3>1. math_pc \in {"compute", "write"}
      BY <2>1, <2>5 DEF MathStep, MathPause, MathPoll, MathEnable, MathDisable,
                        MathCompute, MathWrite, mathVars
    <3>2. front' = front
      BY <2>1, <3>1, NoSwapWithoutWriter DEF WriterInv
    <3>3. update_mem_r' = (front = 0)
      BY <2>1 DEF UpdateMem, WriterInv, front, BankOf, Playing, Waiting
    <3> QED
      BY <3>2, <3>3
  <2> QED
    BY <2>2, <2>3, <2>4, <2>5 DEF WriterInv
<1> QED
  BY <1>1, <1>2

\* The invariant holds in every reachable state, however fast or slow the thread is.
THEOREM WriterInvariance == HandshakeSpec => []WriterInv
BY WriterInit, WriterStep, PTL DEF HandshakeSpec

\* No word of a new table goes to the bank that is played, and the banks do not
\* change places under a table that is being written (MathThread.cpp:73-184,
\* memoryManager.v:68-111).
THEOREM BackBankWritten == HandshakeSpec => WritesBackBank
<1>1. ASSUME WriterInv, [HandshakeNext]_bhvars, math_pc = "write"
      PROVE  BankWritten # front /\ front' = front
  <2>1. BankWritten # front
    <3>1. update_mem_r = (front = 0)
      BY <1>1 DEF WriterInv
    <3>2. CASE front = 0
      BY <3>1, <3>2, 0 # 1 DEF BankWritten
    <3>3. CASE front # 0
      BY <3>1, <3>3 DEF BankWritten
    <3> QED
      BY <3>2, <3>3
  <2>2. CASE UNCHANGED bhvars
    BY <2>1, <2>2 DEF bhvars, buvars, mmvars, bankRegs, front
  <2>3. CASE HandshakeNext
    <3>1. BankSelection /\ ~mem_updated_i
      BY <1>1, <2>3 DEF HandshakeNext, Clock, BankClock, WriterInv
    <3> QED
      BY <1>1, <2>1, <3>1, NoSwapWithoutWriter DEF WriterInv
  <2> QED
    BY <1>1, <2>2, <2>3
<1>2. WriterInv /\ [HandshakeNext]_bhvars => [math_pc = "write" => BankWritten # front /\ front' = front]_bhvars
  BY <1>1
<1> QED
  BY <1>2, WriterInvariance, PTL DEF HandshakeSpec, WritesBackBank
-----------------------------------------------------------------------------
(* The banks that come to front with a table that was played before.  The   *)
(* swap that the thread has to answer is seen through three copies of the   *)
(* bank in front: update_mem_r, the last poll (newcycle) and the last       *)
(* answer (precycle).                                                       *)
back == 1 - front
Settled == update_mem_r <=> front = 0
Seen    == newcycle <=> front = 0
Known   == precycle <=> front = 0

\* The lines of the bank in front, with the one being reported.
PlayedNow == IF new_line_i THEN played + 1 ELSE played

\* The thread has not answered the swap that brought a new table to front.
Pending == fresh[front] /\ ~fresh[back] /\ carried = 0

Polling == {"sleep", "enable", "disable"}

\* The variables of the thread have their types, and the thread remembers a change
\* from the poll that saw it until it takes mem_updated back (MathThread.cpp:59-79).
ThreadOK ==
  /\ newcycle \in BOOLEAN /\ precycle \in BOOLEAN /\ mem_updated_i \in BOOLEAN
  /\ fresh \in [0 .. 1 -> BOOLEAN] /\ lag \in Nat
  /\ math_pc \in {"start", "sleep", "compute", "write"} => newcycle = precycle
  /\ math_pc = "disable" => newcycle # precycle
  /\ math_pc = "start" => ~mem_updated_i

\* Until the first Memory_Enable after an update, the new table waits in the back bank
\* and the copies agree with the bank in front (MathThread.cpp:176-187).
NewInBack ==
  ~mem_updated_i /\ math_pc \in {"start", "sleep", "enable"} =>
     fresh[back] /\ Settled /\ (math_pc = "enable" => Seen)

\* If the last answer is not about the bank in front, the back bank was played since
\* (MathThread.cpp:59-79).
MissedIsPlayed ==
  mem_updated_i /\ math_pc \in {"sleep", "enable"} /\ newcycle = precycle /\ ~Known =>
     ~fresh[back]

\* A pending swap is answered within two polls (MathThread.cpp:57-79).
AnswerNear ==
  Pending /\ math_pc \in Polling =>
     /\ ~(Seen /\ Known)
     /\ Seen => PlayedNow <= PollLines + 1 + lag
     /\ ~Seen => PlayedNow <= lag + 1

LagBounded == math_pc \in Polling => lag <= PollLines

\* In the cycle in which update_mem_r is behind, the bank has just come to front
\* (memoryManager.v:101-111).
UnsettledIsNew == ~Settled => played = 0 /\ ~fresh[back]

PollInv == /\ WriterInv /\ IInv
           /\ ThreadOK /\ NewInBack /\ MissedIsPlayed /\ AnswerNear
           /\ LagBounded /\ UnsettledIsNew

\* A cycle of the handshake is a cycle of BankUse (MathThread.cpp:59-184 as the writer
\* of memoryManager.v:68-98).
LEMMA HandshakeIsUse == ThreadOK /\ HandshakeNext => Next
<1> SUFFICES ASSUME ThreadOK, HandshakeNext PROVE Next
  OBVIOUS
<1>1. new_line_i' \in BOOLEAN /\ (new_line_i => ~new_line_i')
  BY DEF HandshakeNext, Lines
<1>2. mem_updated_i' \in BOOLEAN
  BY DEF HandshakeNext, MathStep, MathPause, MathPoll, MathEnable, MathDisable,
         MathCompute, MathWrite, TimingCore_Memory_Enable, TimingCore_Memory_Disable,
         ThreadOK
<1> QED
  BY <1>1, <1>2 DEF HandshakeNext, Next, MMNext, Inputs

\* Between two cycles update_mem_r shows the bank that was in front, and the lines of
\* the bank in front go on from what it had, or from nothing
\* (memoryManager.v:88-111).
LEMMA FrontStep ==
  ASSUME PollInv, HandshakeNext
  PROVE  /\ front \in 0 .. 1 /\ front' \in 0 .. 1 /\ played \in Nat /\ played' \in Nat
         /\ carried \in Nat /\ carried' \in Nat
         /\ new_line_i \in BOOLEAN /\ new_line_i' \in BOOLEAN
         /\ update_mem_r' <=> front = 0
         /\ front' = front => played' <= PlayedNow /\ carried' = carried
         /\ front' # front => played' = 0
<1>1. Next /\ IInv /\ IInv'
  BY HandshakeIsUse, IInvStep DEF PollInv
<1>2. front \in 0 .. 1 /\ front' \in 0 .. 1
  BY DEF front, BankOf
<1>3. /\ played \in Nat /\ carried \in Nat /\ played' \in Nat /\ carried' \in Nat
      /\ new_line_i \in BOOLEAN /\ new_line_i' \in BOOLEAN
  BY <1>1, PlayedAssumption, QuotaAssumption DEF IInv, TypeOK
<1>4. update_mem_r' <=> front = 0
  <2>1. update_mem_r' = (mem_sel_cur_state_r \in {"MEM0", "WAIT_MEM0"})
    BY <1>1 DEF Next, MMNext, Clock, BankClock, UpdateMem
  <2>2. front = 0 <=> mem_sel_cur_state_r \in {"MEM0", "WAIT_MEM0"}
    BY DEF front, BankOf
  <2> QED
    BY <2>1, <2>2
<1>5. ASSUME front' = front PROVE played' <= PlayedNow /\ carried' = carried
  BY <1>1, <1>3, <1>5 DEF Next, Swap, Stay, LineCount, PlayedNow
<1>6. ASSUME front' # front PROVE played' = 0
  BY <1>1, <1>6 DEF Next, Swap, Stay
<1> QED
  BY <1>2, <1>3, <1>4, <1>5, <1>6

\* The banks change places only while mem_updated is up, and then the thread polls
\* (MathThread.cpp:57-79, memoryManager.v:68-77).
LEMMA SwapWhilePolling ==
  ASSUME PollInv, HandshakeNext, front' # front
  PROVE  mem_updated_i /\ math_pc \in Polling
<1>1. BankSelection /\ mem_sel_cur_state_r \in Playing \cup Waiting
  BY DEF HandshakeNext, Clock, BankClock, PollInv, WriterInv
<1>2. mem_updated_i
  BY <1>1, NoSwapWithoutWriter
<1> QED
  BY <1>2 DEF PollInv, WriterInv, ThreadOK, MathStates, Polling

\* The thread is too near for a swap to come while the last one is pending
\* (MathThread.cpp:57-79, memoryManager.v:88-98).
LEMMA NoSwapPending ==
  ASSUME PollInv, HandshakeNext, front' # front
  PROVE  ~Pending
<1> SUFFICES ASSUME Pending PROVE FALSE
  OBVIOUS
<1>1. math_pc \in Polling /\ Next
  BY SwapWhilePolling, HandshakeIsUse DEF PollInv
<1>2. LineCount(played) >= Quota
  BY <1>1, QuotaAtSwap DEF PollInv, Pending
<1>3. played \in Nat /\ lag \in Nat /\ lag <= PollLines /\ PollLines \in Nat
  BY <1>1, FrontStep, SpeedAssumption DEF PollInv, ThreadOK, LagBounded
<1>4. PlayedNow <= PollLines + 1 + lag
  BY <1>1, <1>3 DEF PollInv, AnswerNear, PlayedNow
<1>5. LineCount(played) <= PlayedNow
  BY <1>3 DEF LineCount, PlayedNow
<1>6. PlayedNow \in Nat /\ LineCount(played) \in Nat
  BY <1>3 DEF LineCount, PlayedNow
<1> QED
  BY <1>2, <1>3, <1>4, <1>5, <1>6, SpeedAssumption, PortAssumption DEF Quota

\* What a cycle does to the record of new tables: a swap ends the table that was in
\* front, and the last table of an update makes the back bank new.
LEMMA FreshStep ==
  ASSUME PollInv, HandshakeNext
  PROVE  /\ fresh' \in [0 .. 1 -> BOOLEAN]
         /\ front' # front => (fresh'[front'] <=> fresh[back]) /\ ~fresh'[back']
         /\ front' = front /\ math_pc # "write" => fresh' = fresh
         /\ front' = front => (fresh[back] => fresh'[back'])
         /\ math_pc = "write" /\ math_pc' = "sleep" => front' = front /\ fresh'[back']
<1>1. front \in 0 .. 1 /\ front' \in 0 .. 1
  BY FrontStep
<1>2. fresh \in [0 .. 1 -> BOOLEAN]
  BY DEF PollInv, ThreadOK
<1>3. fresh' = [b \in 0 .. 1 |->
                  IF front' # front THEN fresh[b] /\ b # front
                  ELSE fresh[b] \/ (MathWrite /\ LastTable /\ b = BankWritten)]
  BY DEF HandshakeNext, Freshness
<1>4. fresh' \in [0 .. 1 -> BOOLEAN]
  BY <1>2, <1>3
<1>5. ASSUME front' # front PROVE (fresh'[front'] <=> fresh[back]) /\ ~fresh'[back']
  <2>1. front' = back /\ back' = front /\ back # front /\ back \in 0 .. 1
    <3>1. back = 1 - front /\ back' = 1 - front'
      BY DEF back
    <3>2. (front = 0 /\ front' = 1) \/ (front = 1 /\ front' = 0)
      BY <1>1, <1>5
    <3> QED
      BY <3>1, <3>2
  <2>2. \A b \in 0 .. 1 : fresh'[b] <=> fresh[b] /\ b # front
    BY <1>2, <1>3, <1>5
  <2> QED
    BY <1>1, <2>1, <2>2
<1>6. ASSUME front' = front, math_pc # "write" PROVE fresh' = fresh
  <2>1. ~MathWrite
    BY <1>6 DEF MathWrite
  <2>2. \A b \in 0 .. 1 : fresh'[b] = fresh[b]
    BY <1>2, <1>3, <1>6, <2>1
  <2> QED
    BY <1>2, <1>4, <2>2
<1>7. ASSUME front' = front, fresh[back] PROVE fresh'[back']
  BY <1>1, <1>2, <1>3, <1>7 DEF back
<1>8. ASSUME math_pc = "write", math_pc' = "sleep" PROVE front' = front /\ fresh'[back']
  <2>1. MathWrite /\ LastTable
    BY <1>8 DEF HandshakeNext, MathStep, MathPause, MathPoll, MathEnable, MathDisable,
                MathCompute, MathWrite, mathVars
  <2>2. ~mem_updated_i /\ (update_mem_r <=> front = 0)
    BY <1>8 DEF PollInv, WriterInv
  <2>3. front' = front
    BY <2>2, SwapWhilePolling
  <2>4. back' = BankWritten /\ back' \in 0 .. 1
    BY <1>1, <2>2, <2>3 DEF back, BankWritten
  <2>5. fresh'[BankWritten]
    BY <1>3, <2>1, <2>3, <2>4
  <2> QED
    BY <2>3, <2>4, <2>5
<1> QED
  BY <1>4, <1>5, <1>6, <1>7, <1>8

\* The variables of the thread (MathThread.cpp:57-79).
LEMMA ThreadStep == PollInv /\ HandshakeNext => ThreadOK'
<1> SUFFICES ASSUME PollInv, HandshakeNext PROVE ThreadOK'
  OBVIOUS
<1>1. fresh' \in [0 .. 1 -> BOOLEAN]
  BY FreshStep
<1>2. lag' \in Nat
  BY DEF HandshakeNext, Lines, PollInv, ThreadOK
<1>3. ThreadOK /\ update_mem_r \in BOOLEAN
  BY DEF PollInv, IInv, TypeOK
<1>4. CASE MathPoll
  BY <1>1, <1>2, <1>3, <1>4 DEF MathPoll, TimingCore_Memory_Update, ThreadOK
<1>5. CASE MathEnable
  BY <1>1, <1>2, <1>3, <1>5 DEF MathEnable, TimingCore_Memory_Enable, Changed, ThreadOK
<1>6. CASE MathDisable
  BY <1>1, <1>2, <1>3, <1>6 DEF MathDisable, TimingCore_Memory_Disable, ThreadOK
<1>7. CASE MathCompute
  BY <1>1, <1>2, <1>3, <1>7 DEF MathCompute, ThreadOK
<1>8. CASE MathWrite
  BY <1>1, <1>2, <1>3, <1>8 DEF MathWrite, ThreadOK
<1>9. CASE MathPause
  BY <1>1, <1>2, <1>3, <1>9 DEF MathPause, mathVars, ThreadOK
<1> QED
  BY <1>4, <1>5, <1>6, <1>7, <1>8, <1>9 DEF HandshakeNext, MathStep

\* What one cycle may do to the thread, as far as the answer to a swap is concerned.
LEMMA ThreadMoves ==
  ASSUME PollInv, HandshakeNext
  PROVE  \/ MathPause /\ math_pc' = math_pc
         \/ MathPoll /\ math_pc' = "enable" /\ math_pc \in {"start", "sleep"}
         \/ /\ MathEnable /\ math_pc = "enable" /\ math_pc' \in {"sleep", "disable"}
            /\ math_pc' = "sleep" => newcycle = precycle
         \/ MathDisable /\ math_pc = "disable" /\ math_pc' = "compute"
         \/ MathCompute /\ math_pc = "compute" /\ math_pc' = "write"
         \/ MathWrite /\ math_pc = "write" /\ math_pc' \in {"write", "sleep"}
<1> USE DEF MathPause, mathVars, MathPoll, MathEnable, Changed, MathDisable, MathCompute,
            MathWrite
<1> QED
  BY DEF HandshakeNext, MathStep

\* The new table waits in the back bank (MathThread.cpp:176-187).
LEMMA NewInBackStep == PollInv /\ HandshakeNext => NewInBack'
<1> SUFFICES ASSUME PollInv, HandshakeNext,
                    ~mem_updated_i', math_pc' \in {"start", "sleep", "enable"}
             PROVE  fresh'[back'] /\ Settled' /\ (math_pc' = "enable" => Seen')
  BY DEF NewInBack
<1>1. ~mem_updated_i /\ math_pc \in {"start", "sleep", "enable", "write"}
  <2>1. ~MathEnable
    BY DEF MathEnable, TimingCore_Memory_Enable
  <2>2. /\ MathPause \/ MathPoll \/ MathWrite
        /\ math_pc \in {"start", "sleep", "enable", "write"}
    BY <2>1, ThreadMoves
  <2>3. mem_updated_i' = mem_updated_i
    BY <2>2 DEF MathPause, MathPoll, MathWrite
  <2> QED
    BY <2>2, <2>3
<1>2. front' = front
  BY <1>1, SwapWhilePolling
<1>3. Settled'
  BY <1>2, FrontStep DEF Settled
<1>4. fresh'[back']
  <2>1. CASE math_pc = "write"
    <3>1. math_pc' = "sleep"
      BY <2>1, ThreadMoves
    <3> QED
      BY <2>1, <3>1, FreshStep
  <2>2. CASE math_pc # "write"
    BY <1>1, <1>2, <2>2, FreshStep DEF PollInv, NewInBack
  <2> QED
    BY <2>1, <2>2
<1>5. ASSUME math_pc' = "enable" PROVE Seen'
  <2>1. CASE math_pc = "enable"
    <3>1. Seen /\ newcycle' = newcycle
      BY <1>1, <1>5, <2>1, ThreadMoves DEF MathPause, mathVars, PollInv, NewInBack
    <3> QED
      BY <1>2, <3>1 DEF Seen
  <2>2. CASE math_pc # "enable"
    <3>1. MathPoll /\ math_pc \in {"start", "sleep"}
      BY <1>5, <2>2, ThreadMoves
    <3>2. newcycle' = update_mem_r /\ Settled
      BY <1>1, <3>1 DEF MathPoll, TimingCore_Memory_Update, PollInv, NewInBack
    <3> QED
      BY <1>2, <3>2 DEF Seen, Settled
  <2> QED
    BY <2>1, <2>2
<1> QED
  BY <1>3, <1>4, <1>5

\* A swap that was missed (MathThread.cpp:59-79).
LEMMA MissedStep == PollInv /\ HandshakeNext => MissedIsPlayed'
<1> SUFFICES ASSUME PollInv, HandshakeNext, mem_updated_i', math_pc' \in {"sleep", "enable"},
                    newcycle' = precycle', ~Known'
             PROVE  ~fresh'[back']
  BY DEF MissedIsPlayed
<1>1. CASE front' # front
  BY <1>1, FreshStep
<1>2. CASE front' = front
  <2>1. math_pc # "write"
    <3> SUFFICES ASSUME math_pc = "write" PROVE FALSE
      OBVIOUS
    <3>1. ~mem_updated_i /\ MathWrite
      BY ThreadMoves DEF PollInv, WriterInv
    <3> QED
      BY <3>1 DEF MathWrite
  <2>2. fresh' = fresh /\ back' = back
    BY <1>2, <2>1, FreshStep DEF back
  <2>3. CASE MathPause
    BY <1>2, <2>2, <2>3 DEF MathPause, mathVars, Known, PollInv, MissedIsPlayed
  <2>4. CASE MathPoll
    <3>1. math_pc = "sleep"
      BY <2>4 DEF MathPoll, PollInv, ThreadOK
    <3>2. update_mem_r = precycle /\ precycle' = precycle
      BY <2>4 DEF MathPoll, TimingCore_Memory_Update
    <3>3. ~Settled
      BY <1>2, <3>2 DEF Known, Settled
    <3> QED
      BY <2>2, <3>3 DEF PollInv, UnsettledIsNew
  <2>5. CASE MathEnable
    <3>1. /\ math_pc = "enable" /\ newcycle = precycle /\ ~Known
          /\ newcycle' = newcycle /\ precycle' = precycle
      BY <1>2, <2>5 DEF MathEnable, Known
    <3>2. mem_updated_i
      BY <3>1 DEF PollInv, ThreadOK, NewInBack, Seen, Known
    <3> QED
      BY <2>2, <3>1, <3>2 DEF PollInv, MissedIsPlayed
  <2>6. ~MathDisable /\ ~MathCompute /\ ~MathWrite
    BY <2>1 DEF MathDisable, MathCompute, MathWrite
  <2> QED
    BY <2>3, <2>4, <2>5, <2>6, ThreadMoves
<1> QED
  BY <1>1, <1>2

\* A pending swap stays near (MathThread.cpp:57-79).
LEMMA AnswerStep == PollInv /\ HandshakeNext => AnswerNear'
<1> SUFFICES ASSUME PollInv, HandshakeNext, Pending', math_pc' \in Polling
             PROVE  /\ ~(Seen' /\ Known')
                    /\ Seen' => PlayedNow' <= PollLines + 1 + lag'
                    /\ ~Seen' => PlayedNow' <= lag' + 1
  BY DEF AnswerNear
<1>1. /\ played \in Nat /\ played' \in Nat /\ lag \in Nat /\ lag' \in Nat /\ PollLines \in Nat
      /\ new_line_i \in BOOLEAN /\ new_line_i' \in BOOLEAN
      /\ newcycle \in BOOLEAN /\ precycle \in BOOLEAN
      /\ front \in 0 .. 1 /\ front' \in 0 .. 1
  BY FrontStep, ThreadStep, SpeedAssumption DEF PollInv, ThreadOK
<1>2. CASE front' # front
  <2>1. mem_updated_i /\ math_pc \in Polling /\ fresh[back]
    BY <1>2, SwapWhilePolling, FreshStep DEF Pending
  <2>2. PlayedNow' \in 0 .. 1
    <3>1. played' = 0
      BY <1>2, FrontStep
    <3>2. PlayedNow' = IF new_line_i' THEN played' + 1 ELSE played'
      BY DEF PlayedNow
    <3> QED
      BY <3>1, <3>2
  <2>3. MathPause \/ MathPoll \/ MathEnable
    BY <2>1, ThreadMoves DEF Polling
  <2>4. precycle' = precycle
    BY <2>3 DEF MathPause, mathVars, MathPoll, MathEnable
  <2>5. Known' <=> ~Known
    BY <1>1, <1>2, <2>4 DEF Known
  <2>6. ~(Seen' /\ Known')
    <3>1. CASE newcycle = precycle
      BY <2>1, <2>5, <3>1 DEF PollInv, ThreadOK, MissedIsPlayed, Polling
    <3>2. CASE newcycle # precycle
      <4>1. newcycle' = newcycle
        BY <2>1, <2>3, <3>2 DEF MathPause, mathVars, MathPoll, MathEnable, PollInv, ThreadOK,
                                Polling
      <4>2. (newcycle /\ ~precycle) \/ (~newcycle /\ precycle)
        BY <1>1, <3>2
      <4>3. Seen' <=> ~Seen
        BY <1>1, <1>2, <4>1 DEF Seen
      <4> QED
        BY <2>5, <4>2, <4>3 DEF Seen, Known
    <3> QED
      BY <3>1, <3>2
  <2>7. PlayedNow' <= PollLines + 1 + lag' /\ PlayedNow' <= lag' + 1
    <3>1. \A n \in 0 .. 1, l \in Nat : n <= PollLines + 1 + l /\ n <= l + 1
      BY <1>1
    <3> QED
      BY <1>1, <2>2, <3>1
  <2> QED
    BY <2>6, <2>7
<1>3. CASE front' = front
  <2>1. math_pc \in Polling
    <3>1. math_pc # "write"
      BY <1>3, ThreadMoves, FreshStep DEF Pending, Polling
    <3>2. math_pc # "start"
      <4> SUFFICES ASSUME math_pc = "start" PROVE FALSE
        OBVIOUS
      <4>1. fresh[back]
        BY DEF PollInv, ThreadOK, NewInBack
      <4> QED
        BY <1>3, <4>1, FreshStep DEF Pending
    <3> QED
      BY <3>1, <3>2, ThreadMoves DEF Polling, PollInv, WriterInv, MathStates
  <2>2. Pending
    <3>1. fresh' = fresh /\ carried' = carried
      BY <1>3, <2>1, FreshStep, FrontStep DEF Polling
    <3>2. back' = back
      BY <1>3 DEF back
    <3> QED
      BY <1>3, <3>1, <3>2 DEF Pending
  <2>3. /\ ~(Seen /\ Known)
        /\ Seen => PlayedNow <= PollLines + 1 + lag
        /\ ~Seen => PlayedNow <= lag + 1
        /\ lag <= PollLines
    BY <2>1, <2>2 DEF PollInv, AnswerNear, LagBounded
  <2>4. /\ PlayedNow \in Nat /\ PlayedNow' \in Nat
        /\ PlayedNow' <= PlayedNow + (IF new_line_i' THEN 1 ELSE 0)
    <3>1. played' <= PlayedNow
      BY <1>3, FrontStep
    <3>2. /\ PlayedNow = IF new_line_i THEN played + 1 ELSE played
          /\ PlayedNow' = IF new_line_i' THEN played' + 1 ELSE played'
      BY DEF PlayedNow
    <3>3. PlayedNow \in Nat
      BY <1>1, <3>2
    <3>4. CASE new_line_i'
      <4>1. PICK n \in Nat : played' = n
        BY <1>1
      <4>2. PlayedNow' = n + 1 /\ n <= PlayedNow
        BY <3>1, <3>2, <3>4, <4>1
      <4> QED
        BY <3>3, <3>4, <4>2
    <3>5. CASE ~new_line_i'
      BY <1>1, <3>1, <3>2, <3>3, <3>5
    <3> QED
      BY <3>4, <3>5
  <2>5. CASE MathPoll
    <3>1. math_pc = "sleep" /\ math_pc' # math_pc
      BY <2>1, <2>5 DEF MathPoll, Polling
    <3>2. lag' = IF new_line_i' THEN 1 ELSE 0
      BY <1>1, <3>1 DEF HandshakeNext, Lines, NewPhase
    <3>3. newcycle = precycle /\ newcycle' = update_mem_r /\ precycle' = precycle
      BY <2>5, <3>1 DEF PollInv, ThreadOK, MathPoll, TimingCore_Memory_Update
    <3>4. ~Seen /\ ~Known
      BY <2>3, <3>3 DEF Seen, Known
    <3>5. ~Known'
      BY <1>3, <3>3, <3>4 DEF Known
    <3>6. Seen' => PlayedNow' <= PollLines + 1 + lag'
      BY <1>1, <2>3, <2>4, <3>2, <3>4
    <3>7. ~Seen' => PlayedNow' <= lag' + 1
      <4> SUFFICES ASSUME ~Seen' PROVE PlayedNow' <= lag' + 1
        OBVIOUS
      <4>1. ~Settled
        BY <1>3, <3>3 DEF Seen, Settled
      <4>2. PlayedNow \in 0 .. 1
        BY <4>1 DEF PollInv, UnsettledIsNew, PlayedNow
      <4> QED
        BY <1>1, <2>4, <3>2, <4>2
    <3> QED
      BY <3>5, <3>6, <3>7
  <2>6. CASE MathPause \/ MathEnable
    <3>1. newcycle' = newcycle /\ precycle' = precycle /\ ~NewPhase
      BY <2>6 DEF MathPause, mathVars, MathEnable, NewPhase
    <3>2. (Seen' <=> Seen) /\ (Known' <=> Known)
      BY <1>3, <3>1 DEF Seen, Known
    <3>3. lag' = lag + (IF new_line_i' THEN 1 ELSE 0)
      BY <1>1, <3>1 DEF HandshakeNext, Lines
    <3> QED
      BY <1>1, <2>3, <2>4, <3>2, <3>3
  <2>7. MathPoll \/ MathPause \/ MathEnable
    BY <2>1, ThreadMoves DEF Polling
  <2> QED
    BY <2>5, <2>6, <2>7
<1> QED
  BY <1>2, <1>3

\* The bound of a phase (MathThread.cpp:57-79).
LEMMA LagStep == PollInv /\ HandshakeNext => LagBounded'
<1> SUFFICES ASSUME PollInv, HandshakeNext, math_pc' \in Polling PROVE lag' <= PollLines
  BY DEF LagBounded
<1>1. lag \in Nat /\ PollLines \in Nat \ {0}
  BY SpeedAssumption DEF PollInv, ThreadOK
<1>2. LinesAllowed' = PollLines
  BY DEF LinesAllowed, Polling
<1>3. NewPhase \/ math_pc \in Polling
  BY ThreadMoves DEF Polling, NewPhase, PollInv, WriterInv, MathStates
<1>4. (IF NewPhase THEN 0 ELSE lag) <= PollLines
  BY <1>1, <1>3 DEF PollInv, LagBounded
<1>5. CASE new_line_i' = FALSE /\ lag' = IF NewPhase THEN 0 ELSE lag
  BY <1>4, <1>5
<1>6. CASE /\ (IF NewPhase THEN 0 ELSE lag) < LinesAllowed'
           /\ lag' = (IF NewPhase THEN 0 ELSE lag) + 1
  BY <1>1, <1>2, <1>6
<1> QED
  BY <1>5, <1>6 DEF HandshakeNext, Lines

\* A bank that has just come to front (memoryManager.v:101-111).
LEMMA UnsettledStep == PollInv /\ HandshakeNext => UnsettledIsNew'
<1> SUFFICES ASSUME PollInv, HandshakeNext, ~Settled' PROVE played' = 0 /\ ~fresh'[back']
  BY DEF UnsettledIsNew
<1>1. front' # front
  BY FrontStep DEF Settled
<1> QED
  BY <1>1, FrontStep, FreshStep

\* The invariant holds when the thread begins.
LEMMA PollStart == HandshakeInit => PollInv
<1> SUFFICES ASSUME HandshakeInit PROVE PollInv
  OBVIOUS
<1>1. WriterInv /\ IInv
  BY WriterInit, InitIInv DEF HandshakeInit
<1>2. /\ front = 0 /\ back = 1 /\ fresh = [b \in 0 .. 1 |-> TRUE] /\ update_mem_r
      /\ math_pc = "start" /\ ~mem_updated_i /\ lag = 0
      /\ newcycle \in BOOLEAN /\ precycle \in BOOLEAN /\ newcycle = precycle
      /\ mem_updated_i \in BOOLEAN
  BY DEF HandshakeInit, Init, MMInit, front, BankOf, back
<1>3. fresh[back] /\ fresh \in [0 .. 1 -> BOOLEAN]
  BY <1>2
<1> QED
  BY <1>1, <1>2, <1>3
  DEF PollInv, ThreadOK, NewInBack, MissedIsPlayed, AnswerNear, LagBounded, UnsettledIsNew,
      Settled, Polling

\* Every cycle keeps it.
LEMMA PollStep == PollInv /\ [HandshakeNext]_bhvars => PollInv'
<1>1. ASSUME PollInv, HandshakeNext PROVE PollInv'
  <2>1. WriterInv'
    BY <1>1, WriterStep DEF PollInv
  <2>2. IInv'
    BY <1>1, HandshakeIsUse, IInvStep DEF PollInv
  <2> QED
    BY <1>1, <2>1, <2>2, ThreadStep, NewInBackStep, MissedStep, AnswerStep, LagStep,
       UnsettledStep DEF PollInv
<1>2. ASSUME PollInv, UNCHANGED bhvars PROVE PollInv'
  <2>1. WriterInv'
    BY <1>2, WriterStep DEF PollInv
  <2>2. IInv'
    BY <1>2, IInvStep DEF PollInv, bhvars
  <2>3. /\ UNCHANGED <<front, back, played, carried, fresh, lag, new_line_i, update_mem_r>>
        /\ UNCHANGED <<mem_updated_i, newcycle, precycle, math_pc>>
    BY <1>2 DEF bhvars, buvars, mmvars, bankRegs, mathVars, front, back
  <2>4. ThreadOK' /\ NewInBack' /\ MissedIsPlayed'
    BY <1>2, <2>3 DEF PollInv, ThreadOK, NewInBack, MissedIsPlayed, Settled, Seen, Known
  <2>5. AnswerNear' /\ LagBounded' /\ UnsettledIsNew'
    BY <1>2, <2>3 DEF PollInv, AnswerNear, LagBounded, UnsettledIsNew, Settled, Seen, Known,
                      Pending, PlayedNow
  <2> QED
    BY <2>1, <2>2, <2>4, <2>5 DEF PollInv
<1> QED
  BY <1>1, <1>2

\* The invariant holds in every reachable state of the handshake, for every quota that
\* is longer than two polls (MathThread.cpp:57-187, memoryManager.v:68-111).
THEOREM PollInvariance == HandshakeSpec => []PollInv
BY PollStart, PollStep, PTL DEF HandshakeSpec

\* A table that was played before comes to front after a new one only if the new one
\* was cut short by lines charged to it in advance (MathThread.cpp:59-79,
\* memoryManager.v:88-98).
THEOREM StaleWhenCarried == HandshakeSpec => StaleOnlyIfCarried
<1>1. ASSUME PollInv, [HandshakeNext]_bhvars, front' # front, fresh[front]
      PROVE  fresh[front'] \/ carried > 0
  <2>1. HandshakeNext
    BY <1>1 DEF bhvars, buvars, mmvars, bankRegs, front
  <2>2. ~Pending /\ carried \in Nat /\ front \in 0 .. 1 /\ front' \in 0 .. 1
    BY <1>1, <2>1, NoSwapPending, FrontStep
  <2>3. front' = back
    BY <1>1, <2>2 DEF back
  <2> QED
    BY <1>1, <2>2, <2>3 DEF Pending
<1>2. PollInv /\ [HandshakeNext]_bhvars =>
        [front' # front /\ fresh[front] => fresh[front'] \/ carried > 0]_bhvars
  BY <1>1
<1> QED
  BY <1>2, PollInvariance, PTL DEF HandshakeSpec, StaleOnlyIfCarried
=============================================================================
