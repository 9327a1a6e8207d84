--------------------------- MODULE BankHandshake ---------------------------
(***************************************************************************)
(* MathThread.cpp as the writer of the tables: it polls update_mem every   *)
(* few milliseconds, says that the back bank is complete (mem_updated),    *)
(* and when update_mem has changed takes that back and computes and writes *)
(* the tables anew.  BankUse is the timing core that it talks to through   *)
(* the AXI registers.  In each clock cycle the thread completes at most    *)
(* one access to them; between two of them any number of cycles may pass,  *)
(* and lines may be reported, up to the bounds PollLines and UpdateLines.  *)
(* A history variable records which banks hold a table that was not played *)
(* since it was written.  The end of the thread is left to LidarThreads.    *)
(***************************************************************************)
EXTENDS BankUse

CONSTANTS
  PollLines,    \* bound: lines between two polls
  UpdateLines   \* bound: lines while the tables are computed and written

\* A quota of lines (100 lines of 18 passages each) is longer than two polls, 9 ms
\* apart.
ASSUME SpeedAssumption == /\ PollLines \in Nat \ {0} /\ UpdateLines \in Nat \ {0}
                          /\ 2 * PollLines + 1 < MemCycles + 1

VARIABLES
  math_pc, newcycle, precycle, math_frame,
  lag,      \* lines in the present phase of the thread
  fresh     \* per bank

mathVars == <<math_pc, newcycle, precycle, math_frame>>
bhvars == <<buvars, mathVars, lag, fresh>>

BankWritten == IF update_mem_r THEN 1 ELSE 0

HandshakeInit ==
  /\ Init /\ mem_updated_i = FALSE
  /\ math_pc = "start" /\ newcycle = TRUE /\ precycle = TRUE /\ math_frame = 0
  /\ lag = 0
  /\ fresh = [b \in 0 .. 1 |-> TRUE]   \* the tables after configuration

\* The accesses of AXIInterfaceClass, each of them a locked access to one register.
TimingCore_Memory_Update  == newcycle' = update_mem_r
TimingCore_Memory_Enable  == mem_updated_i' = TRUE
TimingCore_Memory_Disable == mem_updated_i' = FALSE

\* Mutant: only a change in one direction is seen.
ChangedToFirst == newcycle /\ ~precycle

Changed == newcycle # precycle

\* A poll, after the sleep or when the thread starts; the timing core is running by then.
MathPoll == /\ math_pc \in {"start", "sleep"} /\ math_pc' = "enable"
            /\ TimingCore_Memory_Update
            /\ UNCHANGED <<mem_updated_i, precycle, math_frame>>

\* Mutant: the bank is not reported as complete if nothing has changed.
MathEnableOnce == /\ math_pc = "enable"
                  /\ mem_updated_i' = (mem_updated_i \/ Changed)
                  /\ math_pc' = IF Changed THEN "disable" ELSE "sleep"
                  /\ UNCHANGED <<newcycle, precycle, math_frame>>

MathEnable == /\ math_pc = "enable"
              /\ TimingCore_Memory_Enable
              /\ math_pc' = IF Changed THEN "disable" ELSE "sleep"
              /\ UNCHANGED <<newcycle, precycle, math_frame>>

\* Mutant: the bank stays reported as complete while it is written.
MathDisableNever == /\ math_pc = "disable" /\ math_pc' = "compute"
                    /\ precycle' = newcycle /\ math_frame' = 0
                    /\ UNCHANGED <<mem_updated_i, newcycle>>

MathDisable == /\ math_pc = "disable" /\ math_pc' = "compute"
               /\ TimingCore_Memory_Disable
               /\ precycle' = newcycle /\ math_frame' = 0
               /\ UNCHANGED newcycle

\* The frequency is read and all fire times are computed.
MathCompute == /\ math_pc = "compute" /\ math_pc' = "write"
               /\ UNCHANGED <<mem_updated_i, newcycle, precycle, math_frame>>

LastTable == math_frame = NumberOfFrames

\* The table of one frame, word by word.
MathWrite == /\ math_pc = "write"
             /\ math_frame' = math_frame + 1
             /\ math_pc' = IF LastTable THEN "sleep" ELSE "write"
             /\ UNCHANGED <<mem_updated_i, newcycle, precycle>>

MathStep == MathPoll \/ MathEnable \/ MathDisable \/ MathCompute \/ MathWrite

\* The processor is elsewhere, or an access is under way.
MathPause == UNCHANGED <<mathVars, mem_updated_i>>

\* A line may fall into any cycle, up to the bound of the thread's phase.
NewPhase == math_pc' # math_pc /\ math_pc # "enable"
LinesAllowed == IF math_pc \in {"start", "compute", "write"} THEN UpdateLines ELSE PollLines

Lines == LET before == IF NewPhase THEN 0 ELSE lag
         IN  \/ new_line_i' = FALSE /\ lag' = before
             \/ /\ new_line_i' = TRUE /\ ~new_line_i
                /\ before < LinesAllowed' /\ lag' = before + 1

Freshness ==
  fresh' = [b \in 0 .. 1 |->
              IF front' # front THEN fresh[b] /\ b # front
              ELSE fresh[b] \/ (MathWrite /\ LastTable /\ b = BankWritten)]

HandshakeNext == /\ Clock /\ (Swap \/ Stay)
                 /\ MathStep \/ MathPause
                 /\ Lines /\ Freshness

\* The clock never stops, and the scheduler runs the thread.
HandshakeSpec == HandshakeInit /\ [][HandshakeNext]_bhvars /\ WF_bhvars(HandshakeNext)
                 /\ WF_bhvars(HandshakeNext /\ MathStep)
-----------------------------------------------------------------------------
\* Action property: whatever the speed of the thread, no word is written into the
\* bank that is played, nor do the banks change places under a table that is being
\* written (MathThread.cpp:59-184, memoryManager.v:68-111, timestampMem.v:35-36).
WritesBackBank == [][math_pc = "write" => BankWritten # front /\ front' = front]_bhvars

\* Action property: with a quota that is longer than two polls, a bank comes to
\* front with a table that was played before, after one that was new, only if the
\* latter was cut short by lines charged to it during a wait
\* (MathThread.cpp:59-79, memoryManager.v:88-98).
StaleOnlyIfCarried == [][front' # front /\ fresh[front] => fresh[front'] \/ carried > 0]_bhvars

\* Liveness: while lines are reported, the banks alternate and new tables come to
\* front again and again: the thread and the bank FSM never wait for each other, and a
\* swap that the thread has missed does not end the updates
\* (MathThread.cpp:57-187, memoryManager.v:68-77).
TablesRenewed ==
  []<>new_line_i => []<>(front = 0) /\ []<>(front = 1) /\ []<>fresh[front]
=============================================================================
