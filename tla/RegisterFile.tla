---------------------------- MODULE RegisterFile ----------------------------
(***************************************************************************)
(* The registers of the timing core as AXIInterfaceClass relies on them:   *)
(* writes are performed one by one in the order of the program and each is *)
(* acknowledged, a read returns what the register held when it was         *)
(* performed, and a word is stored exactly when 1 is written to the        *)
(* register of the write enable.                                           *)
(***************************************************************************)
EXTENDS Integers, Sequences

CONSTANTS
  Cells,       \* memory and address of a point, the upper bits of register 6
  Words,       \* its delay and flag, the lower bits
  Points,      \* pairs of a cell and a word that the program writes
  Frequency,   \* freq_i, as it was measured
  MaxWrites    \* bound: writes that the processor has posted

VARIABLES
  writes,    \* posted and not performed: <<register, value>>
  acked,     \* the last write performed is acknowledged
  read,      \* register to be read
  answer,    \* value that was read
  regs,
  update_mem,
  memory

filevars == <<writes, acked, read, answer, regs, update_mem, memory>>

None == -1     \* no register, no value
Registers == 0 .. 7

\* memory_selector_i, waddr_i, wdata_i and we_i of the timing core.
Zero == CHOOSE w \in Words : TRUE
Cleared == [r \in Registers |-> IF r = 6 THEN <<CHOOSE c \in Cells : TRUE, Zero>> ELSE 0]
we(file) == file[7] = 1
Stored(file, mem) == IF we(file) THEN [mem EXCEPT ![file[6][1]] = file[6][2]] ELSE mem

\* Mutant: the write enable is left set.
TimingCore_Write_Enabled(data) == <<<<6, data>>, <<7, 1>>>>

\* The calls of AXIInterfaceClass by which MathThread writes registers of the timing core;
\* the one write to register 5 is left out, being like those to register 0.
TimingCore_Write(data) == <<<<6, data>>, <<7, 1>>, <<7, 0>>>>
TimingCore_Memory_Enable  == <<<<0, 1>>>>
TimingCore_Memory_Disable == <<<<0, 0>>>>

WriteCalls ==
  {TimingCore_Write(data) : data \in Points}
    \cup {TimingCore_Memory_Enable, TimingCore_Memory_Disable}

\* Frequency_Read and TimingCore_Memory_Update read 0 and 1, which are not what was
\* written to them.
Value(reg, file) == CASE reg = 0 -> Frequency [] reg = 1 -> update_mem [] OTHER -> file[reg]

FileInit ==
  /\ writes = <<>> /\ acked = FALSE /\ read = None /\ answer = None
  /\ regs = Cleared /\ memory = [c \in Cells |-> Zero]
  /\ update_mem = 0

\* The caller holds the lock until the value read is there; writes are posted.
CallWrite == /\ read = None /\ answer = None
             /\ \E call \in WriteCalls : /\ Len(writes \o call) <= MaxWrites
                                         /\ writes' = writes \o call
             /\ UNCHANGED <<acked, read, answer, regs, update_mem, memory>>

CallRead == /\ read = None /\ answer = None
            /\ read' \in {0, 1}
            /\ UNCHANGED <<writes, acked, answer, regs, update_mem, memory>>

\* The timing core swaps its banks.
BankSwap == /\ update_mem' = 1 - update_mem
            /\ UNCHANGED <<writes, acked, read, answer, regs, memory>>

PerformWrite == /\ writes # <<>> /\ ~acked
                /\ regs' = [regs EXCEPT ![Head(writes)[1]] = Head(writes)[2]]
                /\ memory' = Stored(regs', memory)
                /\ writes' = Tail(writes) /\ acked' = TRUE

TakeAck == acked /\ acked' = FALSE /\ UNCHANGED <<writes, regs, memory>>

PerformRead == /\ read # None /\ answer = None
               /\ answer' = Value(read, regs)
               /\ read' = None

Return == answer # None /\ answer' = None /\ UNCHANGED read

\* The channels of writes and of reads are apart, and may both end in one cycle.
Perform == /\ PerformWrite \/ TakeAck \/ UNCHANGED <<writes, acked, regs, memory>>
           /\ PerformRead \/ Return \/ UNCHANGED <<read, answer>>
           /\ UNCHANGED update_mem

FileNext == CallWrite \/ CallRead \/ BankSwap \/ Perform

\* Every access comes to an end.
WritesPerformed == []<>(writes = <<>>) \/ []<><<PerformWrite>>_filevars
ReadsAnswered == []<>(read = None /\ answer = None)
AcksTaken == []<>~acked

FileSpec == FileInit /\ [][FileNext]_filevars
             /\ WritesPerformed /\ ReadsAnswered /\ AcksTaken
=============================================================================
