---------------------------- MODULE PointMemory ----------------------------
(***************************************************************************)
(* The tables of fire times: for each frame a memory of two banks, built   *)
(* from timestampMem.v and activePixelMem.v, addressed and enabled alike.  *)
(* A word is the delay of a point and the flag that enables the laser      *)
(* there.  The block RAMs are a library: a word comes out ReadLatency      *)
(* clock edges after its address, one edge for the array and one for the   *)
(* optional output register.                                               *)
(***************************************************************************)
EXTENDS Naturals

CONSTANTS
  MemGroups,     \* memories, one per frame (5)
  AddrMod,       \* 2^width of an address (512)
  TickMod,       \* 2^width of a delay (65536)
  ReadLatency    \* 1 or 2

ASSUME MemoryAssumption == /\ MemGroups \in Nat \ {0} /\ AddrMod \in Nat \ {0}
                           /\ TickMod \in Nat \ {0} /\ ReadLatency \in {1, 2}

Banks == 0 .. 1
Memories == 0 .. MemGroups - 1
Addresses == 0 .. AddrMod - 1
Words == [ticks : 0 .. TickMod - 1, active : BOOLEAN]

VARIABLE table   \* table[bank][memory][address]

\* Index of the memory behind a selector: the unused codes fall back to memory 0.
MemoryOf(selector) == IF selector < MemGroups THEN selector ELSE 0

\* Mutant: the write enable goes to the bank that is read.
BankWrittenSame(update) == IF update THEN 0 ELSE 1

\* The two banks as update_mem_r (TRUE: bank 1 is being updated) selects them.
BankRead(update)    == IF update THEN 0 ELSE 1
BankWritten(update) == IF update THEN 1 ELSE 0

\* The read pipelines of all block RAMs, dout[bank][memory][stage], and their
\* next value for a read address.
Pipelines == [Banks -> [Memories -> [1 .. ReadLatency -> Words]]]

ReadAll(dout, raddr) ==
  [b \in Banks |-> [m \in Memories |-> [s \in 1 .. ReadLatency |->
     IF s = 1 THEN table[b][m][raddr] ELSE dout[b][m][s - 1]]]]

Write(update, selector, waddr, word) ==
  table' = [table EXCEPT ![BankWritten(update)][MemoryOf(selector)][waddr] = word]

NoWrite == UNCHANGED table

\* Mutant: the output is taken before the block RAM's output register.
OutputUnregistered(dout, update, selector) == dout[BankRead(update)][MemoryOf(selector)][1]

\* The word that the output multiplexers select from the pipelines.
Output(dout, update, selector) == dout[BankRead(update)][MemoryOf(selector)][ReadLatency]
=============================================================================
