--------------------------- MODULE AxiSlave_proofs ---------------------------
(***************************************************************************)
(* Proofs about the AXI slave, for all cells, words and points and any     *)
(* number of posted writes: a step of the slave and the bus is a step of   *)
(* RegisterFile, and the words that were written reach the memory.         *)
(*                                                                         *)
(* The inductive invariant says that the two channels of a write are       *)
(* ready in the same cycle and find both valids up, that no write is taken *)
(* before the last one is acknowledged, and that the queues of the         *)
(* interconnect hold the addresses and the data of the writes that no      *)
(* register shows yet (SlaveInv); that these writes are made of whole      *)
(* calls (CallsInv); and what they are going to store (WantInv).           *)
(***************************************************************************)
EXTENDS AxiSlave, SequenceTheorems, TLAPS

Data == {0, 1} \cup Points
Entries == ({6} \X Points) \cup ({0, 7} \X {0, 1})

AxiTypeOK ==
  /\ axi_awready \in BOOLEAN /\ aw_en \in BOOLEAN /\ axi_wready \in BOOLEAN
  /\ axi_bvalid \in BOOLEAN /\ axi_arready \in BOOLEAN /\ axi_rvalid \in BOOLEAN
  /\ S_AXI_AWVALID \in BOOLEAN /\ S_AXI_WVALID \in BOOLEAN /\ S_AXI_ARVALID \in BOOLEAN
  /\ ar \in {None, 0, 1} /\ ar_sent \in BOOLEAN /\ update_mem \in {0, 1}
  /\ writes \in Seq(Entries) /\ aw \in Seq(File!Registers) /\ w \in Seq(Data)
  /\ slv_reg = [r \in File!Registers |-> slv_reg[r]] /\ slv_reg[6] \in Cells \X Words
  /\ memory \in [Cells -> Words] /\ want \in [Cells -> Words]

SlaveInv ==
  /\ axi_wready = axi_awready
  /\ axi_awready => /\ S_AXI_AWVALID /\ S_AXI_WVALID
                    /\ ~aw_en /\ ~axi_bvalid /\ axi_awaddr = aw[1]
  /\ axi_bvalid => ~aw_en
  /\ S_AXI_AWVALID => aw # <<>>
  /\ S_AXI_WVALID => w # <<>>
  /\ Len(aw) = Len(writes) /\ Len(w) = Len(writes)
  /\ \A i \in 1 .. Len(writes) : writes[i][1] = aw[i] /\ writes[i][2] = w[i]
  /\ axi_arready => S_AXI_ARVALID /\ axi_araddr = ar
  /\ S_AXI_ARVALID => ar # None /\ ~ar_sent
  /\ axi_rvalid => ar # None /\ ar_sent /\ axi_rdata \in Nat

\* The writes that are left of a call follow each other.
Opens(i)  == writes[i] = <<7, 1>>
Closes(i) == writes[i] = <<7, 0>>

CallsInv ==
  /\ \A i \in 1 .. Len(writes) : writes[i][1] = 6 => i < Len(writes) /\ Opens(i + 1)
  /\ \A i \in 1 .. Len(writes) : Opens(i) => i < Len(writes) /\ Closes(i + 1)
  /\ \A i \in 2 .. Len(writes) : Opens(i) => writes[i - 1][1] = 6
  /\ we_o => writes # <<>> /\ Closes(1)

\* The word that is stored when the i-th write opens the write port.
StoredBy(i) == IF i = 1 THEN slv_reg[6] ELSE writes[i - 1][2]
Stores(i, c) == Opens(i) /\ StoredBy(i)[1] = c

\* A cell is to hold what the last of these writes stores in it.
WantInv ==
  \A c \in Cells :
    /\ \A i \in 1 .. Len(writes) :
         Stores(i, c) /\ (\A j \in i + 1 .. Len(writes) : ~Stores(j, c))
           => want[c] = StoredBy(i)[2]
    /\ (\A i \in 1 .. Len(writes) : ~Stores(i, c)) => want[c] = File!Stored(slv_reg, memory)[c]

AxiInv == AxiTypeOK /\ SlaveInv /\ CallsInv /\ WantInv

USE DEF None, File!None

\* The reset state satisfies the invariant.
LEMMA AxiInitInv == AxiInit => AxiInv
<1> SUFFICES ASSUME AxiInit PROVE AxiInv
  OBVIOUS
<1> USE DEF AxiInit
<1>1. (CHOOSE c \in Cells : TRUE) \in Cells /\ File!Zero \in Words
  BY FileAssumption DEF File!Zero
<1>2. slv_reg = [r \in File!Registers |-> slv_reg[r]] /\ slv_reg[6] \in Cells \X Words
  BY <1>1 DEF File!Cleared, File!Registers
<1>3. slv_reg[7] = 0
  BY DEF File!Cleared, File!Registers
<1>4. writes = <<>> /\ Len(writes) = 0 /\ ~we_o
  BY <1>3 DEF we_o
<1>5. AxiTypeOK
  <2>1. memory \in [Cells -> Words] /\ want \in [Cells -> Words]
    BY <1>1
  <2>2. writes \in Seq(Entries) /\ aw \in Seq(File!Registers) /\ w \in Seq(Data)
    BY EmptySeq
  <2>3. ar \in {None, 0, 1} /\ update_mem \in {0, 1}
    OBVIOUS
  <2> QED
    BY <1>2, <2>1, <2>2, <2>3 DEF AxiTypeOK
<1>6. SlaveInv
  <2>1. Len(aw) = Len(writes) /\ Len(w) = Len(writes)
    OBVIOUS
  <2>2. \A i \in 1 .. Len(writes) : writes[i][1] = aw[i] /\ writes[i][2] = w[i]
    BY <1>4
  <2> QED
    BY <2>1, <2>2 DEF SlaveInv
<1>7. CallsInv
  BY <1>4 DEF CallsInv
<1>8. WantInv
  <2> SUFFICES ASSUME NEW c \in Cells PROVE want[c] = File!Stored(slv_reg, memory)[c]
    <3>1. \A i \in 1 .. Len(writes) : FALSE
      BY <1>4
    <3> QED
      BY <3>1 DEF WantInv
  <2> QED
    BY <1>3 DEF File!Stored, File!we
<1> QED
  BY <1>5, <1>6, <1>7, <1>8 DEF AxiInv

\* The handshake of a write, in one cycle on both channels
\* (TimingCoreV3_itf_v1_0_S00_AXI.v:148-231,323-351).
LEMMA WriteHandshake ==
  ASSUME AxiInv, NEW bready \in BOOLEAN, NEW rready \in BOOLEAN, BusClock(bready, rready)
  PROVE  /\ slv_reg_wren <=> axi_awready
         /\ axi_awready => writes # <<>> /\ ~axi_bvalid /\ axi_bvalid'
         /\ ~axi_awready => axi_bvalid' = (axi_bvalid /\ ~bready)
         /\ aw' = Pop(aw, axi_awready) /\ w' = Pop(w, axi_awready)
         /\ writes' = Pop(writes, axi_awready)
         /\ slv_reg' = IF axi_awready
                       THEN [slv_reg EXCEPT ![Head(writes)[1]] = Head(writes)[2]]
                       ELSE slv_reg
<1>1. /\ axi_awready \in BOOLEAN /\ axi_bvalid \in BOOLEAN /\ SlaveInv
      /\ writes \in Seq(Entries) /\ aw \in Seq(File!Registers) /\ w \in Seq(Data)
  BY DEF AxiInv, AxiTypeOK
<1>2. slv_reg_wren <=> axi_awready
  BY <1>1 DEF SlaveInv, slv_reg_wren
<1>3. axi_awready => writes # <<>> /\ Head(writes)[1] = axi_awaddr /\ Head(writes)[2] = Head(w)
  <2>1. axi_awready => aw # <<>> /\ w # <<>>
    BY <1>1 DEF SlaveInv
  <2>2. ASSUME axi_awready
        PROVE  /\ Len(writes) > 0 /\ Head(writes) = writes[1] /\ Head(w) = w[1]
               /\ writes # <<>>
    BY <1>1, <2>1, <2>2, EmptySeq, LenProperties DEF SlaveInv
  <2> QED
    BY <1>1, <2>2, LenProperties DEF SlaveInv
<1>4. /\ axi_awready => axi_bvalid'
      /\ ~axi_awready => axi_bvalid' = (axi_bvalid /\ ~bready)
  BY <1>1 DEF BusClock, Slave, WriteResponse, SlaveInv
<1>5. aw' = Pop(aw, axi_awready) /\ w' = Pop(w, axi_awready)
  BY <1>1 DEF BusClock, Master, Channel, SlaveInv, Pop
<1>6. writes' = Pop(writes, axi_awready)
  BY <1>2 DEF BusClock, Master, Pop
<1>7. slv_reg' = IF axi_awready
                 THEN [slv_reg EXCEPT ![Head(writes)[1]] = Head(writes)[2]]
                 ELSE slv_reg
  BY <1>2, <1>3 DEF BusClock, Slave, RegisterWrite
<1>8. axi_awready => ~axi_bvalid
  BY <1>1 DEF SlaveInv
<1> QED
  BY <1>2, <1>3, <1>4, <1>5, <1>6, <1>7, <1>8

\* The handshake of a read (TimingCoreV3_itf_v1_0_S00_AXI.v:353-454).
LEMMA ReadHandshake ==
  ASSUME AxiInv, NEW bready \in BOOLEAN, NEW rready \in BOOLEAN, BusClock(bready, rready)
  PROVE  /\ slv_reg_rden <=> axi_arready
         /\ axi_arready => ~axi_rvalid /\ axi_rvalid' /\ axi_araddr = ar /\ ar # None
         /\ ~axi_arready => axi_rvalid' = (axi_rvalid /\ ~rready) /\ axi_rdata' = axi_rdata
         /\ axi_arready => axi_rdata' = File!Value(ar, slv_reg)
         /\ ar' = IF axi_rvalid /\ rready THEN None ELSE ar
<1>1. /\ axi_arready \in BOOLEAN /\ axi_rvalid \in BOOLEAN /\ SlaveInv /\ ar \in {None, 0, 1}
      /\ S_AXI_ARVALID \in BOOLEAN
  BY DEF AxiInv, AxiTypeOK
<1>2. slv_reg_rden <=> axi_arready
  BY <1>1 DEF SlaveInv, slv_reg_rden
<1>3. axi_arready => ~axi_rvalid /\ axi_araddr = ar /\ ar # None
  BY <1>1 DEF SlaveInv
<1>4. /\ axi_arready => axi_rvalid'
      /\ ~axi_arready => axi_rvalid' = (axi_rvalid /\ ~rready)
  BY <1>1, <1>2 DEF BusClock, Slave, ReadResponse
<1>5. /\ axi_arready => axi_rdata' = reg_data_out
      /\ ~axi_arready => axi_rdata' = axi_rdata
  BY <1>1, <1>2 DEF BusClock, Slave, ReadData
<1>6. axi_arready => reg_data_out = File!Value(ar, slv_reg)
  BY <1>3 DEF reg_data_out, File!Value
<1>7. ar' = IF axi_rvalid /\ rready THEN None ELSE ar
  BY DEF BusClock, Master
<1> QED
  BY <1>2, <1>3, <1>4, <1>5, <1>6, <1>7

\* The memory as RegisterFile sees it: the word at the port is in it already.
MemoryBar == File!Stored(slv_reg, memory)

\* A word that stays at the port is stored again and again.
LEMMA StoredTwice ==
  ASSUME AxiTypeOK
  PROVE  /\ MemoryBar \in [Cells -> Words]
         /\ File!Stored(slv_reg, MemoryBar) = MemoryBar
<1>1. memory \in [Cells -> Words] /\ slv_reg[6][1] \in Cells /\ slv_reg[6][2] \in Words
  BY DEF AxiTypeOK
<1> QED
  BY <1>1 DEF MemoryBar, File!Stored, File!we

\* A step of the channels of writes is one of RegisterFile, or none.
LEMMA WriteChannelStep ==
  ASSUME AxiInv, NEW bready \in BOOLEAN, NEW rready \in BOOLEAN, BusClock(bready, rready)
  PROVE  File!PerformWrite \/ File!TakeAck
           \/ (UNCHANGED <<writes, axi_bvalid, slv_reg>> /\ MemoryBar' = MemoryBar)
<1>1. MemoryBar' = File!Stored(slv_reg', MemoryBar)
  BY DEF BusClock, PointStore, we_o, MemoryBar, File!Stored, File!we
<1>2. AxiTypeOK
  BY DEF AxiInv
<1>3. slv_reg' = slv_reg => MemoryBar' = MemoryBar
  BY <1>1, <1>2, StoredTwice
<1>4. CASE axi_awready
  <2>1. /\ writes # <<>> /\ ~axi_bvalid /\ axi_bvalid'
        /\ slv_reg' = [slv_reg EXCEPT ![Head(writes)[1]] = Head(writes)[2]]
        /\ writes' = Tail(writes)
    BY <1>4, WriteHandshake DEF Pop
  <2> QED
    BY <1>1, <1>2, <2>1 DEF File!PerformWrite, MemoryBar, File!Stored, File!we, AxiTypeOK
<1>5. CASE ~axi_awready
  <2>1. /\ writes' = writes /\ slv_reg' = slv_reg
        /\ axi_bvalid' = (axi_bvalid /\ ~bready)
    BY <1>5, WriteHandshake DEF Pop
  <2>2. axi_bvalid \in BOOLEAN
    BY <1>2 DEF AxiTypeOK
  <2>3. CASE axi_bvalid /\ bready
    BY <1>3, <2>1, <2>3 DEF File!TakeAck, MemoryBar, File!Stored, File!we
  <2>4. CASE ~(axi_bvalid /\ bready)
    BY <1>3, <2>1, <2>2, <2>4
  <2> QED
    BY <2>3, <2>4
<1> QED
  BY <1>2, <1>4, <1>5 DEF AxiTypeOK

\* A step of the channels of reads is one of RegisterFile, or none.
LEMMA ReadChannelStep ==
  ASSUME AxiInv, NEW bready \in BOOLEAN, NEW rready \in BOOLEAN, BusClock(bready, rready)
  PROVE  File!PerformRead \/ File!Return
           \/ /\ (IF axi_rvalid THEN None ELSE ar)' = (IF axi_rvalid THEN None ELSE ar)
              /\ (IF axi_rvalid THEN axi_rdata ELSE None)' = (IF axi_rvalid THEN axi_rdata ELSE None)
<1>1. /\ axi_arready \in BOOLEAN /\ axi_rvalid \in BOOLEAN /\ ar \in {None, 0, 1}
      /\ axi_rvalid => axi_rdata \in Nat
  BY DEF AxiInv, AxiTypeOK, SlaveInv
<1>2. CASE axi_arready
  BY <1>1, <1>2, ReadHandshake DEF File!PerformRead, File!Value
<1>3. CASE ~axi_arready /\ axi_rvalid /\ rready
  BY <1>1, <1>3, ReadHandshake DEF File!Return
<1>4. CASE ~axi_arready /\ ~(axi_rvalid /\ rready)
  BY <1>1, <1>4, ReadHandshake
<1> QED
  BY <1>1, <1>2, <1>3, <1>4

\* A step of the slave, the bus or the program is a step of RegisterFile.
LEMMA FileStep == AxiInv /\ [Next]_asvars => [File!FileNext]_File!filevars
<1> SUFFICES ASSUME AxiInv, [Next]_asvars PROVE [File!FileNext]_File!filevars
  OBVIOUS
<1>1. ar \in {None, 0, 1} /\ axi_rvalid \in BOOLEAN /\ (axi_rvalid => ar # None)
  BY DEF AxiInv, AxiTypeOK, SlaveInv
<1>2. CASE Clock
  <2>1. PICK bready \in BOOLEAN, rready \in BOOLEAN : BusClock(bready, rready)
    BY <1>2 DEF Clock
  <2>2. UNCHANGED update_mem
    BY <2>1 DEF BusClock
  <2> QED
    BY <2>1, <2>2, WriteChannelStep, ReadChannelStep
    DEF File!FileNext, File!Perform, MemoryBar, File!Stored, File!we
<1>3. ASSUME NEW call \in File!WriteCalls, Post(call) PROVE File!CallWrite
  BY <1>1, <1>3 DEF Post, File!CallWrite, slaveRegs, busvars
<1>4. CASE CallStore
  BY <1>3, <1>4 DEF CallStore, File!WriteCalls, File!FileNext
<1>5. CASE CallWrite
  BY <1>3, <1>5 DEF CallWrite, File!FileNext
<1>6. CASE CallRead
  BY <1>1, <1>6 DEF CallRead, File!CallRead, File!FileNext, slaveRegs
<1>7. CASE BankSwap
  BY <1>7 DEF BankSwap, File!BankSwap, File!FileNext, slaveRegs
<1>8. CASE UNCHANGED asvars
  BY <1>8 DEF asvars, slaveRegs, busvars, File!filevars
<1> QED
  BY <1>2, <1>4, <1>5, <1>6, <1>7, <1>8 DEF Next

\* The reset state is the start of RegisterFile.
LEMMA FileStart == AxiInit => File!FileInit
<1> SUFFICES ASSUME AxiInit PROVE File!FileInit
  OBVIOUS
<1>1. slv_reg = File!Cleared /\ memory = [c \in Cells |-> File!Zero]
  BY DEF AxiInit
<1>2. slv_reg[7] = 0
  BY <1>1 DEF File!Cleared, File!Registers
<1>3. (IF slv_reg[7] = 1 THEN [memory EXCEPT ![slv_reg[6][1]] = slv_reg[6][2]] ELSE memory)
        = [c \in Cells |-> File!Zero]
  BY <1>1, <1>2
<1>4. (IF axi_rvalid THEN None ELSE ar) = None /\ (IF axi_rvalid THEN axi_rdata ELSE None) = None
  BY DEF AxiInit
<1>5. writes = <<>> /\ axi_bvalid = FALSE /\ update_mem = 0
  BY DEF AxiInit
<1> QED
  BY <1>1, <1>3, <1>4, <1>5 DEF File!FileInit

\* The first write leaves the queues and sets its register.
LEMMA TakenWrite ==
  ASSUME AxiInv, NEW bready \in BOOLEAN, NEW rready \in BOOLEAN, BusClock(bready, rready),
         axi_awready
  PROVE  /\ Len(writes) \in Nat /\ Len(writes) >= 1 /\ writes[1] \in Entries
         /\ Len(writes') = Len(writes) - 1 /\ writes' \in Seq(Entries)
         /\ \A i \in 1 .. Len(writes') : writes'[i] = writes[i + 1]
         /\ Len(aw') = Len(aw) - 1 /\ aw' \in Seq(File!Registers)
         /\ \A i \in 1 .. Len(aw') : aw'[i] = aw[i + 1]
         /\ Len(w') = Len(w) - 1 /\ w' \in Seq(Data)
         /\ \A i \in 1 .. Len(w') : w'[i] = w[i + 1]
         /\ slv_reg' = [slv_reg EXCEPT ![writes[1][1]] = writes[1][2]]
<1>1. writes \in Seq(Entries) /\ aw \in Seq(File!Registers) /\ w \in Seq(Data)
  BY DEF AxiInv, AxiTypeOK
<1>2. writes # <<>> /\ Len(aw) = Len(writes) /\ Len(w) = Len(writes)
  BY WriteHandshake DEF AxiInv, SlaveInv
<1>3. Len(writes) \in Nat \ {0}
  BY <1>1, <1>2, EmptySeq
<1>4. aw # <<>> /\ w # <<>>
  BY <1>2, <1>3, EmptySeq
<1>5. writes' = Tail(writes) /\ aw' = Tail(aw) /\ w' = Tail(w)
  BY WriteHandshake DEF Pop
<1>6. writes[1] \in Entries /\ Head(writes) = writes[1]
  BY <1>1, <1>3, LenProperties
<1>7. slv_reg' = [slv_reg EXCEPT ![writes[1][1]] = writes[1][2]]
  BY <1>6, WriteHandshake
<1>8. /\ Len(writes') = Len(writes) - 1 /\ writes' \in Seq(Entries)
      /\ \A i \in 1 .. Len(writes') : writes'[i] = writes[i + 1]
  BY <1>1, <1>2, <1>5, HeadTailProperties
<1>9. /\ Len(aw') = Len(aw) - 1 /\ aw' \in Seq(File!Registers)
      /\ \A i \in 1 .. Len(aw') : aw'[i] = aw[i + 1]
  BY <1>1, <1>4, <1>5, HeadTailProperties
<1>10. /\ Len(w') = Len(w) - 1 /\ w' \in Seq(Data)
       /\ \A i \in 1 .. Len(w') : w'[i] = w[i + 1]
  BY <1>1, <1>4, <1>5, HeadTailProperties
<1> QED
  BY <1>3, <1>6, <1>7, <1>8, <1>9, <1>10

\* In a cycle without a handshake the queues and the registers keep their values.
LEMMA NoWriteTaken ==
  ASSUME AxiInv, NEW bready \in BOOLEAN, NEW rready \in BOOLEAN, BusClock(bready, rready),
         ~axi_awready
  PROVE  writes' = writes /\ aw' = aw /\ w' = w /\ slv_reg' = slv_reg
  BY WriteHandshake DEF Pop

\* What a register can be given.
LEMMA EntryTypes ==
  ASSUME NEW e \in Entries
  PROVE  /\ e[1] \in {0, 6, 7} /\ e[1] \in File!Registers /\ e[2] \in Data
         /\ e[1] = 6 => e[2] \in Cells \X Words
         /\ e[1] # 6 => e[2] \in {0, 1}
         /\ e[1] = 7 => e = <<7, 0>> \/ e = <<7, 1>>
  BY FileAssumption DEF Entries, Data, File!Registers

\* A cycle of the slave preserves the types.
LEMMA TypeClock ==
  ASSUME AxiInv, NEW bready \in BOOLEAN, NEW rready \in BOOLEAN, BusClock(bready, rready)
  PROVE  AxiTypeOK'
<1>1. AxiTypeOK
  BY DEF AxiInv
<1>2. writes' \in Seq(Entries) /\ aw' \in Seq(File!Registers) /\ w' \in Seq(Data)
  BY <1>1, TakenWrite, NoWriteTaken DEF AxiTypeOK
<1>3. slv_reg' = [r \in File!Registers |-> slv_reg'[r]] /\ slv_reg'[6] \in Cells \X Words
  <2>1. CASE axi_awready
    <3>1. /\ writes[1] \in Entries
          /\ slv_reg' = [slv_reg EXCEPT ![writes[1][1]] = writes[1][2]]
      BY <2>1, TakenWrite
    <3>2. /\ writes[1][1] \in File!Registers
          /\ writes[1][1] = 6 => writes[1][2] \in Cells \X Words
      BY <3>1, EntryTypes
    <3>3. slv_reg' = [r \in File!Registers |-> slv_reg'[r]]
      BY <1>1, <3>1, <3>2 DEF AxiTypeOK
    <3>4. slv_reg'[6] = IF writes[1][1] = 6 THEN writes[1][2] ELSE slv_reg[6]
      BY <1>1, <3>1, <3>2 DEF AxiTypeOK, File!Registers
    <3> QED
      BY <1>1, <3>2, <3>3, <3>4 DEF AxiTypeOK
  <2>2. CASE ~axi_awready
    BY <1>1, <2>2, NoWriteTaken DEF AxiTypeOK
  <2> QED
    BY <1>1, <2>1, <2>2 DEF AxiTypeOK
<1>4. memory' \in [Cells -> Words] /\ want' \in [Cells -> Words] /\ update_mem' \in {0, 1}
  BY <1>1 DEF AxiTypeOK, BusClock, PointStore
<1>5. /\ axi_awready' \in BOOLEAN /\ aw_en' \in BOOLEAN /\ axi_wready' \in BOOLEAN
      /\ axi_bvalid' \in BOOLEAN
  BY <1>1 DEF AxiTypeOK, BusClock, Slave, WriteReady, WriteResponse, TakesWrite
<1>6. axi_arready' \in BOOLEAN /\ axi_rvalid' \in BOOLEAN
  BY <1>1 DEF AxiTypeOK, BusClock, Slave, ReadAddress, ReadResponse
<1>7. /\ S_AXI_AWVALID' \in BOOLEAN /\ S_AXI_WVALID' \in BOOLEAN /\ S_AXI_ARVALID' \in BOOLEAN
      /\ ar' \in {None, 0, 1} /\ ar_sent' \in BOOLEAN
  BY <1>1 DEF AxiTypeOK, BusClock, Master
<1> QED
  BY <1>2, <1>3, <1>4, <1>5, <1>6, <1>7 DEF AxiTypeOK

\* A cycle of the slave preserves the handshakes and the queues.
LEMMA SlaveClock ==
  ASSUME AxiInv, NEW bready \in BOOLEAN, NEW rready \in BOOLEAN, BusClock(bready, rready)
  PROVE  SlaveInv'
<1>1. AxiTypeOK /\ SlaveInv
  BY DEF AxiInv
<1>2. axi_wready' = axi_awready'
  BY <1>1 DEF SlaveInv, AxiTypeOK, BusClock, Slave, WriteReady, TakesWrite
<1>3. ASSUME axi_awready'
      PROVE  S_AXI_AWVALID' /\ S_AXI_WVALID' /\ ~aw_en' /\ ~axi_bvalid' /\ axi_awaddr' = aw'[1]
  <2>1. TakesWrite
    BY <1>3 DEF BusClock, Slave, WriteReady
  <2>2. ~axi_awready /\ ~axi_wready /\ S_AXI_AWVALID /\ S_AXI_WVALID /\ aw_en /\ ~axi_bvalid
    BY <1>1, <2>1 DEF SlaveInv, TakesWrite, AxiTypeOK
  <2>3. S_AXI_AWVALID' /\ S_AXI_WVALID'
    BY <2>2 DEF BusClock, Master, Channel
  <2>4. ~aw_en'
    BY <2>1 DEF BusClock, Slave, WriteReady
  <2>5. ~axi_bvalid'
    BY <2>2, WriteHandshake
  <2>6. axi_awaddr' = Head(aw) /\ aw' = aw
    BY <2>1, <2>2, NoWriteTaken DEF BusClock, Slave, WriteAddress
  <2> QED
    BY <2>3, <2>4, <2>5, <2>6
<1>4. axi_bvalid' => ~aw_en'
  BY <1>1, WriteHandshake
  DEF SlaveInv, AxiTypeOK, BusClock, Slave, WriteReady, TakesWrite
<1>5. /\ S_AXI_AWVALID' => aw' # <<>>
      /\ S_AXI_WVALID' => w' # <<>>
  BY DEF BusClock, Master, Channel
<1>6. Len(aw') = Len(writes') /\ Len(w') = Len(writes')
  BY <1>1, TakenWrite, NoWriteTaken DEF SlaveInv
<1>7. ASSUME NEW i \in 1 .. Len(writes')
      PROVE  writes'[i][1] = aw'[i] /\ writes'[i][2] = w'[i]
  <2>1. CASE axi_awready
    <3>1. Len(writes) \in Nat /\ Len(writes') = Len(writes) - 1
      BY <2>1, TakenWrite
    <3>2. i + 1 \in 1 .. Len(writes)
      BY <3>1
    <3>3. writes'[i] = writes[i + 1] /\ aw'[i] = aw[i + 1] /\ w'[i] = w[i + 1]
      BY <1>6, <2>1, TakenWrite
    <3> QED
      BY <1>1, <3>2, <3>3 DEF SlaveInv
  <2>2. CASE ~axi_awready
    BY <1>1, <2>2, NoWriteTaken DEF SlaveInv
  <2> QED
    BY <1>1, <2>1, <2>2 DEF AxiTypeOK
<1>8. axi_arready' => S_AXI_ARVALID' /\ axi_araddr' = ar'
  <2>1. axi_arready' => /\ ~axi_arready /\ S_AXI_ARVALID /\ axi_araddr' = ar
    BY DEF BusClock, Slave, ReadAddress
  <2>2. S_AXI_ARVALID => ~axi_rvalid
    BY <1>1 DEF SlaveInv
  <2>3. S_AXI_ARVALID /\ ~axi_arready => S_AXI_ARVALID'
    BY DEF BusClock, Master
  <2>4. S_AXI_ARVALID => ar' = ar
    BY <2>2, ReadHandshake
  <2> QED
    BY <2>1, <2>3, <2>4
<1>9. S_AXI_ARVALID' => ar' # None /\ ~ar_sent'
  BY DEF BusClock, Master
<1>10. ASSUME axi_rvalid'
       PROVE  ar' # None /\ ar_sent' /\ axi_rdata' \in Nat
  <2>1. CASE axi_arready
    <3>1. ~axi_rvalid /\ ar' = ar /\ ar # None /\ ar \in {0, 1}
      BY <1>1, <2>1, ReadHandshake DEF AxiTypeOK
    <3>2. ar_sent'
      BY <1>1, <2>1, <3>1 DEF BusClock, Master, SlaveInv
    <3>3. axi_rdata' = File!Value(ar, slv_reg)
      BY <2>1, ReadHandshake
    <3>4. axi_rdata' \in Nat
      BY <1>1, <3>1, <3>3, FileAssumption DEF File!Value, AxiTypeOK
    <3> QED
      BY <3>1, <3>2, <3>4
  <2>2. CASE ~axi_arready
    <3>1. axi_rvalid /\ ~rready /\ axi_rdata' = axi_rdata /\ ar' = ar
      BY <1>10, <2>2, ReadHandshake
    <3> QED
      BY <1>1, <3>1 DEF SlaveInv, BusClock, Master, AxiTypeOK
  <2> QED
    BY <1>1, <2>1, <2>2 DEF AxiTypeOK
<1> QED
  BY <1>2, <1>3, <1>4, <1>5, <1>6, <1>7, <1>8, <1>9, <1>10 DEF SlaveInv

\* A cycle of the slave leaves the writes made of whole calls.
LEMMA CallsClock ==
  ASSUME AxiInv, NEW bready \in BOOLEAN, NEW rready \in BOOLEAN, BusClock(bready, rready)
  PROVE  CallsInv'
<1>1. AxiTypeOK /\ CallsInv
  BY DEF AxiInv
<1>2. CASE ~axi_awready
  BY <1>1, <1>2, NoWriteTaken DEF CallsInv, Opens, Closes, we_o
<1>3. CASE axi_awready
  <2>1. /\ Len(writes) \in Nat /\ Len(writes) >= 1 /\ writes[1] \in Entries
        /\ Len(writes') = Len(writes) - 1
        /\ \A i \in 1 .. Len(writes') : writes'[i] = writes[i + 1]
        /\ slv_reg' = [slv_reg EXCEPT ![writes[1][1]] = writes[1][2]]
    BY <1>3, TakenWrite
  <2>2. \A i \in 1 .. Len(writes') : i + 1 \in 2 .. Len(writes)
    BY <2>1
  <2>3. ASSUME NEW i \in 1 .. Len(writes'), writes'[i][1] = 6
        PROVE  i < Len(writes') /\ writes'[i + 1] = <<7, 1>>
    <3>1. i + 1 < Len(writes) /\ writes[i + 2] = <<7, 1>>
      BY <1>1, <2>1, <2>2, <2>3 DEF CallsInv, Opens
    <3> QED
      BY <2>1, <3>1
  <2>4. ASSUME NEW i \in 1 .. Len(writes'), writes'[i] = <<7, 1>>
        PROVE  i < Len(writes') /\ writes'[i + 1] = <<7, 0>>
    <3>1. i + 1 < Len(writes) /\ writes[i + 2] = <<7, 0>>
      BY <1>1, <2>1, <2>2, <2>4 DEF CallsInv, Opens, Closes
    <3> QED
      BY <2>1, <3>1
  <2>5. ASSUME NEW i \in 2 .. Len(writes'), writes'[i] = <<7, 1>>
        PROVE  writes'[i - 1][1] = 6
    <3>1. i + 1 \in 2 .. Len(writes) /\ writes[i + 1] = <<7, 1>>
      BY <2>1, <2>5
    <3>2. writes[i][1] = 6
      BY <1>1, <3>1 DEF CallsInv, Opens
    <3> QED
      BY <2>1, <3>2
  <2>6. ASSUME slv_reg'[7] = 1
        PROVE  writes' # <<>> /\ writes'[1] = <<7, 0>>
    <3>1. writes[1] = <<7, 1>>
      <4>1. writes[1][1] = 7 => slv_reg'[7] = writes[1][2]
        BY <1>1, <2>1 DEF AxiTypeOK, File!Registers
      <4>2. writes[1][1] # 7 => slv_reg'[7] = slv_reg[7]
        BY <1>1, <2>1, EntryTypes DEF AxiTypeOK, File!Registers
      <4>3. slv_reg[7] = 1 => writes[1] = <<7, 0>>
        BY <1>1 DEF CallsInv, we_o, Closes
      <4>4. writes[1][1] = 7 => writes[1] = <<7, 0>> \/ writes[1] = <<7, 1>>
        BY <2>1, EntryTypes
      <4> QED
        BY <2>6, <4>1, <4>2, <4>3, <4>4
    <3>2. 1 < Len(writes) /\ writes[2] = <<7, 0>>
      BY <1>1, <2>1, <3>1 DEF CallsInv, Opens, Closes
    <3>3. Len(writes') # 0 /\ writes'[1] = <<7, 0>>
      BY <2>1, <3>2
    <3> QED
      BY <3>3, EmptySeq
  <2> QED
    BY <2>3, <2>4, <2>5, <2>6 DEF CallsInv, Opens, Closes, we_o
<1> QED
  BY <1>1, <1>2, <1>3 DEF AxiTypeOK

\* A cycle of the slave leaves every cell to hold what it is to hold: the word that a
\* write stored is out of the queue and in the cell, or behind the port for the next cycle.
LEMMA WantClock ==
  ASSUME AxiInv, NEW bready \in BOOLEAN, NEW rready \in BOOLEAN, BusClock(bready, rready)
  PROVE  WantInv'
<1>1. AxiTypeOK /\ CallsInv /\ WantInv
  BY DEF AxiInv
<1>2. memory' = MemoryBar /\ want' = want
  BY DEF BusClock, PointStore, we_o, MemoryBar, File!Stored, File!we
<1>3. CASE ~axi_awready
  <2>1. writes' = writes /\ slv_reg' = slv_reg
    BY <1>3, NoWriteTaken
  <2>2. File!Stored(slv_reg', memory') = File!Stored(slv_reg, memory)
    BY <1>1, <1>2, <2>1, StoredTwice DEF MemoryBar
  <2> QED
    <3>1. \A i : StoredBy(i)' = StoredBy(i)
      BY <2>1 DEF StoredBy
    <3>2. \A i, c : Stores(i, c)' <=> Stores(i, c)
      BY <2>1, <3>1 DEF Stores, Opens
    <3> QED
      BY <1>1, <1>2, <2>1, <2>2, <3>1, <3>2 DEF WantInv
<1>4. CASE axi_awready
  <2>1. /\ Len(writes) \in Nat /\ Len(writes) >= 1 /\ writes[1] \in Entries
        /\ Len(writes') = Len(writes) - 1
        /\ \A i \in 1 .. Len(writes') : writes'[i] = writes[i + 1]
        /\ slv_reg' = [slv_reg EXCEPT ![writes[1][1]] = writes[1][2]]
    BY <1>4, TakenWrite
  <2>2. /\ slv_reg'[6] = IF writes[1][1] = 6 THEN writes[1][2] ELSE slv_reg[6]
        /\ slv_reg'[7] = IF writes[1][1] = 7 THEN writes[1][2] ELSE slv_reg[7]
    BY <1>1, <2>1, EntryTypes DEF AxiTypeOK, File!Registers
  <2>3. ASSUME NEW i \in 1 .. Len(writes'), Opens(i)'
        PROVE  Opens(i + 1) /\ StoredBy(i)' = StoredBy(i + 1)
    <3>1. Opens(i + 1) /\ i + 1 \in 2 .. Len(writes)
      BY <2>1, <2>3 DEF Opens
    <3>2. CASE i = 1
      <4>1. writes[1][1] = 6
        BY <1>1, <3>1, <3>2 DEF CallsInv
      <4> QED
        BY <2>2, <3>1, <3>2, <4>1 DEF StoredBy
    <3>3. CASE i # 1
      <4>1. i - 1 \in 1 .. Len(writes') /\ (i - 1) + 1 = i /\ i + 1 # 1 /\ (i + 1) - 1 = i
        BY <2>1, <3>3
      <4>2. writes'[i - 1] = writes[i]
        BY <2>1, <4>1
      <4> QED
        BY <3>1, <3>3, <4>1, <4>2 DEF StoredBy
    <3> QED
      BY <3>2, <3>3
  <2>4. ASSUME NEW i \in 1 .. Len(writes'), NEW c
        PROVE  Stores(i, c)' <=> Stores(i + 1, c)
    <3>1. Opens(i)' <=> Opens(i + 1)
      BY <2>1 DEF Opens
    <3> QED
      BY <2>3, <3>1 DEF Stores
  <2>5. ASSUME NEW c \in Cells, NEW i \in 1 .. Len(writes'), Stores(i, c)',
               \A j \in i + 1 .. Len(writes') : ~Stores(j, c)'
        PROVE  want'[c] = StoredBy(i)'[2]
    <3>1. Stores(i + 1, c) /\ StoredBy(i)' = StoredBy(i + 1) /\ i + 1 \in 1 .. Len(writes)
      BY <2>1, <2>3, <2>4, <2>5 DEF Stores
    <3>2. ASSUME NEW j \in (i + 1) + 1 .. Len(writes) PROVE ~Stores(j, c)
      <4>1. j - 1 \in i + 1 .. Len(writes') /\ (j - 1) + 1 = j /\ j - 1 \in 1 .. Len(writes')
        BY <2>1
      <4> QED
        BY <2>4, <2>5, <4>1
    <3> QED
      BY <1>1, <1>2, <3>1, <3>2 DEF WantInv
  <2>6. ASSUME NEW c \in Cells, \A i \in 1 .. Len(writes') : ~Stores(i, c)'
        PROVE  want'[c] = File!Stored(slv_reg, memory)'[c]
    <3>1. ASSUME NEW j \in 2 .. Len(writes) PROVE ~Stores(j, c)
      <4>1. j - 1 \in 1 .. Len(writes') /\ (j - 1) + 1 = j
        BY <2>1
      <4> QED
        BY <2>4, <2>6, <4>1
    <3>2. CASE Stores(1, c)
      <4>1. writes[1] = <<7, 1>> /\ slv_reg[6][1] = c /\ StoredBy(1) = slv_reg[6]
        BY <3>2 DEF Stores, Opens, StoredBy
      <4>2. want[c] = slv_reg[6][2]
        BY <1>1, <2>1, <3>1, <3>2, <4>1 DEF WantInv
      <4>3. slv_reg'[6] = slv_reg[6] /\ slv_reg'[7] = 1
        BY <2>2, <4>1
      <4>4. memory' \in [Cells -> Words]
        BY <1>1, <1>2, StoredTwice
      <4> QED
        BY <1>2, <4>1, <4>2, <4>3, <4>4 DEF File!Stored, File!we
    <3>3. CASE ~Stores(1, c)
      <4>1. \A j \in 1 .. Len(writes) : ~Stores(j, c)
        BY <2>1, <3>1, <3>3
      <4>2. want[c] = MemoryBar[c]
        BY <1>1, <4>1 DEF WantInv, MemoryBar
      <4>3. slv_reg'[7] = 1 => slv_reg'[6] = slv_reg[6] /\ slv_reg[6][1] # c
        <5>1. slv_reg[7] = 1 => writes[1] = <<7, 0>>
          BY <1>1 DEF CallsInv, we_o, Closes
        <5>2. slv_reg'[7] = 1 => writes[1][1] = 7 /\ writes[1][2] = 1
          BY <2>2, <5>1
        <5>3. slv_reg'[7] = 1 => writes[1] = <<7, 1>>
          BY <2>1, <5>2, EntryTypes
        <5> QED
          BY <2>2, <3>3, <5>2, <5>3 DEF Stores, Opens, StoredBy
      <4>4. memory' \in [Cells -> Words]
        BY <1>1, <1>2, StoredTwice
      <4> QED
        BY <1>2, <4>2, <4>3, <4>4 DEF File!Stored, File!we
    <3> QED
      BY <3>2, <3>3
  <2> QED
    BY <2>5, <2>6 DEF WantInv
<1> QED
  BY <1>1, <1>3, <1>4 DEF AxiTypeOK

\* The fields of the entries of a call, as the channels carry them.
LEMMA CallFields ==
  ASSUME NEW call \in Seq(Entries)
  PROVE  /\ [i \in DOMAIN call |-> call[i][1]] \in Seq(File!Registers)
         /\ [i \in DOMAIN call |-> call[i][2]] \in Seq(Data)
         /\ Len([i \in DOMAIN call |-> call[i][1]]) = Len(call)
         /\ Len([i \in DOMAIN call |-> call[i][2]]) = Len(call)
<1>1. DOMAIN call = 1 .. Len(call) /\ Len(call) \in Nat
  BY LenProperties
<1>2. \A i \in 1 .. Len(call) : call[i] \in Entries
  BY ElementOfSeq
<1>3. \A i \in 1 .. Len(call) : call[i][1] \in File!Registers /\ call[i][2] \in Data
  BY <1>2, EntryTypes
<1>4. [i \in DOMAIN call |-> call[i][1]] \in Seq(File!Registers)
  BY <1>1, <1>3
<1>5. [i \in DOMAIN call |-> call[i][2]] \in Seq(Data)
  BY <1>1, <1>3
<1>6. Len([i \in DOMAIN call |-> call[i][1]]) = Len(call)
  BY <1>1
<1>7. Len([i \in DOMAIN call |-> call[i][2]]) = Len(call)
  BY <1>1
<1> QED
  BY <1>4, <1>5, <1>6, <1>7

\* A call puts its writes at the end of the queues.
LEMMA PostedWrites ==
  ASSUME AxiInv, NEW call \in Seq(Entries), Post(call)
  PROVE  /\ Len(writes) \in Nat /\ Len(call) \in Nat
         /\ writes' \in Seq(Entries) /\ Len(writes') = Len(writes) + Len(call)
         /\ \A i \in 1 .. Len(writes) : writes'[i] = writes[i]
         /\ \A i \in 1 .. Len(call) : writes'[Len(writes) + i] = call[i]
<1>1. writes \in Seq(Entries) /\ writes' = writes \o call
  BY DEF AxiInv, AxiTypeOK, Post
<1>2. /\ writes' \in Seq(Entries) /\ Len(writes') = Len(writes) + Len(call)
      /\ \A i \in 1 .. Len(writes) + Len(call) :
           writes'[i] = IF i <= Len(writes) THEN writes[i] ELSE call[i - Len(writes)]
  BY <1>1, ConcatProperties
<1>3. Len(writes) \in Nat /\ Len(call) \in Nat
  BY <1>1, LenProperties
<1>4. \A i \in 1 .. Len(writes) : writes'[i] = writes[i]
  BY <1>2, <1>3
<1>5. \A i \in 1 .. Len(call) : writes'[Len(writes) + i] = call[i]
  <2> SUFFICES ASSUME NEW i \in 1 .. Len(call) PROVE writes'[Len(writes) + i] = call[i]
    OBVIOUS
  <2>1. /\ Len(writes) + i \in 1 .. Len(writes) + Len(call)
        /\ ~(Len(writes) + i <= Len(writes)) /\ (Len(writes) + i) - Len(writes) = i
    BY <1>3
  <2> QED
    BY <1>2, <2>1
<1> QED
  BY <1>2, <1>3, <1>4, <1>5

\* A call preserves the handshakes and keeps address and data of its writes together.
LEMMA SlavePost ==
  ASSUME AxiInv, NEW call \in Seq(Entries), Post(call)
  PROVE  SlaveInv' /\ aw' \in Seq(File!Registers) /\ w' \in Seq(Data)
<1> DEFINE as == [i \in DOMAIN call |-> call[i][1]]
           ws == [i \in DOMAIN call |-> call[i][2]]
           n  == Len(writes)
<1>1. AxiTypeOK /\ SlaveInv
  BY DEF AxiInv
<1>2. /\ aw \in Seq(File!Registers) /\ w \in Seq(Data) /\ Len(aw) = n /\ Len(w) = n
      /\ n \in Nat /\ Len(call) \in Nat /\ Len(writes') = n + Len(call)
  BY <1>1, PostedWrites DEF AxiTypeOK, SlaveInv
<1>3. /\ as \in Seq(File!Registers) /\ Len(as) = Len(call)
      /\ ws \in Seq(Data) /\ Len(ws) = Len(call)
  BY CallFields
<1>4. aw' = aw \o as /\ w' = w \o ws
  BY DEF Post
<1> HIDE DEF as, ws, n
<1>5. /\ aw' \in Seq(File!Registers) /\ Len(aw') = n + Len(call)
      /\ \A i \in 1 .. n + Len(call) : aw'[i] = IF i <= n THEN aw[i] ELSE as[i - n]
  <2>1. aw \in Seq(File!Registers) /\ as \in Seq(File!Registers)
    BY <1>2, <1>3
  <2>2. /\ aw \o as \in Seq(File!Registers) /\ Len(aw \o as) = Len(aw) + Len(as)
        /\ \A i \in 1 .. Len(aw) + Len(as) :
             (aw \o as)[i] = IF i <= Len(aw) THEN aw[i] ELSE as[i - Len(aw)]
    BY <2>1, ConcatProperties
  <2> QED
    BY <1>2, <1>3, <1>4, <2>2
<1>6. /\ w' \in Seq(Data) /\ Len(w') = n + Len(call)
      /\ \A i \in 1 .. n + Len(call) : w'[i] = IF i <= n THEN w[i] ELSE ws[i - n]
  <2>1. w \in Seq(Data) /\ ws \in Seq(Data)
    BY <1>2, <1>3
  <2>2. /\ w \o ws \in Seq(Data) /\ Len(w \o ws) = Len(w) + Len(ws)
        /\ \A i \in 1 .. Len(w) + Len(ws) :
             (w \o ws)[i] = IF i <= Len(w) THEN w[i] ELSE ws[i - Len(w)]
    BY <2>1, ConcatProperties
  <2> QED
    BY <1>2, <1>3, <1>4, <2>2
<1>7. ASSUME NEW i \in 1 .. Len(writes')
      PROVE  writes'[i][1] = aw'[i] /\ writes'[i][2] = w'[i]
  <2>1. CASE i <= n
    <3>1. i \in 1 .. n /\ i \in 1 .. n + Len(call)
      BY <1>2, <2>1
    <3>2. aw'[i] = aw[i] /\ w'[i] = w[i]
      BY <1>5, <1>6, <2>1, <3>1
    <3>3. writes'[i] = writes[i]
      BY <3>1, PostedWrites DEF n
    <3> QED
      BY <1>1, <3>1, <3>2, <3>3 DEF SlaveInv, n
  <2>2. CASE ~(i <= n)
    <3>1. i - n \in 1 .. Len(call) /\ n + (i - n) = i
      BY <1>2, <2>2
    <3>2. writes'[i] = call[i - n]
      BY <3>1, PostedWrites DEF n
    <3>3. aw'[i] = as[i - n] /\ w'[i] = ws[i - n]
      BY <1>2, <1>5, <1>6, <2>2
    <3>4. i - n \in DOMAIN call
      BY <3>1, LenProperties
    <3> QED
      BY <3>2, <3>3, <3>4 DEF as, ws
  <2> QED
    BY <2>1, <2>2
<1>8. S_AXI_AWVALID => aw' # <<>> /\ aw'[1] = aw[1]
  <2>1. S_AXI_AWVALID => Len(aw) # 0
    BY <1>1, <1>2, EmptySeq DEF SlaveInv
  <2>2. n # 0 => 1 \in 1 .. n + Len(call) /\ 1 <= n /\ n + Len(call) # 0
    BY <1>2
  <2>3. n # 0 => aw'[1] = aw[1] /\ Len(aw') # 0
    BY <1>5, <2>2
  <2>4. Len(aw') # 0 => aw' # <<>>
    BY EmptySeq
  <2> QED
    BY <1>2, <2>1, <2>3, <2>4
<1>9. S_AXI_WVALID => w' # <<>>
  <2>1. S_AXI_WVALID => Len(w) # 0
    BY <1>1, <1>2, EmptySeq DEF SlaveInv
  <2>2. S_AXI_WVALID => Len(w') # 0
    BY <1>2, <1>6, <2>1
  <2> QED
    BY <2>2, EmptySeq
<1>10. Len(aw') = Len(writes') /\ Len(w') = Len(writes')
  BY <1>2, <1>5, <1>6
<1>11. UNCHANGED <<slaveRegs, busvars, ar, ar_sent>>
  BY DEF Post
<1>12. SlaveInv'
  BY <1>1, <1>7, <1>8, <1>9, <1>10, <1>11 DEF SlaveInv, slaveRegs, busvars
<1> QED
  BY <1>5, <1>6, <1>12

\* TimingCore_Write: the word for its cell, the port opened, the port closed.
LEMMA CallStoreStep == AxiInv /\ CallStore => AxiInv'
<1> SUFFICES ASSUME AxiInv, CallStore PROVE AxiInv'
  OBVIOUS
<1>1. PICK p \in Points : /\ Post(File!TimingCore_Write(p))
                         /\ want' = [want EXCEPT ![p[1]] = p[2]]
  BY DEF CallStore
<1> DEFINE call == File!TimingCore_Write(p)
<1>2. p \in Cells \X Words /\ p[1] \in Cells /\ p[2] \in Words
  BY FileAssumption
<1>3. /\ call \in Seq(Entries) /\ Len(call) = 3
      /\ call[1] = <<6, p>> /\ call[2] = <<7, 1>> /\ call[3] = <<7, 0>>
  BY DEF File!TimingCore_Write, Entries
<1>4. Post(call)
  BY <1>1
<1> HIDE DEF call
<1>0. PICK n \in Nat : n = Len(writes)
  BY <1>3, <1>4, PostedWrites
<1>5. /\ writes' \in Seq(Entries) /\ Len(writes') = n + 3
      /\ \A i \in 1 .. n : writes'[i] = writes[i]
      /\ writes'[n + 1] = <<6, p>>
      /\ writes'[n + 2] = <<7, 1>>
      /\ writes'[n + 3] = <<7, 0>>
  <2>1. /\ writes' \in Seq(Entries) /\ Len(writes') = n + Len(call)
        /\ \A i \in 1 .. n : writes'[i] = writes[i]
        /\ \A i \in 1 .. Len(call) : writes'[n + i] = call[i]
    BY <1>0, <1>3, <1>4, PostedWrites
  <2>2. writes'[n + 1] = call[1] /\ writes'[n + 2] = call[2] /\ writes'[n + 3] = call[3]
    BY <1>3, <2>1
  <2> QED
    BY <1>3, <2>1, <2>2
<1>6. SlaveInv' /\ aw' \in Seq(File!Registers) /\ w' \in Seq(Data)
  BY <1>3, <1>4, SlavePost
<1>7. AxiTypeOK /\ CallsInv /\ WantInv
  BY DEF AxiInv
<1>8. UNCHANGED <<slaveRegs, busvars, ar, ar_sent, update_mem, memory>>
  BY <1>4 DEF Post
<1>9. want' = [want EXCEPT ![p[1]] = p[2]] /\ want' \in [Cells -> Words]
  BY <1>1, <1>2, <1>7 DEF AxiTypeOK
<1>10. AxiTypeOK'
  BY <1>5, <1>6, <1>7, <1>8, <1>9 DEF AxiTypeOK, slaveRegs, busvars
<1>11. \A i \in 1 .. Len(writes') : i \in 1 .. n \/ i = n + 1 \/ i = n + 2 \/ i = n + 3
  BY <1>5
<1>12. writes'[n + 1][1] = 6 /\ writes'[n + 2][1] = 7 /\ writes'[n + 3][1] = 7
  BY <1>5
<1>13. /\ ~Opens(n + 1)' /\ ~Opens(n + 3)' /\ Opens(n + 2)' /\ Closes(n + 3)'
       /\ \A i \in 1 .. n : (Opens(i)' <=> Opens(i)) /\ (Closes(i)' <=> Closes(i))
  BY <1>5 DEF Opens, Closes
<1>14. CallsInv'
  <2>1. ASSUME NEW i \in 1 .. Len(writes'), writes'[i][1] = 6
        PROVE  i < Len(writes') /\ Opens(i + 1)'
    <3>1. CASE i \in 1 .. n
      <4>1. i < n /\ Opens(i + 1)
        BY <1>0, <1>5, <1>7, <2>1, <3>1 DEF CallsInv
      <4>2. i + 1 \in 1 .. n /\ i < n + 3
        BY <1>5, <3>1, <4>1
      <4> QED
        BY <1>5, <1>13, <4>1, <4>2
    <3>2. CASE i = n + 1
      <4>1. i < n + 3 /\ i + 1 = n + 2
        BY <1>5, <3>2
      <4> QED
        BY <1>5, <1>13, <4>1
    <3> QED
      BY <1>11, <1>12, <2>1, <3>1, <3>2
  <2>2. ASSUME NEW i \in 1 .. Len(writes'), Opens(i)'
        PROVE  i < Len(writes') /\ Closes(i + 1)'
    <3>1. CASE i \in 1 .. n
      <4>1. i < n /\ Closes(i + 1)
        BY <1>0, <1>7, <1>13, <2>2, <3>1 DEF CallsInv
      <4>2. i + 1 \in 1 .. n /\ i < n + 3
        BY <1>5, <3>1, <4>1
      <4> QED
        BY <1>5, <1>13, <4>1, <4>2
    <3>2. CASE i = n + 2
      <4>1. i < n + 3 /\ i + 1 = n + 3
        BY <1>5, <3>2
      <4> QED
        BY <1>5, <1>13, <4>1
    <3> QED
      BY <1>11, <1>13, <2>2, <3>1, <3>2
  <2>3. ASSUME NEW i \in 2 .. Len(writes'), Opens(i)'
        PROVE  writes'[i - 1][1] = 6
    <3>1. CASE i \in 1 .. n
      <4>1. writes[i - 1][1] = 6 /\ i - 1 \in 1 .. n
        BY <1>0, <1>5, <1>7, <1>13, <2>3, <3>1 DEF CallsInv
      <4> QED
        BY <1>5, <4>1
    <3>2. CASE i = n + 2
      <4>1. i - 1 = n + 1
        BY <1>5, <3>2
      <4> QED
        BY <1>12, <4>1
    <3>3. i \in 1 .. Len(writes')
      BY <1>5
    <3> QED
      BY <1>11, <1>13, <2>3, <3>1, <3>2, <3>3
  <2>4. ASSUME we_o'
        PROVE  writes' # <<>> /\ Closes(1)'
    <3>1. writes # <<>> /\ Closes(1)
      BY <1>7, <1>8, <2>4 DEF CallsInv, we_o, slaveRegs
    <3>2. n # 0
      BY <1>0, <1>7, <3>1, EmptySeq DEF AxiTypeOK
    <3>3. 1 \in 1 .. n /\ Len(writes') # 0
      BY <1>5, <3>2
    <3> QED
      BY <1>13, <3>1, <3>3, EmptySeq
  <2> QED
    BY <2>1, <2>2, <2>3, <2>4 DEF CallsInv
<1>15. WantInv'
  <2>1. ASSUME NEW i \in 1 .. n PROVE StoredBy(i)' = StoredBy(i)
    <3>1. i # 1 => i - 1 \in 1 .. n
      BY <1>5
    <3>2. slv_reg' = slv_reg
      BY <1>8 DEF slaveRegs
    <3> QED
      BY <1>5, <3>1, <3>2 DEF StoredBy
  <2>2. StoredBy(n + 2)' = p
    <3>1. n + 2 # 1 /\ (n + 2) - 1 = n + 1
      BY <1>5
    <3> QED
      BY <1>5, <3>1 DEF StoredBy
  <2>3. ASSUME NEW c
        PROVE  /\ \A i \in 1 .. n : Stores(i, c)' <=> Stores(i, c)
               /\ ~Stores(n + 1, c)' /\ ~Stores(n + 3, c)'
               /\ Stores(n + 2, c)' <=> p[1] = c
    BY <1>13, <2>1, <2>2 DEF Stores
  <2>4. n + 1 \in 1 .. Len(writes') /\ n + 2 \in 1 .. Len(writes')
    BY <1>5
  <2>5. ASSUME NEW c \in Cells, NEW i \in 1 .. Len(writes'), Stores(i, c)',
               \A j \in i + 1 .. Len(writes') : ~Stores(j, c)'
        PROVE  want'[c] = StoredBy(i)'[2]
    <3>1. CASE i = n + 2
      BY <1>7, <1>9, <2>2, <2>3, <2>5, <3>1 DEF AxiTypeOK
    <3>2. CASE i \in 1 .. n
      <4>1. n + 2 \in i + 1 .. Len(writes')
        BY <1>5, <3>2
      <4>2. p[1] # c
        BY <2>3, <2>5, <4>1
      <4>3. \A j \in i + 1 .. n : j \in 1 .. n /\ j \in i + 1 .. Len(writes')
        BY <1>5, <3>2
      <4>4. \A j \in i + 1 .. n : ~Stores(j, c)
        BY <2>3, <2>5, <4>3
      <4>5. want[c] = StoredBy(i)[2]
        BY <1>0, <1>7, <2>3, <2>5, <3>2, <4>4 DEF WantInv
      <4> QED
        BY <1>7, <1>9, <2>1, <3>2, <4>2, <4>5 DEF AxiTypeOK
    <3> QED
      BY <1>11, <2>3, <2>5, <3>1, <3>2
  <2>6. ASSUME NEW c \in Cells, \A i \in 1 .. Len(writes') : ~Stores(i, c)'
        PROVE  want'[c] = File!Stored(slv_reg, memory)'[c]
    <3>1. p[1] # c
      BY <2>3, <2>4, <2>6
    <3>2. \A i \in 1 .. n : i \in 1 .. Len(writes')
      BY <1>5
    <3>3. \A i \in 1 .. n : ~Stores(i, c)
      BY <2>3, <2>6, <3>2
    <3>4. want[c] = File!Stored(slv_reg, memory)[c]
      BY <1>0, <1>7, <3>3 DEF WantInv
    <3>5. slv_reg' = slv_reg /\ memory' = memory
      BY <1>8 DEF slaveRegs
    <3>6. File!Stored(slv_reg, memory)' = File!Stored(slv_reg, memory)
      BY <3>5 DEF File!Stored, File!we
    <3> QED
      BY <1>7, <1>9, <3>1, <3>4, <3>6 DEF AxiTypeOK
  <2> QED
    BY <2>5, <2>6 DEF WantInv
<1> QED
  BY <1>6, <1>10, <1>14, <1>15 DEF AxiInv

\* A write of one register stores nothing.
LEMMA CallWriteStep == AxiInv /\ CallWrite => AxiInv'
<1> SUFFICES ASSUME AxiInv, CallWrite PROVE AxiInv'
  OBVIOUS
<1>1. PICK call \in File!WriteCalls : Len(call) = 1 /\ Post(call)
  BY DEF CallWrite
<1>2. want' = want
  BY DEF CallWrite
<1>3. call \in Seq(Entries) /\ call[1][1] = 0
  <2>1. \A p \in Points : Len(File!TimingCore_Write(p)) = 3
    BY DEF File!TimingCore_Write
  <2>2. call = <<<<0, 1>>>> \/ call = <<<<0, 0>>>>
    BY <1>1, <2>1
    DEF File!WriteCalls, File!TimingCore_Memory_Enable, File!TimingCore_Memory_Disable
  <2> QED
    BY <2>2 DEF Entries
<1>4. PICK n \in Nat : n = Len(writes)
  BY <1>1, <1>3, PostedWrites
<1>5. /\ writes' \in Seq(Entries) /\ Len(writes') = n + 1
      /\ \A i \in 1 .. n : writes'[i] = writes[i]
      /\ writes'[n + 1][1] = 0
  <2>1. /\ writes' \in Seq(Entries) /\ Len(writes') = n + Len(call)
        /\ \A i \in 1 .. n : writes'[i] = writes[i]
        /\ \A i \in 1 .. Len(call) : writes'[n + i] = call[i]
    BY <1>1, <1>3, <1>4, PostedWrites
  <2>2. writes'[n + 1] = call[1]
    BY <1>1, <2>1
  <2> QED
    BY <1>1, <1>3, <2>1, <2>2
<1>6. SlaveInv' /\ aw' \in Seq(File!Registers) /\ w' \in Seq(Data)
  BY <1>1, <1>3, SlavePost
<1>7. AxiTypeOK /\ CallsInv /\ WantInv
  BY DEF AxiInv
<1>8. UNCHANGED <<slaveRegs, busvars, ar, ar_sent, update_mem, memory>>
  BY <1>1 DEF Post
<1>9. AxiTypeOK'
  BY <1>2, <1>5, <1>6, <1>7, <1>8 DEF AxiTypeOK, slaveRegs, busvars
<1>10. \A i \in 1 .. Len(writes') : i \in 1 .. n \/ i = n + 1
  BY <1>5
<1>11. /\ ~Opens(n + 1)'
       /\ \A i \in 1 .. n : (Opens(i)' <=> Opens(i)) /\ (Closes(i)' <=> Closes(i))
  BY <1>5 DEF Opens, Closes
<1>12. CallsInv'
  <2>1. ASSUME NEW i \in 1 .. Len(writes'), writes'[i][1] = 6
        PROVE  i < Len(writes') /\ Opens(i + 1)'
    <3>1. i \in 1 .. n /\ writes[i][1] = 6
      BY <1>5, <1>10, <2>1
    <3>2. i < n /\ Opens(i + 1)
      BY <1>4, <1>7, <3>1 DEF CallsInv
    <3>3. i + 1 \in 1 .. n /\ i < n + 1
      BY <3>1, <3>2
    <3> QED
      BY <1>5, <1>11, <3>2, <3>3
  <2>2. ASSUME NEW i \in 1 .. Len(writes'), Opens(i)'
        PROVE  i < Len(writes') /\ Closes(i + 1)'
    <3>1. i \in 1 .. n /\ Opens(i)
      BY <1>10, <1>11, <2>2
    <3>2. i < n /\ Closes(i + 1)
      BY <1>4, <1>7, <3>1 DEF CallsInv
    <3>3. i + 1 \in 1 .. n /\ i < n + 1
      BY <3>1, <3>2
    <3> QED
      BY <1>5, <1>11, <3>2, <3>3
  <2>3. ASSUME NEW i \in 2 .. Len(writes'), Opens(i)'
        PROVE  writes'[i - 1][1] = 6
    <3>1. i \in 1 .. Len(writes')
      BY <1>5
    <3>2. i \in 2 .. n /\ Opens(i) /\ i - 1 \in 1 .. n
      BY <1>10, <1>11, <2>3, <3>1
    <3>3. writes[i - 1][1] = 6
      BY <1>4, <1>7, <3>2 DEF CallsInv
    <3> QED
      BY <1>5, <3>2, <3>3
  <2>4. ASSUME we_o'
        PROVE  writes' # <<>> /\ Closes(1)'
    <3>1. writes # <<>> /\ Closes(1)
      BY <1>7, <1>8, <2>4 DEF CallsInv, we_o, slaveRegs
    <3>2. n # 0
      BY <1>4, <1>7, <3>1, EmptySeq DEF AxiTypeOK
    <3>3. 1 \in 1 .. n /\ Len(writes') # 0
      BY <1>5, <3>2
    <3> QED
      BY <1>11, <3>1, <3>3, EmptySeq
  <2> QED
    BY <2>1, <2>2, <2>3, <2>4 DEF CallsInv
<1>13. WantInv'
  <2>1. ASSUME NEW i \in 1 .. n PROVE StoredBy(i)' = StoredBy(i)
    <3>1. i # 1 => i - 1 \in 1 .. n
      OBVIOUS
    <3>2. slv_reg' = slv_reg
      BY <1>8 DEF slaveRegs
    <3> QED
      BY <1>5, <3>1, <3>2 DEF StoredBy
  <2>2. ASSUME NEW c
        PROVE  ~Stores(n + 1, c)' /\ \A i \in 1 .. n : Stores(i, c)' <=> Stores(i, c)
    BY <1>11, <2>1 DEF Stores
  <2>3. ASSUME NEW c \in Cells, NEW i \in 1 .. Len(writes'), Stores(i, c)',
               \A j \in i + 1 .. Len(writes') : ~Stores(j, c)'
        PROVE  want'[c] = StoredBy(i)'[2]
    <3>1. i \in 1 .. n
      BY <1>10, <2>2, <2>3
    <3>2. \A j \in i + 1 .. n : j \in 1 .. n /\ j \in i + 1 .. Len(writes')
      BY <1>5
    <3>3. \A j \in i + 1 .. n : ~Stores(j, c)
      BY <2>2, <2>3, <3>2
    <3>4. want[c] = StoredBy(i)[2]
      BY <1>4, <1>7, <2>2, <2>3, <3>1, <3>3 DEF WantInv
    <3> QED
      BY <1>2, <2>1, <3>1, <3>4
  <2>4. ASSUME NEW c \in Cells, \A i \in 1 .. Len(writes') : ~Stores(i, c)'
        PROVE  want'[c] = File!Stored(slv_reg, memory)'[c]
    <3>1. \A i \in 1 .. n : i \in 1 .. Len(writes')
      BY <1>5
    <3>2. \A i \in 1 .. n : ~Stores(i, c)
      BY <2>2, <2>4, <3>1
    <3>3. want[c] = File!Stored(slv_reg, memory)[c]
      BY <1>4, <1>7, <3>2 DEF WantInv
    <3>4. slv_reg' = slv_reg /\ memory' = memory
      BY <1>8 DEF slaveRegs
    <3>5. File!Stored(slv_reg, memory)' = File!Stored(slv_reg, memory)
      BY <3>4 DEF File!Stored, File!we
    <3> QED
      BY <1>2, <3>3, <3>5
  <2> QED
    BY <2>3, <2>4 DEF WantInv
<1> QED
  BY <1>6, <1>9, <1>12, <1>13 DEF AxiInv

\* Steps that leave writes, registers and memory alone.
LEMMA StoreUntouched ==
  ASSUME UNCHANGED <<slv_reg, writes, memory, want>>
  PROVE  (CallsInv => CallsInv') /\ (WantInv => WantInv')
<1>1. CallsInv => CallsInv'
  BY DEF CallsInv, Opens, Closes, we_o
<1>2. \A i : StoredBy(i)' = StoredBy(i)
  BY DEF StoredBy
<1>3. \A i, c : Stores(i, c)' <=> Stores(i, c)
  BY <1>2 DEF Stores, Opens
<1>4. File!Stored(slv_reg, memory)' = File!Stored(slv_reg, memory)
  BY DEF File!Stored, File!we
<1>5. WantInv => WantInv'
  BY <1>2, <1>3, <1>4 DEF WantInv
<1> QED
  BY <1>1, <1>5

\* Every step preserves the invariant.
LEMMA AxiInvStep == AxiInv /\ [Next]_asvars => AxiInv'
<1> SUFFICES ASSUME AxiInv, [Next]_asvars PROVE AxiInv'
  OBVIOUS
<1>1. AxiTypeOK /\ SlaveInv /\ CallsInv /\ WantInv
  BY DEF AxiInv
<1>2. CASE Clock
  BY <1>2, TypeClock, SlaveClock, CallsClock, WantClock DEF Clock, AxiInv
<1>3. CASE CallRead
  <2>1. CallsInv' /\ WantInv'
    BY <1>1, <1>3, StoreUntouched DEF CallRead, slaveRegs
  <2>2. AxiTypeOK'
    BY <1>1, <1>3 DEF CallRead, AxiTypeOK, slaveRegs, busvars
  <2>3. SlaveInv'
    BY <1>1, <1>3 DEF CallRead, SlaveInv, AxiTypeOK, slaveRegs, busvars
  <2> QED
    BY <2>1, <2>2, <2>3 DEF AxiInv
<1>4. CASE BankSwap
  <2>1. CallsInv' /\ WantInv'
    BY <1>1, <1>4, StoreUntouched DEF BankSwap, slaveRegs
  <2>2. AxiTypeOK'
    BY <1>1, <1>4 DEF BankSwap, AxiTypeOK, slaveRegs, busvars
  <2>3. SlaveInv'
    BY <1>1, <1>4 DEF BankSwap, SlaveInv, slaveRegs, busvars
  <2> QED
    BY <2>1, <2>2, <2>3 DEF AxiInv
<1>5. CASE UNCHANGED asvars
  <2>1. CallsInv' /\ WantInv'
    BY <1>1, <1>5, StoreUntouched DEF asvars, slaveRegs
  <2>2. AxiTypeOK'
    BY <1>1, <1>5 DEF asvars, AxiTypeOK, slaveRegs, busvars
  <2>3. SlaveInv'
    BY <1>1, <1>5 DEF asvars, SlaveInv, slaveRegs, busvars
  <2> QED
    BY <2>1, <2>2, <2>3 DEF AxiInv
<1> QED
  BY <1>2, <1>3, <1>4, <1>5, CallStoreStep, CallWriteStep DEF Next

\* Without posted writes the port is shut and the memory holds what it is to hold.
LEMMA AxiInvGivesWords == AxiInv => WordsReachMemory
<1> SUFFICES ASSUME AxiInv, writes = <<>> PROVE ~we_o /\ memory = want
  BY DEF WordsReachMemory
<1>1. AxiTypeOK /\ CallsInv /\ WantInv
  BY DEF AxiInv
<1>2. ~we_o
  BY <1>1 DEF CallsInv
<1>3. \A i \in 1 .. Len(writes) : FALSE
  BY EmptySeq
<1>4. \A c \in Cells : want[c] = memory[c]
  BY <1>1, <1>2, <1>3 DEF WantInv, File!Stored, File!we, we_o
<1> QED
  BY <1>1, <1>2, <1>4 DEF AxiTypeOK

\* The invariant of the slave, its bus and the calls of the program
\* (TimingCoreV3_itf_v1_0_S00_AXI.v:148-454, AXIInterfaceClass.cpp:391-451).
THEOREM AxiInvariance == AxiSpec => []AxiInv
  BY AxiInitInv, AxiInvStep, PTL DEF AxiSpec

\* When all writes have arrived, the write port is shut and the memory holds in every cell
\* the last word that TimingCore_Write was given for it, for any number of posted writes
\* (AXIInterfaceClass.cpp:422-431, TimingCoreV3_itf_v1_0_S00_AXI.v:233-321,458-468).
THEOREM WordsAlwaysReachMemory == AxiSpec => []WordsReachMemory
  BY AxiInvariance, AxiInvGivesWords, PTL

\* The slave is an atomic register file in every step: every write reaches its register
\* once and in order and is acknowledged once, every read returns one value of its
\* register (TimingCoreV3_itf_v1_0_S00_AXI.v:148-454).
THEOREM SlaveIsRegisterFile ==
  AxiSpec => File!FileInit /\ [][File!FileNext]_File!filevars
<1>1. AxiInv /\ [Next]_asvars => [File!FileNext]_File!filevars
  BY FileStep
<1> QED
  BY <1>1, AxiInvariance, FileStart, PTL DEF AxiSpec
=============================================================================
