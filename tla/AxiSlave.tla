------------------------------ MODULE AxiSlave ------------------------------
(***************************************************************************)
(* TimingCoreV3_itf_v1_0_S00_AXI.v, the register file of the timing core   *)
(* on the processor's bus, one conjunct of Slave per always block, with     *)
(* the processor and the interconnect around it (external): accesses are   *)
(* put on the bus in the order of the program, the address and the data of *)
(* a write independently of each other, the next write before the last one *)
(* is answered, and answers are taken at any time.                         *)
(***************************************************************************)
EXTENDS Integers, Sequences

CONSTANTS Cells, Words, Points, Frequency, MaxWrites     \* as in RegisterFile

ASSUME FileAssumption == /\ Cells # {} /\ Words # {} /\ Points \subseteq Cells \X Words
                         /\ Frequency \in Nat /\ MaxWrites \in Nat \ {0}

VARIABLES
  axi_awready, aw_en, axi_awaddr, axi_wready, axi_bvalid,
  axi_arready, axi_araddr, axi_rvalid, axi_rdata, slv_reg,
  S_AXI_AWVALID, S_AXI_WVALID, S_AXI_ARVALID,
  aw, w,     \* addresses and data that the interconnect has to send
  ar, ar_sent,   \* register that is to be read, and whether its address was taken
  writes,    \* history: writes that no register shows yet
  update_mem, memory,
  want       \* history: what the memory is to hold

slaveRegs == <<axi_awready, aw_en, axi_awaddr, axi_wready, axi_bvalid,
               axi_arready, axi_araddr, axi_rvalid, axi_rdata, slv_reg>>
busvars == <<S_AXI_AWVALID, S_AXI_WVALID, S_AXI_ARVALID>>
asvars == <<slaveRegs, busvars, aw, w, ar, ar_sent, writes, update_mem, memory, want>>

None == -1

File == INSTANCE RegisterFile
          WITH acked  <- axi_bvalid,
               read   <- IF axi_rvalid THEN None ELSE ar,
               answer <- IF axi_rvalid THEN axi_rdata ELSE None,
               regs   <- slv_reg,
               memory <- IF slv_reg[7] = 1
                         THEN [memory EXCEPT ![slv_reg[6][1]] = slv_reg[6][2]]
                         ELSE memory
-----------------------------------------------------------------------------
\* The slave.
TakesWrite == ~axi_awready /\ S_AXI_AWVALID /\ S_AXI_WVALID /\ aw_en

slv_reg_wren == axi_wready /\ S_AXI_WVALID /\ axi_awready /\ S_AXI_AWVALID
slv_reg_rden == axi_arready /\ S_AXI_ARVALID /\ ~axi_rvalid

WriteReady(S_AXI_BREADY) ==
  /\ axi_awready' = TakesWrite
  /\ aw_en' = (~TakesWrite /\ (aw_en \/ (S_AXI_BREADY /\ axi_bvalid)))
  /\ axi_wready' = (~axi_wready /\ S_AXI_WVALID /\ S_AXI_AWVALID /\ aw_en)

WriteAddress == axi_awaddr' = IF TakesWrite THEN Head(aw) ELSE axi_awaddr

RegisterWrite ==
  slv_reg' = IF slv_reg_wren THEN [slv_reg EXCEPT ![axi_awaddr] = Head(w)] ELSE slv_reg

WriteResponse(S_AXI_BREADY) ==
  axi_bvalid' = IF axi_awready /\ S_AXI_AWVALID /\ ~axi_bvalid /\ axi_wready /\ S_AXI_WVALID
                THEN TRUE ELSE axi_bvalid /\ ~S_AXI_BREADY

ReadAddress ==
  LET takes == ~axi_arready /\ S_AXI_ARVALID
  IN  axi_arready' = takes /\ axi_araddr' = IF takes THEN ar ELSE axi_araddr

\* Mutant: the answer is there for one cycle, taken or not.
ReadResponseOnce(S_AXI_RREADY) == axi_rvalid' = slv_reg_rden

ReadResponse(S_AXI_RREADY) ==
  axi_rvalid' = IF slv_reg_rden THEN TRUE ELSE axi_rvalid /\ ~S_AXI_RREADY

reg_data_out == CASE axi_araddr = 0 -> Frequency
                  [] axi_araddr = 1 -> update_mem
                  [] OTHER -> slv_reg[axi_araddr]

ReadData == axi_rdata' = IF slv_reg_rden THEN reg_data_out ELSE axi_rdata

Slave(bready, rready) ==
  /\ WriteReady(bready) /\ WriteAddress /\ RegisterWrite /\ WriteResponse(bready)
  /\ ReadAddress /\ ReadResponse(rready) /\ ReadData

\* The memory behind the port stores the word in every cycle with the enable up.
we_o == slv_reg[7] = 1
PointStore == memory' = IF we_o THEN [memory EXCEPT ![slv_reg[6][1]] = slv_reg[6][2]]
                        ELSE memory
-----------------------------------------------------------------------------
\* Processor and interconnect: valid stays up until the handshake and is raised at
\* any time when there is something to send.
Pop(queue, handshake) == IF handshake THEN Tail(queue) ELSE queue

Channel(valid, valid_next, ready, queue, queue_next) ==
  /\ queue_next = Pop(queue, valid /\ ready)
  /\ valid /\ ~ready => valid_next
  /\ queue_next = <<>> => ~valid_next

Master(ReadReturned) ==
  /\ S_AXI_AWVALID' \in BOOLEAN /\ S_AXI_WVALID' \in BOOLEAN /\ S_AXI_ARVALID' \in BOOLEAN
  /\ Channel(S_AXI_AWVALID, S_AXI_AWVALID', axi_awready, aw, aw')
  /\ Channel(S_AXI_WVALID, S_AXI_WVALID', axi_wready, w, w')
  /\ writes' = Pop(writes, slv_reg_wren)
  /\ ar' = IF ReadReturned THEN None ELSE ar
  /\ ar_sent' = (~ReadReturned /\ (ar_sent \/ (S_AXI_ARVALID /\ axi_arready)))
  /\ S_AXI_ARVALID /\ ~axi_arready => S_AXI_ARVALID'
  /\ S_AXI_ARVALID' => ar' # None /\ ~ar_sent'

BusClock(bready, rready) == /\ Slave(bready, rready)
                            /\ Master(axi_rvalid /\ rready)
                            /\ PointStore
                            /\ UNCHANGED <<update_mem, want>>

Clock == \E bready, rready \in BOOLEAN : BusClock(bready, rready)

\* Calls of AXIInterfaceClass, made under its lock: none while a value is read.
Post(call) ==
  /\ ar = None /\ Len(writes \o call) <= MaxWrites
  /\ writes' = writes \o call
  /\ aw' = aw \o [i \in DOMAIN call |-> call[i][1]]
  /\ w' = w \o [i \in DOMAIN call |-> call[i][2]]
  /\ UNCHANGED <<slaveRegs, busvars, ar, ar_sent, update_mem, memory>>

CallStore == \E p \in Points : /\ Post(File!TimingCore_Write(p))
                              /\ want' = [want EXCEPT ![p[1]] = p[2]]

CallWrite == /\ \E call \in File!WriteCalls : Len(call) = 1 /\ Post(call)
             /\ UNCHANGED want

CallRead == /\ ar = None /\ ar' \in {0, 1}
            /\ UNCHANGED <<slaveRegs, busvars, aw, w, ar_sent, writes, update_mem, memory, want>>

BankSwap ==
  /\ update_mem' = 1 - update_mem
  /\ UNCHANGED <<slaveRegs, busvars, aw, w, ar, ar_sent, writes, memory, want>>

\* After the reset.
AxiInit ==
  /\ slv_reg = File!Cleared /\ memory = [c \in Cells |-> File!Zero]
  /\ want = memory /\ writes = <<>> /\ update_mem = 0
  /\ axi_awready = FALSE /\ aw_en = TRUE /\ axi_awaddr = 0 /\ axi_wready = FALSE
  /\ axi_bvalid = FALSE /\ axi_arready = FALSE /\ axi_araddr = 0
  /\ axi_rvalid = FALSE /\ axi_rdata = 0
  /\ S_AXI_AWVALID = FALSE /\ S_AXI_WVALID = FALSE /\ S_AXI_ARVALID = FALSE
  /\ aw = <<>> /\ w = <<>> /\ ar = None /\ ar_sent = FALSE

Next == Clock \/ CallStore \/ CallWrite \/ CallRead \/ BankSwap

\* The clock does not stop, and the interconnect neither holds back what it has to send
\* nor refuses an answer for ever.
Sends == /\ []<>(S_AXI_AWVALID \/ aw = <<>>) /\ []<>(S_AXI_WVALID \/ w = <<>>)
         /\ []<>(S_AXI_ARVALID \/ ar_sent \/ ar = None)

AxiSpec ==
  /\ AxiInit /\ [][Next]_asvars /\ Sends
  /\ WF_asvars(Clock)
  /\ WF_asvars(axi_bvalid /\ \E rready \in BOOLEAN : BusClock(TRUE, rready))
  /\ WF_asvars(axi_rvalid /\ \E bready \in BOOLEAN : BusClock(bready, TRUE))
-----------------------------------------------------------------------------
\* Implementation: with address, data and answers at any distance from each other, the
\* slave is an atomic register file: every write reaches its register once, in order, and
\* is acknowledged, every read returns one value of its register, and all accesses end
\* (TimingCoreV3_itf_v1_0_S00_AXI.v:148-454, AXIInterfaceClass.cpp:391-451).
ImplementsFile == File!FileSpec

\* Safety: when all writes have arrived, the write port is shut and the memory holds in
\* every cell the last word that TimingCore_Write was given for it: the three accesses of
\* the call store one word in one cell, however the bus spaces them
\* (AXIInterfaceClass.cpp:422-431, TimingCoreV3_itf_v1_0_S00_AXI.v:233-321,458-468).
WordsReachMemory == writes = <<>> => ~we_o /\ memory = want
=============================================================================
