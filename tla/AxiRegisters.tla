---------------------------- MODULE AxiRegisters ----------------------------
(***************************************************************************)
(* AXIInterfaceClass: the control register that DMAThread, InterfaceThread *)
(* and ConfigurationThread share through the copy axiReg2_data, and the    *)
(* commands to the mirror's ASIC and potentiometer that are strobed by     *)
(* flags of it.                                                            *)
(*                                                                         *)
(* A call is a sequence of operations, each of them a sequence of accesses *)
(* to the lock, to the copy or to the registers; a step of a thread is one *)
(* access.  A command is sent by the rise of its flag; the sleep after it  *)
(* is long enough for the ASIC to execute it.  Of the ASIC the registers   *)
(* of the vertical gain (0x0B) and of the enable bits (0x0D) are kept, of  *)
(* the others and of the registers that no flag goes with only the access. *)
(***************************************************************************)
EXTENDS Integers, Sequences

CONSTANTS
  GainMod,     \* 16, the vertical gain has four bits
  CharMod,     \* 256, the calls take the gain as a char, which has no sign on the ARM
  StartGain,   \* 11, the vertical gain after the configuration
  Gains        \* the numbers that the user enters for the vertical gain

ASSUME GainAssumption == /\ GainMod \in Nat \ {0} /\ StartGain \in 0 .. GainMod - 1
                         /\ CharMod \in Nat /\ CharMod >= GainMod
                         /\ Gains \subseteq Int

ASIC_NEW_DATA  == 1
POT_NEW_DATA   == 2
TIMING_CORE_EN == 4
TDC_EN         == 32

VARIABLES
  owner,                                \* of the lock
  todo, at, loaded,    \* per thread: operations left, accesses of the first done, value read
  axiReg2_data, arm,                    \* the copy; the registers
  asic, pot_spi_ready,                  \* the devices
  option, enH, enV, enL, lastVgain,     \* InterfaceThread
  dma_state, stop

callVars == <<owner, todo, at, loaded, axiReg2_data, arm, asic>>
menuVars == <<option, enH, enV, enL, lastVgain>>
vars == <<callVars, pot_spi_ready, menuVars, dma_state, stop>>

Threads == {"config", "interface", "dma", "math"}
-----------------------------------------------------------------------------
\* Operations; of a command, with its address and data.
Op(kind, addr, data) == [kind |-> kind, addr |-> addr, data |-> data]

\* A number that is passed as a char.
Char(value) == value % CharMod

Locked(ops) == <<Op("lock", "", 0)>> \o ops \o <<Op("unlock", "", 0)>>

\* A flag that stays as it is set.
Flip(flag) == Op("flag", "", flag)

\* A register that no property is about.
Plain == Op("plain", "", 0)

\* A command; an address that is "read" leaves the ASIC as it is.
ASIC_SendCommand(addr, data) == Op("asic", addr, data)

Read == ASIC_SendCommand("read", 0)
Gain(g) == ASIC_SendCommand("0B", g % GainMod)
Enables(bits) == ASIC_SendCommand("0D", bits)
Other == ASIC_SendCommand("other", 0)

PotCommand == Op("pot", "", 0)

\* The accesses of an operation, in their order.
Do(what, reg, val) == [what |-> what, reg |-> reg, val |-> val]

\* The flag is added to the copy (or subtracted), the copy goes to the register.
Take == Do("load", "", 0)
Add(flag) == Do("store", "", flag)
Put == Do("out", "", 0)

Accesses(op) ==
  IF op.kind = "asic"
  THEN <<Do("write", "data", op.data), Do("write", "addr", op.addr),
         Take, Add(ASIC_NEW_DATA), Put, Take, Add(-ASIC_NEW_DATA), Put>>
  ELSE IF op.kind = "pot"
  THEN <<Do("plain", "", 0), Take, Add(POT_NEW_DATA), Put, Take, Add(-POT_NEW_DATA), Put>>
  ELSE IF op.kind = "flag" THEN <<Take, Add(op.data), Put>>
  ELSE <<Do(op.kind, "", 0)>>
-----------------------------------------------------------------------------
\* Calls of AXIInterfaceClass.
ASIC_Configuration ==
  Locked(<<Read, Enables({}), Gain(4), Other, Enables({}), Read, Gain(StartGain), Read,
           Enables({"EH"}), Other>>)

POT_Configuration ==
  LET await == Op("await", "", 0)
  IN  Locked(<<await, PotCommand, await, PotCommand, await, PotCommand>>)

TimingCore_Configuration == Locked(<<Plain, Plain, Plain, Plain, Plain>>)
TimingCore_Enable  == Locked(<<Flip(TIMING_CORE_EN)>>)
TimingCore_Disable == Locked(<<Flip(-TIMING_CORE_EN)>>)

\* Mutant: the lock is not taken.
TDC_EnableUnlocked == <<Flip(TDC_EN)>>

TDC_Enable  == Locked(<<Flip(TDC_EN)>>)
TDC_Disable == Locked(<<Flip(-TDC_EN)>>)

VerticalController_Configuration == Locked(<<Other, Other, Plain>>)
UpdateVerticalPosition == Locked(<<Plain>>)
Laser_ChangeFrequency == Locked(<<Plain>>)
ASIC_Read == Locked(<<Read>>)
ASIC_Write == Locked(<<Other>>)

\* Mutant: the command is sent whether or not the potentiometer is ready.
POT_ChangeHorizontalGainUnchecked == Locked(<<PotCommand>>)

\* The ready bit is read before the lock is taken.
POT_ChangeHorizontalGain == <<Op("check", "", 0)>> \o Locked(<<PotCommand>>)

\* The address is 14, not that of the enable bits.
POT_EnableHorizontal == Locked(<<Read, Other, Read>> \o [i \in 1 .. 5 * 4 |-> Other])
POT_DisableHorizontal == Locked(<<Read, Other>>)

ASIC_ChangeVerticalGain(g) == Locked(<<Read, Read, Gain(g)>>)

\* Mutant: the drive is switched on with the gain it has.
ASIC_EnableVerticalAtGain(g) ==
  Locked(<<Read, Read, Enables({"EV", "EH"}), Read>> \o [i \in 1 .. g |-> Gain(i)])

ASIC_EnableVertical(g) ==
  Locked(<<Read, Read, Gain(0), Enables({"EV", "EH"}), Read>> \o [i \in 1 .. g |-> Gain(i)])

ASIC_DisableVertical(g) ==
  Locked(<<Read, Read, Read>> \o [i \in 1 .. g |-> Gain(g - i)]
           \o <<Enables({"EH"}), Gain(g)>>)
-----------------------------------------------------------------------------
Flag(value, flag) == (value \div flag) % 2 = 1

\* ConfigurationThread::run is about to begin.
Init ==
  /\ owner = "none" /\ at = [t \in Threads |-> 0] /\ loaded = [t \in Threads |-> 0]
  /\ todo = [t \in Threads |->
               IF t = "config"
               THEN ASIC_Configuration \o POT_Configuration \o TimingCore_Configuration
                      \o TimingCore_Enable \o VerticalController_Configuration
               ELSE <<>>]
  /\ axiReg2_data = 0
  /\ arm = [data |-> 0, addr |-> "read", ctrl |-> 0]
  /\ asic = [gain |-> 0, enables |-> {}] /\ pot_spi_ready \in BOOLEAN
  /\ option = -1 /\ enH = TRUE /\ enV = FALSE /\ enL = TRUE /\ lastVgain = StartGain
  /\ dma_state = "start" /\ stop = FALSE

\* The flags of the control register rise when the copy is written to it.
Rises(flag) == Flag(arm'.ctrl, flag) /\ ~Flag(arm.ctrl, flag)

\* The ASIC takes a command.
AsicTakes ==
  LET takes(addr) == Rises(ASIC_NEW_DATA) /\ arm.addr = addr
  IN  asic' = [gain    |-> IF takes("0B") THEN arm.data ELSE asic.gain,
               enables |-> IF takes("0D") THEN arm.data ELSE asic.enables]

PotTakes == pot_spi_ready' = (pot_spi_ready /\ ~Rises(POT_NEW_DATA))

\* The next access of a thread.
NextAccess(t) == Accesses(Head(todo[t]))[at[t] + 1]

Advance(t) ==
  IF at[t] + 1 < Len(Accesses(Head(todo[t])))
  THEN at' = [at EXCEPT ![t] = @ + 1] /\ UNCHANGED todo
  ELSE at' = [at EXCEPT ![t] = 0] /\ todo' = [todo EXCEPT ![t] = Tail(@)]

Lock(t) == /\ NextAccess(t).what = "lock" /\ owner = "none"
           /\ owner' = t /\ Advance(t)
           /\ UNCHANGED <<loaded, axiReg2_data, arm>>

Unlock(t) == /\ NextAccess(t).what = "unlock"
             /\ owner' = "none" /\ Advance(t)
             /\ UNCHANGED <<loaded, axiReg2_data, arm>>

Load(t) == /\ NextAccess(t).what = "load"
           /\ loaded' = [loaded EXCEPT ![t] = axiReg2_data] /\ Advance(t)
           /\ UNCHANGED <<owner, axiReg2_data, arm>>

Store(t) == /\ NextAccess(t).what = "store"
            /\ axiReg2_data' = loaded[t] + NextAccess(t).val
            /\ loaded' = [loaded EXCEPT ![t] = 0] /\ Advance(t)
            /\ UNCHANGED <<owner, arm>>

Out(t) == /\ NextAccess(t).what = "out"
          /\ arm' = [arm EXCEPT !.ctrl = axiReg2_data] /\ Advance(t)
          /\ UNCHANGED <<owner, loaded, axiReg2_data>>

WriteData(t) == /\ NextAccess(t).what = "write" /\ NextAccess(t).reg = "data"
                /\ arm' = [arm EXCEPT !.data = NextAccess(t).val] /\ Advance(t)
                /\ UNCHANGED <<owner, loaded, axiReg2_data>>

WriteAddr(t) == /\ NextAccess(t).what = "write" /\ NextAccess(t).reg = "addr"
                /\ arm' = [arm EXCEPT !.addr = NextAccess(t).val] /\ Advance(t)
                /\ UNCHANGED <<owner, loaded, axiReg2_data>>

WritePlain(t) == /\ NextAccess(t).what = "plain" /\ Advance(t)
                 /\ UNCHANGED <<owner, loaded, axiReg2_data, arm>>

\* The configuration polls until the potentiometer is ready; the menu gives up.
AwaitReady(t) == /\ NextAccess(t).what = "await" /\ pot_spi_ready
                 /\ Advance(t)
                 /\ UNCHANGED <<owner, loaded, axiReg2_data, arm>>

CheckReady(t) == /\ NextAccess(t).what = "check"
                 /\ todo' = [todo EXCEPT ![t] = IF pot_spi_ready THEN Tail(@) ELSE <<>>]
                 /\ UNCHANGED <<owner, at, loaded, axiReg2_data, arm>>

Access(t) ==
  /\ todo[t] # <<>>
  /\ \/ Lock(t) \/ Unlock(t) \/ Load(t) \/ Store(t) \/ Out(t)
     \/ WriteData(t) \/ WriteAddr(t) \/ WritePlain(t)
     \/ AwaitReady(t) \/ CheckReady(t)
  /\ AsicTakes /\ PotTakes
  /\ UNCHANGED <<menuVars, dma_state, stop>>
-----------------------------------------------------------------------------
Call(t, ops) == /\ todo["config"] = <<>> /\ todo[t] = <<>>
                /\ todo' = [todo EXCEPT ![t] = ops]
                /\ UNCHANGED <<owner, at, loaded, axiReg2_data, arm, asic, pot_spi_ready>>

\* InterfaceThread: an option of the menu, with the calls it makes.
Menu(n, calls) == /\ ~stop /\ Call("interface", calls)
                  /\ option' = n /\ UNCHANGED <<dma_state, stop>>

HorizontalGain == Menu(1, POT_ChangeHorizontalGain) /\ UNCHANGED <<enH, enV, enL, lastVgain>>

VerticalGain == \E g \in Gains : /\ Menu(2, ASIC_ChangeVerticalGain(Char(g)))
                                 /\ lastVgain' = g /\ UNCHANGED <<enH, enV, enL>>

Horizontal == /\ Menu(3, IF enH THEN POT_DisableHorizontal ELSE POT_EnableHorizontal)
              /\ enH' = ~enH /\ UNCHANGED <<enV, enL, lastVgain>>

Vertical == /\ Menu(4, IF enV THEN ASIC_DisableVertical(Char(lastVgain))
                       ELSE ASIC_EnableVertical(Char(lastVgain)))
            /\ enV' = ~enV /\ UNCHANGED <<enH, enL, lastVgain>>

Laser == /\ Menu(5, Laser_ChangeFrequency
                      \o (IF enL THEN TimingCore_Disable ELSE TimingCore_Enable))
         /\ enL' = ~enL /\ UNCHANGED <<enH, enV, lastVgain>>

LaserFrequency == Menu(6, Laser_ChangeFrequency) /\ UNCHANGED <<enH, enV, enL, lastVgain>>
AsicRegister == /\ \/ Menu(7, ASIC_Read) \/ Menu(9, ASIC_Write)
                /\ UNCHANGED <<enH, enV, enL, lastVgain>>
VerticalLine == Menu(8, UpdateVerticalPosition) /\ UNCHANGED <<enH, enV, enL, lastVgain>>

Shutdown == /\ ~stop /\ todo["config"] = <<>> /\ todo["interface"] = <<>>
            /\ option' = 10 /\ stop' = TRUE
            /\ UNCHANGED <<callVars, pot_spi_ready, enH, enV, enL, lastVgain, dma_state>>

Interface == \/ HorizontalGain \/ VerticalGain \/ Horizontal \/ Vertical \/ Laser
             \/ LaserFrequency \/ AsicRegister \/ VerticalLine \/ Shutdown

\* DMAThread enables the time-to-digital converter when its transfers are started, and
\* disables it after the last.
DMAStart == /\ dma_state = "start" /\ Call("dma", TDC_Enable) /\ dma_state' = "running"
            /\ UNCHANGED <<menuVars, stop>>
DMAEnd == /\ dma_state = "running" /\ stop /\ Call("dma", TDC_Disable) /\ dma_state' = "ended"
          /\ UNCHANGED <<menuVars, stop>>

\* MathThread takes the lock for registers of the timing core (see BankHandshake).
MathAccess == Call("math", Locked(<<Plain>>)) /\ UNCHANGED <<menuVars, dma_state, stop>>

\* The potentiometer has executed its command.
PotReady == /\ ~pot_spi_ready /\ pot_spi_ready' = TRUE
            /\ UNCHANGED <<callVars, menuVars, dma_state, stop>>

Next == (\E t \in Threads : Access(t)) \/ Interface \/ DMAStart \/ DMAEnd \/ MathAccess
        \/ PotReady

Spec == Init /\ [][Next]_vars
-----------------------------------------------------------------------------
Idle(t) == todo["config"] = <<>> /\ todo[t] = <<>>

\* Safety: flags are added and subtracted, by several threads, in a copy of the
\* register; no change is lost and none carries into another flag: a flag shows what
\* its thread has done last (AXIInterfaceClass.cpp:332-389, DMAThread.cpp:70-154,
\* InterfaceThread.cpp:68-81).
FlagsFollowThreads ==
  /\ Idle("interface") => Flag(arm.ctrl, TIMING_CORE_EN) = enL
  /\ Idle("dma") => Flag(arm.ctrl, TDC_EN) = (dma_state = "running")
  /\ arm.ctrl % 32 < 8 /\ arm.ctrl \in 0 .. 63

\* Action property: the potentiometer is sent a command only when it is ready, though
\* the ready bit is read without the lock (AXIInterfaceClass.cpp:301-330, 614-642).
PotSentWhenReady == [][Rises(POT_NEW_DATA) => pot_spi_ready]_vars

\* One step of a ramp that begins or ends at a gain; when this has more than four bits, they
\* start again from the other end.
Near(from, to, vGain) == \/ to - from \in -1 .. 1
                         \/ vGain >= GainMod /\ to - from \in {1 - GainMod, GainMod - 1}

\* Action property: the mirror's vertical drive is switched on and off at gain 0, and
\* ramped up and down in steps of one, whatever number was entered.  Only option 2 jumps, and
\* a ramp to or from a number beyond four bits, which falls from full gain to none, or
\* back, each time the four bits wrap (AXIInterfaceClass.cpp:477-582, InterfaceThread.cpp:38-67).
VerticalOn == "EV" \in asic.enables
GainRamps ==
  [][/\ VerticalOn' # VerticalOn => asic.gain = 0
     /\ VerticalOn /\ VerticalOn' /\ option # 2
        => Near(asic.gain, asic'.gain, Char(lastVgain))]_vars

\* Claim of AXIInterfaceClass.cpp:647, "char addr = 14; //0x0D": option 3 of the menu,
\* "Enable/Disable Horizontal", sets the enable bits, which are in 0x0D (line 172).
HorizontalFollowsMenu == Idle("interface") => ("EH" \in asic.enables <=> enH)
=============================================================================
