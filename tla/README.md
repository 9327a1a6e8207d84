# Verification of TimingCore

TimingCore fires the laser of a LIDAR in step with an oscillating micro-mirror. A
piece of hardware (Verilog, `hw/IPs`) plays tables of fire times, line after line,
each line started by a zero crossing of the mirror. The tables depend on the
mirror's frequency and are computed again and again, into a second bank while the
first is played, either by hardware (`laserSynchronizer.v`) or by software
(`sw-app/classes/MathThread.cpp`, through AXI registers). The software also collects
the measured times of flight by DMA and publishes point clouds.

This directory holds TLA+ models of that system, the TLC configurations that check
them on small instances and TLAPS proofs. `PROJECT.json` maps every definition to the
lines it models, lists runs, mutants (a plausible bug for each property, under which
the property must fail), findings, hazards and theorems.

## The system

| Component | State | Operations | Talks to |
|---|---|---|---|
| `memoryManager.v` | bank machine, line counter of the bank, `update_mem_r`; group machine, line counter of the frame, frame | clock | line machine (`new_line`), writer (`mem_updated`, `update_mem`), memories |
| `timestampMem.v`, `activePixelMem.v` | two banks of words per frame | read, write | line machine reads, writer writes |
| `timingCore.v` with `edgeDetector.v`, `counter.v` | line machine, address, counters | clock | mirror (`zc_i`), laser driver, memory manager |
| `laserDriver.v` | idle/trigger, pulse counter | clock | line machine |
| `laserSynchronizer.v` | update machine, point/passage/frame counters, edge tick, theta, write port | clock | arithmetic chain (valid/ready), timing core |
| `cordicManager.v` and `thetaCos`, `thetaSin`, `arcTan`, `fixed_*` | operand and progress of each unit | clock | synchronizer |
| `DMAThread` | transfers in progress, row of the frame | start and finish transfers | `TOFClass` |
| `MathThread` | last bank seen, schedule | poll, compute, write tables | AXI registers, `FireClass` |
| `ROSThread` | row of the cloud | take lines and tables, publish | `TOFClass`, `FireClass` |
| `InterfaceThread`, `StopClass` | stop flag | menu, shutdown | all threads |
| `main`, `Thread` | threads started, threads joined | start and join the threads | all threads |
| `AXIInterfaceClass` | copy of the control register | locked register writes, ASIC and potentiometer commands | registers |
| `TimingCoreV3_itf_v1_0_S00_AXI.v` | register file, channel handshakes | AXI reads and writes | timing core |

What is hard:

- **One clock, many machines.** Every machine is right on its own; the errors are one
  cycle off between two of them: a report while the group machine books the last
  one, a swap while the synchronizer has not yet noticed it, a flag or a delay that
  comes out of a block RAM when the address has moved on.
- **Mirror and writer are asynchronous.** Lines end at any moment relative to the
  update, so the banks must be swapped only between two complete tables.
- **Handshake through a slow chain.** The synchronizer sends one theta at a time,
  waits for ready to rise *and to fall*; the fall needs as long as the shift register
  of `arcTan`.
- **Threads.** A queue is tested with `if`, not `while`; a size is read without the
  lock; the stop flag is not tied to the conditions; six queues are used by one
  consumer.

Correctness, by component: the memory manager charges each bank its lines,
alternates the banks and runs through the frames in order; the line machine fires
every point of a line once, at its own delay, with its own flag, from one table; the
laser driver bounds the exposure; the synchronizer writes every word once, with
delays that add up to the time at which each point is due, and never exposes an
unfinished table; the times it is given are those at which the mirror is at the
positions, and hardware and software compute the same table; a write over the bus reaches its register once;
the threads keep rows and tables aligned and end when told to.

## Modules

| Module | Models | Notes |
|---|---|---|
| `FrameSequence` | the promise of the group machine | abstract specification |
| `MemoryManager` | control of `memoryManager.v` | `Clock` has one conjunct per always block; refines `FrameSequence` |
| `BankUse` (`MCBankUse`) | `MemoryManager` with history: lines played, lines inherited | properties of the banks |
| `Bank_proofs` | | proofs about `BankUse` and `BankHandshake` |
| `LaserDriver`, `LaserPulse` | `laserDriver.v`; with free triggers and the width of the pulse | |
| `LaserPulse_proofs` | | proofs |
| `PointMemory` | `timestampMem.v`, `activePixelMem.v` and their use in `memoryManager.v:160-211` | block RAM external: data `ReadLatency` edges after the address |
| `TimingCore` | `timingCore.v` composed with the three above | one step is one clock edge of all parts |
| `LineShots` (`MCLineShots`) | `TimingCore` with history: points fired, cycles waited, flag due | properties of a line |
| `LineShots_proofs` | | proofs |
| `HandshakeUnit` | what every arithmetic unit promises | abstract specification, as one step function |
| `FixedDiv`, `FixedMul`, `FixedSqrt`, `FixedSub` | the units, bit by bit | operands in sign-magnitude form |
| `FixedUnits` (`MCFixedUnits`) | the four units side by side with free `valid` | results and handshake of the units |
| `Units_proofs` | | proofs |
| `WideNumbers` | | integers beyond 32 bits, which TLC does not have, as digits |
| `FireTimes` | the numbers of `cordicManager.v`, `thetaCos.v`, `thetaSin.v`, `arcTan.v`, from a position to a tick | pure functions, at the real word lengths |
| `FireSchedule` | the tables of `MathThread.cpp` and of the experiment `cordic.cpp` | pure functions of the fire times; used by `TableUpdate` |
| `CordicChain` | valid/ready through `cordicManager.v` | built from `HandshakeUnit`; see below |
| `LaserSynchronizer` | `laserSynchronizer.v` with `CordicChain`, `MemoryManager`, `PointMemory` | the line machine is represented by its reports |
| `TableUpdate` (`MCTableUpdate`) | the above with history: words missing, positions covered | properties of an update |
| `TableUpdate_proofs` | | proofs |
| `BankHandshake` (`MCBankHandshake`) | `BankUse` with MathThread as its writer, and history: which bank holds a new table | at most one register access per clock cycle |
| `AxiRegisters` | `AXIInterfaceClass` under ConfigurationThread, InterfaceThread and DMAThread | a step is one access of a thread to the lock, the copy or a register |
| `AxiRegisters_proofs` | | proofs |
| `RegisterFile` | the registers as `AXIInterfaceClass` relies on them | abstract specification: accesses are atomic |
| `AxiSlave` (`MCAxiSlave`) | `TimingCoreV3_itf_v1_0_S00_AXI.v` between any processor and interconnect and the memory | one conjunct per always block; refines `RegisterFile` |
| `AxiSlave_proofs` | | proofs |
| `LidarThreads` | `main`, the threads and queues of `sw-app/classes` | a step is a critical section |
| `LidarThreads_proofs` | | proofs |

Registers and wires keep the names of the Verilog. A register that is assigned in an
always block becomes a primed variable in a conjunct of that name; a combinational
wire becomes an operator. The reset state is `Init`; there is no reset later.
`update_mem_r` is written with a blocking assignment in the source; it is modelled as
the register that synthesis makes of it. Configuration ports are constants, since
`ConfigurationThread` is joined before the other threads start (`main.cpp:28-34`).
Counters wrap at the width of their registers (`CycleMod`, `LineMod`, `GroupMod`,
`PulseMod`, `TickMod`, `AddrMod`).

`CordicChain` takes two abstractions. Units in a row, each of which raises ready a
fixed time after valid and drops it at once, act like one unit, so there is one unit
before and one behind the shift register of `arcTan`. That every unit does so is
checked in `FixedUnits` and proved in `Units_proofs`, for a `valid` that stays low for
`MinGap` = 2 cycles; that the synchronizer grants this is `UnitsRest` of `TableUpdate`. And the data carried is the
theta whose time is computed, with `TickOf` giving the result: which point a number belongs to is
the subject of `TableUpdate`, which number it is that of `FireTimes`.

`FixedUnits` models the numbers of the four units, one at a time, bit by bit; a register is
the number of its bits. `FireTimes` puts units in a
row that give the results which `FixedUnits` shows them to give (`ResultsRight`: the quotient
without its last bit, the ones' complement of a negative difference), so that each wire of the
chain becomes a function of the position, at the word lengths of the source. Two shortcuts
are taken in it. Of the root only the upper 15 bits are computed, the ones `cordicManager` uses.
And arcTan's stages move while `valid_i` is up, which it is, with the same operands, until the result has come
through all of them and been used; so each stage is a function of the one before.

`FireSchedule` takes the loops of the software as functions of a point's place in its line. The arc cosine
in double precision is `TickOf`, the same as for the hardware: what is compared is the order, the
frames and the differences, not the rounding. MathThread steps to the next angle before
it takes the arc cosine, so that its `temp` begins one position late.

`AxiSlave` has one clock for the bus and the timing core. The environment keeps the AXI protocol (a valid
that is raised stays until the handshake) and is otherwise free: posted writes, address and data on
their own, answers taken at any time. Since calls are made under a lock and a read returns before the lock is released,
one read is under way at a time; the slave would lose a second one whose address comes while the
answer to the first is not taken (line 403 wants `axi_rvalid` down, line 372 does not). The call that writes
register 5 is left out: it is one write like those to register 0. Byte strobes are all set.

In `AxiRegisters` a call is a sequence of operations (taking the lock, setting a flag, sending a command), each of
them a sequence of accesses (`Accesses`): `axiReg2_data = axiReg2_data + X` is a load and a store, so
that the lock is what keeps them together. A step is one access; `todo` has the operations left of a thread's call and `at` says how
many accesses of the first of them are done. The sleep after a command is taken to be long enough
for the ASIC; the potentiometer becomes ready at any time. The user may enter any number for the vertical
gain (InterfaceThread.cpp:40-43 checks none): a call takes it as a char (`Char`, without sign on the ARM) and a command as
four bits (`Gain`). Option 9 writes to none of the two registers that are kept. The variables of the menu
change when a call begins; they are local to the thread.

`LidarThreads` merges thread-local computation into the critical section before or
after it. A wait is a state of its own because `dequeue` tests the queue only before
it. `pthread_cond_wait` is taken to return only when signalled; spurious wake-ups are
outside the model (with them `WaitEndsWithElement` is false for this code). MathThread
writes to the hardware and queues a frame's table in one step.

## Runs

| Run | Question | Instance |
|---|---|---|
| `bank_use` | Are banks charged, alternated and frames ordered, with reports and writer free in every cycle? | quota 3, 2 lines, 3 frames |
| `laser_pulse` | Is the exposure bounded for every sequence of triggers? | pulse length 30, counter of 5 bits |
| `line_shots` | Does a line fire each point once, in time, with its own flag, from one table? | 3 points, 2 frames of one line, quota 2 |
| `table_update` | Is every update complete, correct, as the software has it, invisible until it ends, and does it end? | 3 frames, 8 columns, 4 passages of 2 points |
| `edge_tick` | (violated) Is the edge tick computed before the points that use it? | 2 frames, 6 columns, 3 passages of 2 points |
| `fixed_units` | Are the results of the arithmetic units right, do they keep the handshake, and are the times right that they add up to? | 6 bits, 2 of them fraction; the chain: real widths, 1800 positions, 10.8 and 20 kHz |
| `bank_handshake` | Can MathThread, which polls, write into the bank being played, or miss swaps for good? | quota 5, one frame, 2 lines between polls |
| `axi_registers` | Do the flags follow the threads that set them? Are commands and gains sent as the devices need them? | numbers 0, 1, 15, 17, 258 entered for a gain of four bits |
| `axi_slave` | Is the AXI slave an atomic register file, and does a word reach the memory? | 2 cells, 2 words, 3 writes posted |
| `horizontal` | (violated) Does option 3 switch the horizontal drive? | as `axi_registers` |
| `threads` | Do rows and tables stay aligned, waits end with an element, clouds go on, workers end? | 2 rows, 2 frames |
| `shutdown` | (violated) Does every thread end after option 10? | same |

Bounds, and why they are enough:

- `PlayedMax` caps the history counter above the quota; the lines beyond are alike.
  The quota of 3 has a first, a middle and a last line; three frames tell "next"
  from "previous" and from "back to the first".
- The pulse length 30 is the largest port value for which `pulse_length_i + 2`
  can still be compared with the 5-bit counter range; the theorems cover all values.
- Three points make a first, middle and last address; the tables of the two banks
  and of the two frames differ in delays and flags, so a wrong bank, frame or
  address shows. The delays are longer than the pulse, which `NoShotLost` needs.
  `ReadLatency` is 2, block RAM with output register: `RightPixel` depends on it.
- Four passages (three in `edge_tick`) have a forward, a backward and again a forward one, which is what
  `theta_aux1_r` and the two edge cases of the delay need. With three frames, counting frames from
  the other end and MathThread's shift by one position lead to different frames. `TickOf` is increasing and
  no two of its differences are alike, so a wrong difference shows.
- `DrainDelay` is 6 in place of 19 stages and `FrontLatency`, `BackLatency` stand for
  tens of cycles: what matters is that a fall takes longer to drain than the update
  machine takes to start again, as it does in the code. `MinLine` is the least number
  of cycles between two reported lines; small, so that swaps fall into the drain.
- `FixedUnits` takes every pair of 6-bit operands for the first result and a pair of
  negative ones for those after it. The loops of the units treat all bits but the first and the
  last alike, so 6 bits (with 4 before and 2 behind the point) have every kind of step; `valid`
  may fall in any cycle. With `MinGap` = 1 the multiplier fails (below).
- In `bank_handshake`, `PollLines` bounds the lines between two polls, and the quota is longer
  than two polls (`SpeedAssumption`; a quota of 100 lines of 18 passages takes far more than
  18 ms). `UpdateLines` bounds the lines during an update and exceeds twice the quota, so that a
  slow update makes the bank machine wait and a whole quota is carried over.
- `axi_registers` has the code's own widths; the gain is 11 at first, and the numbers entered are the ends of
  the range, one with a ramp of one step, one whose ramp wraps and one beyond a char. MathThread may take the lock at any time.
- `FireTimes` is evaluated at the sizes of the code: 360 columns of 5 frames, 9 degrees. The two
  values of `freq_i` are the mirror's frequency of `laserSync_tb.v:35` and `cordic.cpp:92` and that of the comment
  at `MathThread.cpp:186`, at the 500 MHz of `MathThread.cpp:11`.
- In `axi_slave` a call of three writes can be on its way, or single ones of two calls and more. Two cells and two words
  tell a word in a wrong cell, and an old word, from a right one.
- `TofMax` and `FireMax` bound queues that are unbounded in the code: no line
  completes, no swap happens while a queue is that long. A queue of two tables more than
  the initial two lets the producer run ahead and fall behind.
- `RxBufferCount` is 1 as in the code.

Fairness: the hardware runs are under weak fairness of the clock step; nothing is
assumed of mirror or writer except what a property names in its premise (`BanksAlternate`:
lines go on and the writer is done for good; `LinesComplete`: the mirror goes on). In
`LidarThreads` each thread is weakly fair, as a scheduler makes it while it is not
blocked. `main` is too. `DMAFinishLine` is strongly fair: transfers may fail again and again, but
lines keep arriving; after a shutdown DMAThread depends on that to complete its frame,
and if the laser is switched off before (option 5) it does not. In `axi_slave` the clock is weakly fair, the interconnect
sends what it has to send (`Sends`) and takes an answer that stays. In `bank_handshake` the clock and the steps of MathThread are weakly fair. In
`LidarThreads` the bank swap is weakly fair, and `PollsSeeSwaps` says that from some moment on a poll of MathThread falls
between any two swaps (the thread sleeps 9 ms, a bank is played longer; what happens otherwise is the subject of
`bank_handshake`). `Shutdown` has
no fairness: the user may never stop the program. `threads`, `shutdown`, `axi_registers` and
`horizontal` switch off the deadlock check because the program ends.

## What the checks show

The control behaves as designed under every timing of mirror and writer in
these instances, with three disagreements between the code and what is said of it:

1. **Option 3 of the menu does not switch the horizontal drive** (`horizontal`). It writes to address 14, where
   the comment names 0x0D, the register of the enable bits. Option 4 does write 0x0D, and sets the horizontal bit
   each time.
2. **An update can use the edge tick of the one before** (`edge_tick`), when the banks are
   swapped while the chain still drains. `DelaysAddUp`, `SchedulesAgree` and `EveryPositionOnce` are stated for updates
   that begin with the chain drained; without that premise they fail for the same reason.
3. **The program can hang on shutdown** (`shutdown`): ROSThread waits for a line or a
   table that nobody queues any more, and main does not return.

Three limits of sizes follow from the models, but no run is kept for them. Lines of more than 512 columns never end:
`raddr_r` has 9 bits (`timingCore.v:75`) and is compared with a port of 10, while `laserSynchronizer.v:30` allows
1023 columns (set `AddrMod` of `LineShots.cfg` to 2 to see it). From 2048 positions on,
`TOTAL_POINTS_P - 1` sets the sign bit of the divider in `thetaCos.v:84` and the step of the mirror comes out wrong, while
`thetaCos.v:27` allows 4095; `ChainAssumption` excludes it. And with `RX_BUFFER_COUNT` above 1 DMAThread
would not end after a shutdown, because the loop at `DMAThread.cpp:134` starts a transfer whenever
one is under way (`RxBufferCount` = 2 violates `WorkersEnd`); the code sets it to 1.

Some facts about the control are no disagreements with a clear text, but worth knowing. The line
counter goes on while the bank machine waits for the writer, so that lines of the old
bank are charged to the next one and a bank can be left unplayed; what does hold is
`FullQuotaUnlessCarried`. And a pulse lasts `pulse_length_i` + 2 cycles, or one, if the trigger comes in the first idle
cycle (`PulseWidths`); `laserSynchronizer.v` passes `PULSE_LENGTH_P - 1`, so its pulses are one cycle longer than
the parameter.

The number entered for the vertical gain is not checked (InterfaceThread.cpp:40-43), and the ramps count to it in four bits
(AXIInterfaceClass.cpp:529-536): from 16 on, option 4 takes the mirror from full gain to none in one step, several times if the
number is large, and the gain ends as what is left of it in four bits. `GainRamps` allows this for such numbers only
(`Near`; with its second line removed, TLC shows the fall from 15 to 0 after 17 was entered).

MathThread's polling is safe at any speed: it never writes into the bank being played
(`WritesBackBank`). It is not exact: when the bank machine has waited for it, the lines counted
meanwhile make the next swap follow at once, the thread sees only the level of `update_mem`, and
a bank is played a second time with old times. `StaleOnlyIfCarried` says that nothing but such a wait
leads there, `TablesRenewed` that updates still go on. The stronger "each bank is renewed
again and again" is false: swaps and polls can fall into step so that the same bank
comes to front stale every time.

The numbers of the chain are good enough, although eight roundings lie between a position and its tick. For
1800 positions a point is due between a sixteenth of a step after and half a step before the mirror is at its
position (`TimesRight`; the extremes are 0.03 after and 0.38 before), and times increase by at least three ticks from one to
the next (`TimesIncrease`). With the 100 MHz clock of a simulation the resolution of a tick alone costs up to 0.7 of a step.

The schedules of software and hardware agree, up to what `SchedulesAgree` says: the software turns its tables
round in backward passages where the hardware turns the frames, so frame `f` of the one
is frame `f`, or the one counted from the other end, of the other; MathThread's is one
position late; and the software takes the last point of a frame for the edge of the range, so that its
lines fall behind by the rest with each passage. cordic.cpp, the experiment, is not late.

The slave keeps each write whole, in order and answered, and each read too, whatever the bus does within
the protocol (`ImplementsFile`); the three accesses of `TimingCore_Write` store one word (`WordsReachMemory`).

Three facts about the arithmetic units are no disagreements with a text, but worth
knowing; the properties of `fixed_units` state them exactly. The divider loses the last bit of every
quotient (`fixed_div.v:93` stores the register before that bit is set); a negative difference is one unit of
the last place off (`fixed_sub.v:41`); and the multiplier needs `valid` to be low for two cycles, because
`ready_r` follows the old count (`new_fixed_mul.v:67`). The synchronizer keeps to that. In an update that takes
the old fall of valid for its own (2.), the operand also changes under a `valid` that is up;
hence the premise in the last part of `UnitsRest`.

## What is proved

`Bank_proofs`, about `BankUse`, for every quota, number of lines, number of frames and counter width
allowed by `PortAssumption`, `QuotaAssumption` (the quota can be exceeded by the
counter) and `PlayedAssumption` (the cap of the history is above the quota). The
invariant `QuotaInv` is not inductive without the types and without
`CounterWithinQuota`: the counter reaches quota + 1 only in a cycle in which no line is
reported, because the line machine reports for one cycle at a time (`KeepsMemoryContract`
checks that of `TimingCore`). `IInv` adds both and the group machine's part, that the frame's line
counter is below its limit while a line is being booked. From `IInv` follow `TypeCorrect`,
`QuotaCharged`, the action property in `FullQuota`, and `FramesInOrder`: each step of
the group machine is, under `lineBar` and `frameBar`, a step of `FrameSequence` or a stutter.

`LaserPulse_proofs`, for every pulse length that fits the counter: `PulseIInv` ties the
width of the pulse to the counter and to the two flags that lag behind the state; without it the
bound says nothing of the cycle in which the state has already changed. From it follow
`Exposure` and the action property in `Widths`.

`Bank_proofs`, about `BankHandshake`. That no word goes to the bank being played holds for every quota, frame size and speed of
the thread. `update_mem_r` follows the bank machine one cycle later, so that "the thread
writes the back bank" is not inductive. `WriterInv` adds the stage before: while the thread computes,
`mem_updated` is down and the bank machine cannot swap; the cycle in which the computation
ends gives `update_mem_r` the time to follow. From it follows the action property in `BackBankWritten`.
`StaleWhenCarried` needs the quota to be longer than two polls (`SpeedAssumption`). A swap passes
through three copies of the bank in front, `update_mem_r`, the last poll and the last
answer. `PollInv` says in which states of the thread they may differ, and what a difference means:
as long as the swap that brought a new table to front has no answer, the lines of that bank are
at most those of two polls (`AnswerNear`), too few for the next swap unless lines were carried over, which is where
`IInv` comes in.

`LineShots_proofs`, for all numbers of points, lines and frames, any tables, and a writer that does what it
likes. `CoreInv` says that bank and frame are settled before the first point is waited for, `WholeInv` counts points,
`PipeInv` says which word each stage of the block RAM holds, `ShotInv` how far the counter of a delay is, `BusyInv`
how long the laser driver stays busy. The hypotheses of the theorems are limits of the hardware:
`LineFits` (a line fits its address register, see the limits of sizes above), `ReadLatency = 2` for the flags, delays
no shorter than the latency of the block RAM for `ShotsInTime` (with shorter ones the counter would meet the
word of the point before) and delays beyond the pulse length for `ShotsKept`.

`TableUpdate_proofs`, for all initial tables, all times of a point and all latencies
of the chain. For `FrontComplete` and `WordsWrittenOnce` two arguments meet. A swap needs six cycles through four
registers before the update machine starts, so the next line must stay away that long: `LinesApart` is `MinLine >= 6`. Lines
are fractions of a millisecond apart; with 4 TLC finds the bank in front incomplete. `SwapInv` and `FrozenInv` follow
the swap. And the two pulses at the ends of the chain alternate, even when an update begins while results of
the last one are on their way (`ChainInv`, `PhaseInv`), so that the address, stepped by one of them, and the counters, stepped by the other,
stay together (`CountInv`). The handshake itself needs nothing of the lines: along the chain the ups
come first while the synchronizer waits for a result, and last while it waits for the fall (`FlowInv`); `UnitsGetRest`
follows. `PositionsTaken` needs nothing of the lines either: in an update that
begins with the chain empty, the operand that comes out is the one that was put in (`OperandInv`) and belongs to the point
that the counters show (`ThetaInv`), which go through all points (`AddressInv`, `CoverInv`).

`TablesAddUp` goes on from there to the words. A delay is made from the time of its point, from the one kept from the
point before, and at the start of a passage from that of the edge; `LastInv` and `EdgeInv` say that these two are
what they should be, `WordInv` and `CellsInv` that the delay of a point, and no other, reaches the cell of that point. The rest
is arithmetic: delays lead from each due time to the next modulo their width (`DelaysLead`), so that sums do (`SumsLead`).
That is an induction over the columns. The induction theorems of the library take an operator, which no prover here can
instantiate; `AllNumbers`, which says the same of a set of numbers, follows from the library's theorem that
sets of numbers have least elements (`LeastNumber`). `TablesAgree` compares with the software. Its two programs have one
column for a point, `myaddr`, whichever way the mirror moves (`SoftwareDelay` shows that the variant which `cordic.cpp:188-206`
has in a comment computes the same), and at that column their time is the synchronizer's (`TimesMeet`). Two hypotheses make the
software's delays fit their field: `Increasing`, that later positions are due later, which `TimesIncrease` checks for the numbers
of the chain, and `PassageHasPoints`, two points or more (the parameter is 20); with one point a passage would
begin beyond where the last one ended.

`AxiSlave_proofs`, for all cells, words and any number of posted writes. `AxiInv` ties three views of the same writes together:
the handshakes of the two channels, which the slave takes in the same cycle (`SlaveInv`); the whole calls that the queues are made of
(`CallsInv`); and what they are going to store (`WantInv`). `SlaveIsRegisterFile` maps initial states and
steps to those of `RegisterFile`; that each write ends is liveness and stays with TLC.

`LidarThreads_proofs`, for every number of rows, frames and buffers and every bound of the queues. None of the properties is inductive:
that a row of the cloud holds the line counted as that row depends on all the lines still queued, so `QueueInOrder`
says that they follow each other from the row that ROSThread will take to the row that DMAThread will count;
the bounds of the queues of tables depend on the swaps that the thread has not yet seen
(`TablesBounded`). `ROSInv`, `DMAInv` and `MathInv` are the parts of one thread each.

`Units_proofs`, for operands of every width that `UnitsAssumption` allows (both widths even, since the square root takes two bits at a time), any operands after
the first and `valid` falling in any cycle. A unit is free to be stopped in any cycle, so the state it is in when it starts again matters as
much as its loop. `ControlInv` says what each may be in: the multiplier, which takes its operands one cycle after it has seen `valid` down,
needs the second low cycle to be ready for the next product. From `ControlInv` follows
`UnitsHandshake`, that each step of a unit is one of `HandshakeUnit`. `DataInv` gives the numbers in the registers while a unit works,
as an equation between the operands, the part of the result that is there and the part of the operand still to come:
the quotient so far with its remainder (`PartialQuotient`), the sum of the partial products with the bits not yet used
(`PartialProduct`), the root so far, whose square is below what has been shifted in (`PartialRoot`). At the end nothing is left to come, and
`UnitsResults` reads the result off, with the divider's lost bit and the subtracter's off-by-one as
`ResultsRight` states them. What the proof needs of powers of two comes from the library's theorem on the number of subsets
(`PowerDoubles`, `PowerSum`). The hypothesis `MinGap >= 2` is what `UnitsGetRest` proves of the synchronizer; with 1 TLC finds a wrong
product.

`AxiRegisters_proofs`, for every width of the gain, every gain left by the configuration and all numbers that
the user enters, those beyond the width too. Each property is about a call's remaining operations, so the invariants are too, and the step that takes the first of them away
must leave the same said of the rest. `Locking` says that what is left of a call is inside a locked part
exactly when its thread has the lock; without it two threads could both have read the copy. `CopyInv` gives the copy as the sum of the flags
that the threads have set and of the command bit under way, and the register as the copy but for the one change that the holder of the lock has
stored and not yet written; `FlagsCorrect` follows. `PotInv` looks for the ready bit before the next potentiometer command:
the check precedes the lock, and it is good because no other thread sends one in between.
`GainInv` says of the commands left for the ASIC that each is a permitted step from what those before it
leave (`Before`), and that the last leave the gain and the drive as the menu has them; so the next call starts from there, and
`VerticalGainRamps` follows for calls whose ramps have any length. It says that the drive is switched at gain 0 whatever was
entered, and that a ramp takes steps of one unless the number is beyond the width, when it wraps (`NextGain`); option 2 jumps by
intent, and option 9 is left out of it, as above.

The proofs use the assumptions that the modules state of their constants, among them the widths of ports
and registers in `WidthAssumption`, `TableAssumption` and `QuotaPortAssumption`; TLC evaluates all of them in the runs.

Only model-checked:

- all liveness (`BanksAlternate`, `LinesComplete`, `UpdateEnds`, `TablesRenewed`, `CloudsGoOn`, `WorkersEnd` and the liveness
  in `ImplementsFile`), which with fairness and ENABLED is beyond the prover;
- the numbers of the chain (`TimesRight`, `TimesIncrease`), which are computed iteration by iteration with the
  constants and the word lengths of the source: TLC evaluates all 1800 positions, at two frequencies;
- the three disagreements, which are single behaviours that TLC finds.

## What is not modelled

The rounding of double precision in the software's arc cosine, the pipeline registers of `arcTan.v` as state,
the registers behind no flag (vsync, laser frequency), the contents of clouds, reset in operation,
metastability of `zc_i` and clock domains, DMA driver internals, failures of `open`, `mmap` and `pthread_create` (they are
printed or thrown, nothing recovers from them). `PROJECT.json` lists each component with its reason.

Test benches, `printMenu`, the tables of register names in `AXIInterfaceClass.h`, the printing at the end of the
threads, the commented-out variants in `cordic.cpp` and the Matlab script have no state or order to check. More than two thirds of the
C and C++ lines of the repository, 6154 of 8574, are one file, `xsim_10.c`, which the
simulator generated from the Verilog for a run of the test bench: its program is what the modules model,
from the Verilog itself.

## Plan

Modelled, in this order: memory manager, laser driver, line machine, their
composition, synchronizer, arithmetic units, threads, MathThread against the bank machine, register access, AXI slave, schedules
and the numbers of the chain. Proved, in this order: bank and frame control, laser driver, MathThread against the bank machine
(twice: no write to the front, then no stale bank), threads, AXI slave, line machine, synchronizer (complete tables, handshake,
positions, sums, agreement with the software), register access (flags, potentiometer, gain ramps), arithmetic units (handshake and
results at every width). Left:

1. That an up of valid which enters the chain leaves it with the operand of its own point also in an update that
   begins before the chain is empty, as far as it is true (finding 2).
2. `TimesRight` and `TimesIncrease` for other mirrors and numbers of positions, from bounds on the eight roundings.
