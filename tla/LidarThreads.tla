---------------------------- MODULE LidarThreads ----------------------------
(***************************************************************************)
(* The threads of sw-app/classes and the queues between them.  DMAThread   *)
(* queues the lines of measured times (TOFClass), MathThread queues the    *)
(* tables of fire times of each frame after each swap of the banks         *)
(* (FireClass, a queue per frame), ROSThread takes both and builds point   *)
(* clouds, InterfaceThread shuts the program down through StopClass; main  *)
(* starts the four and waits for them to end.                              *)
(*                                                                         *)
(* A step is a critical section of a queue or of the stop flag together    *)
(* with the thread's own computation around it.  dequeue does not check    *)
(* again after its wait, so a wait is a step of its own; pthread_cond_wait *)
(* is taken to return only when signalled.  A line is its number in the    *)
(* frame, a table is counted.                                              *)
(***************************************************************************)
EXTENDS Integers, Sequences

CONSTANTS
  FrameRows,        \* FRAME_ROWS, and MEMCYCLES, which is defined as FRAME_ROWS
  NumberOfFrames,   \* NUMBER_OF_FRAMES
  RxBufferCount,    \* RX_BUFFER_COUNT of DMAThread.cpp (1)
  TofMax,           \* bound: lines queued while the program is not stopping
  FireMax           \* bound: no swap of the banks while a queue has more tables

ASSUME ThreadsAssumption ==
  /\ FrameRows \in Nat \ {0} /\ NumberOfFrames \in Nat \ {0}
  /\ RxBufferCount \in Nat \ {0} /\ TofMax \in Nat \ {0} /\ FireMax \in Nat \ {0}

VARIABLES
  main_pc,                                    \* main
  stop, interface_pc,                         \* StopClass, InterfaceThread
  ToFQueue,                                   \* TOFClass: lines
  FireMemory, FireMemoryActive,               \* FireClass: tables per frame
  dma_pc, in_progress_count, frame_rows,      \* DMAThread
  math_pc, newcycle, precycle, math_frame,    \* MathThread
  ros_pc, row, tof_line, fire_k, signalled,   \* ROSThread; signalled: its wait is over
  update_mem, mem_updated                     \* registers of the timing core

dmaVars  == <<dma_pc, in_progress_count, frame_rows>>
mathVars == <<math_pc, newcycle, precycle, math_frame>>
rosVars  == <<ros_pc, row, tof_line, fire_k>>
fireVars == <<FireMemory, FireMemoryActive>>
hwVars   == <<update_mem, mem_updated>>
mainVars == <<main_pc, interface_pc>>
vars == <<stop, ToFQueue, fireVars, dmaVars, mathVars, rosVars, signalled, hwVars, mainVars>>

Frames == 0 .. NumberOfFrames - 1

\* The variables of each thread before its run(), and the queues as they are constructed.
FireInit == FireMemory = [f \in Frames |-> 2] /\ FireMemoryActive = 0
DMAInit  == dma_pc = "new" /\ in_progress_count = 0 /\ frame_rows = 0
MathInit == math_pc = "new" /\ newcycle = TRUE /\ precycle = TRUE /\ math_frame = 0
ROSInit  == ros_pc = "new" /\ row = 0 /\ tof_line = 0 /\ fire_k = 0 /\ signalled = FALSE
HWInit   == update_mem = TRUE /\ mem_updated = FALSE

Init ==
  /\ main_pc = "start_dma" /\ interface_pc = "new" /\ stop = FALSE
  /\ ToFQueue = <<>> /\ FireInit
  /\ DMAInit /\ MathInit /\ ROSInit /\ HWInit
-----------------------------------------------------------------------------
\* Thread::start and Thread::join.
Start(pc, entry) == pc = "new" /\ pc' = entry
Join(pc) == pc = "ended"

\* main, after ConfigurationThread has run and has been joined.
MainStart ==
  /\ \/ /\ main_pc = "start_dma" /\ main_pc' = "start_ros"
        /\ Start(dma_pc, "setup") /\ UNCHANGED <<ros_pc, math_pc, interface_pc>>
     \/ /\ main_pc = "start_ros" /\ main_pc' = "start_math"
        /\ Start(ros_pc, "loop") /\ UNCHANGED <<dma_pc, math_pc, interface_pc>>
     \/ /\ main_pc = "start_math" /\ main_pc' = "start_interface"
        /\ Start(math_pc, "loop") /\ UNCHANGED <<dma_pc, ros_pc, interface_pc>>
     \/ /\ main_pc = "start_interface" /\ main_pc' = "join_dma"
        /\ Start(interface_pc, "menu") /\ UNCHANGED <<dma_pc, ros_pc, math_pc>>
  /\ UNCHANGED <<stop, ToFQueue, fireVars, in_progress_count, frame_rows, newcycle, precycle,
                 math_frame, row, tof_line, fire_k, signalled, hwVars>>

MainJoin ==
  /\ \/ main_pc = "join_dma" /\ Join(dma_pc) /\ main_pc' = "join_ros"
     \/ main_pc = "join_ros" /\ Join(ros_pc) /\ main_pc' = "join_math"
     \/ main_pc = "join_math" /\ Join(math_pc) /\ main_pc' = "join_interface"
     \/ main_pc = "join_interface" /\ Join(interface_pc) /\ main_pc' = "returned"
  /\ UNCHANGED <<stop, ToFQueue, fireVars, dmaVars, mathVars, rosVars, signalled, hwVars,
                 interface_pc>>
-----------------------------------------------------------------------------
\* The k-th queue that FireClass::dequeue takes from: the others, then the active one.
\* Mutant: the active queue is not skipped.
FireAtActiveTwice(k) == IF k < NumberOfFrames - 1 THEN k ELSE FireMemoryActive

FireAt(k) == IF k = NumberOfFrames - 1 THEN FireMemoryActive
             ELSE IF k < FireMemoryActive THEN k ELSE k + 1

\* Mutant: the queues share one condition.
NotifiesToFShared == ros_pc \in {"line_wait", "fire_wait"}

\* A notify reaches ROSThread, the only consumer, if it waits on that queue.
NotifiesToF     == ros_pc = "line_wait"
NotifiesFire(f) == ros_pc = "fire_wait" /\ FireAt(fire_k) = f

ToFEnqueue(line) == /\ ToFQueue' = Append(ToFQueue, line)
                    /\ signalled' = (signalled \/ NotifiesToF)

FireEnqueue(f) == /\ FireMemory' = [FireMemory EXCEPT ![f] = @ + 1]
                  /\ signalled' = (signalled \/ NotifiesFire(f))

changeFrame == FireMemoryActive' = (FireMemoryActive + 1) % NumberOfFrames
-----------------------------------------------------------------------------
\* All buffers are started.
DMASetup ==
  /\ dma_pc = "setup"
  /\ in_progress_count' = RxBufferCount
  /\ dma_pc' = "loop"
  /\ UNCHANGED <<stop, ToFQueue, fireVars, frame_rows, mathVars, rosVars, signalled, hwVars,
                 mainVars>>

DMALoop ==
  /\ dma_pc = "loop"
  /\ dma_pc' = IF in_progress_count > 0 THEN "finish" ELSE IF ~stop THEN "refill" ELSE "ended"
  /\ UNCHANGED <<stop, ToFQueue, fireVars, in_progress_count, frame_rows,
                 mathVars, rosVars, signalled, hwVars, mainVars>>

\* FINISH_XFER returned a line.
DMAFinishLine ==
  /\ dma_pc = "finish" /\ in_progress_count > 0
  /\ stop \/ Len(ToFQueue) < TofMax
  /\ ToFEnqueue(frame_rows)
  /\ frame_rows' = (frame_rows + 1) % FrameRows
  /\ in_progress_count' = in_progress_count - 1
  /\ dma_pc' = "refill"
  /\ UNCHANGED <<stop, fireVars, mathVars, rosVars, hwVars, mainVars>>

\* Mutant: a transfer that failed counts as a line of the frame.
DMAFinishMissedCounts ==
  /\ dma_pc = "finish" /\ in_progress_count > 0
  /\ frame_rows' = (frame_rows + 1) % FrameRows
  /\ in_progress_count' = in_progress_count - 1
  /\ dma_pc' = "refill"
  /\ UNCHANGED <<stop, ToFQueue, fireVars, mathVars, rosVars, signalled, hwVars, mainVars>>

\* FINISH_XFER returned an error or ran into its timeout.
DMAFinishMissed ==
  /\ dma_pc = "finish" /\ in_progress_count > 0
  /\ in_progress_count' = in_progress_count - 1
  /\ dma_pc' = "refill"
  /\ UNCHANGED <<stop, ToFQueue, fireVars, frame_rows, mathVars, rosVars, signalled, hwVars,
                 mainVars>>

\* Mutants: no transfer is started once the program stops; always one more; the
\* buffers in use are not counted.
MoreTransfersRunning == ~stop /\ in_progress_count < RxBufferCount
MoreTransfersAlways == in_progress_count < RxBufferCount
MoreTransfersUncounted == ~stop /\ in_progress_count < RxBufferCount + 1

\* When the program stops, transfers are started until the frame is complete.
MoreTransfers == /\ ~stop \/ frame_rows + in_progress_count > 0
                 /\ in_progress_count < RxBufferCount

DMARefill ==
  /\ dma_pc = "refill"
  /\ \/ MoreTransfers /\ in_progress_count' = in_progress_count + 1 /\ UNCHANGED dma_pc
     \/ ~MoreTransfers /\ dma_pc' = "loop" /\ UNCHANGED in_progress_count
  /\ UNCHANGED <<stop, ToFQueue, fireVars, frame_rows, mathVars, rosVars, signalled, hwVars,
                 mainVars>>
-----------------------------------------------------------------------------
MathLoop ==
  /\ math_pc = "loop"
  /\ math_pc' = IF stop THEN "ended" ELSE "read"
  /\ UNCHANGED <<stop, ToFQueue, fireVars, dmaVars, newcycle, precycle, math_frame,
                 rosVars, signalled, hwVars, mainVars>>

\* TimingCore_Memory_Update
MathRead ==
  /\ math_pc = "read"
  /\ newcycle' = update_mem
  /\ math_pc' = "enable"
  /\ UNCHANGED <<stop, ToFQueue, fireVars, dmaVars, precycle, math_frame,
                 rosVars, signalled, hwVars, mainVars>>

\* TimingCore_Memory_Enable; then the thread sleeps or begins an update.
MathEnable ==
  /\ math_pc = "enable"
  /\ mem_updated' = TRUE
  /\ math_pc' = IF newcycle # precycle THEN "disable" ELSE "loop"
  /\ UNCHANGED <<stop, ToFQueue, fireVars, dmaVars, newcycle, precycle, math_frame,
                 rosVars, signalled, update_mem, mainVars>>

\* TimingCore_Memory_Disable
MathDisable ==
  /\ math_pc = "disable"
  /\ mem_updated' = FALSE
  /\ precycle' = newcycle
  /\ math_frame' = 0
  /\ math_pc' = "enqueue"
  /\ UNCHANGED <<stop, ToFQueue, fireVars, dmaVars, newcycle, rosVars, signalled, update_mem,
                 mainVars>>

\* Mutant: the table of the last frame is not queued.
LastTableEarly == math_frame >= NumberOfFrames - 2

LastTable == math_frame = NumberOfFrames - 1

\* The table of one frame is computed, written to the timing core and queued.
MathEnqueue ==
  /\ math_pc = "enqueue"
  /\ FireEnqueue(math_frame)
  /\ math_frame' = math_frame + 1
  /\ math_pc' = IF LastTable THEN "loop" ELSE "enqueue"
  /\ UNCHANGED <<stop, ToFQueue, FireMemoryActive, dmaVars, newcycle, precycle, rosVars,
                 hwVars, mainVars>>

\* The timing core swaps the banks when it is told that the back bank is complete.
HWSwap ==
  /\ mem_updated
  /\ \A f \in Frames : FireMemory[f] <= FireMax
  /\ update_mem' = ~update_mem
  /\ UNCHANGED <<stop, ToFQueue, fireVars, dmaVars, mathVars, rosVars, signalled, mem_updated,
                 mainVars>>
-----------------------------------------------------------------------------
ROSLoop ==
  /\ ros_pc = "loop"
  /\ ros_pc' = IF stop THEN "drain" ELSE "line"
  /\ row' = 0
  /\ UNCHANGED <<stop, ToFQueue, fireVars, dmaVars, mathVars, tof_line, fire_k, signalled,
                 hwVars, mainVars>>

\* The second half of the loop condition: TOFClass::size, read without the lock.
ROSDrain ==
  /\ ros_pc = "drain"
  /\ ros_pc' = IF Len(ToFQueue) > 0 THEN "line" ELSE "ended"
  /\ UNCHANGED <<stop, ToFQueue, fireVars, dmaVars, mathVars, row, tof_line, fire_k,
                 signalled, hwVars, mainVars>>

TakeLine == /\ ToFQueue # <<>>
            /\ tof_line' = Head(ToFQueue)
            /\ ToFQueue' = Tail(ToFQueue)

\* TOFClass::dequeue: at once, or after a wait.
ROSTakeLine ==
  /\ \/ ros_pc = "line"
     \/ ros_pc = "line_wait" /\ signalled
  /\ TakeLine
  /\ ros_pc' = "row"
  /\ signalled' = FALSE
  /\ UNCHANGED <<stop, fireVars, dmaVars, mathVars, row, fire_k, hwVars, mainVars>>

ROSWaitLine ==
  /\ ros_pc = "line" /\ ToFQueue = <<>>
  /\ ros_pc' = "line_wait"
  /\ UNCHANGED <<stop, ToFQueue, fireVars, dmaVars, mathVars, row, tof_line, fire_k,
                 signalled, hwVars, mainVars>>

\* With the first row of a frame (row % MEMCYCLES = 0) the tables are taken too.
ROSRow ==
  /\ ros_pc = "row"
  /\ ros_pc' = IF row = 0 /\ ~stop THEN "fire" ELSE "store"
  /\ fire_k' = 0
  /\ UNCHANGED <<stop, ToFQueue, fireVars, dmaVars, mathVars, row, tof_line, signalled,
                 hwVars, mainVars>>

\* FireClass::dequeue: one table from each queue, each at once or after a wait.
ROSTakeFire ==
  /\ \/ ros_pc = "fire"
     \/ ros_pc = "fire_wait" /\ signalled
  /\ FireMemory[FireAt(fire_k)] > 0
  /\ FireMemory' = [FireMemory EXCEPT ![FireAt(fire_k)] = @ - 1]
  /\ fire_k' = fire_k + 1
  /\ ros_pc' = IF fire_k = NumberOfFrames - 1 THEN "store" ELSE "fire"
  /\ signalled' = FALSE
  /\ UNCHANGED <<stop, ToFQueue, FireMemoryActive, dmaVars, mathVars, row, tof_line, hwVars,
                 mainVars>>

ROSWaitFire ==
  /\ ros_pc = "fire" /\ FireMemory[FireAt(fire_k)] = 0
  /\ ros_pc' = "fire_wait"
  /\ UNCHANGED <<stop, ToFQueue, fireVars, dmaVars, mathVars, row, tof_line, fire_k,
                 signalled, hwVars, mainVars>>

\* The line goes into its row of the point cloud; the last one publishes it.
ROSStore ==
  /\ ros_pc = "store"
  /\ row' = row + 1
  /\ \/ row + 1 < FrameRows /\ ros_pc' = "line" /\ UNCHANGED FireMemoryActive
     \/ row + 1 = FrameRows /\ ros_pc' = "loop" /\ changeFrame
  /\ UNCHANGED <<stop, ToFQueue, FireMemory, dmaVars, mathVars, tof_line, fire_k, signalled,
                 hwVars, mainVars>>
-----------------------------------------------------------------------------
\* Option 10 of the menu; the loop of InterfaceThread ends with it.
Shutdown == /\ interface_pc = "menu"
            /\ stop' = TRUE /\ interface_pc' = "ended"
            /\ UNCHANGED <<ToFQueue, fireVars, dmaVars, mathVars, rosVars, signalled, hwVars,
                           main_pc>>

MainNext == MainStart \/ MainJoin
DMANext  == DMASetup \/ DMALoop \/ DMAFinishLine \/ DMAFinishMissed \/ DMARefill
MathNext == MathLoop \/ MathRead \/ MathEnable \/ MathDisable \/ MathEnqueue
ROSNext  == ROSLoop \/ ROSDrain \/ ROSTakeLine \/ ROSWaitLine \/ ROSRow
            \/ ROSTakeFire \/ ROSWaitFire \/ ROSStore

Next == MainNext \/ DMANext \/ MathNext \/ ROSNext \/ HWSwap \/ Shutdown

Spec == Init /\ [][Next]_vars

\* A bank lasts longer than the thread's sleep: a poll falls between two swaps.  A
\* bank may be left at once (BankUse), but not for ever.
PollsSeeSwaps == <>[][update_mem' # update_mem => newcycle = update_mem]_vars

\* The scheduler runs each thread; lines keep arriving, though transfers may fail
\* again and again; the timing core swaps when it may.  The user may never stop
\* the program.
FairSpec == /\ Spec
            /\ WF_vars(MainNext)
            /\ WF_vars(DMANext) /\ SF_vars(DMAFinishLine)
            /\ WF_vars(MathNext) /\ WF_vars(ROSNext)
            /\ WF_vars(HWSwap) /\ PollsSeeSwaps
-----------------------------------------------------------------------------
\* Type invariant.
TypeOK ==
  /\ {stop, newcycle, precycle, signalled, update_mem, mem_updated} \subseteq BOOLEAN
  /\ interface_pc \in {"new", "menu", "ended"}
  /\ ToFQueue \in Seq(0 .. FrameRows - 1)
  /\ FireMemory \in [Frames -> 0 .. FireMax + 2] /\ FireMemoryActive \in Frames
  /\ dma_pc \in {"new", "setup", "loop", "finish", "refill", "ended"}
  /\ in_progress_count \in 0 .. RxBufferCount /\ frame_rows \in 0 .. FrameRows - 1
  /\ math_pc \in {"new", "loop", "read", "enable", "disable", "enqueue", "ended"}
  /\ math_frame \in 0 .. NumberOfFrames
  /\ ros_pc \in {"new", "loop", "drain", "line", "line_wait", "row", "fire", "fire_wait",
                 "store", "ended"}
  /\ row \in 0 .. FrameRows /\ tof_line \in 0 .. FrameRows - 1
  /\ fire_k \in 0 .. NumberOfFrames

\* Safety: a wait ends with an element in the queue, although dequeue tests the
\* queue with an if before the wait and not after it (QueueClass.h:42-43,
\* TOFClass.cpp:29-30).
WaitEndsWithElement ==
  signalled => \/ ros_pc = "line_wait" /\ ToFQueue # <<>>
               \/ ros_pc = "fire_wait" /\ FireMemory[FireAt(fire_k)] > 0

\* Safety: each row of a point cloud holds the line that DMAThread counted as
\* that row, whatever transfers fail in between (DMAThread.cpp:84-129,
\* ROSThread.cpp:55-95).
RowsAligned == ros_pc \in {"row", "fire", "fire_wait", "store"} => tof_line = row

\* Safety: the queues of FireClass stay in step: apart from the update being queued
\* and the one being taken, they hold the same number of tables, whichever frame is
\* active (FireClass.cpp:45-63).
TablesLeft(f) ==
  LET ahead  == IF math_pc = "enqueue" /\ f < math_frame THEN 1 ELSE 0
      behind == IF ros_pc \in {"fire", "fire_wait"} /\ \E k \in 0 .. fire_k - 1 : FireAt(k) = f
                THEN 1 ELSE 0
  IN  FireMemory[f] - ahead + behind
FireQueuesLevel == \A f, g \in Frames : TablesLeft(f) = TablesLeft(g)

\* Safety: DMAThread ends at the end of a frame, with no transfer under way, so
\* that ROSThread is not left with half a point cloud (DMAThread.cpp:131-149).
DMAEndsOnFrame == dma_pc = "ended" => frame_rows = 0 /\ in_progress_count = 0

\* Liveness: until the program is stopped, point clouds are published: the threads
\* never wait for each other's queues for good (ROSThread.cpp:50-114).
CloudsGoOn == []<>(stop \/ (ros_pc = "store" /\ row + 1 = FrameRows))

\* Liveness: after option 10, DMAThread and MathThread end (DMAThread.cpp:81-150,
\* MathThread.cpp:57-187).
WorkersEnd == stop ~> dma_pc = "ended" /\ math_pc = "ended"

\* Claim of InterfaceThread.cpp:141, "10. Shutdown LIDAR": after it every thread
\* that main joins ends, and main returns (main.cpp:36-40).
ShutdownEnds == stop ~> main_pc = "returned"
=============================================================================
