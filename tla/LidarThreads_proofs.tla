------------------------- MODULE LidarThreads_proofs -------------------------
(***************************************************************************)
(* Proofs about the threads, for every number of rows, frames and buffers  *)
(* and for every bound of the queues.  The inductive invariant has a part  *)
(* for each thread, and two that tie a queue to the threads at its ends:   *)
(* the lines queued follow each other from the row that ROSThread will     *)
(* take to the row that DMAThread will count, and the tables queued stay   *)
(* within what the swaps of the banks call for.                            *)
(***************************************************************************)
EXTENDS LidarThreads, SequenceTheorems, TLAPS

Succ(r) == IF r + 1 = FrameRows THEN 0 ELSE r + 1

HasLine == ros_pc \in {"row", "fire", "fire_wait", "store"}
TakesLine == ros_pc \in {"line", "line_wait"}

\* The row of the line that ROSThread will take next.
RowDue == IF TakesLine THEN row ELSE IF HasLine THEN Succ(row) ELSE 0

\* Lines are queued in the order of their rows, from RowDue to the row before
\* frame_rows.
QueueInOrder ==
  /\ ToFQueue = <<>> => frame_rows = RowDue
  /\ ToFQueue # <<>> => ToFQueue[1] = RowDue /\ frame_rows = Succ(ToFQueue[Len(ToFQueue)])
  /\ \A i \in 1 .. Len(ToFQueue) - 1 : ToFQueue[i + 1] = Succ(ToFQueue[i])

ROSInv == /\ TakesLine \/ HasLine => row < FrameRows
          /\ ros_pc = "drain" => row = 0
          /\ ros_pc \in {"fire", "fire_wait"} => fire_k < NumberOfFrames

\* The transfers are refilled whenever DMAThread comes to its loop, unless it may end.
DMAInv == dma_pc = "loop" /\ in_progress_count = 0 => frame_rows = 0

MathInv == /\ math_pc = "disable" => newcycle # precycle
           /\ math_pc \notin {"enable", "disable"} => newcycle = precycle
           /\ math_pc = "enqueue" => math_frame < NumberOfFrames

\* Tables of a frame that MathThread is going to queue without another swap.
SeenDue(f) == \/ math_pc \in {"enable", "disable"} /\ newcycle # precycle
              \/ math_pc = "enqueue" /\ f >= math_frame
TablesDue(f) == (IF update_mem # newcycle THEN 1 ELSE 0) + (IF SeenDue(f) THEN 1 ELSE 0)

TablesBounded == \A f \in Frames : FireMemory[f] + TablesDue(f) <= FireMax + 2

ThreadsInv == /\ TypeOK /\ WaitEndsWithElement /\ RowsAligned /\ FireQueuesLevel
              /\ DMAEndsOnFrame
              /\ QueueInOrder /\ ROSInv /\ DMAInv /\ MathInv /\ TablesBounded

\* Counting modulo the rows of a frame is the successor of the row.
LEMMA RowSuccessor ==
  /\ \A r \in 0 .. FrameRows - 1 : Succ(r) \in 0 .. FrameRows - 1 /\ (r + 1) % FrameRows = Succ(r)
  /\ 0 \in 0 .. FrameRows - 1
<1> USE ThreadsAssumption DEF Succ
<1>1. ASSUME NEW r \in 0 .. FrameRows - 1 PROVE (r + 1) % FrameRows = Succ(r)
  <2>1. CASE r + 1 = FrameRows
    BY <2>1
  <2>2. CASE r + 1 # FrameRows
    BY <2>2
  <2> QED
    BY <2>1, <2>2
<1> QED
  BY <1>1

\* FireClass::dequeue takes from every queue once (FireClass.cpp:45-63).
LEMMA FireAtEachQueue ==
  ASSUME FireMemoryActive \in Frames
  PROVE  /\ \A k \in Frames : FireAt(k) \in Frames
         /\ \A j, k \in Frames : FireAt(j) = FireAt(k) => j = k
         /\ \A f \in Frames : \E k \in Frames : FireAt(k) = f
<1> USE ThreadsAssumption DEF Frames, FireAt
<1>1. \A k \in Frames : FireAt(k) \in Frames
  OBVIOUS
<1>2. \A j, k \in Frames : FireAt(j) = FireAt(k) => j = k
  OBVIOUS
<1>3. ASSUME NEW f \in Frames PROVE \E k \in Frames : FireAt(k) = f
  <2>1. CASE f = FireMemoryActive
    <3>1. NumberOfFrames - 1 \in Frames /\ FireAt(NumberOfFrames - 1) = f
      BY <2>1
    <3> QED
      BY <3>1
  <2>2. CASE f < FireMemoryActive
    <3>1. f \in Frames /\ FireAt(f) = f
      BY <2>2
    <3> QED
      BY <3>1
  <2>3. CASE f > FireMemoryActive
    <3>1. f - 1 \in Frames /\ FireAt(f - 1) = f
      BY <2>3
    <3> QED
      BY <3>1
  <2> QED
    BY <2>1, <2>2, <2>3
<1> QED
  BY <1>1, <1>2, <1>3

\* Which steps change what: a thread's variables are its own, but for the start by main.
LEMMA Writers ==
  ASSUME [Next]_vars
  PROVE  /\ DMANext \/ dma_pc' = dma_pc \/ (dma_pc = "new" /\ dma_pc' = "setup")
         /\ DMANext \/ in_progress_count' = in_progress_count
         /\ MathNext \/ math_pc' = math_pc \/ (math_pc = "new" /\ math_pc' = "loop")
         /\ MathNext \/ newcycle' = newcycle
         /\ MathNext \/ precycle' = precycle
         /\ MathNext \/ math_frame' = math_frame
         /\ ROSNext \/ ros_pc' = ros_pc \/ (ros_pc = "new" /\ ros_pc' = "loop")
         /\ ROSNext \/ row' = row
         /\ ROSNext \/ tof_line' = tof_line
         /\ ROSNext \/ fire_k' = fire_k
         /\ ROSNext \/ FireMemoryActive' = FireMemoryActive
         /\ DMAFinishLine \/ ROSNext \/ ToFQueue' = ToFQueue
         /\ DMAFinishLine \/ frame_rows' = frame_rows
         /\ MathEnqueue \/ ROSNext \/ FireMemory' = FireMemory
         /\ DMAFinishLine \/ MathEnqueue \/ ROSNext \/ signalled' = signalled
         /\ HWSwap \/ update_mem' = update_mem
<1> USE DEF Next, vars, MainNext, MainStart, MainJoin, Start, HWSwap, Shutdown,
            mainVars, dmaVars, mathVars, rosVars, fireVars, hwVars
<1>1. CASE DMANext
  BY <1>1 DEF DMANext, DMASetup, DMALoop, DMAFinishLine, DMAFinishMissed, DMARefill
<1>2. CASE MathNext
  BY <1>2 DEF MathNext, MathLoop, MathRead, MathEnable, MathDisable, MathEnqueue
<1>3. CASE ROSNext
  BY <1>3 DEF ROSNext, ROSLoop, ROSDrain, ROSTakeLine, ROSWaitLine, ROSRow, ROSTakeFire,
              ROSWaitFire, ROSStore
<1>4. CASE MainNext
  BY <1>4
<1>5. CASE HWSwap \/ Shutdown \/ UNCHANGED vars
  BY <1>5
<1> QED
  BY <1>1, <1>2, <1>3, <1>4, <1>5

\* The threads' variables before main starts them satisfy the invariant.
LEMMA InitThreadsInv == Init => ThreadsInv
<1> SUFFICES ASSUME Init PROVE ThreadsInv
  OBVIOUS
<1> USE ThreadsAssumption DEF Init, FireInit, DMAInit, MathInit, ROSInit, HWInit
<1>1. TypeOK
  BY DEF TypeOK, Frames
<1>2. WaitEndsWithElement /\ RowsAligned /\ DMAEndsOnFrame
  BY DEF WaitEndsWithElement, RowsAligned, DMAEndsOnFrame
<1>3. FireQueuesLevel
  BY DEF FireQueuesLevel, TablesLeft
<1>4. QueueInOrder
  BY DEF QueueInOrder, RowDue, HasLine, TakesLine
<1>5. ROSInv /\ DMAInv /\ MathInv
  BY DEF ROSInv, DMAInv, MathInv, HasLine, TakesLine
<1>6. TablesBounded
  BY DEF TablesBounded, TablesDue, SeenDue
<1> QED
  BY <1>1, <1>2, <1>3, <1>4, <1>5, <1>6 DEF ThreadsInv

\* A step keeps the variables in their ranges.
LEMMA ThreadsTypeStep == ThreadsInv /\ [Next]_vars => TypeOK'
<1> SUFFICES ASSUME ThreadsInv, [Next]_vars PROVE TypeOK'
  OBVIOUS
<1> USE ThreadsAssumption
    DEF Next, vars, MainNext, MainStart, MainJoin, Start, DMANext, DMASetup, DMALoop, DMAFinishLine,
        DMAFinishMissed, DMARefill, MathNext, MathLoop, MathRead, MathEnable, MathDisable,
        MathEnqueue, ROSNext, ROSLoop, ROSDrain, ROSTakeLine, ROSWaitLine, ROSRow, ROSTakeFire,
        ROSWaitFire, ROSStore, HWSwap, Shutdown,
        mainVars, dmaVars, mathVars, rosVars, fireVars, hwVars
<1>1. {stop', newcycle', precycle', signalled', update_mem', mem_updated'} \subseteq BOOLEAN
  BY DEF ThreadsInv, TypeOK, ToFEnqueue, FireEnqueue, NotifiesToF, NotifiesFire
<1>2. /\ interface_pc' \in {"new", "menu", "ended"}
      /\ dma_pc' \in {"new", "setup", "loop", "finish", "refill", "ended"}
      /\ math_pc' \in {"new", "loop", "read", "enable", "disable", "enqueue", "ended"}
      /\ ros_pc' \in {"new", "loop", "drain", "line", "line_wait", "row", "fire", "fire_wait",
                      "store", "ended"}
  BY DEF ThreadsInv, TypeOK
<1>3. in_progress_count' \in 0 .. RxBufferCount
  BY DEF ThreadsInv, TypeOK, MoreTransfers
<1>4. frame_rows' \in 0 .. FrameRows - 1 /\ ToFQueue' \in Seq(0 .. FrameRows - 1)
      /\ tof_line' \in 0 .. FrameRows - 1
  <2>1. (frame_rows + 1) % FrameRows \in 0 .. FrameRows - 1
    BY RowSuccessor DEF ThreadsInv, TypeOK
  <2>2. ASSUME TakeLine PROVE tof_line' \in 0 .. FrameRows - 1 /\ ToFQueue' \in Seq(0 .. FrameRows - 1)
    BY <2>2, HeadTailProperties DEF TakeLine, ThreadsInv, TypeOK
  <2>3. ASSUME DMAFinishLine PROVE ToFQueue' \in Seq(0 .. FrameRows - 1)
    BY <2>3, AppendProperties DEF ToFEnqueue, ThreadsInv, TypeOK
  <2>4. TakeLine \/ DMAFinishLine \/ ToFQueue' = ToFQueue
    OBVIOUS
  <2>5. TakeLine \/ tof_line' = tof_line
    OBVIOUS
  <2> QED
    BY <2>1, <2>2, <2>3, <2>4, <2>5 DEF ThreadsInv, TypeOK
<1>5. math_frame' \in 0 .. NumberOfFrames
  BY DEF ThreadsInv, TypeOK, MathInv
<1>6. row' \in 0 .. FrameRows
  BY DEF ThreadsInv, TypeOK, ROSInv, HasLine
<1>7. fire_k' \in 0 .. NumberOfFrames
  BY DEF ThreadsInv, TypeOK, ROSInv, HasLine
<1>8. FireMemoryActive' \in Frames
  <2>1. (FireMemoryActive + 1) % NumberOfFrames \in Frames
    BY DEF ThreadsInv, TypeOK, Frames
  <2> QED
    BY <2>1 DEF ThreadsInv, TypeOK, changeFrame
<1>9. FireMemory' \in [Frames -> 0 .. FireMax + 2]
  <2>1. /\ FireMemory \in [Frames -> 0 .. FireMax + 2] /\ FireMax \in Nat
        /\ \A f \in Frames : FireMemory[f] <= FireMax + 2
    BY DEF ThreadsInv, TypeOK
  <2>2. ASSUME MathEnqueue PROVE FireMemory' \in [Frames -> 0 .. FireMax + 2]
    <3>1. math_frame \in Frames /\ FireMemory[math_frame] + 1 <= FireMax + 2
      BY <2>1, <2>2 DEF ThreadsInv, TypeOK, MathInv, TablesBounded, TablesDue, SeenDue, Frames
    <3> QED
      BY <2>1, <2>2, <3>1 DEF FireEnqueue
  <2>3. ASSUME ROSTakeFire PROVE FireMemory' \in [Frames -> 0 .. FireMax + 2]
    <3>1. fire_k \in Frames
      BY <2>3 DEF ThreadsInv, TypeOK, ROSInv, Frames
    <3>2. FireAt(fire_k) \in Frames
      BY <3>1, FireAtEachQueue DEF ThreadsInv, TypeOK
    <3>3. FireMemory[FireAt(fire_k)] > 0
      BY <2>3
    <3>4. FireMemory[FireAt(fire_k)] - 1 \in 0 .. FireMax + 2
      BY <2>1, <3>2, <3>3
    <3> QED
      BY <2>1, <2>3, <3>2, <3>4
  <2>4. MathEnqueue \/ ROSTakeFire \/ FireMemory' = FireMemory
    OBVIOUS
  <2> QED
    BY <2>1, <2>2, <2>3, <2>4
<1> QED
  BY <1>1, <1>2, <1>3, <1>4, <1>5, <1>6, <1>7, <1>8, <1>9 DEF TypeOK

\* ROSThread, the only consumer, leaves its wait with the step that takes the element
\* (TOFClass.cpp:20-37, QueueClass.h:33-50).
LEMMA WaitStep == ThreadsInv /\ [Next]_vars => WaitEndsWithElement'
<1> SUFFICES ASSUME ThreadsInv, [Next]_vars PROVE WaitEndsWithElement'
  OBVIOUS
<1>1. /\ WaitEndsWithElement /\ FireMemory \in [Frames -> 0 .. FireMax + 2]
      /\ ToFQueue \in Seq(0 .. FrameRows - 1) /\ frame_rows \in 0 .. FrameRows - 1
  BY DEF ThreadsInv, TypeOK
<1>2. CASE DMAFinishLine
  <2>1. ToFQueue' # <<>>
    BY <1>1, <1>2, AppendProperties DEF DMAFinishLine, ToFEnqueue
  <2> QED
    BY <1>1, <1>2, <2>1 DEF DMAFinishLine, ToFEnqueue, NotifiesToF, WaitEndsWithElement,
          FireAt, fireVars, rosVars
<1>3. CASE MathEnqueue
  <2>1. FireAt(fire_k)' = FireAt(fire_k) /\ ros_pc' = ros_pc /\ ToFQueue' = ToFQueue
    BY <1>3 DEF MathEnqueue, FireAt, rosVars
  <2>2. CASE NotifiesFire(math_frame)
    <3>1. math_frame \in Frames /\ FireMemory'[math_frame] > 0
      BY <1>1, <1>3, <2>2, ThreadsAssumption
      DEF MathEnqueue, FireEnqueue, ThreadsInv, MathInv, TypeOK, Frames
    <3> QED
      BY <2>1, <2>2, <3>1 DEF NotifiesFire, WaitEndsWithElement
  <2>3. CASE ~NotifiesFire(math_frame)
    <3>1. FireMemory'[FireAt(fire_k)] = FireMemory[FireAt(fire_k)] \/ ros_pc # "fire_wait"
      BY <1>1, <1>3, <2>3, ThreadsAssumption DEF MathEnqueue, FireEnqueue, NotifiesFire
    <3> QED
      BY <1>1, <1>3, <2>1, <2>3, <3>1 DEF MathEnqueue, FireEnqueue, WaitEndsWithElement
  <2> QED
    BY <2>2, <2>3
<1>4. CASE ROSNext
  BY <1>1, <1>4
  DEF WaitEndsWithElement, ROSNext, ROSLoop, ROSDrain, ROSTakeLine, ROSWaitLine, ROSRow,
      ROSTakeFire, ROSWaitFire, ROSStore
<1>5. CASE ~DMAFinishLine /\ ~MathEnqueue /\ ~ROSNext
  <2>1. signalled' = signalled /\ ToFQueue' = ToFQueue
    BY <1>5, Writers
  <2>2. FireMemory' = FireMemory
    BY <1>5, Writers
  <2>3. FireMemoryActive' = FireMemoryActive /\ fire_k' = fire_k
    BY <1>5, Writers
  <2>4. ros_pc' = ros_pc \/ ros_pc = "new"
    BY <1>5, Writers
  <2> QED
    BY <1>1, <2>1, <2>2, <2>3, <2>4 DEF WaitEndsWithElement, FireAt
<1> QED
  BY <1>2, <1>3, <1>4, <1>5

\* Rows: the line that DMAThread queues is one row further, the line that ROSThread takes
\* is that of its row (DMAThread.cpp:95-129, ROSThread.cpp:55-95).
LEMMA RowsStep == ThreadsInv /\ [Next]_vars => RowsAligned' /\ QueueInOrder' /\ ROSInv'
<1> SUFFICES ASSUME ThreadsInv, [Next]_vars PROVE RowsAligned' /\ QueueInOrder' /\ ROSInv'
  OBVIOUS
<1> DEFINE Line == 0 .. FrameRows - 1
<1>1. /\ ToFQueue \in Seq(Line) /\ frame_rows \in Line /\ row \in 0 .. FrameRows
      /\ RowsAligned /\ QueueInOrder /\ ROSInv /\ FrameRows \in Nat /\ Len(ToFQueue) \in Nat
      /\ NumberOfFrames \in Nat \ {0} /\ fire_k \in Nat
  BY ThreadsAssumption, LenProperties DEF ThreadsInv, TypeOK
<1>2. CASE DMAFinishLine
  <2>1. /\ ToFQueue' = Append(ToFQueue, frame_rows) /\ frame_rows' = Succ(frame_rows)
        /\ UNCHANGED rosVars
    BY <1>1, <1>2, RowSuccessor DEF DMAFinishLine, ToFEnqueue
  <2>2. RowDue' = RowDue /\ RowsAligned' /\ ROSInv'
    BY <1>1, <2>1 DEF rosVars, RowDue, TakesLine, HasLine, RowsAligned, ROSInv, Succ
  <2>3. QueueInOrder'
    <3>1. /\ ToFQueue' # <<>> /\ Len(ToFQueue') = Len(ToFQueue) + 1
          /\ \A i \in 1 .. Len(ToFQueue) : ToFQueue'[i] = ToFQueue[i]
          /\ ToFQueue'[Len(ToFQueue) + 1] = frame_rows
      BY <1>1, <2>1, AppendProperties
    <3>2. CASE ToFQueue = <<>>
      BY <1>1, <2>1, <2>2, <3>1, <3>2 DEF QueueInOrder, Succ
    <3>3. CASE ToFQueue # <<>>
      <4>1. Len(ToFQueue) > 0
        BY <1>1, <3>3, EmptySeq
      <4> QED
        BY <1>1, <2>1, <2>2, <3>1, <3>3, <4>1 DEF QueueInOrder, Succ
    <3> QED
      BY <3>2, <3>3
  <2> QED
    BY <2>2, <2>3
<1>3. CASE ROSTakeLine
  <2>1. /\ ToFQueue # <<>> /\ tof_line' = Head(ToFQueue) /\ ToFQueue' = Tail(ToFQueue)
        /\ row' = row /\ fire_k' = fire_k /\ frame_rows' = frame_rows /\ ros_pc' = "row"
        /\ ros_pc \in {"line", "line_wait"}
    BY <1>3 DEF ROSTakeLine, TakeLine, dmaVars
  <2>2. /\ Len(ToFQueue) > 0 /\ Head(ToFQueue) = ToFQueue[1] /\ Len(ToFQueue') = Len(ToFQueue) - 1
        /\ ToFQueue' \in Seq(Line)
        /\ \A i \in 1 .. Len(ToFQueue) - 1 : ToFQueue'[i] = ToFQueue[i + 1]
    BY <1>1, <2>1, HeadTailProperties, EmptySeq
  <2>3. /\ RowDue = row /\ ToFQueue[1] = row /\ RowDue' = Succ(row)
        /\ row < FrameRows /\ frame_rows = Succ(ToFQueue[Len(ToFQueue)])
        /\ \A i \in 1 .. Len(ToFQueue) - 1 : ToFQueue[i + 1] = Succ(ToFQueue[i])
    BY <1>1, <2>1 DEF RowDue, TakesLine, HasLine, QueueInOrder, ROSInv, Succ
  <2>4. RowsAligned' /\ ROSInv'
    BY <2>1, <2>2, <2>3 DEF RowsAligned, ROSInv, TakesLine, HasLine
  <2>5. CASE ToFQueue' = <<>>
    <3>1. Len(ToFQueue) = 1
      BY <1>1, <2>2, <2>5
    <3>2. frame_rows' = RowDue'
      BY <2>1, <2>3, <3>1
    <3>3. \A i \in 1 .. Len(ToFQueue') - 1 : ToFQueue'[i + 1] = Succ(ToFQueue'[i])
      BY <2>2, <3>1
    <3> QED
      BY <2>4, <2>5, <3>2, <3>3 DEF QueueInOrder
  <2>6. CASE ToFQueue' # <<>>
    <3>1. Len(ToFQueue') > 0
      BY <2>2, <2>6, EmptySeq
    <3>2. ToFQueue'[1] = RowDue'
      <4>1. 1 \in 1 .. Len(ToFQueue) - 1
        BY <1>1, <2>2, <3>1
      <4>2. ToFQueue'[1] = ToFQueue[1 + 1] /\ ToFQueue[1 + 1] = Succ(ToFQueue[1])
        BY <2>2, <2>3, <4>1
      <4> QED
        BY <2>3, <4>2
    <3>3. frame_rows' = Succ(ToFQueue[Len(ToFQueue') + 1])
      BY <1>1, <2>1, <2>2, <2>3
    <3>4. ToFQueue[Len(ToFQueue') + 1] = ToFQueue'[Len(ToFQueue')]
      BY <1>1, <2>2, <3>1
    <3>5. ASSUME NEW i \in 1 .. Len(ToFQueue') - 1 PROVE ToFQueue'[i + 1] = Succ(ToFQueue'[i])
      <4>1. i \in 1 .. Len(ToFQueue) - 1 /\ i + 1 \in 1 .. Len(ToFQueue) - 1
        BY <1>1, <2>2
      <4>2. ToFQueue'[i] = ToFQueue[i + 1] /\ ToFQueue'[i + 1] = ToFQueue[(i + 1) + 1]
        BY <2>2, <4>1
      <4>3. ToFQueue[(i + 1) + 1] = Succ(ToFQueue[i + 1])
        BY <2>3, <4>1
      <4> QED
        BY <4>2, <4>3
    <3> QED
      BY <2>4, <2>6, <3>2, <3>3, <3>4, <3>5 DEF QueueInOrder, Succ
  <2> QED
    BY <2>5, <2>6
<1>4. CASE ROSNext /\ ~ROSTakeLine
  <2> USE DEF ROSNext, ROSLoop, ROSDrain, ROSWaitLine, ROSRow, ROSTakeFire, ROSWaitFire, ROSStore
  <2>1. ToFQueue' = ToFQueue /\ frame_rows' = frame_rows
    BY <1>4 DEF dmaVars
  <2>2. RowDue' = RowDue
    BY <1>1, <1>4 DEF RowDue, TakesLine, HasLine, Succ, ROSInv
  <2>3. RowsAligned' /\ ROSInv'
    BY <1>1, <1>4 DEF RowsAligned, TakesLine, HasLine, ROSInv
  <2> HIDE DEF ROSNext
  <2> QED
    BY <1>1, <2>1, <2>2, <2>3 DEF QueueInOrder, Succ
<1>5. CASE ~DMAFinishLine /\ ~ROSNext
  <2>1. ToFQueue' = ToFQueue
    BY <1>5, Writers
  <2>4. row' = row /\ fire_k' = fire_k /\ tof_line' = tof_line
    BY <1>5, Writers
  <2>5. ros_pc' = ros_pc \/ (ros_pc = "new" /\ ros_pc' = "loop")
    BY <1>5, Writers
  <2>2. frame_rows' = frame_rows
    BY <1>5, Writers
  <2>3. RowDue' = RowDue /\ RowsAligned' /\ ROSInv'
    BY <1>1, <2>4, <2>5 DEF RowDue, TakesLine, HasLine, Succ, RowsAligned, ROSInv
  <2> QED
    BY <1>1, <2>1, <2>2, <2>3 DEF QueueInOrder, Succ
<1> QED
  BY <1>2, <1>3, <1>4, <1>5

\* DMAThread refills while it runs, and once it stops until the frame is complete
\* (DMAThread.cpp:84-149).
LEMMA DMAStep == ThreadsInv /\ [Next]_vars => DMAInv' /\ DMAEndsOnFrame'
<1> SUFFICES ASSUME ThreadsInv, [Next]_vars PROVE DMAInv' /\ DMAEndsOnFrame'
  OBVIOUS
<1>1. /\ in_progress_count \in Nat /\ frame_rows \in Nat /\ RxBufferCount \in Nat \ {0}
      /\ DMAInv /\ DMAEndsOnFrame
  BY ThreadsAssumption DEF ThreadsInv, TypeOK
<1>2. CASE DMANext
  BY <1>1, <1>2
  DEF DMAInv, DMAEndsOnFrame, DMANext, DMASetup, DMALoop, DMAFinishLine, DMAFinishMissed,
      DMARefill, MoreTransfers
<1>3. CASE ~DMANext
  <2>1. dma_pc' = dma_pc \/ (dma_pc = "new" /\ dma_pc' = "setup")
    BY <1>3, Writers
  <2>2. in_progress_count' = in_progress_count
    BY <1>3, Writers
  <2>3. frame_rows' = frame_rows
    BY <1>3, Writers DEF DMANext
  <2> QED
    BY <1>1, <2>1, <2>2, <2>3 DEF DMAInv, DMAEndsOnFrame
<1> QED
  BY <1>2, <1>3

\* MathThread knows of at most one swap that it has not queued tables for
\* (MathThread.cpp:57-79).
LEMMA MathInvStep == ThreadsInv /\ [Next]_vars => MathInv'
<1> SUFFICES ASSUME ThreadsInv, [Next]_vars PROVE MathInv'
  OBVIOUS
<1>1. math_frame \in Nat /\ NumberOfFrames \in Nat \ {0} /\ MathInv
  BY ThreadsAssumption DEF ThreadsInv, TypeOK
<1>2. CASE MathNext
  BY <1>1, <1>2
  DEF MathInv, MathNext, MathLoop, MathRead, MathEnable, MathDisable, MathEnqueue, LastTable
<1>3. CASE ~MathNext
  <2>1. math_pc' = math_pc \/ (math_pc = "new" /\ math_pc' = "loop")
    BY <1>3, Writers
  <2>2. newcycle' = newcycle /\ precycle' = precycle
    BY <1>3, Writers
  <2>3. math_frame' = math_frame
    BY <1>3, Writers
  <2> QED
    BY <1>1, <2>1, <2>2, <2>3 DEF MathInv
<1> QED
  BY <1>2, <1>3

\* Tables are queued for swaps only, and no swap comes while a queue is longer than
\* FireMax.
LEMMA BoundStep == ThreadsInv /\ [Next]_vars => TablesBounded'
<1> SUFFICES ASSUME ThreadsInv, [Next]_vars, NEW f \in Frames
             PROVE  (FireMemory[f] + TablesDue(f) <= FireMax + 2)'
  BY DEF TablesBounded, Frames
<1>1. /\ FireMemory \in [Frames -> 0 .. FireMax + 2] /\ FireMemory[f] \in Nat
      /\ FireMemory[f] + TablesDue(f) <= FireMax + 2 /\ FireMax \in Nat
      /\ MathInv /\ math_frame \in Nat /\ f \in Nat /\ NumberOfFrames \in Nat
      /\ newcycle \in BOOLEAN /\ precycle \in BOOLEAN /\ update_mem \in BOOLEAN
      /\ FireMemoryActive \in Frames
  BY ThreadsAssumption DEF ThreadsInv, TypeOK, TablesBounded, Frames
<1>2. CASE MathEnqueue
  <2>1. /\ math_pc = "enqueue" /\ newcycle' = newcycle /\ precycle' = precycle
        /\ update_mem' = update_mem /\ newcycle = precycle
        /\ math_pc' \in {"enqueue", "loop"} /\ math_frame' = math_frame + 1
        /\ FireMemory'[f] = IF f = math_frame THEN FireMemory[f] + 1 ELSE FireMemory[f]
    BY <1>1, <1>2 DEF MathEnqueue, MathInv, hwVars, FireEnqueue
  <2> QED
    BY <1>1, <2>1 DEF TablesDue, SeenDue
<1>3. CASE MathNext /\ ~MathEnqueue
  <2>1. FireMemory' = FireMemory /\ update_mem' = update_mem
    BY <1>3 DEF MathNext, MathLoop, MathRead, MathEnable, MathDisable, fireVars, hwVars
  <2> QED
    BY <1>1, <1>3, <2>1
    DEF MathNext, MathLoop, MathRead, MathEnable, MathDisable, MathInv, TablesDue, SeenDue
<1>4. CASE HWSwap
  BY <1>1, <1>4 DEF HWSwap, fireVars, mathVars, TablesDue, SeenDue
<1>5. CASE ROSNext
  <2>1. /\ math_pc' = math_pc /\ newcycle' = newcycle /\ precycle' = precycle
        /\ math_frame' = math_frame /\ update_mem' = update_mem
    BY <1>5 DEF ROSNext, ROSLoop, ROSDrain, ROSTakeLine, ROSWaitLine, ROSRow, ROSTakeFire,
                ROSWaitFire, ROSStore, mathVars, hwVars
  <2>2. FireMemory'[f] <= FireMemory[f] /\ FireMemory'[f] \in Int
    <3>1. CASE ROSTakeFire
      BY <1>1, <3>1 DEF ROSTakeFire
    <3>2. CASE ~ROSTakeFire
      BY <1>1, <1>5, <3>2
      DEF ROSNext, ROSLoop, ROSDrain, ROSTakeLine, ROSWaitLine, ROSRow, ROSWaitFire, ROSStore,
          fireVars
    <3> QED
      BY <3>1, <3>2
  <2> QED
    BY <1>1, <2>1, <2>2 DEF TablesDue, SeenDue
<1>6. CASE ~MathNext /\ ~HWSwap /\ ~ROSNext
  <2>1. math_pc' = math_pc \/ (math_pc = "new" /\ math_pc' = "loop")
    BY <1>6, Writers
  <2>2. newcycle' = newcycle /\ precycle' = precycle
    BY <1>6, Writers
  <2>3. math_frame' = math_frame
    BY <1>6, Writers
  <2>4. update_mem' = update_mem
    BY <1>6, Writers
  <2>5. FireMemory' = FireMemory
    BY <1>6, Writers DEF MathNext
  <2> QED
    BY <1>1, <2>1, <2>2, <2>3, <2>4, <2>5 DEF TablesDue, SeenDue
<1> QED
  BY <1>2, <1>3, <1>4, <1>5, <1>6

\* The queues of FireClass: an update adds one table to each, a dequeue takes one from
\* each (MathThread.cpp:93-184, FireClass.cpp:22-63).
LEMMA LevelStep == ThreadsInv /\ [Next]_vars => FireQueuesLevel'
<1> SUFFICES ASSUME ThreadsInv, [Next]_vars PROVE FireQueuesLevel'
  OBVIOUS
<1> DEFINE Inc(f) == TablesLeft(f)' = TablesLeft(f) + 1
           Dec(f) == TablesLeft(f)' = TablesLeft(f) - 1
           Same(f) == TablesLeft(f)' = TablesLeft(f)
<1>1. /\ FireMemory \in [Frames -> 0 .. FireMax + 2]
      /\ math_frame \in Nat /\ NumberOfFrames \in Nat \ {0} /\ fire_k \in Nat
      /\ FireMemoryActive \in Frames /\ FireQueuesLevel
      /\ \A f \in Frames : FireMemory[f] \in Int /\ TablesLeft(f) \in Int
  BY ThreadsAssumption DEF ThreadsInv, TypeOK, TablesLeft
<1>2. CASE MathEnqueue
  <2>1. \A f \in Frames : FireMemory'[f] = IF f = math_frame THEN FireMemory[f] + 1 ELSE FireMemory[f]
    BY <1>1, <1>2 DEF MathEnqueue, FireEnqueue
  <2>2. /\ math_pc = "enqueue" /\ math_frame' = math_frame + 1 /\ UNCHANGED rosVars
        /\ FireMemoryActive' = FireMemoryActive
        /\ math_pc' = IF math_frame = NumberOfFrames - 1 THEN "loop" ELSE "enqueue"
        /\ math_frame < NumberOfFrames
    BY <1>2 DEF MathEnqueue, LastTable, ThreadsInv, MathInv
  <2>3. CASE math_frame = NumberOfFrames - 1
    <3>1. \A f \in Frames : Inc(f)
      BY <1>1, <2>1, <2>2, <2>3 DEF TablesLeft, rosVars, FireAt, Frames
    <3> QED
      BY <1>1, <3>1 DEF FireQueuesLevel, Frames
  <2>4. CASE math_frame # NumberOfFrames - 1
    <3>1. \A f \in Frames : Same(f)
      BY <1>1, <2>1, <2>2, <2>4 DEF TablesLeft, rosVars, FireAt, Frames
    <3> QED
      BY <1>1, <3>1 DEF FireQueuesLevel, Frames
  <2> QED
    BY <2>3, <2>4
<1>3. CASE ROSTakeFire
  <2> DEFINE taken == FireAt(fire_k)
  <2>1. /\ fire_k \in Frames /\ UNCHANGED mathVars /\ fire_k' = fire_k + 1
        /\ ros_pc \in {"fire", "fire_wait"} /\ FireMemoryActive' = FireMemoryActive
        /\ ros_pc' = IF fire_k = NumberOfFrames - 1 THEN "store" ELSE "fire"
    BY <1>1, <1>3 DEF ROSTakeFire, ThreadsInv, ROSInv, Frames
  <2>2. \A f \in Frames : FireMemory'[f] = IF f = taken THEN FireMemory[f] - 1 ELSE FireMemory[f]
    BY <1>1, <1>3, <2>1, FireAtEachQueue DEF ROSTakeFire
  <2>3. \A k : FireAt(k)' = FireAt(k)
    BY <2>1 DEF FireAt
  <2>4. \A k \in 0 .. fire_k - 1 : FireAt(k) # taken
    BY <1>1, <2>1, FireAtEachQueue DEF Frames
  <2>5. CASE fire_k = NumberOfFrames - 1
    <3>1. ASSUME NEW f \in Frames PROVE f = taken \/ \E k \in 0 .. fire_k - 1 : FireAt(k) = f
      <4>1. PICK k \in Frames : FireAt(k) = f
        BY <1>1, FireAtEachQueue
      <4>2. k = fire_k \/ k \in 0 .. fire_k - 1
        BY <1>1, <2>5 DEF Frames
      <4> QED
        BY <4>1, <4>2
    <3>2. \A f \in Frames : Dec(f)
      BY <1>1, <2>1, <2>2, <2>4, <2>5, <3>1 DEF TablesLeft, mathVars
    <3> QED
      BY <1>1, <3>2 DEF FireQueuesLevel, Frames
  <2>6. CASE fire_k # NumberOfFrames - 1
    <3>1. \A f \in Frames : (\E k \in 0 .. fire_k' - 1 : FireAt(k)' = f)
                           <=> (f = taken \/ \E k \in 0 .. fire_k - 1 : FireAt(k) = f)
      BY <1>1, <2>1, <2>3
    <3>2. \A f \in Frames : Same(f)
      BY <1>1, <2>1, <2>2, <2>4, <2>6, <3>1 DEF TablesLeft, mathVars
    <3> QED
      BY <1>1, <3>2 DEF FireQueuesLevel, Frames
  <2> QED
    BY <2>5, <2>6
<1>4. CASE ROSNext /\ ~ROSTakeFire
  <2>1. FireMemory' = FireMemory /\ math_pc' = math_pc /\ math_frame' = math_frame
    BY <1>4
    DEF ROSNext, ROSLoop, ROSDrain, ROSTakeLine, ROSWaitLine, ROSRow, ROSWaitFire, ROSStore,
        fireVars, mathVars
  <2>2. \/ /\ ros_pc \in {"fire", "fire_wait"} <=> ros_pc' \in {"fire", "fire_wait"}
           /\ fire_k' = fire_k /\ FireMemoryActive' = FireMemoryActive
        \/ ros_pc \notin {"fire", "fire_wait"} /\ (ros_pc' \in {"fire", "fire_wait"} => fire_k' = 0)
    BY <1>4
    DEF ROSNext, ROSLoop, ROSDrain, ROSTakeLine, ROSWaitLine, ROSRow, ROSWaitFire, ROSStore,
        fireVars
  <2>3. \A f \in Frames : Same(f)
    BY <1>1, <2>1, <2>2 DEF TablesLeft, FireAt
  <2> QED
    BY <1>1, <2>3 DEF FireQueuesLevel, Frames
<1>5. CASE MathNext /\ ~MathEnqueue
  <2>1. FireMemory' = FireMemory /\ FireMemoryActive' = FireMemoryActive /\ UNCHANGED rosVars
    BY <1>5 DEF MathNext, MathLoop, MathRead, MathEnable, MathDisable, fireVars
  <2>2. /\ math_pc # "enqueue"
        /\ math_pc' = "enqueue" => math_frame' = 0
    BY <1>5 DEF MathNext, MathLoop, MathRead, MathEnable, MathDisable
  <2>3. \A f \in Frames : Same(f)
    BY <1>1, <2>1, <2>2 DEF TablesLeft, FireAt, rosVars, Frames
  <2> QED
    BY <1>1, <2>3 DEF FireQueuesLevel, Frames
<1>6. CASE ~MathNext /\ ~ROSNext
  <2>1. math_pc' = math_pc \/ (math_pc = "new" /\ math_pc' = "loop")
    BY <1>6, Writers
  <2>2. ros_pc' = ros_pc \/ (ros_pc = "new" /\ ros_pc' = "loop")
    BY <1>6, Writers
  <2>3. math_frame' = math_frame
    BY <1>6, Writers
  <2>4. fire_k' = fire_k /\ FireMemoryActive' = FireMemoryActive
    BY <1>6, Writers
  <2>5. FireMemory' = FireMemory
    BY <1>6, Writers DEF MathNext
  <2>6. \A f \in Frames : Same(f)
    BY <1>1, <2>1, <2>2, <2>3, <2>4, <2>5 DEF TablesLeft, FireAt
  <2> QED
    BY <1>1, <2>6 DEF FireQueuesLevel, Frames
<1> QED
  BY <1>2, <1>3, <1>4, <1>5, <1>6

\* The threads keep the inductive invariant.
LEMMA ThreadsInvStep == ThreadsInv /\ [Next]_vars => ThreadsInv'
  BY ThreadsTypeStep, WaitStep, RowsStep, DMAStep, MathInvStep, BoundStep, LevelStep DEF ThreadsInv

\* The inductive invariant holds in every reachable state of the threads.
THEOREM ThreadsInvariance == Spec => []ThreadsInv
  BY InitThreadsInv, ThreadsInvStep, PTL DEF Spec

\* Type correctness, and with it the bounds of the queues of FireClass: for every number
\* of frames and buffers, no queue grows by more than two tables while the timing core
\* waits for it to shrink (FireClass.h, MathThread.cpp:57-184).
THEOREM ThreadsTypeCorrect == Spec => []TypeOK
<1>1. ThreadsInv => TypeOK
  BY DEF ThreadsInv
<1> QED
  BY <1>1, ThreadsInvariance, PTL

\* For every number of frames, each wait of ROSThread ends with an element in the queue,
\* although the queue is not tested again after it (QueueClass.h:42-43,
\* TOFClass.cpp:29-30).
THEOREM WaitsEndWithElement == Spec => []WaitEndsWithElement
<1>1. ThreadsInv => WaitEndsWithElement
  BY DEF ThreadsInv
<1> QED
  BY <1>1, ThreadsInvariance, PTL

\* For every number of rows, a row of a point cloud holds the line that was counted as
\* that row, whatever transfers fail (DMAThread.cpp:84-129, ROSThread.cpp:55-95).
THEOREM RowsStayAligned == Spec => []RowsAligned
<1>1. ThreadsInv => RowsAligned
  BY DEF ThreadsInv
<1> QED
  BY <1>1, ThreadsInvariance, PTL

\* For every number of frames, the queues of FireClass stay in step (FireClass.cpp:22-63).
THEOREM FireQueuesStayLevel == Spec => []FireQueuesLevel
<1>1. ThreadsInv => FireQueuesLevel
  BY DEF ThreadsInv
<1> QED
  BY <1>1, ThreadsInvariance, PTL

\* For every number of rows and buffers, DMAThread ends with a complete frame and no
\* transfer under way (DMAThread.cpp:131-149).
THEOREM DMAEndsComplete == Spec => []DMAEndsOnFrame
<1>1. ThreadsInv => DMAEndsOnFrame
  BY DEF ThreadsInv
<1> QED
  BY <1>1, ThreadsInvariance, PTL
=============================================================================
