--------------------------- MODULE FrameSequence ---------------------------
(***************************************************************************)
(* What the group selection of memoryManager.v promises: every line that   *)
(* the line FSM reports (one pulse per line) moves the projector one line  *)
(* further; after LinesPerFrame + 1 lines the next frame starts, and after *)
(* NumberOfFrames + 1 frames the sequence starts over.  The parameters are *)
(* the values on the ports, which are "count - 1" as the callers pass them.*)
(***************************************************************************)
EXTENDS Naturals

CONSTANTS LinesPerFrame, NumberOfFrames   \* natural numbers

VARIABLES
  pulse,   \* a line is reported complete in this cycle
  line,    \* lines of the current frame that are complete
  frame    \* frame being projected

fvars == <<pulse, line, frame>>

FrameInit == /\ pulse \in BOOLEAN
             /\ line = 0
             /\ frame = 0

NextLine == /\ pulse
            /\ line < LinesPerFrame
            /\ line' = line + 1
            /\ UNCHANGED frame

NextFrame == /\ pulse
             /\ line = LinesPerFrame
             /\ line' = 0
             /\ frame' = IF frame < NumberOfFrames THEN frame + 1 ELSE 0

NoLine == ~pulse /\ UNCHANGED <<line, frame>>

FrameNext == (NextLine \/ NextFrame \/ NoLine) /\ pulse' \in BOOLEAN

FrameSpec == FrameInit /\ [][FrameNext]_fvars
=============================================================================
