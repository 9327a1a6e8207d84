-------------------------- MODULE LaserPulse_proofs --------------------------
(***************************************************************************)
(* Proofs about the pulses of the laser driver, for every pulse length the *)
(* port can hold, including those at which the counter wraps.  PulseInv    *)
(* ties the registers to the number of cycles the laser has been on.       *)
(***************************************************************************)
EXTENDS LaserPulse, TLAPS

PulseInv ==
  /\ ld_state_r = "LASER_TRIGGER" /\ ~trigger_laser_r => width = 0 /\ pulse_cnt_r = 0
  /\ ld_state_r = "LASER_TRIGGER" /\ trigger_laser_r =>
       /\ width \in 1 .. PulseLength + 1
       /\ width < PulseMod => pulse_cnt_r = width
       /\ pulse_over_r <=> width > PulseLength
  /\ ld_state_r = "LASER_IDLE" /\ trigger_laser_r => width \in {1, PulseLength + 2}
  /\ ld_state_r = "LASER_IDLE" /\ ~trigger_laser_r => width = 0

PulseIInv == PulseTypeOK /\ PulseInv

\* The reset state satisfies the inductive invariant.
LEMMA PulseInitInv == PulseInit => PulseIInv
<1> SUFFICES ASSUME PulseInit PROVE PulseIInv
  OBVIOUS
<1> USE DEF PulseInit, LDInit
<1>1. PulseTypeOK
  <2>1. 0 \in 0 .. PulseMod - 1
    BY PulseAssumption
  <2> QED
    BY <2>1 DEF PulseTypeOK
<1>2. PulseInv
  BY DEF PulseInv
<1> QED
  BY <1>1, <1>2 DEF PulseIInv

\* A clock edge keeps the registers in their ranges.
LEMMA PulseTypeStep == PulseIInv /\ PulseNext => PulseTypeOK'
<1> SUFFICES ASSUME PulseIInv, PulseNext PROVE PulseTypeOK'
  OBVIOUS
<1> USE PulseAssumption DEF PulseIInv, PulseTypeOK, PulseNext, LDClock
<1>1. ld_state_r' \in {"LASER_IDLE", "LASER_TRIGGER"}
  BY DEF LaserState
<1>2. pulse_cnt_r' \in 0 .. PulseMod - 1 /\ trigger_laser_r' \in BOOLEAN
  <2>1. PulseMod \in Nat /\ PulseMod > 0 /\ pulse_cnt_r \in Nat
    OBVIOUS
  <2>2. (pulse_cnt_r + 1) % PulseMod \in 0 .. PulseMod - 1 /\ 0 \in 0 .. PulseMod - 1
    BY <2>1
  <2> QED
    BY <2>2 DEF PulseOutput
<1>3. pulse_over_r' \in BOOLEAN
  BY DEF PulseOver
<1>4. width' \in Nat
  OBVIOUS
<1> QED
  BY <1>1, <1>2, <1>3, <1>4

\* One case per state of the driver (laserDriver.v:45-85).
LEMMA PulseInvStep == PulseIInv /\ PulseNext => PulseInv'
<1> SUFFICES ASSUME PulseIInv, PulseNext PROVE PulseInv'
  OBVIOUS
<1>1. /\ PulseMod \in Nat /\ PulseLength \in Nat /\ PulseLength < PulseMod
      /\ width \in Nat /\ pulse_cnt_r \in Nat
      /\ trigger_laser_r \in BOOLEAN /\ pulse_over_r \in BOOLEAN
      /\ ld_state_r \in {"LASER_IDLE", "LASER_TRIGGER"}
  BY PulseAssumption DEF PulseIInv, PulseTypeOK
<1>2. LaserState /\ PulseOutput /\ PulseOver
  BY DEF PulseNext, LDClock
<1>3. width' = IF trigger_laser_r' THEN width + 1 ELSE 0
  BY DEF PulseNext
<1>4. CASE ld_state_r = "LASER_IDLE"
  <2>1. ~trigger_laser_r' /\ pulse_cnt_r' = 0 /\ width' = 0
    BY <1>2, <1>3, <1>4 DEF PulseOutput
  <2> QED
    BY <2>1 DEF PulseInv
<1>5. CASE ld_state_r = "LASER_TRIGGER"
  <2>1. /\ trigger_laser_r' /\ width' = width + 1
        /\ pulse_cnt_r' = (pulse_cnt_r + 1) % PulseMod
        /\ pulse_over_r' <=> pulse_cnt_r >= PulseLength
    BY <1>1, <1>2, <1>3, <1>5 DEF PulseOutput, PulseOver
  <2>2. CASE pulse_over_r
    <3>1. ld_state_r' = "LASER_IDLE"
      BY <1>2, <1>5, <2>2 DEF LaserState
    <3>2. width + 1 \in {1, PulseLength + 2}
      BY <1>1, <1>5, <2>2 DEF PulseIInv, PulseInv
    <3> QED
      BY <2>1, <3>1, <3>2 DEF PulseInv
  <2>3. CASE ~pulse_over_r
    <3>1. ld_state_r' = "LASER_TRIGGER"
      BY <1>2, <1>5, <2>3 DEF LaserState
    <3>2. width <= PulseLength /\ pulse_cnt_r = width
      BY <1>1, <1>5, <2>3 DEF PulseIInv, PulseInv
    <3>3. width + 1 < PulseMod => (width + 1) % PulseMod = width + 1
      BY <1>1
    <3>4. pulse_over_r' <=> width + 1 > PulseLength
      BY <1>1, <2>1, <3>2
    <3> QED
      BY <1>1, <2>1, <3>1, <3>2, <3>3, <3>4 DEF PulseInv
  <2> QED
    BY <1>1, <2>2, <2>3
<1> QED
  BY <1>1, <1>4, <1>5

\* The inductive invariant holds in every reachable state of the driver.
THEOREM PulseInvariance == PulseSpec => []PulseIInv
<1>1. ASSUME PulseIInv, UNCHANGED lpvars PROVE PulseIInv'
  BY <1>1 DEF lpvars, ldRegs, PulseIInv, PulseTypeOK, PulseInv
<1>2. PulseIInv /\ [PulseNext]_lpvars => PulseIInv'
  BY <1>1, PulseTypeStep, PulseInvStep DEF PulseIInv
<1> QED
  BY <1>2, PulseInitInv, PTL DEF PulseSpec

\* For every pulse length and any sequence of triggers, the laser is never on for
\* more than pulse_length_i + 2 cycles in a row (laserDriver.v:45-85).
THEOREM Exposure == PulseSpec => []ExposureBound
<1>1. PulseIInv => ExposureBound
  BY PulseAssumption DEF PulseIInv, PulseTypeOK, PulseInv, ExposureBound
<1> QED
  BY <1>1, PulseInvariance, PTL

\* For every pulse length, a pulse is complete or one cycle long
\* (laserDriver.v:45-85).
THEOREM Widths == PulseSpec => PulseWidths
<1>1. ASSUME PulseIInv, PulseNext, trigger_laser_r, ~trigger_laser_r'
      PROVE  width \in {1, PulseLength + 2}
  BY <1>1 DEF PulseIInv, PulseTypeOK, PulseInv, PulseNext, LDClock, PulseOutput
<1>2. PulseIInv /\ [PulseNext]_lpvars =>
        [trigger_laser_r /\ ~trigger_laser_r' => width \in {1, PulseLength + 2}]_lpvars
  BY <1>1
<1> QED
  BY <1>2, PulseInvariance, PTL DEF PulseSpec, PulseWidths
=============================================================================
