----------------------------- MODULE FireTimes -----------------------------
(***************************************************************************)
(* The numbers of the arithmetic chain: cordicManager with thetaCos,       *)
(* thetaSin and arcTan, from a position of the mirror to the tick at which *)
(* it is reached, at the real word lengths.  The units are taken for what  *)
(* FixedUnits shows them to compute, so that the wires between them become *)
(* functions of theta_iteration_i; each stage of arcTan's pipeline is a    *)
(* function of the one before.                                             *)
(***************************************************************************)
EXTENDS WideNumbers

CONSTANTS
  TotalPoints,   \* TOTAL_POINTS_P
  ThetaMax,      \* THETAMAX_P, degrees
  Frequencies    \* values of freq_i: ticks in a period of the mirror

\* What the widths can do with: TOTAL_POINTS_P - 1 reaches the sign bit of the divider that
\* it goes to at 2048, and the products stay below their sign bits.
ASSUME ChainAssumption ==
  /\ TotalPoints \in 10 .. 2048 /\ ThetaMax \in 1 .. 14
  /\ Frequencies \subseteq 1 .. 83000

MirrorPositions == 0 .. TotalPoints - 1

\* A divider leaves out the last bit of its quotient.
Even(n) == n - (n % 2)
-----------------------------------------------------------------------------
\* thetaCos: numbers with 32 fraction bits, as sign and magnitude.
thetaM == ThetaMax * 74961320

\* Mutant: the positions are counted, not the steps between them.
mirrorStepPoints_all == Even(2^27 \div TotalPoints)

mirrorStepPoints == Even(2^27 \div (TotalPoints - 1))
mirrorStep == Small(Right(Times(Wide(mirrorStepPoints * 2^6), Wide(thetaM)), 32))

\* A negative difference is a ones' complement.
thetaStep(it) ==
  LET thetaItStep == it * mirrorStep
  IN  IF thetaItStep <= thetaM THEN [sign |-> 0, magnitude |-> thetaM - thetaItStep]
      ELSE [sign |-> 1, magnitude |-> thetaItStep - thetaM - 1]

\* Quotient and rest of a division with a number of fraction bits.
Divided(dividend, divisor, bits) ==
  FoldLeft(LAMBDA r, i : [quotient |-> 2 * r.quotient + (2 * r.rest) \div divisor,
                          rest |-> (2 * r.rest) % divisor],
           [quotient |-> dividend \div divisor, rest |-> dividend % divisor],
           [i \in 1 .. bits |-> i])

\* The magnitude is a wide number, put together from two times 16 bits.
thetaCos(it) ==
  LET theta == thetaStep(it)
      upper == Divided(theta.magnitude, thetaM, 16)
      lower == Divided(upper.rest, thetaM, 16)
  IN  [sign |-> theta.sign,
       magnitude |-> Plus(Times(Wide(upper.quotient), Wide(2^16)), Wide(Even(lower.quotient)))]

\* thetaSin, without the lowest 18 bits of the root: they are decided by the lowest 4 of
\* what it is taken of.
Root(n) == FoldLeft(LAMBDA r, bit : IF (r + bit) * (r + bit) <= n THEN r + bit ELSE r, 0,
                    [i \in 1 .. 15 |-> 2^(15 - i)])

thetaSin(cos) ==
  LET one == Times(Wide(2^16), Wide(2^16))
      squared_thetaCos == Right(Times(cos.magnitude, cos.magnitude), 32)
  IN  Root(Small(Right(Minus(one, squared_thetaCos), 4)))
-----------------------------------------------------------------------------
\* cordicManager: the cosine as two's complement of 16 bits, the sine forced to 0 at the far
\* edge.
\* Mutant: sign and magnitude are taken for a two's complement.
cordic_cos_plain(cos) == Small(Right(cos.magnitude, 18)) - 2^15 * cos.sign

cordic_cos_w(cos) ==
  LET bits == Small(Right(cos.magnitude, 18))
  IN  CASE cos.sign = 0 -> bits
        [] cos.sign = 1 /\ bits # 0 -> -bits
        [] cos.sign = 1 /\ bits = 0 -> -2^15

cordic_sin_w(it, cos) == IF it = TotalPoints - 1 THEN 0 ELSE thetaSin(cos)

\* arcTan: the angles of the rotations, with 22 fraction bits.
cordic_angles_w ==
  <<1944679, 1027514, 521582, 261803, 131029, 65530, 32767, 16383, 8192, 4096, 2047, 1023,
    511, 255, 128, 63, 31, 16>>

\* Two's complement of 21 bits.
Signed(n) == ((n + 2^20) % 2^21) - 2^20

\* The first rotation, by -45 or -135 degrees; the sine has no sign.
Quadrant(c, s) ==
  IF c >= 0 THEN [x |-> Signed(c + s), y |-> Signed(s - c), ph |-> 3294198]
  ELSE [x |-> Signed(s - c), y |-> Signed(-c - s), ph |-> 9882595]

Rotated(v, i) ==
  LET x == v.x \div 2^i
      y == v.y \div 2^i
  IN  IF v.y < 0
      THEN [x |-> Signed(v.x - y), y |-> Signed(v.y + x), ph |-> (v.ph - cordic_angles_w[i]) % 2^26]
      ELSE [x |-> Signed(v.x + y), y |-> Signed(v.y - x), ph |-> (v.ph + cordic_angles_w[i]) % 2^26]

\* Bits 24 to 9 of the phase are put out: 13 fraction bits.
phase(cos_i, sin_i) ==
  LET last == FoldLeft(Rotated, Quadrant(2^3 * cos_i, 2^3 * sin_i),
                       [i \in 1 .. Len(cordic_angles_w) |-> i])
  IN  (last.ph \div 2^9) % 2^16

\* freq * phase / (2 * pi); the divisor has 20 fraction bits, the dividend 13.
dt_Ticks(freq, ph) ==
  LET pre_dtTicks == freq * ph
      two_pi == 6588397
  IN  (2^7 * (pre_dtTicks \div two_pi) + (2^7 * (pre_dtTicks % two_pi)) \div two_pi) % 2^16

FirePhase == [it \in MirrorPositions |->
                LET cos == thetaCos(it) IN phase(cordic_cos_w(cos), cordic_sin_w(it, cos))]

FireTime(freq, it) == dt_Ticks(freq, FirePhase[it])
-----------------------------------------------------------------------------
\* What the times are for: the mirror swings like a cosine, and its range is divided into
\* TotalPoints - 1 equal steps.  All numbers of this section have 24 fraction bits.
One == 2^24
TwoPi == 105414357

Product(x, y) == Small(Right(Times(Wide(x), Wide(y)), 24))

\* The angle of the swing at a tick.
Swing(freq, tick) == (TwoPi \div freq) * tick + ((TwoPi % freq) * tick) \div freq

\* Taylor's series of the sine of pi/2 - angle.
Cosine(angle) ==
  LET x == TwoPi \div 4 - angle
      magnitude == IF x < 0 THEN -x ELSE x
      square == Product(magnitude, magnitude)
      series == FoldLeft(LAMBDA s, k : One - Product(square, s) \div k, One,
                         <<156, 110, 72, 42, 20, 6>>)
  IN  (IF x < 0 THEN -1 ELSE 1) * Product(magnitude, series)

\* Twice the distance of the mirror at a tick from position it, in 1/2^18 of a position.
TwiceOff(freq, tick, it) ==
  LET steps == TotalPoints - 1
  IN  steps * (Cosine(Swing(freq, tick)) \div 2^6) - (steps - 2 * it) * 2^18

\* When a point is due, the mirror is at its position of the whole range, at most a sixteenth
\* of a step beyond and less than half a step before.
AtItsPosition(freq, it) ==
  LET off == TwiceOff(freq, FireTime(freq, it), it)
  IN  -2^15 <= off /\ off < 2^18

EachAtItsPosition == \A freq \in Frequencies, it \in MirrorPositions : AtItsPosition(freq, it)

\* Later positions have later times, from the near edge to the far one, half a period later.
Increasing ==
  \A freq \in Frequencies :
    /\ FireTime(freq, 0) = 0 /\ FireTime(freq, TotalPoints - 1) \in {freq \div 2 - 1, freq \div 2}
    /\ \A it \in 1 .. TotalPoints - 1 : FireTime(freq, it - 1) < FireTime(freq, it)
=============================================================================
