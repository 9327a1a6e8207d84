---------------------------- MODULE Units_proofs ----------------------------
(***************************************************************************)
(* Proofs about FixedUnits, for operands of every even width: each unit    *)
(* implements HandshakeUnit, and each result is right.                     *)
(*                                                                         *)
(* ControlInv has the control state of the units; the handshake follows    *)
(* from it, step by step.  DataInv has the numbers in the registers while  *)
(* a unit works, each as an equation between the operands, what has been   *)
(* computed of the result and what is left to do.  Every step keeps it     *)
(* because the operands are held while valid is up and a unit forgets what *)
(* it computed when valid falls.                                           *)
(*                                                                         *)
(* The theorems assume that valid stays low for two cycles: the multiplier *)
(* takes one to see that valid is low and one to take its operands and set *)
(* its count.  UnitsGetRest of TableUpdate_proofs shows that the           *)
(* synchronizer leaves the two.                                            *)
(***************************************************************************)
EXTENDS FixedUnits, FiniteSetTheorems, WellFoundedInduction, TLAPS

-----------------------------------------------------------------------------
(***************************************************************************)
(* Powers of two.  That 2^n doubles when n grows by one is taken from the  *)
(* number of subsets of 1 .. n, which the library's FS_SUBSET gives.       *)
(***************************************************************************)
\* 2^n counts the subsets of 1 .. n.
LEMMA IntervalSets ==
  ASSUME NEW n \in Nat
  PROVE  IsFiniteSet(SUBSET (1 .. n)) /\ Cardinality(SUBSET (1 .. n)) = 2^n /\ 2^n \in Nat
<1>1. IsFiniteSet(1 .. n) /\ Cardinality(1 .. n) = n
  BY FS_Interval
<1>2. IsFiniteSet(SUBSET (1 .. n)) /\ Cardinality(SUBSET (1 .. n)) = 2^n
  BY <1>1, FS_SUBSET
<1>3. Cardinality(SUBSET (1 .. n)) \in Nat
  BY <1>2, FS_CardinalityType
<1> QED
  BY <1>2, <1>3

\* The subsets of 1 .. n + 1 are those of 1 .. n, with and without n + 1.
LEMMA PowerDoubles ==
  ASSUME NEW n \in Nat
  PROVE  2^(n + 1) = 2 * 2^n
<1> DEFINE m == n + 1
           S == SUBSET (1 .. n)
           T == SUBSET (1 .. m)
           R == {s \cup {m} : s \in S}
           f == [s \in S |-> s \cup {m}]
<1>1. IsFiniteSet(S) /\ Cardinality(S) = 2^n /\ Cardinality(T) = 2^m /\ 2^n \in Nat
  <2>1. m \in Nat
    OBVIOUS
  <2> HIDE DEF m
  <2> QED
    BY <2>1, IntervalSets
<1>2. T = S \cup R /\ S \cap R = {}
  <2>1. \A s \in S : m \notin s
    OBVIOUS
  <2>2. \A s \in T : m \notin s => s \in S
    OBVIOUS
  <2>3. \A s \in T : m \in s => s \ {m} \in S /\ s = (s \ {m}) \cup {m}
    <3> SUFFICES ASSUME NEW s \in T, m \in s PROVE s \ {m} \in S /\ s = (s \ {m}) \cup {m}
      OBVIOUS
    <3>1. \A x \in s : x \in 1 .. m /\ (x # m => x \in 1 .. n)
      OBVIOUS
    <3> QED
      BY <3>1
  <2>4. \A s \in S : s \in T /\ s \cup {m} \in T
    OBVIOUS
  <2> HIDE DEF S, T, m
  <2>5. \A s \in T : s \in S \/ s \in R
    BY <2>2, <2>3
  <2>6. \A s \in R : s \in T /\ s \notin S
    BY <2>1, <2>4
  <2> HIDE DEF R
  <2> QED
    BY <2>4, <2>5, <2>6
<1>3. f \in Bijection(S, R)
  <2>1. \A s, u \in S : f[s] = f[u] => s = u
    <3> SUFFICES ASSUME NEW s \in S, NEW u \in S, s \cup {m} = u \cup {m} PROVE s = u
      OBVIOUS
    <3>1. m \notin s /\ m \notin u
      OBVIOUS
    <3> QED
      BY <3>1
  <2>2. f \in [S -> R] /\ \A r \in R : \E s \in S : f[s] = r
    OBVIOUS
  <2> QED
    BY <2>1, <2>2 DEF Bijection, Injection, Surjection, IsInjective
<1>4. IsFiniteSet(R) /\ Cardinality(R) = 2^n
  <2>1. ExistsBijection(S, R)
    BY <1>3 DEF ExistsBijection
  <2> QED
    BY <1>1, <2>1, FS_Bijection, FS_SameCardinalityBij
<1> HIDE DEF S, R, T
<1>5. Cardinality(S \cup R) = Cardinality(S) + Cardinality(R) - Cardinality(S \cap R)
  BY <1>1, <1>4, FS_Union
<1>6. Cardinality(S \cap R) = 0
  BY <1>2, FS_EmptySet
<1> QED
  BY <1>1, <1>2, <1>4, <1>5, <1>6

-----------------------------------------------------------------------------
(***************************************************************************)
(* Induction over the numbers, from the library's theorem on least         *)
(* elements.                                                               *)
(***************************************************************************)
Less == {pair \in Nat \X Nat : pair[1] < pair[2]}

\* A set of numbers with zero and every successor has all numbers.
LEMMA AllNumbers ==
  ASSUME NEW S \in SUBSET Nat, 0 \in S, \A n \in S : n + 1 \in S
  PROVE  S = Nat
<1> SUFFICES ASSUME Nat \ S # {} PROVE FALSE
  OBVIOUS
<1>1. IsWellFoundedOn(Less, Nat)
  BY NatLessThanWellFounded DEF OpToRel, Less
<1>2. PICK n \in Nat \ S : \A m \in Nat \ S : ~ (<<m, n>> \in Less)
  BY <1>1, WFMin
<1>3. n # 0 /\ n - 1 \in Nat /\ n - 1 < n /\ (n - 1) + 1 = n
  OBVIOUS
<1>4. n - 1 \in S
  BY <1>2, <1>3 DEF Less
<1> QED
  BY <1>3, <1>4

\* A power of two exceeds its exponent.
LEMMA PowerExceeds ==
  ASSUME NEW n \in Nat
  PROVE  2^n \in Nat /\ 2^n >= n + 1
<1> DEFINE S == {k \in Nat : 2^k >= k + 1}
<1>1. 0 \in S
  <2>1. 2^0 = 1
    OBVIOUS
  <2> QED
    BY <2>1
<1>2. ASSUME NEW k \in S PROVE k + 1 \in S
  <2>1. 2^(k + 1) = 2 * 2^k /\ 2^k \in Nat
    BY PowerDoubles, IntervalSets
  <2> DEFINE a == 2^k
             b == 2^(k + 1)
  <2>2. a \in Nat /\ k \in Nat /\ a >= k + 1 /\ b = 2 * a
    BY <2>1
  <2> HIDE DEF a, b
  <2>3. b >= (k + 1) + 1
    BY <2>2
  <2> QED
    BY <2>2, <2>3 DEF b
<1> HIDE DEF S
<1>3. S = Nat
  BY <1>1, <1>2, AllNumbers DEF S
<1> QED
  BY <1>3, IntervalSets DEF S

\* The powers turn sums into products.
LEMMA PowerSum ==
  ASSUME NEW n \in Nat, NEW m \in Nat
  PROVE  2^(n + m) = 2^n * 2^m
<1> DEFINE S == {k \in Nat : 2^(n + k) = 2^n * 2^k}
<1>1. 0 \in S
  <2>1. 2^0 = 1 /\ n + 0 = n
    OBVIOUS
  <2>2. 2^n \in Nat
    BY IntervalSets
  <2> DEFINE a == 2^n
  <2>3. a \in Nat
    BY <2>2
  <2> HIDE DEF a
  <2>4. a = a * 1
    BY <2>3
  <2> QED
    BY <2>1, <2>4 DEF a
<1>2. ASSUME NEW k \in S PROVE k + 1 \in S
  <2>1. n + k \in Nat /\ n + (k + 1) = (n + k) + 1 /\ k \in Nat
    BY <1>2
  <2>2. 2^((n + k) + 1) = 2 * 2^(n + k) /\ 2^(k + 1) = 2 * 2^k
    BY <2>1, PowerDoubles
  <2>3. 2^(n + k) = 2^n * 2^k /\ 2^n \in Nat /\ 2^k \in Nat
    BY <1>2, <2>1, IntervalSets
  <2> DEFINE a == 2^n
             b == 2^k
             c == 2^(n + k)
             d == 2^(k + 1)
             e == 2^(n + (k + 1))
  <2>4. a \in Nat /\ b \in Nat /\ c = a * b /\ d = 2 * b /\ e = 2 * c
    BY <2>1, <2>2, <2>3
  <2> HIDE DEF a, b, c, d, e
  <2>5. e = a * d
    BY <2>4
  <2> QED
    BY <2>5 DEF e, a, d
<1> HIDE DEF S
<1>3. S = Nat
  BY <1>1, <1>2, AllNumbers DEF S
<1> QED
  BY <1>3 DEF S

\* The widths of the registers.
LEMMA Sizes ==
  /\ N \in Nat /\ Q \in Nat /\ N >= 2 /\ Q <= N - 2
  /\ 2^N \in Nat /\ 2^(N - 1) \in Nat /\ 2^N = 2 * 2^(N - 1) /\ 2^(N - 1) >= N
  /\ Sqrt!ITER \in 1 .. N - 1 /\ 2 * Sqrt!ITER = N + Q
<1>1. N \in Nat /\ Q \in Nat /\ Q < N /\ Q % 2 = 0 /\ N % 2 = 0
  BY UnitsAssumption
<1>2. N >= 2 /\ Q <= N - 2 /\ N - 1 \in Nat
  BY <1>1
<1> DEFINE k == N - 1
<1>0. k \in Nat /\ k + 1 = N
  BY <1>1, <1>2
<1> HIDE DEF k
<1>3. 2^N = 2 * 2^(N - 1)
  <2>1. 2^(k + 1) = 2 * 2^k
    BY <1>0, PowerDoubles
  <2> QED
    BY <1>0, <2>1 DEF k
<1>4. 2^(N - 1) \in Nat /\ 2^(N - 1) >= N /\ 2^N \in Nat
  <2>1. 2^k \in Nat /\ 2^k >= k + 1 /\ 2^N \in Nat
    BY <1>0, <1>1, PowerExceeds
  <2> QED
    BY <1>0, <2>1 DEF k
<1>5. Sqrt!ITER \in 1 .. N - 1 /\ 2 * Sqrt!ITER = N + Q
  BY <1>1, <1>2 DEF Sqrt!ITER
<1> QED
  BY <1>1, <1>2, <1>3, <1>4, <1>5

-----------------------------------------------------------------------------
\* The operands fit their ports; valid has been low for as long as low says.
InputInv ==
  /\ valid_i \in BOOLEAN /\ opA_i \in 0 .. 2^N - 1 /\ opB_i \in 0 .. 2^N - 1
  /\ low \in 0 .. MinGap /\ (valid_i <=> low = 0)

\* The divider counts down to zero, then is done (fixed_div.v:66-105).
DivControl ==
  /\ div_compute_r \in BOOLEAN /\ div_done_r \in BOOLEAN
  /\ div_done_r => div_compute_r
  /\ div_compute_r /\ ~div_done_r => cnt_r \in 0 .. N + Q - 1

\* When valid is seen first, the count has had a cycle without valid to be set.
MulControl ==
  /\ busy_r \in BOOLEAN /\ mul_ready_r \in BOOLEAN
  /\ mult_it_r \in 0 .. N - 1
  /\ mul_ready_r => busy_r /\ mult_it_r = 0
  /\ ~busy_r /\ valid_i => mult_it_r = N - 1
  /\ low >= 2 => ~busy_r

\* The square root counts up to its number of bits, then is done (fixed_sqrt.v:67-99).
SqrtControl ==
  /\ sqrt_compute_r \in BOOLEAN /\ sqrt_done_r \in BOOLEAN
  /\ sqrt_done_r => sqrt_compute_r
  /\ sqrt_compute_r /\ ~sqrt_done_r => iterator_r \in 0 .. Sqrt!ITER - 1

\* The control state of all units and of their environment.
ControlInv == /\ InputInv /\ DivControl /\ MulControl /\ SqrtControl
              /\ sub_ready_r \in BOOLEAN

\* A step of the environment, as the units see it.
LEMMA InputStep ==
  ASSUME InputInv, Rise \/ StayLow \/ StayHigh \/ Fall
  PROVE  /\ InputInv'
         /\ valid_i => opA_i' = opA_i /\ opB_i' = opB_i
         /\ ~valid_i /\ valid_i' => low = MinGap
         /\ valid_i /\ ~valid_i' => low' = 1
<1>1. MinGap \in Nat \ {0}
  BY UnitsAssumption
<1>2. opA_i' \in 0 .. 2^N - 1 /\ opB_i' \in 0 .. 2^N - 1
  <2>1. CASE NewOperands
    BY <2>1, UnitsAssumption DEF NewOperands
  <2>2. CASE UNCHANGED <<opA_i, opB_i>>
    BY <2>2 DEF InputInv
  <2> QED
    BY <2>1, <2>2 DEF Rise, StayLow, StayHigh, Fall, inputs
<1>3. CASE Rise
  BY <1>1, <1>2, <1>3 DEF InputInv, Rise
<1>4. CASE StayLow
  <2>1. low \in 1 .. MinGap /\ ~valid_i /\ ~valid_i' /\ low' = IF low < MinGap THEN low + 1 ELSE low
    BY <1>1, <1>4 DEF InputInv, StayLow
  <2>2. low' \in 1 .. MinGap
    <3>1. low \in Int /\ MinGap \in Int
      BY <1>1, <2>1
    <3>2. CASE low < MinGap
      <4>1. low' = low + 1
        BY <2>1, <3>2
      <4> QED
        BY <2>1, <3>1, <3>2, <4>1
    <3>3. CASE ~(low < MinGap)
      BY <2>1, <3>3
    <3> QED
      BY <3>2, <3>3
  <2>3. low' \in 0 .. MinGap /\ low' # 0
    BY <1>1, <2>2
  <2>4. valid_i' = FALSE
    BY <1>4 DEF StayLow
  <2> QED
    BY <1>2, <2>1, <2>3, <2>4 DEF InputInv
<1>5. CASE StayHigh
  <2>1. valid_i' = valid_i /\ low' = low /\ opA_i' = opA_i /\ opB_i' = opB_i /\ valid_i
    BY <1>5 DEF StayHigh, inputs
  <2> QED
    BY <1>1, <1>2, <2>1 DEF InputInv
<1>6. CASE Fall
  <2>1. valid_i /\ valid_i' = FALSE /\ low' = 1 /\ opA_i' = opA_i /\ opB_i' = opB_i
    BY <1>6 DEF Fall
  <2>2. low' \in 0 .. MinGap /\ low' # 0
    BY <1>1, <2>1
  <2> QED
    BY <1>2, <2>1, <2>2 DEF InputInv
<1> QED
  BY <1>3, <1>4, <1>5, <1>6

\* What the units are asked to compute is a number while valid is up, and stays.
LEMMA OperandFacts ==
  ASSUME InputInv
  PROVE  operands \in Nat /\ operands # NoOperand
<1> DEFINE p == 2^N
<1>1. p \in Nat /\ opA_i \in Nat /\ opB_i \in Nat
  BY Sizes DEF InputInv
<1> HIDE DEF p
<1>2. opA_i * p + opB_i \in Nat
  BY <1>1
<1>3. operands \in Nat
  BY <1>2 DEF operands, p
<1> QED
  BY <1>3 DEF NoOperand

-----------------------------------------------------------------------------
\* The divider keeps its control state and the handshake (fixed_div.v:66-105).
LEMMA DivKeeps ==
  ASSUME InputInv, DivControl, valid_i => operands' = operands, Div!DivClock
  PROVE  DivControl' /\ Keeps(divUnit, divUnit', N + Q)
<1> DEFINE p == 2^N
           on == div_compute_r \/ div_done_r
           left == IF div_done_r THEN 0 ELSE cnt_r + 1
<1>1. N \in Nat /\ Q \in Nat /\ N >= 2 /\ Q <= N - 2 /\ p \in Nat /\ p >= N + N /\ N + Q \in Nat
  BY Sizes
<1>2. valid_i \in BOOLEAN /\ div_compute_r \in BOOLEAN /\ div_done_r \in BOOLEAN
  BY DEF InputInv, DivControl
<1>3. cnt_r \in 0 .. N + Q - 1 => (cnt_r - 1) % p = IF cnt_r = 0 THEN p - 1 ELSE cnt_r - 1
  <2> HIDE DEF p
  <2> SUFFICES ASSUME cnt_r \in 0 .. N + Q - 1
               PROVE (cnt_r - 1) % p = IF cnt_r = 0 THEN p - 1 ELSE cnt_r - 1
    OBVIOUS
  <2>1. CASE cnt_r = 0
    <3>1. (0 - 1) % p = p - 1
      BY <1>1
    <3> QED
      BY <2>1, <3>1
  <2>2. CASE cnt_r # 0
    <3>1. cnt_r - 1 \in 0 .. p - 1
      BY <1>1, <2>2
    <3> QED
      BY <1>1, <2>2, <3>1
  <2> QED
    BY <2>1, <2>2
<1>4. CASE ~valid_i
  <2>1. ~div_compute_r' /\ ~div_done_r' /\ div_compute_r' \in BOOLEAN /\ div_done_r' \in BOOLEAN
    BY <1>4 DEF Div!DivClock, Div!DivStart, Div!DivLoop, Div!DivHold, Div!DivOff
  <2>2. DivControl'
    BY <2>1 DEF DivControl
  <2>3. divUnit' = Off
    BY <2>1 DEF divUnit, UnitOf
  <2> QED
    BY <1>4, <2>2, <2>3 DEF Keeps, Step
<1>5. CASE valid_i
  <2>1. operands' = operands
    BY <1>5
  <2>2. CASE ~div_compute_r
    <3>1. div_compute_r' = TRUE /\ div_done_r' = FALSE /\ cnt_r' = N + Q - 1
      <4>1. Div!DivStart
        BY <1>5, <2>2 DEF Div!DivClock, Div!DivLoop, Div!DivHold, Div!DivOff
      <4>2. div_compute_r' = TRUE /\ div_done_r' = FALSE /\ cnt_r' = Div!Bits - 1
        BY <4>1 DEF Div!DivStart
      <4> QED
        BY <1>1, <4>2 DEF Div!Bits
    <3>2. ~on
      BY <2>2 DEF DivControl
    <3>3. cnt_r' + 1 = N + Q /\ cnt_r' \in 0 .. N + Q - 1
      BY <1>1, <3>1
    <3>4. DivControl'
      BY <3>1, <3>3 DEF DivControl
    <3>5. divUnit = Off /\ divUnit' = [left |-> N + Q, op |-> operands']
      BY <3>1, <3>2, <3>3 DEF divUnit, UnitOf
    <3> QED
      BY <1>5, <2>1, <3>4, <3>5, OperandFacts DEF Keeps, Step
  <2>3. CASE div_compute_r /\ ~div_done_r
    <3>1. cnt_r \in 0 .. N + Q - 1
      BY <2>3 DEF DivControl
    <3>2. /\ div_compute_r' = div_compute_r /\ cnt_r' = (cnt_r - 1) % p
          /\ div_done_r' = (cnt_r = 0)
      BY <1>5, <2>3 DEF Div!DivClock, Div!DivStart, Div!DivLoop, Div!DivHold, Div!DivOff
    <3>3. cnt_r # 0 => cnt_r' = cnt_r - 1 /\ cnt_r' \in 0 .. N + Q - 1 /\ ~div_done_r'
      <4>1. cnt_r # 0 => cnt_r - 1 \in 0 .. N + Q - 1
        BY <1>1, <3>1
      <4> HIDE DEF p
      <4> QED
        BY <1>3, <3>1, <3>2, <4>1
    <3>4. DivControl'
      BY <2>3, <3>2, <3>3 DEF DivControl
    <3>5. divUnit = [left |-> cnt_r + 1, op |-> operands]
      BY <2>3 DEF divUnit, UnitOf
    <3>6. divUnit' = [left |-> cnt_r, op |-> operands']
      <4>1. (IF div_done_r' THEN 0 ELSE cnt_r' + 1) = cnt_r
        <5>1. CASE cnt_r = 0
          BY <3>2, <5>1
        <5>2. CASE cnt_r # 0
          BY <3>1, <3>3, <5>2
        <5> QED
          BY <5>1, <5>2
      <4> QED
        BY <2>3, <3>2, <4>1 DEF divUnit, UnitOf
    <3>7. cnt_r + 1 > 0 /\ (cnt_r + 1) - 1 = cnt_r
      BY <3>1
    <3> QED
      BY <1>5, <2>1, <3>4, <3>5, <3>6, <3>7, OperandFacts DEF Keeps, Step, Off
  <2>4. CASE div_done_r
    <3>1. div_compute_r
      BY <2>4 DEF DivControl
    <3>2. UNCHANGED <<div_compute_r, div_done_r, cnt_r>>
      BY <1>5, <2>4, <3>1 DEF Div!DivClock, Div!DivStart, Div!DivLoop, Div!DivHold, Div!DivOff, Div!divRegs
    <3>3. DivControl'
      BY <3>2 DEF DivControl
    <3>4. divUnit = [left |-> 0, op |-> operands] /\ divUnit' = divUnit
      BY <2>1, <2>4, <3>2 DEF divUnit, UnitOf
    <3> QED
      BY <1>5, <2>1, <3>3, <3>4, OperandFacts DEF Keeps, Step, Off
  <2> QED
    BY <2>2, <2>3, <2>4, <1>2
<1> QED
  BY <1>2, <1>4, <1>5

\* So does the multiplier, if the count has been set when valid comes
\* (new_fixed_mul.v:60-75).
LEMMA MulKeeps ==
  ASSUME MinGap >= 2, InputInv, InputInv', MulControl, valid_i => operands' = operands,
         ~valid_i /\ valid_i' => low = MinGap, valid_i /\ ~valid_i' => low' = 1,
         Mul!MulClock
  PROVE  MulControl' /\ Keeps(mulUnit, mulUnit', N)
<1>1. N \in Nat /\ N >= 2 /\ N - 1 \in 1 .. N - 1
  BY Sizes
<1>2. /\ valid_i \in BOOLEAN /\ busy_r \in BOOLEAN /\ mul_ready_r \in BOOLEAN
      /\ mult_it_r \in 0 .. N - 1 /\ valid_i' \in BOOLEAN /\ MinGap \in Nat
  BY UnitsAssumption DEF InputInv, MulControl
<1>3. busy_r' = valid_i /\ mul_ready_r' = (valid_i /\ mult_it_r = 0)
  BY DEF Mul!MulClock, Mul!MulHandshake, Mul!last_step_w
<1>4. mult_it_r' \in 0 .. N - 1
  <2>1. CASE ~busy_r
    BY <1>1, <2>1 DEF Mul!MulClock, Mul!MulTake, Mul!MulLoop, Mul!MulHold
  <2>2. CASE busy_r /\ ~mul_ready_r
    <3>1. mult_it_r' = IF mult_it_r = 0 THEN mult_it_r ELSE mult_it_r - 1
      BY <2>2 DEF Mul!MulClock, Mul!MulTake, Mul!MulLoop, Mul!MulHold, Mul!last_step_w
    <3> QED
      BY <1>1, <1>2, <3>1
  <2>3. CASE busy_r /\ mul_ready_r
    BY <1>2, <2>3 DEF Mul!MulClock, Mul!MulTake, Mul!MulLoop, Mul!MulHold
  <2> QED
    BY <1>2, <2>1, <2>2, <2>3
<1>5. MulControl'
  <2>1. mul_ready_r' => busy_r' /\ mult_it_r' = 0
    <3> SUFFICES ASSUME valid_i, mult_it_r = 0 PROVE mult_it_r' = 0
      BY <1>2, <1>3
    <3>1. busy_r
      BY <1>1, <1>2 DEF MulControl
    <3> QED
      BY <1>2, <3>1 DEF Mul!MulClock, Mul!MulTake, Mul!MulLoop, Mul!MulHold, Mul!last_step_w
  <2>2. ~busy_r' /\ valid_i' => mult_it_r' = N - 1
    <3> SUFFICES ASSUME ~valid_i, valid_i' PROVE mult_it_r' = N - 1
      BY <1>2, <1>3
    <3>1. low >= 2
      BY <1>2
    <3>2. ~busy_r
      BY <1>2, <3>1 DEF MulControl
    <3> QED
      BY <3>2 DEF Mul!MulClock, Mul!MulTake, Mul!MulLoop, Mul!MulHold
  <2>3. low' >= 2 => ~busy_r'
    <3> SUFFICES ASSUME valid_i PROVE ~ (low' >= 2)
      BY <1>2, <1>3
    <3>1. CASE valid_i'
      BY <3>1 DEF InputInv
    <3>2. CASE ~valid_i'
      BY <3>2
    <3> QED
      BY <3>1, <3>2
  <2>4. busy_r' \in BOOLEAN /\ mul_ready_r' \in BOOLEAN
    BY <1>2, <1>3
  <2> QED
    BY <1>4, <2>1, <2>2, <2>3, <2>4 DEF MulControl
<1>6. CASE ~valid_i
  <2>1. ~busy_r' /\ ~mul_ready_r'
    BY <1>3, <1>6
  <2>2. mulUnit' = Off
    BY <2>1 DEF mulUnit, UnitOf
  <2> QED
    BY <1>5, <1>6, <2>2 DEF Keeps, Step
<1>7. CASE valid_i
  <2>1. operands' = operands /\ busy_r'
    BY <1>3, <1>7
  <2>2. CASE ~busy_r
    <3>1. mult_it_r' = N - 1 /\ mult_it_r = N - 1
      BY <1>7, <2>2 DEF MulControl, Mul!MulClock, Mul!MulTake, Mul!MulLoop, Mul!MulHold
    <3>2. ~mul_ready_r /\ ~mul_ready_r'
      BY <1>1, <1>2, <1>3, <2>2, <3>1 DEF MulControl
    <3>3. mult_it_r' + 1 = N
      BY <1>1, <3>1
    <3>4. mulUnit = Off /\ mulUnit' = [left |-> N, op |-> operands']
      BY <2>1, <2>2, <3>2, <3>3 DEF mulUnit, UnitOf
    <3> QED
      BY <1>5, <1>7, <2>1, <3>4, OperandFacts DEF Keeps, Step
  <2>3. CASE busy_r /\ ~mul_ready_r
    <3>1. mult_it_r' = IF mult_it_r = 0 THEN mult_it_r ELSE mult_it_r - 1
      BY <2>3 DEF Mul!MulClock, Mul!MulTake, Mul!MulLoop, Mul!MulHold, Mul!last_step_w
    <3>2. mulUnit = [left |-> mult_it_r + 1, op |-> operands]
      BY <2>3 DEF mulUnit, UnitOf
    <3>3. (IF mul_ready_r' THEN 0 ELSE mult_it_r' + 1) = mult_it_r
      <4>1. CASE mult_it_r = 0
        BY <1>3, <1>7, <4>1
      <4>2. CASE mult_it_r # 0
        <5>1. ~mul_ready_r' /\ mult_it_r' = mult_it_r - 1
          BY <1>3, <3>1, <4>2
        <5> QED
          BY <1>1, <1>2, <5>1
      <4> QED
        BY <4>1, <4>2
    <3>4. mulUnit' = [left |-> mult_it_r, op |-> operands']
      BY <2>1, <3>3 DEF mulUnit, UnitOf
    <3>5. mult_it_r + 1 > 0 /\ (mult_it_r + 1) - 1 = mult_it_r
      BY <1>1, <1>2
    <3> QED
      BY <1>5, <1>7, <2>1, <3>2, <3>4, <3>5, OperandFacts DEF Keeps, Step, Off
  <2>4. CASE mul_ready_r
    <3>1. busy_r /\ mult_it_r = 0
      BY <2>4 DEF MulControl
    <3>2. mul_ready_r'
      BY <1>3, <1>7, <3>1
    <3>3. mulUnit = [left |-> 0, op |-> operands] /\ mulUnit' = [left |-> 0, op |-> operands']
      BY <2>1, <2>4, <3>1, <3>2 DEF mulUnit, UnitOf
    <3> QED
      BY <1>5, <1>7, <2>1, <3>3, OperandFacts DEF Keeps, Step, Off
  <2> QED
    BY <1>2, <2>2, <2>3, <2>4
<1> QED
  BY <1>2, <1>6, <1>7

\* So does the square root (fixed_sqrt.v:67-99).
LEMMA SqrtKeeps ==
  ASSUME InputInv, SqrtControl, valid_i => operands' = operands, Sqrt!SqrtClock
  PROVE  SqrtControl' /\ Keeps(sqrtUnit, sqrtUnit', Sqrt!ITER)
<1> DEFINE L == Sqrt!ITER
<1>1. L \in Nat /\ L >= 1
  BY Sizes
<1>2. valid_i \in BOOLEAN /\ sqrt_compute_r \in BOOLEAN /\ sqrt_done_r \in BOOLEAN
  BY DEF InputInv, SqrtControl
<1>3. CASE ~valid_i
  <2>1. ~sqrt_compute_r' /\ ~sqrt_done_r' /\ sqrt_compute_r' \in BOOLEAN /\ sqrt_done_r' \in BOOLEAN
    BY <1>3 DEF Sqrt!SqrtClock, Sqrt!SqrtStart, Sqrt!SqrtLoop, Sqrt!SqrtDone, Sqrt!SqrtHold, Sqrt!SqrtOff
  <2>2. SqrtControl'
    BY <2>1 DEF SqrtControl
  <2>3. sqrtUnit' = Off
    BY <2>1 DEF sqrtUnit, UnitOf
  <2> QED
    BY <1>3, <2>2, <2>3 DEF Keeps, Step
<1>4. CASE valid_i
  <2>1. operands' = operands
    BY <1>4
  <2>2. CASE ~sqrt_compute_r
    <3>1. Sqrt!SqrtStart
      BY <1>4, <2>2 DEF Sqrt!SqrtClock, Sqrt!SqrtLoop, Sqrt!SqrtDone, Sqrt!SqrtHold, Sqrt!SqrtOff
    <3>2. sqrt_compute_r' = TRUE /\ sqrt_done_r' = FALSE /\ iterator_r' = 0
      BY <3>1 DEF Sqrt!SqrtStart
    <3>3. ~sqrt_done_r
      BY <2>2 DEF SqrtControl
    <3>4. SqrtControl'
      <4>1. L' = L
        BY DEF Sqrt!ITER
      <4> HIDE DEF L
      <4>2. iterator_r' \in 0 .. L' - 1
        BY <1>1, <3>2, <4>1
      <4> QED
        BY <3>2, <4>2 DEF SqrtControl, L
    <3>5. L' = L
      BY DEF Sqrt!ITER
    <3>6. sqrtUnit = Off
      BY <2>2, <3>3 DEF sqrtUnit, UnitOf
    <3>7. sqrtUnit' = [left |-> L - 0, op |-> operands']
      BY <3>2, <3>5 DEF sqrtUnit, UnitOf
    <3> HIDE DEF L
    <3>8. L - 0 = L
      BY <1>1
    <3> QED
      BY <1>4, <2>1, <3>4, <3>6, <3>7, <3>8, OperandFacts DEF Keeps, Step, L
  <2>3. CASE sqrt_compute_r /\ ~sqrt_done_r
    <3>1. iterator_r \in 0 .. L - 1
      BY <2>3 DEF SqrtControl
    <3>2. L' = L
      BY DEF Sqrt!ITER
    <3> HIDE DEF L
    <3>3. sqrtUnit = [left |-> L - iterator_r, op |-> operands]
      BY <2>3 DEF sqrtUnit, UnitOf, L
    <3>4. CASE iterator_r < L - 1
      <4>1. Sqrt!SqrtLoop
        <5>1. ~ (iterator_r >= L - 1)
          BY <1>1, <3>1, <3>4
        <5> QED
          BY <1>4, <2>3, <5>1 DEF Sqrt!SqrtClock, Sqrt!SqrtStart, Sqrt!SqrtDone, Sqrt!SqrtHold, Sqrt!SqrtOff, L
      <4>2. sqrt_compute_r' = sqrt_compute_r /\ sqrt_done_r' = sqrt_done_r /\ iterator_r' = iterator_r + 1
        BY <4>1 DEF Sqrt!SqrtLoop
      <4>3. iterator_r' \in 0 .. L - 1
        BY <1>1, <3>1, <3>4, <4>2
      <4>4. SqrtControl'
        BY <2>3, <3>2, <4>2, <4>3 DEF SqrtControl, L
      <4>5. sqrtUnit' = [left |-> L - iterator_r', op |-> operands']
        BY <2>3, <3>2, <4>2 DEF sqrtUnit, UnitOf, L
      <4>6. L - iterator_r > 0 /\ L - iterator_r' = (L - iterator_r) - 1
        BY <1>1, <3>1, <4>2
      <4> QED
        BY <1>4, <2>1, <3>3, <4>4, <4>5, <4>6, OperandFacts DEF Keeps, Step, Off
    <3>5. CASE ~(iterator_r < L - 1)
      <4>1. Sqrt!SqrtDone
        BY <1>4, <2>3, <3>5 DEF Sqrt!SqrtClock, Sqrt!SqrtStart, Sqrt!SqrtLoop, Sqrt!SqrtHold, Sqrt!SqrtOff, L
      <4>2. sqrt_compute_r' = sqrt_compute_r /\ sqrt_done_r'
        BY <4>1 DEF Sqrt!SqrtDone
      <4>3. sqrt_done_r' \in BOOLEAN
        BY <4>1 DEF Sqrt!SqrtDone
      <4>4. SqrtControl'
        BY <2>3, <4>2, <4>3 DEF SqrtControl
      <4>5. sqrtUnit' = [left |-> 0, op |-> operands']
        BY <2>3, <4>2 DEF sqrtUnit, UnitOf
      <4>6. L - iterator_r > 0 /\ (L - iterator_r) - 1 = 0
        BY <1>1, <3>1, <3>5
      <4> QED
        BY <1>4, <2>1, <3>3, <4>4, <4>5, <4>6, OperandFacts DEF Keeps, Step, Off
    <3> QED
      BY <3>4, <3>5
  <2>4. CASE sqrt_done_r
    <3>1. sqrt_compute_r
      BY <2>4 DEF SqrtControl
    <3>2. UNCHANGED <<sqrt_compute_r, sqrt_done_r, iterator_r>>
      BY <1>4, <2>4, <3>1 DEF Sqrt!SqrtClock, Sqrt!SqrtStart, Sqrt!SqrtLoop, Sqrt!SqrtDone, Sqrt!SqrtHold, Sqrt!SqrtOff, Sqrt!sqrtRegs
    <3>3. SqrtControl'
      BY <2>4, <3>1, <3>2 DEF SqrtControl
    <3>4. sqrtUnit = [left |-> 0, op |-> operands] /\ sqrtUnit' = sqrtUnit
      BY <2>1, <2>4, <3>2 DEF sqrtUnit, UnitOf
    <3> QED
      BY <1>4, <2>1, <3>3, <3>4, OperandFacts DEF Keeps, Step, Off
  <2> QED
    BY <1>2, <2>2, <2>3, <2>4
<1> QED
  BY <1>2, <1>3, <1>4

\* The subtractor has its result in the cycle after valid comes (fixed_sub.v:43-58).
LEMMA SubKeeps ==
  ASSUME InputInv, sub_ready_r \in BOOLEAN, valid_i => operands' = operands, Sub!SubClock
  PROVE  sub_ready_r' \in BOOLEAN /\ Keeps(subUnit, subUnit', 0)
<1>1. sub_ready_r' = valid_i /\ valid_i \in BOOLEAN
  BY DEF Sub!SubClock, InputInv
<1>2. CASE ~valid_i
  <2>1. subUnit' = Off
    BY <1>1, <1>2 DEF subUnit, UnitOf
  <2> QED
    BY <1>1, <1>2, <2>1 DEF Keeps, Step
<1>3. CASE valid_i
  <2>1. subUnit' = [left |-> 0, op |-> operands']
    BY <1>1, <1>3 DEF subUnit, UnitOf
  <2>2. subUnit = Off \/ subUnit = [left |-> 0, op |-> operands]
    BY DEF subUnit, UnitOf
  <2> QED
    BY <1>1, <1>3, <2>1, <2>2, OperandFacts DEF Keeps, Step, Off
<1> QED
  BY <1>1, <1>2, <1>3

\* The reset state has the control state.
LEMMA ControlInit ==
  Init => ControlInv
<1> SUFFICES ASSUME Init PROVE ControlInv
  OBVIOUS
<1>1. MinGap \in Nat \ {0} /\ N - 1 \in 0 .. N - 1
  BY Sizes, UnitsAssumption
<1>2. opA_i \in 0 .. 2^N - 1 /\ opB_i \in 0 .. 2^N - 1
  BY UnitsAssumption DEF Init
<1>3. InputInv
  <2>1. valid_i = FALSE /\ low = MinGap
    BY DEF Init
  <2>2. low \in 0 .. MinGap /\ low # 0
    BY <1>1, <2>1
  <2> QED
    BY <1>2, <2>1, <2>2 DEF InputInv
<1> QED
  BY <1>1, <1>3 DEF Init, ControlInv, DivControl, MulControl, SqrtControl,
     Div!DivInit, Mul!MulInit, Sqrt!SqrtInit, Sub!SubInit

\* Every clock edge keeps the control state, and every unit takes a step of the handshake.
LEMMA ControlStep ==
  ASSUME MinGap >= 2, ControlInv, Next
  PROVE  /\ ControlInv'
         /\ Keeps(divUnit, divUnit', N + Q)
         /\ Keeps(mulUnit, mulUnit', N)
         /\ Keeps(sqrtUnit, sqrtUnit', Sqrt!ITER)
         /\ Keeps(subUnit, subUnit', 0)
<1>1. /\ InputInv /\ DivControl /\ MulControl /\ SqrtControl /\ sub_ready_r \in BOOLEAN
      /\ Rise \/ StayLow \/ StayHigh \/ Fall
      /\ Div!DivClock /\ Mul!MulClock /\ Sqrt!SqrtClock /\ Sub!SubClock
  BY DEF ControlInv, Next
<1>2. /\ InputInv'
      /\ valid_i => opA_i' = opA_i /\ opB_i' = opB_i
      /\ ~valid_i /\ valid_i' => low = MinGap
      /\ valid_i /\ ~valid_i' => low' = 1
  BY <1>1, InputStep
<1>3. valid_i => operands' = operands
  BY <1>2 DEF operands
<1>4. DivControl' /\ Keeps(divUnit, divUnit', N + Q)
  BY <1>1, <1>3, DivKeeps
<1>5. MulControl' /\ Keeps(mulUnit, mulUnit', N)
  BY <1>1, <1>2, <1>3, MulKeeps
<1>6. SqrtControl' /\ Keeps(sqrtUnit, sqrtUnit', Sqrt!ITER)
  BY <1>1, <1>3, SqrtKeeps
<1>7. sub_ready_r' \in BOOLEAN /\ Keeps(subUnit, subUnit', 0)
  BY <1>1, <1>3, SubKeeps
<1> QED
  BY <1>2, <1>4, <1>5, <1>6, <1>7 DEF ControlInv

\* So does a step that changes nothing.
LEMMA ControlStutter ==
  ASSUME ControlInv, UNCHANGED fuvars
  PROVE  ControlInv'
BY DEF ControlInv, InputInv, DivControl, MulControl, SqrtControl, fuvars, inputs,
       Div!divRegs, Mul!mulRegs, Sqrt!sqrtRegs, Sub!subRegs, Sqrt!ITER

\* Safety: the control state of the units stays as their circuits need it: the counts in range,
\* and the multiplier's count set when valid comes (fixed_div.v:66-105, new_fixed_mul.v:60-109,
\* fixed_sqrt.v:67-99, fixed_sub.v:43-58).
THEOREM ControlCorrect ==
  ASSUME MinGap >= 2
  PROVE  Spec => []ControlInv
<1>1. ControlInv /\ [Next]_fuvars => ControlInv'
  BY ControlStep, ControlStutter
<1> QED
  BY <1>1, ControlInit, PTL DEF Spec

\* Implementation: each unit is a HandshakeUnit with a latency of its own, for operands of every
\* width: UnitsKeepHandshake (fixed_div.v:66-105, new_fixed_mul.v:60-75, fixed_sqrt.v:67-99,
\* fixed_sub.v:43-58).
THEOREM UnitsHandshake ==
  ASSUME MinGap >= 2
  PROVE  Spec => UnitsKeepHandshake
<1>1. ControlInv /\ [Next]_fuvars
      => [/\ Keeps(divUnit, divUnit', N + Q)
          /\ Keeps(mulUnit, mulUnit', N)
          /\ Keeps(sqrtUnit, sqrtUnit', Sqrt!ITER)
          /\ Keeps(subUnit, subUnit', 0)]_fuvars
  BY ControlStep
<1> QED
  BY <1>1, ControlCorrect, PTL DEF Spec, UnitsKeepHandshake

-----------------------------------------------------------------------------
\* Division by any positive number.
LEMMA ModUnique ==
  ASSUME NEW d \in Nat \ {0}, NEW q \in Int, NEW r \in 0 .. d - 1
  PROVE  (q * d + r) % d = r /\ (q * d + r) \div d = q
OBVIOUS

\* Every number is a quotient times d and a remainder.
LEMMA DivMod ==
  ASSUME NEW x \in Int, NEW d \in Nat \ {0}
  PROVE  \E q \in Int, r \in 0 .. d - 1 : x = q * d + r /\ x \div d = q /\ x % d = r
<1>1. x \div d \in Int /\ x - d * (x \div d) \in 0 .. d - 1
  OBVIOUS
<1>2. PICK q \in Int : q = x \div d
  BY <1>1
<1>3. x - d * q \in 0 .. d - 1 /\ x = q * d + (x - d * q)
  BY <1>1, <1>2
<1>4. PICK r \in 0 .. d - 1 : x = q * d + r
  BY <1>3
<1>5. x % d = r
  BY <1>4, ModUnique
<1> QED
  BY <1>2, <1>4, <1>5

\* Cutting a number off at one bit more first makes no difference.
LEMMA ModMod ==
  ASSUME NEW h \in Nat \ {0}, NEW x \in Int
  PROVE  (x % (2 * h)) % h = x % h
<1>1. 2 * h \in Nat \ {0}
  OBVIOUS
<1>2. PICK q \in Int, y \in 0 .. 2 * h - 1 : x = q * (2 * h) + y /\ x % (2 * h) = y
  BY <1>1, DivMod
<1>3. y \in Int
  OBVIOUS
<1>4. PICK s \in Int, r \in 0 .. h - 1 : y = s * h + r /\ y % h = r
  BY <1>3, DivMod, Zenon
<1>5. x = (2 * q + s) * h + r /\ 2 * q + s \in Int
  BY <1>2, <1>4
<1>6. x % h = r
  BY <1>5, ModUnique
<1>7. (x % (2 * h)) % h = y % h
  BY <1>2, Zenon
<1> QED
  BY <1>4, <1>6, <1>7, Zenon

\* An operand is a sign bit and a magnitude.
LEMMA Parts ==
  ASSUME NEW op \in 0 .. 2^N - 1
  PROVE  /\ Div!Magnitude(op) \in 0 .. 2^(N - 1) - 1
         /\ Div!Sign(op) \in {0, 1}
         /\ op = Div!Sign(op) * 2^(N - 1) + Div!Magnitude(op)
<1> DEFINE h == 2^(N - 1)
<1>1. h \in Nat \ {0} /\ op \in 0 .. 2 * h - 1
  BY Sizes
<1> HIDE DEF h
<1>2. PICK q \in Int, r \in 0 .. h - 1 : op = q * h + r /\ op \div h = q /\ op % h = r
  BY <1>1, DivMod
<1>3. q \in {0, 1}
  BY <1>1, <1>2
<1> QED
  BY <1>2, <1>3 DEF h, Div!Magnitude, Div!Sign

-----------------------------------------------------------------------------
\* The subtractor's register (fixed_sub.v:43-58).
SubData ==
  sub_ready_r => sub_result_r = (opA_i - opB_i) % 2^N

\* The two's complement of a difference: its upper bit is the sign.
LEMMA Difference ==
  ASSUME NEW h \in Nat \ {0}, NEW a \in 0 .. h - 1, NEW b \in 0 .. h - 1
  PROVE  /\ a >= b => (a - b) % (2 * h) = a - b /\ (a - b) % h = a - b
         /\ a < b => (a - b) % (2 * h) = 2 * h + a - b /\ (2 * h + a - b) % h = h + a - b
<1>1. CASE a >= b
  <2>1. PICK r \in 0 .. h - 1 : r = a - b
    BY <1>1
  <2>2. r = 0 * h + r /\ r = 0 * (2 * h) + r /\ r \in 0 .. 2 * h - 1 /\ 2 * h \in Nat \ {0}
    OBVIOUS
  <2>3. r % h = r /\ r % (2 * h) = r
    BY <2>2, ModUnique
  <2> QED
    BY <1>1, <2>1, <2>3
<1>2. CASE a < b
  <2>1. PICK r \in 0 .. h - 1 : r = h + a - b
    BY <1>2
  <2>2. /\ a - b = (-1) * (2 * h) + (h + r) /\ h + r \in 0 .. 2 * h - 1
        /\ 2 * h + a - b = 1 * h + r /\ 2 * h \in Nat \ {0}
    BY <2>1
  <2>3. (a - b) % (2 * h) = h + r /\ (2 * h + a - b) % h = r
    BY <2>2, ModUnique
  <2> QED
    BY <1>2, <2>1, <2>3
<1> QED
  BY <1>1, <1>2

\* The register gives the difference that is reported (fixed_sub.v:39-58).
LEMMA SubResult ==
  ASSUME InputInv, SubData
  PROVE  DifferenceRight
<1> DEFINE h == 2^(N - 1)
           p == 2^N
           value == IF Sub!sub_result_o.sign = 1 THEN -Sub!sub_result_o.magnitude ELSE Sub!sub_result_o.magnitude
<1> SUFFICES ASSUME sub_ready_r, Div!Sign(opA_i) = 0, Div!Sign(opB_i) = 0
             PROVE  value = A - B + IF A < B THEN 1 ELSE 0
  BY DEF DifferenceRight
<1>1. h \in Nat \ {0} /\ p = 2 * h
  BY Sizes
<1>2. A \in 0 .. h - 1 /\ B \in 0 .. h - 1 /\ opA_i = 0 * h + A /\ opB_i = 0 * h + B
  BY Parts DEF InputInv, A, B
<1>3. sub_result_r = (opA_i - opB_i) % p
  BY DEF SubData
<1> DEFINE low_bits == sub_result_r % h
<1>4. Sub!sub_result_o = IF sub_result_r >= h THEN [sign |-> 1, magnitude |-> h - 1 - low_bits]
                         ELSE [sign |-> 0, magnitude |-> low_bits]
  BY DEF Sub!sub_result_o
<1> HIDE DEF h, p, low_bits
<1>5. /\ sub_result_r >= h => value = -(h - 1 - low_bits)
      /\ ~ (sub_result_r >= h) => value = low_bits
  BY <1>4
<1> HIDE DEF value
<1>6. opA_i = A /\ opB_i = B
  BY <1>1, <1>2
<1>7. CASE A >= B
  <2>1. sub_result_r = A - B /\ low_bits = A - B
    BY <1>1, <1>2, <1>3, <1>6, <1>7, Difference DEF low_bits
  <2>2. ~ (sub_result_r >= h)
    BY <1>1, <1>2, <2>1
  <2> QED
    BY <1>1, <1>2, <1>5, <1>7, <2>1, <2>2
<1>8. CASE ~ (A >= B)
  <2>1. A < B
    BY <1>2, <1>8
  <2>2. sub_result_r = 2 * h + A - B /\ low_bits = h + A - B
    BY <1>1, <1>2, <1>3, <1>6, <2>1, Difference DEF low_bits
  <2>3. sub_result_r >= h
    BY <1>1, <1>2, <2>2
  <2>4. value = -(h - 1 - (h + A - B))
    BY <1>5, <2>2, <2>3
  <2>5. -(h - 1 - (h + A - B)) = A - B + 1
    BY <1>1, <1>2
  <2> QED
    BY <2>1, <2>4, <2>5
<1> QED
  BY <1>7, <1>8

\* A clock edge keeps the difference: the operands are held while valid is up.
LEMMA SubDataStep ==
  ASSUME InputInv, valid_i => opA_i' = opA_i /\ opB_i' = opB_i, Sub!SubClock
  PROVE  SubData'
<1>1. sub_ready_r' = valid_i /\ sub_result_r' = IF valid_i THEN (opA_i - opB_i) % 2^N ELSE sub_result_r
  BY DEF Sub!SubClock
<1> QED
  BY <1>1 DEF SubData

-----------------------------------------------------------------------------
\* What is divided: the magnitude of the dividend, with Q bits below it.
Dividend == A * 2^Q

\* Magnitudes have N - 1 bits.
LEMMA DividendFacts ==
  ASSUME InputInv
  PROVE  /\ A \in 0 .. 2^(N - 1) - 1 /\ B \in 0 .. 2^(N - 1) - 1
         /\ A \in Nat /\ B \in Nat /\ Dividend \in Nat
<1> DEFINE h == 2^(N - 1)
           s == 2^Q
<1>1. A \in 0 .. h - 1 /\ B \in 0 .. h - 1
  BY Parts DEF InputInv, A, B
<1>2. h \in Nat /\ s \in Nat
  BY Sizes, IntervalSets
<1>3. Dividend = A * s
  BY DEF Dividend
<1> HIDE DEF s, h
<1>4. A \in Nat /\ B \in Nat
  BY <1>1, <1>2
<1>5. A * s \in Nat
  BY <1>2, <1>4
<1> QED
  BY <1>1, <1>3, <1>4, <1>5 DEF h

\* After the bits above 2^width the quotient is m * 2^width, and what is left of the
\* dividend is less than the divisor moved as far.
PartialQuotient(width) ==
  \E m \in Nat : /\ aux_quotient_r = m * 2^width
                 /\ aux_dividend_r = Dividend - aux_quotient_r * B
                 /\ aux_dividend_r \in 0 .. B * 2^width - 1

\* The divider's registers (fixed_div.v:66-105): at the end quotient_r is twice a number m
\* that goes into the dividend 2m or 2m + 1 times.
DivData ==
  /\ div_compute_r => sign_r = signs
  /\ div_compute_r /\ ~div_done_r /\ B # 0
     => aux_divisor_r = B * 2^cnt_r /\ PartialQuotient(cnt_r + 1)
  /\ div_done_r /\ B # 0
     => \E m \in Nat : quotient_r = (2 * m) % 2^N /\ Dividend - 2 * m * B \in 0 .. 2 * B - 1

\* Twice m is the quotient but for its last bit if 2m divisors leave less than two.
LEMMA QuotientEven ==
  ASSUME NEW d \in Nat, NEW b \in Nat \ {0}, NEW m \in Nat, d - 2 * m * b \in 0 .. 2 * b - 1
  PROVE  (d \div b) \div 2 = m
<1>1. PICK r \in 0 .. 2 * b - 1 : r = d - 2 * m * b
  OBVIOUS
<1>2. d = (2 * m) * b + r
  BY <1>1
<1>3. CASE r < b
  <2>1. d \div b = 2 * m
    BY <1>2, <1>3, ModUnique
  <2> QED
    BY <2>1
<1>4. CASE r >= b
  <2>1. PICK s \in 0 .. b - 1 : s = r - b
    BY <1>4
  <2>2. d = (2 * m + 1) * b + s
    BY <1>2, <2>1
  <2>3. d \div b = 2 * m + 1
    BY <2>2, ModUnique
  <2> QED
    BY <2>3
<1> QED
  BY <1>3, <1>4

\* The first cycle of valid: nothing of the quotient is known, and the dividend is less
\* than the divisor moved up by all bits.
LEMMA DivStarts ==
  ASSUME InputInv, Div!DivStart, B # 0, A' = A, B' = B
  PROVE  aux_divisor_r' = B' * 2^cnt_r' /\ PartialQuotient(cnt_r + 1)'
<1> DEFINE h == 2^(N - 1)
           s == 2^Q
           w == 2^(N + Q)
           e == N - 1
           x == 2^(e + Q)
<1>1. /\ N \in Nat /\ Q \in Nat /\ e \in Nat /\ e + Q \in Nat /\ (e + Q) + 1 = N + Q
      /\ h \in Nat \ {0} /\ N + Q >= 1
  BY Sizes
<1>2. A \in 0 .. h - 1 /\ B \in 0 .. h - 1
  BY Parts DEF InputInv, A, B
<1>3. s \in Nat /\ s >= 1 /\ w \in Nat
  BY <1>1, PowerExceeds
<1>4. x = h * s /\ x \in Nat
  BY <1>1, PowerSum, IntervalSets
<1>5. w = 2 * x
  <2> HIDE DEF e
  <2>1. 2^((e + Q) + 1) = 2 * 2^(e + Q)
    BY <1>1, PowerDoubles
  <2> QED
    BY <1>1, <2>1
<1>6. /\ aux_quotient_r' = 0 /\ aux_dividend_r' = A * s
      /\ cnt_r' = Div!Bits - 1 /\ aux_divisor_r' = B * 2^(Div!Bits - 1)
  BY DEF Div!DivStart, A, B
<1>7. cnt_r' + 1 = N + Q
  BY <1>1, <1>6 DEF Div!Bits
<1>8. A * s \in 0 .. B * w - 1
  <2> HIDE DEF h, s, w, x
  <2>1. A * s < h * s /\ A * s \in Nat
    BY <1>1, <1>2, <1>3
  <2>2. B * w >= w /\ B * w \in Nat
    BY <1>1, <1>2, <1>3
  <2>3. h * s <= w
    BY <1>3, <1>4, <1>5
  <2> QED
    BY <1>1, <1>3, <1>4, <2>1, <2>2, <2>3
<1>9. Dividend' = A * s
  BY DEF Dividend
<1> HIDE DEF s, w, h, x
<1>10. 0 = 0 * w /\ A * s = A * s - 0 * B /\ 0 \in Nat
  BY <1>1, <1>2, <1>3
<1>11. /\ aux_quotient_r' = 0 * w /\ aux_dividend_r' = A * s - aux_quotient_r' * B
       /\ aux_dividend_r' \in 0 .. B * w - 1
  BY <1>6, <1>8, <1>10
<1>12. 2^(cnt_r' + 1) = w
  BY <1>7 DEF w
<1>13. PartialQuotient(cnt_r + 1)'
  BY <1>9, <1>10, <1>11, <1>12 DEF PartialQuotient
<1> QED
  BY <1>6, <1>13

\* One bit of the quotient; with the last one the register is taken.
LEMMA DivLoops ==
  ASSUME InputInv, cnt_r \in 0 .. N + Q - 1, Div!DivLoop, B # 0, A' = A, B' = B,
         aux_divisor_r = B * 2^cnt_r, PartialQuotient(cnt_r + 1)
  PROVE  /\ cnt_r # 0 => aux_divisor_r' = B' * 2^cnt_r' /\ PartialQuotient(cnt_r + 1)'
         /\ cnt_r = 0 => \E m \in Nat : /\ quotient_r' = (2 * m) % 2^N
                                        /\ Dividend - 2 * m * B \in 0 .. 2 * B - 1
<1> DEFINE P == 2^cnt_r
           U == 2^(cnt_r + 1)
           W == 2^N
           below == cnt_r - 1
           P2 == 2^below
<1>1. cnt_r \in Nat /\ N + Q \in Nat /\ cnt_r < N + Q /\ N \in Nat /\ Q \in Nat
  <2>1. N \in Nat /\ Q \in Nat
    BY Sizes
  <2>2. N + Q \in Nat
    BY <2>1
  <2>3. cnt_r \in Nat /\ cnt_r <= N + Q - 1
    BY <2>1
  <2> QED
    BY <2>1, <2>2, <2>3
<1>2. U = 2 * P /\ P \in Nat /\ P >= 1
  BY <1>1, PowerDoubles, PowerExceeds
<1>3. A \in Nat /\ B \in Nat \ {0} /\ Dividend \in Nat
  BY DividendFacts
<1>4. /\ aux_divisor_r' = aux_divisor_r \div 2
      /\ cnt_r' = (cnt_r - 1) % 2^N
      /\ quotient_r' = IF cnt_r = 0 THEN aux_quotient_r % W ELSE quotient_r
      /\ aux_dividend_r >= aux_divisor_r
         => /\ aux_quotient_r' = IF (aux_quotient_r \div P) % 2 = 1 THEN aux_quotient_r
                                 ELSE aux_quotient_r + P
            /\ aux_dividend_r' = aux_dividend_r - aux_divisor_r
      /\ ~ (aux_dividend_r >= aux_divisor_r)
         => aux_quotient_r' = aux_quotient_r /\ aux_dividend_r' = aux_dividend_r
  BY DEF Div!DivLoop, Div!DivBit, Div!SetBit
<1>5. PICK m \in Nat : /\ aux_quotient_r = m * U
                       /\ aux_dividend_r = Dividend - aux_quotient_r * B
                       /\ aux_dividend_r \in 0 .. B * U - 1
  BY DEF PartialQuotient
<1> HIDE DEF P, U, W
<1>6. P \in Nat \ {0} /\ aux_divisor_r = B * P
  BY <1>2 DEF P
<1>7. /\ aux_quotient_r = (2 * m) * P /\ (aux_quotient_r \div P) % 2 = 0
      /\ ~ (aux_dividend_r >= B * P) => aux_dividend_r \in 0 .. B * P - 1
      /\ aux_dividend_r >= B * P
         => /\ aux_quotient_r + P = (2 * m + 1) * P
            /\ aux_dividend_r - B * P \in 0 .. B * P - 1
            /\ aux_dividend_r - B * P = Dividend - (aux_quotient_r + P) * B
  <2> DEFINE q == aux_quotient_r
             rest == aux_dividend_r
             b == B
             d == Dividend
  <2>1. /\ q = m * (2 * P) /\ rest = d - q * b /\ rest \in 0 .. b * (2 * P) - 1
        /\ b \in Nat \ {0} /\ d \in Nat /\ P \in Nat \ {0}
    BY <1>2, <1>3, <1>5, <1>6
  <2> HIDE DEF q, rest, b, d
  <2>2. q = (2 * m) * P + 0 /\ q = (2 * m) * P
    BY <2>1
  <2>3. q \div P = 2 * m /\ (2 * m) % 2 = 0
    <3>1. 0 \in 0 .. P - 1 /\ 2 * m \in Int
      BY <2>1
    <3> QED
      BY <2>1, <2>2, <3>1, ModUnique
  <2>4. (q \div P) % 2 = 0
    BY <2>3
  <2>5. rest \in Int /\ b * P \in Nat /\ b * (2 * P) = 2 * (b * P)
    BY <2>1
  <2>6. ~ (rest >= b * P) => rest \in 0 .. b * P - 1
    BY <2>1, <2>5
  <2>7. rest >= b * P => rest - b * P \in 0 .. b * P - 1
    BY <2>1, <2>5
  <2>8. q + P = (2 * m + 1) * P /\ rest - b * P = d - (q + P) * b
    BY <2>1
  <2> QED
    BY <2>2, <2>4, <2>6, <2>7, <2>8 DEF q, rest, b, d
<1>8. ASSUME cnt_r # 0
      PROVE  aux_divisor_r' = B' * 2^cnt_r' /\ PartialQuotient(cnt_r + 1)'
  <2>1. below \in Nat /\ below + 1 = cnt_r
    BY <1>1, <1>8
  <2>2. cnt_r' = below
    <3>1. W \in Nat /\ W >= N + N
      BY Sizes DEF W
    <3>2. N >= 2 /\ Q <= N - 2
      BY Sizes
    <3>3. below \in 0 .. W - 1
      BY <1>1, <2>1, <3>1, <3>2
    <3>4. below = 0 * W + below /\ W \in Nat \ {0} /\ 0 \in Int
      BY <1>1, <2>1, <3>1, <3>2
    <3>5. below % W = below
      <4> HIDE DEF below
      <4>1. (0 * W + below) % W = below
        BY <3>3, <3>4, ModUnique
      <4> QED
        BY <3>4, <4>1
    <3> QED
      BY <1>4, <3>5 DEF W
  <2>3. P = 2 * P2 /\ P2 \in Nat
    <3> HIDE DEF below
    <3>1. 2^(below + 1) = 2 * 2^below /\ 2^below \in Nat
      BY <2>1, PowerDoubles, IntervalSets
    <3> QED
      BY <2>1, <3>1 DEF P
  <2>4. 2^cnt_r' = P2 /\ 2^(cnt_r' + 1) = P
    BY <2>1, <2>2 DEF P
  <2> HIDE DEF P2, below
  <2>5. aux_divisor_r' = B * P2
    <3>1. \A x \in Nat : (2 * x) \div 2 = x
      OBVIOUS
    <3>2. aux_divisor_r = 2 * (B * P2) /\ B * P2 \in Nat
      BY <1>3, <1>6, <2>3
    <3> QED
      BY <1>4, <3>1, <3>2
  <2>6. \E k \in Nat : /\ aux_quotient_r' = k * P
                       /\ aux_dividend_r' = Dividend - aux_quotient_r' * B
                       /\ aux_dividend_r' \in 0 .. B * P - 1
    <3>1. CASE aux_dividend_r >= B * P
      <4>1. aux_quotient_r' = aux_quotient_r + P /\ aux_dividend_r' = aux_dividend_r - B * P
        BY <1>4, <1>6, <1>7, <3>1
      <4>2. /\ aux_quotient_r' = (2 * m + 1) * P
            /\ aux_dividend_r' = Dividend - aux_quotient_r' * B
            /\ aux_dividend_r' \in 0 .. B * P - 1
        BY <1>7, <3>1, <4>1
      <4>3. 2 * m + 1 \in Nat
        OBVIOUS
      <4> QED
        BY <4>2, <4>3
    <3>2. CASE ~ (aux_dividend_r >= B * P)
      <4>1. aux_quotient_r' = aux_quotient_r /\ aux_dividend_r' = aux_dividend_r
        BY <1>4, <1>6, <3>2
      <4>2. /\ aux_quotient_r' = (2 * m) * P
            /\ aux_dividend_r' = Dividend - aux_quotient_r' * B
            /\ aux_dividend_r' \in 0 .. B * P - 1
        BY <1>5, <1>7, <3>2, <4>1
      <4>3. 2 * m \in Nat
        OBVIOUS
      <4> QED
        BY <4>2, <4>3
    <3> QED
      BY <3>1, <3>2
  <2>7. Dividend' = Dividend
    BY DEF Dividend
  <2>8. PartialQuotient(cnt_r + 1)'
    BY <2>4, <2>6, <2>7 DEF PartialQuotient
  <2> QED
    BY <2>4, <2>5, <2>8
<1>9. ASSUME cnt_r = 0
      PROVE  \E k \in Nat : quotient_r' = (2 * k) % 2^N /\ Dividend - 2 * k * B \in 0 .. 2 * B - 1
  <2>1. 2^0 = 1
    OBVIOUS
  <2>2. P = 1
    BY <1>9, <2>1 DEF P
  <2>3. aux_quotient_r = 2 * m /\ aux_dividend_r = Dividend - 2 * m * B /\ aux_dividend_r \in 0 .. 2 * B - 1
    BY <1>2, <1>3, <1>5, <2>2
  <2>4. quotient_r' = aux_quotient_r % 2^N
    BY <1>4, <1>9 DEF W
  <2> QED
    BY <2>3, <2>4
<1> QED
  BY <1>8, <1>9

\* A clock edge keeps the partial quotient, whatever was broken off before it.
LEMMA DivDataStep ==
  ASSUME InputInv, DivControl, DivData, valid_i => opA_i' = opA_i /\ opB_i' = opB_i, Div!DivClock
  PROVE  DivData'
<1>1. valid_i \in BOOLEAN /\ div_compute_r \in BOOLEAN /\ div_done_r \in BOOLEAN
  BY DEF InputInv, DivControl
<1>2. CASE ~valid_i
  <2>1. ~div_compute_r' /\ ~div_done_r'
    BY <1>2 DEF Div!DivClock, Div!DivStart, Div!DivLoop, Div!DivHold, Div!DivOff
  <2> QED
    BY <2>1 DEF DivData
<1>3. CASE valid_i
  <2>1. A' = A /\ B' = B /\ signs' = signs /\ Dividend' = Dividend
    BY <1>3 DEF A, B, signs, Dividend
  <2>2. CASE ~div_compute_r
    <3>1. Div!DivStart
      BY <1>3, <2>2 DEF Div!DivClock, Div!DivLoop, Div!DivHold, Div!DivOff
    <3>2. sign_r' = signs /\ ~div_done_r'
      BY <3>1 DEF Div!DivStart, signs
    <3>3. B # 0 => aux_divisor_r' = B' * 2^cnt_r' /\ PartialQuotient(cnt_r + 1)'
      BY <2>1, <3>1, DivStarts
    <3> QED
      BY <2>1, <3>2, <3>3 DEF DivData
  <2>3. CASE div_compute_r /\ ~div_done_r
    <3>1. Div!DivLoop /\ cnt_r \in 0 .. N + Q - 1
      BY <1>3, <2>3 DEF DivControl, Div!DivClock, Div!DivStart, Div!DivHold, Div!DivOff
    <3>2. sign_r' = sign_r /\ (div_done_r' <=> cnt_r = 0)
      BY <3>1 DEF Div!DivLoop
    <3>3. sign_r = signs
      BY <2>3 DEF DivData
    <3>4. B # 0 => aux_divisor_r = B * 2^cnt_r /\ PartialQuotient(cnt_r + 1)
      BY <2>3 DEF DivData
    <3>5. B # 0
          => /\ cnt_r # 0 => aux_divisor_r' = B' * 2^cnt_r' /\ PartialQuotient(cnt_r + 1)'
             /\ cnt_r = 0 => \E m \in Nat : /\ quotient_r' = (2 * m) % 2^N
                                            /\ Dividend - 2 * m * B \in 0 .. 2 * B - 1
      BY <2>1, <3>1, <3>4, DivLoops
    <3>6. B # 0 /\ div_done_r' => \E m \in Nat : /\ quotient_r' = (2 * m) % 2^N
                                                 /\ Dividend' - 2 * m * B' \in 0 .. 2 * B' - 1
      BY <2>1, <3>2, <3>5
    <3> QED
      BY <2>1, <3>2, <3>3, <3>5, <3>6 DEF DivData
  <2>4. CASE div_done_r
    <3>1. UNCHANGED Div!divRegs
      BY <1>3, <2>4 DEF DivControl, Div!DivClock, Div!DivStart, Div!DivLoop, Div!DivHold, Div!DivOff
    <3>2. div_compute_r /\ div_compute_r' = div_compute_r /\ div_done_r' = div_done_r
          /\ sign_r' = sign_r /\ quotient_r' = quotient_r
      BY <2>4, <3>1 DEF Div!divRegs, DivControl
    <3>3. sign_r = signs
      BY <3>2 DEF DivData
    <3>4. B # 0 => \E m \in Nat : /\ quotient_r' = (2 * m) % 2^N
                                  /\ Dividend' - 2 * m * B' \in 0 .. 2 * B' - 1
      BY <2>1, <2>4, <3>2 DEF DivData
    <3> QED
      BY <2>1, <2>4, <3>2, <3>3, <3>4 DEF DivData
  <2> QED
    BY <1>1, <2>2, <2>3, <2>4
<1> QED
  BY <1>1, <1>2, <1>3

\* The quotient that is ready is right but for its last bit (fixed_div.v:66-105).
LEMMA DivResult ==
  ASSUME InputInv, DivControl, DivData
  PROVE  QuotientRight
<1> SUFFICES ASSUME div_done_r, B # 0
             PROVE  /\ quotient_r % 2^(N-1) = (2 * ((Dividend \div B) \div 2)) % 2^(N-1)
                    /\ sign_r = signs
  BY DEF QuotientRight, Dividend
<1> DEFINE h == 2^(N - 1)
           p == 2^N
<1>1. PICK m \in Nat : quotient_r = (2 * m) % p /\ Dividend - 2 * m * B \in 0 .. 2 * B - 1
  BY DEF DivData
<1>2. sign_r = signs
  BY DEF DivData, DivControl
<1>3. h \in Nat \ {0} /\ p = 2 * h
  BY Sizes
<1>4. Dividend \in Nat /\ B \in Nat \ {0}
  BY DividendFacts
<1> HIDE DEF h, p
<1>5. (Dividend \div B) \div 2 = m
  BY <1>1, <1>4, QuotientEven
<1>6. 2 * m \in Int
  OBVIOUS
<1>7. ((2 * m) % (2 * h)) % h = (2 * m) % h
  BY <1>3, <1>6, ModMod
<1>8. quotient_r % h = (2 * m) % h
  BY <1>1, <1>3, <1>7
<1> QED
  BY <1>2, <1>5, <1>8 DEF h

-----------------------------------------------------------------------------
\* The two halves of the result register move right together by one bit.
LEMMA ShiftHalves ==
  ASSUME NEW h \in Nat \ {0}, NEW x \in Nat, NEW partial \in Int
  PROVE  ((2 * x) \div (2 * h) + partial) * h + ((2 * x) % (2 * h)) \div 2 = x + partial * h
<1>1. 2 * h \in Nat \ {0} /\ 2 * x \in Int
  OBVIOUS
<1>2. PICK q \in Int, r \in 0 .. 2 * h - 1 :
        2 * x = q * (2 * h) + r /\ (2 * x) \div (2 * h) = q /\ (2 * x) % (2 * h) = r
  BY <1>1, DivMod, Zenon
<1>3. r \in Int /\ r = 2 * (x - q * h) /\ x - q * h \in Int
  BY <1>2
<1>4. \A y \in Int : (2 * y) \div 2 = y
  OBVIOUS
<1>5. r \div 2 = x - q * h
  BY <1>3, <1>4
<1>6. (q + partial) * h + (x - q * h) = x + partial * h
  OBVIOUS
<1>7. ((2 * x) \div (2 * h) + partial) * h + ((2 * x) % (2 * h)) \div 2 = (q + partial) * h + (x - q * h)
  BY <1>2, <1>5, Zenon
<1> QED
  BY <1>6, <1>7, Zenon

\* The sum after one bit more of the multiplier.
LEMMA SumGrows ==
  ASSUME NEW h \in Int, NEW a \in Int, NEW bit \in Int, NEW u \in Int, NEW w \in Int, NEW lo \in Int, u * w = h
  PROVE  (h * (u - 1) + a * lo) * w + (h + bit * a) * h = (h * (2 * u - 1) + a * (lo + bit * u)) * w
OBVIOUS

\* No sum leaves the 2N bits of the result register.
LEMMA SumFits ==
  ASSUME NEW h \in Nat \ {0}, NEW a \in 0 .. h - 1, NEW u \in Nat \ {0}, NEW w \in Nat \ {0},
         u * w = h, NEW lo \in 0 .. 2 * u - 1
  PROVE  (h * (2 * u - 1) + a * lo) * w \in 0 .. 4 * (h * h) - 1
<1>1. a * lo \in Nat /\ a * lo <= h * (2 * u - 1)
  OBVIOUS
<1>2. h * (2 * u - 1) + a * lo \in Nat /\ h * (2 * u - 1) + a * lo <= 2 * (h * (2 * u - 1))
  BY <1>1
<1> DEFINE x == h * (2 * u - 1) + a * lo
<1>3. x \in Nat /\ x <= 4 * (h * u) - 1
  BY <1>2
<1> HIDE DEF x
<1>4. x * w \in Nat /\ x * w <= (4 * (h * u) - 1) * w
  BY <1>3
<1>5. (4 * (h * u) - 1) * w = 4 * (h * h) - w
  OBVIOUS
<1> QED
  BY <1>4, <1>5 DEF x

\* The sum of the last step, whose bit of the multiplier is zero.
LEMMA LastSum ==
  ASSUME NEW h \in Nat \ {0}, NEW a \in 0 .. h - 1, NEW b \in 0 .. h - 1
  PROVE  /\ (h * (h - 1) + a * b) * 1 + (h - 1) * h = 2 * (h * (h - 1)) + a * b
         /\ 2 * (h * (h - 1)) + a * b \in 0 .. 4 * (h * h) - 1
<1>1. a * b \in Nat /\ a * b <= h * (h - 1)
  OBVIOUS
<1>2. h * (h - 1) \in Nat /\ h * (h - 1) = h * h - h
  OBVIOUS
<1> QED
  BY <1>1, <1>2

\* result_o takes the constants out again (new_fixed_mul.v:49-55).
LEMMA TakeOut ==
  ASSUME NEW h \in Nat \ {0}, NEW a \in 0 .. h - 1, NEW b \in 0 .. h - 1
  PROVE  (2 * (h * (h - 1)) + a * b + 2 * (h * h) + 2 * h) % (4 * (h * h)) = a * b
<1>1. a * b \in Nat /\ a * b <= h * (h - 1)
  OBVIOUS
<1>2. h * (h - 1) \in Nat /\ h * (h - 1) = h * h - h /\ h * h \in Nat /\ h * h >= 1
  OBVIOUS
<1>3. a * b \in 0 .. 4 * (h * h) - 1 /\ 4 * (h * h) \in Nat \ {0}
  BY <1>1, <1>2
<1>4. 2 * (h * (h - 1)) + a * b + 2 * (h * h) + 2 * h = 1 * (4 * (h * h)) + a * b
  BY <1>1, <1>2
<1>5. (1 * (4 * (h * h)) + a * b) % (4 * (h * h)) = a * b
  <2> DEFINE d == 4 * (h * h)
             r == a * b
  <2>1. d \in Nat \ {0} /\ r \in 0 .. d - 1 /\ 1 \in Int
    BY <1>3
  <2> HIDE DEF d, r
  <2>2. (1 * d + r) % d = r
    BY <2>1, ModUnique
  <2> QED
    BY <2>2 DEF d, r
<1> QED
  BY <1>4, <1>5, Zenon

\* After k bits of the multiplier, u = 2^k and v = 2^(N - k): its low bits lo are in the sum,
\* the others in opB_r.
PartialProduct(u, v) ==
  /\ opA_r = A /\ opB_r \in Nat
  /\ \E lo \in 0 .. u - 1 : /\ B = opB_r * u + lo
                            /\ mul_result_r = (2^(N - 1) * (u - 1) + A * lo) * v

\* The multiplier's registers (new_fixed_mul.v:60-109).
MulData ==
  /\ busy_r /\ ~mul_ready_r => PartialProduct(2^(N - 1 - mult_it_r), 2^(mult_it_r + 1))
  /\ mul_ready_r => mul_result_r = 2 * (2^(N - 1) * (2^(N - 1) - 1)) + A * B

\* The powers that a step of the multiplier meets.
LEMMA MulPowers ==
  ASSUME mult_it_r \in 0 .. N - 1
  PROVE  /\ 2^(N - 1 - mult_it_r) \in Nat \ {0} /\ 2^mult_it_r \in Nat \ {0}
         /\ 2^(mult_it_r + 1) = 2 * 2^mult_it_r
         /\ 2^(N - 1 - mult_it_r) * 2^mult_it_r = 2^(N - 1)
         /\ 2^(2 * N) = 4 * (2^(N - 1) * 2^(N - 1))
         /\ 2^(2 * N - 1) = 2 * (2^(N - 1) * 2^(N - 1))
<1> DEFINE k == N - 1 - mult_it_r
           e == N - 1
           it == mult_it_r
           h == 2^e
           p == 2^N
<1>1. /\ k \in Nat /\ e \in Nat /\ it \in Nat /\ N \in Nat /\ k + it = e
      /\ N + N = 2 * N /\ e + N = 2 * N - 1
  <2>1. N \in Nat /\ N >= 2
    BY Sizes
  <2> QED
    BY <2>1
<1>2. p = 2 * h /\ h \in Nat
  BY Sizes
<1> HIDE DEF k, it, e
<1>3. 2^k \in Nat \ {0} /\ 2^it \in Nat \ {0} /\ 2^(it + 1) = 2 * 2^it
  <2>1. 2^k \in Nat /\ 2^k >= k + 1 /\ 2^it \in Nat /\ 2^it >= it + 1
    BY <1>1, PowerExceeds
  <2>2. 2^(it + 1) = 2 * 2^it
    BY <1>1, PowerDoubles
  <2> QED
    BY <1>1, <2>1, <2>2
<1>4. 2^(k + it) = 2^k * 2^it
  BY <1>1, PowerSum
<1>5. 2^(N + N) = p * p /\ 2^(e + N) = h * p
  BY <1>1, PowerSum
<1> HIDE DEF h, p
<1>6. p * p = 4 * (h * h) /\ h * p = 2 * (h * h)
  BY <1>2
<1> QED
  BY <1>1, <1>3, <1>4, <1>5, <1>6 DEF k, it, e, h

\* One bit of the multiplier; the last bit is that of a number less than 2^(N - 1), zero, and
\* its sum takes the constants' other half in.
LEMMA MulLoops ==
  ASSUME InputInv, mult_it_r \in 0 .. N - 1, Mul!MulLoop, A' = A, B' = B,
         PartialProduct(2^(N - 1 - mult_it_r), 2^(mult_it_r + 1))
  PROVE  /\ mult_it_r # 0 => PartialProduct(2^(N - 1 - mult_it_r), 2^(mult_it_r + 1))'
         /\ mult_it_r = 0 => mul_result_r' = 2 * (2^(N - 1) * (2^(N - 1) - 1)) + A * B
<1> DEFINE h == 2^(N - 1)
           p == 2^N
           u == 2^(N - 1 - mult_it_r)
           v == 2^(mult_it_r + 1)
           w == 2^mult_it_r
           z == 2^(2 * N)
           soft == IF opB_r % 2 = 1 THEN A ELSE 0
           partial == IF mult_it_r # 0 THEN (1 - (soft \div h)) * h + (soft % h)
                      ELSE (soft \div h) * h + h - 1 - (soft % h)
           bit == opB_r % 2
           rest == opB_r \div 2
<1>1. /\ u \in Nat \ {0} /\ w \in Nat \ {0} /\ v = 2 * w /\ u * w = h /\ z = 4 * (h * h)
      /\ h \in Nat \ {0} /\ p = 2 * h
  BY MulPowers, Sizes
<1>2. A \in 0 .. h - 1 /\ B \in 0 .. h - 1
  BY DividendFacts
<1>3. opA_r = A /\ opB_r \in Nat
  BY DEF PartialProduct
<1>4. PICK lo \in 0 .. u - 1 : B = opB_r * u + lo /\ mul_result_r = (h * (u - 1) + A * lo) * v
  BY DEF PartialProduct
<1>5. /\ opA_r' = A /\ opB_r' = rest
      /\ mul_result_r' = ((mul_result_r \div p + partial) * h + (mul_result_r % p) \div 2) % z
      /\ mult_it_r' = IF mult_it_r = 0 THEN mult_it_r ELSE mult_it_r - 1
  <2>1. Mul!soft_mult_w = soft
    BY <1>3 DEF Mul!soft_mult_w
  <2>2. Mul!Partial = partial
    BY <2>1 DEF Mul!Partial, Mul!Sign, Mul!Magnitude, Mul!last_step_w
  <2> HIDE DEF partial, soft
  <2> QED
    BY <1>3, <2>2 DEF Mul!MulLoop, Mul!last_step_w
<1>6. soft = bit * A /\ bit \in {0, 1} /\ rest \in Nat /\ opB_r = 2 * rest + bit
  <2>1. A \in Nat
    BY <1>1, <1>2
  <2>2. bit \in {0, 1} /\ rest \in Nat /\ opB_r = 2 * rest + bit
    BY <1>3
  <2> HIDE DEF rest
  <2> QED
    BY <2>1, <2>2
<1> HIDE DEF bit, rest
<1>7. soft \in 0 .. h - 1 /\ soft \div h = 0 /\ soft % h = soft
  <2>1. soft \in 0 .. h - 1 /\ 0 \in Int
    BY <1>1, <1>2
  <2> HIDE DEF soft, h
  <2>2. soft = 0 * h + soft
    BY <1>1, <2>1
  <2>3. (0 * h + soft) \div h = 0 /\ (0 * h + soft) % h = soft
    BY <1>1, <2>1, ModUnique
  <2> QED
    BY <2>1, <2>2, <2>3
<1> HIDE DEF h, p, u, v, w, z, soft
<1>8. /\ mult_it_r # 0 => partial = h + bit * A
      /\ mult_it_r = 0 => partial = h - 1 - bit * A
  <2>1. (1 - 0) * h + soft = h + soft /\ 0 * h + h - 1 - soft = h - 1 - soft
    BY <1>1, <1>7
  <2> QED
    BY <1>6, <1>7, <2>1
<1> HIDE DEF partial
<1> DEFINE x == h * (u - 1) + A * lo
<1>9. x \in Nat /\ mul_result_r = 2 * (x * w) /\ x * w \in Nat
  <2>1. x \in Nat
    BY <1>1, <1>2
  <2>2. mul_result_r = x * v
    BY <1>4
  <2> HIDE DEF x
  <2> QED
    BY <1>1, <2>1, <2>2
<1>10. partial \in Int
  BY <1>1, <1>2, <1>6, <1>8
<1>11. mul_result_r' = (x * w + partial * h) % z
  <2> DEFINE y == x * w
  <2>1. y \in Nat
    BY <1>9
  <2> HIDE DEF y, x
  <2>2. ((2 * y) \div (2 * h) + partial) * h + ((2 * y) % (2 * h)) \div 2 = y + partial * h
    BY <1>1, <1>10, <2>1, ShiftHalves
  <2>3. mul_result_r = 2 * y
    BY <1>9 DEF y
  <2>4. ((mul_result_r \div p + partial) * h + (mul_result_r % p) \div 2) = y + partial * h
    BY <1>1, <2>2, <2>3, Zenon
  <2> QED
    BY <1>5, <2>4, Zenon DEF y
<1>12. \A s \in 0 .. z - 1 : s % z = s
  <2>1. z \in Nat \ {0}
    BY <1>1
  <2> SUFFICES ASSUME NEW s \in 0 .. z - 1 PROVE s % z = s
    OBVIOUS
  <2>2. (0 * z + s) % z = s
    BY <2>1, ModUnique
  <2>3. 0 * z + s = s
    BY <2>1
  <2> QED
    BY <2>2, <2>3, Zenon
<1>13. ASSUME mult_it_r # 0
       PROVE  PartialProduct(2^(N - 1 - mult_it_r), 2^(mult_it_r + 1))'
  <2> DEFINE lo2 == lo + bit * u
             r2 == (h * (2 * u - 1) + A * lo2) * w
  <2>1. lo2 \in 0 .. 2 * u - 1
    BY <1>1, <1>4, <1>6
  <2>2. x * w + partial * h = r2
    BY <1>1, <1>2, <1>4, <1>6, <1>8, <1>13, SumGrows
  <2>3. r2 \in 0 .. z - 1
    <3> HIDE DEF lo2
    <3> QED
      BY <1>1, <1>2, <2>1, SumFits
  <2>4. mul_result_r' = r2
    BY <1>11, <1>12, <2>2, <2>3, Zenon
  <2>5. B = rest * (2 * u) + lo2
    BY <1>1, <1>4, <1>6
  <2>6. 2^(N - 1 - mult_it_r') = 2 * u /\ 2^(mult_it_r' + 1) = w
    <3> DEFINE k == N - 1 - mult_it_r
    <3>1. k \in Nat /\ N - 1 - mult_it_r' = k + 1 /\ mult_it_r' + 1 = mult_it_r
      BY <1>5, <1>13, Sizes
    <3> HIDE DEF k
    <3>2. 2^(k + 1) = 2 * 2^k
      BY <3>1, PowerDoubles
    <3> QED
      BY <3>1, <3>2 DEF u, w, k
  <2> HIDE DEF lo2, r2
  <2>7. /\ opA_r' = A' /\ opB_r' \in Nat
        /\ lo2 \in 0 .. 2 * u - 1 /\ B' = opB_r' * (2 * u) + lo2
        /\ mul_result_r' = (h * (2 * u - 1) + A' * lo2) * w
    BY <1>5, <1>6, <2>1, <2>4, <2>5 DEF r2
  <2> QED
    BY <2>6, <2>7 DEF PartialProduct, h
<1>14. ASSUME mult_it_r = 0
       PROVE  mul_result_r' = 2 * (2^(N - 1) * (2^(N - 1) - 1)) + A * B
  <2>1. w = 1
    <3>1. 2^0 = 1
      OBVIOUS
    <3> QED
      BY <1>14, <3>1 DEF w
  <2>2. u = h
    BY <1>1, <2>1
  <2>3. opB_r = 0 /\ lo = B
    BY <1>1, <1>2, <1>3, <1>4, <2>2
  <2>4. bit = 0
    BY <1>6, <2>3
  <2>5. partial = h - 1
    BY <1>1, <1>2, <1>8, <1>14, <2>4
  <2>6. x * w + partial * h = (h * (h - 1) + A * B) * 1 + (h - 1) * h
    BY <2>1, <2>2, <2>3, <2>5
  <2>7. x * w + partial * h = 2 * (h * (h - 1)) + A * B /\ 2 * (h * (h - 1)) + A * B \in 0 .. z - 1
    BY <1>1, <1>2, <2>6, LastSum
  <2>8. mul_result_r' = 2 * (h * (h - 1)) + A * B
    BY <1>11, <1>12, <2>7, Zenon
  <2> QED
    BY <2>8 DEF h
<1> QED
  BY <1>13, <1>14

\* A clock edge keeps the partial product: the count was set before valid came.
LEMMA MulDataStep ==
  ASSUME InputInv, MulControl, MulData, valid_i => opA_i' = opA_i /\ opB_i' = opB_i, Mul!MulClock
  PROVE  MulData'
<1>1. /\ valid_i \in BOOLEAN /\ busy_r \in BOOLEAN /\ mul_ready_r \in BOOLEAN
      /\ mult_it_r \in 0 .. N - 1
  BY DEF InputInv, MulControl
<1>2. busy_r' = valid_i /\ mul_ready_r' = (valid_i /\ mult_it_r = 0)
  BY DEF Mul!MulClock, Mul!MulHandshake, Mul!last_step_w
<1>3. CASE ~valid_i
  BY <1>2, <1>3 DEF MulData
<1>4. CASE valid_i
  <2>1. A' = A /\ B' = B
    BY <1>4 DEF A, B
  <2>2. CASE ~busy_r
    <3> DEFINE v == 2^(mult_it_r' + 1)
               u == 2^(N - 1 - mult_it_r')
               h == 2^(N - 1)
    <3>1. N >= 2 /\ N \in Nat
      BY Sizes
    <3>2. mult_it_r = N - 1
      BY <1>4, <2>2 DEF MulControl
    <3>3. ~mul_ready_r'
      <4>1. mult_it_r # 0
        BY <3>1, <3>2
      <4> QED
        BY <1>2, <4>1
    <3>4. /\ mult_it_r' = N - 1 /\ mul_result_r' = 0
          /\ opA_r' = Mul!Magnitude(opA_i) /\ opB_r' = Mul!Magnitude(opB_i)
      BY <2>2 DEF Mul!MulClock, Mul!MulTake, Mul!MulLoop, Mul!MulHold
    <3>5. opA_r' = A /\ opB_r' = B
      BY <3>4 DEF A, B, Mul!Magnitude, Div!Magnitude
    <3>6. u = 1
      <4>1. N - 1 - mult_it_r' = 0 /\ 2^0 = 1
        BY <3>1, <3>4
      <4> QED
        BY <4>1
    <3>7. v \in Nat /\ A \in Nat /\ B \in Nat /\ h \in Nat
      <4>1. mult_it_r' + 1 = N
        BY <3>1, <3>4
      <4> QED
        BY <4>1, DividendFacts, Sizes
    <3> HIDE DEF u, v, h
    <3>8. 0 \in 0 .. 1 - 1 /\ B = B * 1 + 0 /\ 0 = (h * (1 - 1) + A * 0) * v
      BY <3>7
    <3>9. PartialProduct(2^(N - 1 - mult_it_r), 2^(mult_it_r + 1))'
      <4>1. /\ opA_r' = A' /\ opB_r' \in Nat /\ 0 \in 0 .. u - 1
            /\ B' = opB_r' * u + 0 /\ mul_result_r' = (h * (u - 1) + A' * 0) * v
        BY <2>1, <3>4, <3>5, <3>6, <3>7, <3>8
      <4> QED
        BY <4>1 DEF PartialProduct, u, v, h
    <3> QED
      BY <3>3, <3>9 DEF MulData
  <2>3. CASE busy_r /\ ~mul_ready_r
    <3>1. Mul!MulLoop
      BY <2>3 DEF Mul!MulClock, Mul!MulTake, Mul!MulHold
    <3>2. PartialProduct(2^(N - 1 - mult_it_r), 2^(mult_it_r + 1))
      BY <2>3 DEF MulData
    <3>3. /\ mult_it_r # 0 => PartialProduct(2^(N - 1 - mult_it_r), 2^(mult_it_r + 1))'
          /\ mult_it_r = 0 => mul_result_r' = 2 * (2^(N - 1) * (2^(N - 1) - 1)) + A * B
      BY <1>1, <2>1, <3>1, <3>2, MulLoops
    <3>4. CASE mult_it_r = 0
      BY <1>2, <1>4, <2>1, <3>3, <3>4 DEF MulData
    <3>5. CASE mult_it_r # 0
      <4>1. ~mul_ready_r'
        BY <1>2, <3>5
      <4> QED
        BY <3>3, <3>5, <4>1 DEF MulData
    <3> QED
      BY <3>4, <3>5
  <2>4. CASE mul_ready_r
    <3>1. busy_r /\ mult_it_r = 0
      BY <2>4 DEF MulControl
    <3>2. mul_result_r' = mul_result_r
      BY <2>4, <3>1 DEF Mul!MulClock, Mul!MulTake, Mul!MulLoop, Mul!MulHold
    <3>3. mul_ready_r'
      BY <1>2, <1>4, <3>1
    <3>4. mul_result_r' = 2 * (2^(N - 1) * (2^(N - 1) - 1)) + A' * B'
      BY <2>1, <2>4, <3>2 DEF MulData
    <3> QED
      BY <3>3, <3>4 DEF MulData
  <2> QED
    BY <1>1, <2>2, <2>3, <2>4
<1> QED
  BY <1>1, <1>3, <1>4

\* The product that is ready is right (new_fixed_mul.v:49-55,77-109).
LEMMA MulResult ==
  ASSUME InputInv, MulControl, MulData
  PROVE  ProductRight
<1> SUFFICES ASSUME mul_ready_r
             PROVE  Mul!mul_result_o = [sign |-> signs, magnitude |-> ((A * B) \div 2^Q) % 2^(N-1)]
  BY DEF ProductRight
<1> DEFINE h == 2^(N - 1)
           p == 2^N
           z == 2^(2 * N)
           t == 2^(2 * N - 1)
<1>1. z = 4 * (h * h) /\ t = 2 * (h * h) /\ p = 2 * h /\ h \in Nat \ {0}
  BY MulPowers, Sizes DEF MulControl
<1>2. A \in 0 .. h - 1 /\ B \in 0 .. h - 1
  BY DividendFacts
<1>3. mul_result_r = 2 * (h * (h - 1)) + A * B
  BY DEF MulData
<1>4. Mul!pre_result_w = (mul_result_r + t + p) % z
  BY DEF Mul!pre_result_w
<1>5. (Mul!Sign(opA_i) + Mul!Sign(opB_i)) % 2 = signs
  BY DEF signs, Mul!Sign, Div!Sign
<1> HIDE DEF h, p, z, t
<1>6. (2 * (h * (h - 1)) + A * B + 2 * (h * h) + 2 * h) % (4 * (h * h)) = A * B
  BY <1>1, <1>2, TakeOut
<1>7. Mul!pre_result_w = A * B
  BY <1>1, <1>3, <1>4, <1>6, Zenon
<1> QED
  BY <1>5, <1>7 DEF Mul!mul_result_o

-----------------------------------------------------------------------------
\* With i bits of the root found, the accumulator holds what their square leaves of the bits
\* of the operand that have moved into it.
PartialRoot(i) ==
  /\ auxRoot_r \in 0 .. 2^i - 1 /\ radCpy_r \in 0 .. 2^N - 1
  /\ acc_r \in 0 .. 8 * auxRoot_r + 3
  /\ opA_i * 2^(2 * (i + 1)) = (acc_r + 4 * (auxRoot_r * auxRoot_r)) * 2^N + radCpy_r

\* The square root's registers (fixed_sqrt.v:52-99).
SqrtData ==
  sqrt_compute_r => /\ PartialRoot(iterator_r)
                    /\ sqrt_done_r => iterator_r = Sqrt!ITER - 1

\* Whether 4 * R + 1 fits into the accumulator shows in the bit above its width.
LEMMA FitsBit ==
  ASSUME NEW b \in Nat, NEW R \in Nat, 4 * R + 4 <= b, NEW acc \in 0 .. 8 * R + 3
  PROVE  /\ acc >= 4 * R + 1 => /\ (acc - (4 * R + 1)) % (4 * b) = acc - (4 * R + 1)
                                /\ acc - (4 * R + 1) \in 0 .. b - 1
         /\ ~ (acc >= 4 * R + 1) => (acc - (4 * R + 1)) % (4 * b) >= 2 * b /\ acc \in 0 .. b - 1
<1>1. 4 * b \in Nat \ {0} /\ b \in Nat /\ b >= 4
  OBVIOUS
<1>2. CASE acc >= 4 * R + 1
  <2>1. PICK r \in 0 .. b - 1 : r = acc - (4 * R + 1)
    BY <1>2
  <2>2. r \in 0 .. 4 * b - 1 /\ 0 * (4 * b) + r = r
    BY <1>1
  <2>3. (0 * (4 * b) + r) % (4 * b) = r
    BY <1>1, <2>2, ModUnique
  <2>4. r % (4 * b) = r
    BY <2>2, <2>3, Zenon
  <2> QED
    BY <1>2, <2>1, <2>4
<1>3. CASE ~ (acc >= 4 * R + 1)
  <2>1. PICK r \in 0 .. 4 * b - 1 : r = 4 * b + acc - (4 * R + 1) /\ r >= 2 * b
    BY <1>1, <1>3
  <2>2. acc - (4 * R + 1) = (-1) * (4 * b) + r
    BY <2>1
  <2>3. ((-1) * (4 * b) + r) % (4 * b) = r
    BY <1>1, ModUnique
  <2>4. (acc - (4 * R + 1)) % (4 * b) = r
    BY <2>2, <2>3, Zenon
  <2> QED
    BY <1>1, <1>3, <2>1, <2>4
<1> QED
  BY <1>2, <1>3

\* The two bits that move into the accumulator.
LEMMA TwoBits ==
  ASSUME NEW g \in Nat \ {0}, NEW rad \in 0 .. 4 * g - 1
  PROVE  \E t \in 0 .. 3, rest \in 0 .. 4 * g - 1 :
           rad \div g = t /\ (4 * rad) % (4 * g) = rest /\ 4 * rad = t * (4 * g) + rest
<1>1. PICK t \in Int, r \in 0 .. g - 1 : rad = t * g + r /\ rad \div g = t
  BY DivMod
<1>2. t \in 0 .. 3
  BY <1>1
<1>3. PICK rest \in 0 .. 4 * g - 1 : rest = 4 * r
  OBVIOUS
<1>4. 4 * rad = t * (4 * g) + rest /\ 4 * g \in Nat \ {0}
  BY <1>1, <1>3
<1>5. (t * (4 * g) + rest) % (4 * g) = rest
  BY <1>4, ModUnique
<1>6. (4 * rad) % (4 * g) = rest
  BY <1>4, <1>5, Zenon
<1> QED
  BY <1>1, <1>2, <1>4, <1>6

\* One bit of the root.
LEMMA RootBit ==
  ASSUME NEW R \in Nat, NEW acc \in 0 .. 8 * R + 3, NEW t \in 0 .. 3, NEW bit \in {0, 1},
         bit = 1 <=> acc >= 4 * R + 1
  PROVE  /\ 4 * (acc - bit * (4 * R + 1)) + t \in 0 .. 8 * (2 * R + bit) + 3
         /\ (4 * (acc - bit * (4 * R + 1)) + t) + 4 * ((2 * R + bit) * (2 * R + bit))
            = 4 * (acc + 4 * (R * R)) + t
<1>1. CASE bit = 1
  BY <1>1
<1>2. CASE bit = 0
  BY <1>2
<1> QED
  BY <1>1, <1>2

\* Two bits of the radicand move over the point.
LEMMA RadicandMoves ==
  ASSUME NEW op \in Int, NEW F \in Int, NEW b \in Int, NEW s \in Int, NEW rad \in Int,
         NEW t \in Int, NEW rest \in Int, op * F = s * b + rad, 4 * rad = t * b + rest
  PROVE  op * (4 * F) = (4 * s + t) * b + rest
OBVIOUS

\* The powers of two that the square root's widths are.
LEMMA SqrtPowers ==
  /\ 2^(N - 2) \in Nat \ {0} /\ 2^N = 4 * 2^(N - 2)
  /\ 2^(N + 1) = 2 * 2^N /\ 2^(N + 2) = 4 * 2^N
<1> DEFINE k == N - 2
           m == N - 1
           n1 == N + 1
<1>1. N \in Nat /\ k \in Nat /\ m \in Nat /\ n1 \in Nat /\ k + 1 = m /\ m + 1 = N /\ n1 + 1 = N + 2
  BY Sizes
<1>2. 2^(N + 1) = 2 * 2^N
  BY <1>1, PowerDoubles
<1>3. 2^N = 2 * 2^m
  BY Sizes
<1> HIDE DEF k, m, n1
<1>4. 2^(k + 1) = 2 * 2^k /\ 2^(n1 + 1) = 2 * 2^n1 /\ 2^k \in Nat /\ 2^k >= k + 1 /\ 2^N \in Nat
  BY <1>1, PowerDoubles, PowerExceeds
<1>5. 2^m = 2 * 2^k /\ 2^(N + 2) = 2 * 2^n1
  BY <1>1, <1>4
<1> DEFINE a == 2^k
           b == 2^m
           c == 2^N
           d == 2^n1
           e == 2^(N + 2)
<1>6. a \in Nat /\ a >= 1 /\ b = 2 * a /\ c = 2 * b /\ d = 2 * c /\ e = 2 * d
  BY <1>1, <1>2, <1>3, <1>4, <1>5 DEF n1
<1> HIDE DEF a, b, c, d, e
<1>7. a \in Nat \ {0} /\ c = 4 * a /\ e = 4 * c
  BY <1>6
<1> QED
  BY <1>2, <1>7 DEF a, c, e, k

\* What the combinational part of fixed_sqrt.v makes of the registers.
LEMMA SqrtNext ==
  ASSUME auxRoot_r \in 0 .. 2^(N - 2) - 1, acc_r \in 0 .. 8 * auxRoot_r + 3, radCpy_r \in 0 .. 2^N - 1
  PROVE  \E bit \in {0, 1}, t \in 0 .. 3, rest \in 0 .. 2^N - 1 :
           /\ bit = 1 <=> acc_r >= 4 * auxRoot_r + 1
           /\ Sqrt!auxRoot_next_r = 2 * auxRoot_r + bit
           /\ Sqrt!radCpy_next_r = rest
           /\ Sqrt!acc_next_r = 4 * (acc_r - bit * (4 * auxRoot_r + 1)) + t
           /\ 4 * radCpy_r = t * 2^N + rest
<1> DEFINE g == 2^(N - 2)
           p == 2^N
           w1 == 2^(N + 1)
           w2 == 2^(N + 2)
           R == auxRoot_r
           check == (acc_r - (4 * R + 1)) % w2
           bit == IF acc_r >= 4 * R + 1 THEN 1 ELSE 0
           left == acc_r - bit * (4 * R + 1)
<1>1. g \in Nat \ {0} /\ p = 4 * g /\ w1 = 2 * p /\ w2 = 4 * p
  BY SqrtPowers
<1>2. R \in 0 .. g - 1 /\ acc_r \in 0 .. 8 * R + 3 /\ radCpy_r \in 0 .. p - 1
  OBVIOUS
<1>3. /\ Sqrt!acc_next_r = ((IF check < w1 THEN check ELSE acc_r) % p) * 4 + (radCpy_r \div g)
      /\ Sqrt!radCpy_next_r = (4 * radCpy_r) % p
      /\ Sqrt!auxRoot_next_r = (2 * R + IF check < w1 THEN 1 ELSE 0) % p
  BY DEF Sqrt!acc_next_r, Sqrt!radCpy_next_r, Sqrt!auxRoot_next_r, Sqrt!fits, Sqrt!checkSign_r
<1> HIDE DEF g, p, w1, w2
<1>4. R \in Nat /\ 4 * R + 4 <= p /\ p \in Nat
  BY <1>1, <1>2
<1>5. /\ acc_r >= 4 * R + 1 => check = acc_r - (4 * R + 1) /\ acc_r - (4 * R + 1) \in 0 .. p - 1
      /\ ~ (acc_r >= 4 * R + 1) => check >= 2 * p /\ acc_r \in 0 .. p - 1
  <2> HIDE DEF R
  <2> QED
    BY <1>1, <1>2, <1>4, FitsBit
<1>6. bit \in {0, 1} /\ (bit = 1 <=> acc_r >= 4 * R + 1)
  OBVIOUS
<1> HIDE DEF check, R
<1>7. (check < w1 <=> bit = 1) /\ left \in 0 .. p - 1 /\ left = IF check < w1 THEN check ELSE acc_r
  <2>1. CASE acc_r >= 4 * R + 1
    <3>1. bit = 1 /\ check \in 0 .. p - 1 /\ check = acc_r - (4 * R + 1)
      BY <1>5, <2>1
    <3>2. check < w1
      BY <1>1, <1>4, <3>1
    <3>3. left = acc_r - (4 * R + 1)
      BY <1>2, <1>4, <2>1
    <3> QED
      BY <3>1, <3>2, <3>3
  <2>2. CASE ~ (acc_r >= 4 * R + 1)
    <3>1. bit = 0 /\ acc_r \in 0 .. p - 1 /\ check >= 2 * p
      BY <1>5, <2>2
    <3>2. check \in Int /\ w1 = 2 * p
      <4>1. w2 \in Nat \ {0} /\ acc_r - (4 * R + 1) \in Int
        BY <1>1, <1>2, <1>4
      <4>2. check \in Int
        BY <4>1 DEF check
      <4> QED
        BY <1>1, <4>2
    <3>3. ~ (check < w1)
      BY <1>4, <3>1, <3>2
    <3>4. left = acc_r
      BY <1>2, <1>4, <2>2
    <3> QED
      BY <3>1, <3>3, <3>4
  <2> QED
    BY <2>1, <2>2
<1> HIDE DEF bit, left
<1>8. \A s \in 0 .. p - 1 : s % p = s
  <2> SUFFICES ASSUME NEW s \in 0 .. p - 1 PROVE s % p = s
    OBVIOUS
  <2>1. (0 * p + s) % p = s /\ 0 * p + s = s
    BY <1>4, ModUnique
  <2> QED
    BY <2>1, Zenon
<1>9. Sqrt!auxRoot_next_r = 2 * R + bit
  <2>1. 2 * R + bit \in 0 .. p - 1
    BY <1>4, <1>6
  <2>2. (2 * R + IF check < w1 THEN 1 ELSE 0) = 2 * R + bit
    BY <1>6, <1>7
  <2> QED
    BY <1>3, <1>8, <2>1, <2>2, Zenon
<1>10. PICK t \in 0 .. 3, rest \in 0 .. p - 1 :
         radCpy_r \div g = t /\ (4 * radCpy_r) % p = rest /\ 4 * radCpy_r = t * p + rest
  <2>1. radCpy_r \in 0 .. 4 * g - 1
    BY <1>1, <1>2
  <2>2. \E t \in 0 .. 3, rest \in 0 .. 4 * g - 1 :
          radCpy_r \div g = t /\ (4 * radCpy_r) % (4 * g) = rest /\ 4 * radCpy_r = t * (4 * g) + rest
    BY <1>1, <2>1, TwoBits, Zenon
  <2> QED
    BY <1>1, <2>2, Zenon
<1>11. Sqrt!acc_next_r = 4 * left + t
  <2>1. left % p = left
    BY <1>7, <1>8, Zenon
  <2>2. Sqrt!acc_next_r = left * 4 + t
    BY <1>3, <1>7, <1>10, <2>1, Zenon
  <2>3. left \in Int
    BY <1>4, <1>7
  <2> QED
    BY <2>2, <2>3
<1> QED
  BY <1>3, <1>6, <1>9, <1>10, <1>11 DEF left, R, p

\* The powers of two that a step of the square root meets.
LEMMA RootPowers ==
  ASSUME NEW i \in 0 .. Sqrt!ITER - 1
  PROVE  /\ 2^i \in Nat /\ 2^i <= 2^(N - 2) /\ 2^(i + 1) = 2 * 2^i
         /\ 2^(2 * (i + 1)) \in Nat /\ 2^(2 * (i + 2)) = 4 * 2^(2 * (i + 1))
<1> DEFINE k == N - 2
           m == k - i
           j == 2 * (i + 1)
           j1 == j + 1
<1>1. i \in Nat /\ k \in Nat /\ m \in Nat /\ i + m = k /\ j \in Nat /\ j1 \in Nat /\ j1 + 1 = 2 * (i + 2)
  <2>1. Sqrt!ITER \in Int /\ Sqrt!ITER <= N - 1 /\ N \in Nat /\ N >= 2
    BY Sizes
  <2> QED
    BY <2>1
<1> HIDE DEF k, m, j, j1
<1>2. 2^(i + m) = 2^i * 2^m /\ 2^m \in Nat /\ 2^m >= m + 1 /\ 2^i \in Nat /\ 2^(i + 1) = 2 * 2^i
  BY <1>1, PowerSum, PowerExceeds, PowerDoubles
<1>3. 2^(j + 1) = 2 * 2^j /\ 2^(j1 + 1) = 2 * 2^j1 /\ 2^j \in Nat
  BY <1>1, PowerDoubles, IntervalSets
<1> DEFINE a == 2^i
           b == 2^m
           c == 2^k
           d == 2^j
           e == 2^j1
           f == 2^(2 * (i + 2))
<1>4. a \in Nat /\ b \in Nat /\ b >= 1 /\ c = a * b /\ d \in Nat /\ e = 2 * d /\ f = 2 * e
  BY <1>1, <1>2, <1>3 DEF j1
<1> HIDE DEF a, b, c, d, e, f
<1>5. a <= c /\ f = 4 * d
  BY <1>4
<1> QED
  BY <1>2, <1>3, <1>5 DEF a, c, d, f, k, j

\* In the first cycle of valid the two highest bits of the operand move in.
LEMMA SqrtStarts ==
  ASSUME InputInv, Sqrt!SqrtStart, opA_i' = opA_i
  PROVE  PartialRoot(iterator_r)'
<1> DEFINE g == 2^(N - 2)
           p == 2^N
<1>1. g \in Nat \ {0} /\ p = 4 * g
  BY SqrtPowers
<1>2. opA_i \in 0 .. p - 1
  BY DEF InputInv
<1>3. iterator_r' = 0 /\ auxRoot_r' = 0 /\ acc_r' = opA_i \div g /\ radCpy_r' = (4 * opA_i) % p
  BY DEF Sqrt!SqrtStart
<1>4. 2^0 = 1 /\ 2^2 = 4
  OBVIOUS
<1> HIDE DEF g, p
<1>5. PICK t \in 0 .. 3, rest \in 0 .. 4 * g - 1 :
        opA_i \div g = t /\ (4 * opA_i) % (4 * g) = rest /\ 4 * opA_i = t * (4 * g) + rest
  <2>1. opA_i \in 0 .. 4 * g - 1
    BY <1>1, <1>2
  <2> QED
    BY <1>1, <2>1, TwoBits, Zenon
<1>6. acc_r' = t /\ radCpy_r' = rest
  BY <1>1, <1>3, <1>5, Zenon
<1>7. 2^iterator_r' = 1 /\ 2 * (iterator_r' + 1) = 2
  BY <1>3, <1>4
<1>8. 2^(2 * (iterator_r' + 1)) = 4
  BY <1>4, <1>7
<1>9. t \in 0 .. 8 * 0 + 3 /\ rest \in 0 .. p - 1 /\ opA_i * 4 = (t + 4 * (0 * 0)) * p + rest
  BY <1>1, <1>2, <1>5
<1>10. /\ auxRoot_r' \in 0 .. 2^iterator_r' - 1 /\ radCpy_r' \in 0 .. p - 1
       /\ acc_r' \in 0 .. 8 * auxRoot_r' + 3
       /\ opA_i' * 2^(2 * (iterator_r' + 1)) = (acc_r' + 4 * (auxRoot_r' * auxRoot_r')) * p + radCpy_r'
  <2>1. auxRoot_r' \in 0 .. 2^iterator_r' - 1
    BY <1>3, <1>7
  <2> QED
    BY <1>3, <1>6, <1>8, <1>9, <2>1
<1> QED
  BY <1>10 DEF PartialRoot, p

\* One bit more of the root.
LEMMA SqrtLoops ==
  ASSUME InputInv, iterator_r \in 0 .. Sqrt!ITER - 1, PartialRoot(iterator_r), Sqrt!SqrtLoop, opA_i' = opA_i
  PROVE  PartialRoot(iterator_r)'
<1> DEFINE i == iterator_r
           p == 2^N
           I == 2^i
           F == 2^(2 * (i + 1))
           R == auxRoot_r
           S == acc_r + 4 * (R * R)
<1>1. /\ I \in Nat /\ I <= 2^(N - 2) /\ 2^(i + 1) = 2 * I
      /\ F \in Nat /\ 2^(2 * (i + 2)) = 4 * F /\ 2^(N - 2) \in Nat /\ p \in Nat
  BY RootPowers, SqrtPowers, Sizes
<1>2. /\ R \in 0 .. I - 1 /\ radCpy_r \in 0 .. p - 1 /\ acc_r \in 0 .. 8 * R + 3
      /\ opA_i * F = S * p + radCpy_r
  BY DEF PartialRoot
<1>3. R \in 0 .. 2^(N - 2) - 1
  BY <1>1, <1>2
<1>4. PICK bit \in {0, 1}, t \in 0 .. 3, rest \in 0 .. p - 1 :
        /\ bit = 1 <=> acc_r >= 4 * R + 1
        /\ Sqrt!auxRoot_next_r = 2 * R + bit
        /\ Sqrt!radCpy_next_r = rest
        /\ Sqrt!acc_next_r = 4 * (acc_r - bit * (4 * R + 1)) + t
        /\ 4 * radCpy_r = t * p + rest
  BY <1>2, <1>3, SqrtNext
<1>5. /\ iterator_r' = i + 1 /\ radCpy_r' = rest /\ auxRoot_r' = 2 * R + bit
      /\ acc_r' = 4 * (acc_r - bit * (4 * R + 1)) + t
  BY <1>4 DEF Sqrt!SqrtLoop
<1>6. i \in Nat /\ opA_i \in Nat
  <2>1. i \in Nat
    BY Sizes
  <2>2. opA_i \in Nat
    BY <1>1 DEF InputInv
  <2> QED
    BY <2>1, <2>2
<1>7. 2^iterator_r' = 2 * I /\ 2^(2 * (iterator_r' + 1)) = 4 * F
  <2>1. iterator_r' + 1 = i + 2
    BY <1>5, <1>6
  <2> QED
    BY <1>1, <1>5, <2>1
<1> HIDE DEF i, p, I, F, R
<1>8. R \in Nat /\ auxRoot_r' \in 0 .. 2 * I - 1
  BY <1>1, <1>2, <1>5
<1>9. acc_r' \in 0 .. 8 * auxRoot_r' + 3 /\ acc_r' + 4 * (auxRoot_r' * auxRoot_r') = 4 * S + t
  BY <1>2, <1>4, <1>5, <1>8, RootBit
<1>10. S \in Int /\ radCpy_r \in Int /\ t \in Int /\ rest \in Int /\ opA_i \in Int /\ p \in Int /\ F \in Int
  BY <1>1, <1>2, <1>6, <1>8
<1> HIDE DEF S
<1>11. opA_i * (4 * F) = (4 * S + t) * p + rest
  BY <1>2, <1>4, <1>10, RadicandMoves
<1>12. /\ auxRoot_r' \in 0 .. 2^iterator_r' - 1 /\ radCpy_r' \in 0 .. p - 1
       /\ acc_r' \in 0 .. 8 * auxRoot_r' + 3
       /\ opA_i' * 2^(2 * (iterator_r' + 1)) = (acc_r' + 4 * (auxRoot_r' * auxRoot_r')) * p + radCpy_r'
  <2>1. opA_i' * 2^(2 * (iterator_r' + 1)) = opA_i * (4 * F)
    BY <1>7
  <2>2. (acc_r' + 4 * (auxRoot_r' * auxRoot_r')) * p + radCpy_r' = (4 * S + t) * p + rest
    BY <1>5, <1>9
  <2>3. auxRoot_r' \in 0 .. 2^iterator_r' - 1
    BY <1>7, <1>8
  <2> QED
    BY <1>4, <1>5, <1>9, <1>11, <2>1, <2>2, <2>3
<1> QED
  BY <1>12 DEF PartialRoot, p

\* A clock edge keeps the partial root.
LEMMA SqrtDataStep ==
  ASSUME InputInv, SqrtControl, SqrtData, valid_i => opA_i' = opA_i, Sqrt!SqrtClock
  PROVE  SqrtData'
<1>1. valid_i \in BOOLEAN /\ sqrt_compute_r \in BOOLEAN /\ sqrt_done_r \in BOOLEAN
  BY DEF InputInv, SqrtControl
<1>2. CASE ~valid_i
  <2>1. ~sqrt_compute_r'
    BY <1>2 DEF Sqrt!SqrtClock, Sqrt!SqrtStart, Sqrt!SqrtLoop, Sqrt!SqrtDone, Sqrt!SqrtHold, Sqrt!SqrtOff
  <2> QED
    BY <2>1 DEF SqrtData
<1>3. CASE valid_i
  <2>1. CASE ~sqrt_compute_r
    <3>1. Sqrt!SqrtStart
      BY <1>3, <2>1 DEF Sqrt!SqrtClock, Sqrt!SqrtLoop, Sqrt!SqrtDone, Sqrt!SqrtHold, Sqrt!SqrtOff
    <3>2. PartialRoot(iterator_r)'
      BY <1>3, <3>1, SqrtStarts
    <3>3. ~sqrt_done_r'
      BY <3>1 DEF Sqrt!SqrtStart
    <3> QED
      BY <3>2, <3>3 DEF SqrtData
  <2>2. CASE sqrt_compute_r /\ Sqrt!SqrtLoop
    <3>1. ~sqrt_done_r /\ sqrt_done_r' = sqrt_done_r
      BY <2>2 DEF Sqrt!SqrtLoop
    <3>2. iterator_r \in 0 .. Sqrt!ITER - 1
      BY <2>2, <3>1 DEF SqrtControl
    <3>3. PartialRoot(iterator_r)
      BY <2>2 DEF SqrtData
    <3>4. PartialRoot(iterator_r)'
      BY <1>3, <2>2, <3>2, <3>3, SqrtLoops
    <3> QED
      BY <3>1, <3>4 DEF SqrtData
  <2>3. CASE sqrt_compute_r /\ Sqrt!SqrtDone
    <3>1. ~sqrt_done_r /\ iterator_r >= Sqrt!ITER - 1
      BY <2>3 DEF Sqrt!SqrtDone
    <3>2. iterator_r = Sqrt!ITER - 1
      <4>1. iterator_r \in 0 .. Sqrt!ITER - 1 /\ Sqrt!ITER \in Int
        BY <2>3, <3>1, Sizes DEF SqrtControl
      <4> QED
        BY <3>1, <4>1
    <3>3. UNCHANGED <<iterator_r, auxRoot_r, acc_r, radCpy_r>> /\ opA_i' = opA_i
      BY <1>3, <2>3 DEF Sqrt!SqrtDone
    <3>4. PartialRoot(iterator_r)
      BY <2>3 DEF SqrtData
    <3>5. PartialRoot(iterator_r)'
      BY <3>3, <3>4 DEF PartialRoot
    <3>6. iterator_r' = Sqrt!ITER' - 1
      BY <3>2, <3>3 DEF Sqrt!ITER
    <3> QED
      BY <3>5, <3>6 DEF SqrtData
  <2>4. CASE sqrt_done_r
    <3>1. UNCHANGED Sqrt!sqrtRegs
      BY <1>3, <2>4 DEF SqrtControl, Sqrt!SqrtClock, Sqrt!SqrtStart, Sqrt!SqrtLoop, Sqrt!SqrtDone, Sqrt!SqrtHold, Sqrt!SqrtOff
    <3>2. sqrt_compute_r /\ UNCHANGED <<iterator_r, auxRoot_r, acc_r, radCpy_r>> /\ opA_i' = opA_i
      BY <1>3, <2>4, <3>1 DEF Sqrt!sqrtRegs, SqrtControl
    <3>3. PartialRoot(iterator_r) /\ iterator_r = Sqrt!ITER - 1
      BY <2>4, <3>2 DEF SqrtData
    <3>4. PartialRoot(iterator_r)'
      BY <3>2, <3>3 DEF PartialRoot
    <3>5. iterator_r' = Sqrt!ITER' - 1
      BY <3>2, <3>3 DEF Sqrt!ITER
    <3> QED
      BY <3>4, <3>5 DEF SqrtData
  <2>5. ~sqrt_compute_r \/ (sqrt_compute_r /\ Sqrt!SqrtLoop) \/ (sqrt_compute_r /\ Sqrt!SqrtDone) \/ sqrt_done_r
    BY <1>1, <1>3 DEF Sqrt!SqrtClock, Sqrt!SqrtStart, Sqrt!SqrtHold, Sqrt!SqrtOff
  <2> QED
    BY <2>1, <2>2, <2>3, <2>4, <2>5
<1> QED
  BY <1>1, <1>2, <1>3

\* When all bits of the operand have moved in, nothing is left below the accumulator.
LEMMA NothingLeft ==
  ASSUME NEW p \in Nat, NEW x \in Int, NEW y \in Int, NEW rad \in 0 .. p - 1, x * p = y * p + rad
  PROVE  x = y
<1>1. (x - y) * p = rad
  OBVIOUS
<1> DEFINE z == x - y
<1>2. z \in Int /\ z * p = rad
  BY <1>1
<1> HIDE DEF z
<1>3. ~ (z >= 1)
  BY <1>2
<1>4. ~ (z <= -1)
  BY <1>2
<1>5. z = 0
  BY <1>2, <1>3, <1>4
<1> QED
  BY <1>5 DEF z

\* The root that is ready is right (fixed_sqrt.v:56-99).
LEMMA SqrtResult ==
  ASSUME InputInv, SqrtControl, SqrtData
  PROVE  RootRight
<1> SUFFICES ASSUME sqrt_done_r
             PROVE  /\ Sqrt!sqrt_result_o * Sqrt!sqrt_result_o <= opA_i * 2^Q
                    /\ (Sqrt!sqrt_result_o + 1) * (Sqrt!sqrt_result_o + 1) > opA_i * 2^Q
  BY DEF RootRight
<1> DEFINE i == iterator_r
           p == 2^N
           s == 2^Q
           I == 2^i
           F == 2^(2 * (i + 1))
           R == auxRoot_r
           S == acc_r + 4 * (R * R)
<1>1. PartialRoot(iterator_r) /\ i = Sqrt!ITER - 1
  BY DEF SqrtData, SqrtControl
<1>2. i \in 0 .. Sqrt!ITER - 1 /\ 2 * (i + 1) = N + Q /\ N \in Nat /\ Q \in Nat /\ p \in Nat
  <2>1. Sqrt!ITER \in Nat /\ Sqrt!ITER >= 1 /\ 2 * Sqrt!ITER = N + Q /\ N \in Nat /\ Q \in Nat /\ p \in Nat
    BY Sizes
  <2> HIDE DEF p
  <2> QED
    BY <1>1, <2>1
<1>3. I \in Nat /\ I <= 2^(N - 2) /\ 2^(N - 2) \in Nat
  BY <1>2, RootPowers, SqrtPowers
<1>4. F = p * s /\ s \in Nat
  BY <1>2, PowerSum, IntervalSets
<1>5. /\ R \in 0 .. I - 1 /\ radCpy_r \in 0 .. p - 1 /\ acc_r \in 0 .. 8 * R + 3
      /\ opA_i * F = S * p + radCpy_r
  BY <1>1 DEF PartialRoot
<1>6. R \in 0 .. 2^(N - 2) - 1
  BY <1>3, <1>5
<1>7. PICK bit \in {0, 1} : /\ bit = 1 <=> acc_r >= 4 * R + 1
                            /\ Sqrt!sqrt_result_o = 2 * R + bit
  BY <1>5, <1>6, SqrtNext DEF Sqrt!sqrt_result_o
<1>8. opA_i \in Nat
  BY <1>2 DEF InputInv
<1> HIDE DEF i, p, s, I, F, R
<1>9. R \in Nat /\ S \in Int
  BY <1>3, <1>5
<1>10. opA_i * s = S
  <2> HIDE DEF S
  <2>1. (opA_i * s) * p = S * p + radCpy_r /\ opA_i * s \in Int
    BY <1>2, <1>4, <1>5, <1>8, <1>9
  <2> QED
    BY <1>2, <1>5, <1>9, <2>1, NothingLeft
<1>11. (2 * R + bit) * (2 * R + bit) <= S /\ (2 * R + bit + 1) * (2 * R + bit + 1) > S
  <2>1. CASE bit = 1
    BY <1>5, <1>7, <1>9, <2>1
  <2>2. CASE bit = 0
    BY <1>5, <1>7, <1>9, <2>2
  <2> QED
    BY <2>1, <2>2
<1> QED
  BY <1>7, <1>10, <1>11 DEF s

-----------------------------------------------------------------------------
\* What the registers hold, and the control state that says when.
DataInv == DivData /\ MulData /\ SqrtData /\ SubData
UnitsInv == ControlInv /\ DataInv

\* The reset state has the invariant.
LEMMA UnitsInit ==
  Init => UnitsInv
BY ControlInit DEF Init, UnitsInv, DataInv, DivData, MulData, SqrtData, SubData,
   Div!DivInit, Mul!MulInit, Sqrt!SqrtInit, Sub!SubInit

\* Every clock edge keeps it.
LEMMA UnitsStep ==
  ASSUME MinGap >= 2, UnitsInv, Next
  PROVE  UnitsInv'
<1>1. /\ InputInv /\ DivControl /\ MulControl /\ SqrtControl
      /\ DivData /\ MulData /\ SqrtData /\ SubData
      /\ Rise \/ StayLow \/ StayHigh \/ Fall
      /\ Div!DivClock /\ Mul!MulClock /\ Sqrt!SqrtClock /\ Sub!SubClock
  BY DEF UnitsInv, ControlInv, DataInv, Next
<1>2. ControlInv'
  BY ControlStep DEF UnitsInv
<1>3. valid_i => opA_i' = opA_i /\ opB_i' = opB_i
  BY <1>1, InputStep
<1>4. DivData'
  BY <1>1, <1>3, DivDataStep
<1>5. MulData'
  BY <1>1, <1>3, MulDataStep
<1>6. SqrtData'
  BY <1>1, <1>3, SqrtDataStep
<1>7. SubData'
  BY <1>1, <1>3, SubDataStep
<1> QED
  BY <1>2, <1>4, <1>5, <1>6, <1>7 DEF UnitsInv, DataInv

\* So does a step that changes nothing.
LEMMA UnitsStutter ==
  ASSUME UnitsInv, UNCHANGED fuvars
  PROVE  UnitsInv'
<1>1. ControlInv'
  BY ControlStutter DEF UnitsInv
<1>2. DivData'
  BY DEF UnitsInv, DataInv, DivData, PartialQuotient, Dividend, A, B, signs, fuvars, inputs, Div!divRegs
<1>3. MulData'
  BY DEF UnitsInv, DataInv, MulData, PartialProduct, A, B, fuvars, inputs, Mul!mulRegs
<1>4. SqrtData'
  BY DEF UnitsInv, DataInv, SqrtData, PartialRoot, fuvars, inputs, Sqrt!sqrtRegs, Sqrt!ITER
<1>5. SubData'
  BY DEF UnitsInv, DataInv, SubData, fuvars, inputs, Sub!subRegs
<1> QED
  BY <1>1, <1>2, <1>3, <1>4, <1>5 DEF UnitsInv, DataInv

\* Safety: at every clock edge the registers of the units hold what their results need, however
\* the result before was broken off (fixed_div.v:54-106, new_fixed_mul.v:46-109,
\* fixed_sqrt.v:52-104, fixed_sub.v:40-59).
THEOREM UnitsCorrect ==
  ASSUME MinGap >= 2
  PROVE  Spec => []UnitsInv
<1>1. UnitsInv /\ [Next]_fuvars => UnitsInv'
  BY UnitsStep, UnitsStutter
<1> QED
  BY <1>1, UnitsInit, PTL DEF Spec

\* Safety: whenever a unit reports a result it is the right one, for operands of every even width:
\* ResultsRight (fixed_div.v:54-106, new_fixed_mul.v:46-109, fixed_sqrt.v:52-104,
\* fixed_sub.v:40-59).
THEOREM UnitsResults ==
  ASSUME MinGap >= 2
  PROVE  Spec => []ResultsRight
<1>1. UnitsInv => ResultsRight
  BY DivResult, MulResult, SqrtResult, SubResult DEF UnitsInv, ControlInv, DataInv, ResultsRight
<1> QED
  BY <1>1, UnitsCorrect, PTL
=============================================================================
