------------------------ MODULE AxiRegisters_proofs ------------------------
(***************************************************************************)
(* Proofs that the flags, the potentiometer commands and the gain ramps of *)
(* AxiRegisters are right for every width of the gain, every gain that the *)
(* configuration leaves and every number that the user enters for it: the  *)
(* interface checks none.  A number beyond the width makes the ramps wrap, *)
(* and GainRamps says so.                                                  *)
(*                                                                         *)
(* 1. Locking: a thread has the lock exactly while what is left of its     *)
(*    call is inside a locked part, and every operation on what is shared  *)
(*    is inside one.                                                       *)
(* 2. CopyInv: the copy of the control register is the sum of the flags    *)
(*    that the threads have set and of the flag of the command under way;  *)
(*    the register differs from it by the flag that the holder of the lock *)
(*    has added or subtracted but not yet written.                         *)
(* 3. PotInv: the next potentiometer command of a call comes after a look  *)
(*    at the ready bit; nobody else sends one in between.                  *)
(* 4. GainInv: the commands still to come for the ASIC are such that each  *)
(*    finds it in a state where it is a permitted step, and the last leave *)
(*    it with the gain and the enable flag of the menu.                    *)
(***************************************************************************)
EXTENDS AxiRegisters, TLAPS

\* Of operations, of the enable bits and of commands.
Kinds == {"lock", "unlock", "asic", "pot", "flag", "plain", "await", "check"}

Bits == SUBSET {"EV", "EH"}

Operations ==
  {Op(k, "", 0) : k \in {"lock", "unlock", "pot", "plain", "await", "check"}}
    \cup {Flip(f) : f \in {TIMING_CORE_EN, -TIMING_CORE_EN, TDC_EN, -TDC_EN}}
    \cup {Read, Other} \cup {ASIC_SendCommand("0B", g) : g \in 0 .. GainMod - 1} \cup {Enables(b) : b \in Bits}

\* Operation k of a call is a command for the register.
Uses(q, k, addr) == q[k].kind = "asic" /\ q[k].addr = addr

\* The kinds that use the shared copy; the operations that touch no flag of it.
Shared == {"asic", "pot", "flag"}

Still == {op \in Operations : op.kind \in {"asic", "plain"}}

\* Type invariant: a thread inside an operation has accesses of it left.
TypeInv ==
  /\ todo \in [Threads -> Seq(Operations)]
  /\ at \in [Threads -> 0 .. 7]
  /\ \A t \in Threads : at[t] > 0 => todo[t] # <<>> /\ at[t] < Len(Accesses(Head(todo[t])))
  /\ owner \in Threads \cup {"none"}
  /\ loaded \in [Threads -> Int] /\ axiReg2_data \in Int
  /\ DOMAIN arm = {"data", "addr", "ctrl"} /\ arm.ctrl \in Int
  /\ pot_spi_ready \in BOOLEAN /\ enL \in BOOLEAN /\ enV \in BOOLEAN
  /\ lastVgain \in Int

\* What is left of a call, from i on, is inside the lock: an unlock comes before a lock.
InLock(q, i) == \E k \in i .. Len(q) : /\ q[k].kind = "unlock"
                                       /\ \A j \in i .. k - 1 : q[j].kind # "lock"

\* Locks and unlocks alternate, and what is shared is used between them.
WellLocked(q) ==
  \A i \in 1 .. Len(q) :
    /\ q[i].kind = "lock" => InLock(q, i + 1)
    /\ q[i].kind = "unlock" => ~InLock(q, i + 1)
    /\ q[i].kind \in Shared => InLock(q, i)

\* The thread with the lock is the one inside a locked part; a call that looks at the ready
\* bit first is the potentiometer call; nobody calls during the configuration.
LockInv == /\ \A t \in Threads : WellLocked(todo[t]) /\ (InLock(todo[t], 1) <=> owner = t)
           /\ \A t \in Threads : \A i \in 1 .. Len(todo[t]) :
                todo[t][i].kind = "check" => todo[t] = POT_ChangeHorizontalGain
           /\ todo["config"] # <<>> => \A t \in Threads \ {"config"} : todo[t] = <<>>

Locking == TypeInv /\ LockInv

\* Of a call before its first access: it is well locked and begins outside the lock, it has
\* no flag and no potentiometer command, at most one flag change, each look at the ready
\* bit in its place.
Sound(q) == q \in Seq(Operations) /\ WellLocked(q) /\ ~InLock(q, 1)

Quiet(q) == \A i \in 1 .. Len(q) : q[i].kind \in {"lock", "unlock", "asic", "plain"}

OneFlag(q, f) == \A i \in 1 .. Len(q) : q[i].kind = "flag" =>
                    /\ q[i].data = f
                    /\ \A j \in 1 .. Len(q) : q[j].kind = "flag" => j = i

ChecksOf(q) == \A i \in 1 .. Len(q) : q[i].kind = "check" => q = POT_ChangeHorizontalGain

NoFlag(q) == \A i \in 1 .. Len(q) : q[i].kind # "flag"

Guarded(q) == \A i \in 1 .. Len(q) : q[i].kind = "pot" =>
                \E j \in 1 .. i - 1 : /\ q[j].kind \in {"await", "check"}
                                      /\ \A k \in j + 1 .. i - 1 : q[k].kind # "pot"

\* The flag change that a thread has asked for last, by its own state.
FlagOf(t) == IF t = "dma" THEN IF dma_state = "running" THEN TDC_EN ELSE -TDC_EN
             ELSE IF enL THEN TIMING_CORE_EN ELSE -TIMING_CORE_EN

FlagInv == /\ \A t \in Threads : OneFlag(todo[t], FlagOf(t))
           /\ NoFlag(todo["math"])

\* The change has yet to be stored in the copy; the flags in the copy.
Pending(t) == \E i \in 1 .. Len(todo[t]) : todo[t][i].kind = "flag" /\ (i = 1 => at[t] < 2)
Lasing == enL <=> ~(Pending("config") \/ Pending("interface"))
Timing == dma_state = "running" <=> ~Pending("dma")

\* The weight of a flag; a thread inside an operation of the kind.
Num(b, w) == IF b THEN w ELSE 0
Mid(t, kind, S) == todo[t] # <<>> /\ Head(todo[t]).kind = kind /\ at[t] \in S

\* The thread is about to read the copy, to store it or to write it to the register.
Loading(t) == Mid(t, "asic", {2, 5}) \/ Mid(t, "pot", {1, 4}) \/ Mid(t, "flag", {0})
Storing(t) == Mid(t, "asic", {3, 6}) \/ Mid(t, "pot", {2, 5}) \/ Mid(t, "flag", {1})
Putting(t) == Mid(t, "asic", {4, 7}) \/ Mid(t, "pot", {3, 6}) \/ Mid(t, "flag", {2})
\* What it is about to add, the command bit that it has set in the copy, and what the
\* register lacks.
Change(t) == IF Mid(t, "asic", {3}) THEN 1 ELSE IF Mid(t, "asic", {6}) THEN -1
             ELSE IF Mid(t, "pot", {2}) THEN 2 ELSE IF Mid(t, "pot", {5}) THEN -2
             ELSE Head(todo[t]).data

Extra(t) == IF Mid(t, "asic", 4 .. 6) THEN ASIC_NEW_DATA
            ELSE IF Mid(t, "pot", 3 .. 5) THEN POT_NEW_DATA ELSE 0
Lag(t) == IF Mid(t, "asic", {4}) THEN ASIC_NEW_DATA
          ELSE IF Mid(t, "asic", {7}) THEN -ASIC_NEW_DATA
          ELSE IF Mid(t, "pot", {3}) THEN POT_NEW_DATA
          ELSE IF Mid(t, "pot", {6}) THEN -POT_NEW_DATA
          ELSE IF Mid(t, "flag", {2}) THEN Head(todo[t]).data ELSE 0

\* The copy is the sum of the flags, and the register is behind by one change at most.
CopyInv ==
  /\ axiReg2_data = Num(Lasing, TIMING_CORE_EN) + Num(Timing, TDC_EN)
                      + IF owner = "none" THEN 0 ELSE Extra(owner)
  /\ axiReg2_data = arm.ctrl + IF owner = "none" THEN 0 ELSE Lag(owner)
  /\ \A t \in Threads :
       /\ Storing(t) => loaded[t] = axiReg2_data
       /\ Mid(t, "asic", 1 .. 7) => arm.data = Head(todo[t]).data
       /\ Mid(t, "asic", 2 .. 7) => arm.addr = Head(todo[t]).addr

\* Each command for the potentiometer comes after a look at its ready bit, or it is the
\* next one and the bit has been seen set.
PotsGuarded(q, a, ready) ==
  \A i \in 1 .. Len(q) : q[i].kind = "pot" =>
    \/ \E j \in 1 .. i - 1 : /\ q[j].kind \in {"await", "check"}
                             /\ \A k \in j + 1 .. i - 1 : q[k].kind # "pot"
    \/ /\ \A j \in 1 .. i - 1 : q[j].kind # "pot"
       /\ ready \/ (i = 1 /\ a >= 4)

NoPot(q) == \A i \in 1 .. Len(q) : q[i].kind # "pot"

PotInv ==
  /\ NoPot(todo["dma"]) /\ NoPot(todo["math"])
  /\ \A t \in Threads : PotsGuarded(todo[t], at[t], pot_spi_ready)

\* The value that an operation of a sequence finds in a register of the ASIC: that of the
\* last command before it, or what is in the register now.
Before(q, i, addr, now, v) ==
  \/ now = v /\ \A k \in 1 .. i - 1 : ~Uses(q, k, addr)
  \/ \E k \in 1 .. i - 1 : /\ Uses(q, k, addr) /\ q[k].data = v
                           /\ \A m \in k + 1 .. i - 1 : ~Uses(q, m, addr)
GainBefore(q, i, a, g) == Before(q, i, "0B", a.gain, g)
EnablesBefore(q, i, a, b) == Before(q, i, "0D", a.enables, b)

\* Each command for the gain is a step of a ramp, or comes with the drive off; each for the
\* enable bits leaves the drive as it is, or comes at gain 0; the last leave gain and on.
StepsSmall(q, a, opt, gain) ==
  \A i \in 1 .. Len(q) : Uses(q, i, "0B") /\ opt # 2 =>
    \/ \E b \in Bits : "EV" \notin b /\ EnablesBefore(q, i, a, b)
    \/ \E g \in 0 .. GainMod - 1 : GainBefore(q, i, a, g) /\ Near(g, q[i].data, gain)
SwitchedAtZero(q, a) ==
  \A i \in 1 .. Len(q) : Uses(q, i, "0D") =>
    \/ \E b \in Bits : ("EV" \in b <=> "EV" \in q[i].data) /\ EnablesBefore(q, i, a, b)
    \/ GainBefore(q, i, a, 0)
Ends(q, a, gain, on) ==
  /\ GainBefore(q, Len(q) + 1, a, gain % GainMod)
  /\ \E b \in Bits : ("EV" \in b <=> on) /\ EnablesBefore(q, Len(q) + 1, a, b)
Ramps(q, a, opt, gain, on) == /\ StepsSmall(q, a, opt, gain) /\ SwitchedAtZero(q, a)
                              /\ Ends(q, a, gain, on)

\* The operations that the ASIC has not taken yet.
Left(t) == IF at[t] >= 5 THEN Tail(todo[t]) ELSE todo[t]
Script == IF todo["config"] # <<>> THEN Left("config") ELSE Left("interface")

\* A call that sends the ASIC nothing.
NoAsic(q) == \A i \in 1 .. Len(q) : q[i].kind # "asic"

\* What the ASIC holds has its types; what is to come ramps it, and only from one thread.
AsicInv == asic \in [gain : 0 .. GainMod - 1, enables : Bits]
GainInv == /\ Ramps(Script, asic, option, Char(lastVgain), enV)
           /\ NoAsic(todo["dma"]) /\ NoAsic(todo["math"])
-----------------------------------------------------------------------------
\* The kinds of the operations, and the addresses and data of those that have them.
LEMMA OperationFacts ==
  ASSUME NEW op \in Operations
  PROVE  /\ op.kind \in Kinds
         /\ op.kind = "flag" => op.data \in {4, -4, 32, -32}
         /\ op.kind = "asic" => op.addr \in {"read", "other", "0B", "0D"}
         /\ op.kind = "asic" /\ op.addr = "0B" => op.data \in 0 .. GainMod - 1
         /\ op.kind = "asic" /\ op.addr = "0D" => op.data \in Bits
<1>1. CASE op \in {Op(k, "", 0) : k \in {"lock", "unlock", "pot", "plain", "await", "check"}}
  <2>1. PICK k \in {"lock", "unlock", "pot", "plain", "await", "check"} : op = Op(k, "", 0)
    BY <1>1
  <2>2. op.kind = k
    BY <2>1 DEF Op
  <2> QED
    BY <2>2 DEF Kinds
<1>2. CASE op \in {Flip(f) : f \in {TIMING_CORE_EN, -TIMING_CORE_EN, TDC_EN, -TDC_EN}}
  <2>1. PICK f \in {4, -4, 32, -32} : op = Flip(f)
    BY <1>2 DEF TIMING_CORE_EN, TDC_EN
  <2>2. op.kind = "flag" /\ op.data = f
    BY <2>1 DEF Op, Flip
  <2> QED
    BY <2>2 DEF Kinds
<1>3. CASE op \in {Read, Other}
  <2>1. op.kind = "asic" /\ op.addr \in {"read", "other"}
    BY <1>3 DEF Read, Other, ASIC_SendCommand, Op
  <2> QED
    BY <2>1 DEF Kinds
<1>4. CASE op \in {ASIC_SendCommand("0B", g) : g \in 0 .. GainMod - 1}
  <2>1. PICK g \in 0 .. GainMod - 1 : op = ASIC_SendCommand("0B", g)
    BY <1>4
  <2>2. op.kind = "asic" /\ op.addr = "0B" /\ op.data = g
    BY <2>1 DEF ASIC_SendCommand, Op
  <2> QED
    BY <2>2 DEF Kinds
<1>5. CASE op \in {Enables(b) : b \in Bits}
  <2>1. PICK b \in Bits : op = Enables(b)
    BY <1>5
  <2>2. op.kind = "asic" /\ op.addr = "0D" /\ op.data = b
    BY <2>1 DEF Enables, ASIC_SendCommand, Op
  <2> QED
    BY <2>2 DEF Kinds
<1> QED
  BY <1>1, <1>2, <1>3, <1>4, <1>5 DEF Operations

\* The accesses of an operation, one by one.
LEMMA AccessesOf ==
  ASSUME NEW op
  PROVE  /\ op.kind = "asic" =>
              /\ Len(Accesses(op)) = 8
              /\ Accesses(op)[1] = Do("write", "data", op.data)
              /\ Accesses(op)[2] = Do("write", "addr", op.addr)
              /\ Accesses(op)[3] = Take
              /\ Accesses(op)[4] = Add(1)
              /\ Accesses(op)[5] = Put
              /\ Accesses(op)[6] = Take
              /\ Accesses(op)[7] = Add(-1)
              /\ Accesses(op)[8] = Put
         /\ op.kind = "pot" =>
              /\ Len(Accesses(op)) = 7
              /\ Accesses(op)[1] = Do("plain", "", 0)
              /\ Accesses(op)[2] = Take
              /\ Accesses(op)[3] = Add(2)
              /\ Accesses(op)[4] = Put
              /\ Accesses(op)[5] = Take
              /\ Accesses(op)[6] = Add(-2)
              /\ Accesses(op)[7] = Put
         /\ op.kind = "flag" =>
              /\ Len(Accesses(op)) = 3
              /\ Accesses(op)[1] = Take
              /\ Accesses(op)[2] = Add(op.data)
              /\ Accesses(op)[3] = Put
         /\ op.kind \notin Shared =>
              /\ Len(Accesses(op)) = 1
              /\ Accesses(op)[1] = Do(op.kind, "", 0)
<1>1. ASSUME op.kind = "asic"
      PROVE  /\ Len(Accesses(op)) = 8
             /\ Accesses(op)[1] = Do("write", "data", op.data)
             /\ Accesses(op)[2] = Do("write", "addr", op.addr)
             /\ Accesses(op)[3] = Take
             /\ Accesses(op)[4] = Add(1)
             /\ Accesses(op)[5] = Put
             /\ Accesses(op)[6] = Take
             /\ Accesses(op)[7] = Add(-1)
             /\ Accesses(op)[8] = Put
  <2>1. Accesses(op) = <<Do("write", "data", op.data), Do("write", "addr", op.addr), Take, Add(1), Put, Take, Add(-1), Put>>
    BY <1>1 DEF Accesses, ASIC_NEW_DATA
  <2> QED
    BY <2>1
<1>2. ASSUME op.kind = "pot"
      PROVE  /\ Len(Accesses(op)) = 7
             /\ Accesses(op)[1] = Do("plain", "", 0)
             /\ Accesses(op)[2] = Take
             /\ Accesses(op)[3] = Add(2)
             /\ Accesses(op)[4] = Put
             /\ Accesses(op)[5] = Take
             /\ Accesses(op)[6] = Add(-2)
             /\ Accesses(op)[7] = Put
  <2> DEFINE s == Accesses(op)
             p == Do("plain", "", 0)
  <2>1. s = <<p, Take, Add(2), Put, Take, Add(-2), Put>>
    BY <1>2 DEF Accesses, POT_NEW_DATA
  <2> HIDE DEF s, p
  <2>2. /\ Len(s) = 7
        /\ s[1] = p /\ s[2] = Take /\ s[3] = Add(2) /\ s[4] = Put
        /\ s[5] = Take /\ s[6] = Add(-2) /\ s[7] = Put
    BY <2>1
  <2> QED
    BY <2>2 DEF s, p
<1>3. ASSUME op.kind = "flag"
      PROVE  /\ Len(Accesses(op)) = 3
             /\ Accesses(op)[1] = Take
             /\ Accesses(op)[2] = Add(op.data)
             /\ Accesses(op)[3] = Put
  <2>1. Accesses(op) = <<Take, Add(op.data), Put>>
    BY <1>3 DEF Accesses
  <2> QED
    BY <2>1
<1>4. ASSUME op.kind \notin Shared
      PROVE  /\ Len(Accesses(op)) = 1
             /\ Accesses(op)[1] = Do(op.kind, "", 0)
  <2> DEFINE s == Accesses(op)
             p == Do(op.kind, "", 0)
  <2>1. s = <<p>>
    BY <1>4 DEF Accesses, Shared
  <2> HIDE DEF s, p
  <2>2. Len(s) = 1 /\ s[1] = p
    BY <2>1
  <2> QED
    BY <2>2 DEF s, p
<1> QED
  BY <1>1, <1>2, <1>3, <1>4

\* What the next access of a thread is.
LEMMA NextAccesses ==
  ASSUME NEW t, NEW op, op = Head(todo[t]), at[t] \in 0 .. 7
  PROVE  /\ op.kind = "asic" =>
              /\ Len(Accesses(op)) = 8
              /\ at[t] = 0 => NextAccess(t) = Do("write", "data", op.data)
              /\ at[t] = 1 => NextAccess(t) = Do("write", "addr", op.addr)
              /\ at[t] \in {2, 5} => NextAccess(t) = Take
              /\ at[t] = 3 => NextAccess(t) = Add(1)
              /\ at[t] = 6 => NextAccess(t) = Add(-1)
              /\ at[t] \in {4, 7} => NextAccess(t) = Put
         /\ op.kind = "pot" =>
              /\ Len(Accesses(op)) = 7
              /\ at[t] = 0 => NextAccess(t) = Do("plain", "", 0)
              /\ at[t] \in {1, 4} => NextAccess(t) = Take
              /\ at[t] = 2 => NextAccess(t) = Add(2)
              /\ at[t] = 5 => NextAccess(t) = Add(-2)
              /\ at[t] \in {3, 6} => NextAccess(t) = Put
         /\ op.kind = "flag" =>
              /\ Len(Accesses(op)) = 3
              /\ at[t] = 0 => NextAccess(t) = Take
              /\ at[t] = 1 => NextAccess(t) = Add(op.data)
              /\ at[t] = 2 => NextAccess(t) = Put
         /\ op.kind \notin Shared =>
              /\ Len(Accesses(op)) = 1
              /\ at[t] = 0 => NextAccess(t) = Do(op.kind, "", 0)
<1>1. /\ at[t] = 0 => NextAccess(t) = Accesses(op)[1]
      /\ at[t] = 1 => NextAccess(t) = Accesses(op)[2]
      /\ at[t] = 2 => NextAccess(t) = Accesses(op)[3]
      /\ at[t] = 3 => NextAccess(t) = Accesses(op)[4]
      /\ at[t] = 4 => NextAccess(t) = Accesses(op)[5]
      /\ at[t] = 5 => NextAccess(t) = Accesses(op)[6]
      /\ at[t] = 6 => NextAccess(t) = Accesses(op)[7]
      /\ at[t] = 7 => NextAccess(t) = Accesses(op)[8]
  BY DEF NextAccess
<1>2. op.kind \in Shared => op.kind \in {"asic", "pot", "flag"}
  BY DEF Shared
<1> QED
  BY <1>1, <1>2, AccessesOf

\* The fields of an access, of the writes of a command and of the accesses of a flag.
LEMMA DoFields == \A what : Do(what, "", 0).what = what
BY DEF Do

\* The fields of a write to the registers of a command.
LEMMA WriteFields ==
  \A reg, val : LET d == Do("write", reg, val)
                IN  d.what = "write" /\ d.reg = reg /\ d.val = val
BY DEF Do

\* The fields of the accesses that change a flag.
LEMMA StoreFields ==
  /\ Take.what = "load" /\ Put.what = "out"
  /\ \A flag : Add(flag).what = "store" /\ Add(flag).val = flag
BY DEF Do, Take, Put, Add

\* The first operation of a call and the rest of it.
LEMMA HeadFacts ==
  ASSUME TypeInv, NEW t \in Threads, todo[t] # <<>>
  PROVE  /\ Head(todo[t]) \in Operations /\ Head(todo[t]) = todo[t][1]
         /\ Len(todo[t]) \in Nat \ {0} /\ Tail(todo[t]) \in Seq(Operations)
         /\ Len(Tail(todo[t])) = Len(todo[t]) - 1
         /\ \A i \in 1 .. Len(todo[t]) - 1 : Tail(todo[t])[i] = todo[t][i + 1]
<1>1. todo[t] \in Seq(Operations)
  BY DEF TypeInv
<1> QED
  BY <1>1

\* The next access is one that the kind of the operation and the count allow.
LEMMA WhatNext ==
  ASSUME TypeInv, NEW t \in Threads, todo[t] # <<>>,
         NEW op, op = Head(todo[t])
  PROVE  /\ op.kind \in Kinds
         /\ op.kind \notin Shared => at[t] = 0 /\ NextAccess(t).what = op.kind
         /\ Loading(t) => NextAccess(t).what = "load"
         /\ Storing(t) => /\ NextAccess(t).what = "store"
                          /\ NextAccess(t).val = Change(t)
         /\ Putting(t) => NextAccess(t).what = "out"
         /\ Mid(t, "asic", {0}) => /\ NextAccess(t).what = "write"
                                   /\ NextAccess(t).reg = "data"
                                   /\ NextAccess(t).val = op.data
         /\ Mid(t, "asic", {1}) => /\ NextAccess(t).what = "write"
                                   /\ NextAccess(t).reg = "addr"
                                   /\ NextAccess(t).val = op.addr
         /\ Mid(t, "pot", {0}) => NextAccess(t).what = "plain"
         /\ op.kind \in Shared => \/ Loading(t) \/ Storing(t) \/ Putting(t)
                                  \/ Mid(t, "asic", {0, 1}) \/ Mid(t, "pot", {0})
<1>1. op \in Operations /\ op.kind \in Kinds
  BY HeadFacts, OperationFacts
<1>2. at[t] \in 0 .. 7 /\ (at[t] > 0 => at[t] < Len(Accesses(op)))
  BY DEF TypeInv
<1>3. CASE op.kind = "asic"
  <2>1. at[t] \in {0, 1, 2, 3, 4, 5, 6, 7}
    BY <1>2
  <2>2. /\ at[t] = 0 => NextAccess(t) = Do("write", "data", op.data)
        /\ at[t] = 1 => NextAccess(t) = Do("write", "addr", op.addr)
        /\ at[t] \in {2, 5} => NextAccess(t) = Take
        /\ at[t] = 3 => NextAccess(t) = Add(1)
        /\ at[t] = 6 => NextAccess(t) = Add(-1)
        /\ at[t] \in {4, 7} => NextAccess(t) = Put
    BY <1>2, <1>3, NextAccesses
  <2>3. /\ at[t] \in {2, 5} => NextAccess(t).what = "load"
        /\ at[t] = 3 => NextAccess(t).what = "store" /\ NextAccess(t).val = 1
        /\ at[t] = 6 => NextAccess(t).what = "store" /\ NextAccess(t).val = -1
        /\ at[t] \in {4, 7} => NextAccess(t).what = "out"
    BY <2>2, StoreFields
  <2>4. \A S : ~Mid(t, "pot", S) /\ ~Mid(t, "flag", S) /\ (Mid(t, "asic", S) <=> at[t] \in S)
    BY <1>3 DEF Mid
  <2>5. Change(t) = IF at[t] = 3 THEN 1 ELSE IF at[t] = 6 THEN -1 ELSE op.data
    BY <2>4 DEF Change
  <2>6. /\ Loading(t) <=> at[t] \in {2, 5}
        /\ Storing(t) <=> at[t] \in {3, 6}
        /\ Putting(t) <=> at[t] \in {4, 7}
    BY <2>4 DEF Loading, Storing, Putting
  <2>7. /\ at[t] \in {0, 1} => NextAccess(t).what = "write"
        /\ at[t] = 0 => NextAccess(t).reg = "data" /\ NextAccess(t).val = op.data
        /\ at[t] = 1 => NextAccess(t).reg = "addr" /\ NextAccess(t).val = op.addr
    BY <2>2, WriteFields
  <2> QED
    BY <1>1, <1>3, <2>1, <2>3, <2>4, <2>5, <2>6, <2>7 DEF Shared
<1>4. CASE op.kind = "pot"
  <2>1. at[t] \in {0, 1, 2, 3, 4, 5, 6}
    <3>1. Len(Accesses(op)) = 7
      BY <1>4, AccessesOf
    <3>2. at[t] > 0 => at[t] < 7
      BY <1>2, <3>1
    <3> QED
      BY <1>2, <3>2
  <2>2. /\ at[t] = 0 => NextAccess(t) = Do("plain", "", 0)
        /\ at[t] \in {1, 4} => NextAccess(t) = Take
        /\ at[t] = 2 => NextAccess(t) = Add(2)
        /\ at[t] = 5 => NextAccess(t) = Add(-2)
        /\ at[t] \in {3, 6} => NextAccess(t) = Put
    BY <1>2, <1>4, NextAccesses
  <2>7. at[t] = 0 => NextAccess(t).what = "plain"
    BY <2>2, DoFields
  <2>3. /\ at[t] \in {1, 4} => NextAccess(t).what = "load"
        /\ at[t] = 2 => NextAccess(t).what = "store" /\ NextAccess(t).val = 2
        /\ at[t] = 5 => NextAccess(t).what = "store" /\ NextAccess(t).val = -2
        /\ at[t] \in {3, 6} => NextAccess(t).what = "out"
    BY <2>2, StoreFields
  <2>4. \A S : ~Mid(t, "asic", S) /\ ~Mid(t, "flag", S) /\ (Mid(t, "pot", S) <=> at[t] \in S)
    BY <1>4 DEF Mid
  <2>5. Change(t) = IF at[t] = 2 THEN 2 ELSE IF at[t] = 5 THEN -2 ELSE op.data
    BY <2>4 DEF Change
  <2>6. /\ Loading(t) <=> at[t] \in {1, 4}
        /\ Storing(t) <=> at[t] \in {2, 5}
        /\ Putting(t) <=> at[t] \in {3, 6}
    BY <2>4 DEF Loading, Storing, Putting
  <2> QED
    BY <1>1, <1>4, <2>1, <2>3, <2>4, <2>5, <2>6, <2>7 DEF Shared
<1>5. CASE op.kind = "flag"
  <2>1. at[t] \in {0, 1, 2}
    <3>1. Len(Accesses(op)) = 3
      BY <1>5, AccessesOf
    <3>2. at[t] > 0 => at[t] < 3
      BY <1>2, <3>1
    <3> QED
      BY <1>2, <3>2
  <2>2. /\ at[t] = 0 => NextAccess(t) = Take
        /\ at[t] = 1 => NextAccess(t) = Add(op.data)
        /\ at[t] = 2 => NextAccess(t) = Put
    BY <1>2, <1>5, NextAccesses
  <2>3. /\ at[t] = 0 => NextAccess(t).what = "load"
        /\ at[t] = 1 => NextAccess(t).what = "store" /\ NextAccess(t).val = op.data
        /\ at[t] = 2 => NextAccess(t).what = "out"
    BY <2>2, StoreFields
  <2>4. \A S : ~Mid(t, "asic", S) /\ ~Mid(t, "pot", S) /\ (Mid(t, "flag", S) <=> at[t] \in S)
    BY <1>5 DEF Mid
  <2>5. Change(t) = op.data
    BY <2>4 DEF Change
  <2>6. /\ Loading(t) <=> at[t] \in {0}
        /\ Storing(t) <=> at[t] \in {1}
        /\ Putting(t) <=> at[t] \in {2}
    BY <2>4 DEF Loading, Storing, Putting
  <2> QED
    BY <1>1, <1>5, <2>1, <2>3, <2>4, <2>5, <2>6 DEF Shared
<1>6. CASE op.kind \notin Shared
  <2>1. at[t] = 0
    <3>1. Len(Accesses(op)) = 1
      BY <1>6, AccessesOf
    <3>2. at[t] > 0 => at[t] < 1
      BY <1>2, <3>1
    <3> QED
      BY <1>2, <3>2
  <2>2. NextAccess(t) = Do(op.kind, "", 0)
    BY <1>2, <1>6, <2>1, NextAccesses
  <2>3. NextAccess(t).what = op.kind
    BY <2>2, DoFields
  <2>4. \A S : ~Mid(t, "asic", S) /\ ~Mid(t, "flag", S) /\ ~Mid(t, "pot", S)
    BY <1>6 DEF Mid, Shared
  <2> QED
    BY <1>1, <1>6, <2>1, <2>3, <2>4 DEF Loading, Storing, Putting
<1> QED
  BY <1>3, <1>4, <1>5, <1>6 DEF Shared

\* What an access does to the lock, the copy, the registers and its thread's reading.
LEMMA Effects ==
  ASSUME TypeInv, NEW t \in Threads, Access(t),
         NEW op, op = Head(todo[t])
  PROVE  /\ owner' = IF op.kind = "lock" THEN t
                     ELSE IF op.kind = "unlock" THEN "none" ELSE owner
         /\ op.kind = "lock" => owner = "none"
         /\ op.kind = "await" => pot_spi_ready
         /\ loaded' = IF Loading(t) THEN [loaded EXCEPT ![t] = axiReg2_data]
                      ELSE IF Storing(t) THEN [loaded EXCEPT ![t] = 0] ELSE loaded
         /\ axiReg2_data' = IF Storing(t) THEN loaded[t] + Change(t) ELSE axiReg2_data
         /\ arm' = IF Putting(t) THEN [arm EXCEPT !.ctrl = axiReg2_data]
                   ELSE IF Mid(t, "asic", {0}) THEN [arm EXCEPT !.data = op.data]
                   ELSE IF Mid(t, "asic", {1}) THEN [arm EXCEPT !.addr = op.addr] ELSE arm
<1>1. todo[t] # <<>>
  BY DEF Access
<1>2. CASE op.kind \notin Shared
  <2>1. ~Loading(t) /\ ~Storing(t) /\ ~Putting(t) /\ ~Mid(t, "asic", {0}) /\ ~Mid(t, "asic", {1})
    BY <1>2 DEF Loading, Storing, Putting, Mid, Shared
  <2>2. NextAccess(t).what = op.kind /\ op.kind \in Kinds
    BY <1>1, <1>2, WhatNext
  <2>3. \/ Lock(t) \/ Unlock(t) \/ Load(t) \/ Store(t) \/ Out(t)
        \/ WriteData(t) \/ WriteAddr(t) \/ WritePlain(t) \/ AwaitReady(t) \/ CheckReady(t)
    BY DEF Access
  <2> QED
    BY <1>2, <2>1, <2>2, <2>3
       DEF Lock, Unlock, Load, Store, Out, WriteData, WriteAddr, WritePlain, AwaitReady,
           CheckReady, Kinds, Shared
<1>3. CASE op.kind \in Shared
  <2>1. \/ Loading(t) \/ Storing(t) \/ Putting(t)
        \/ Mid(t, "asic", {0}) \/ Mid(t, "asic", {1}) \/ Mid(t, "pot", {0})
    BY <1>1, <1>3, WhatNext DEF Mid
  <2>2. /\ Loading(t) => ~Storing(t) /\ ~Putting(t)
        /\ Storing(t) => ~Putting(t)
        /\ Mid(t, "asic", {0}) \/ Mid(t, "asic", {1}) \/ Mid(t, "pot", {0})
             => ~Loading(t) /\ ~Storing(t) /\ ~Putting(t)
        /\ Mid(t, "asic", {0}) => ~Mid(t, "asic", {1})
        /\ Mid(t, "asic", {0}) \/ Mid(t, "asic", {1}) => ~Mid(t, "pot", {0})
        /\ Loading(t) \/ Storing(t) \/ Putting(t)
             => ~Mid(t, "asic", {0}) /\ ~Mid(t, "asic", {1}) /\ ~Mid(t, "pot", {0})
    BY DEF Loading, Storing, Putting, Mid
  <2>3. op.kind \notin {"lock", "unlock", "await", "check"}
    BY <1>3 DEF Shared
  <2>4. \/ Lock(t) \/ Unlock(t) \/ Load(t) \/ Store(t) \/ Out(t)
        \/ WriteData(t) \/ WriteAddr(t) \/ WritePlain(t) \/ AwaitReady(t) \/ CheckReady(t)
    BY DEF Access
  <2>5. CASE Loading(t)
    <3>1. NextAccess(t).what = "load"
      BY <1>1, <2>5, WhatNext
    <3>2. Load(t)
      BY <3>1, <2>4
         DEF Lock, Unlock, Store, Out, WriteData, WriteAddr, WritePlain, AwaitReady, CheckReady
    <3> QED
      BY <2>2, <2>3, <2>5, <3>2 DEF Load
  <2>6. CASE Storing(t)
    <3>1. NextAccess(t).what = "store" /\ NextAccess(t).val = Change(t)
      BY <1>1, <2>6, WhatNext
    <3>2. Store(t)
      BY <3>1, <2>4
         DEF Lock, Unlock, Load, Out, WriteData, WriteAddr, WritePlain, AwaitReady, CheckReady
    <3> QED
      BY <2>2, <2>3, <2>6, <3>1, <3>2 DEF Store
  <2>7. CASE Putting(t)
    <3>1. NextAccess(t).what = "out"
      BY <1>1, <2>7, WhatNext
    <3>2. Out(t)
      BY <3>1, <2>4
         DEF Lock, Unlock, Load, Store, WriteData, WriteAddr, WritePlain, AwaitReady, CheckReady
    <3> QED
      BY <2>2, <2>3, <2>7, <3>2 DEF Out
  <2>8. CASE Mid(t, "asic", {0})
    <3>1. /\ NextAccess(t).what = "write" /\ NextAccess(t).reg = "data"
          /\ NextAccess(t).val = op.data
      BY <1>1, <2>8, WhatNext
    <3>2. WriteData(t)
      BY <3>1, <2>4
         DEF Lock, Unlock, Load, Store, Out, WriteAddr, WritePlain, AwaitReady, CheckReady
    <3> QED
      BY <2>2, <2>3, <2>8, <3>1, <3>2 DEF WriteData
  <2>9. CASE Mid(t, "asic", {1})
    <3>1. /\ NextAccess(t).what = "write" /\ NextAccess(t).reg = "addr"
          /\ NextAccess(t).val = op.addr
      BY <1>1, <2>9, WhatNext
    <3>2. WriteAddr(t)
      BY <3>1, <2>4
         DEF Lock, Unlock, Load, Store, Out, WriteData, WritePlain, AwaitReady, CheckReady
    <3> QED
      BY <2>2, <2>3, <2>9, <3>1, <3>2 DEF WriteAddr
  <2>10. CASE Mid(t, "pot", {0})
    <3>1. NextAccess(t).what = "plain"
      BY <1>1, <2>10, WhatNext
    <3>2. WritePlain(t)
      BY <3>1, <2>4
         DEF Lock, Unlock, Load, Store, Out, WriteData, WriteAddr, AwaitReady, CheckReady
    <3> QED
      BY <2>2, <2>3, <2>10, <3>2 DEF WritePlain
  <2> QED
    BY <2>1, <2>5, <2>6, <2>7, <2>8, <2>9, <2>10
<1> QED
  BY <1>2, <1>3

\* How an access moves its thread on.
LEMMA Moves ==
  ASSUME TypeInv, NEW t \in Threads, Access(t),
         NEW op, op = Head(todo[t])
  PROVE  /\ todo[t] # <<>>
         /\ \/ /\ op.kind \in Shared /\ at[t] + 1 < Len(Accesses(op))
               /\ todo' = todo /\ at' = [at EXCEPT ![t] = @ + 1]
            \/ /\ op.kind = "check" => pot_spi_ready
               /\ op.kind \in Shared => at[t] + 1 = Len(Accesses(op))
               /\ todo' = [todo EXCEPT ![t] = Tail(todo[t])]
               /\ at' = [at EXCEPT ![t] = 0]
            \/ /\ op.kind = "check" /\ ~pot_spi_ready
               /\ todo' = [todo EXCEPT ![t] = <<>>] /\ at' = [at EXCEPT ![t] = 0]
<1>1. todo[t] # <<>>
  BY DEF Access
<1>2. op.kind \in Kinds /\ (op.kind \notin Shared => at[t] = 0 /\ NextAccess(t).what = op.kind)
  BY <1>1, WhatNext
<1>3. at \in [Threads -> 0 .. 7] /\ pot_spi_ready \in BOOLEAN
  BY DEF TypeInv
<1>4. \/ Lock(t) \/ Unlock(t) \/ Load(t) \/ Store(t) \/ Out(t)
      \/ WriteData(t) \/ WriteAddr(t) \/ WritePlain(t) \/ AwaitReady(t) \/ CheckReady(t)
  BY DEF Access
<1>5. CASE op.kind = "check"
  <2>1. CheckReady(t) /\ at[t] = 0
    BY <1>2, <1>4, <1>5 DEF Lock, Unlock, Load, Store, Out, WriteData, WriteAddr, WritePlain,
       AwaitReady, Shared
  <2>2. at' = [at EXCEPT ![t] = 0]
    BY <2>1, <1>3 DEF CheckReady
  <2> QED
    BY <1>1, <1>3, <1>5, <2>1, <2>2 DEF CheckReady, Shared
<1>6. CASE op.kind # "check"
  <2>1. NextAccess(t).what # "check"
    BY <1>1, <1>2, <1>6, WhatNext DEF Mid
  <2>2. Advance(t)
    BY <2>1, <1>4 DEF Lock, Unlock, Load, Store, Out, WriteData, WriteAddr, WritePlain,
       AwaitReady, CheckReady
  <2>3. at[t] > 0 => at[t] < Len(Accesses(op))
    BY DEF TypeInv
  <2>4. /\ Len(Accesses(op)) \in Nat \ {0}
        /\ op.kind \notin Shared => Len(Accesses(op)) = 1
    <3>1. /\ op.kind = "asic" => Len(Accesses(op)) = 8
          /\ op.kind = "pot" => Len(Accesses(op)) = 7
          /\ op.kind = "flag" => Len(Accesses(op)) = 3
          /\ op.kind \notin Shared => Len(Accesses(op)) = 1
      BY AccessesOf
    <3> QED
      BY <3>1 DEF Shared
  <2> QED
    <3>1. at[t] \in 0 .. 7
      BY <1>3
    <3>2. CASE at[t] + 1 < Len(Accesses(op))
      <4>1. op.kind \in Shared
        <5>1. ~(at[t] + 1 < 1)
          BY <3>1
        <5>2. Len(Accesses(op)) # 1
          BY <3>2, <5>1
        <5> QED
          BY <5>2, <2>4
      <4> QED
        BY <1>1, <2>2, <3>2, <4>1 DEF Advance
    <3>3. CASE ~(at[t] + 1 < Len(Accesses(op)))
      <4>1. at[t] + 1 = Len(Accesses(op))
        BY <3>1, <3>3, <2>3, <2>4
      <4> QED
        BY <1>1, <1>6, <2>2, <3>3, <4>1 DEF Advance
    <3> QED
      BY <3>2, <3>3
<1> QED
  BY <1>5, <1>6
-----------------------------------------------------------------------------
\* The places of a sequence are within the lock or not, whatever went before them.
LEMMA TailInLock ==
  ASSUME NEW q \in Seq(Operations), q # <<>>, NEW i \in Nat \ {0}
  PROVE  InLock(Tail(q), i) <=> InLock(q, i + 1)
<1>1. /\ Len(q) \in Nat \ {0} /\ Len(Tail(q)) = Len(q) - 1
      /\ \A k \in 1 .. Len(q) - 1 : Tail(q)[k] = q[k + 1]
  OBVIOUS
<1>2. ASSUME InLock(Tail(q), i) PROVE InLock(q, i + 1)
  <2>1. PICK k \in i .. Len(q) - 1 : /\ Tail(q)[k].kind = "unlock"
                                    /\ \A j \in i .. k - 1 : Tail(q)[j].kind # "lock"
    BY <1>1, <1>2 DEF InLock
  <2>2. k + 1 \in i + 1 .. Len(q) /\ q[k + 1].kind = "unlock"
    BY <1>1, <2>1
  <2>3. ASSUME NEW j \in i + 1 .. (k + 1) - 1 PROVE q[j].kind # "lock"
    <3>1. j - 1 \in i .. k - 1 /\ j - 1 \in 1 .. Len(q) - 1 /\ (j - 1) + 1 = j
      BY <1>1
    <3> QED
      BY <1>1, <2>1, <3>1
  <2> QED
    BY <2>2, <2>3 DEF InLock
<1>3. ASSUME InLock(q, i + 1) PROVE InLock(Tail(q), i)
  <2>1. PICK k \in i + 1 .. Len(q) : /\ q[k].kind = "unlock"
                                    /\ \A j \in i + 1 .. k - 1 : q[j].kind # "lock"
    BY <1>3 DEF InLock
  <2>2. /\ k - 1 \in i .. Len(Tail(q)) /\ k - 1 \in 1 .. Len(q) - 1
        /\ (k - 1) + 1 = k
    BY <1>1
  <2>3. Tail(q)[k - 1].kind = "unlock"
    BY <1>1, <2>1, <2>2
  <2>4. ASSUME NEW j \in i .. (k - 1) - 1 PROVE Tail(q)[j].kind # "lock"
    <3>1. j + 1 \in i + 1 .. k - 1 /\ j \in 1 .. Len(q) - 1
      BY <1>1
    <3> QED
      BY <1>1, <2>1, <3>1
  <2> QED
    BY <2>2, <2>3, <2>4 DEF InLock
<1> QED
  BY <1>2, <1>3

\* The rest of a well-locked call is well locked; only the operation taken off changes
\* whether it is inside the lock.
LEMMA TailLock ==
  ASSUME NEW q \in Seq(Operations), q # <<>>, WellLocked(q)
  PROVE  /\ WellLocked(Tail(q))
         /\ q[1].kind = "lock" => ~InLock(q, 1) /\ InLock(Tail(q), 1)
         /\ q[1].kind = "unlock" => InLock(q, 1) /\ ~InLock(Tail(q), 1)
         /\ q[1].kind \notin {"lock", "unlock"} => (InLock(q, 1) <=> InLock(Tail(q), 1))
<1>1. /\ Len(q) \in Nat \ {0} /\ Len(Tail(q)) = Len(q) - 1
      /\ \A k \in 1 .. Len(q) - 1 : Tail(q)[k] = q[k + 1]
  OBVIOUS
<1>2. ASSUME NEW i \in 1 .. Len(Tail(q))
      PROVE  /\ Tail(q)[i].kind = "lock" => InLock(Tail(q), i + 1)
             /\ Tail(q)[i].kind = "unlock" => ~InLock(Tail(q), i + 1)
             /\ Tail(q)[i].kind \in Shared => InLock(Tail(q), i)
  <2>1. i + 1 \in 1 .. Len(q) /\ i \in 1 .. Len(q) - 1 /\ i \in Nat \ {0} /\ i + 1 \in Nat \ {0}
    BY <1>1
  <2>2. Tail(q)[i] = q[i + 1]
    BY <1>1, <2>1
  <2>3. InLock(Tail(q), i) <=> InLock(q, i + 1)
    BY <2>1, TailInLock
  <2>4. InLock(Tail(q), i + 1) <=> InLock(q, (i + 1) + 1)
    BY <2>1, TailInLock
  <2> QED
    BY <2>1, <2>2, <2>3, <2>4 DEF WellLocked
<1>3. InLock(Tail(q), 1) <=> InLock(q, 2)
  <2>1. InLock(Tail(q), 1) <=> InLock(q, 1 + 1)
    BY TailInLock
  <2> QED
    BY <2>1
<1>4. 1 \in 1 .. Len(q)
  BY <1>1
<1>5. /\ q[1].kind = "lock" => InLock(q, 2)
      /\ q[1].kind = "unlock" => ~InLock(q, 2)
  BY <1>4 DEF WellLocked
<1>6. q[1].kind = "lock" => ~InLock(q, 1)
  BY <1>1 DEF InLock
<1>7. q[1].kind = "unlock" => InLock(q, 1)
  BY <1>1 DEF InLock
<1>8. q[1].kind \notin {"lock", "unlock"} => (InLock(q, 1) <=> InLock(q, 2))
  BY <1>1 DEF InLock
<1> QED
  BY <1>2, <1>3, <1>5, <1>6, <1>7, <1>8 DEF WellLocked

\* A call takes the lock and releases it.
LEMMA LockedFacts ==
  ASSUME NEW ops \in Seq(Operations),
         \A i \in 1 .. Len(ops) : ops[i].kind \notin {"lock", "unlock"}
  PROVE  /\ Locked(ops) \in Seq(Operations) /\ Len(Locked(ops)) = Len(ops) + 2
         /\ Locked(ops)[1].kind = "lock" /\ Locked(ops)[Len(ops) + 2].kind = "unlock"
         /\ \A i \in 1 .. Len(ops) : Locked(ops)[i + 1] = ops[i]
         /\ WellLocked(Locked(ops)) /\ ~InLock(Locked(ops), 1)
<1> DEFINE l == Op("lock", "", 0)
           u == Op("unlock", "", 0)
           q == Locked(ops)
<1>1. l \in Operations /\ u \in Operations /\ l.kind = "lock" /\ u.kind = "unlock"
  BY DEF Operations, Op
<1>2. q = <<l>> \o ops \o <<u>>
  BY DEF Locked
<1> HIDE DEF l, u, q
<1>3. <<l>> \o ops \in Seq(Operations) /\ <<u>> \in Seq(Operations)
  BY <1>1
<1>4. /\ Len(<<l>> \o ops) = Len(ops) + 1
      /\ (<<l>> \o ops)[1] = l
      /\ \A i \in 1 .. Len(ops) : (<<l>> \o ops)[i + 1] = ops[i]
  BY <1>1
<1>5. /\ q \in Seq(Operations) /\ Len(q) = Len(ops) + 2
      /\ q[1] = l /\ q[Len(ops) + 2] = u
      /\ \A i \in 1 .. Len(ops) : q[i + 1] = ops[i]
  BY <1>1, <1>2, <1>3, <1>4
<1>6. Len(ops) \in Nat
  OBVIOUS
<1>7. ASSUME NEW i \in 2 .. Len(q) PROVE InLock(q, i)
  <2>1. Len(q) \in i .. Len(q) /\ q[Len(q)].kind = "unlock"
    BY <1>1, <1>5, <1>6
  <2>2. ASSUME NEW j \in i .. Len(q) - 1 PROVE q[j].kind # "lock"
    <3>1. j - 1 \in 1 .. Len(ops) /\ (j - 1) + 1 = j
      BY <1>5, <1>6
    <3> QED
      BY <1>5, <3>1
  <2> QED
    BY <2>1, <2>2 DEF InLock
<1>8. ~InLock(q, 1)
  BY <1>1, <1>5 DEF InLock
<1>9. ~InLock(q, Len(q) + 1)
  BY <1>5, <1>6 DEF InLock
<1>10. WellLocked(q)
  <2> SUFFICES ASSUME NEW i \in 1 .. Len(q)
               PROVE  /\ q[i].kind = "lock" => InLock(q, i + 1)
                      /\ q[i].kind = "unlock" => ~InLock(q, i + 1)
                      /\ q[i].kind \in Shared => InLock(q, i)
    BY DEF WellLocked
  <2>1. CASE i = 1
    <3>1. i + 1 \in 2 .. Len(q)
      BY <1>5, <1>6, <2>1
    <3> QED
      BY <1>1, <1>5, <1>7, <2>1, <3>1 DEF Shared
  <2>2. CASE i = Len(q)
    BY <1>1, <1>5, <1>9, <2>2 DEF Shared
  <2>3. CASE i \in 2 .. Len(q) - 1
    <3>1. i - 1 \in 1 .. Len(ops) /\ (i - 1) + 1 = i /\ i \in 2 .. Len(q)
      BY <1>5, <1>6, <2>3
    <3>2. q[i].kind \notin {"lock", "unlock"}
      BY <1>5, <3>1
    <3> QED
      BY <1>7, <3>1, <3>2
  <2> QED
    BY <1>5, <1>6, <2>1, <2>2, <2>3
<1> QED
  BY <1>1, <1>5, <1>8, <1>10 DEF q

\* The elements of two calls put together.
LEMMA ConcatFacts ==
  ASSUME NEW a \in Seq(Operations), NEW b \in Seq(Operations)
  PROVE  /\ a \o b \in Seq(Operations) /\ Len(a \o b) = Len(a) + Len(b)
         /\ Len(a) \in Nat /\ Len(b) \in Nat
         /\ \A i \in 1 .. Len(a) : (a \o b)[i] = a[i]
         /\ \A i \in 1 .. Len(b) : (a \o b)[i + Len(a)] = b[i]
OBVIOUS

\* The kinds of two calls put together are those of the two.
LEMMA ConcatKinds ==
  ASSUME NEW a \in Seq(Operations), NEW b \in Seq(Operations), NEW K,
         \A i \in 1 .. Len(a) : a[i].kind \in K, \A i \in 1 .. Len(b) : b[i].kind \in K
  PROVE  \A i \in 1 .. Len(a \o b) : (a \o b)[i].kind \in K
<1> DEFINE q == a \o b
<1>1. /\ Len(q) = Len(a) + Len(b) /\ Len(a) \in Nat /\ Len(b) \in Nat
      /\ \A i \in 1 .. Len(a) : q[i] = a[i]
      /\ \A i \in 1 .. Len(b) : q[i + Len(a)] = b[i]
  BY ConcatFacts
<1> HIDE DEF q
<1>2. ASSUME NEW i \in 1 .. Len(q) PROVE q[i].kind \in K
  <2>1. CASE i \in 1 .. Len(a)
    BY <1>1, <2>1
  <2>2. CASE i \notin 1 .. Len(a)
    <3>1. i - Len(a) \in 1 .. Len(b) /\ (i - Len(a)) + Len(a) = i
      BY <1>1, <2>2
    <3> QED
      BY <1>1, <3>1
  <2> QED
    BY <2>1, <2>2
<1> QED
  BY <1>2 DEF q

\* One call after another.
LEMMA ConcatLock ==
  ASSUME NEW a \in Seq(Operations), NEW b \in Seq(Operations),
         WellLocked(a), WellLocked(b), ~InLock(a, 1), ~InLock(b, 1)
  PROVE  /\ a \o b \in Seq(Operations) /\ WellLocked(a \o b) /\ ~InLock(a \o b, 1)
<1> DEFINE q == a \o b
<1>1. /\ q \in Seq(Operations) /\ Len(q) = Len(a) + Len(b) /\ Len(a) \in Nat /\ Len(b) \in Nat
      /\ \A i \in 1 .. Len(a) : q[i] = a[i]
      /\ \A i \in 1 .. Len(b) : q[i + Len(a)] = b[i]
  OBVIOUS
<1> HIDE DEF q
<1>2. ASSUME NEW i \in 1 .. Len(a) + 1, InLock(q, i) PROVE InLock(a, i)
  <2>1. PICK k \in i .. Len(q) : /\ q[k].kind = "unlock"
                                /\ \A j \in i .. k - 1 : q[j].kind # "lock"
    BY <1>2 DEF InLock
  <2>2. CASE k <= Len(a)
    <3>1. k \in i .. Len(a) /\ a[k].kind = "unlock"
      BY <1>1, <2>1, <2>2
    <3>2. \A j \in i .. k - 1 : a[j].kind # "lock"
      BY <1>1, <2>1, <2>2
    <3> QED
      BY <3>1, <3>2 DEF InLock
  <2>3. CASE k > Len(a)
    <3>1. k - Len(a) \in 1 .. Len(b) /\ (k - Len(a)) + Len(a) = k
      BY <1>1, <2>3
    <3>2. b[k - Len(a)].kind = "unlock"
      BY <1>1, <2>1, <3>1
    <3>3. ASSUME NEW j \in 1 .. (k - Len(a)) - 1 PROVE b[j].kind # "lock"
      <4>1. j + Len(a) \in i .. k - 1 /\ j \in 1 .. Len(b)
        BY <1>1, <3>1
      <4> QED
        BY <1>1, <2>1, <4>1
    <3> QED
      BY <3>1, <3>2, <3>3 DEF InLock
  <2> QED
    BY <1>1, <2>2, <2>3
<1>3. ASSUME NEW i \in 1 .. Len(a), InLock(a, i) PROVE InLock(q, i)
  <2>1. PICK k \in i .. Len(a) : /\ a[k].kind = "unlock"
                                /\ \A j \in i .. k - 1 : a[j].kind # "lock"
    BY <1>3 DEF InLock
  <2>2. k \in i .. Len(q) /\ q[k].kind = "unlock"
    BY <1>1, <2>1
  <2>3. ASSUME NEW j \in i .. k - 1 PROVE q[j].kind # "lock"
    <3>1. j \in 1 .. Len(a) /\ a[j].kind # "lock"
      BY <1>1, <2>1
    <3> QED
      BY <1>1, <3>1
  <2> QED
    BY <2>2, <2>3 DEF InLock
<1>4. ASSUME NEW i \in Nat \ {0} PROVE InLock(q, i + Len(a)) <=> InLock(b, i)
  <2>1. ASSUME InLock(q, i + Len(a)) PROVE InLock(b, i)
    <3>1. PICK k \in i + Len(a) .. Len(q) : /\ q[k].kind = "unlock"
                                /\ \A j \in i + Len(a) .. k - 1 : q[j].kind # "lock"
      BY <2>1 DEF InLock
    <3>2. k - Len(a) \in i .. Len(b) /\ k - Len(a) \in 1 .. Len(b) /\ (k - Len(a)) + Len(a) = k
      BY <1>1
    <3>3. b[k - Len(a)].kind = "unlock"
      BY <1>1, <3>1, <3>2
    <3>4. ASSUME NEW j \in i .. (k - Len(a)) - 1 PROVE b[j].kind # "lock"
      <4>1. j + Len(a) \in i + Len(a) .. k - 1 /\ j \in 1 .. Len(b)
        BY <1>1, <3>2
      <4> QED
        BY <1>1, <3>1, <4>1
    <3> QED
      BY <3>2, <3>3, <3>4 DEF InLock
  <2>2. ASSUME InLock(b, i) PROVE InLock(q, i + Len(a))
    <3>1. PICK k \in i .. Len(b) : /\ b[k].kind = "unlock"
                                  /\ \A j \in i .. k - 1 : b[j].kind # "lock"
      BY <2>2 DEF InLock
    <3>2. k + Len(a) \in i + Len(a) .. Len(q) /\ k \in 1 .. Len(b)
      BY <1>1
    <3>3. q[k + Len(a)].kind = "unlock"
      BY <1>1, <3>1, <3>2
    <3>4. ASSUME NEW j \in i + Len(a) .. (k + Len(a)) - 1 PROVE q[j].kind # "lock"
      <4>1. j - Len(a) \in i .. k - 1 /\ j - Len(a) \in 1 .. Len(b) /\ (j - Len(a)) + Len(a) = j
        BY <1>1, <3>2
      <4> QED
        BY <1>1, <3>1, <4>1
    <3> QED
      BY <3>2, <3>3, <3>4 DEF InLock
  <2> QED
    BY <2>1, <2>2
<1>5. ~InLock(q, 1)
  BY <1>1, <1>2
<1>6. WellLocked(q)
  <2> SUFFICES ASSUME NEW i \in 1 .. Len(q)
               PROVE  /\ q[i].kind = "lock" => InLock(q, i + 1)
                      /\ q[i].kind = "unlock" => ~InLock(q, i + 1)
                      /\ q[i].kind \in Shared => InLock(q, i)
    BY DEF WellLocked
  <2>1. CASE i \in 1 .. Len(a)
    <3>1. q[i] = a[i] /\ i + 1 \in 1 .. Len(a) + 1 /\ i \in 1 .. Len(a) + 1
      BY <1>1, <2>1
    <3>2. /\ a[i].kind = "lock" => InLock(a, i + 1)
          /\ a[i].kind = "unlock" => ~InLock(a, i + 1)
          /\ a[i].kind \in Shared => InLock(a, i)
      BY <2>1 DEF WellLocked
    <3>3. ~InLock(a, Len(a) + 1)
      BY <1>1 DEF InLock
    <3>4. a[i].kind = "lock" => i + 1 \in 1 .. Len(a)
      <4>1. SUFFICES ASSUME a[i].kind = "lock", i + 1 \notin 1 .. Len(a) PROVE FALSE
        OBVIOUS
      <4>2. i + 1 = Len(a) + 1
        BY <1>1, <2>1, <4>1
      <4> QED
        BY <3>2, <3>3, <4>1, <4>2
    <3> QED
      BY <1>2, <1>3, <2>1, <3>1, <3>2, <3>4
  <2>2. CASE i \notin 1 .. Len(a)
    <3>1. /\ i - Len(a) \in 1 .. Len(b) /\ (i - Len(a)) + Len(a) = i
          /\ i - Len(a) \in Nat \ {0} /\ (i - Len(a)) + 1 \in Nat \ {0}
          /\ ((i - Len(a)) + 1) + Len(a) = i + 1
      BY <1>1, <2>2
    <3>2. q[i] = b[i - Len(a)]
      BY <1>1, <3>1
    <3>3. InLock(q, i) <=> InLock(b, i - Len(a))
      BY <1>4, <3>1
    <3>4. InLock(q, i + 1) <=> InLock(b, (i - Len(a)) + 1)
      BY <1>4, <3>1
    <3> QED
      BY <3>1, <3>2, <3>3, <3>4 DEF WellLocked
  <2> QED
    BY <2>1, <2>2
<1> QED
  BY <1>1, <1>5, <1>6 DEF q
-----------------------------------------------------------------------------
\* A gain that is a char, and what is left of it in four bits.
LEMMA CharFacts ==
  /\ \A g \in Int : Char(g) \in Nat
  /\ \A g \in 0 .. GainMod - 1 : Char(g) = g
<1>1. CharMod \in Nat \ {0} /\ GainMod \in Nat /\ CharMod >= GainMod
  BY GainAssumption
<1>2. \A g \in Int : g % CharMod \in Nat
  BY <1>1
<1>3. ASSUME NEW g \in 0 .. GainMod - 1 PROVE g % CharMod = g
  BY <1>1
<1> QED
  BY <1>2, <1>3 DEF Char

\* The operations that only send commands to the ASIC, or write plain registers, have
\* their types.
LEMMA StillOperations ==
  /\ Plain \in Still /\ Read \in Still /\ Other \in Still
  /\ \A g \in Int : Gain(g) \in Still
  /\ \A b \in Bits : Enables(b) \in Still
<1>1. /\ Plain \in Operations /\ Read \in Operations /\ Other \in Operations
      /\ \A b \in Bits : Enables(b) \in Operations
  BY DEF Operations, Plain
<1>3. ASSUME NEW g \in Int PROVE Gain(g) \in Operations
  <2>1. g % GainMod \in 0 .. GainMod - 1
    BY GainAssumption
  <2> QED
    BY <2>1 DEF Gain, Operations
<1>2. /\ Plain.kind = "plain" /\ Read.kind = "asic" /\ Other.kind = "asic"
      /\ \A g : Gain(g).kind = "asic"
      /\ \A b : Enables(b).kind = "asic"
  BY DEF Plain, Read, Other, Gain, Enables, ASIC_SendCommand, Op
<1> QED
  BY <1>1, <1>2, <1>3 DEF Still

\* A call of commands to the ASIC and of plain accesses.
LEMMA StillCall ==
  ASSUME NEW ops \in Seq(Still)
  PROVE  /\ Sound(Locked(ops))
         /\ Quiet(Locked(ops))
<1>1. ops \in Seq(Operations) /\ Len(ops) \in Nat
  BY DEF Still
<1>2. \A i \in 1 .. Len(ops) : ops[i].kind \in {"asic", "plain"}
  BY DEF Still
<1>3. \A i \in 1 .. Len(ops) : ops[i].kind \notin {"lock", "unlock"}
  BY <1>2
<1>4. /\ Sound(Locked(ops)) /\ Len(Locked(ops)) = Len(ops) + 2
      /\ Locked(ops)[1].kind = "lock" /\ Locked(ops)[Len(ops) + 2].kind = "unlock"
      /\ \A i \in 1 .. Len(ops) : Locked(ops)[i + 1] = ops[i]
  BY <1>1, <1>3, LockedFacts DEF Sound
<1>5. ASSUME NEW i \in 1 .. Len(Locked(ops))
      PROVE  Locked(ops)[i].kind \in {"lock", "unlock", "asic", "plain"}
  <2>1. CASE i \in {1, Len(ops) + 2}
    BY <1>4, <2>1
  <2>2. CASE i \notin {1, Len(ops) + 2}
    <3>1. i - 1 \in 1 .. Len(ops) /\ (i - 1) + 1 = i
      BY <1>1, <1>4, <2>2
    <3> QED
      BY <1>2, <1>4, <3>1
  <2> QED
    BY <2>1, <2>2
<1> QED
  BY <1>4, <1>5 DEF Quiet

\* A call of one operation.
LEMMA OneCall ==
  ASSUME NEW op \in Operations, op.kind \notin {"lock", "unlock"}
  PROVE  /\ Sound(Locked(<<op>>)) /\ Len(Locked(<<op>>)) = 3
         /\ Locked(<<op>>)[1].kind = "lock" /\ Locked(<<op>>)[2] = op
         /\ Locked(<<op>>)[3].kind = "unlock"
<1> DEFINE ops == <<op>>
<1>1. ops \in Seq(Operations) /\ Len(ops) = 1 /\ ops[1] = op
  OBVIOUS
<1> HIDE DEF ops
<1>2. \A i \in 1 .. Len(ops) : ops[i].kind \notin {"lock", "unlock"}
  BY <1>1
<1>3. /\ Sound(Locked(ops)) /\ Len(Locked(ops)) = Len(ops) + 2
      /\ Locked(ops)[1].kind = "lock" /\ Locked(ops)[Len(ops) + 2].kind = "unlock"
      /\ \A i \in 1 .. Len(ops) : Locked(ops)[i + 1] = ops[i]
  BY <1>1, <1>2, LockedFacts DEF Sound
<1>4. Locked(ops)[1 + 1] = ops[1]
  BY <1>1, <1>3
<1>5. /\ Sound(Locked(ops)) /\ Len(Locked(ops)) = 3
      /\ Locked(ops)[1].kind = "lock" /\ Locked(ops)[2] = op /\ Locked(ops)[3].kind = "unlock"
  BY <1>1, <1>3, <1>4
<1> QED
  BY <1>5 DEF ops

\* A call that sets or resets a flag.
LEMMA FlagCall ==
  ASSUME NEW f \in {TIMING_CORE_EN, -TIMING_CORE_EN, TDC_EN, -TDC_EN}
  PROVE  /\ Sound(Locked(<<Flip(f)>>)) /\ Len(Locked(<<Flip(f)>>)) = 3
         /\ Locked(<<Flip(f)>>)[1].kind = "lock" /\ Locked(<<Flip(f)>>)[3].kind = "unlock"
         /\ Locked(<<Flip(f)>>)[2].kind = "flag" /\ Locked(<<Flip(f)>>)[2].data = f
<1> DEFINE op == Flip(f)
<1>1. op \in Operations /\ op.kind = "flag" /\ op.data = f
  BY DEF Operations, Flip, Op
<1> HIDE DEF op
<1>2. /\ Sound(Locked(<<op>>)) /\ Len(Locked(<<op>>)) = 3
      /\ Locked(<<op>>)[1].kind = "lock" /\ Locked(<<op>>)[3].kind = "unlock"
      /\ Locked(<<op>>)[2] = op
  BY <1>1, OneCall
<1> QED
  BY <1>1, <1>2 DEF op

\* Option 1 of the menu: the only call with a check.
LEMMA PotCall ==
  /\ Sound(POT_ChangeHorizontalGain) /\ Len(POT_ChangeHorizontalGain) = 4
  /\ POT_ChangeHorizontalGain[1].kind = "check" /\ POT_ChangeHorizontalGain[2].kind = "lock"
  /\ POT_ChangeHorizontalGain[3].kind = "pot" /\ POT_ChangeHorizontalGain[4].kind = "unlock"
<1> DEFINE c == Op("check", "", 0)
           p == PotCommand
           a == <<c>>
           b == Locked(<<p>>)
           q == POT_ChangeHorizontalGain
<1>1. c \in Operations /\ c.kind = "check" /\ p \in Operations /\ p.kind = "pot"
  BY DEF Operations, PotCommand, Op
<1>2. q = a \o b
  BY DEF POT_ChangeHorizontalGain
<1> HIDE DEF c, p, q
<1>3. a \in Seq(Operations) /\ Len(a) = 1 /\ a[1] = c
  BY <1>1
<1> HIDE DEF a
<1>4. /\ Sound(b) /\ Len(b) = 3 /\ b[1].kind = "lock" /\ b[2] = p /\ b[3].kind = "unlock"
  BY <1>1, OneCall
<1> HIDE DEF b
<1>5. WellLocked(a) /\ ~InLock(a, 1)
  <2>1. \A i \in 1 .. Len(a) : a[i].kind = "check"
    BY <1>1, <1>3
  <2> QED
    BY <1>3, <2>1 DEF WellLocked, InLock, Shared
<1>6. Sound(q)
  BY <1>2, <1>3, <1>4, <1>5, ConcatLock DEF Sound
<1>7. /\ Len(q) = 4 /\ q[1] = a[1] /\ q[2] = b[1] /\ q[3] = b[2] /\ q[4] = b[3]
  <2>1. b \in Seq(Operations)
    BY <1>4 DEF Sound
  <2>2. /\ Len(q) = Len(a) + Len(b)
        /\ \A i \in 1 .. Len(a) : q[i] = a[i]
        /\ \A i \in 1 .. Len(b) : q[i + Len(a)] = b[i]
    BY <1>2, <1>3, <2>1, ConcatFacts
  <2>3. q[1 + Len(a)] = b[1] /\ q[2 + Len(a)] = b[2] /\ q[3 + Len(a)] = b[3]
    BY <1>4, <2>2
  <2> QED
    BY <1>3, <1>4, <2>2, <2>3
<1>8. q[1].kind = "check" /\ q[2].kind = "lock" /\ q[3].kind = "pot" /\ q[4].kind = "unlock"
  BY <1>1, <1>3, <1>4, <1>7
<1> QED
  BY <1>6, <1>7, <1>8 DEF q

\* After its first operation no call looks at the ready bit of the potentiometer.
LEMMA ChecksOnlyInPot ==
  ASSUME NEW q \in Seq(Operations), q # <<>>,
         \A i \in 1 .. Len(q) : q[i].kind = "check" => q = POT_ChangeHorizontalGain
  PROVE  /\ \A i \in 1 .. Len(Tail(q)) : Tail(q)[i].kind # "check"
<1>1. /\ Len(q) \in Nat \ {0} /\ Len(Tail(q)) = Len(q) - 1
      /\ \A k \in 1 .. Len(q) - 1 : Tail(q)[k] = q[k + 1]
  OBVIOUS
<1> SUFFICES ASSUME NEW i \in 1 .. Len(Tail(q)), Tail(q)[i].kind = "check" PROVE FALSE
  OBVIOUS
<1>2. i + 1 \in 1 .. Len(q) /\ i \in 1 .. Len(q) - 1 /\ q[i + 1].kind = "check"
  BY <1>1
<1>3. q = POT_ChangeHorizontalGain
  BY <1>2
<1>4. i + 1 \in {2, 3, 4}
  BY <1>2, <1>3, PotCall
<1>5. i + 1 = 2 \/ i + 1 = 3 \/ i + 1 = 4
  BY <1>4
<1> QED
  BY <1>2, <1>3, <1>5, PotCall

\* Sound and quiet calls.
LEMMA QuietCalls ==
  /\ \A g \in Nat :
       /\ Sound(ASIC_ChangeVerticalGain(g)) /\ Quiet(ASIC_ChangeVerticalGain(g))
       /\ Sound(ASIC_EnableVertical(g)) /\ Quiet(ASIC_EnableVertical(g))
       /\ Sound(ASIC_DisableVertical(g)) /\ Quiet(ASIC_DisableVertical(g))
  /\ Sound(POT_EnableHorizontal) /\ Quiet(POT_EnableHorizontal)
  /\ Sound(POT_DisableHorizontal) /\ Quiet(POT_DisableHorizontal)
  /\ Sound(ASIC_Read) /\ Quiet(ASIC_Read)
  /\ Sound(ASIC_Write) /\ Quiet(ASIC_Write)
  /\ Sound(Locked(<<Plain>>)) /\ Quiet(Locked(<<Plain>>))
  /\ Sound(ASIC_Configuration) /\ Quiet(ASIC_Configuration)
  /\ Sound(TimingCore_Configuration) /\ Quiet(TimingCore_Configuration)
  /\ Sound(VerticalController_Configuration) /\ Quiet(VerticalController_Configuration)
<1> DEFINE p == Plain
           r == Read
           o == Other
           e(b) == Enables(b)
           c(g) == Gain(g)
<1>1. p \in Still /\ r \in Still /\ o \in Still /\ \A g \in Int : c(g) \in Still
  BY StillOperations
<1>2. e({}) \in Still /\ e({"EH"}) \in Still /\ e({"EV", "EH"}) \in Still
  <2>1. {} \in Bits /\ {"EH"} \in Bits /\ {"EV", "EH"} \in Bits
    BY DEF Bits
  <2> QED
    BY <2>1, StillOperations
<1>3. 4 \in Int /\ StartGain \in Int /\ 0 \in Int
  BY GainAssumption
<1> HIDE DEF p, r, o, e, c
<1>4. ASSUME NEW g \in Nat
      PROVE  /\ Sound(ASIC_ChangeVerticalGain(g)) /\ Quiet(ASIC_ChangeVerticalGain(g))
             /\ Sound(ASIC_EnableVertical(g)) /\ Quiet(ASIC_EnableVertical(g))
             /\ Sound(ASIC_DisableVertical(g)) /\ Quiet(ASIC_DisableVertical(g))
  <2> DEFINE up == [i \in 1 .. g |-> c(i)]
             down == [i \in 1 .. g |-> c(g - i)]
  <2>1. g \in Nat /\ g \in Int
    OBVIOUS
  <2>2. \A i \in 1 .. g : i \in Int /\ g - i \in Int
    BY <2>1
  <2>3. up \in Seq(Still)
    BY <1>1, <2>1, <2>2
  <2>4. down \in Seq(Still)
    BY <1>1, <2>1, <2>2
  <2>5. <<r, r, c(g)>> \in Seq(Still)
    BY <1>1, <2>1
  <2>6. <<r, r, c(0), e({"EV", "EH"}), r>> \in Seq(Still)
    BY <1>1, <1>2, <1>3
  <2>7. <<r, r, r>> \in Seq(Still) /\ <<e({"EH"}), c(g)>> \in Seq(Still)
    BY <1>1, <1>2, <2>1
  <2> HIDE DEF up, down
  <2>8. <<r, r, c(0), e({"EV", "EH"}), r>> \o up \in Seq(Still)
    BY <2>3, <2>6
  <2>9. <<r, r, r>> \o down \o <<e({"EH"}), c(g)>> \in Seq(Still)
    BY <2>4, <2>7
  <2>10. /\ ASIC_ChangeVerticalGain(g) = Locked(<<r, r, c(g)>>)
         /\ ASIC_EnableVertical(g) = Locked(<<r, r, c(0), e({"EV", "EH"}), r>> \o up)
         /\ ASIC_DisableVertical(g) = Locked(<<r, r, r>> \o down \o <<e({"EH"}), c(g)>>)
    BY DEF ASIC_ChangeVerticalGain, ASIC_EnableVertical, ASIC_DisableVertical, up, down, r, c, e
  <2> QED
    BY <2>5, <2>8, <2>9, <2>10, StillCall
<1>5. Sound(POT_EnableHorizontal) /\ Quiet(POT_EnableHorizontal)
  <2> DEFINE rest == [i \in 1 .. 5 * 4 |-> o]
  <2>1. <<r, o, r>> \in Seq(Still)
    BY <1>1
  <2>2. rest \in Seq(Still)
    BY <1>1
  <2> HIDE DEF rest
  <2>3. <<r, o, r>> \o rest \in Seq(Still)
    BY <2>1, <2>2
  <2>4. POT_EnableHorizontal = Locked(<<r, o, r>> \o rest)
    BY DEF POT_EnableHorizontal, r, o, rest
  <2> QED
    BY <2>3, <2>4, StillCall
<1>6. Sound(POT_DisableHorizontal) /\ Quiet(POT_DisableHorizontal)
  <2>1. <<r, o>> \in Seq(Still) /\ POT_DisableHorizontal = Locked(<<r, o>>)
    BY <1>1 DEF POT_DisableHorizontal, r, o
  <2> QED
    BY <2>1, StillCall
<1>7. /\ Sound(ASIC_Read) /\ Quiet(ASIC_Read)
      /\ Sound(ASIC_Write) /\ Quiet(ASIC_Write)
      /\ Sound(Locked(<<Plain>>)) /\ Quiet(Locked(<<Plain>>))
  <2>1. <<r>> \in Seq(Still) /\ <<o>> \in Seq(Still) /\ <<p>> \in Seq(Still)
    BY <1>1
  <2>2. ASIC_Read = Locked(<<r>>) /\ ASIC_Write = Locked(<<o>>) /\ Locked(<<Plain>>) = Locked(<<p>>)
    BY DEF ASIC_Read, ASIC_Write, r, o, p
  <2> QED
    BY <2>1, <2>2, StillCall
<1>8. Sound(ASIC_Configuration) /\ Quiet(ASIC_Configuration)
  <2>1. <<r, e({}), c(4), o, e({}), r, c(StartGain), r, e({"EH"}), o>> \in Seq(Still)
    BY <1>1, <1>2, <1>3
  <2>2. ASIC_Configuration = Locked(<<r, e({}), c(4), o, e({}), r, c(StartGain), r, e({"EH"}), o>>)
    BY DEF ASIC_Configuration, r, e, c, o
  <2> QED
    BY <2>1, <2>2, StillCall
<1>9. /\ Sound(TimingCore_Configuration) /\ Quiet(TimingCore_Configuration)
      /\ Sound(VerticalController_Configuration) /\ Quiet(VerticalController_Configuration)
  <2>1. <<p, p, p, p, p>> \in Seq(Still) /\ <<o, o, p>> \in Seq(Still)
    BY <1>1
  <2>2. /\ TimingCore_Configuration = Locked(<<p, p, p, p, p>>)
        /\ VerticalController_Configuration = Locked(<<o, o, p>>)
    BY DEF TimingCore_Configuration, VerticalController_Configuration, o, p
  <2> QED
    BY <2>1, <2>2, StillCall
<1> QED
  BY <1>4, <1>5, <1>6, <1>7, <1>8, <1>9

\* The flags of one call after another, one of which has none.
LEMMA ConcatFlag ==
  ASSUME NEW a \in Seq(Operations), NEW b \in Seq(Operations), NEW f,
         OneFlag(a, f), OneFlag(b, f),
         \/ \A i \in 1 .. Len(a) : a[i].kind # "flag"
         \/ \A i \in 1 .. Len(b) : b[i].kind # "flag"
  PROVE  OneFlag(a \o b, f)
<1> DEFINE q == a \o b
<1>1. /\ Len(q) = Len(a) + Len(b) /\ Len(a) \in Nat /\ Len(b) \in Nat
      /\ \A i \in 1 .. Len(a) : q[i] = a[i]
      /\ \A i \in 1 .. Len(b) : q[i + Len(a)] = b[i]
  BY ConcatFacts
<1> HIDE DEF q
<1>2. ASSUME NEW i \in 1 .. Len(q)
      PROVE  \/ i \in 1 .. Len(a) /\ q[i] = a[i]
             \/ i - Len(a) \in 1 .. Len(b) /\ q[i] = b[i - Len(a)]
  <2>1. CASE i \in 1 .. Len(a)
    BY <1>1, <2>1
  <2>2. CASE i \notin 1 .. Len(a)
    <3>1. i - Len(a) \in 1 .. Len(b) /\ (i - Len(a)) + Len(a) = i
      BY <1>1, <2>2
    <3> QED
      BY <1>1, <3>1
  <2> QED
    BY <2>1, <2>2
<1> SUFFICES ASSUME NEW i \in 1 .. Len(q), q[i].kind = "flag"
             PROVE  /\ q[i].data = f
                    /\ \A j \in 1 .. Len(q) : q[j].kind = "flag" => j = i
  BY DEF q, OneFlag
<1>3. CASE i \in 1 .. Len(a) /\ q[i] = a[i]
  <2>1. q[i].data = f
    BY <1>3 DEF OneFlag
  <2>2. \A j \in 1 .. Len(b) : b[j].kind # "flag"
    BY <1>3
  <2>3. ASSUME NEW j \in 1 .. Len(q), q[j].kind = "flag" PROVE j = i
    <3>1. j \in 1 .. Len(a) /\ q[j] = a[j]
      BY <1>2, <2>2, <2>3
    <3> QED
      BY <1>3, <2>3, <3>1 DEF OneFlag
  <2> QED
    BY <2>1, <2>3
<1>4. CASE i - Len(a) \in 1 .. Len(b) /\ q[i] = b[i - Len(a)]
  <2>1. q[i].data = f
    BY <1>4 DEF OneFlag
  <2>2. \A j \in 1 .. Len(a) : a[j].kind # "flag"
    BY <1>4
  <2>3. ASSUME NEW j \in 1 .. Len(q), q[j].kind = "flag" PROVE j = i
    <3>1. j - Len(a) \in 1 .. Len(b) /\ q[j] = b[j - Len(a)]
      BY <1>2, <2>2, <2>3
    <3>2. j - Len(a) = i - Len(a)
      BY <1>4, <2>3, <3>1 DEF OneFlag
    <3> QED
      BY <1>1, <3>2
  <2> QED
    BY <2>1, <2>3
<1> QED
  BY <1>2, <1>3, <1>4

\* The waits before the commands to the potentiometer.
LEMMA ConcatGuarded ==
  ASSUME NEW a \in Seq(Operations), NEW b \in Seq(Operations), Guarded(a), Guarded(b)
  PROVE  Guarded(a \o b)
<1> DEFINE q == a \o b
<1>1. /\ Len(q) = Len(a) + Len(b) /\ Len(a) \in Nat /\ Len(b) \in Nat
      /\ \A i \in 1 .. Len(a) : q[i] = a[i]
      /\ \A i \in 1 .. Len(b) : q[i + Len(a)] = b[i]
  BY ConcatFacts
<1> HIDE DEF q
<1> SUFFICES ASSUME NEW i \in 1 .. Len(q), q[i].kind = "pot"
             PROVE  \E j \in 1 .. i - 1 : /\ q[j].kind \in {"await", "check"}
                                          /\ \A k \in j + 1 .. i - 1 : q[k].kind # "pot"
  BY DEF q, Guarded
<1>2. CASE i \in 1 .. Len(a)
  <2>1. a[i].kind = "pot"
    BY <1>1, <1>2
  <2>2. PICK j \in 1 .. i - 1 : /\ a[j].kind \in {"await", "check"}
                               /\ \A k \in j + 1 .. i - 1 : a[k].kind # "pot"
    BY <1>2, <2>1 DEF Guarded
  <2>3. q[j].kind \in {"await", "check"}
    BY <1>1, <1>2, <2>2
  <2>4. ASSUME NEW k \in j + 1 .. i - 1 PROVE q[k].kind # "pot"
    <3>1. k \in 1 .. Len(a) /\ a[k].kind # "pot"
      BY <1>1, <1>2, <2>2
    <3> QED
      BY <1>1, <3>1
  <2> QED
    BY <2>3, <2>4
<1>3. CASE i \notin 1 .. Len(a)
  <2>1. i - Len(a) \in 1 .. Len(b) /\ (i - Len(a)) + Len(a) = i
    BY <1>1, <1>3
  <2>2. b[i - Len(a)].kind = "pot"
    BY <1>1, <2>1
  <2>3. PICK j \in 1 .. (i - Len(a)) - 1 :
               /\ b[j].kind \in {"await", "check"}
               /\ \A k \in j + 1 .. (i - Len(a)) - 1 : b[k].kind # "pot"
    BY <2>1, <2>2 DEF Guarded
  <2>4. j + Len(a) \in 1 .. i - 1 /\ j \in 1 .. Len(b)
    BY <1>1, <2>1
  <2>5. q[j + Len(a)].kind \in {"await", "check"}
    BY <1>1, <2>3, <2>4
  <2>6. ASSUME NEW k \in (j + Len(a)) + 1 .. i - 1 PROVE q[k].kind # "pot"
    <3>1. /\ k - Len(a) \in j + 1 .. (i - Len(a)) - 1 /\ k - Len(a) \in 1 .. Len(b)
          /\ (k - Len(a)) + Len(a) = k
      BY <1>1, <2>1, <2>4
    <3> QED
      BY <1>1, <2>3, <3>1
  <2> QED
    BY <2>4, <2>5, <2>6
<1> QED
  BY <1>2, <1>3

\* A call without flags or potentiometer commands satisfies what is asked of those.
LEMMA QuietFacts ==
  ASSUME NEW q, Quiet(q), NEW f
  PROVE  /\ OneFlag(q, f) /\ Guarded(q)
         /\ \A i \in 1 .. Len(q) : q[i].kind \notin {"flag", "check", "pot"}
BY DEF Quiet, OneFlag, Guarded

\* A call that sets or clears one flag does nothing else.
LEMMA FlagCallFacts ==
  ASSUME NEW f \in {TIMING_CORE_EN, -TIMING_CORE_EN, TDC_EN, -TDC_EN}
  PROVE  /\ OneFlag(Locked(<<Flip(f)>>), f) /\ Guarded(Locked(<<Flip(f)>>))
         /\ \A i \in 1 .. Len(Locked(<<Flip(f)>>)) :
              Locked(<<Flip(f)>>)[i].kind \in {"lock", "unlock", "flag"}
<1> DEFINE q == Locked(<<Flip(f)>>)
<1>1. /\ Len(q) = 3 /\ q[1].kind = "lock" /\ q[3].kind = "unlock"
      /\ q[2].kind = "flag" /\ q[2].data = f
  BY FlagCall
<1> HIDE DEF q
<1>2. \A i \in 1 .. Len(q) : i = 1 \/ i = 2 \/ i = 3
  BY <1>1
<1>3. \A i \in 1 .. Len(q) : q[i].kind \in {"lock", "unlock", "flag"}
  BY <1>1, <1>2
<1>4. OneFlag(q, f)
  BY <1>1, <1>2 DEF OneFlag
<1>5. Guarded(q)
  BY <1>3 DEF Guarded
<1> QED
  BY <1>3, <1>4, <1>5 DEF q

\* Option 5 of the menu.
LEMMA LaserCalls ==
  ASSUME NEW f \in {TIMING_CORE_EN, -TIMING_CORE_EN},
         NEW q, q = Laser_ChangeFrequency \o Locked(<<Flip(f)>>)
  PROVE  /\ Sound(q) /\ OneFlag(q, f) /\ Guarded(q)
         /\ \A i \in 1 .. Len(q) : q[i].kind \in {"lock", "unlock", "asic", "plain", "flag"}
         /\ \E i \in 1 .. Len(q) : q[i].kind = "flag"
         /\ q[1].kind # "flag"
<1> DEFINE p == Plain
           a == Locked(<<p>>)
           b == Locked(<<Flip(f)>>)
<1>1. Sound(a) /\ Quiet(a)
  BY QuietCalls
<1>2. /\ Sound(b) /\ OneFlag(b, f) /\ Guarded(b) /\ Len(b) = 3 /\ b[2].kind = "flag"
      /\ \A i \in 1 .. Len(b) : b[i].kind \in {"lock", "unlock", "flag"}
  BY FlagCall, FlagCallFacts
<1>3. a[1].kind = "lock" /\ Len(a) = 3
  <2>1. p \in Operations /\ p.kind \notin {"lock", "unlock"}
    BY StillOperations DEF Still
  <2> HIDE DEF p
  <2> QED
    BY <2>1, OneCall
<1>4. q = a \o b
  BY DEF Laser_ChangeFrequency
<1> HIDE DEF a, b
<1>5. /\ a \in Seq(Operations) /\ b \in Seq(Operations)
      /\ OneFlag(a, f) /\ Guarded(a)
      /\ \A i \in 1 .. Len(a) : a[i].kind # "flag"
  BY <1>1, <1>2, QuietFacts DEF Sound
<1>6. Sound(q)
  BY <1>1, <1>2, <1>4, ConcatLock DEF Sound
<1>7. OneFlag(q, f) /\ Guarded(q)
  BY <1>2, <1>4, <1>5, ConcatFlag, ConcatGuarded
<1>8. /\ Len(q) = Len(a) + Len(b) /\ Len(a) \in Nat /\ Len(b) \in Nat
      /\ \A i \in 1 .. Len(a) : q[i] = a[i]
      /\ \A i \in 1 .. Len(b) : q[i + Len(a)] = b[i]
  <2>1. a \in Seq(Operations) /\ b \in Seq(Operations)
    BY <1>5
  <2>2. /\ Len(a \o b) = Len(a) + Len(b) /\ Len(a) \in Nat /\ Len(b) \in Nat
        /\ \A i \in 1 .. Len(a) : (a \o b)[i] = a[i]
        /\ \A i \in 1 .. Len(b) : (a \o b)[i + Len(a)] = b[i]
    BY <2>1, ConcatFacts
  <2> QED
    BY <1>4, <2>2
<1>9. ASSUME NEW i \in 1 .. Len(q) PROVE q[i].kind \in {"lock", "unlock", "asic", "plain", "flag"}
  <2>1. CASE i \in 1 .. Len(a)
    <3>1. a[i].kind \in {"lock", "unlock", "asic", "plain"}
      BY <1>1, <2>1 DEF Quiet
    <3> QED
      BY <1>8, <2>1, <3>1
  <2>2. CASE i \notin 1 .. Len(a)
    <3>1. i - Len(a) \in 1 .. Len(b) /\ (i - Len(a)) + Len(a) = i
      BY <1>8, <2>2
    <3>2. b[i - Len(a)].kind \in {"lock", "unlock", "flag"}
      BY <1>2, <3>1
    <3> QED
      BY <1>8, <3>1, <3>2
  <2> QED
    BY <2>1, <2>2
<1>10. q[1].kind # "flag"
  <2>1. 1 \in 1 .. Len(a)
    BY <1>3
  <2> QED
    BY <1>3, <1>8, <2>1
<1>11. \E i \in 1 .. Len(q) : q[i].kind = "flag"
  <2>1. 2 \in 1 .. Len(b) /\ 2 + Len(a) \in 1 .. Len(q)
    BY <1>2, <1>3, <1>8
  <2>2. q[2 + Len(a)] = b[2]
    BY <1>8, <2>1
  <2> QED
    BY <1>2, <2>1, <2>2
<1> QED
  BY <1>6, <1>7, <1>9, <1>10, <1>11

\* The configuration of the potentiometer is locked, and waits before each command.
LEMMA PotConfiguration ==
  /\ Sound(POT_Configuration) /\ Guarded(POT_Configuration)
  /\ \A i \in 1 .. Len(POT_Configuration) :
       POT_Configuration[i].kind \in {"lock", "unlock", "await", "pot"}
<1> DEFINE w == Op("await", "", 0)
           p == PotCommand
           ops == <<w, p, w, p, w, p>>
           q == Locked(ops)
<1>1. w \in Operations /\ w.kind = "await" /\ p \in Operations /\ p.kind = "pot"
  BY DEF Operations, PotCommand, Op
<1>2. q = POT_Configuration
  BY DEF POT_Configuration
<1> HIDE DEF w, p, q
<1>3. /\ ops \in Seq(Operations) /\ Len(ops) = 6
      /\ ops[1] = w /\ ops[2] = p /\ ops[3] = w /\ ops[4] = p /\ ops[5] = w /\ ops[6] = p
  BY <1>1
<1> HIDE DEF ops
<1>4. \A i \in 1 .. Len(ops) : i = 1 \/ i = 2 \/ i = 3 \/ i = 4 \/ i = 5 \/ i = 6
  BY <1>3
<1>5. \A i \in 1 .. Len(ops) : ops[i].kind \notin {"lock", "unlock"}
  BY <1>1, <1>3, <1>4
<1>6. /\ Sound(q) /\ Len(q) = 8 /\ q[1].kind = "lock" /\ q[8].kind = "unlock"
      /\ \A i \in 1 .. 6 : q[i + 1] = ops[i]
  <2>1. /\ Sound(q) /\ Len(q) = Len(ops) + 2
        /\ q[1].kind = "lock" /\ q[Len(ops) + 2].kind = "unlock"
        /\ \A i \in 1 .. Len(ops) : q[i + 1] = ops[i]
    BY <1>3, <1>5, LockedFacts DEF Sound, q
  <2> QED
    BY <1>3, <2>1
<1>7. /\ q[1 + 1] = w /\ q[2 + 1] = p /\ q[3 + 1] = w
      /\ q[4 + 1] = p /\ q[5 + 1] = w /\ q[6 + 1] = p
  BY <1>3, <1>6
<1>8. /\ q[2].kind = "await" /\ q[3].kind = "pot" /\ q[4].kind = "await"
      /\ q[5].kind = "pot" /\ q[6].kind = "await" /\ q[7].kind = "pot"
  BY <1>1, <1>7
<1>9. \A i \in 1 .. Len(q) : \/ i = 1 \/ i = 2 \/ i = 3 \/ i = 4
                           \/ i = 5 \/ i = 6 \/ i = 7 \/ i = 8
  BY <1>6
<1>10. \A i \in 1 .. Len(q) : q[i].kind \in {"lock", "unlock", "await", "pot"}
  BY <1>6, <1>8, <1>9
<1>11. \A i \in 1 .. Len(q) : q[i].kind = "pot" => i = 3 \/ i = 5 \/ i = 7
  BY <1>6, <1>8, <1>9
<1>12. \A i \in 1 .. Len(q) : q[i].kind = "pot" =>
         /\ i - 1 \in 1 .. i - 1 /\ q[i - 1].kind = "await"
         /\ \A k \in (i - 1) + 1 .. i - 1 : q[k].kind # "pot"
  BY <1>8, <1>11
<1>13. Guarded(q)
  BY <1>12 DEF Guarded
<1> QED
  BY <1>2, <1>6, <1>10, <1>13

\* The calls of ConfigurationThread.
ConfigurationCalls ==
  ASIC_Configuration \o POT_Configuration \o TimingCore_Configuration
    \o TimingCore_Enable \o VerticalController_Configuration

\* The calls of ConfigurationThread, put together, are locked, raise one flag and wait
\* before each command for the potentiometer.
LEMMA ConfigCall ==
  ASSUME NEW q, q = ConfigurationCalls
  PROVE  /\ Sound(q) /\ OneFlag(q, TIMING_CORE_EN) /\ Guarded(q)
         /\ \A i \in 1 .. Len(q) : q[i].kind # "check"
         /\ \E i \in 1 .. Len(q) : q[i].kind = "flag"
<1> DEFINE F == TIMING_CORE_EN
           a == ASIC_Configuration
           p == POT_Configuration
           c == TimingCore_Configuration
           e == TimingCore_Enable
           v == VerticalController_Configuration
           K == Kinds \ {"check", "flag"}
           ap == a \o p
           apc == ap \o c
           apce == apc \o e
<1>1. /\ Sound(a) /\ OneFlag(a, F) /\ Guarded(a)
      /\ \A i \in 1 .. Len(a) : a[i].kind \in K
  BY QuietCalls, QuietFacts DEF Quiet, Kinds
<1>2. /\ Sound(p) /\ OneFlag(p, F) /\ Guarded(p)
      /\ \A i \in 1 .. Len(p) : p[i].kind \in K
  <2>1. /\ Sound(p) /\ Guarded(p)
        /\ \A i \in 1 .. Len(p) : p[i].kind \in {"lock", "unlock", "await", "pot"}
    BY PotConfiguration
  <2> QED
    BY <2>1 DEF OneFlag, Kinds
<1>3. /\ Sound(c) /\ OneFlag(c, F) /\ Guarded(c)
      /\ \A i \in 1 .. Len(c) : c[i].kind \in K
  BY QuietCalls, QuietFacts DEF Quiet, Kinds
<1>4. /\ Sound(e) /\ OneFlag(e, F) /\ Guarded(e) /\ Len(e) = 3 /\ e[2].kind = "flag"
      /\ \A i \in 1 .. Len(e) : e[i].kind # "check"
  <2>1. e = Locked(<<Flip(F)>>)
    BY DEF TimingCore_Enable
  <2>2. F \in {TIMING_CORE_EN, -TIMING_CORE_EN, TDC_EN, -TDC_EN}
    OBVIOUS
  <2> HIDE DEF e, F
  <2>3. \A i \in 1 .. Len(e) : e[i].kind \in {"lock", "unlock", "flag"}
    BY <2>1, <2>2, FlagCallFacts
  <2>4. \A i \in 1 .. Len(e) : e[i].kind # "check"
    BY <2>3
  <2> QED
    BY <2>1, <2>2, <2>4, FlagCall, FlagCallFacts
<1>5. /\ Sound(v) /\ OneFlag(v, F) /\ Guarded(v)
      /\ \A i \in 1 .. Len(v) : v[i].kind \in K
  BY QuietCalls, QuietFacts DEF Quiet, Kinds
<1>6. q = apce \o v
  BY DEF ConfigurationCalls
<1>7. \A k \in K : k # "flag" /\ k # "check"
  OBVIOUS
<1> HIDE DEF F, a, p, c, e, v, K, ap, apc, apce
<1>8. /\ Sound(ap) /\ OneFlag(ap, F) /\ Guarded(ap)
      /\ \A i \in 1 .. Len(ap) : ap[i].kind \in K
  <2>1. a \in Seq(Operations) /\ p \in Seq(Operations)
    BY <1>1, <1>2 DEF Sound
  <2>2. Sound(ap)
    BY <1>1, <1>2, ConcatLock DEF Sound, ap
  <2>3. Guarded(ap)
    BY <1>1, <1>2, <2>1, ConcatGuarded DEF ap
  <2>4. \A i \in 1 .. Len(ap) : ap[i].kind \in K
    BY <1>1, <1>2, <2>1, ConcatKinds DEF ap
  <2>5. OneFlag(ap, F)
    BY <1>7, <2>4 DEF OneFlag
  <2> QED
    BY <2>2, <2>3, <2>4, <2>5
<1>9. /\ Sound(apc) /\ OneFlag(apc, F) /\ Guarded(apc)
      /\ \A i \in 1 .. Len(apc) : apc[i].kind \in K
  <2>1. ap \in Seq(Operations) /\ c \in Seq(Operations)
    BY <1>8, <1>3 DEF Sound
  <2>2. Sound(apc)
    BY <1>8, <1>3, ConcatLock DEF Sound, apc
  <2>3. Guarded(apc)
    BY <1>8, <1>3, <2>1, ConcatGuarded DEF apc
  <2>4. \A i \in 1 .. Len(apc) : apc[i].kind \in K
    BY <1>8, <1>3, <2>1, ConcatKinds DEF apc
  <2>5. OneFlag(apc, F)
    BY <1>7, <2>4 DEF OneFlag
  <2> QED
    BY <2>2, <2>3, <2>4, <2>5
<1> DEFINE N == Kinds \ {"check"}
<1>10. /\ Sound(apce) /\ OneFlag(apce, F) /\ Guarded(apce)
       /\ \A i \in 1 .. Len(apce) : apce[i].kind # "check"
       /\ \E i \in 1 .. Len(apce) : apce[i].kind = "flag"
  <2>1. apc \in Seq(Operations) /\ e \in Seq(Operations)
    BY <1>9, <1>4 DEF Sound
  <2>2. Sound(apce)
    BY <1>9, <1>4, ConcatLock DEF Sound, apce
  <2>3. Guarded(apce)
    BY <1>9, <1>4, <2>1, ConcatGuarded DEF apce
  <2>4. \A i \in 1 .. Len(apc) : apc[i].kind # "flag" /\ apc[i].kind # "check"
    BY <1>7, <1>9
  <2>5. OneFlag(apce, F)
    BY <1>4, <1>9, <2>1, <2>4, ConcatFlag DEF apce
  <2>6. /\ Len(apce) = Len(apc) + Len(e) /\ Len(apc) \in Nat
        /\ \A i \in 1 .. Len(apc) : apce[i] = apc[i]
        /\ \A i \in 1 .. Len(e) : apce[i + Len(apc)] = e[i]
    BY <2>1, ConcatFacts DEF apce
  <2>7. 2 + Len(apc) \in 1 .. Len(apce) /\ 2 \in 1 .. Len(e)
    BY <1>4, <2>6
  <2>8. apce[2 + Len(apc)].kind = "flag"
    BY <1>4, <2>6, <2>7
  <2>9. ASSUME NEW i \in 1 .. Len(apce) PROVE apce[i].kind # "check"
    <3>1. CASE i \in 1 .. Len(apc)
      BY <2>4, <2>6, <3>1
    <3>2. CASE i \notin 1 .. Len(apc)
      <4>1. i - Len(apc) \in 1 .. Len(e) /\ (i - Len(apc)) + Len(apc) = i
        BY <1>4, <2>6, <3>2
      <4>2. e[i - Len(apc)].kind # "check"
        BY <1>4, <4>1
      <4> QED
        BY <2>6, <4>1, <4>2
    <3> QED
      BY <3>1, <3>2
  <2> QED
    BY <2>2, <2>3, <2>5, <2>7, <2>8, <2>9
<1>11. apce \in Seq(Operations) /\ v \in Seq(Operations)
  BY <1>10, <1>5 DEF Sound
<1>12. Sound(q)
  BY <1>6, <1>10, <1>5, ConcatLock DEF Sound
<1>13. Guarded(q)
  BY <1>6, <1>10, <1>5, <1>11, ConcatGuarded
<1>14. \A i \in 1 .. Len(v) : v[i].kind # "flag" /\ v[i].kind # "check"
  BY <1>5, <1>7
<1>15. OneFlag(q, F)
  BY <1>5, <1>6, <1>10, <1>11, <1>14, ConcatFlag
<1>16. /\ Len(q) = Len(apce) + Len(v) /\ Len(apce) \in Nat /\ Len(v) \in Nat
       /\ \A i \in 1 .. Len(apce) : q[i] = apce[i]
       /\ \A i \in 1 .. Len(v) : q[i + Len(apce)] = v[i]
  BY <1>6, <1>11, ConcatFacts
<1>17. \E i \in 1 .. Len(q) : q[i].kind = "flag"
  <2>1. PICK i \in 1 .. Len(apce) : apce[i].kind = "flag"
    BY <1>10
  <2>2. i \in 1 .. Len(q) /\ q[i] = apce[i]
    BY <1>16
  <2> QED
    BY <2>1, <2>2
<1>18. ASSUME NEW i \in 1 .. Len(q) PROVE q[i].kind # "check"
  <2>1. CASE i \in 1 .. Len(apce)
    BY <1>10, <1>16, <2>1
  <2>2. CASE i \notin 1 .. Len(apce)
    <3>1. i - Len(apce) \in 1 .. Len(v) /\ (i - Len(apce)) + Len(apce) = i
      BY <1>16, <2>2
    <3>2. v[i - Len(apce)].kind # "check"
      BY <1>14, <3>1
    <3> QED
      BY <1>16, <3>1, <3>2
  <2> QED
    BY <2>1, <2>2
<1> QED
  BY <1>12, <1>13, <1>15, <1>17, <1>18 DEF F
-----------------------------------------------------------------------------
\* What the calls of the menu have in common.
LEMMA MenuCalls ==
  ASSUME TypeInv, Interface
  PROVE  \/ Shutdown
         \/ \E q : /\ Call("interface", q) /\ Sound(q) /\ Guarded(q) /\ ChecksOf(q)
                  /\ \/ enL' = enL /\ NoFlag(q)
                     \/ /\ enL' = ~enL
                        /\ OneFlag(q, IF enL THEN -TIMING_CORE_EN ELSE TIMING_CORE_EN)
                        /\ ~NoFlag(q) /\ q[1].kind # "flag"
                  /\ enV' \in BOOLEAN /\ lastVgain' \in Int
                  /\ UNCHANGED <<dma_state, stop>>
<1>0. /\ enL \in BOOLEAN /\ enV \in BOOLEAN /\ lastVgain \in Int
      /\ Gains \subseteq Int /\ \A g \in Int : Char(g) \in Nat
  BY GainAssumption, CharFacts DEF TypeInv
<1> DEFINE Quick(q) == /\ Call("interface", q) /\ Sound(q) /\ Quiet(q) /\ enL' = enL
                       /\ enV' \in BOOLEAN /\ lastVgain' \in Int
                       /\ UNCHANGED <<dma_state, stop>>
<1>1. ASSUME NEW q, Quick(q)
      PROVE  /\ Call("interface", q) /\ Sound(q) /\ Guarded(q) /\ ChecksOf(q)
             /\ enL' = enL /\ NoFlag(q)
             /\ enV' \in BOOLEAN /\ lastVgain' \in Int
             /\ UNCHANGED <<dma_state, stop>>
  BY <1>1, QuietFacts DEF ChecksOf, NoFlag
<1>2. CASE HorizontalGain
  <2> DEFINE q == POT_ChangeHorizontalGain
  <2>1. /\ Call("interface", q) /\ enL' = enL /\ enV' \in BOOLEAN
        /\ lastVgain' \in Int /\ UNCHANGED <<dma_state, stop>>
    BY <1>0, <1>2 DEF HorizontalGain, Menu
  <2>2. ChecksOf(q)
    BY DEF ChecksOf
  <2>3. /\ Sound(q) /\ Len(q) = 4 /\ q[1].kind = "check" /\ q[2].kind = "lock"
        /\ q[3].kind = "pot" /\ q[4].kind = "unlock"
    BY PotCall
  <2> HIDE DEF q
  <2>4. \A i \in 1 .. Len(q) : i = 1 \/ i = 2 \/ i = 3 \/ i = 4
    BY <2>3
  <2>5. NoFlag(q)
    BY <2>3, <2>4 DEF NoFlag
  <2>6. \A i \in 1 .. Len(q) : q[i].kind = "pot" => i = 3
    BY <2>3, <2>4
  <2>7. 1 \in 1 .. 3 - 1 /\ \A k \in 1 + 1 .. 3 - 1 : q[k].kind # "pot"
    BY <2>3
  <2>8. Guarded(q)
    BY <2>3, <2>6, <2>7 DEF Guarded
  <2> QED
    BY <2>1, <2>2, <2>3, <2>5, <2>8
<1>3. CASE VerticalGain
  <2>1. PICK g \in Gains : /\ Menu(2, ASIC_ChangeVerticalGain(Char(g)))
                           /\ lastVgain' = g /\ UNCHANGED <<enH, enV, enL>>
    BY <1>3 DEF VerticalGain
  <2>2. Quick(ASIC_ChangeVerticalGain(Char(g)))
    BY <1>0, <2>1, QuietCalls DEF Menu
  <2> QED
    BY <1>1, <2>2
<1>4. CASE Horizontal
  <2>1. Quick(POT_DisableHorizontal) \/ Quick(POT_EnableHorizontal)
    <3>1. CASE enH
      BY <1>0, <1>4, <3>1, QuietCalls DEF Horizontal, Menu
    <3>2. CASE ~enH
      BY <1>0, <1>4, <3>2, QuietCalls DEF Horizontal, Menu
    <3> QED
      BY <3>1, <3>2
  <2> QED
    BY <1>1, <2>1
<1>5. CASE Vertical
  <2>1. Quick(ASIC_DisableVertical(Char(lastVgain))) \/ Quick(ASIC_EnableVertical(Char(lastVgain)))
    <3>1. CASE enV
      BY <1>0, <1>5, <3>1, QuietCalls DEF Vertical, Menu
    <3>2. CASE ~enV
      BY <1>0, <1>5, <3>2, QuietCalls DEF Vertical, Menu
    <3> QED
      BY <3>1, <3>2
  <2> QED
    BY <1>1, <2>1
<1>6. CASE Laser
  <2> DEFINE f == IF enL THEN -TIMING_CORE_EN ELSE TIMING_CORE_EN
             q == Laser_ChangeFrequency \o Locked(<<Flip(f)>>)
  <2>1. /\ Call("interface", q) /\ enL' = ~enL /\ enV' \in BOOLEAN
        /\ lastVgain' \in Int /\ UNCHANGED <<dma_state, stop>>
    <3>1. (IF enL THEN TimingCore_Disable ELSE TimingCore_Enable) = Locked(<<Flip(f)>>)
      BY DEF TimingCore_Disable, TimingCore_Enable
    <3> QED
      BY <1>0, <1>6, <3>1 DEF Laser, Menu
  <2>2. f \in {TIMING_CORE_EN, -TIMING_CORE_EN}
    OBVIOUS
  <2>3. /\ Sound(q) /\ OneFlag(q, f) /\ Guarded(q)
        /\ \A i \in 1 .. Len(q) : q[i].kind \in {"lock", "unlock", "asic", "plain", "flag"}
        /\ \E i \in 1 .. Len(q) : q[i].kind = "flag"
        /\ q[1].kind # "flag"
    BY <2>2, LaserCalls
  <2> HIDE DEF q
  <2>4. ChecksOf(q) /\ ~NoFlag(q)
    BY <2>3 DEF ChecksOf, NoFlag
  <2> QED
    BY <2>1, <2>3, <2>4
<1>7. CASE LaserFrequency
  <2>1. Quick(Locked(<<Plain>>))
    BY <1>0, <1>7, QuietCalls DEF LaserFrequency, Menu, Laser_ChangeFrequency
  <2> QED
    BY <1>1, <2>1
<1>8. CASE AsicRegister
  <2>1. Quick(ASIC_Read) \/ Quick(ASIC_Write)
    BY <1>0, <1>8, QuietCalls DEF AsicRegister, Menu
  <2> QED
    BY <1>1, <2>1
<1>9. CASE VerticalLine
  <2>1. Quick(Locked(<<Plain>>))
    BY <1>0, <1>9, QuietCalls DEF VerticalLine, Menu, UpdateVerticalPosition
  <2> QED
    BY <1>1, <2>1
<1> QED
  BY <1>2, <1>3, <1>4, <1>5, <1>6, <1>7, <1>8, <1>9 DEF Interface

\* A call of another thread is locked, begins outside the lock, and comes after the
\* configuration.
LEMMA LockingCall ==
  ASSUME Locking, NEW t \in Threads, t # "config", NEW q,
         Call(t, q), Sound(q), ChecksOf(q),
         enL' \in BOOLEAN, enV' \in BOOLEAN, lastVgain' \in Int
  PROVE  Locking'
<1>1. /\ todo["config"] = <<>> /\ todo[t] = <<>> /\ todo' = [todo EXCEPT ![t] = q]
      /\ UNCHANGED <<owner, at, loaded, axiReg2_data, arm, pot_spi_ready>>
  BY DEF Call
<1>2. /\ todo \in [Threads -> Seq(Operations)] /\ at \in [Threads -> 0 .. 7]
      /\ \A u \in Threads : at[u] > 0 => todo[u] # <<>> /\ at[u] < Len(Accesses(Head(todo[u])))
  BY DEF Locking, TypeInv
<1>3. q \in Seq(Operations) /\ WellLocked(q) /\ ~InLock(q, 1)
  BY DEF Sound
<1>4. todo' \in [Threads -> Seq(Operations)]
  BY <1>1, <1>2, <1>3
<1>5. \A u \in Threads : u # t => todo'[u] = todo[u]
  BY <1>1, <1>2
<1>6. todo'[t] = q /\ todo'["config"] = <<>>
  BY <1>1, <1>2 DEF Threads
<1>7. \A u \in Threads : at'[u] > 0 => todo'[u] # <<>> /\ at'[u] < Len(Accesses(Head(todo'[u])))
  BY <1>1, <1>2, <1>5
<1>8. TypeInv'
  BY <1>1, <1>2, <1>4, <1>7 DEF Locking, TypeInv
<1>9. \A u \in Threads : WellLocked(todo'[u]) /\ (InLock(todo'[u], 1) <=> owner' = u)
  <2>1. ~InLock(<<>>, 1)
    BY DEF InLock
  <2>2. owner # t
    BY <1>1, <2>1 DEF Locking, LockInv
  <2> QED
    BY <1>1, <1>3, <1>5, <1>6, <2>2 DEF Locking, LockInv
<1>10. \A u \in Threads : \A i \in 1 .. Len(todo'[u]) :
         todo'[u][i].kind = "check" => todo'[u] = POT_ChangeHorizontalGain
  BY <1>5, <1>6 DEF Locking, LockInv, ChecksOf
<1>11. LockInv'
  BY <1>6, <1>9, <1>10 DEF LockInv
<1> QED
  BY <1>8, <1>11 DEF Locking

\* The sequence of operations that is left after an access.
LEMMA LeftAfter ==
  ASSUME Locking, NEW t \in Threads, Access(t), NEW q, q = todo[t]
  PROVE  /\ \A u \in Threads : u # t => todo'[u] = todo[u] /\ at'[u] = at[u]
         /\ q \in Seq(Operations) /\ q # <<>> /\ q[1] = Head(q) /\ q[1] \in Operations
         /\ Len(q) \in Nat \ {0} /\ at[t] \in 0 .. 7 /\ at'[t] \in 0 .. 7
         /\ q[1].kind \notin Shared => at[t] = 0
         /\ \/ /\ q[1].kind \in Shared /\ todo'[t] = q /\ at'[t] = at[t] + 1
               /\ at'[t] < Len(Accesses(q[1]))
            \/ /\ q[1].kind \in Shared => at[t] + 1 = Len(Accesses(q[1]))
               /\ q[1].kind = "check" => pot_spi_ready
               /\ todo'[t] = Tail(q) /\ at'[t] = 0
            \/ /\ q[1].kind = "check" /\ ~pot_spi_ready /\ q = POT_ChangeHorizontalGain
               /\ todo'[t] = <<>> /\ at'[t] = 0
         /\ todo' \in [Threads -> Seq(Operations)] /\ at' \in [Threads -> 0 .. 7]
<1>1. /\ todo \in [Threads -> Seq(Operations)] /\ at \in [Threads -> 0 .. 7]
      /\ \A u \in Threads : at[u] > 0 => todo[u] # <<>> /\ at[u] < Len(Accesses(Head(todo[u])))
  BY DEF Locking, TypeInv
<1>2. TypeInv
  BY DEF Locking
<1>3. todo[t] # <<>>
  BY DEF Access
<1>4. /\ q \in Seq(Operations) /\ q # <<>> /\ Len(q) \in Nat \ {0} /\ q[1] = Head(q)
      /\ q[1] \in Operations /\ 1 \in 1 .. Len(q)
  BY <1>1, <1>3
<1>5. q[1].kind = "check" => q = POT_ChangeHorizontalGain
  BY <1>4 DEF Locking, LockInv
<1>6. q[1].kind \notin Shared => at[t] = 0
  BY <1>2, <1>3, <1>4, WhatNext
<1>7. \/ /\ q[1].kind \in Shared /\ at[t] + 1 < Len(Accesses(q[1]))
         /\ todo' = todo /\ at' = [at EXCEPT ![t] = @ + 1]
      \/ /\ q[1].kind = "check" => pot_spi_ready
         /\ q[1].kind \in Shared => at[t] + 1 = Len(Accesses(q[1]))
         /\ todo' = [todo EXCEPT ![t] = Tail(todo[t])]
         /\ at' = [at EXCEPT ![t] = 0]
      \/ /\ q[1].kind = "check" /\ ~pot_spi_ready
         /\ todo' = [todo EXCEPT ![t] = <<>>] /\ at' = [at EXCEPT ![t] = 0]
  BY <1>2, <1>4, Moves
<1>8. CASE /\ q[1].kind \in Shared /\ at[t] + 1 < Len(Accesses(q[1]))
           /\ todo' = todo /\ at' = [at EXCEPT ![t] = @ + 1]
  <2>1. at'[t] = at[t] + 1 /\ \A u \in Threads : u # t => at'[u] = at[u]
    BY <1>1, <1>8
  <2>2. at[t] + 1 \in 0 .. 7
    <3>1. /\ q[1].kind = "asic" => Len(Accesses(q[1])) = 8
          /\ q[1].kind = "pot" => Len(Accesses(q[1])) = 7
          /\ q[1].kind = "flag" => Len(Accesses(q[1])) = 3
      BY AccessesOf
    <3>2. \/ at[t] + 1 < 8 \/ at[t] + 1 < 7 \/ at[t] + 1 < 3
      BY <1>8, <3>1 DEF Shared
    <3> QED
      BY <1>1, <3>2
  <2>3. at' \in [Threads -> 0 .. 7]
    BY <1>1, <1>8, <2>2
  <2> QED
    BY <1>1, <1>4, <1>6, <1>8, <2>1, <2>2, <2>3
<1>9. CASE /\ q[1].kind = "check" => pot_spi_ready
           /\ q[1].kind \in Shared => at[t] + 1 = Len(Accesses(q[1]))
           /\ todo' = [todo EXCEPT ![t] = Tail(todo[t])]
           /\ at' = [at EXCEPT ![t] = 0]
  <2>1. /\ at'[t] = 0 /\ todo'[t] = Tail(q)
        /\ \A u \in Threads : u # t => todo'[u] = todo[u] /\ at'[u] = at[u]
        /\ at' \in [Threads -> 0 .. 7]
    BY <1>1, <1>9
  <2>2. Tail(todo[t]) \in Seq(Operations)
    BY <1>4
  <2>3. todo' \in [Threads -> Seq(Operations)]
    BY <1>1, <1>9, <2>2
  <2> QED
    BY <1>1, <1>4, <1>6, <1>9, <2>1, <2>3
<1>10. CASE /\ q[1].kind = "check" /\ ~pot_spi_ready
            /\ todo' = [todo EXCEPT ![t] = <<>>] /\ at' = [at EXCEPT ![t] = 0]
  <2>1. /\ at'[t] = 0 /\ todo'[t] = <<>>
        /\ \A u \in Threads : u # t => todo'[u] = todo[u] /\ at'[u] = at[u]
        /\ at' \in [Threads -> 0 .. 7]
    BY <1>1, <1>10
  <2>2. todo' \in [Threads -> Seq(Operations)]
    BY <1>1, <1>10
  <2> QED
    BY <1>1, <1>4, <1>5, <1>6, <1>10, <2>1, <2>2
<1> QED
  BY <1>7, <1>8, <1>9, <1>10

\* An access keeps the lock with the thread that is inside a locked part of its call.
LEMMA LockingAccess ==
  ASSUME Locking, NEW t \in Threads, Access(t)
  PROVE  Locking'
<1> DEFINE q == todo[t]
<1>1. /\ \A u \in Threads : u # t => todo'[u] = todo[u] /\ at'[u] = at[u]
      /\ q \in Seq(Operations) /\ q # <<>> /\ q[1] = Head(q) /\ q[1] \in Operations
      /\ Len(q) \in Nat \ {0} /\ at[t] \in 0 .. 7 /\ at'[t] \in 0 .. 7
      /\ \/ /\ q[1].kind \in Shared /\ todo'[t] = q /\ at'[t] = at[t] + 1
            /\ at'[t] < Len(Accesses(q[1]))
         \/ /\ todo'[t] = Tail(q) /\ at'[t] = 0
         \/ /\ q[1].kind = "check" /\ q = POT_ChangeHorizontalGain
            /\ todo'[t] = <<>> /\ at'[t] = 0
      /\ todo' \in [Threads -> Seq(Operations)] /\ at' \in [Threads -> 0 .. 7]
  BY LeftAfter
<1>2. /\ owner' = IF q[1].kind = "lock" THEN t ELSE IF q[1].kind = "unlock" THEN "none" ELSE owner
      /\ q[1].kind = "lock" => owner = "none"
      /\ loaded' = IF Loading(t) THEN [loaded EXCEPT ![t] = axiReg2_data]
                   ELSE IF Storing(t) THEN [loaded EXCEPT ![t] = 0] ELSE loaded
      /\ axiReg2_data' = IF Storing(t) THEN loaded[t] + Change(t) ELSE axiReg2_data
      /\ arm' = IF Putting(t) THEN [arm EXCEPT !.ctrl = axiReg2_data]
                ELSE IF Mid(t, "asic", {0}) THEN [arm EXCEPT !.data = q[1].data]
                ELSE IF Mid(t, "asic", {1}) THEN [arm EXCEPT !.addr = q[1].addr] ELSE arm
  BY <1>1, Effects DEF Locking
<1>3. /\ WellLocked(q) /\ (InLock(q, 1) <=> owner = t)
      /\ \A i \in 1 .. Len(q) : q[i].kind = "check" => q = POT_ChangeHorizontalGain
      /\ todo["config"] # <<>> => \A u \in Threads \ {"config"} : todo[u] = <<>>
      /\ \A u \in Threads : WellLocked(todo[u]) /\ (InLock(todo[u], 1) <=> owner = u)
      /\ \A u \in Threads : \A i \in 1 .. Len(todo[u]) :
                todo[u][i].kind = "check" => todo[u] = POT_ChangeHorizontalGain
  BY DEF Locking, LockInv
<1>4. TypeInv'
  <2>1. /\ owner \in Threads \cup {"none"} /\ loaded \in [Threads -> Int] /\ axiReg2_data \in Int
        /\ DOMAIN arm = {"data", "addr", "ctrl"} /\ arm.ctrl \in Int
        /\ enL \in BOOLEAN /\ enV \in BOOLEAN /\ lastVgain \in Int
        /\ pot_spi_ready \in BOOLEAN
        /\ \A u \in Threads : at[u] > 0 => todo[u] # <<>> /\ at[u] < Len(Accesses(Head(todo[u])))
    BY DEF Locking, TypeInv
  <2>2. UNCHANGED <<enL, enV, lastVgain>> /\ PotTakes
    BY DEF Access, menuVars
  <2>3. Storing(t) => Change(t) \in Int
    <3>1. q[1].kind = "flag" => q[1].data \in Int
      <4>1. q[1].kind = "flag" => q[1].data \in {4, -4, 32, -32}
        BY <1>1, OperationFacts
      <4> QED
        BY <4>1
    <3>2. CASE Mid(t, "flag", {1})
      <4>1. Change(t) = q[1].data /\ q[1].kind = "flag"
        BY <1>1, <3>2 DEF Change, Mid
      <4> QED
        BY <3>1, <4>1
    <3>3. CASE Mid(t, "asic", {3, 6}) \/ Mid(t, "pot", {2, 5})
      <4>1. Change(t) \in {1, -1, 2, -2}
        BY <3>3 DEF Change, Mid
      <4> QED
        BY <4>1
    <3> QED
      BY <3>2, <3>3 DEF Storing
  <2>4. owner' \in Threads \cup {"none"}
    BY <1>2, <2>1
  <2>5. loaded' \in [Threads -> Int]
    BY <1>2, <2>1
  <2>6. axiReg2_data' \in Int
    BY <1>2, <2>1, <2>3
  <2>7. DOMAIN arm' = {"data", "addr", "ctrl"} /\ arm'.ctrl \in Int
    BY <1>2, <2>1
  <2>8. pot_spi_ready' \in BOOLEAN
    BY <2>1, <2>2 DEF PotTakes
  <2>9. \A u \in Threads : at'[u] > 0 => todo'[u] # <<>> /\ at'[u] < Len(Accesses(Head(todo'[u])))
    <3>1. ASSUME NEW u \in Threads, u # t, at'[u] > 0
          PROVE  todo'[u] # <<>> /\ at'[u] < Len(Accesses(Head(todo'[u])))
      BY <1>1, <2>1, <3>1
    <3>2. ASSUME at'[t] > 0
          PROVE  todo'[t] # <<>> /\ at'[t] < Len(Accesses(Head(todo'[t])))
      <4>1. ~(0 > 0)
        OBVIOUS
      <4> QED
        BY <1>1, <3>2, <4>1
    <3> QED
      BY <3>1, <3>2
  <2> QED
    BY <1>1, <2>1, <2>2, <2>4, <2>5, <2>6, <2>7, <2>8, <2>9 DEF TypeInv
<1>5. /\ WellLocked(todo'[t]) /\ (InLock(todo'[t], 1) <=> owner' = t)
      /\ \A i \in 1 .. Len(todo'[t]) : todo'[t][i].kind = "check" => todo'[t] = POT_ChangeHorizontalGain
  <2>1. CASE q[1].kind \in Shared /\ todo'[t] = q
    BY <1>2, <1>3, <2>1 DEF Shared
  <2>2. CASE todo'[t] = Tail(q)
    <3>1. /\ WellLocked(Tail(q))
          /\ q[1].kind = "lock" => ~InLock(q, 1) /\ InLock(Tail(q), 1)
          /\ q[1].kind = "unlock" => InLock(q, 1) /\ ~InLock(Tail(q), 1)
          /\ q[1].kind \notin {"lock", "unlock"} => (InLock(q, 1) <=> InLock(Tail(q), 1))
      BY <1>1, <1>3, TailLock
    <3>2. \A i \in 1 .. Len(Tail(q)) : Tail(q)[i].kind # "check"
      BY <1>1, <1>3, ChecksOnlyInPot
    <3>3. t # "none"
      BY DEF Threads
    <3> QED
      BY <1>2, <1>3, <2>2, <3>1, <3>2, <3>3
  <2>3. CASE q[1].kind = "check" /\ q = POT_ChangeHorizontalGain /\ todo'[t] = <<>>
    <3>1. ~InLock(q, 1)
      BY <2>3, PotCall DEF Sound
    <3>2. owner' # t
      BY <1>2, <1>3, <2>3, <3>1
    <3> QED
      BY <2>3, <3>2 DEF WellLocked, InLock
  <2> QED
    BY <1>1, <2>1, <2>2, <2>3
<1>6. ASSUME NEW u \in Threads, u # t
      PROVE  /\ WellLocked(todo'[u]) /\ (InLock(todo'[u], 1) <=> owner' = u)
             /\ \A i \in 1 .. Len(todo'[u]) : todo'[u][i].kind = "check" => todo'[u] = POT_ChangeHorizontalGain
  <2>1. todo'[u] = todo[u] /\ u # "none"
    BY <1>1, <1>6 DEF Threads
  <2>2. owner' = u <=> owner = u
    <3>1. CASE q[1].kind = "lock"
      BY <1>2, <1>6, <2>1, <3>1
    <3>2. CASE q[1].kind = "unlock"
      <4>1. InLock(q, 1)
        BY <1>1, <1>3, <3>2, TailLock
      <4> QED
        BY <1>2, <1>3, <1>6, <2>1, <3>2, <4>1
    <3>3. CASE q[1].kind \notin {"lock", "unlock"}
      BY <1>2, <3>3
    <3> QED
      BY <3>1, <3>2, <3>3
  <2> QED
    BY <1>3, <2>1, <2>2
<1>7. todo'["config"] # <<>> => \A u \in Threads \ {"config"} : todo'[u] = <<>>
  <2>1. SUFFICES ASSUME todo'["config"] # <<>> PROVE \A u \in Threads \ {"config"} : todo'[u] = <<>>
    OBVIOUS
  <2>2. todo["config"] # <<>>
    <3>1. CASE t = "config"
      BY <1>1, <3>1
    <3>2. CASE t # "config"
      BY <1>1, <2>1, <3>2 DEF Threads
    <3> QED
      BY <3>1, <3>2
  <2>3. t = "config"
    BY <1>1, <1>3, <2>2
  <2> QED
    BY <1>1, <1>3, <2>2, <2>3
<1>8. LockInv'
  BY <1>5, <1>6, <1>7 DEF LockInv
<1> QED
  BY <1>4, <1>8 DEF Locking

\* The configuration begins outside the lock.
LEMMA LockingInit == Init => Locking
<1> SUFFICES ASSUME Init PROVE Locking
  OBVIOUS
<1> DEFINE q == ConfigurationCalls
<1>1. /\ Sound(q) /\ \A i \in 1 .. Len(q) : q[i].kind # "check"
  BY ConfigCall
<1>2. todo = [t \in Threads |-> IF t = "config" THEN q ELSE <<>>]
  BY DEF Init, ConfigurationCalls
<1> HIDE DEF q
<1>3. q \in Seq(Operations) /\ WellLocked(q) /\ ~InLock(q, 1)
  BY <1>1 DEF Sound
<1>4. todo \in [Threads -> Seq(Operations)]
  BY <1>2, <1>3
<1>5. /\ owner = "none" /\ at = [t \in Threads |-> 0] /\ loaded = [t \in Threads |-> 0]
      /\ axiReg2_data = 0 /\ arm = [data |-> 0, addr |-> "read", ctrl |-> 0]
      /\ pot_spi_ready \in BOOLEAN /\ enL = TRUE /\ enV = FALSE /\ lastVgain = StartGain
  BY DEF Init
<1>6. TypeInv
  <2>1. at \in [Threads -> 0 .. 7] /\ \A t \in Threads : at[t] = 0
    BY <1>5
  <2>2. loaded \in [Threads -> Int] /\ axiReg2_data \in Int
    BY <1>5
  <2>3. DOMAIN arm = {"data", "addr", "ctrl"} /\ arm.ctrl \in Int
    BY <1>5
  <2>4. lastVgain \in Int
    BY <1>5, GainAssumption
  <2> QED
    <3>1. owner \in Threads \cup {"none"}
      BY <1>5
    <3>2. \A t \in Threads : ~(at[t] > 0)
      BY <2>1
    <3> QED
      BY <1>4, <1>5, <2>1, <2>2, <2>3, <2>4, <3>1, <3>2 DEF TypeInv
<1>7. LockInv
  <2>1. WellLocked(<<>>) /\ ~InLock(<<>>, 1)
    BY DEF WellLocked, InLock
  <2>2. \A t \in Threads : todo[t] = q \/ todo[t] = <<>>
    BY <1>2
  <2>3. \A t \in Threads : t # "none"
    BY DEF Threads
  <2>4. \A t \in Threads \ {"config"} : todo[t] = <<>>
    BY <1>2
  <2>5. \A t \in Threads : \A i \in 1 .. Len(todo[t]) : todo[t][i].kind # "check"
    BY <1>1, <2>2
  <2> QED
    BY <1>3, <1>5, <2>1, <2>2, <2>3, <2>4, <2>5 DEF LockInv
<1> QED
  BY <1>6, <1>7 DEF Locking

\* The calls of the threads besides the menu's.
LEMMA OtherCalls ==
  /\ Sound(TDC_Enable) /\ OneFlag(TDC_Enable, TDC_EN) /\ Guarded(TDC_Enable)
  /\ ChecksOf(TDC_Enable) /\ ~NoFlag(TDC_Enable) /\ TDC_Enable[1].kind # "flag"
  /\ \A i \in 1 .. Len(TDC_Enable) : TDC_Enable[i].kind \in {"lock", "unlock", "flag"}
  /\ Sound(TDC_Disable) /\ OneFlag(TDC_Disable, -TDC_EN) /\ Guarded(TDC_Disable)
  /\ ChecksOf(TDC_Disable) /\ ~NoFlag(TDC_Disable) /\ TDC_Disable[1].kind # "flag"
  /\ \A i \in 1 .. Len(TDC_Disable) : TDC_Disable[i].kind \in {"lock", "unlock", "flag"}
  /\ Sound(Locked(<<Plain>>)) /\ Guarded(Locked(<<Plain>>)) /\ ChecksOf(Locked(<<Plain>>))
  /\ NoFlag(Locked(<<Plain>>))
<1>1. ASSUME NEW f \in {TDC_EN, -TDC_EN}, NEW q, q = Locked(<<Flip(f)>>)
      PROVE  /\ Sound(q) /\ OneFlag(q, f) /\ Guarded(q)
             /\ ChecksOf(q) /\ ~NoFlag(q) /\ q[1].kind # "flag"
             /\ \A i \in 1 .. Len(q) : q[i].kind \in {"lock", "unlock", "flag"}
  <2>1. f \in {TIMING_CORE_EN, -TIMING_CORE_EN, TDC_EN, -TDC_EN}
    OBVIOUS
  <2>2. /\ Sound(q) /\ Len(q) = 3 /\ q[1].kind = "lock" /\ q[2].kind = "flag"
    BY <1>1, <2>1, FlagCall
  <2>3. /\ OneFlag(q, f) /\ Guarded(q)
        /\ \A i \in 1 .. Len(q) : q[i].kind \in {"lock", "unlock", "flag"}
    BY <1>1, <2>1, FlagCallFacts
  <2>4. 2 \in 1 .. Len(q)
    BY <2>2
  <2> QED
    BY <2>2, <2>3, <2>4 DEF ChecksOf, NoFlag
<1>2. /\ Sound(Locked(<<Plain>>)) /\ Guarded(Locked(<<Plain>>)) /\ ChecksOf(Locked(<<Plain>>))
      /\ NoFlag(Locked(<<Plain>>))
  BY QuietCalls, QuietFacts DEF ChecksOf, NoFlag
<1>3. TDC_Enable = Locked(<<Flip(TDC_EN)>>) /\ TDC_Disable = Locked(<<Flip(-TDC_EN)>>)
  BY DEF TDC_Enable, TDC_Disable
<1> HIDE DEF TDC_EN
<1>4. TDC_EN \in {TDC_EN, -TDC_EN} /\ -TDC_EN \in {TDC_EN, -TDC_EN}
  OBVIOUS
<1> QED
  BY <1>1, <1>2, <1>3, <1>4

\* A step of the processor is an access, a call, or none of both.
LEMMA StepKinds ==
  ASSUME TypeInv, Next
  PROVE  \/ \E t \in Threads : Access(t)
         \/ \E t \in Threads : \E q : /\ t # "config" /\ Call(t, q) /\ Sound(q) /\ ChecksOf(q)
                                   /\ Guarded(q) /\ (t # "interface" => NoPot(q))
                                   /\ enL' \in BOOLEAN /\ enV' \in BOOLEAN
                                   /\ lastVgain' \in Int
         \/ Shutdown
         \/ PotReady
<1>1. enL \in BOOLEAN /\ enV \in BOOLEAN /\ lastVgain \in Int
  BY DEF TypeInv
<1>2. "interface" \in Threads /\ "dma" \in Threads /\ "math" \in Threads
  BY DEF Threads
<1>7. NoPot(TDC_Enable) /\ NoPot(TDC_Disable) /\ NoPot(Locked(<<Plain>>))
  BY OtherCalls, QuietCalls DEF NoPot, Quiet
<1>3. CASE Interface
  <2>1. CASE Shutdown
    BY <2>1
  <2>2. CASE ~Shutdown
    <3>1. PICK q : /\ Call("interface", q) /\ Sound(q) /\ Guarded(q) /\ ChecksOf(q)
                   /\ \/ enL' = enL
                      \/ enL' = ~enL
                   /\ enV' \in BOOLEAN /\ lastVgain' \in Int
      BY <1>3, <2>2, MenuCalls
    <3> QED
      BY <1>1, <1>2, <3>1
  <2> QED
    BY <2>1, <2>2
<1>4. CASE DMAStart
  BY <1>1, <1>2, <1>7, <1>4, OtherCalls DEF DMAStart, menuVars
<1>5. CASE DMAEnd
  BY <1>1, <1>2, <1>7, <1>5, OtherCalls DEF DMAEnd, menuVars
<1>6. CASE MathAccess
  BY <1>1, <1>2, <1>7, <1>6, OtherCalls DEF MathAccess, menuVars
<1> QED
  BY <1>3, <1>4, <1>5, <1>6 DEF Next

\* Every step keeps the lock with the thread that is inside a locked part of its call.
LEMMA LockingStep == Locking /\ [Next]_vars => Locking'
<1> SUFFICES ASSUME Locking, [Next]_vars PROVE Locking'
  OBVIOUS
<1>1. CASE Next
  <2>1. CASE \E t \in Threads : Access(t)
    BY <2>1, LockingAccess
  <2>2. CASE \E t \in Threads : \E q : /\ t # "config" /\ Call(t, q) /\ Sound(q) /\ ChecksOf(q)
                                    /\ enL' \in BOOLEAN /\ enV' \in BOOLEAN
                                    /\ lastVgain' \in Int
    BY <2>2, LockingCall
  <2>3. CASE Shutdown \/ PotReady
    BY <2>3 DEF Shutdown, PotReady, callVars, menuVars, Locking, TypeInv, LockInv
  <2> QED
    BY <1>1, <2>1, <2>2, <2>3, StepKinds DEF Locking
<1>2. CASE UNCHANGED vars
  BY <1>2 DEF vars, callVars, menuVars, Locking, TypeInv, LockInv
<1> QED
  BY <1>1, <1>2
-----------------------------------------------------------------------------
\* A thread at an operation on the shared copy or on the devices has the lock.
LEMMA SharedOwner ==
  ASSUME Locking, NEW t \in Threads, todo[t] # <<>>, Head(todo[t]).kind \in Shared
  PROVE  owner = t /\ owner # "none"
<1>1. /\ todo[t] \in Seq(Operations) /\ WellLocked(todo[t])
      /\ InLock(todo[t], 1) <=> owner = t
  BY DEF Locking, TypeInv, LockInv
<1>2. todo[t][1] = Head(todo[t]) /\ 1 \in 1 .. Len(todo[t])
  BY <1>1
<1>3. InLock(todo[t], 1)
  BY <1>1, <1>2 DEF WellLocked
<1> QED
  BY <1>1, <1>3 DEF Threads

\* The flag of a thread is pending until it is in the copy.
LEMMA PendingAfter ==
  ASSUME Locking, FlagInv, NEW t \in Threads, Access(t)
  PROVE  /\ Mid(t, "flag", {1}) => Pending(t) /\ ~Pending(t)'
         /\ ~Mid(t, "flag", {1}) => (Pending(t)' <=> Pending(t))
         /\ \A u \in Threads : u # t => (Pending(u)' <=> Pending(u))
         /\ OneFlag(todo'[t], FlagOf(t)) /\ (NoFlag(todo[t]) => NoFlag(todo'[t]))
<1> DEFINE q == todo[t]
<1>1. /\ \A u \in Threads : u # t => todo'[u] = todo[u] /\ at'[u] = at[u]
      /\ q \in Seq(Operations) /\ q # <<>> /\ q[1] = Head(q)
      /\ Len(q) \in Nat \ {0} /\ at[t] \in 0 .. 7
      /\ \/ /\ q[1].kind \in Shared /\ todo'[t] = q /\ at'[t] = at[t] + 1
            /\ at'[t] < Len(Accesses(q[1]))
         \/ /\ q[1].kind \in Shared => at[t] + 1 = Len(Accesses(q[1]))
            /\ todo'[t] = Tail(q) /\ at'[t] = 0
         \/ /\ q = POT_ChangeHorizontalGain
            /\ todo'[t] = <<>> /\ at'[t] = 0
  BY LeftAfter
<1>2. OneFlag(q, FlagOf(t))
  BY DEF FlagInv
<1>3. \A u \in Threads : u # t => (Pending(u)' <=> Pending(u))
  BY <1>1 DEF Pending
<1>4. CASE todo'[t] = q /\ at'[t] = at[t] + 1 /\ at'[t] < Len(Accesses(q[1]))
  <2>1. OneFlag(todo'[t], FlagOf(t)) /\ (NoFlag(todo[t]) => NoFlag(todo'[t]))
    BY <1>2, <1>4
  <2>2. CASE q[1].kind # "flag"
    <3>1. ~Mid(t, "flag", {1})
      BY <1>1, <2>2 DEF Mid
    <3>2. Pending(t) <=> ~NoFlag(q)
      BY <2>2 DEF Pending, NoFlag
    <3>3. Pending(t)' <=> ~NoFlag(q)
      BY <2>2, <1>4 DEF Pending, NoFlag
    <3> QED
      BY <1>3, <2>1, <3>1, <3>2, <3>3
  <2>3. CASE q[1].kind = "flag"
    <3>1. Len(Accesses(q[1])) = 3
      BY <2>3, AccessesOf
    <3>2. at[t] = 0 \/ at[t] = 1
      <4>1. at[t] + 1 < 3 /\ at[t] \in 0 .. 7
        BY <1>1, <1>4, <3>1
      <4> QED
        BY <4>1
    <3>3. \A i \in 1 .. Len(q) : q[i].kind = "flag" => i = 1
      BY <1>1, <1>2, <2>3 DEF OneFlag
    <3>4. Pending(t)
      BY <1>1, <2>3, <3>2 DEF Pending
    <3>5. Pending(t)' <=> at'[t] < 2
      BY <1>1, <1>4, <2>3, <3>3 DEF Pending
    <3>6. Mid(t, "flag", {1}) <=> at[t] = 1
      BY <1>1, <2>3 DEF Mid
    <3> QED
      BY <1>3, <1>4, <2>1, <3>2, <3>4, <3>5, <3>6
  <2> QED
    BY <2>2, <2>3
<1>5. CASE /\ q[1].kind \in Shared => at[t] + 1 = Len(Accesses(q[1]))
           /\ todo'[t] = Tail(q) /\ at'[t] = 0
  <2> DEFINE s == Tail(q)
  <2>1. /\ Len(s) = Len(q) - 1 /\ \A i \in 1 .. Len(q) - 1 : s[i] = q[i + 1]
    BY <1>1
  <2>2. q[1].kind = "flag" => at[t] = 2
    <3>1. q[1].kind = "flag" => Len(Accesses(q[1])) = 3 /\ q[1].kind \in Shared
      BY AccessesOf DEF Shared
    <3>2. q[1].kind = "flag" => at[t] + 1 = 3 /\ at[t] \in 0 .. 7
      BY <1>1, <1>5, <3>1
    <3> QED
      BY <3>2
  <2>3. ~Mid(t, "flag", {1})
    BY <1>1, <2>2 DEF Mid
  <2> HIDE DEF s
  <2>4. \A i \in 1 .. Len(s) : i + 1 \in 2 .. Len(q) /\ i \in 1 .. Len(q) - 1
    BY <1>1, <2>1
  <2>5. \A i \in 2 .. Len(q) : i - 1 \in 1 .. Len(s) /\ s[i - 1] = q[i]
    <3> SUFFICES ASSUME NEW i \in 2 .. Len(q) PROVE i - 1 \in 1 .. Len(s) /\ s[i - 1] = q[i]
      OBVIOUS
    <3>1. i - 1 \in 1 .. Len(q) - 1 /\ (i - 1) + 1 = i
      BY <1>1
    <3> QED
      BY <2>1, <3>1
  <2>6. Pending(t)' <=> \E i \in 1 .. Len(s) : s[i].kind = "flag"
    BY <1>5 DEF Pending, s
  <2>7. Pending(t) <=> \E i \in 2 .. Len(q) : q[i].kind = "flag"
    <3>1. ASSUME Pending(t) PROVE \E i \in 2 .. Len(q) : q[i].kind = "flag"
      <4>1. PICK i \in 1 .. Len(q) : q[i].kind = "flag" /\ (i = 1 => at[t] < 2)
        BY <3>1 DEF Pending
      <4>2. i # 1
        BY <2>2, <4>1
      <4> QED
        BY <4>1, <4>2
    <3>2. ASSUME NEW i \in 2 .. Len(q), q[i].kind = "flag" PROVE Pending(t)
      <4>1. i \in 1 .. Len(q) /\ i # 1
        BY <1>1
      <4> QED
        BY <3>2, <4>1 DEF Pending
    <3> QED
      BY <3>1, <3>2
  <2>8. Pending(t)' <=> Pending(t)
    <3>1. ASSUME NEW i \in 1 .. Len(s), s[i].kind = "flag"
          PROVE  i + 1 \in 2 .. Len(q) /\ q[i + 1].kind = "flag"
      BY <2>1, <2>4, <3>1
    <3> QED
      BY <2>5, <2>6, <2>7, <3>1
  <2>9. OneFlag(s, FlagOf(t))
    <3> SUFFICES ASSUME NEW i \in 1 .. Len(s), s[i].kind = "flag"
                 PROVE  /\ s[i].data = FlagOf(t)
                        /\ \A j \in 1 .. Len(s) : s[j].kind = "flag" => j = i
      BY DEF OneFlag
    <3>1. i + 1 \in 1 .. Len(q) /\ s[i] = q[i + 1]
      BY <1>1, <2>1, <2>4
    <3>2. q[i + 1].data = FlagOf(t)
      BY <1>2, <3>1 DEF OneFlag
    <3>3. ASSUME NEW j \in 1 .. Len(s), s[j].kind = "flag" PROVE j = i
      <4>1. j + 1 \in 1 .. Len(q) /\ s[j] = q[j + 1]
        BY <1>1, <2>1, <2>4
      <4>2. j + 1 = i + 1
        BY <1>2, <3>1, <3>3, <4>1 DEF OneFlag
      <4> QED
        BY <4>2
    <3> QED
      BY <3>1, <3>2, <3>3
  <2>10. NoFlag(q) => NoFlag(s)
    <3> SUFFICES ASSUME NoFlag(q), NEW i \in 1 .. Len(s) PROVE s[i].kind # "flag"
      BY DEF NoFlag
    <3>1. i + 1 \in 1 .. Len(q) /\ s[i] = q[i + 1]
      BY <1>1, <2>1, <2>4
    <3> QED
      BY <3>1 DEF NoFlag
  <2> QED
    BY <1>3, <1>5, <2>3, <2>8, <2>9, <2>10 DEF s
<1>6. CASE q = POT_ChangeHorizontalGain /\ todo'[t] = <<>>
  <2>1. /\ Len(q) = 4 /\ q[1].kind = "check" /\ q[2].kind = "lock"
        /\ q[3].kind = "pot" /\ q[4].kind = "unlock"
    BY <1>6, PotCall
  <2>2. \A i \in 1 .. Len(q) : i = 1 \/ i = 2 \/ i = 3 \/ i = 4
    BY <2>1
  <2>3. NoFlag(q)
    BY <2>1, <2>2 DEF NoFlag
  <2>4. ~Pending(t) /\ ~Mid(t, "flag", {1})
    BY <1>1, <2>1, <2>3 DEF Pending, NoFlag, Mid
  <2>5. ~Pending(t)' /\ NoFlag(todo'[t]) /\ OneFlag(todo'[t], FlagOf(t))
    BY <1>6 DEF Pending, NoFlag, OneFlag
  <2> QED
    BY <1>3, <2>4, <2>5
<1> QED
  BY <1>1, <1>4, <1>5, <1>6

\* The copy within the operations that change it, before and after an access.
LEMMA CopyNow ==
  ASSUME NEW t, todo[t] # <<>>, NEW op, op = Head(todo[t])
  PROVE  /\ op.kind = "asic" =>
              /\ Extra(t) = IF at[t] \in 4 .. 6 THEN 1 ELSE 0
              /\ Lag(t) = IF at[t] = 4 THEN 1 ELSE IF at[t] = 7 THEN -1 ELSE 0
              /\ (Storing(t) <=> at[t] \in {3, 6})
         /\ op.kind = "pot" =>
              /\ Extra(t) = IF at[t] \in 3 .. 5 THEN 2 ELSE 0
              /\ Lag(t) = IF at[t] = 3 THEN 2 ELSE IF at[t] = 6 THEN -2 ELSE 0
              /\ (Storing(t) <=> at[t] \in {2, 5})
         /\ op.kind = "flag" =>
              /\ Extra(t) = 0
              /\ Lag(t) = IF at[t] = 2 THEN op.data ELSE 0
              /\ (Storing(t) <=> at[t] \in {1})
         /\ op.kind \notin Shared => Extra(t) = 0 /\ Lag(t) = 0 /\ ~Storing(t)
<1>1. \A k, S : Mid(t, k, S) <=> op.kind = k /\ at[t] \in S
  BY DEF Mid
<1>2. /\ op.kind = "asic" => op.kind \notin {"pot", "flag"}
      /\ op.kind = "pot" => op.kind \notin {"asic", "flag"}
      /\ op.kind = "flag" => op.kind \notin {"pot", "asic"}
  OBVIOUS
<1>3. CASE op.kind = "asic"
  <2>1. \A S : ~Mid(t, "flag", S) /\ ~Mid(t, "pot", S) /\ (Mid(t, "asic", S) <=> at[t] \in S)
    BY <1>1, <1>2, <1>3
  <2>2. Lag(t) = IF at[t] = 4 THEN 1 ELSE IF at[t] = 7 THEN -1 ELSE 0
    BY <2>1 DEF Lag, ASIC_NEW_DATA
  <2>3. Extra(t) = IF at[t] \in 4 .. 6 THEN 1 ELSE 0
    BY <2>1 DEF Extra, ASIC_NEW_DATA
  <2>4. Storing(t) <=> at[t] \in {3, 6}
    BY <2>1 DEF Storing
  <2> QED
    BY <1>2, <1>3, <2>2, <2>3, <2>4 DEF Shared
<1>4. CASE op.kind = "pot"
  BY <1>1, <1>2, <1>4 DEF Extra, Lag, Storing, POT_NEW_DATA, Shared
<1>5. CASE op.kind = "flag"
  <2>1. \A S : ~Mid(t, "asic", S) /\ ~Mid(t, "pot", S) /\ (Mid(t, "flag", S) <=> at[t] \in S)
    BY <1>1, <1>2, <1>5
  <2>2. Lag(t) = IF at[t] = 2 THEN op.data ELSE 0
    BY <2>1 DEF Lag
  <2>3. Extra(t) = 0 /\ (Storing(t) <=> at[t] \in {1})
    BY <2>1 DEF Extra, Storing
  <2> QED
    BY <1>2, <1>5, <2>2, <2>3 DEF Shared
<1>6. CASE op.kind \notin Shared
  BY <1>1, <1>6 DEF Extra, Lag, Storing, Shared
<1> QED
  BY <1>3, <1>4, <1>5, <1>6 DEF Shared

\* What a thread is about to do with the copy, by the operation and the access.
LEMMA ChangeNow ==
  ASSUME NEW t, todo[t] # <<>>, NEW op, op = Head(todo[t])
  PROVE  /\ op.kind = "asic" =>
              /\ (Putting(t) <=> at[t] \in {4, 7})
              /\ (Loading(t) <=> at[t] \in {2, 5})
              /\ at[t] = 3 => Change(t) = 1
              /\ at[t] = 6 => Change(t) = -1
         /\ op.kind = "pot" =>
              /\ (Putting(t) <=> at[t] \in {3, 6})
              /\ (Loading(t) <=> at[t] \in {1, 4})
              /\ at[t] = 2 => Change(t) = 2
              /\ at[t] = 5 => Change(t) = -2
         /\ op.kind = "flag" =>
              /\ (Putting(t) <=> at[t] \in {2})
              /\ (Loading(t) <=> at[t] \in {0})
              /\ Change(t) = op.data
<1>1. \A k, S : Mid(t, k, S) <=> op.kind = k /\ at[t] \in S
  BY DEF Mid
<1>2. /\ op.kind = "asic" => op.kind \notin {"pot", "flag"}
      /\ op.kind = "pot" => op.kind \notin {"asic", "flag"}
      /\ op.kind = "flag" => op.kind \notin {"pot", "asic"}
  OBVIOUS
<1>3. CASE op.kind = "asic"
  <2>1. \A S : ~Mid(t, "pot", S) /\ ~Mid(t, "flag", S) /\ (Mid(t, "asic", S) <=> at[t] \in S)
    BY <1>1, <1>2, <1>3
  <2>2. (Putting(t) <=> at[t] \in {4, 7}) /\ (Loading(t) <=> at[t] \in {2, 5})
    BY <2>1 DEF Putting, Loading
  <2>3. at[t] = 3 => Change(t) = 1
    BY <2>1 DEF Change
  <2>4. at[t] = 6 => Change(t) = -1
    BY <2>1 DEF Change
  <2> QED
    BY <1>2, <1>3, <2>2, <2>3, <2>4
<1>4. CASE op.kind = "pot"
  <2>1. \A S : ~Mid(t, "asic", S) /\ ~Mid(t, "flag", S) /\ (Mid(t, "pot", S) <=> at[t] \in S)
    BY <1>1, <1>2, <1>4
  <2>2. (Putting(t) <=> at[t] \in {3, 6}) /\ (Loading(t) <=> at[t] \in {1, 4})
    BY <2>1 DEF Putting, Loading
  <2>3. at[t] = 2 => Change(t) = 2
    BY <2>1 DEF Change
  <2>4. at[t] = 5 => Change(t) = -2
    BY <2>1 DEF Change
  <2> QED
    BY <1>2, <1>4, <2>2, <2>3, <2>4
<1>5. CASE op.kind = "flag"
  <2>1. \A S : ~Mid(t, "asic", S) /\ ~Mid(t, "pot", S) /\ (Mid(t, "flag", S) <=> at[t] \in S)
    BY <1>1, <1>2, <1>5
  <2>2. (Putting(t) <=> at[t] \in {2}) /\ (Loading(t) <=> at[t] \in {0})
    BY <2>1 DEF Putting, Loading
  <2>3. Change(t) = op.data
    BY <2>1 DEF Change
  <2> QED
    BY <1>2, <1>5, <2>2, <2>3
<1>6. CASE op.kind \notin {"asic", "pot", "flag"}
  BY <1>6
<1> QED
  BY <1>3, <1>4, <1>5, <1>6

\* What the copy and the register lack after a step, by the operation and the access.
LEMMA CopyThen ==
  ASSUME NEW t, todo'[t] # <<>>, NEW op, op = Head(todo'[t])
  PROVE  /\ op.kind = "asic" =>
              /\ Extra(t)' = IF at'[t] \in 4 .. 6 THEN 1 ELSE 0
              /\ Lag(t)' = IF at'[t] = 4 THEN 1 ELSE IF at'[t] = 7 THEN -1 ELSE 0
              /\ (Storing(t)' <=> at'[t] \in {3, 6})
         /\ op.kind = "pot" =>
              /\ Extra(t)' = IF at'[t] \in 3 .. 5 THEN 2 ELSE 0
              /\ Lag(t)' = IF at'[t] = 3 THEN 2 ELSE IF at'[t] = 6 THEN -2 ELSE 0
              /\ (Storing(t)' <=> at'[t] \in {2, 5})
         /\ op.kind = "flag" =>
              /\ Extra(t)' = 0
              /\ Lag(t)' = IF at'[t] = 2 THEN op.data ELSE 0
              /\ (Storing(t)' <=> at'[t] \in {1})
         /\ op.kind \notin Shared => Extra(t)' = 0 /\ Lag(t)' = 0 /\ ~Storing(t)'
<1>1. \A k, S : Mid(t, k, S)' <=> op.kind = k /\ at'[t] \in S
  BY DEF Mid
<1>2. /\ op.kind = "asic" => op.kind \notin {"pot", "flag"}
      /\ op.kind = "pot" => op.kind \notin {"asic", "flag"}
      /\ op.kind = "flag" => op.kind \notin {"pot", "asic"}
  OBVIOUS
<1>3. CASE op.kind = "asic"
  <2>1. \A S : ~Mid(t, "flag", S)' /\ ~Mid(t, "pot", S)' /\ (Mid(t, "asic", S)' <=> at'[t] \in S)
    BY <1>1, <1>2, <1>3
  <2>2. Lag(t)' = IF at'[t] = 4 THEN 1 ELSE IF at'[t] = 7 THEN -1 ELSE 0
    BY <2>1 DEF Lag, ASIC_NEW_DATA
  <2>3. Extra(t)' = IF at'[t] \in 4 .. 6 THEN 1 ELSE 0
    BY <2>1 DEF Extra, ASIC_NEW_DATA
  <2>4. Storing(t)' <=> at'[t] \in {3, 6}
    BY <2>1 DEF Storing
  <2> QED
    BY <1>2, <1>3, <2>2, <2>3, <2>4 DEF Shared
<1>4. CASE op.kind = "pot"
  BY <1>1, <1>2, <1>4 DEF Extra, Lag, Storing, POT_NEW_DATA, Shared
<1>5. CASE op.kind = "flag"
  <2>1. \A S : ~Mid(t, "asic", S)' /\ ~Mid(t, "pot", S)' /\ (Mid(t, "flag", S)' <=> at'[t] \in S)
    BY <1>1, <1>2, <1>5
  <2>2. Lag(t)' = IF at'[t] = 2 THEN op.data ELSE 0
    BY <2>1 DEF Lag
  <2>3. Extra(t)' = 0 /\ (Storing(t)' <=> at'[t] \in {1})
    BY <2>1 DEF Extra, Storing
  <2> QED
    BY <1>2, <1>5, <2>2, <2>3 DEF Shared
<1>6. CASE op.kind \notin Shared
  BY <1>1, <1>6 DEF Extra, Lag, Storing, Shared
<1> QED
  BY <1>3, <1>4, <1>5, <1>6 DEF Shared

\* A thread at the beginning of an operation has nothing half done.
LEMMA AtZero ==
  ASSUME NEW t, at'[t] = 0
  PROVE  /\ Extra(t)' = 0 /\ Lag(t)' = 0 /\ ~Storing(t)'
         /\ ~Mid(t, "asic", 1 .. 7)' /\ ~Mid(t, "asic", 2 .. 7)'
<1>1. \A k, S : 0 \notin S => ~Mid(t, k, S)'
  BY DEF Mid
<1>2. /\ 0 \notin 4 .. 6 /\ 0 \notin 3 .. 5 /\ 0 \notin {4} /\ 0 \notin {7} /\ 0 \notin {3}
      /\ 0 \notin {6} /\ 0 \notin {2} /\ 0 \notin {3, 6} /\ 0 \notin {2, 5} /\ 0 \notin {1}
      /\ 0 \notin 1 .. 7 /\ 0 \notin 2 .. 7
  OBVIOUS
<1> QED
  BY <1>1, <1>2 DEF Extra, Lag, Storing

\* An access keeps the copy and the register what the flags and the accesses under way
\* make them: the heart of the argument, one case per kind of access.
LEMMA CopyAccess ==
  ASSUME Locking, FlagInv, CopyInv, NEW t \in Threads, Access(t)
  PROVE  CopyInv'
<1> DEFINE q == todo[t]
           op == q[1]
           Base == Num(Lasing, TIMING_CORE_EN) + Num(Timing, TDC_EN)
<1>1. /\ \A u \in Threads : u # t => todo'[u] = todo[u] /\ at'[u] = at[u]
      /\ q \in Seq(Operations) /\ q # <<>> /\ op = Head(q) /\ op \in Operations
      /\ at[t] \in 0 .. 7
      /\ op.kind \notin Shared => at[t] = 0
      /\ \/ /\ op.kind \in Shared /\ todo'[t] = q /\ at'[t] = at[t] + 1
            /\ at'[t] < Len(Accesses(op))
         \/ /\ op.kind \in Shared => at[t] + 1 = Len(Accesses(op))
            /\ at'[t] = 0
  BY LeftAfter DEF Shared
<1>2. /\ owner' = IF op.kind = "lock" THEN t ELSE IF op.kind = "unlock" THEN "none" ELSE owner
      /\ op.kind = "lock" => owner = "none"
      /\ loaded' = IF Loading(t) THEN [loaded EXCEPT ![t] = axiReg2_data]
                   ELSE IF Storing(t) THEN [loaded EXCEPT ![t] = 0] ELSE loaded
      /\ axiReg2_data' = IF Storing(t) THEN loaded[t] + Change(t) ELSE axiReg2_data
      /\ arm' = IF Putting(t) THEN [arm EXCEPT !.ctrl = axiReg2_data]
                ELSE IF Mid(t, "asic", {0}) THEN [arm EXCEPT !.data = op.data]
                ELSE IF Mid(t, "asic", {1}) THEN [arm EXCEPT !.addr = op.addr] ELSE arm
  BY <1>1, Effects DEF Locking
<1>3. UNCHANGED <<enL, dma_state>>
  BY DEF Access, menuVars
<1>4. /\ axiReg2_data = Base + (IF owner = "none" THEN 0 ELSE Extra(owner))
      /\ axiReg2_data = arm.ctrl + (IF owner = "none" THEN 0 ELSE Lag(owner))
      /\ \A u \in Threads :
           /\ Storing(u) => loaded[u] = axiReg2_data
           /\ Mid(u, "asic", 1 .. 7) => arm.data = Head(todo[u]).data
           /\ Mid(u, "asic", 2 .. 7) => arm.addr = Head(todo[u]).addr
  BY DEF CopyInv
<1>5. /\ loaded \in [Threads -> Int] /\ axiReg2_data \in Int
      /\ DOMAIN arm = {"data", "addr", "ctrl"} /\ arm.ctrl \in Int
  BY DEF Locking, TypeInv
<1>12. enL \in BOOLEAN
  BY DEF Locking, TypeInv
<1> HIDE DEF q
<1>6. Base \in Int
  BY DEF Num, TIMING_CORE_EN, TDC_EN
<1>7. Base' = Base + (IF Mid(t, "flag", {1}) THEN op.data ELSE 0)
  <2>1. /\ Mid(t, "flag", {1}) => Pending(t) /\ ~Pending(t)'
        /\ ~Mid(t, "flag", {1}) => (Pending(t)' <=> Pending(t))
        /\ \A u \in Threads : u # t => (Pending(u)' <=> Pending(u))
    BY PendingAfter
  <2>2. "config" \in Threads /\ "interface" \in Threads /\ "dma" \in Threads
    BY DEF Threads
  <2>3. CASE ~Mid(t, "flag", {1})
    <3>1. \A u \in Threads : Pending(u)' <=> Pending(u)
      BY <2>1, <2>3
    <3>2. (Lasing' <=> Lasing) /\ (Timing' <=> Timing)
      <4>1. /\ Pending("config")' <=> Pending("config")
            /\ Pending("interface")' <=> Pending("interface")
            /\ Pending("dma")' <=> Pending("dma")
        BY <2>2, <3>1
      <4> QED
        BY <1>3, <1>12, <4>1 DEF Lasing, Timing
    <3> QED
      BY <1>6, <2>3, <3>2 DEF Num
  <2>4. CASE Mid(t, "flag", {1})
    <3>1. op.kind = "flag" /\ 1 \in 1 .. Len(q)
      BY <1>1, <2>4 DEF Mid, q
    <3>2. op.data = FlagOf(t)
      BY <3>1 DEF FlagInv, OneFlag, q
    <3>3. t # "math"
      BY <3>1 DEF FlagInv, NoFlag, q
    <3>4. Pending(t) /\ ~Pending(t)'
      BY <2>1, <2>4
    <3>5. CASE t = "dma"
      <4>1. (Pending("config")' <=> Pending("config")) /\ (Pending("interface")' <=> Pending("interface"))
        BY <2>1, <2>2, <3>5
      <4>2. Lasing' <=> Lasing
        BY <1>3, <1>12, <4>1 DEF Lasing
      <4>3. (Timing <=> dma_state # "running") /\ (Timing' <=> dma_state = "running")
        BY <1>3, <3>4, <3>5 DEF Timing
      <4>4. op.data = IF dma_state = "running" THEN 32 ELSE -32
        BY <3>2, <3>5 DEF FlagOf, TDC_EN
      <4>5. Num(Timing', 32) = Num(Timing, 32) + op.data
        BY <4>3, <4>4 DEF Num
      <4>6. /\ Base' = Num(Lasing', 4) + Num(Timing', 32)
            /\ Base = Num(Lasing, 4) + Num(Timing, 32)
            /\ Num(Lasing, 4) \in Int /\ Num(Timing, 32) \in Int /\ op.data \in Int
        BY <4>4 DEF TIMING_CORE_EN, TDC_EN, Num
      <4>7. Num(Lasing', 4) = Num(Lasing, 4)
        BY <4>2 DEF Num
      <4> QED
        BY <2>4, <4>5, <4>6, <4>7
    <3>6. CASE t # "dma"
      <4>1. t = "config" \/ t = "interface"
        BY <3>3, <3>6 DEF Threads
      <4>2. Timing' <=> Timing
        <5>1. Pending("dma")' <=> Pending("dma")
          BY <2>1, <2>2, <3>6
        <5> QED
          BY <1>3, <5>1 DEF Timing
      <4>3. ~Pending("config") \/ ~Pending("interface")
        <5>1. todo["config"] = <<>> \/ todo["interface"] = <<>>
          BY <2>2 DEF Locking, LockInv
        <5> QED
          BY <5>1 DEF Pending
      <4>4. /\ Pending("config") \/ Pending("interface")
            /\ ~Pending("config")' /\ ~Pending("interface")'
        BY <2>1, <2>2, <3>4, <4>1, <4>3
      <4>5. (Lasing <=> ~enL) /\ (Lasing' <=> enL)
        BY <1>3, <1>12, <4>4 DEF Lasing
      <4>6. op.data = IF enL THEN 4 ELSE -4
        BY <3>2, <3>6 DEF FlagOf, TIMING_CORE_EN
      <4>7. Num(Lasing', 4) = Num(Lasing, 4) + op.data
        BY <4>5, <4>6 DEF Num
      <4>8. /\ Base' = Num(Lasing', 4) + Num(Timing', 32)
            /\ Base = Num(Lasing, 4) + Num(Timing, 32)
            /\ Num(Lasing, 4) \in Int /\ Num(Timing, 32) \in Int /\ op.data \in Int
        BY <4>6 DEF TIMING_CORE_EN, TDC_EN, Num
      <4>9. Num(Timing', 32) = Num(Timing, 32)
        BY <4>2 DEF Num
      <4> QED
        BY <2>4, <4>7, <4>8, <4>9
    <3> QED
      BY <3>5, <3>6
  <2> QED
    BY <2>3, <2>4
<1> HIDE DEF Base
<1>10. \A u \in Threads : u # t =>
         /\ Extra(u)' = Extra(u) /\ Lag(u)' = Lag(u) /\ (Storing(u)' <=> Storing(u))
         /\ \A S : Mid(u, "asic", S)' <=> Mid(u, "asic", S)
  <2> SUFFICES ASSUME NEW u \in Threads, u # t
               PROVE  /\ Extra(u)' = Extra(u) /\ Lag(u)' = Lag(u) /\ (Storing(u)' <=> Storing(u))
                      /\ \A S : Mid(u, "asic", S)' <=> Mid(u, "asic", S)
    OBVIOUS
  <2>1. \A k, S : Mid(u, k, S)' <=> Mid(u, k, S)
    BY <1>1 DEF Mid
  <2>2. todo'[u] = todo[u]
    BY <1>1
  <2> QED
    BY <2>1, <2>2 DEF Extra, Lag, Storing
<1>11. CopyInv' <=>
         /\ axiReg2_data' = Base' + (IF owner = "none" THEN 0 ELSE Extra(owner))'
         /\ axiReg2_data' = arm'.ctrl + (IF owner = "none" THEN 0 ELSE Lag(owner))'
         /\ \A u \in Threads :
              /\ Storing(u)' => loaded'[u] = axiReg2_data'
              /\ Mid(u, "asic", 1 .. 7)' => arm'.data = Head(todo'[u]).data
              /\ Mid(u, "asic", 2 .. 7)' => arm'.addr = Head(todo'[u]).addr
  BY DEF CopyInv, Base
<1>8. CASE op.kind \notin Shared
  <2>1. at'[t] = 0 /\ at[t] = 0
    BY <1>1, <1>8
  <2>2. /\ Extra(t)' = 0 /\ Lag(t)' = 0 /\ ~Storing(t)'
        /\ ~Mid(t, "asic", 1 .. 7)' /\ ~Mid(t, "asic", 2 .. 7)'
    BY <2>1, AtZero
  <2>3. /\ Extra(t) = 0 /\ Lag(t) = 0 /\ ~Storing(t)
    BY <1>1, <1>8, CopyNow DEF q
  <2>4. /\ ~Loading(t) /\ ~Putting(t) /\ ~Mid(t, "asic", {0}) /\ ~Mid(t, "asic", {1})
        /\ ~Mid(t, "flag", {1})
    BY <1>1, <1>8 DEF q, Loading, Putting, Mid, Shared
  <2>5. UNCHANGED <<axiReg2_data, arm, loaded>> /\ Base' = Base
    BY <1>2, <1>6, <1>7, <2>3, <2>4
  <2>6. /\ (IF owner = "none" THEN 0 ELSE Extra(owner))' = IF owner = "none" THEN 0 ELSE Extra(owner)
        /\ (IF owner = "none" THEN 0 ELSE Lag(owner))' = IF owner = "none" THEN 0 ELSE Lag(owner)
    <3>1. t # "none" /\ owner \in Threads \cup {"none"}
      BY DEF Threads, Locking, TypeInv
    <3>2. CASE op.kind = "lock"
      BY <1>2, <2>2, <3>1, <3>2
    <3>3. CASE op.kind = "unlock"
      <4>1. InLock(q, 1)
        BY <1>1, <3>3, TailLock DEF Locking, LockInv, q
      <4>2. owner = t
        BY <4>1 DEF Locking, LockInv, q
      <4> QED
        BY <1>2, <2>3, <3>1, <3>3, <4>2
    <3>4. CASE op.kind \notin {"lock", "unlock"}
      <4>1. owner' = owner
        BY <1>2, <3>4
      <4>2. CASE owner = t
        BY <2>2, <2>3, <3>1, <4>1, <4>2
      <4>3. CASE owner # t
        BY <1>10, <3>1, <4>1, <4>3
      <4> QED
        BY <4>2, <4>3
    <3> QED
      BY <3>2, <3>3, <3>4
  <2>7. ASSUME NEW u \in Threads
        PROVE  /\ Storing(u)' => loaded'[u] = axiReg2_data'
               /\ Mid(u, "asic", 1 .. 7)' => arm'.data = Head(todo'[u]).data
               /\ Mid(u, "asic", 2 .. 7)' => arm'.addr = Head(todo'[u]).addr
    <3>1. CASE u = t
      BY <2>2, <3>1
    <3>2. CASE u # t
      BY <1>1, <1>4, <1>10, <2>5, <3>2
    <3> QED
      BY <3>1, <3>2
  <2>8. /\ axiReg2_data' = Base' + (IF owner = "none" THEN 0 ELSE Extra(owner))'
        /\ axiReg2_data' = arm'.ctrl + (IF owner = "none" THEN 0 ELSE Lag(owner))'
    BY <1>4, <2>5, <2>6 DEF Base
  <2> QED
    BY <1>11, <2>7, <2>8
<1>9. CASE op.kind \in Shared
  <2>1. owner = t /\ owner # "none" /\ owner' = t
    <3>1. owner = t /\ owner # "none"
      BY <1>1, <1>9, SharedOwner DEF q
    <3> QED
      BY <1>2, <1>9, <3>1 DEF Shared
  <2>2. \/ todo'[t] = q /\ at'[t] = at[t] + 1 /\ at'[t] < Len(Accesses(op))
        \/ at[t] + 1 = Len(Accesses(op)) /\ at'[t] = 0
    BY <1>1, <1>9
  <2>3. \A u \in Threads : u # t => ~Storing(u) /\ ~Mid(u, "asic", 1 .. 7) /\ ~Mid(u, "asic", 2 .. 7)
    <3> SUFFICES ASSUME NEW u \in Threads, u # t
                 PROVE  ~Storing(u) /\ ~Mid(u, "asic", 1 .. 7) /\ ~Mid(u, "asic", 2 .. 7)
      OBVIOUS
    <3>1. ~(todo[u] # <<>> /\ Head(todo[u]).kind \in Shared)
      BY <2>1, SharedOwner
    <3> QED
      BY <3>1 DEF Storing, Mid, Shared
  <2>4. axiReg2_data = Base + Extra(t) /\ axiReg2_data = arm.ctrl + Lag(t)
    BY <1>4, <2>1 DEF Base
  <2>5. /\ Extra(t)' = Extra(t) + (IF Storing(t) /\ op.kind # "flag" THEN Change(t) ELSE 0)
        /\ Mid(t, "flag", {1}) => Storing(t) /\ Change(t) = op.data
        /\ Storing(t) => Lag(t) = 0 /\ Lag(t)' = Change(t)
        /\ Putting(t) => ~Storing(t) /\ Lag(t)' = 0
        /\ ~Storing(t) /\ ~Putting(t) => Lag(t) = 0 /\ Lag(t)' = 0
        /\ Storing(t)' => Loading(t) /\ ~Storing(t)
        /\ Extra(t) \in Int /\ Lag(t) \in Int /\ (Storing(t) => Change(t) \in Int)
    <3>1. todo[t] # <<>> /\ op = Head(todo[t]) /\ at[t] \in 0 .. 7
      BY <1>1 DEF q
    <3>2. todo'[t] = q => todo'[t] # <<>> /\ op = Head(todo'[t])
      BY <1>1
    <3>3. at'[t] = 0 => Extra(t)' = 0 /\ Lag(t)' = 0 /\ ~Storing(t)'
      BY AtZero
    <3>4. \A k, S : Mid(t, k, S) <=> op.kind = k /\ at[t] \in S
      BY <3>1 DEF Mid
    <3>5. CASE op.kind = "asic"
      <4>1. Len(Accesses(op)) = 8
        BY <3>5, AccessesOf
      <4>2. \/ todo'[t] = q /\ at'[t] = at[t] + 1 /\ at[t] + 1 < 8
            \/ at[t] + 1 = 8 /\ at'[t] = 0
        BY <2>2, <4>1
      <4>3. Mid(t, "flag", {1}) <=> op.kind = "flag" /\ at[t] \in {1}
        BY <3>4
      <4>4. /\ Extra(t) = IF at[t] \in 4 .. 6 THEN 1 ELSE 0
            /\ Lag(t) = IF at[t] = 4 THEN 1 ELSE IF at[t] = 7 THEN -1 ELSE 0
            /\ Storing(t) <=> at[t] \in {3, 6}
        BY <3>1, <3>5, CopyNow
      <4>5. /\ Putting(t) <=> at[t] \in {4, 7}
            /\ Loading(t) <=> at[t] \in {2, 5}
        BY <3>1, <3>5, ChangeNow
      <4>6. /\ at[t] = 3 => Change(t) = 1
            /\ at[t] = 6 => Change(t) = -1
        BY <3>1, <3>5, ChangeNow
      <4>7. ASSUME todo'[t] = q
            PROVE  /\ Extra(t)' = IF at'[t] \in 4 .. 6 THEN 1 ELSE 0
                   /\ Lag(t)' = IF at'[t] = 4 THEN 1 ELSE IF at'[t] = 7 THEN -1 ELSE 0
                   /\ (Storing(t)' <=> at'[t] \in {3, 6})
        <5>1. todo'[t] # <<>> /\ op = Head(todo'[t])
          BY <3>2, <4>7
        <5> QED
          BY <3>5, <5>1, CopyThen
      <4>9. CASE at[t] + 1 = 8 /\ at'[t] = 0
        <5>1. at[t] = 7
          BY <3>1, <4>9
        <5> QED
          BY <3>3, <3>5, <4>3, <4>4, <4>5, <4>9, <5>1
      <4>10. CASE todo'[t] = q /\ at'[t] = at[t] + 1 /\ at[t] + 1 < 8
        <5>1. at[t] = 0 \/ at[t] = 1 \/ at[t] = 2 \/ at[t] = 3 \/ at[t] = 4 \/ at[t] = 5 \/ at[t] = 6
          BY <3>1, <4>10
        <5> QED
          BY <3>5, <4>3, <4>4, <4>5, <4>6, <4>7, <4>10, <5>1
      <4> QED
        BY <4>2, <4>9, <4>10
    <3>6. CASE op.kind = "pot"
      <4>1. Len(Accesses(op)) = 7
        BY <3>6, AccessesOf
      <4>2. \/ todo'[t] = q /\ at'[t] = at[t] + 1 /\ at[t] + 1 < 7
            \/ at[t] + 1 = 7 /\ at'[t] = 0
        BY <2>2, <4>1
      <4>3. Mid(t, "flag", {1}) <=> op.kind = "flag" /\ at[t] \in {1}
        BY <3>4
      <4>4. /\ Extra(t) = IF at[t] \in 3 .. 5 THEN 2 ELSE 0
            /\ Lag(t) = IF at[t] = 3 THEN 2 ELSE IF at[t] = 6 THEN -2 ELSE 0
            /\ Storing(t) <=> at[t] \in {2, 5}
        BY <3>1, <3>6, CopyNow
      <4>5. /\ Putting(t) <=> at[t] \in {3, 6}
            /\ Loading(t) <=> at[t] \in {1, 4}
        BY <3>1, <3>6, ChangeNow
      <4>6. /\ at[t] = 2 => Change(t) = 2
            /\ at[t] = 5 => Change(t) = -2
        BY <3>1, <3>6, ChangeNow
      <4>7. ASSUME todo'[t] = q
            PROVE  /\ Extra(t)' = IF at'[t] \in 3 .. 5 THEN 2 ELSE 0
                   /\ Lag(t)' = IF at'[t] = 3 THEN 2 ELSE IF at'[t] = 6 THEN -2 ELSE 0
                   /\ (Storing(t)' <=> at'[t] \in {2, 5})
        <5>1. todo'[t] # <<>> /\ op = Head(todo'[t])
          BY <3>2, <4>7
        <5> QED
          BY <3>6, <5>1, CopyThen
      <4>9. CASE at[t] + 1 = 7 /\ at'[t] = 0
        <5>1. at[t] = 6
          BY <3>1, <4>9
        <5> QED
          BY <3>3, <3>6, <4>3, <4>4, <4>5, <4>9, <5>1
      <4>10. CASE todo'[t] = q /\ at'[t] = at[t] + 1 /\ at[t] + 1 < 7
        <5>1. at[t] = 0 \/ at[t] = 1 \/ at[t] = 2 \/ at[t] = 3 \/ at[t] = 4 \/ at[t] = 5
          BY <3>1, <4>10
        <5> QED
          BY <3>6, <4>3, <4>4, <4>5, <4>6, <4>7, <4>10, <5>1
      <4> QED
        BY <4>2, <4>9, <4>10
    <3>7. CASE op.kind = "flag"
      <4>1. Len(Accesses(op)) = 3
        BY <3>7, AccessesOf
      <4>2. \/ todo'[t] = q /\ at'[t] = at[t] + 1 /\ at[t] + 1 < 3
            \/ at[t] + 1 = 3 /\ at'[t] = 0
        BY <2>2, <4>1
      <4>3. Mid(t, "flag", {1}) <=> op.kind = "flag" /\ at[t] \in {1}
        BY <3>4
      <4>4. /\ Extra(t) = 0
            /\ Lag(t) = IF at[t] = 2 THEN op.data ELSE 0
            /\ Storing(t) <=> at[t] \in {1}
        BY <3>1, <3>7, CopyNow
      <4>5. /\ Putting(t) <=> at[t] \in {2}
            /\ Loading(t) <=> at[t] \in {0}
        BY <3>1, <3>7, ChangeNow
      <4>6. Change(t) = op.data
        BY <3>1, <3>7, ChangeNow
      <4>7. ASSUME todo'[t] = q
            PROVE  /\ Extra(t)' = 0
                   /\ Lag(t)' = IF at'[t] = 2 THEN op.data ELSE 0
                   /\ (Storing(t)' <=> at'[t] \in {1})
        <5>1. todo'[t] # <<>> /\ op = Head(todo'[t])
          BY <3>2, <4>7
        <5> QED
          BY <3>7, <5>1, CopyThen
      <4>8. op.data \in Int
        <5>1. op.data \in {4, -4, 32, -32}
          BY <1>1, <3>7, OperationFacts
        <5> QED
          BY <5>1
      <4>9. CASE at[t] + 1 = 3 /\ at'[t] = 0
        <5>1. at[t] = 2
          BY <3>1, <4>9
        <5> QED
          BY <3>3, <3>7, <4>3, <4>4, <4>5, <4>9, <5>1, <4>8
      <4>10. CASE todo'[t] = q /\ at'[t] = at[t] + 1 /\ at[t] + 1 < 3
        <5>1. at[t] = 0 \/ at[t] = 1
          BY <3>1, <4>10
        <5>2. CASE at[t] = 0
          <6>1. at'[t] = 1 /\ Extra(t)' = 0 /\ Lag(t)' = 0
            BY <4>7, <4>10, <5>2
          <6>2. Loading(t) /\ ~Storing(t) /\ ~Putting(t) /\ ~Mid(t, "flag", {1}) /\ Lag(t) = 0
            BY <4>3, <4>4, <4>5, <5>2
          <6> QED
            BY <3>7, <4>4, <6>1, <6>2
        <5>3. CASE at[t] = 1
          <6>1. at'[t] = 2 /\ Extra(t)' = 0 /\ Lag(t)' = op.data /\ ~Storing(t)'
            BY <4>7, <4>10, <5>3
          <6>2. Storing(t) /\ ~Putting(t) /\ Lag(t) = 0 /\ Lag(t)' = Change(t)
            BY <4>4, <4>5, <4>6, <5>3, <6>1
          <6> QED
            BY <3>7, <4>4, <4>6, <4>8, <6>1, <6>2
        <5> QED
          BY <5>1, <5>2, <5>3
      <4> QED
        BY <4>2, <4>9, <4>10
    <3> QED
      BY <1>9, <3>5, <3>6, <3>7 DEF Shared
  <2>6. /\ Mid(t, "asic", 1 .. 7)' => Mid(t, "asic", {0}) \/ Mid(t, "asic", 1 .. 7)
        /\ Mid(t, "asic", 2 .. 7)' => Mid(t, "asic", {1}) \/ Mid(t, "asic", 2 .. 7)
        /\ Mid(t, "asic", 1 .. 7)' => todo'[t] = q
        /\ Mid(t, "asic", 2 .. 7)' => todo'[t] = q
        /\ Mid(t, "asic", {0}) => ~Putting(t)
        /\ Mid(t, "asic", {1}) => ~Putting(t) /\ ~Mid(t, "asic", {0})
    <3>1. \A S : Mid(t, "asic", S) <=> op.kind = "asic" /\ at[t] \in S
      BY <1>1 DEF Mid, q
    <3>2. \A S : todo'[t] = q => (Mid(t, "asic", S)' <=> op.kind = "asic" /\ at'[t] \in S)
      BY <1>1 DEF Mid
    <3>3. at'[t] = 0 => ~Mid(t, "asic", 1 .. 7)' /\ ~Mid(t, "asic", 2 .. 7)'
      BY AtZero
    <3>4. op.kind = "asic" => (Putting(t) <=> at[t] \in {4, 7})
      BY <1>1 DEF Putting, Mid, q
    <3>5. at[t] \in 0 .. 7
      BY <1>1
    <3>6. /\ Mid(t, "asic", {0}) => at[t] = 0 /\ ~Putting(t)
          /\ Mid(t, "asic", {1}) => at[t] = 1 /\ ~Putting(t)
      BY <3>1, <3>4
    <3>7. CASE at'[t] = 0
      BY <3>3, <3>6, <3>7
    <3>8. CASE todo'[t] = q /\ at'[t] = at[t] + 1
      BY <3>1, <3>2, <3>5, <3>6, <3>8
    <3> QED
      BY <2>2, <3>7, <3>8
  <2>7. /\ axiReg2_data' = Base' + Extra(t)'
        /\ axiReg2_data' = arm'.ctrl + Lag(t)'
    <3>1. arm'.ctrl = IF Putting(t) THEN axiReg2_data ELSE arm.ctrl
      BY <1>2, <1>5
    <3>2. axiReg2_data' = IF Storing(t) THEN axiReg2_data + Change(t) ELSE axiReg2_data
      BY <1>2, <1>4
    <3>3. axiReg2_data' = arm'.ctrl + Lag(t)'
      BY <1>5, <2>4, <2>5, <3>1, <3>2
    <3>4. Mid(t, "flag", {1}) => op.kind = "flag"
      BY <1>1 DEF Mid, q
    <3>5. Storing(t) /\ op.kind = "flag" => Mid(t, "flag", {1})
      BY <1>1 DEF Mid, q, Storing
    <3>6. CASE Mid(t, "flag", {1})
      <4>1. Extra(t)' = Extra(t) /\ Extra(t) \in Int
        BY <2>5, <3>4, <3>6
      <4>2. Base' = Base + op.data
        BY <1>7, <3>6
      <4>3. axiReg2_data' = axiReg2_data + op.data /\ op.data \in Int
        BY <2>5, <3>2, <3>6
      <4>4. axiReg2_data = Base + Extra(t)
        BY <2>4
      <4> HIDE DEF op
      <4> QED
        BY <1>6, <4>1, <4>2, <4>3, <4>4, <3>3
    <3>7. CASE ~Mid(t, "flag", {1})
      <4>1. Base' = Base
        BY <1>6, <1>7, <3>7
      <4>2. axiReg2_data = Base + Extra(t) /\ Extra(t) \in Int
        BY <2>4, <2>5
      <4>3. CASE Storing(t)
        <5>1. Extra(t)' = Extra(t) + Change(t) /\ Change(t) \in Int
          BY <2>5, <3>5, <3>7, <4>3
        <5>2. axiReg2_data' = axiReg2_data + Change(t)
          BY <3>2, <4>3
        <5> QED
          BY <1>6, <4>1, <4>2, <5>1, <5>2, <3>3
      <4>4. CASE ~Storing(t)
        <5>1. Extra(t)' = Extra(t)
          BY <2>5, <4>2, <4>4
        <5>2. axiReg2_data' = axiReg2_data
          BY <3>2, <4>4
        <5> QED
          BY <4>1, <4>2, <5>1, <5>2, <3>3
      <4> QED
        BY <4>3, <4>4
    <3> QED
      BY <3>3, <3>6, <3>7
  <2>8. ASSUME NEW u \in Threads
        PROVE  /\ Storing(u)' => loaded'[u] = axiReg2_data'
               /\ Mid(u, "asic", 1 .. 7)' => arm'.data = Head(todo'[u]).data
               /\ Mid(u, "asic", 2 .. 7)' => arm'.addr = Head(todo'[u]).addr
    <3>1. CASE u # t
      BY <1>10, <2>3, <3>1
    <3>2. CASE u = t
      <4>1. Storing(t)' => loaded'[t] = axiReg2_data'
        BY <1>2, <1>5, <2>5
      <4>2. ASSUME Mid(t, "asic", 1 .. 7)' PROVE arm'.data = Head(todo'[t]).data
        <5>1. todo'[t] = q /\ Head(todo'[t]) = op
          BY <1>1, <2>6, <4>2
        <5>2. CASE Mid(t, "asic", {0})
          BY <1>2, <1>5, <2>6, <5>1, <5>2
        <5>3. CASE ~Mid(t, "asic", {0}) /\ Mid(t, "asic", 1 .. 7)
          <6>1. arm.data = op.data
            BY <1>1, <1>4, <5>3 DEF q
          <6> QED
            BY <1>2, <1>5, <5>1, <5>3, <6>1
        <5> QED
          BY <2>6, <4>2, <5>2, <5>3
      <4>3. ASSUME Mid(t, "asic", 2 .. 7)' PROVE arm'.addr = Head(todo'[t]).addr
        <5>1. todo'[t] = q /\ Head(todo'[t]) = op
          BY <1>1, <2>6, <4>3
        <5>2. CASE Mid(t, "asic", {1})
          BY <1>2, <1>5, <2>6, <5>1, <5>2
        <5>3. CASE ~Mid(t, "asic", {1}) /\ Mid(t, "asic", 2 .. 7)
          <6>1. arm.addr = op.addr
            BY <1>1, <1>4, <5>3 DEF q
          <6> QED
            BY <1>2, <1>5, <5>1, <5>3, <6>1
        <5> QED
          BY <2>6, <4>3, <5>2, <5>3
      <4> QED
        BY <3>2, <4>1, <4>2, <4>3
    <3> QED
      BY <3>1, <3>2
  <2> QED
    BY <1>11, <2>1, <2>7, <2>8
<1> QED
  BY <1>8, <1>9 DEF Shared

\* An access leaves the flag changes still to come as they are.
LEMMA FlagAccess ==
  ASSUME Locking, FlagInv, NEW t \in Threads, Access(t)
  PROVE  FlagInv'
<1>1. \A u \in Threads : FlagOf(u)' = FlagOf(u)
  BY DEF Access, menuVars, FlagOf
<1>2. /\ OneFlag(todo'[t], FlagOf(t)) /\ (NoFlag(todo[t]) => NoFlag(todo'[t]))
  BY PendingAfter
<1>3. \A u \in Threads : u # t => todo'[u] = todo[u]
  BY LeftAfter
<1>4. \A u \in Threads : OneFlag(todo'[u], FlagOf(u))
  BY <1>2, <1>3 DEF FlagInv
<1>5. NoFlag(todo'["math"])
  BY <1>2, <1>3 DEF FlagInv, Threads
<1>6. \A u \in Threads : OneFlag(todo'[u], FlagOf(u)')
  BY <1>1, <1>4
<1> QED
  BY <1>5, <1>6 DEF FlagInv

\* A call leaves the copy and the accesses to it as they are.
LEMMA CopyCall ==
  ASSUME Locking, CopyInv, NEW t \in Threads, NEW q, Call(t, q),
         Lasing' <=> Lasing, Timing' <=> Timing
  PROVE  CopyInv'
<1>1. /\ todo["config"] = <<>> /\ todo[t] = <<>> /\ todo' = [todo EXCEPT ![t] = q]
      /\ UNCHANGED <<owner, at, loaded, axiReg2_data, arm, pot_spi_ready>>
  BY DEF Call
<1>2. /\ todo \in [Threads -> Seq(Operations)] /\ at \in [Threads -> 0 .. 7]
      /\ \A u \in Threads : at[u] > 0 => todo[u] # <<>>
      /\ owner \in Threads \cup {"none"}
  BY DEF Locking, TypeInv
<1>3. \A u \in Threads : u # t => todo'[u] = todo[u]
  BY <1>1, <1>2
<1>4. at'[t] = 0
  BY <1>1, <1>2
<1>5. owner # t
  <2>1. ~InLock(<<>>, 1)
    BY DEF InLock
  <2> QED
    BY <1>1, <2>1 DEF Locking, LockInv
<1>6. ASSUME NEW u \in Threads, u # t
      PROVE  /\ Extra(u)' = Extra(u) /\ Lag(u)' = Lag(u) /\ (Storing(u)' <=> Storing(u))
             /\ \A S : Mid(u, "asic", S)' <=> Mid(u, "asic", S)
  <2>1. todo'[u] = todo[u]
    BY <1>3, <1>6
  <2>2. \A k, S : Mid(u, k, S)' <=> Mid(u, k, S)
    BY <1>1, <2>1 DEF Mid
  <2> QED
    BY <2>1, <2>2 DEF Extra, Lag, Storing
<1>7. /\ Extra(t)' = 0 /\ Lag(t)' = 0 /\ ~Storing(t)'
      /\ ~Mid(t, "asic", 1 .. 7)' /\ ~Mid(t, "asic", 2 .. 7)'
  BY <1>4, AtZero
<1>8. /\ (IF owner = "none" THEN 0 ELSE Extra(owner))' = IF owner = "none" THEN 0 ELSE Extra(owner)
      /\ (IF owner = "none" THEN 0 ELSE Lag(owner))' = IF owner = "none" THEN 0 ELSE Lag(owner)
  BY <1>1, <1>2, <1>5, <1>6
<1>9. /\ Num(Lasing', TIMING_CORE_EN) = Num(Lasing, TIMING_CORE_EN)
      /\ Num(Timing', TDC_EN) = Num(Timing, TDC_EN)
  BY DEF Num
<1>10. ASSUME NEW u \in Threads
       PROVE  /\ Storing(u)' => loaded'[u] = axiReg2_data'
              /\ Mid(u, "asic", 1 .. 7)' => arm'.data = Head(todo'[u]).data
              /\ Mid(u, "asic", 2 .. 7)' => arm'.addr = Head(todo'[u]).addr
  <2>1. CASE u = t
    BY <1>7, <2>1
  <2>2. CASE u # t
    BY <1>1, <1>3, <1>6, <2>2 DEF CopyInv
  <2> QED
    BY <2>1, <2>2
<1>11. /\ axiReg2_data = Num(Lasing, TIMING_CORE_EN) + Num(Timing, TDC_EN)
                           + (IF owner = "none" THEN 0 ELSE Extra(owner))
       /\ axiReg2_data = arm.ctrl + (IF owner = "none" THEN 0 ELSE Lag(owner))
  BY DEF CopyInv
<1>12. /\ axiReg2_data' = Num(Lasing', TIMING_CORE_EN) + Num(Timing', TDC_EN)
                            + (IF owner = "none" THEN 0 ELSE Extra(owner))'
       /\ axiReg2_data' = arm'.ctrl + (IF owner = "none" THEN 0 ELSE Lag(owner))'
  BY <1>1, <1>8, <1>9, <1>11
<1> QED
  BY <1>10, <1>12 DEF CopyInv

\* A call that is made keeps the flag of its thread pending.
LEMMA FlagCallStep ==
  ASSUME Locking, FlagInv, CopyInv, NEW t \in Threads, NEW q, Call(t, q),
         OneFlag(q, FlagOf(t)'), t = "math" => NoFlag(q),
         t # "dma" => dma_state' = dma_state, t # "interface" => enL' = enL,
         Lasing' <=> Lasing, Timing' <=> Timing
  PROVE  FlagInv' /\ CopyInv'
<1>1. /\ todo["config"] = <<>> /\ todo[t] = <<>> /\ todo' = [todo EXCEPT ![t] = q]
  BY DEF Call
<1>2. todo \in [Threads -> Seq(Operations)]
  BY DEF Locking, TypeInv
<1>3. todo'[t] = q /\ \A u \in Threads : u # t => todo'[u] = todo[u]
  BY <1>1, <1>2
<1>4. \A f : OneFlag(<<>>, f)
  BY DEF OneFlag
<1>5. \A s, f : NoFlag(s) => OneFlag(s, f)
  BY DEF NoFlag, OneFlag
<1>6. ASSUME NEW u \in Threads PROVE OneFlag(todo'[u], FlagOf(u)')
  <2>1. CASE u = t
    BY <1>3, <2>1
  <2>2. CASE u # t /\ u = "config"
    BY <1>1, <1>3, <1>4, <2>2
  <2>3. CASE u # t /\ u = "math"
    BY <1>3, <1>5, <2>3 DEF FlagInv
  <2>4. CASE u # t /\ u = "dma"
    BY <1>3, <2>4 DEF FlagInv, FlagOf
  <2>5. CASE u # t /\ u = "interface"
    BY <1>3, <2>5 DEF FlagInv, FlagOf
  <2> QED
    BY <2>1, <2>2, <2>3, <2>4, <2>5 DEF Threads
<1>7. NoFlag(todo'["math"])
  BY <1>3 DEF FlagInv, Threads
<1>8. CopyInv'
  BY CopyCall
<1> QED
  BY <1>6, <1>7, <1>8 DEF FlagInv

\* A call adds at most its own flag to the changes still to come.
LEMMA PendingCall ==
  ASSUME Locking, NEW t \in Threads, t # "config", NEW q, Call(t, q), q \in Seq(Operations),
         NoFlag(q) \/ q[1].kind # "flag"
  PROVE  /\ ~Pending("config") /\ ~Pending("config")' /\ ~Pending(t)
         /\ Pending(t)' <=> ~NoFlag(q)
         /\ \A u \in Threads : u # t => (Pending(u)' <=> Pending(u))
<1>1. /\ todo["config"] = <<>> /\ todo[t] = <<>> /\ todo' = [todo EXCEPT ![t] = q]
      /\ UNCHANGED at
  BY DEF Call
<1>2. todo \in [Threads -> Seq(Operations)]
  BY DEF Locking, TypeInv
<1>3. todo'[t] = q /\ \A u \in Threads : u # t => todo'[u] = todo[u]
  BY <1>1, <1>2
<1>4. ~Pending("config") /\ ~Pending(t)
  BY <1>1 DEF Pending
<1>5. Pending(t)' <=> ~NoFlag(q)
  <2>1. Pending(t)' <=> \E i \in 1 .. Len(q) : q[i].kind = "flag" /\ (i = 1 => at'[t] < 2)
    BY <1>3 DEF Pending
  <2>2. CASE NoFlag(q)
    BY <2>1, <2>2 DEF NoFlag
  <2>3. CASE ~NoFlag(q)
    <3>1. q[1].kind # "flag"
      BY <2>3
    <3> QED
      BY <2>1, <2>3, <3>1 DEF NoFlag
  <2> QED
    BY <2>2, <2>3
<1>6. \A u \in Threads : u # t => (Pending(u)' <=> Pending(u))
  BY <1>1, <1>3 DEF Pending
<1> QED
  BY <1>4, <1>5, <1>6 DEF Threads

\* Every step keeps the copy and the flag changes still to come.
LEMMA CopyStep == Locking /\ FlagInv /\ CopyInv /\ [Next]_vars => FlagInv' /\ CopyInv'
<1> SUFFICES ASSUME Locking, FlagInv, CopyInv, [Next]_vars PROVE FlagInv' /\ CopyInv'
  OBVIOUS
<1>0. /\ enL \in BOOLEAN /\ TypeInv
      /\ "interface" \in Threads /\ "dma" \in Threads /\ "math" \in Threads /\ "config" \in Threads
  BY DEF Locking, TypeInv, Threads
<1>1. CASE \E t \in Threads : Access(t)
  BY <1>1, CopyAccess, FlagAccess
<1>2. CASE Interface /\ ~Shutdown
  <2>1. PICK q : /\ Call("interface", q) /\ Sound(q)
                 /\ \/ enL' = enL /\ NoFlag(q)
                    \/ /\ enL' = ~enL
                       /\ OneFlag(q, IF enL THEN -TIMING_CORE_EN ELSE TIMING_CORE_EN)
                       /\ ~NoFlag(q) /\ q[1].kind # "flag"
                 /\ UNCHANGED <<dma_state, stop>>
    BY <1>0, <1>2, MenuCalls
  <2>2. q \in Seq(Operations) /\ (NoFlag(q) \/ q[1].kind # "flag")
    BY <2>1 DEF Sound
  <2>3. /\ ~Pending("config") /\ ~Pending("config")' /\ ~Pending("interface")
        /\ Pending("interface")' <=> ~NoFlag(q)
        /\ \A u \in Threads : u # "interface" => (Pending(u)' <=> Pending(u))
    <3>1. "interface" # "config"
      OBVIOUS
    <3> QED
      BY <1>0, <2>1, <2>2, <3>1, PendingCall
  <2>4. Pending("dma")' <=> Pending("dma")
    BY <1>0, <2>3
  <2>5. Timing' <=> Timing
    BY <2>1, <2>4 DEF Timing
  <2>6. Lasing' <=> Lasing
    <3>1. CASE enL' = enL /\ NoFlag(q)
      BY <1>0, <2>3, <3>1 DEF Lasing
    <3>2. CASE enL' = ~enL /\ ~NoFlag(q)
      <4>1. enL' <=> ~enL
        BY <3>2
      <4> QED
        BY <2>3, <3>2, <4>1 DEF Lasing
    <3> QED
      BY <2>1, <3>1, <3>2
  <2>7. OneFlag(q, FlagOf("interface")')
    <3>1. FlagOf("interface")' = IF enL' THEN TIMING_CORE_EN ELSE -TIMING_CORE_EN
      BY DEF FlagOf
    <3>2. CASE enL' = enL /\ NoFlag(q)
      BY <3>2 DEF NoFlag, OneFlag
    <3>3. CASE enL' = ~enL /\ OneFlag(q, IF enL THEN -TIMING_CORE_EN ELSE TIMING_CORE_EN)
      <4>1. CASE enL
        BY <3>1, <3>3, <4>1
      <4>2. CASE ~enL
        BY <3>1, <3>3, <4>2
      <4> QED
        BY <4>1, <4>2
    <3> QED
      BY <2>1, <3>2, <3>3
  <2> QED
    BY <1>0, <2>1, <2>5, <2>6, <2>7, FlagCallStep
<1>3. ASSUME NEW q, Call("dma", q), Sound(q), ~NoFlag(q), q[1].kind # "flag",
             OneFlag(q, FlagOf("dma")'), enL' = enL,
             dma_state' = "running" <=> dma_state # "running"
      PROVE  FlagInv' /\ CopyInv'
  <2>1. q \in Seq(Operations) /\ "dma" # "config"
    BY <1>3 DEF Sound
  <2>2. /\ ~Pending("config") /\ ~Pending("config")' /\ ~Pending("dma")
        /\ Pending("dma")'
        /\ \A u \in Threads : u # "dma" => (Pending(u)' <=> Pending(u))
    BY <1>0, <1>3, <2>1, PendingCall
  <2>3. Pending("interface")' <=> Pending("interface")
    BY <1>0, <2>2
  <2>4. Lasing' <=> Lasing
    BY <1>0, <1>3, <2>2, <2>3 DEF Lasing
  <2>5. Timing' <=> Timing
    BY <1>3, <2>2 DEF Timing
  <2> QED
    BY <1>0, <1>3, <2>4, <2>5, FlagCallStep
<1>4. CASE DMAStart
  <2>1. FlagOf("dma")' = TDC_EN
    BY <1>4 DEF DMAStart, FlagOf
  <2> QED
    BY <1>3, <1>4, <2>1, OtherCalls DEF DMAStart, menuVars
<1>5. CASE DMAEnd
  <2>1. FlagOf("dma")' = -TDC_EN
    BY <1>5 DEF DMAEnd, FlagOf
  <2> QED
    BY <1>3, <1>5, <2>1, OtherCalls DEF DMAEnd, menuVars
<1>6. CASE MathAccess
  <2> DEFINE q == Locked(<<Plain>>)
  <2>1. /\ Call("math", q) /\ Sound(q) /\ NoFlag(q) /\ enL' = enL /\ dma_state' = dma_state
    BY <1>6, OtherCalls DEF MathAccess, menuVars
  <2> HIDE DEF q
  <2>2. q \in Seq(Operations) /\ "math" # "config"
    BY <2>1 DEF Sound
  <2>3. \A u \in Threads : u # "math" => (Pending(u)' <=> Pending(u))
    BY <1>0, <2>1, <2>2, PendingCall
  <2>4. /\ Pending("config")' <=> Pending("config")
        /\ Pending("interface")' <=> Pending("interface")
        /\ Pending("dma")' <=> Pending("dma")
    BY <1>0, <2>3
  <2>5. (Lasing' <=> Lasing) /\ (Timing' <=> Timing)
    BY <1>0, <2>1, <2>4 DEF Lasing, Timing
  <2>6. \A f : OneFlag(q, f)
    BY <2>1 DEF OneFlag, NoFlag
  <2> QED
    BY <1>0, <2>1, <2>5, <2>6, FlagCallStep
<1>7. CASE Shutdown \/ PotReady \/ UNCHANGED vars
  <2>1. UNCHANGED <<callVars, enL, dma_state>>
    BY <1>7 DEF Shutdown, PotReady, vars, menuVars
  <2>2. UNCHANGED <<owner, todo, at, loaded, axiReg2_data, arm, enL, dma_state>>
    BY <2>1 DEF callVars
  <2>3. FlagInv'
    BY <2>2 DEF FlagInv, FlagOf
  <2>4. \A u : Pending(u)' <=> Pending(u)
    BY <2>2 DEF Pending
  <2>5. (Lasing' <=> Lasing) /\ (Timing' <=> Timing)
    BY <1>0, <2>2, <2>4 DEF Lasing, Timing
  <2>6. \A u, k, S : Mid(u, k, S)' <=> Mid(u, k, S)
    BY <2>2 DEF Mid
  <2>7. \A u : Extra(u)' = Extra(u) /\ Lag(u)' = Lag(u) /\ (Storing(u)' <=> Storing(u))
    BY <2>2, <2>6 DEF Extra, Lag, Storing
  <2>8. /\ Num(Lasing', TIMING_CORE_EN) = Num(Lasing, TIMING_CORE_EN)
        /\ Num(Timing', TDC_EN) = Num(Timing, TDC_EN)
    BY <2>5 DEF Num
  <2>9. CopyInv'
    BY <2>2, <2>6, <2>7, <2>8 DEF CopyInv
  <2> QED
    BY <2>3, <2>9
<1> QED
  BY <1>1, <1>2, <1>4, <1>5, <1>6, <1>7 DEF Next

\* The copy and the register are clear before the configuration.
LEMMA CopyInit == Init => FlagInv /\ CopyInv
<1> SUFFICES ASSUME Init PROVE FlagInv /\ CopyInv
  OBVIOUS
<1> DEFINE q == ConfigurationCalls
<1>1. /\ Sound(q) /\ OneFlag(q, TIMING_CORE_EN) /\ \E i \in 1 .. Len(q) : q[i].kind = "flag"
  BY ConfigCall
<1>2. todo = [t \in Threads |-> IF t = "config" THEN q ELSE <<>>]
  BY DEF Init, ConfigurationCalls
<1> HIDE DEF q
<1>3. /\ owner = "none" /\ at = [t \in Threads |-> 0] /\ axiReg2_data = 0
      /\ arm.ctrl = 0 /\ enL = TRUE /\ dma_state = "start"
  BY DEF Init
<1>4. /\ todo["config"] = q /\ at["config"] = 0
      /\ \A t \in Threads : t # "config" => todo[t] = <<>>
      /\ \A t \in Threads : at[t] = 0
  BY <1>2, <1>3 DEF Threads
<1>5. FlagInv
  <2>1. ASSUME NEW t \in Threads PROVE OneFlag(todo[t], FlagOf(t))
    <3>1. CASE t = "config"
      BY <1>1, <1>3, <1>4, <3>1 DEF FlagOf
    <3>2. CASE t # "config"
      BY <1>4, <3>2 DEF OneFlag
    <3> QED
      BY <3>1, <3>2
  <2>2. NoFlag(todo["math"])
    BY <1>4 DEF NoFlag, Threads
  <2> QED
    BY <2>1, <2>2 DEF FlagInv
<1>6. Pending("config") /\ ~Pending("dma")
  BY <1>1, <1>4 DEF Pending, Threads
<1>7. ~Lasing /\ ~Timing
  BY <1>3, <1>6 DEF Lasing, Timing
<1>8. \A t \in Threads : \A k, S : 0 \notin S => ~Mid(t, k, S)
  BY <1>4 DEF Mid
<1>9. /\ 0 \notin 1 .. 7 /\ 0 \notin 2 .. 7 /\ 0 \notin {3, 6} /\ 0 \notin {2, 5} /\ 0 \notin {1}
  OBVIOUS
<1>10. \A t \in Threads : ~Storing(t) /\ ~Mid(t, "asic", 1 .. 7) /\ ~Mid(t, "asic", 2 .. 7)
  BY <1>8, <1>9 DEF Storing
<1>11. CopyInv
  BY <1>3, <1>7, <1>10 DEF CopyInv, Num
<1> QED
  BY <1>5, <1>11

\* Two flags and a command bit in a number.
LEMMA FlagBits ==
  ASSUME NEW a \in BOOLEAN, NEW b \in BOOLEAN, NEW e \in 0 .. 2,
         NEW n, n = Num(a, 4) + Num(b, 32) + e
  PROVE  /\ Flag(n, 4) <=> a
         /\ Flag(n, 32) <=> b
         /\ Flag(n, 1) <=> e = 1
         /\ Flag(n, 2) <=> e = 2
         /\ n % 32 < 8 /\ n \in 0 .. 63
<1>1. e = 0 \/ e = 1 \/ e = 2
  OBVIOUS
<1>2. CASE a /\ b
  <2>1. n = 36 + e
    BY <1>2 DEF Num
  <2>2. CASE e = 0
    <3>1. n = 36 /\ e # 1 /\ e # 2
      BY <2>1, <2>2
    <3>2. /\ Flag(n, 4) /\ Flag(n, 32) /\ ~Flag(n, 1) /\ ~Flag(n, 2)
          /\ n % 32 < 8 /\ n \in 0 .. 63
      BY <3>1 DEF Flag
    <3> QED
      BY <1>2, <3>1, <3>2
  <2>3. CASE e = 1
    <3>1. n = 37 /\ e = 1 /\ e # 2
      BY <2>1, <2>3
    <3>2. /\ Flag(n, 4) /\ Flag(n, 32) /\ Flag(n, 1) /\ ~Flag(n, 2)
          /\ n % 32 < 8 /\ n \in 0 .. 63
      BY <3>1 DEF Flag
    <3> QED
      BY <1>2, <3>1, <3>2
  <2>4. CASE e = 2
    <3>1. n = 38 /\ e # 1 /\ e = 2
      BY <2>1, <2>4
    <3>2. /\ Flag(n, 4) /\ Flag(n, 32) /\ ~Flag(n, 1) /\ Flag(n, 2)
          /\ n % 32 < 8 /\ n \in 0 .. 63
      BY <3>1 DEF Flag
    <3> QED
      BY <1>2, <3>1, <3>2
  <2> QED
    BY <1>1, <2>2, <2>3, <2>4
<1>3. CASE a /\ ~b
  <2>1. n = 4 + e
    BY <1>3 DEF Num
  <2>2. CASE e = 0
    <3>1. n = 4 /\ e # 1 /\ e # 2
      BY <2>1, <2>2
    <3>2. /\ Flag(n, 4) /\ ~Flag(n, 32) /\ ~Flag(n, 1) /\ ~Flag(n, 2)
          /\ n % 32 < 8 /\ n \in 0 .. 63
      BY <3>1 DEF Flag
    <3> QED
      BY <1>3, <3>1, <3>2
  <2>3. CASE e = 1
    <3>1. n = 5 /\ e = 1 /\ e # 2
      BY <2>1, <2>3
    <3>2. /\ Flag(n, 4) /\ ~Flag(n, 32) /\ Flag(n, 1) /\ ~Flag(n, 2)
          /\ n % 32 < 8 /\ n \in 0 .. 63
      BY <3>1 DEF Flag
    <3> QED
      BY <1>3, <3>1, <3>2
  <2>4. CASE e = 2
    <3>1. n = 6 /\ e # 1 /\ e = 2
      BY <2>1, <2>4
    <3>2. /\ Flag(n, 4) /\ ~Flag(n, 32) /\ ~Flag(n, 1) /\ Flag(n, 2)
          /\ n % 32 < 8 /\ n \in 0 .. 63
      BY <3>1 DEF Flag
    <3> QED
      BY <1>3, <3>1, <3>2
  <2> QED
    BY <1>1, <2>2, <2>3, <2>4
<1>4. CASE ~a /\ b
  <2>1. n = 32 + e
    BY <1>4 DEF Num
  <2>2. CASE e = 0
    <3>1. n = 32 /\ e # 1 /\ e # 2
      BY <2>1, <2>2
    <3>2. /\ ~Flag(n, 4) /\ Flag(n, 32) /\ ~Flag(n, 1) /\ ~Flag(n, 2)
          /\ n % 32 < 8 /\ n \in 0 .. 63
      BY <3>1 DEF Flag
    <3> QED
      BY <1>4, <3>1, <3>2
  <2>3. CASE e = 1
    <3>1. n = 33 /\ e = 1 /\ e # 2
      BY <2>1, <2>3
    <3>2. /\ ~Flag(n, 4) /\ Flag(n, 32) /\ Flag(n, 1) /\ ~Flag(n, 2)
          /\ n % 32 < 8 /\ n \in 0 .. 63
      BY <3>1 DEF Flag
    <3> QED
      BY <1>4, <3>1, <3>2
  <2>4. CASE e = 2
    <3>1. n = 34 /\ e # 1 /\ e = 2
      BY <2>1, <2>4
    <3>2. /\ ~Flag(n, 4) /\ Flag(n, 32) /\ ~Flag(n, 1) /\ Flag(n, 2)
          /\ n % 32 < 8 /\ n \in 0 .. 63
      BY <3>1 DEF Flag
    <3> QED
      BY <1>4, <3>1, <3>2
  <2> QED
    BY <1>1, <2>2, <2>3, <2>4
<1>5. CASE ~a /\ ~b
  <2>1. n = e
    BY <1>5 DEF Num
  <2>2. CASE e = 0
    <3>1. n = 0 /\ e # 1 /\ e # 2
      BY <2>1, <2>2
    <3>2. /\ ~Flag(n, 4) /\ ~Flag(n, 32) /\ ~Flag(n, 1) /\ ~Flag(n, 2)
          /\ n % 32 < 8 /\ n \in 0 .. 63
      BY <3>1 DEF Flag
    <3> QED
      BY <1>5, <3>1, <3>2
  <2>3. CASE e = 1
    <3>1. n = 1 /\ e = 1 /\ e # 2
      BY <2>1, <2>3
    <3>2. /\ ~Flag(n, 4) /\ ~Flag(n, 32) /\ Flag(n, 1) /\ ~Flag(n, 2)
          /\ n % 32 < 8 /\ n \in 0 .. 63
      BY <3>1 DEF Flag
    <3> QED
      BY <1>5, <3>1, <3>2
  <2>4. CASE e = 2
    <3>1. n = 2 /\ e # 1 /\ e = 2
      BY <2>1, <2>4
    <3>2. /\ ~Flag(n, 4) /\ ~Flag(n, 32) /\ ~Flag(n, 1) /\ Flag(n, 2)
          /\ n % 32 < 8 /\ n \in 0 .. 63
      BY <3>1 DEF Flag
    <3> QED
      BY <1>5, <3>1, <3>2
  <2> QED
    BY <1>1, <2>2, <2>3, <2>4
<1> QED
  BY <1>2, <1>3, <1>4, <1>5

\* What the register holds.  The flag of a thread differs from what the thread has
\* done only while the copy with it is on its way to the register.
Sent(t) == Mid(t, "flag", {2})
LaserBit == IF Sent("config") \/ Sent("interface") THEN ~Lasing ELSE Lasing
TimeBit == IF Sent("dma") THEN ~Timing ELSE Timing
CommandBits == IF owner = "none" \/ Sent(owner) THEN 0 ELSE Extra(owner) - Lag(owner)

\* The flag that a thread has stored but not yet written is the last it asked for.
LEMMA SentFlag ==
  ASSUME Locking, FlagInv, NEW t \in Threads, Sent(t)
  PROVE  /\ owner = t /\ t # "math" /\ ~Pending(t)
         /\ Head(todo[t]).data = FlagOf(t)
         /\ \A u \in Threads : u # t => ~Sent(u)
<1>1. /\ todo[t] \in Seq(Operations) /\ todo[t] # <<>> /\ Head(todo[t]).kind = "flag" /\ at[t] = 2
  BY DEF Locking, TypeInv, Sent, Mid
<1>2. 1 \in 1 .. Len(todo[t]) /\ todo[t][1] = Head(todo[t])
  BY <1>1
<1>3. owner = t
  BY <1>1, SharedOwner DEF Shared
<1>4. t # "math"
  BY <1>1, <1>2 DEF FlagInv, NoFlag
<1>5. /\ Head(todo[t]).data = FlagOf(t)
      /\ \A i \in 1 .. Len(todo[t]) : todo[t][i].kind = "flag" => i = 1
  BY <1>1, <1>2 DEF FlagInv, OneFlag
<1>6. ~Pending(t)
  BY <1>1, <1>5 DEF Pending
<1>7. ASSUME NEW u \in Threads, Sent(u) PROVE u = t
  <2>1. todo[u] # <<>> /\ Head(todo[u]).kind = "flag"
    BY <1>7 DEF Sent, Mid
  <2> QED
    BY <1>3, <2>1, SharedOwner DEF Shared
<1> QED
  BY <1>3, <1>4, <1>5, <1>6, <1>7

\* The register is made of the two flags and the command bit of the access under way.
LEMMA RegisterHolds ==
  ASSUME Locking, FlagInv, CopyInv
  PROVE  /\ arm.ctrl = Num(LaserBit, 4) + Num(TimeBit, 32) + CommandBits
         /\ LaserBit \in BOOLEAN /\ TimeBit \in BOOLEAN /\ CommandBits \in 0 .. 2
         /\ Idle("interface") => (LaserBit <=> enL)
         /\ Idle("dma") => (TimeBit <=> dma_state = "running")
<1> DEFINE Base == Num(Lasing, 4) + Num(Timing, 32)
<1>1. /\ axiReg2_data = Base + (IF owner = "none" THEN 0 ELSE Extra(owner))
      /\ axiReg2_data = arm.ctrl + (IF owner = "none" THEN 0 ELSE Lag(owner))
  BY DEF CopyInv, TIMING_CORE_EN, TDC_EN
<1>2. /\ arm.ctrl \in Int /\ enL \in BOOLEAN /\ owner \in Threads \cup {"none"}
      /\ at \in [Threads -> 0 .. 7]
      /\ "interface" \in Threads /\ "dma" \in Threads /\ "config" \in Threads
  BY DEF Locking, TypeInv, Threads
<1>3. Lasing \in BOOLEAN /\ Timing \in BOOLEAN
  BY DEF Lasing, Timing
<1>4. Num(Lasing, 4) \in Int /\ Num(Timing, 32) \in Int
  BY DEF Num
<1>5. Idle("interface") => (LaserBit <=> enL)
  <2> SUFFICES ASSUME Idle("interface") PROVE LaserBit <=> enL
    OBVIOUS
  <2>1. todo["config"] = <<>> /\ todo["interface"] = <<>>
    BY DEF Idle
  <2> QED
    BY <1>2, <2>1 DEF LaserBit, Sent, Mid, Lasing, Pending
<1>6. Idle("dma") => (TimeBit <=> dma_state = "running")
  <2> SUFFICES ASSUME Idle("dma") PROVE TimeBit <=> dma_state = "running"
    OBVIOUS
  <2>1. todo["dma"] = <<>>
    BY DEF Idle
  <2> QED
    BY <2>1 DEF TimeBit, Sent, Mid, Timing, Pending
<1>7. LaserBit \in BOOLEAN /\ TimeBit \in BOOLEAN
  BY <1>3 DEF LaserBit, TimeBit
<1>8. CASE owner = "none"
  <2>1. \A t \in Threads : ~Sent(t)
    BY <1>8, SentFlag DEF Threads
  <2>2. (LaserBit <=> Lasing) /\ (TimeBit <=> Timing) /\ CommandBits = 0
    BY <1>2, <1>8, <2>1 DEF LaserBit, TimeBit, CommandBits
  <2>3. Num(LaserBit, 4) = Num(Lasing, 4) /\ Num(TimeBit, 32) = Num(Timing, 32)
    BY <2>2 DEF Num
  <2>4. arm.ctrl = Base
    BY <1>1, <1>2, <1>8, <1>4
  <2> QED
    BY <1>4, <1>5, <1>6, <1>7, <2>2, <2>3, <2>4
<1>9. CASE owner # "none" /\ ~Sent(owner)
  <2>1. \A t \in Threads : ~Sent(t)
    BY <1>9, SentFlag
  <2>2. (LaserBit <=> Lasing) /\ (TimeBit <=> Timing) /\ CommandBits = Extra(owner) - Lag(owner)
    BY <1>2, <1>9, <2>1 DEF LaserBit, TimeBit, CommandBits
  <2>3. Num(LaserBit, 4) = Num(Lasing, 4) /\ Num(TimeBit, 32) = Num(Timing, 32)
    BY <2>2 DEF Num
  <2>4. Extra(owner) \in Int /\ Lag(owner) \in Int /\ Extra(owner) - Lag(owner) \in 0 .. 2
    <3> DEFINE o == owner
    <3>0. o \in Threads /\ at[o] \in 0 .. 7
      BY <1>2, <1>9
    <3>1. CASE todo[o] = <<>>
      BY <3>1 DEF Extra, Lag, Mid
    <3>2. CASE todo[o] # <<>>
      <4> DEFINE op == Head(todo[o])
      <4>1. ~(op.kind = "flag" /\ at[o] = 2)
        BY <1>9, <3>2 DEF Sent, Mid
      <4>2. CASE op.kind = "asic"
        <5>1. /\ Extra(o) = IF at[o] \in 4 .. 6 THEN 1 ELSE 0
              /\ Lag(o) = IF at[o] = 4 THEN 1 ELSE IF at[o] = 7 THEN -1 ELSE 0
          BY <3>2, <4>2, CopyNow
        <5> QED
          BY <3>0, <5>1
      <4>3. CASE op.kind = "pot"
        <5>1. /\ Extra(o) = IF at[o] \in 3 .. 5 THEN 2 ELSE 0
              /\ Lag(o) = IF at[o] = 3 THEN 2 ELSE IF at[o] = 6 THEN -2 ELSE 0
          BY <3>2, <4>3, CopyNow
        <5> QED
          BY <3>0, <5>1
      <4>4. CASE op.kind = "flag"
        <5>1. Extra(o) = 0 /\ Lag(o) = IF at[o] = 2 THEN op.data ELSE 0
          BY <3>2, <4>4, CopyNow
        <5>2. Extra(o) = 0 /\ Lag(o) = 0
          BY <4>1, <4>4, <5>1
        <5> QED
          BY <5>2
      <4>5. CASE op.kind \notin Shared
        <5>1. Extra(o) = 0 /\ Lag(o) = 0
          BY <3>2, <4>5, CopyNow
        <5> QED
          BY <5>1
      <4> QED
        BY <4>2, <4>3, <4>4, <4>5 DEF Shared
    <3> QED
      BY <3>1, <3>2
  <2>5. Base + Extra(owner) = arm.ctrl + Lag(owner)
    BY <1>1, <1>9
  <2>6. arm.ctrl = Base + (Extra(owner) - Lag(owner))
    BY <1>2, <1>4, <2>4, <2>5
  <2> QED
    BY <1>4, <1>5, <1>6, <1>7, <2>2, <2>3, <2>4, <2>6
<1>10. CASE owner # "none" /\ Sent(owner)
  <2> DEFINE o == owner
             d == Head(todo[o]).data
  <2>1. o \in Threads
    BY <1>2, <1>10
  <2>2. /\ o # "math" /\ ~Pending(o) /\ d = FlagOf(o)
        /\ \A u \in Threads : u # o => ~Sent(u)
    BY <1>10, <2>1, SentFlag
  <2>3. todo[o] # <<>> /\ Head(todo[o]).kind = "flag" /\ at[o] = 2
    BY <1>10 DEF Sent, Mid
  <2>4. Extra(o) = 0 /\ Lag(o) = d
    BY <2>3, CopyNow
  <2>5. Base = arm.ctrl + d
    BY <1>1, <1>10, <1>4, <2>4
  <2>6. CommandBits = 0
    BY <1>10 DEF CommandBits
  <2> HIDE DEF d, o
  <2>7. CASE o = "dma"
    <3>1. (TimeBit <=> ~Timing) /\ (LaserBit <=> Lasing) /\ (Timing <=> dma_state = "running")
      <4>1. Sent("dma") /\ ~Sent("config") /\ ~Sent("interface") /\ ~Pending("dma")
        BY <1>2, <1>10, <2>2, <2>7 DEF o
      <4> QED
        BY <4>1 DEF TimeBit, LaserBit, Timing
    <3>2. d = IF Timing THEN 32 ELSE -32
      BY <2>2, <2>7, <3>1 DEF FlagOf, TDC_EN
    <3>3. Num(LaserBit, 4) = Num(Lasing, 4) /\ Num(TimeBit, 32) = Num(Timing, 32) - d
      BY <3>1, <3>2 DEF Num
    <3>4. d \in Int
      BY <3>2
    <3>5. arm.ctrl = Num(Lasing, 4) + Num(Timing, 32) - d
      BY <1>2, <1>4, <2>5, <3>4
    <3> QED
      BY <1>4, <1>5, <1>6, <1>7, <2>6, <3>3, <3>4, <3>5
  <2>8. CASE o # "dma"
    <3>1. (TimeBit <=> Timing) /\ (LaserBit <=> ~Lasing) /\ (Lasing <=> enL)
      <4>1. o = "config" \/ o = "interface"
        BY <2>1, <2>2, <2>8 DEF Threads
      <4>2. ~Sent("dma") /\ (Sent("config") \/ Sent("interface"))
        BY <1>2, <1>10, <2>2, <2>8, <4>1 DEF o
      <4>3. ~Pending("config") /\ ~Pending("interface")
        <5>1. todo["config"] = <<>> \/ todo["interface"] = <<>>
          BY <1>2 DEF Locking, LockInv
        <5> QED
          BY <2>2, <2>3, <4>1, <5>1 DEF Pending
      <4> QED
        BY <1>2, <4>2, <4>3 DEF TimeBit, LaserBit, Lasing
    <3>2. d = IF Lasing THEN 4 ELSE -4
      BY <2>2, <2>8, <3>1 DEF FlagOf, TIMING_CORE_EN
    <3>3. Num(LaserBit, 4) = Num(Lasing, 4) - d /\ Num(TimeBit, 32) = Num(Timing, 32)
      BY <3>1, <3>2 DEF Num
    <3>4. d \in Int
      BY <3>2
    <3>5. arm.ctrl = Num(Lasing, 4) + Num(Timing, 32) - d
      BY <1>2, <1>4, <2>5, <3>4
    <3> QED
      BY <1>4, <1>5, <1>6, <1>7, <2>6, <3>3, <3>4, <3>5
  <2> QED
    BY <2>7, <2>8
<1> QED
  BY <1>8, <1>9, <1>10

RegisterInv == Locking /\ FlagInv /\ CopyInv

\* Safety: the lock is held exactly inside a locked part of a call, the copy axiReg2_data is the
\* sum of the flags that the threads have set and of the command bit under way, and the register
\* lacks only what the holder of the lock has yet to write (AXIInterfaceClass.cpp).
THEOREM RegisterCorrect == Spec => []RegisterInv
<1>1. Init => RegisterInv
  BY LockingInit, CopyInit DEF RegisterInv
<1>2. RegisterInv /\ [Next]_vars => RegisterInv'
  BY LockingStep, CopyStep DEF RegisterInv
<1> QED
  BY <1>1, <1>2, PTL DEF Spec

\* The flags of the control register show what the threads have done last, though
\* three threads change them in one copy.
THEOREM FlagsCorrect == Spec => []FlagsFollowThreads
<1>1. RegisterInv => FlagsFollowThreads
  <2> SUFFICES ASSUME RegisterInv PROVE FlagsFollowThreads
    OBVIOUS
  <2> DEFINE a == LaserBit
             b == TimeBit
             e == CommandBits
             n == arm.ctrl
  <2>1. /\ n = Num(a, 4) + Num(b, 32) + e
        /\ a \in BOOLEAN /\ b \in BOOLEAN /\ e \in 0 .. 2
        /\ Idle("interface") => (a <=> enL)
        /\ Idle("dma") => (b <=> dma_state = "running")
    BY RegisterHolds DEF RegisterInv
  <2> HIDE DEF a, b, e, n
  <2>2. /\ Flag(n, 4) <=> a
        /\ Flag(n, 32) <=> b
        /\ n % 32 < 8 /\ n \in 0 .. 63
    BY <2>1, FlagBits
  <2>3. /\ Flag(n, 4) \in BOOLEAN /\ enL \in BOOLEAN /\ Flag(n, 32) \in BOOLEAN
    BY DEF RegisterInv, Locking, TypeInv, Flag
  <2>4. /\ Idle("interface") => Flag(n, 4) = enL
        /\ Idle("dma") => Flag(n, 32) = (dma_state = "running")
    BY <2>1, <2>2, <2>3
  <2> QED
    BY <2>2, <2>4 DEF FlagsFollowThreads, n, TIMING_CORE_EN, TDC_EN
<1> QED
  BY <1>1, RegisterCorrect, PTL

\* The bits of a command in the register.
LEMMA CommandNow ==
  RegisterInv => /\ Flag(arm.ctrl, ASIC_NEW_DATA) <=> \E t \in Threads : Mid(t, "asic", {5, 6, 7})
                 /\ Flag(arm.ctrl, POT_NEW_DATA) <=> \E t \in Threads : Mid(t, "pot", {4, 5, 6})
<1> SUFFICES ASSUME RegisterInv
             PROVE  /\ Flag(arm.ctrl, 1) <=> \E t \in Threads : Mid(t, "asic", {5, 6, 7})
                    /\ Flag(arm.ctrl, 2) <=> \E t \in Threads : Mid(t, "pot", {4, 5, 6})
  BY DEF ASIC_NEW_DATA, POT_NEW_DATA
<1>1. Locking /\ FlagInv /\ CopyInv
  BY DEF RegisterInv
<1>2. (Flag(arm.ctrl, 1) <=> CommandBits = 1) /\ (Flag(arm.ctrl, 2) <=> CommandBits = 2)
  <2> DEFINE a == LaserBit
             b == TimeBit
             e == CommandBits
             n == arm.ctrl
  <2>1. /\ n = Num(a, 4) + Num(b, 32) + e
        /\ a \in BOOLEAN /\ b \in BOOLEAN /\ e \in 0 .. 2
    BY <1>1, RegisterHolds
  <2> HIDE DEF a, b, e, n
  <2>2. (Flag(n, 1) <=> e = 1) /\ (Flag(n, 2) <=> e = 2)
    BY <2>1, FlagBits
  <2> QED
    BY <2>2 DEF n, e
<1>3. \A t \in Threads : \A k, S : Mid(t, k, S) /\ k \in Shared => owner = t /\ owner # "none"
  BY <1>1, SharedOwner DEF Mid
<1>4. CASE owner = "none" \/ Sent(owner)
  <2>1. CommandBits = 0
    BY <1>4 DEF CommandBits
  <2>2. ASSUME NEW t \in Threads, Mid(t, "asic", {5, 6, 7}) \/ Mid(t, "pot", {4, 5, 6})
        PROVE  FALSE
    <3>1. owner = t /\ owner # "none"
      BY <1>3, <2>2 DEF Shared
    <3> QED
      BY <1>4, <2>2, <3>1 DEF Sent, Mid
  <2> QED
    BY <1>2, <2>1, <2>2
<1>5. CASE owner # "none" /\ ~Sent(owner)
  <2> DEFINE o == owner
             op == Head(todo[o])
  <2>1. o \in Threads /\ at[o] \in 0 .. 7
    BY <1>1, <1>5 DEF Locking, TypeInv
  <2>2. CommandBits = Extra(o) - Lag(o)
    BY <1>5 DEF CommandBits
  <2>3. todo[o] # <<>>
    <3>1. InLock(todo[o], 1) /\ Len(todo[o]) \in Nat /\ ~InLock(<<>>, 1)
      BY <1>1, <2>1 DEF Locking, TypeInv, LockInv, InLock
    <3> QED
      BY <3>1
  <2>4. /\ (\E t \in Threads : Mid(t, "asic", {5, 6, 7})) <=> Mid(o, "asic", {5, 6, 7})
        /\ (\E t \in Threads : Mid(t, "pot", {4, 5, 6})) <=> Mid(o, "pot", {4, 5, 6})
    BY <1>3, <2>1 DEF Shared
  <2>5. \A k, S : Mid(o, k, S) <=> op.kind = k /\ at[o] \in S
    BY <2>3 DEF Mid
  <2>6. ~(op.kind = "flag" /\ at[o] = 2)
    BY <1>5, <2>3 DEF Sent, Mid
  <2> HIDE DEF o, op
  <2>7. CASE op.kind = "asic"
    <3>1. /\ Extra(o) = IF at[o] \in 4 .. 6 THEN 1 ELSE 0
          /\ Lag(o) = IF at[o] = 4 THEN 1 ELSE IF at[o] = 7 THEN -1 ELSE 0
      BY <2>3, <2>7, CopyNow DEF op
    <3>2. CommandBits = IF at[o] \in {5, 6, 7} THEN 1 ELSE 0
      BY <2>1, <2>2, <3>1
    <3>3. ~Mid(o, "pot", {4, 5, 6}) /\ (Mid(o, "asic", {5, 6, 7}) <=> at[o] \in {5, 6, 7})
      BY <2>5, <2>7
    <3>4. CommandBits # 2 /\ (CommandBits = 1 <=> at[o] \in {5, 6, 7})
      BY <3>2
    <3> QED
      BY <1>2, <2>4, <3>3, <3>4
  <2>8. CASE op.kind = "pot"
    <3>1. /\ Extra(o) = IF at[o] \in 3 .. 5 THEN 2 ELSE 0
          /\ Lag(o) = IF at[o] = 3 THEN 2 ELSE IF at[o] = 6 THEN -2 ELSE 0
      BY <2>3, <2>8, CopyNow DEF op
    <3>2. at[o] \in 0 .. 6
      <4>1. Len(Accesses(op)) = 7
        BY <2>8, AccessesOf
      <4>2. at[o] > 0 => at[o] < Len(Accesses(op))
        BY <1>1, <2>1 DEF Locking, TypeInv, op
      <4> QED
        BY <2>1, <4>1, <4>2
    <3>3. CommandBits = IF at[o] \in {4, 5, 6} THEN 2 ELSE 0
      BY <2>2, <3>1, <3>2
    <3>4. ~Mid(o, "asic", {5, 6, 7}) /\ (Mid(o, "pot", {4, 5, 6}) <=> at[o] \in {4, 5, 6})
      BY <2>5, <2>8
    <3>5. CommandBits # 1 /\ (CommandBits = 2 <=> at[o] \in {4, 5, 6})
      BY <3>3
    <3> QED
      BY <1>2, <2>4, <3>4, <3>5
  <2>9. CASE op.kind \notin {"asic", "pot"}
    <3>1. Extra(o) = 0 /\ Lag(o) = 0
      <4>1. CASE op.kind = "flag"
        <5>1. Extra(o) = 0 /\ Lag(o) = IF at[o] = 2 THEN op.data ELSE 0
          BY <2>3, <4>1, CopyNow DEF op
        <5> QED
          BY <2>6, <4>1, <5>1
      <4>2. CASE op.kind # "flag"
        BY <2>3, <2>9, <4>2, CopyNow DEF op, Shared
      <4> QED
        BY <4>1, <4>2
    <3>2. ~Mid(o, "asic", {5, 6, 7}) /\ ~Mid(o, "pot", {4, 5, 6}) /\ CommandBits = 0
      BY <2>2, <2>5, <2>9, <3>1
    <3> QED
      BY <1>2, <2>4, <3>2
  <2> QED
    BY <2>7, <2>8, <2>9
<1> QED
  BY <1>4, <1>5

\* The same of the register after a step.
LEMMA CommandThen ==
  RegisterInv' =>
    /\ Flag(arm.ctrl, ASIC_NEW_DATA)' <=> \E t \in Threads : Mid(t, "asic", {5, 6, 7})'
    /\ Flag(arm.ctrl, POT_NEW_DATA)' <=> \E t \in Threads : Mid(t, "pot", {4, 5, 6})'
<1>1. (RegisterInv => /\ Flag(arm.ctrl, ASIC_NEW_DATA) <=> \E t \in Threads : Mid(t, "asic", {5, 6, 7})
                      /\ Flag(arm.ctrl, POT_NEW_DATA) <=> \E t \in Threads : Mid(t, "pot", {4, 5, 6}))'
  BY CommandNow, PTL
<1> QED
  BY <1>1

\* A flag of a command rises when the copy with it is written to the register.
LEMMA Rising ==
  ASSUME RegisterInv, RegisterInv', NEW t \in Threads, Access(t)
  PROVE  /\ Rises(ASIC_NEW_DATA) <=> Mid(t, "asic", {4})
         /\ Rises(POT_NEW_DATA) <=> Mid(t, "pot", {3})
<1> DEFINE q == todo[t]
<1>1. /\ \A u \in Threads : u # t => todo'[u] = todo[u] /\ at'[u] = at[u]
      /\ q # <<>> /\ at[t] \in 0 .. 7 /\ q[1] = Head(q)
      /\ \/ /\ todo'[t] = q /\ at'[t] = at[t] + 1
         \/ /\ q[1].kind \in Shared => at[t] + 1 = Len(Accesses(q[1]))
            /\ at'[t] = 0
         \/ q[1].kind = "check" /\ at'[t] = 0
  <2>1. Locking
    BY DEF RegisterInv
  <2> QED
    BY <2>1, LeftAfter
<1>2. \A u \in Threads : \A k, S : u # t => (Mid(u, k, S)' <=> Mid(u, k, S))
  BY <1>1 DEF Mid
<1>3. \A u \in Threads : \A k, S : Mid(u, k, S) /\ k \in Shared => owner = u
  BY SharedOwner DEF Mid, RegisterInv
<1>4. /\ Len(Accesses(q[1])) = 8 \/ q[1].kind # "asic"
      /\ Len(Accesses(q[1])) = 7 \/ q[1].kind # "pot"
  BY AccessesOf
<1>5. \A k, S : Mid(t, k, S) <=> q[1].kind = k /\ at[t] \in S
  BY <1>1 DEF Mid
<1>6. \A k, S : Mid(t, k, S)' /\ 0 \notin S => todo'[t] = q /\ at'[t] = at[t] + 1
                                               /\ q[1].kind = k /\ at'[t] \in S
  BY <1>1 DEF Mid
<1>7. \A k, S : todo'[t] = q /\ q[1].kind = k /\ at'[t] \in S => Mid(t, k, S)'
  BY <1>1 DEF Mid
<1>8. 0 \notin {5, 6, 7} /\ 0 \notin {4, 5, 6} /\ "asic" \in Shared /\ "pot" \in Shared
  BY DEF Shared
<1>9. Rises(ASIC_NEW_DATA) <=> Mid(t, "asic", {4})
  <2> DEFINE now == \E u \in Threads : Mid(u, "asic", {5, 6, 7})
             then == \E u \in Threads : Mid(u, "asic", {5, 6, 7})'
  <2>1. Rises(ASIC_NEW_DATA) <=> then /\ ~now
    BY CommandNow, CommandThen DEF Rises, Flag
  <2>2. ASSUME then, ~now PROVE Mid(t, "asic", {4})
    <3>1. Mid(t, "asic", {5, 6, 7})' /\ ~Mid(t, "asic", {5, 6, 7})
      BY <1>2, <2>2
    <3>2. q[1].kind = "asic" /\ at'[t] = at[t] + 1 /\ at'[t] \in {5, 6, 7} /\ at[t] \notin {5, 6, 7}
      BY <1>5, <1>6, <1>8, <3>1
    <3>3. at[t] = 4
      BY <1>1, <3>2
    <3> QED
      BY <1>5, <3>2, <3>3
  <2>3. ASSUME Mid(t, "asic", {4}) PROVE then /\ ~now
    <3>1. q[1].kind = "asic" /\ at[t] = 4 /\ owner = t
      BY <1>3, <1>5, <1>8, <2>3
    <3>2. todo'[t] = q /\ at'[t] = 5
      <4>1. Len(Accesses(q[1])) = 8 /\ q[1].kind \in Shared /\ q[1].kind # "check"
        BY <1>4, <1>8, <3>1
      <4>2. at[t] + 1 = 5 /\ at[t] + 1 # Len(Accesses(q[1]))
        BY <3>1, <4>1
      <4> QED
        BY <1>1, <4>1, <4>2
    <3>3. Mid(t, "asic", {5, 6, 7})'
      BY <1>7, <3>1, <3>2
    <3>4. ASSUME NEW u \in Threads, Mid(u, "asic", {5, 6, 7}) PROVE FALSE
      <4>1. u = t
        BY <1>3, <1>8, <3>1, <3>4
      <4> QED
        BY <1>5, <3>1, <3>4, <4>1
    <3> QED
      BY <3>3, <3>4
  <2> QED
    BY <2>1, <2>2, <2>3
<1>10. Rises(POT_NEW_DATA) <=> Mid(t, "pot", {3})
  <2> DEFINE now == \E u \in Threads : Mid(u, "pot", {4, 5, 6})
             then == \E u \in Threads : Mid(u, "pot", {4, 5, 6})'
  <2>1. Rises(POT_NEW_DATA) <=> then /\ ~now
    BY CommandNow, CommandThen DEF Rises, Flag
  <2>2. ASSUME then, ~now PROVE Mid(t, "pot", {3})
    <3>1. Mid(t, "pot", {4, 5, 6})' /\ ~Mid(t, "pot", {4, 5, 6})
      BY <1>2, <2>2
    <3>2. q[1].kind = "pot" /\ at'[t] = at[t] + 1 /\ at'[t] \in {4, 5, 6} /\ at[t] \notin {4, 5, 6}
      BY <1>5, <1>6, <1>8, <3>1
    <3>3. at[t] = 3
      BY <1>1, <3>2
    <3> QED
      BY <1>5, <3>2, <3>3
  <2>3. ASSUME Mid(t, "pot", {3}) PROVE then /\ ~now
    <3>1. q[1].kind = "pot" /\ at[t] = 3 /\ owner = t
      BY <1>3, <1>5, <1>8, <2>3
    <3>2. todo'[t] = q /\ at'[t] = 4
      <4>1. Len(Accesses(q[1])) = 7 /\ q[1].kind \in Shared /\ q[1].kind # "check"
        BY <1>4, <1>8, <3>1
      <4>2. at[t] + 1 = 4 /\ at[t] + 1 # Len(Accesses(q[1]))
        BY <3>1, <4>1
      <4> QED
        BY <1>1, <4>1, <4>2
    <3>3. Mid(t, "pot", {4, 5, 6})'
      BY <1>7, <3>1, <3>2
    <3>4. ASSUME NEW u \in Threads, Mid(u, "pot", {4, 5, 6}) PROVE FALSE
      <4>1. u = t
        BY <1>3, <1>8, <3>1, <3>4
      <4> QED
        BY <1>5, <3>1, <3>4, <4>1
    <3> QED
      BY <3>3, <3>4
  <2> QED
    BY <2>1, <2>2, <2>3
<1> QED
  BY <1>9, <1>10

\* The commands for the potentiometer that are left after the first operation.
LEMMA GuardedTail ==
  ASSUME NEW q \in Seq(Operations), q # <<>>, NEW a, NEW ready \in BOOLEAN, NEW then \in BOOLEAN,
         PotsGuarded(q, a, ready),
         q[1].kind \in {"await", "check"} => then,
         q[1].kind # "pot" /\ ready => then
  PROVE  PotsGuarded(Tail(q), 0, then) /\ (NoPot(q) => NoPot(Tail(q)))
<1> DEFINE s == Tail(q)
<1>1. /\ Len(q) \in Nat \ {0} /\ Len(s) = Len(q) - 1
      /\ \A i \in 1 .. Len(q) - 1 : s[i] = q[i + 1]
  OBVIOUS
<1> HIDE DEF s
<1>2. \A i \in 1 .. Len(s) : i + 1 \in 1 .. Len(q) /\ s[i] = q[i + 1]
  BY <1>1
<1>3. ASSUME NEW i \in 1 .. Len(s), s[i].kind = "pot"
      PROVE  \/ \E j \in 1 .. i - 1 : /\ s[j].kind \in {"await", "check"}
                                      /\ \A k \in j + 1 .. i - 1 : s[k].kind # "pot"
             \/ /\ \A j \in 1 .. i - 1 : s[j].kind # "pot"
                /\ then
  <2>1. q[i + 1].kind = "pot" /\ i + 1 \in 1 .. Len(q) /\ (i + 1) - 1 = i /\ i + 1 # 1
    BY <1>2, <1>3
  <2>2. \A k \in 1 .. i - 1 : k \in 1 .. Len(s) /\ s[k] = q[k + 1] /\ k + 1 \in 2 .. i
    BY <1>1, <1>2
  <2>3. \/ \E j \in 1 .. i : /\ q[j].kind \in {"await", "check"}
                             /\ \A k \in j + 1 .. i : q[k].kind # "pot"
        \/ ready /\ \A j \in 1 .. i : q[j].kind # "pot"
    <3>1. \/ \E j \in 1 .. (i + 1) - 1 : /\ q[j].kind \in {"await", "check"}
                                         /\ \A k \in j + 1 .. (i + 1) - 1 : q[k].kind # "pot"
          \/ /\ \A j \in 1 .. (i + 1) - 1 : q[j].kind # "pot"
             /\ ready \/ (i + 1 = 1 /\ a >= 4)
      BY <2>1 DEF PotsGuarded
    <3> QED
      BY <2>1, <3>1
  <2>4. CASE ready /\ \A j \in 1 .. i : q[j].kind # "pot"
    <3>1. 1 \in 1 .. i /\ \A k \in 1 .. i - 1 : k + 1 \in 1 .. i
      OBVIOUS
    <3> QED
      BY <2>2, <2>4, <3>1
  <2>5. CASE \E j \in 1 .. i : /\ q[j].kind \in {"await", "check"}
                               /\ \A k \in j + 1 .. i : q[k].kind # "pot"
    <3>1. PICK j \in 1 .. i : /\ q[j].kind \in {"await", "check"}
                              /\ \A k \in j + 1 .. i : q[k].kind # "pot"
      BY <2>5
    <3>2. CASE j = 1
      <4>1. then /\ \A k \in 1 .. i - 1 : k + 1 \in j + 1 .. i
        BY <3>1, <3>2
      <4> QED
        BY <2>2, <3>1, <4>1
    <3>3. CASE j # 1
      <4>1. j - 1 \in 1 .. i - 1 /\ (j - 1) + 1 = j
        BY <3>3
      <4>2. \A k \in (j - 1) + 1 .. i - 1 : k \in 1 .. i - 1 /\ k + 1 \in j + 1 .. i
        BY <4>1
      <4>3. s[j - 1].kind \in {"await", "check"}
        BY <2>2, <3>1, <4>1
      <4>4. \A k \in (j - 1) + 1 .. i - 1 : s[k].kind # "pot"
        BY <2>2, <3>1, <4>2
      <4> QED
        BY <4>1, <4>3, <4>4
    <3> QED
      BY <3>2, <3>3
  <2> QED
    BY <2>3, <2>4, <2>5
<1>4. PotsGuarded(s, 0, then)
  BY <1>3 DEF PotsGuarded
<1>5. NoPot(q) => NoPot(s)
  BY <1>2 DEF NoPot
<1> QED
  BY <1>4, <1>5 DEF s

\* An access sends the potentiometer a command only after its ready bit, and no other
\* command comes in between.
LEMMA PotAccess ==
  ASSUME RegisterInv, RegisterInv', PotInv, NEW t \in Threads, Access(t)
  PROVE  PotInv' /\ (Rises(POT_NEW_DATA) => pot_spi_ready)
<1> DEFINE q == todo[t]
<1>1. /\ \A u \in Threads : u # t => todo'[u] = todo[u] /\ at'[u] = at[u]
      /\ q \in Seq(Operations) /\ q # <<>> /\ q[1] = Head(q) /\ Len(q) \in Nat \ {0}
      /\ \/ todo'[t] = q /\ at'[t] = at[t] + 1 /\ q[1].kind \in Shared
         \/ /\ q[1].kind = "check" => pot_spi_ready
            /\ todo'[t] = Tail(q) /\ at'[t] = 0
            /\ q[1].kind \in Shared => at[t] + 1 = Len(Accesses(q[1]))
         \/ todo'[t] = <<>>
      /\ at[t] \in 0 .. 7
  BY LeftAfter DEF RegisterInv
<1>2. /\ Rises(POT_NEW_DATA) <=> Mid(t, "pot", {3})
      /\ pot_spi_ready' = (pot_spi_ready /\ ~Rises(POT_NEW_DATA))
      /\ q[1].kind = "await" => pot_spi_ready
  BY <1>1, Rising, Effects DEF Access, PotTakes, RegisterInv, Locking
<1>3. /\ pot_spi_ready \in BOOLEAN /\ pot_spi_ready' \in BOOLEAN
  BY DEF RegisterInv, Locking, TypeInv
<1>4. /\ NoPot(todo["dma"]) /\ NoPot(todo["math"])
      /\ \A u \in Threads : PotsGuarded(todo[u], at[u], pot_spi_ready)
  BY DEF PotInv
<1>5. Mid(t, "pot", {3}) <=> q[1].kind = "pot" /\ at[t] = 3
  BY <1>1 DEF Mid
<1>6. (t = "dma" \/ t = "math") => q[1].kind # "pot"
  BY <1>1, <1>4 DEF NoPot
<1> HIDE DEF q
<1>7. \A r \in BOOLEAN : \A s, a : NoPot(s) => PotsGuarded(s, a, r)
  BY DEF NoPot, PotsGuarded
<1>8. \A r \in BOOLEAN : \A a : PotsGuarded(<<>>, a, r) /\ NoPot(<<>>)
  BY DEF NoPot, PotsGuarded
<1>9. /\ PotsGuarded(todo'[t], at'[t], pot_spi_ready')
      /\ NoPot(q) => NoPot(todo'[t])
  <2>1. CASE todo'[t] = q /\ at'[t] = at[t] + 1 /\ q[1].kind \in Shared
    <3>1. CASE q[1].kind = "pot" /\ at[t] = 3
      <4>1. ASSUME NEW i \in 1 .. Len(q), \A j \in 1 .. i - 1 : q[j].kind # "pot" PROVE i = 1
        <5>1. CASE i # 1
          <6>1. 1 \in 1 .. i - 1
            BY <5>1
          <6> QED
            BY <3>1, <4>1, <6>1
        <5> QED
          BY <5>1
      <4>2. at'[t] >= 4
        BY <2>1, <3>1
      <4>3. PotsGuarded(q, at[t], pot_spi_ready)
        BY <1>4 DEF q
      <4> QED
        BY <2>1, <4>1, <4>2, <4>3 DEF PotsGuarded
    <3>2. CASE ~(q[1].kind = "pot" /\ at[t] = 3)
      <4>1. pot_spi_ready' <=> pot_spi_ready
        BY <1>2, <1>5, <3>2
      <4>2. PotsGuarded(q, at[t], pot_spi_ready)
        BY <1>4 DEF q
      <4>3. at[t] >= 4 => at'[t] >= 4
        BY <1>1, <2>1
      <4> QED
        BY <2>1, <4>1, <4>2, <4>3 DEF PotsGuarded
    <3> QED
      BY <3>1, <3>2
  <2>2. CASE /\ q[1].kind = "check" => pot_spi_ready
             /\ todo'[t] = Tail(q) /\ at'[t] = 0
             /\ q[1].kind \in Shared => at[t] + 1 = Len(Accesses(q[1]))
    <3>1. PotsGuarded(q, at[t], pot_spi_ready)
      BY <1>4 DEF q
    <3>2. q[1].kind # "pot" => (pot_spi_ready' <=> pot_spi_ready)
      BY <1>2, <1>5
    <3>3. q[1].kind \in {"await", "check"} => pot_spi_ready'
      BY <1>2, <2>2, <3>2
    <3>4. q[1].kind # "pot" /\ pot_spi_ready => pot_spi_ready'
      BY <3>2
    <3>5. PotsGuarded(Tail(q), 0, pot_spi_ready') /\ (NoPot(q) => NoPot(Tail(q)))
      BY <1>1, <1>3, <3>1, <3>3, <3>4, GuardedTail
    <3> QED
      BY <2>2, <3>5
  <2>3. CASE todo'[t] = <<>>
    BY <1>3, <1>8, <2>3
  <2> QED
    BY <1>1, <2>1, <2>2, <2>3
<1>10. NoPot(todo'["dma"]) /\ NoPot(todo'["math"])
  BY <1>1, <1>4, <1>9 DEF Threads, q
<1>11. ASSUME NEW u \in Threads, u # t PROVE PotsGuarded(todo'[u], at'[u], pot_spi_ready')
  <2>1. CASE u = "dma" \/ u = "math"
    BY <1>3, <1>7, <1>10, <2>1
  <2>2. CASE t = "dma" \/ t = "math"
    <3>1. pot_spi_ready' = pot_spi_ready
      BY <1>2, <1>3, <1>5, <1>6, <2>2
    <3> QED
      BY <1>1, <1>4, <1>11, <3>1
  <2>3. CASE u \in {"config", "interface"} /\ t \in {"config", "interface"}
    <3>1. todo["config"] # <<>> => \A v \in Threads \ {"config"} : todo[v] = <<>>
      BY DEF RegisterInv, Locking, LockInv
    <3>2. todo[u] = <<>>
      BY <1>1, <1>11, <2>3, <3>1 DEF q
    <3> QED
      BY <1>1, <1>3, <1>8, <1>11, <3>2
  <2> QED
    BY <2>1, <2>2, <2>3 DEF Threads
<1>12. PotInv'
  BY <1>9, <1>10, <1>11 DEF PotInv
<1>13. ASSUME Mid(t, "pot", {3}) PROVE pot_spi_ready
  <2>1. q[1].kind = "pot" /\ at[t] = 3 /\ 1 \in 1 .. Len(q)
    BY <1>1, <1>5, <1>13
  <2>2. PotsGuarded(q, at[t], pot_spi_ready)
    BY <1>4 DEF q
  <2> QED
    BY <2>1, <2>2 DEF PotsGuarded
<1> QED
  BY <1>2, <1>12, <1>13

\* Every step keeps each potentiometer command behind a look at the ready bit.
LEMMA PotStep ==
  RegisterInv /\ RegisterInv' /\ PotInv /\ [Next]_vars
    => PotInv' /\ [Rises(POT_NEW_DATA) => pot_spi_ready]_vars
<1> SUFFICES ASSUME RegisterInv, RegisterInv', PotInv, [Next]_vars
             PROVE  PotInv' /\ [Rises(POT_NEW_DATA) => pot_spi_ready]_vars
  OBVIOUS
<1>1. TypeInv /\ LockInv
  BY DEF RegisterInv, Locking
<1>2. CASE \E t \in Threads : Access(t)
  BY <1>2, PotAccess
<1>3. CASE \E t \in Threads : \E q : /\ t # "config" /\ Call(t, q) /\ Guarded(q)
                                     /\ (t # "interface" => NoPot(q))
  <2> PICK t \in Threads : \E q : /\ t # "config" /\ Call(t, q) /\ Guarded(q)
                                  /\ (t # "interface" => NoPot(q))
    BY <1>3
  <2>1. PICK q : /\ t # "config" /\ Call(t, q) /\ Guarded(q)
                 /\ (t # "interface" => NoPot(q))
    OBVIOUS
  <2>2. /\ todo' = [todo EXCEPT ![t] = q] /\ UNCHANGED <<at, pot_spi_ready, arm>>
    BY <2>1 DEF Call
  <2>3. todo'[t] = q /\ \A u \in Threads : u # t => todo'[u] = todo[u]
    BY <1>1, <2>2 DEF TypeInv
  <2>4. PotsGuarded(q, at[t], pot_spi_ready)
    BY <2>1 DEF Guarded, PotsGuarded
  <2>5. NoPot(todo'["dma"]) /\ NoPot(todo'["math"])
    BY <2>1, <2>3 DEF PotInv, Threads
  <2>6. \A u \in Threads : PotsGuarded(todo'[u], at'[u], pot_spi_ready')
    BY <2>2, <2>3, <2>4 DEF PotInv
  <2>7. ~Rises(POT_NEW_DATA)
    BY <2>2 DEF Rises
  <2> QED
    BY <2>5, <2>6, <2>7 DEF PotInv
<1>4. CASE Shutdown \/ PotReady \/ UNCHANGED vars
  <2>1. UNCHANGED <<todo, at, arm>> /\ (pot_spi_ready => pot_spi_ready')
    BY <1>4 DEF Shutdown, PotReady, vars, callVars
  <2>2. \A u \in Threads : PotsGuarded(todo'[u], at'[u], pot_spi_ready')
    BY <2>1 DEF PotInv, PotsGuarded
  <2>3. ~Rises(POT_NEW_DATA)
    BY <2>1 DEF Rises
  <2> QED
    BY <2>1, <2>2, <2>3 DEF PotInv
<1> QED
  BY <1>1, <1>2, <1>3, <1>4, StepKinds

\* The potentiometer is sent a command only when it is ready.
THEOREM PotCommandsSentWhenReady == Spec => PotSentWhenReady
<1>1. Init => PotInv
  <2> SUFFICES ASSUME Init PROVE PotInv
    OBVIOUS
  <2> DEFINE q == ConfigurationCalls
  <2>1. Guarded(q)
    BY ConfigCall
  <2>2. todo = [t \in Threads |-> IF t = "config" THEN q ELSE <<>>]
    BY DEF Init, ConfigurationCalls
  <2> HIDE DEF q
  <2>3. \A t \in Threads : todo[t] = IF t = "config" THEN q ELSE <<>>
    BY <2>2
  <2>4. NoPot(<<>>) /\ \A a, r : PotsGuarded(<<>>, a, r) /\ PotsGuarded(q, a, r)
    BY <2>1 DEF NoPot, PotsGuarded, Guarded
  <2>5. \A t \in Threads : PotsGuarded(todo[t], at[t], pot_spi_ready)
    BY <2>3, <2>4
  <2>6. NoPot(todo["dma"]) /\ NoPot(todo["math"])
    BY <2>3, <2>4 DEF Threads
  <2> QED
    BY <2>5, <2>6 DEF PotInv
<1>2. Spec => []PotInv /\ [][Rises(POT_NEW_DATA) => pot_spi_ready]_vars
  BY <1>1, RegisterCorrect, PotStep, PTL DEF Spec
<1> QED
  BY <1>2 DEF PotSentWhenReady

-----------------------------------------------------------------------------
Takes(op, addr) == op.kind = "asic" /\ op.addr = addr

\* The ASIC after an operation.
Took(a, op) == [gain    |-> IF Takes(op, "0B") THEN op.data ELSE a.gain,
                enables |-> IF Takes(op, "0D") THEN op.data ELSE a.enables]

\* What an operation finds in a register stays the same when the first one is taken.
LEMMA BeforeTail ==
  ASSUME NEW q \in Seq(Operations), q # <<>>, NEW i \in 1 .. Len(q), NEW addr, NEW now, NEW v,
         Before(q, i + 1, addr, now, v)
  PROVE  Before(Tail(q), i, addr, IF Takes(q[1], addr) THEN q[1].data ELSE now, v)
<1> DEFINE s == Tail(q)
           then == IF Takes(q[1], addr) THEN q[1].data ELSE now
<1>1. /\ Len(q) \in Nat \ {0} /\ Len(s) = Len(q) - 1
      /\ \A k \in 1 .. Len(q) - 1 : s[k] = q[k + 1]
  OBVIOUS
<1> HIDE DEF s
<1>2. \A k \in 1 .. i - 1 : Uses(s, k, addr) <=> Uses(q, k + 1, addr)
  BY <1>1 DEF Uses
<1>3. /\ (i + 1) - 1 = i /\ 1 \in 1 .. i
      /\ \A k \in 1 .. i - 1 : k + 1 \in 1 .. i /\ k + 1 # 1
  OBVIOUS
<1>4. Uses(q, 1, addr) <=> Takes(q[1], addr)
  BY DEF Uses, Takes
<1>5. \/ now = v /\ \A k \in 1 .. i : ~Uses(q, k, addr)
      \/ \E k \in 1 .. i : /\ Uses(q, k, addr) /\ q[k].data = v
                           /\ \A m \in k + 1 .. i : ~Uses(q, m, addr)
  BY <1>3 DEF Before
<1>6. CASE now = v /\ \A k \in 1 .. i : ~Uses(q, k, addr)
  <2>1. then = v /\ \A k \in 1 .. i - 1 : ~Uses(s, k, addr)
    BY <1>2, <1>3, <1>4, <1>6
  <2> QED
    BY <2>1 DEF Before, s
<1>7. CASE \E k \in 1 .. i : /\ Uses(q, k, addr) /\ q[k].data = v
                             /\ \A m \in k + 1 .. i : ~Uses(q, m, addr)
  <2>1. PICK k \in 1 .. i : /\ Uses(q, k, addr) /\ q[k].data = v
                            /\ \A m \in k + 1 .. i : ~Uses(q, m, addr)
    BY <1>7
  <2>2. CASE k = 1
    <3>1. then = v
      BY <1>4, <2>1, <2>2
    <3>2. \A m \in 1 .. i - 1 : m + 1 \in k + 1 .. i
      BY <2>2
    <3>3. \A m \in 1 .. i - 1 : ~Uses(s, m, addr)
      BY <1>2, <2>1, <3>2
    <3> QED
      BY <3>1, <3>3 DEF Before, s
  <2>3. CASE k # 1
    <3>1. k - 1 \in 1 .. i - 1 /\ (k - 1) + 1 = k
      BY <2>3
    <3>2. Uses(s, k - 1, addr)
      BY <1>2, <2>1, <3>1
    <3>3. s[k - 1].data = v
      <4>1. k - 1 \in 1 .. Len(q) - 1
        BY <1>1, <3>1
      <4> QED
        BY <1>1, <2>1, <3>1, <4>1
    <3>4. \A m \in (k - 1) + 1 .. i - 1 : m \in 1 .. i - 1 /\ m + 1 \in k + 1 .. i
      BY <3>1
    <3>5. \A m \in (k - 1) + 1 .. i - 1 : ~Uses(s, m, addr)
      BY <1>2, <2>1, <3>4
    <3> QED
      BY <3>1, <3>2, <3>3, <3>5 DEF Before, s
  <2> QED
    BY <2>2, <2>3
<1> QED
  BY <1>5, <1>6, <1>7

\* The rest of a sequence is as good as the whole, once the ASIC has taken the first.
LEMMA RampsTail ==
  ASSUME NEW q \in Seq(Operations), q # <<>>, NEW a, NEW opt, NEW gain, NEW on,
         Ramps(q, a, opt, gain, on)
  PROVE  Ramps(Tail(q), Took(a, q[1]), opt, gain, on)
<1> DEFINE s == Tail(q)
           n == Took(a, q[1])
<1>1. /\ Len(q) \in Nat \ {0} /\ Len(s) = Len(q) - 1
      /\ \A k \in 1 .. Len(q) - 1 : s[k] = q[k + 1]
  OBVIOUS
<1>2. /\ n.gain = IF Takes(q[1], "0B") THEN q[1].data ELSE a.gain
      /\ n.enables = IF Takes(q[1], "0D") THEN q[1].data ELSE a.enables
  BY DEF Took
<1>3. /\ \A i \in 1 .. Len(q) : \A g : GainBefore(q, i + 1, a, g) => GainBefore(s, i, n, g)
      /\ \A i \in 1 .. Len(q) : \A b : EnablesBefore(q, i + 1, a, b) => EnablesBefore(s, i, n, b)
  BY <1>2, BeforeTail DEF GainBefore, EnablesBefore
<1> HIDE DEF s, n
<1>4. \A i \in 1 .. Len(s) : /\ i \in 1 .. Len(q) /\ i + 1 \in 1 .. Len(q) /\ s[i] = q[i + 1]
                             /\ \A addr : Uses(s, i, addr) <=> Uses(q, i + 1, addr)
  BY <1>1 DEF Uses
<1>5. StepsSmall(s, n, opt, gain)
  <2> SUFFICES ASSUME NEW i \in 1 .. Len(s), Uses(s, i, "0B"), opt # 2
               PROVE  \/ \E b \in Bits : "EV" \notin b /\ EnablesBefore(s, i, n, b)
                      \/ \E g \in 0 .. GainMod - 1 : GainBefore(s, i, n, g) /\ Near(g, s[i].data, gain)
    BY DEF StepsSmall
  <2>1. i \in 1 .. Len(q) /\ i + 1 \in 1 .. Len(q) /\ s[i] = q[i + 1] /\ Uses(q, i + 1, "0B")
    BY <1>4
  <2>2. \/ \E b \in Bits : "EV" \notin b /\ EnablesBefore(q, i + 1, a, b)
        \/ \E g \in 0 .. GainMod - 1 : GainBefore(q, i + 1, a, g) /\ Near(g, q[i + 1].data, gain)
    BY <2>1 DEF Ramps, StepsSmall
  <2> QED
    BY <1>3, <2>1, <2>2
<1>6. SwitchedAtZero(s, n)
  <2> SUFFICES ASSUME NEW i \in 1 .. Len(s), Uses(s, i, "0D")
               PROVE  \/ \E b \in Bits : ("EV" \in b <=> "EV" \in s[i].data) /\ EnablesBefore(s, i, n, b)
                      \/ GainBefore(s, i, n, 0)
    BY DEF SwitchedAtZero
  <2>1. i \in 1 .. Len(q) /\ i + 1 \in 1 .. Len(q) /\ s[i] = q[i + 1] /\ Uses(q, i + 1, "0D")
    BY <1>4
  <2>2. \/ \E b \in Bits : ("EV" \in b <=> "EV" \in q[i + 1].data) /\ EnablesBefore(q, i + 1, a, b)
        \/ GainBefore(q, i + 1, a, 0)
    BY <2>1 DEF Ramps, SwitchedAtZero
  <2> QED
    BY <1>3, <2>1, <2>2
<1>7. Ends(s, n, gain, on)
  <2>1. Len(q) \in 1 .. Len(q) /\ Len(s) + 1 = Len(q)
    BY <1>1
  <2>2. /\ GainBefore(q, Len(q) + 1, a, gain % GainMod)
        /\ \E b \in Bits : ("EV" \in b <=> on) /\ EnablesBefore(q, Len(q) + 1, a, b)
    BY DEF Ramps, Ends
  <2>3. GainBefore(s, Len(q), n, gain % GainMod)
    BY <1>3, <2>1, <2>2
  <2>4. \E b \in Bits : ("EV" \in b <=> on) /\ EnablesBefore(s, Len(q), n, b)
    BY <1>3, <2>1, <2>2
  <2> QED
    BY <2>1, <2>3, <2>4 DEF Ends
<1> QED
  BY <1>5, <1>6, <1>7 DEF Ramps, s, n

\* A sequence of operations that leave the gain and the enable bits alone.
Idles(q) == \A i \in 1 .. Len(q) : ~Uses(q, i, "0B") /\ ~Uses(q, i, "0D")

\* A call that leaves the ASIC alone ramps exactly when gain and enable bits are right now.
LEMMA IdleRamps ==
  ASSUME NEW q \in Seq(Operations), Idles(q), NEW a, NEW opt, NEW gain, NEW on
  PROVE  Ramps(q, a, opt, gain, on) <=> a.gain = gain % GainMod /\ \E b \in Bits : ("EV" \in b <=> on) /\ a.enables = b
<1>1. Len(q) \in Nat /\ (Len(q) + 1) - 1 = Len(q)
  OBVIOUS
<1>2. StepsSmall(q, a, opt, gain) /\ SwitchedAtZero(q, a)
  BY DEF StepsSmall, SwitchedAtZero, Idles
<1>3. GainBefore(q, Len(q) + 1, a, gain % GainMod) <=> a.gain = gain % GainMod
  BY <1>1 DEF GainBefore, Before, Idles
<1>4. \A b : EnablesBefore(q, Len(q) + 1, a, b) <=> a.enables = b
  BY <1>1 DEF EnablesBefore, Before, Idles
<1> QED
  BY <1>2, <1>3, <1>4 DEF Ramps, Ends

\* The ASIC takes a command when its flag rises, with the data and the address that
\* its thread has written.
LEMMA TookAccess ==
  ASSUME RegisterInv, RegisterInv', AsicInv, NEW t \in Threads, Access(t),
         NEW op, op = Head(todo[t])
  PROVE  /\ asic' = IF Mid(t, "asic", {4}) THEN Took(asic, op) ELSE asic
         /\ op \in Operations /\ AsicInv' /\ Took(asic, op) \in [gain : 0 .. GainMod - 1, enables : Bits]
<1>1. asic \in [gain : 0 .. GainMod - 1, enables : Bits]
  BY DEF AsicInv
<1>2. asic = [gain |-> asic.gain, enables |-> asic.enables]
  BY <1>1
<1>3. Rises(ASIC_NEW_DATA) <=> Mid(t, "asic", {4})
  BY Rising
<1>4. asic' = [gain    |-> IF Rises(ASIC_NEW_DATA) /\ arm.addr = "0B" THEN arm.data ELSE asic.gain,
               enables |-> IF Rises(ASIC_NEW_DATA) /\ arm.addr = "0D" THEN arm.data ELSE asic.enables]
  BY DEF Access, AsicTakes
<1>5. op \in Operations
  BY LeftAfter DEF RegisterInv
<1>6. Mid(t, "asic", {4}) => arm.addr = op.addr /\ arm.data = op.data
  <2>1. Mid(t, "asic", {4}) => Mid(t, "asic", 1 .. 7) /\ Mid(t, "asic", 2 .. 7)
    BY DEF Mid
  <2> QED
    BY <2>1 DEF RegisterInv, CopyInv
<1>7. Mid(t, "asic", {4}) => op.kind = "asic"
  BY DEF Mid
<1>8. Took(asic, op) \in [gain : 0 .. GainMod - 1, enables : Bits]
  <2>1. Takes(op, "0B") => op.data \in 0 .. GainMod - 1
    BY <1>5, OperationFacts DEF Takes
  <2>2. Takes(op, "0D") => op.data \in Bits
    BY <1>5, OperationFacts DEF Takes
  <2> QED
    BY <1>1, <2>1, <2>2 DEF Took
<1>9. asic' = IF Mid(t, "asic", {4}) THEN Took(asic, op) ELSE asic
  <2>1. CASE Mid(t, "asic", {4})
    <3>1. /\ arm.addr = "0B" <=> Takes(op, "0B")
          /\ arm.addr = "0D" <=> Takes(op, "0D")
      BY <1>6, <1>7, <2>1 DEF Takes
    <3>2. arm.data = op.data
      BY <1>6, <2>1
    <3> QED
      BY <1>3, <1>4, <2>1, <3>1, <3>2 DEF Took
  <2>2. CASE ~Mid(t, "asic", {4})
    BY <1>2, <1>3, <1>4, <2>2
  <2> QED
    BY <2>1, <2>2
<1> QED
  BY <1>1, <1>5, <1>8, <1>9 DEF AsicInv

\* What the ASIC has not taken, after an access.
LEMMA LeftThen ==
  ASSUME Locking, NEW t \in Threads, Access(t), NEW q, q = todo[t]
  PROVE  \/ Left(t)' = Left(t) /\ ~Mid(t, "asic", {4})
         \/ /\ Left(t) = q /\ Left(t)' = Tail(q)
            /\ Mid(t, "asic", {4}) <=> q[1].kind = "asic"
         \/ /\ Left(t) = q /\ Left(t)' = <<>> /\ q = POT_ChangeHorizontalGain
            /\ ~Mid(t, "asic", {4})
<1>1. /\ q \in Seq(Operations) /\ q # <<>> /\ q[1] = Head(q) /\ at[t] \in 0 .. 7
      /\ q[1].kind \notin Shared => at[t] = 0
      /\ \/ /\ q[1].kind \in Shared /\ todo'[t] = q /\ at'[t] = at[t] + 1
            /\ at'[t] < Len(Accesses(q[1]))
         \/ /\ q[1].kind \in Shared => at[t] + 1 = Len(Accesses(q[1]))
            /\ todo'[t] = Tail(q) /\ at'[t] = 0
         \/ /\ q[1].kind = "check" /\ q = POT_ChangeHorizontalGain
            /\ todo'[t] = <<>> /\ at'[t] = 0
  BY LeftAfter
<1>2. /\ Left(t) = IF at[t] >= 5 THEN Tail(q) ELSE q
      /\ Left(t)' = IF at'[t] >= 5 THEN Tail(todo'[t]) ELSE todo'[t]
  BY DEF Left
<1>3. Mid(t, "asic", {4}) <=> q[1].kind = "asic" /\ at[t] = 4
  BY <1>1 DEF Mid
<1>4. /\ q[1].kind = "asic" => Len(Accesses(q[1])) = 8
      /\ q[1].kind = "pot" => Len(Accesses(q[1])) = 7
      /\ q[1].kind = "flag" => Len(Accesses(q[1])) = 3
  BY AccessesOf
<1>5. CASE /\ q[1].kind \in Shared /\ todo'[t] = q /\ at'[t] = at[t] + 1
           /\ at'[t] < Len(Accesses(q[1]))
  <2>1. CASE at[t] = 4
    <3>1. q[1].kind # "flag"
      <4>1. Len(Accesses(q[1])) = 3 => at[t] + 1 < 3
        BY <1>5
      <4> QED
        BY <1>4, <2>1, <4>1
    <3>2. Left(t) = q /\ Left(t)' = Tail(q)
      <4>1. at'[t] = 5
        BY <1>5, <2>1
      <4> QED
        BY <1>2, <1>5, <2>1, <4>1
    <3> QED
      BY <1>3, <2>1, <3>2
  <2>2. CASE at[t] # 4
    <3>1. at'[t] >= 5 <=> at[t] >= 5
      BY <1>1, <1>5, <2>2
    <3> QED
      BY <1>2, <1>3, <1>5, <2>2, <3>1
  <2> QED
    BY <2>1, <2>2
<1>6. CASE /\ q[1].kind \in Shared => at[t] + 1 = Len(Accesses(q[1]))
           /\ todo'[t] = Tail(q) /\ at'[t] = 0
  <2>1. Left(t)' = Tail(q)
    BY <1>2, <1>6
  <2>2. CASE q[1].kind \in {"asic", "pot"}
    <3>1. at[t] = 7 \/ at[t] = 6
      <4>1. at[t] + 1 = 8 \/ at[t] + 1 = 7
        BY <1>4, <1>6, <2>2 DEF Shared
      <4> QED
        BY <1>1, <4>1
    <3>2. at[t] >= 5 /\ at[t] # 4
      BY <3>1
    <3>3. Left(t) = Tail(q) /\ ~Mid(t, "asic", {4})
      BY <1>2, <1>3, <3>2
    <3> QED
      BY <2>1, <3>3
  <2>3. CASE q[1].kind = "flag"
    <3>1. at[t] = 2
      <4>1. at[t] + 1 = 3
        BY <1>4, <1>6, <2>3 DEF Shared
      <4> QED
        BY <1>1, <4>1
    <3> QED
      BY <1>2, <1>3, <2>1, <2>3, <3>1
  <2>4. CASE q[1].kind \notin Shared
    BY <1>1, <1>2, <1>3, <2>1, <2>4 DEF Shared
  <2> QED
    BY <2>2, <2>3, <2>4 DEF Shared
<1>7. CASE /\ q[1].kind = "check" /\ q = POT_ChangeHorizontalGain
           /\ todo'[t] = <<>> /\ at'[t] = 0
  <2>1. at[t] = 0
    BY <1>1, <1>7 DEF Shared
  <2> QED
    BY <1>2, <1>3, <1>7, <2>1
<1> QED
  BY <1>1, <1>5, <1>6, <1>7

\* The potentiometer call sends the ASIC nothing.
LEMMA PotIdles == Idles(POT_ChangeHorizontalGain) /\ NoAsic(POT_ChangeHorizontalGain)
<1> DEFINE q == POT_ChangeHorizontalGain
<1>1. /\ Len(q) = 4 /\ q[1].kind = "check" /\ q[2].kind = "lock"
      /\ q[3].kind = "pot" /\ q[4].kind = "unlock"
  BY PotCall
<1> HIDE DEF q
<1>2. \A i \in 1 .. Len(q) : i = 1 \/ i = 2 \/ i = 3 \/ i = 4
  BY <1>1
<1>3. \A i \in 1 .. Len(q) : q[i].kind # "asic"
  BY <1>1, <1>2
<1> QED
  BY <1>3 DEF Idles, Uses, NoAsic, q

\* The first operation of a call that ramps is a permitted step of the ASIC.
LEMMA RampStep ==
  ASSUME NEW q \in Seq(Operations), q # <<>>, NEW opt, AsicInv,
         NEW gain, NEW on, Ramps(q, asic, opt, gain, on), asic' = Took(asic, q[1])
  PROVE  /\ VerticalOn' # VerticalOn => asic.gain = 0
         /\ VerticalOn /\ VerticalOn' /\ opt # 2 => Near(asic.gain, asic'.gain, gain)
<1> DEFINE op == q[1]
<1>1. 1 \in 1 .. Len(q) /\ 1 .. 1 - 1 = {}
  OBVIOUS
<1>2. /\ asic'.gain = IF Takes(op, "0B") THEN op.data ELSE asic.gain
      /\ asic'.enables = IF Takes(op, "0D") THEN op.data ELSE asic.enables
  BY DEF Took
<1>3. \A addr : Uses(q, 1, addr) <=> Takes(op, addr)
  BY DEF Uses, Takes
<1>4. /\ \A g : GainBefore(q, 1, asic, g) <=> asic.gain = g
      /\ \A b : EnablesBefore(q, 1, asic, b) <=> asic.enables = b
  BY <1>1 DEF GainBefore, EnablesBefore, Before
<1>5. asic.gain \in 0 .. GainMod - 1 /\ asic.enables \in Bits /\ GainMod \in Nat
  BY GainAssumption DEF AsicInv
<1>6. Takes(op, "0B") /\ opt # 2 => "EV" \notin asic.enables \/ Near(asic.gain, op.data, gain)
  <2> SUFFICES ASSUME Takes(op, "0B"), opt # 2
               PROVE  "EV" \notin asic.enables \/ Near(asic.gain, op.data, gain)
    OBVIOUS
  <2>1. \/ \E b \in Bits : "EV" \notin b /\ EnablesBefore(q, 1, asic, b)
        \/ \E g \in 0 .. GainMod - 1 : GainBefore(q, 1, asic, g) /\ Near(g, q[1].data, gain)
    BY <1>1, <1>3 DEF Ramps, StepsSmall
  <2> QED
    BY <1>4, <2>1
<1>7. Takes(op, "0D") => ("EV" \in asic.enables <=> "EV" \in op.data) \/ asic.gain = 0
  <2> SUFFICES ASSUME Takes(op, "0D")
               PROVE  ("EV" \in asic.enables <=> "EV" \in op.data) \/ asic.gain = 0
    OBVIOUS
  <2>1. \/ \E b \in Bits : ("EV" \in b <=> "EV" \in q[1].data) /\ EnablesBefore(q, 1, asic, b)
        \/ GainBefore(q, 1, asic, 0)
    BY <1>1, <1>3 DEF Ramps, SwitchedAtZero
  <2> QED
    BY <1>4, <2>1
<1> HIDE DEF op
<1>8. VerticalOn' # VerticalOn => asic.gain = 0
  <2>1. (VerticalOn <=> "EV" \in asic.enables) /\ (VerticalOn' <=> "EV" \in asic'.enables)
    BY DEF VerticalOn
  <2>2. ("EV" \in asic'.enables <=> "EV" \in asic.enables) \/ asic.gain = 0
    BY <1>2, <1>7
  <2>3. (VerticalOn' <=> VerticalOn) \/ asic.gain = 0
    BY <2>1, <2>2
  <2>4. VerticalOn \in BOOLEAN /\ VerticalOn' \in BOOLEAN
    BY DEF VerticalOn
  <2> QED
    BY <2>3, <2>4
<1>9. VerticalOn /\ VerticalOn' /\ opt # 2 => Near(asic.gain, asic'.gain, gain)
  <2>1. CASE Takes(op, "0B")
    BY <1>2, <1>6, <2>1 DEF VerticalOn
  <2>2. CASE ~ Takes(op, "0B")
    BY <1>2, <1>5, <2>2 DEF Near
  <2> QED
    BY <2>1, <2>2
<1> QED
  BY <1>8, <1>9

\* An access takes at most the first command of the call under way, which is a permitted
\* step, and leaves the rest ramping.
LEMMA GainAccess ==
  ASSUME RegisterInv, RegisterInv', AsicInv, GainInv, NEW t \in Threads, Access(t)
  PROVE  /\ GainInv' /\ AsicInv'
         /\ VerticalOn' # VerticalOn => asic.gain = 0
         /\ VerticalOn /\ VerticalOn' /\ option # 2 => Near(asic.gain, asic'.gain, Char(lastVgain))
<1> DEFINE q == todo[t]
           on == enV
           gain == Char(lastVgain)
<1>1. Locking
  BY DEF RegisterInv
<1>2. /\ \A u \in Threads : u # t => todo'[u] = todo[u] /\ at'[u] = at[u]
      /\ q \in Seq(Operations) /\ q # <<>> /\ q[1] = Head(q) /\ Len(q) \in Nat \ {0}
      /\ todo'[t] = q \/ todo'[t] = Tail(q) \/ todo'[t] = <<>>
      /\ at'[t] > 0 => todo'[t] # <<>>
  <2>1. /\ \A u \in Threads : u # t => todo'[u] = todo[u] /\ at'[u] = at[u]
        /\ q \in Seq(Operations) /\ q # <<>> /\ q[1] = Head(q) /\ Len(q) \in Nat \ {0}
        /\ \/ todo'[t] = q
           \/ todo'[t] = Tail(q) /\ at'[t] = 0
           \/ todo'[t] = <<>> /\ at'[t] = 0
    BY <1>1, LeftAfter
  <2>2. at'[t] = 0 => ~(at'[t] > 0)
    OBVIOUS
  <2> QED
    BY <2>1, <2>2
<1>3. /\ asic' = IF Mid(t, "asic", {4}) THEN Took(asic, q[1]) ELSE asic
      /\ AsicInv'
  BY <1>2, TookAccess
<1>4. UNCHANGED <<option, lastVgain, enV>>
  BY DEF Access, menuVars
<1>5. /\ \/ Left(t)' = Left(t) /\ ~Mid(t, "asic", {4})
         \/ /\ Left(t) = q /\ Left(t)' = Tail(q)
            /\ Mid(t, "asic", {4}) <=> q[1].kind = "asic"
         \/ /\ Left(t) = q /\ Left(t)' = <<>> /\ q = POT_ChangeHorizontalGain
            /\ ~Mid(t, "asic", {4})
  BY <1>1, LeftThen
<1>6. /\ Ramps(Script, asic, option, gain, on)
      /\ NoAsic(todo["dma"]) /\ NoAsic(todo["math"])
  BY DEF GainInv
<1>7. asic \in [gain : 0 .. GainMod - 1, enables : Bits]
  BY DEF AsicInv
<1>8. VerticalOn \in BOOLEAN /\ VerticalOn' \in BOOLEAN
  BY DEF VerticalOn
<1>9. asic' = asic => /\ VerticalOn' = VerticalOn
                      /\ Near(asic.gain, asic'.gain, gain)
  <2>1. asic.gain \in Int
    BY <1>7, GainAssumption
  <2> QED
    BY <2>1 DEF VerticalOn, Near
<1>10. "config" \in Threads /\ "interface" \in Threads
  BY DEF Threads
<1>11. todo["config"] # <<>> => \A u \in Threads \ {"config"} : todo[u] = <<>>
  BY <1>1 DEF Locking, LockInv
<1>12. Mid(t, "asic", {4}) => q[1].kind = "asic"
  BY <1>2 DEF Mid
<1> HIDE DEF q
<1>13. NoAsic(q) => NoAsic(todo'[t])
  <2>1. NoAsic(q) => NoAsic(Tail(q)) /\ NoAsic(<<>>)
    <3>1. /\ Len(Tail(q)) = Len(q) - 1 /\ \A i \in 1 .. Len(q) - 1 : Tail(q)[i] = q[i + 1]
      BY <1>2
    <3>2. \A i \in 1 .. Len(Tail(q)) : i + 1 \in 1 .. Len(q) /\ Tail(q)[i] = q[i + 1]
      BY <1>2, <3>1
    <3> QED
      BY <3>2 DEF NoAsic
  <2> QED
    BY <1>2, <2>1
<1>14. NoAsic(todo'["dma"]) /\ NoAsic(todo'["math"])
  BY <1>2, <1>6, <1>13 DEF Threads, q
<1>15. CASE t \in {"dma", "math"}
  <2>1. ~Mid(t, "asic", {4})
    BY <1>2, <1>6, <1>12, <1>15 DEF NoAsic, q
  <2>2. asic' = asic
    BY <1>3, <2>1
  <2>3. Script' = Script
    BY <1>2, <1>10, <1>15 DEF Script, Left
  <2> QED
    BY <1>3, <1>4, <1>6, <1>9, <1>14, <2>2, <2>3 DEF GainInv
<1>16. CASE t \in {"config", "interface"}
  <2>1. Script = Left(t)
    BY <1>2, <1>10, <1>11, <1>16 DEF Script, q
  <2>2. Script' = Left(t)'
    <3>1. CASE t = "interface"
      <4>1. todo["config"] = <<>>
        BY <1>2, <1>10, <1>11, <3>1 DEF q
      <4>2. todo'["config"] = <<>>
        BY <1>2, <1>10, <3>1, <4>1
      <4> QED
        BY <3>1, <4>2 DEF Script
    <3>2. CASE t = "config" /\ todo'["config"] # <<>>
      BY <3>2 DEF Script
    <3>3. CASE t = "config" /\ todo'["config"] = <<>>
      <4>1. todo["interface"] = <<>> /\ todo'["interface"] = <<>> /\ at'["interface"] = at["interface"]
        BY <1>2, <1>10, <1>11, <3>3 DEF q
      <4>2. /\ at["interface"] \in 0 .. 7 /\ (at["interface"] > 0 => todo["interface"] # <<>>)
            /\ at'["config"] \in 0 .. 7
        BY <1>10 DEF RegisterInv, Locking, TypeInv
      <4>3. at["interface"] = 0 /\ at'["config"] = 0
        BY <1>2, <3>3, <4>1, <4>2
      <4>4. ~(at'["interface"] >= 5) /\ ~(at'["config"] >= 5)
        BY <4>1, <4>3
      <4> QED
        BY <3>3, <4>1, <4>4 DEF Script, Left
    <3> QED
      BY <1>16, <3>1, <3>2, <3>3
  <2>3. CASE Left(t)' = Left(t) /\ ~Mid(t, "asic", {4})
    BY <1>3, <1>4, <1>6, <1>9, <1>14, <2>1, <2>2, <2>3 DEF GainInv
  <2>4. CASE /\ Left(t) = q /\ Left(t)' = Tail(q)
             /\ Mid(t, "asic", {4}) <=> q[1].kind = "asic"
    <3>1. asic' = Took(asic, q[1])
      <4>1. CASE q[1].kind = "asic"
        BY <1>3, <2>4, <4>1
      <4>2. CASE q[1].kind # "asic"
        <5>1. Took(asic, q[1]) = [gain |-> asic.gain, enables |-> asic.enables]
          BY <4>2 DEF Took, Takes
        <5>2. Took(asic, q[1]) = asic
          BY <1>7, <5>1
        <5> QED
          BY <1>3, <1>12, <4>2, <5>2
      <4> QED
        BY <4>1, <4>2
    <3>2. Ramps(q, asic, option, gain, on)
      BY <1>6, <2>1, <2>4
    <3>3. Ramps(Tail(q), asic', option, gain, on)
      BY <1>2, <3>1, <3>2, RampsTail
    <3>4. Ramps(Script', asic', option', gain', on')
      BY <1>4, <2>2, <2>4, <3>3
    <3>5. /\ VerticalOn' # VerticalOn => asic.gain = 0
          /\ VerticalOn /\ VerticalOn' /\ option # 2 => Near(asic.gain, asic'.gain, gain)
      BY <1>2, <3>1, <3>2, RampStep
    <3> QED
      BY <1>3, <1>14, <3>4, <3>5 DEF GainInv
  <2>5. CASE /\ Left(t) = q /\ Left(t)' = <<>> /\ q = POT_ChangeHorizontalGain
             /\ ~Mid(t, "asic", {4})
    <3>1. asic' = asic
      BY <1>3, <2>5
    <3>2. Idles(q) /\ Idles(<<>>) /\ <<>> \in Seq(Operations)
      BY <2>5, PotIdles DEF Idles
    <3>3. Ramps(q, asic, option, gain, on)
      BY <1>6, <2>1, <2>5
    <3>4. Ramps(<<>>, asic, option, gain, on)
      <4>1. asic.gain = gain % GainMod /\ \E b \in Bits : ("EV" \in b <=> on) /\ asic.enables = b
        BY <1>2, <3>2, <3>3, IdleRamps
      <4> QED
        BY <3>2, <4>1, IdleRamps
    <3>5. Ramps(Script', asic', option', gain', on')
      BY <1>4, <2>2, <2>5, <3>1, <3>4
    <3> QED
      BY <1>3, <1>9, <1>14, <3>1, <3>5 DEF GainInv
  <2> QED
    BY <1>5, <2>3, <2>4, <2>5 DEF q
<1> QED
  BY <1>15, <1>16 DEF Threads

\* The scripts of the calls.
LEMMA TakesFacts ==
  /\ \A addr \in {"0B", "0D"} : ~Takes(Read, addr) /\ ~Takes(Other, addr) /\ ~Takes(Plain, addr)
  /\ \A g : Takes(Gain(g), "0B") /\ ~Takes(Gain(g), "0D") /\ Gain(g).data = g % GainMod
  /\ \A b : Takes(Enables(b), "0D") /\ ~Takes(Enables(b), "0B") /\ Enables(b).data = b
BY DEF Takes, Read, Other, Plain, Gain, Enables, ASIC_SendCommand, Op

\* A gain of four bits is not cut.
LEMMA SameGain ==
  ASSUME NEW g \in 0 .. GainMod - 1
  PROVE  g % GainMod = g
<1>1. GainMod \in Nat \ {0}
  BY GainAssumption
<1> QED
  BY <1>1

\* The gain goes up by one, or wraps from the largest to none, which only one of more bits can.
LEMMA NextGain ==
  ASSUME NEW g \in Nat, NEW j \in 1 .. g
  PROVE  /\ (j - 1) % GainMod \in 0 .. GainMod - 1 /\ j % GainMod \in 0 .. GainMod - 1
         /\ Near((j - 1) % GainMod, j % GainMod, g) /\ Near(j % GainMod, (j - 1) % GainMod, g)
<1> DEFINE m == GainMod
           k == (j - 1) \div m
           w == (j - 1) % m
<1>1. m \in Nat \ {0} /\ j - 1 \in Nat /\ j \in Nat
  BY GainAssumption
<1>2. k \in Nat /\ w \in 0 .. m - 1 /\ j - 1 = m * k + w
  BY <1>1
<1>3. ASSUME NEW h \in Int, NEW y \in 0 .. m - 1 PROVE (m * h + y) % m = y
  BY <1>1
<1> HIDE DEF k, w, m
<1>4. CASE w < m - 1
  <2>1. w + 1 \in 0 .. m - 1 /\ j = m * k + (w + 1) /\ k \in Int
    BY <1>1, <1>2, <1>4
  <2>2. j % m = w + 1
    BY <1>3, <2>1
  <2> QED
    BY <1>2, <2>1, <2>2 DEF Near, w, m
<1>5. CASE w = m - 1
  <2>1. 0 \in 0 .. m - 1 /\ j = m * (k + 1) + 0 /\ k + 1 \in Int
    BY <1>1, <1>2, <1>5
  <2>2. j % m = 0
    BY <1>3, <2>1
  <2>3. g >= m
    BY <1>1, <1>2, <1>5
  <2>4. 0 - w = 1 - m /\ w - 0 = m - 1
    BY <1>1, <1>5
  <2> QED
    BY <1>2, <2>1, <2>2, <2>3, <2>4 DEF Near, w, m
<1> QED
  BY <1>1, <1>2, <1>4, <1>5

\* The elements of two sequences put together.
LEMMA ConcatIn ==
  ASSUME NEW S, NEW a \in Seq(S), NEW b \in Seq(S)
  PROVE  /\ a \o b \in Seq(S) /\ Len(a \o b) = Len(a) + Len(b)
         /\ Len(a) \in Nat /\ Len(b) \in Nat
         /\ \A i \in 1 .. Len(a) : (a \o b)[i] = a[i]
         /\ \A i \in 1 .. Len(b) : (a \o b)[i + Len(a)] = b[i]
OBVIOUS

\* The commands of a locked call are those between its lock and its unlock.
LEMMA LockedUses ==
  ASSUME NEW ops \in Seq(Still), NEW q, q = Locked(ops)
  PROVE  /\ q \in Seq(Operations) /\ Len(ops) \in Nat /\ Len(q) = Len(ops) + 2
         /\ \A i \in 1 .. Len(ops) : q[i + 1] = ops[i]
         /\ \A k \in 1 .. Len(q) : \A addr : Uses(q, k, addr) <=> k - 1 \in 1 .. Len(ops) /\ Takes(ops[k - 1], addr)
<1>1. /\ Len(ops) \in Nat /\ ops \in Seq(Operations)
      /\ \A i \in 1 .. Len(ops) : ops[i].kind \in {"asic", "plain"}
  BY DEF Still
<1>2. \A i \in 1 .. Len(ops) : ops[i].kind \notin {"lock", "unlock"}
  BY <1>1
<1>3. /\ q \in Seq(Operations) /\ Len(q) = Len(ops) + 2
      /\ q[1].kind = "lock" /\ q[Len(ops) + 2].kind = "unlock"
      /\ \A i \in 1 .. Len(ops) : q[i + 1] = ops[i]
  BY <1>1, <1>2, LockedFacts
<1>4. ASSUME NEW k \in 1 .. Len(q), NEW addr
      PROVE  Uses(q, k, addr) <=> k - 1 \in 1 .. Len(ops) /\ Takes(ops[k - 1], addr)
  <2>1. CASE k = 1 \/ k = Len(ops) + 2
    <3>1. ~Uses(q, k, addr)
      BY <1>3, <2>1 DEF Uses
    <3>2. k - 1 \notin 1 .. Len(ops)
      BY <1>1, <2>1
    <3> QED
      BY <3>1, <3>2
  <2>2. CASE k # 1 /\ k # Len(ops) + 2
    <3>1. k - 1 \in 1 .. Len(ops) /\ (k - 1) + 1 = k
      BY <1>1, <1>3, <2>2
    <3>2. q[k] = ops[k - 1]
      BY <1>3, <3>1
    <3> QED
      BY <3>1, <3>2 DEF Uses, Takes
  <2> QED
    BY <2>1, <2>2
<1> QED
  BY <1>1, <1>3, <1>4

\* A locked call without commands for the two registers leaves them alone.
LEMMA IdleCall ==
  ASSUME NEW ops \in Seq(Still),
         \A i \in 1 .. Len(ops) : ~Takes(ops[i], "0B") /\ ~Takes(ops[i], "0D")
  PROVE  Idles(Locked(ops))
BY LockedUses DEF Idles

\* The calls that leave the gain and the enable bits alone.
LEMMA IdleCalls ==
  /\ Idles(ASIC_Read) /\ Idles(ASIC_Write) /\ Idles(Locked(<<Plain>>))
  /\ Idles(POT_EnableHorizontal) /\ Idles(POT_DisableHorizontal)
  /\ Idles(POT_Configuration) /\ Idles(TimingCore_Configuration)
  /\ Idles(TimingCore_Enable) /\ Idles(VerticalController_Configuration)
<1> DEFINE p == Plain
           r == Read
           o == Other
<1>1. /\ p \in Still /\ r \in Still /\ o \in Still
      /\ \A x \in {p, r, o} : ~Takes(x, "0B") /\ ~Takes(x, "0D")
  BY StillOperations, TakesFacts
<1> DEFINE S == {p, r, o}
<1>2. ASSUME NEW ops \in Seq(S) PROVE Idles(Locked(ops))
  <2>1. ops \in Seq(Still) /\ \A i \in 1 .. Len(ops) : ops[i] \in S
    BY <1>1
  <2> QED
    BY <1>1, <2>1, IdleCall
<1> HIDE DEF p, r, o
<1>3. Idles(ASIC_Read) /\ Idles(ASIC_Write) /\ Idles(Locked(<<Plain>>))
  <2>1. <<r>> \in Seq(S) /\ <<o>> \in Seq(S) /\ <<p>> \in Seq(S)
    OBVIOUS
  <2>2. ASIC_Read = Locked(<<r>>) /\ ASIC_Write = Locked(<<o>>) /\ Locked(<<Plain>>) = Locked(<<p>>)
    BY DEF ASIC_Read, ASIC_Write, r, o, p
  <2> QED
    BY <1>2, <2>1, <2>2
<1>4. Idles(POT_EnableHorizontal)
  <2> DEFINE rest == [i \in 1 .. 5 * 4 |-> o]
  <2>1. <<r, o, r>> \in Seq(S) /\ rest \in Seq(S)
    OBVIOUS
  <2> HIDE DEF rest
  <2>2. <<r, o, r>> \o rest \in Seq(S)
    BY <2>1
  <2>3. POT_EnableHorizontal = Locked(<<r, o, r>> \o rest)
    BY DEF POT_EnableHorizontal, r, o, rest
  <2> QED
    BY <1>2, <2>2, <2>3
<1>5. /\ Idles(POT_DisableHorizontal) /\ Idles(TimingCore_Configuration)
      /\ Idles(VerticalController_Configuration)
  <2>1. <<r, o>> \in Seq(S) /\ <<p, p, p, p, p>> \in Seq(S) /\ <<o, o, p>> \in Seq(S)
    OBVIOUS
  <2>2. /\ POT_DisableHorizontal = Locked(<<r, o>>)
        /\ TimingCore_Configuration = Locked(<<p, p, p, p, p>>)
        /\ VerticalController_Configuration = Locked(<<o, o, p>>)
    BY DEF POT_DisableHorizontal, TimingCore_Configuration, VerticalController_Configuration, r, o, p
  <2> QED
    BY <1>2, <2>1, <2>2
<1>6. Idles(POT_Configuration)
  BY PotConfiguration DEF Idles, Uses
<1>7. Idles(TimingCore_Enable)
  <2>1. TIMING_CORE_EN \in {TIMING_CORE_EN, -TIMING_CORE_EN, TDC_EN, -TDC_EN}
    OBVIOUS
  <2>2. TimingCore_Enable = Locked(<<Flip(TIMING_CORE_EN)>>)
    BY DEF TimingCore_Enable
  <2>3. \A i \in 1 .. Len(TimingCore_Enable) : TimingCore_Enable[i].kind \in {"lock", "unlock", "flag"}
    BY <2>1, <2>2, FlagCallFacts
  <2> QED
    BY <2>3 DEF Idles, Uses
<1> QED
  BY <1>3, <1>4, <1>5, <1>6, <1>7

\* Option 2: the gain is set at once.
LEMMA ChangeRamps ==
  ASSUME NEW g \in Nat, NEW a, NEW on,
         \E b \in Bits : ("EV" \in b <=> on) /\ a.enables = b
  PROVE  Ramps(ASIC_ChangeVerticalGain(g), a, 2, g, on)
<1> DEFINE r == Read
           c == Gain(g)
           ops == <<r, r, c>>
           q == Locked(ops)
<1>1. /\ r \in Still /\ c \in Still /\ c.data = g % GainMod
      /\ ~Takes(r, "0B") /\ ~Takes(r, "0D") /\ Takes(c, "0B") /\ ~Takes(c, "0D")
  BY StillOperations, TakesFacts
<1> HIDE DEF r, c
<1>2. ops \in Seq(Still) /\ Len(ops) = 3 /\ ops[1] = r /\ ops[2] = r /\ ops[3] = c
  BY <1>1
<1> HIDE DEF ops
<1>3. /\ q \in Seq(Operations) /\ Len(q) = 5 /\ \A i \in 1 .. 3 : q[i + 1] = ops[i]
      /\ \A k \in 1 .. 5 : \A addr : Uses(q, k, addr) <=> k - 1 \in 1 .. 3 /\ Takes(ops[k - 1], addr)
  <2>1. /\ q \in Seq(Operations) /\ Len(q) = Len(ops) + 2
        /\ \A i \in 1 .. Len(ops) : q[i + 1] = ops[i]
        /\ \A k \in 1 .. Len(q) : \A addr :
             Uses(q, k, addr) <=> k - 1 \in 1 .. Len(ops) /\ Takes(ops[k - 1], addr)
    BY <1>2, LockedUses
  <2>2. Len(ops) = 3 /\ Len(q) = 5
    BY <1>2, <2>1
  <2> HIDE DEF q
  <2> QED
    BY <2>1, <2>2
<1> HIDE DEF q
<1>4. \A k \in 1 .. 5 : ~Uses(q, k, "0D") /\ (Uses(q, k, "0B") <=> k = 4)
  <2> SUFFICES ASSUME NEW k \in 1 .. 5 PROVE ~Uses(q, k, "0D") /\ (Uses(q, k, "0B") <=> k = 4)
    OBVIOUS
  <2>1. k = 1 \/ k = 2 \/ k = 3 \/ k = 4 \/ k = 5
    OBVIOUS
  <2>2. \A addr : Uses(q, k, addr) <=> k - 1 \in 1 .. 3 /\ Takes(ops[k - 1], addr)
    BY <1>3
  <2>3. /\ k = 2 => k - 1 = 1
        /\ k = 3 => k - 1 = 2
        /\ k = 4 => k - 1 = 3 /\ k - 1 \in 1 .. 3
        /\ k = 1 \/ k = 5 => k - 1 \notin 1 .. 3
    OBVIOUS
  <2> QED
    BY <1>1, <1>2, <2>1, <2>2, <2>3
<1>5. q[4].data = g % GainMod
  <2>1. 3 \in 1 .. 3 /\ 3 + 1 = 4
    OBVIOUS
  <2>2. q[4] = ops[3]
    BY <1>3, <2>1
  <2> QED
    BY <1>1, <1>2, <2>2
<1>6. StepsSmall(q, a, 2, g) /\ SwitchedAtZero(q, a)
  BY <1>3, <1>4 DEF StepsSmall, SwitchedAtZero
<1>7. GainBefore(q, 6, a, g % GainMod)
  <2>1. 4 \in 1 .. 6 - 1 /\ \A m \in 4 + 1 .. 6 - 1 : m \in 1 .. 5 /\ m # 4
    OBVIOUS
  <2> QED
    BY <1>4, <1>5, <2>1 DEF GainBefore, Before
<1>8. \A b : a.enables = b => EnablesBefore(q, 6, a, b)
  <2>1. \A m \in 1 .. 6 - 1 : m \in 1 .. 5
    OBVIOUS
  <2> QED
    BY <1>4, <2>1 DEF EnablesBefore, Before
<1>9. Len(q) + 1 = 6
  BY <1>3
<1>10. Ends(q, a, g, on)
  BY <1>7, <1>8, <1>9 DEF Ends
<1>11. ASIC_ChangeVerticalGain(g) = q
  BY DEF ASIC_ChangeVerticalGain, q, ops, r, c
<1> QED
  BY <1>6, <1>10, <1>11 DEF Ramps

\* Option 4, on: the gain is set to 0, the drive is switched on, the gain is raised.
LEMMA EnableFacts ==
  ASSUME NEW g \in Nat, NEW q, q = ASIC_EnableVertical(g)
  PROVE  /\ q \in Seq(Operations) /\ Len(q) = g + 7
         /\ q[4].data = 0 /\ "EV" \in q[5].data /\ q[5].data \in Bits
         /\ \A j \in 1 .. g : q[6 + j].data = j % GainMod
         /\ \A k \in 1 .. g + 7 : /\ Uses(q, k, "0B") <=> k = 4 \/ k \in 7 .. g + 6
                                  /\ Uses(q, k, "0D") <=> k = 5
<1> DEFINE r == Read
           c(i) == Gain(i)
           e == Enables({"EV", "EH"})
           up == [i \in 1 .. g |-> c(i)]
           head == <<r, r, c(0), e, r>>
           ops == head \o up
<1>1. /\ r \in Still /\ e \in Still /\ e.data = {"EV", "EH"} /\ \A i \in Int : c(i) \in Still
      /\ ~Takes(r, "0B") /\ ~Takes(r, "0D") /\ Takes(e, "0D") /\ ~Takes(e, "0B")
      /\ \A i : Takes(c(i), "0B") /\ ~Takes(c(i), "0D")
  <2>1. {"EV", "EH"} \in Bits
    BY DEF Bits
  <2> QED
    BY <2>1, StillOperations, TakesFacts
<1>2. \A i : c(i).data = i % GainMod
  BY TakesFacts
<1> HIDE DEF r, c, e
<1>3. g \in Nat /\ 0 \in Int /\ \A i \in 1 .. g : i \in Int
  OBVIOUS
<1>4. /\ up \in Seq(Still) /\ Len(up) = g /\ \A i \in 1 .. g : up[i] = c(i)
  BY <1>1, <1>3
<1>5. /\ head \in Seq(Still) /\ Len(head) = 5
      /\ head[1] = r /\ head[2] = r /\ head[3] = c(0) /\ head[4] = e /\ head[5] = r
  BY <1>1, <1>3
<1> HIDE DEF up, head
<1>6. /\ ops \in Seq(Still) /\ Len(ops) = g + 5
      /\ \A i \in 1 .. 5 : ops[i] = head[i]
      /\ \A i \in 1 .. g : ops[i + 5] = up[i]
  <2>0. head \in Seq(Still) /\ up \in Seq(Still)
    BY <1>4, <1>5
  <2>1. ops \in Seq(Still) /\ Len(ops) = Len(head) + Len(up)
    BY <2>0, ConcatIn
  <2>2. /\ \A i \in 1 .. Len(head) : ops[i] = head[i]
        /\ \A i \in 1 .. Len(up) : ops[i + Len(head)] = up[i]
    BY <2>0
  <2> QED
    BY <1>3, <1>4, <1>5, <2>1, <2>2
<1> HIDE DEF ops
<1>7. q = Locked(ops)
  BY DEF ASIC_EnableVertical, ops, head, up, r, c, e
<1>8. /\ q \in Seq(Operations) /\ Len(q) = Len(ops) + 2
      /\ \A i \in 1 .. Len(ops) : q[i + 1] = ops[i]
      /\ \A k \in 1 .. Len(q) : \A addr :
           Uses(q, k, addr) <=> k - 1 \in 1 .. Len(ops) /\ Takes(ops[k - 1], addr)
  BY <1>6, <1>7, LockedUses
<1>9. Len(q) = g + 7
  BY <1>3, <1>6, <1>8
<1>10. /\ ops[1] = r /\ ops[2] = r /\ ops[3] = c(0) /\ ops[4] = e /\ ops[5] = r
       /\ \A i \in 1 .. g : ops[i + 5] = c(i)
  BY <1>4, <1>5, <1>6
<1>11. /\ q[4] = c(0) /\ q[5] = e
  <2>1. 3 \in 1 .. Len(ops) /\ 4 \in 1 .. Len(ops) /\ 3 + 1 = 4 /\ 4 + 1 = 5
    BY <1>3, <1>6
  <2>2. q[3 + 1] = ops[3] /\ q[4 + 1] = ops[4]
    BY <1>8, <2>1
  <2> QED
    BY <1>10, <2>1, <2>2
<1>12. \A j \in 1 .. g : q[6 + j] = c(j)
  <2> SUFFICES ASSUME NEW j \in 1 .. g PROVE q[6 + j] = c(j)
    OBVIOUS
  <2>1. j + 5 \in 1 .. Len(ops) /\ (j + 5) + 1 = 6 + j
    BY <1>3, <1>6
  <2> QED
    BY <1>8, <1>10, <2>1
<1>13. ASSUME NEW k \in 1 .. g + 7
       PROVE  /\ Uses(q, k, "0B") <=> k = 4 \/ k \in 7 .. g + 6
              /\ Uses(q, k, "0D") <=> k = 5
  <2>1. \A addr : Uses(q, k, addr) <=> k - 1 \in 1 .. g + 5 /\ Takes(ops[k - 1], addr)
    BY <1>6, <1>8, <1>9
  <2>2. CASE k = 1 \/ k = g + 7
    BY <1>3, <2>1, <2>2
  <2>3. CASE k \in 2 .. 6
    <3>1. k = 2 \/ k = 3 \/ k = 4 \/ k = 5 \/ k = 6
      BY <2>3
    <3>2. /\ k = 2 => k - 1 = 1
          /\ k = 3 => k - 1 = 2
          /\ k = 4 => k - 1 = 3
          /\ k = 5 => k - 1 = 4
          /\ k = 6 => k - 1 = 5
      OBVIOUS
    <3>3. k - 1 \in 1 .. g + 5 /\ k \notin 7 .. g + 6
      BY <1>3, <2>3
    <3> QED
      BY <1>1, <1>10, <2>1, <3>1, <3>2, <3>3
  <2>4. CASE k \in 7 .. g + 6
    <3>1. k - 6 \in 1 .. g /\ (k - 6) + 5 = k - 1 /\ k - 1 \in 1 .. g + 5 /\ k # 5
      BY <1>3, <2>4
    <3>2. ops[k - 1] = c(k - 6)
      BY <1>10, <3>1
    <3> QED
      BY <1>1, <2>1, <2>4, <3>1, <3>2
  <2>5. k = 1 \/ k = g + 7 \/ k \in 2 .. 6 \/ k \in 7 .. g + 6
    BY <1>3
  <2> QED
    BY <2>2, <2>3, <2>4, <2>5
<1>14. \A j \in 1 .. g : q[6 + j].data = j % GainMod
  BY <1>2, <1>12
<1>15. q[4].data = 0
  <2>1. 0 % GainMod = 0
    BY GainAssumption
  <2> QED
    BY <1>2, <1>11, <2>1
<1> QED
  BY <1>1, <1>8, <1>9, <1>11, <1>13, <1>14, <1>15 DEF Bits

\* Option 4 switches the drive on at gain 0 and ramps up to the gain of the menu.
LEMMA EnableRamps ==
  ASSUME NEW g \in Nat, NEW a, NEW opt,
         a.enables \in Bits, "EV" \notin a.enables
  PROVE  Ramps(ASIC_EnableVertical(g), a, opt, g, TRUE)
<1> DEFINE q == ASIC_EnableVertical(g)
<1>1. /\ q \in Seq(Operations) /\ Len(q) = g + 7
      /\ q[4].data = 0 /\ "EV" \in q[5].data /\ q[5].data \in Bits
      /\ \A j \in 1 .. g : q[6 + j].data = j % GainMod
      /\ \A k \in 1 .. g + 7 : /\ Uses(q, k, "0B") <=> k = 4 \/ k \in 7 .. g + 6
                               /\ Uses(q, k, "0D") <=> k = 5
  BY EnableFacts
<1>2. g \in Nat /\ GainMod \in Nat
  BY GainAssumption
<1> HIDE DEF q
<1>3. \A i \in {5, 7} : i - 1 \in 4 .. g + 7 => GainBefore(q, i, a, 0)
  <2> SUFFICES ASSUME NEW i \in {5, 7}, i - 1 \in 4 .. g + 7 PROVE GainBefore(q, i, a, 0)
    OBVIOUS
  <2>1. i = 5 \/ i = 7
    OBVIOUS
  <2>2. 4 \in 1 .. i - 1 /\ 4 \in 1 .. g + 7
    BY <1>2, <2>1
  <2>3. \A m \in 4 + 1 .. i - 1 : m \in 1 .. g + 7 /\ m # 4 /\ m \notin 7 .. g + 6
    BY <1>2, <2>1
  <2> QED
    BY <1>1, <2>2, <2>3 DEF GainBefore, Before
<1>4. \A j \in 1 .. g : GainBefore(q, 7 + j, a, j % GainMod)
  <2> SUFFICES ASSUME NEW j \in 1 .. g PROVE GainBefore(q, 7 + j, a, j % GainMod)
    OBVIOUS
  <2>1. 6 + j \in 1 .. (7 + j) - 1 /\ 6 + j \in 1 .. g + 7 /\ 6 + j \in 7 .. g + 6
    BY <1>2
  <2>2. (6 + j) + 1 .. (7 + j) - 1 = {}
    BY <1>2
  <2>3. Uses(q, 6 + j, "0B") /\ q[6 + j].data = j % GainMod
    BY <1>1, <2>1
  <2> QED
    BY <2>1, <2>2, <2>3 DEF GainBefore, Before
<1>5. EnablesBefore(q, 4, a, a.enables)
  <2>1. \A m \in 1 .. 4 - 1 : m \in 1 .. g + 7 /\ m # 5
    BY <1>2
  <2> QED
    BY <1>1, <2>1 DEF EnablesBefore, Before
<1>6. StepsSmall(q, a, opt, g)
  <2> SUFFICES ASSUME NEW i \in 1 .. Len(q), Uses(q, i, "0B")
               PROVE  \/ \E b \in Bits : "EV" \notin b /\ EnablesBefore(q, i, a, b)
                      \/ \E v \in 0 .. GainMod - 1 : GainBefore(q, i, a, v) /\ Near(v, q[i].data, g)
    BY DEF StepsSmall
  <2>1. i = 4 \/ i \in 7 .. g + 6
    BY <1>1
  <2>2. CASE i = 4
    BY <1>5, <2>2
  <2>3. CASE i = 7 /\ i \in 7 .. g + 6
    <3>1. 1 \in 1 .. g /\ 6 + 1 = 7 /\ i - 1 \in 4 .. g + 7 /\ 0 \in 0 .. GainMod - 1
      BY <1>2, <2>3, GainAssumption
    <3>2. q[7].data = 1 % GainMod
      BY <1>1, <3>1
    <3>3. GainBefore(q, i, a, 0)
      BY <1>3, <2>3, <3>1
    <3>4. Near(0, q[i].data, g)
      <4>1. 1 - 1 = 0 /\ 0 % GainMod = 0
        BY GainAssumption
      <4>2. Near((1 - 1) % GainMod, 1 % GainMod, g)
        BY <3>1, NextGain
      <4> QED
        BY <2>3, <3>2, <4>1, <4>2
    <3> QED
      BY <3>1, <3>3, <3>4
  <2>4. CASE i # 7 /\ i \in 7 .. g + 6
    <3> DEFINE j == i - 6
    <3>1. j \in 2 .. g /\ j - 1 \in 1 .. g /\ 7 + (j - 1) = i /\ 6 + j = i /\ j \in 1 .. g
      BY <1>2, <2>4
    <3>2. GainBefore(q, 7 + (j - 1), a, (j - 1) % GainMod)
      BY <1>4, <3>1
    <3>3. q[6 + j].data = j % GainMod
      BY <1>1, <3>1
    <3>4. (j - 1) % GainMod \in 0 .. GainMod - 1 /\ Near((j - 1) % GainMod, j % GainMod, g)
      BY <3>1, NextGain
    <3> HIDE DEF j
    <3> QED
      BY <3>1, <3>2, <3>3, <3>4
  <2> QED
    BY <2>1, <2>2, <2>3, <2>4
<1>7. SwitchedAtZero(q, a)
  <2> SUFFICES ASSUME NEW i \in 1 .. Len(q), Uses(q, i, "0D") PROVE GainBefore(q, i, a, 0)
    BY DEF SwitchedAtZero
  <2>1. i = 5 /\ i - 1 \in 4 .. g + 7
    BY <1>1, <1>2
  <2> QED
    BY <1>3, <2>1
<1>8. GainBefore(q, g + 8, a, g % GainMod)
  <2>1. CASE g = 0
    <3>1. \A m \in 4 + 1 .. (g + 8) - 1 : m \in 1 .. g + 7 /\ m # 4 /\ m \notin 7 .. g + 6
      BY <1>2, <2>1
    <3>2. 4 \in 1 .. (g + 8) - 1 /\ 4 \in 1 .. g + 7
      BY <1>2
    <3>3. g % GainMod = 0
      BY <2>1, GainAssumption
    <3> QED
      BY <1>1, <3>1, <3>2, <3>3 DEF GainBefore, Before
  <2>2. CASE g # 0
    <3>1. g \in 1 .. g /\ 6 + g \in 7 .. g + 6 /\ 6 + g \in 1 .. g + 7 /\ 6 + g \in 1 .. (g + 8) - 1
      BY <1>2, <2>2
    <3>2. Uses(q, 6 + g, "0B") /\ q[6 + g].data = g % GainMod
      BY <1>1, <3>1
    <3>3. \A m \in (6 + g) + 1 .. (g + 8) - 1 : m \in 1 .. g + 7 /\ m # 4 /\ m \notin 7 .. g + 6
      BY <1>2
    <3> QED
      BY <1>1, <3>1, <3>2, <3>3 DEF GainBefore, Before
  <2> QED
    BY <2>1, <2>2
<1>9. EnablesBefore(q, g + 8, a, q[5].data)
  <2>1. 5 \in 1 .. (g + 8) - 1 /\ 5 \in 1 .. g + 7
    BY <1>2
  <2>2. \A m \in 5 + 1 .. (g + 8) - 1 : m \in 1 .. g + 7 /\ m # 5
    BY <1>2
  <2> QED
    BY <1>1, <2>1, <2>2 DEF EnablesBefore, Before
<1>10. Len(q) + 1 = g + 8
  BY <1>1, <1>2
<1>11. Ends(q, a, g, TRUE)
  BY <1>1, <1>8, <1>9, <1>10 DEF Ends
<1> QED
  BY <1>6, <1>7, <1>11 DEF Ramps, q

\* Option 4, off: the gain is lowered to 0, the drive is switched off, the gain is set again.
LEMMA DisableFacts ==
  ASSUME NEW g \in Nat, NEW q, q = ASIC_DisableVertical(g)
  PROVE  /\ q \in Seq(Operations) /\ Len(q) = g + 7
         /\ "EV" \notin q[g + 5].data /\ q[g + 5].data \in Bits /\ q[g + 6].data = g % GainMod
         /\ \A j \in 1 .. g : q[4 + j].data = (g - j) % GainMod
         /\ \A k \in 1 .. g + 7 : /\ Uses(q, k, "0B") <=> k \in 5 .. g + 4 \/ k = g + 6
                                  /\ Uses(q, k, "0D") <=> k = g + 5
<1> DEFINE r == Read
           c(i) == Gain(i)
           e == Enables({"EH"})
           down == [i \in 1 .. g |-> c(g - i)]
           head == <<r, r, r>>
           last == <<e, c(g)>>
           hd == head \o down
           ops == hd \o last
<1>1. /\ r \in Still /\ e \in Still /\ e.data = {"EH"} /\ \A i \in Int : c(i) \in Still
      /\ ~Takes(r, "0B") /\ ~Takes(r, "0D") /\ Takes(e, "0D") /\ ~Takes(e, "0B")
      /\ \A i : Takes(c(i), "0B") /\ ~Takes(c(i), "0D")
  <2>1. {"EH"} \in Bits
    BY DEF Bits
  <2> QED
    BY <2>1, StillOperations, TakesFacts
<1>2. \A i : c(i).data = i % GainMod
  BY TakesFacts
<1> HIDE DEF r, c, e
<1>3. g \in Nat /\ g \in Int /\ \A i \in 1 .. g : g - i \in Int /\ g - i \in 0 .. g
  OBVIOUS
<1>4. /\ down \in Seq(Still) /\ Len(down) = g /\ \A i \in 1 .. g : down[i] = c(g - i)
  BY <1>1, <1>3
<1>5. /\ head \in Seq(Still) /\ Len(head) = 3 /\ head[1] = r /\ head[2] = r /\ head[3] = r
      /\ last \in Seq(Still) /\ Len(last) = 2 /\ last[1] = e /\ last[2] = c(g)
  BY <1>1, <1>3
<1> HIDE DEF down, head, last
<1>6. /\ hd \in Seq(Still) /\ Len(hd) = g + 3
      /\ \A i \in 1 .. 3 : hd[i] = head[i]
      /\ \A i \in 1 .. g : hd[i + 3] = down[i]
  <2>0. head \in Seq(Still) /\ down \in Seq(Still)
    BY <1>4, <1>5
  <2>1. hd \in Seq(Still) /\ Len(hd) = Len(head) + Len(down)
    BY <2>0, ConcatIn
  <2>2. /\ \A i \in 1 .. Len(head) : hd[i] = head[i]
        /\ \A i \in 1 .. Len(down) : hd[i + Len(head)] = down[i]
    BY <2>0
  <2> QED
    BY <1>3, <1>4, <1>5, <2>1, <2>2
<1> HIDE DEF hd
<1>7. /\ ops \in Seq(Still) /\ Len(ops) = g + 5
      /\ \A i \in 1 .. g + 3 : ops[i] = hd[i]
      /\ ops[1 + (g + 3)] = e /\ ops[2 + (g + 3)] = c(g)
  <2>0. hd \in Seq(Still) /\ last \in Seq(Still)
    BY <1>5, <1>6
  <2>1. ops \in Seq(Still) /\ Len(ops) = Len(hd) + Len(last)
    BY <2>0, ConcatIn
  <2>2. /\ \A i \in 1 .. Len(hd) : ops[i] = hd[i]
        /\ \A i \in 1 .. Len(last) : ops[i + Len(hd)] = last[i]
    BY <2>0
  <2>3. 1 \in 1 .. Len(last) /\ 2 \in 1 .. Len(last)
    BY <1>5
  <2>4. ops[1 + Len(hd)] = last[1] /\ ops[2 + Len(hd)] = last[2]
    BY <2>2, <2>3
  <2> QED
    BY <1>3, <1>5, <1>6, <2>1, <2>2, <2>4
<1> HIDE DEF ops
<1>8. q = Locked(ops)
  BY DEF ASIC_DisableVertical, ops, hd, head, last, down, r, c, e
<1>9. /\ q \in Seq(Operations) /\ Len(q) = Len(ops) + 2
      /\ \A i \in 1 .. Len(ops) : q[i + 1] = ops[i]
      /\ \A k \in 1 .. Len(q) : \A addr :
           Uses(q, k, addr) <=> k - 1 \in 1 .. Len(ops) /\ Takes(ops[k - 1], addr)
  BY <1>7, <1>8, LockedUses
<1>10. Len(q) = g + 7
  BY <1>3, <1>7, <1>9
<1>11. /\ ops[1] = r /\ ops[2] = r /\ ops[3] = r /\ ops[g + 4] = e /\ ops[g + 5] = c(g)
       /\ \A i \in 1 .. g : ops[i + 3] = c(g - i)
  <2>1. /\ 1 \in 1 .. g + 3 /\ 2 \in 1 .. g + 3 /\ 3 \in 1 .. g + 3
        /\ 1 + (g + 3) = g + 4 /\ 2 + (g + 3) = g + 5
        /\ \A i \in 1 .. g : i + 3 \in 1 .. g + 3
    BY <1>3
  <2>2. hd[1] = r /\ hd[2] = r /\ hd[3] = r /\ \A i \in 1 .. g : hd[i + 3] = c(g - i)
    BY <1>4, <1>5, <1>6
  <2>3. ops[1] = r /\ ops[2] = r /\ ops[3] = r
    BY <1>7, <2>1, <2>2
  <2>4. \A i \in 1 .. g : ops[i + 3] = c(g - i)
    BY <1>7, <2>1, <2>2
  <2>5. ops[g + 4] = e /\ ops[g + 5] = c(g)
    BY <1>7, <2>1
  <2> QED
    BY <2>3, <2>4, <2>5
<1>12. q[g + 5] = e /\ q[g + 6] = c(g)
  <2>1. g + 4 \in 1 .. Len(ops) /\ g + 5 \in 1 .. Len(ops) /\ (g + 4) + 1 = g + 5 /\ (g + 5) + 1 = g + 6
    BY <1>3, <1>7
  <2>2. q[(g + 4) + 1] = ops[g + 4] /\ q[(g + 5) + 1] = ops[g + 5]
    BY <1>9, <2>1
  <2> QED
    BY <1>11, <2>1, <2>2
<1>13. \A j \in 1 .. g : q[4 + j] = c(g - j)
  <2> SUFFICES ASSUME NEW j \in 1 .. g PROVE q[4 + j] = c(g - j)
    OBVIOUS
  <2>1. j + 3 \in 1 .. Len(ops) /\ (j + 3) + 1 = 4 + j
    BY <1>3, <1>7
  <2> QED
    BY <1>9, <1>11, <2>1
<1>14. ASSUME NEW k \in 1 .. g + 7
       PROVE  /\ Uses(q, k, "0B") <=> k \in 5 .. g + 4 \/ k = g + 6
              /\ Uses(q, k, "0D") <=> k = g + 5
  <2>1. \A addr : Uses(q, k, addr) <=> k - 1 \in 1 .. g + 5 /\ Takes(ops[k - 1], addr)
    BY <1>7, <1>9, <1>10
  <2>2. CASE k = 1 \/ k = g + 7
    BY <1>3, <2>1, <2>2
  <2>3. CASE k \in 2 .. 4
    <3>1. k = 2 \/ k = 3 \/ k = 4
      BY <2>3
    <3>2. /\ k = 2 => k - 1 = 1
          /\ k = 3 => k - 1 = 2
          /\ k = 4 => k - 1 = 3
      OBVIOUS
    <3>3. k \notin 5 .. g + 4 /\ k # g + 6 /\ k # g + 5
      BY <1>3, <2>3
    <3> QED
      BY <1>1, <1>11, <2>1, <3>1, <3>2, <3>3
  <2>4. CASE k \in 5 .. g + 4
    <3>1. k - 4 \in 1 .. g /\ (k - 4) + 3 = k - 1 /\ k - 1 \in 1 .. g + 5 /\ k # g + 5
      BY <1>3, <2>4
    <3>2. ops[k - 1] = c(g - (k - 4))
      BY <1>11, <3>1
    <3> QED
      BY <1>1, <2>1, <2>4, <3>1, <3>2
  <2>5. CASE k = g + 5
    <3>1. k - 1 = g + 4 /\ k - 1 \in 1 .. g + 5 /\ k \notin 5 .. g + 4 /\ k # g + 6
      BY <1>3, <2>5
    <3> QED
      BY <1>1, <1>11, <2>1, <2>5, <3>1
  <2>6. CASE k = g + 6
    <3>1. k - 1 = g + 5 /\ k - 1 \in 1 .. g + 5 /\ k # g + 5
      BY <1>3, <2>6
    <3> QED
      BY <1>1, <1>11, <2>1, <2>6, <3>1
  <2>7. k = 1 \/ k = g + 7 \/ k \in 2 .. 4 \/ k \in 5 .. g + 4 \/ k = g + 5 \/ k = g + 6
    BY <1>3
  <2> QED
    BY <2>2, <2>3, <2>4, <2>5, <2>6, <2>7
<1>15. \A j \in 1 .. g : q[4 + j].data = (g - j) % GainMod
  BY <1>2, <1>3, <1>13
<1>16. q[g + 6].data = g % GainMod
  BY <1>2, <1>12
<1> QED
  BY <1>1, <1>9, <1>10, <1>12, <1>14, <1>15, <1>16 DEF Bits

\* Option 4 ramps down from the gain of the menu and switches the drive off at gain 0.
LEMMA DisableRamps ==
  ASSUME NEW g \in Nat, NEW a, NEW opt, a.gain = g % GainMod
  PROVE  Ramps(ASIC_DisableVertical(g), a, opt, g, FALSE)
<1> DEFINE q == ASIC_DisableVertical(g)
<1>1. /\ q \in Seq(Operations) /\ Len(q) = g + 7
      /\ "EV" \notin q[g + 5].data /\ q[g + 5].data \in Bits /\ q[g + 6].data = g % GainMod
      /\ \A j \in 1 .. g : q[4 + j].data = (g - j) % GainMod
      /\ \A k \in 1 .. g + 7 : /\ Uses(q, k, "0B") <=> k \in 5 .. g + 4 \/ k = g + 6
                               /\ Uses(q, k, "0D") <=> k = g + 5
  BY DisableFacts
<1>2. g \in Nat /\ GainMod \in Nat
  BY GainAssumption
<1> HIDE DEF q
<1>3. GainBefore(q, 5, a, g % GainMod)
  <2>1. \A m \in 1 .. 5 - 1 : m \in 1 .. g + 7 /\ m \notin 5 .. g + 4 /\ m # g + 6
    BY <1>2
  <2> QED
    BY <1>1, <2>1 DEF GainBefore, Before
<1>4. \A j \in 1 .. g : GainBefore(q, 5 + j, a, (g - j) % GainMod)
  <2> SUFFICES ASSUME NEW j \in 1 .. g PROVE GainBefore(q, 5 + j, a, (g - j) % GainMod)
    OBVIOUS
  <2>1. 4 + j \in 1 .. (5 + j) - 1 /\ 4 + j \in 1 .. g + 7 /\ 4 + j \in 5 .. g + 4
    BY <1>2
  <2>2. (4 + j) + 1 .. (5 + j) - 1 = {}
    BY <1>2
  <2>3. Uses(q, 4 + j, "0B") /\ q[4 + j].data = (g - j) % GainMod
    BY <1>1, <2>1
  <2> QED
    BY <2>1, <2>2, <2>3 DEF GainBefore, Before
<1>5. GainBefore(q, g + 5, a, 0)
  <2>0. 0 % GainMod = 0
    BY GainAssumption
  <2>1. CASE g = 0
    BY <1>3, <2>0, <2>1
  <2>2. CASE g # 0
    <3>1. g \in 1 .. g /\ g - g = 0 /\ 5 + g = g + 5
      BY <1>2, <2>2
    <3>2. GainBefore(q, 5 + g, a, (g - g) % GainMod)
      BY <1>4, <3>1
    <3> QED
      BY <2>0, <3>1, <3>2
  <2> QED
    BY <2>1, <2>2
<1>6. \A i \in {g + 6, g + 8} : EnablesBefore(q, i, a, q[g + 5].data)
  <2> SUFFICES ASSUME NEW i \in {g + 6, g + 8} PROVE EnablesBefore(q, i, a, q[g + 5].data)
    OBVIOUS
  <2>1. g + 5 \in 1 .. i - 1 /\ g + 5 \in 1 .. g + 7
    BY <1>2
  <2>2. \A m \in (g + 5) + 1 .. i - 1 : m \in 1 .. g + 7 /\ m # g + 5
    BY <1>2
  <2> QED
    BY <1>1, <2>1, <2>2 DEF EnablesBefore, Before
<1>7. StepsSmall(q, a, opt, g)
  <2> SUFFICES ASSUME NEW i \in 1 .. Len(q), Uses(q, i, "0B")
               PROVE  \/ \E b \in Bits : "EV" \notin b /\ EnablesBefore(q, i, a, b)
                      \/ \E v \in 0 .. GainMod - 1 : GainBefore(q, i, a, v) /\ Near(v, q[i].data, g)
    BY DEF StepsSmall
  <2>1. i \in 5 .. g + 4 \/ i = g + 6
    BY <1>1
  <2>2. CASE i = g + 6
    BY <1>1, <1>6, <2>2
  <2>3. CASE i = 5 /\ i \in 5 .. g + 4
    <3>1. 1 \in 1 .. g /\ g \in 1 .. g /\ 4 + 1 = 5
      BY <1>2, <2>3
    <3>2. q[5].data = (g - 1) % GainMod
      BY <1>1, <3>1
    <3>3. g % GainMod \in 0 .. GainMod - 1 /\ Near(g % GainMod, (g - 1) % GainMod, g)
      BY <3>1, NextGain
    <3> QED
      BY <1>3, <2>3, <3>2, <3>3
  <2>4. CASE i # 5 /\ i \in 5 .. g + 4
    <3> DEFINE j == i - 4
    <3>1. j \in 2 .. g /\ j - 1 \in 1 .. g /\ 5 + (j - 1) = i /\ 4 + j = i /\ j \in 1 .. g
      BY <1>2, <2>4
    <3>2. GainBefore(q, 5 + (j - 1), a, (g - (j - 1)) % GainMod)
      BY <1>4, <3>1
    <3>3. q[4 + j].data = (g - j) % GainMod
      BY <1>1, <3>1
    <3>4. /\ (g - (j - 1)) % GainMod \in 0 .. GainMod - 1
          /\ Near((g - (j - 1)) % GainMod, (g - j) % GainMod, g)
      <4>1. g - (j - 1) \in 1 .. g /\ (g - (j - 1)) - 1 = g - j
        BY <1>2, <3>1
      <4>2. /\ (g - (j - 1)) % GainMod \in 0 .. GainMod - 1
            /\ Near((g - (j - 1)) % GainMod, ((g - (j - 1)) - 1) % GainMod, g)
        BY <4>1, NextGain
      <4> QED
        BY <4>1, <4>2
    <3> HIDE DEF j
    <3> QED
      BY <3>1, <3>2, <3>3, <3>4
  <2> QED
    BY <2>1, <2>2, <2>3, <2>4
<1>8. SwitchedAtZero(q, a)
  <2> SUFFICES ASSUME NEW i \in 1 .. Len(q), Uses(q, i, "0D") PROVE GainBefore(q, i, a, 0)
    BY DEF SwitchedAtZero
  <2>1. i = g + 5
    BY <1>1
  <2> QED
    BY <1>5, <2>1
<1>9. GainBefore(q, g + 8, a, g % GainMod)
  <2>1. g + 6 \in 1 .. (g + 8) - 1 /\ g + 6 \in 1 .. g + 7
    BY <1>2
  <2>2. \A m \in (g + 6) + 1 .. (g + 8) - 1 : m \in 1 .. g + 7 /\ m \notin 5 .. g + 4 /\ m # g + 6
    BY <1>2
  <2> QED
    BY <1>1, <2>1, <2>2 DEF GainBefore, Before
<1>10. Len(q) + 1 = g + 8
  BY <1>1, <1>2
<1>11. EnablesBefore(q, g + 8, a, q[g + 5].data)
  BY <1>6
<1>12. Ends(q, a, g, FALSE)
  BY <1>1, <1>9, <1>10, <1>11 DEF Ends
<1> QED
  BY <1>7, <1>8, <1>12 DEF Ramps, q

\* A call that ramps still does with a call behind it that leaves the ASIC alone.
LEMMA RampsAppend ==
  ASSUME NEW p \in Seq(Operations), NEW r \in Seq(Operations), Idles(r),
         NEW a, NEW opt, NEW gain, NEW on, Ramps(p, a, opt, gain, on)
  PROVE  p \o r \in Seq(Operations) /\ Ramps(p \o r, a, opt, gain, on)
<1> DEFINE q == p \o r
<1>1. /\ q \in Seq(Operations) /\ Len(q) = Len(p) + Len(r)
      /\ Len(p) \in Nat /\ Len(r) \in Nat
      /\ \A i \in 1 .. Len(p) : q[i] = p[i]
      /\ \A i \in 1 .. Len(r) : q[i + Len(p)] = r[i]
  BY ConcatFacts
<1> HIDE DEF q
<1>2. \A i \in 1 .. Len(p) : /\ i \in 1 .. Len(q) /\ q[i] = p[i]
                             /\ \A addr : Uses(q, i, addr) <=> Uses(p, i, addr)
  BY <1>1 DEF Uses
<1>3. ASSUME NEW i \in 1 .. Len(q), NEW addr \in {"0B", "0D"}, Uses(q, i, addr)
      PROVE  i \in 1 .. Len(p) /\ Uses(p, i, addr)
  <2>1. CASE i \in 1 .. Len(p)
    BY <1>2, <1>3, <2>1
  <2>2. CASE i \notin 1 .. Len(p)
    <3>1. i - Len(p) \in 1 .. Len(r) /\ (i - Len(p)) + Len(p) = i
      BY <1>1, <2>2
    <3>2. q[i] = r[i - Len(p)]
      BY <1>1, <3>1
    <3> QED
      BY <1>3, <3>1, <3>2 DEF Uses, Idles
  <2> QED
    BY <2>1, <2>2
<1>4. \A i \in 1 .. Len(p) + 1 : \A addr, now, v : Before(p, i, addr, now, v) => Before(q, i, addr, now, v)
  <2> SUFFICES ASSUME NEW i \in 1 .. Len(p) + 1, NEW addr, NEW now, NEW v, Before(p, i, addr, now, v)
               PROVE  Before(q, i, addr, now, v)
    OBVIOUS
  <2>1. \A k \in 1 .. i - 1 : k \in 1 .. Len(p)
    BY <1>1
  <2>2. CASE now = v /\ \A k \in 1 .. i - 1 : ~Uses(p, k, addr)
    BY <1>2, <2>1, <2>2 DEF Before
  <2>3. CASE \E k \in 1 .. i - 1 : /\ Uses(p, k, addr) /\ p[k].data = v
                                   /\ \A m \in k + 1 .. i - 1 : ~Uses(p, m, addr)
    <3>1. PICK k \in 1 .. i - 1 : /\ Uses(p, k, addr) /\ p[k].data = v
                                  /\ \A m \in k + 1 .. i - 1 : ~Uses(p, m, addr)
      BY <2>3
    <3>2. Uses(q, k, addr) /\ q[k].data = v
      BY <1>2, <2>1, <3>1
    <3>3. \A m \in k + 1 .. i - 1 : m \in 1 .. i - 1
      OBVIOUS
    <3>4. \A m \in k + 1 .. i - 1 : ~Uses(q, m, addr)
      BY <1>2, <2>1, <3>1, <3>3
    <3> QED
      BY <3>1, <3>2, <3>4 DEF Before
  <2> QED
    BY <2>2, <2>3 DEF Before
<1>5. ASSUME NEW addr \in {"0B", "0D"}, NEW now, NEW v, Before(p, Len(p) + 1, addr, now, v)
      PROVE  Before(q, Len(q) + 1, addr, now, v)
  <2>1. /\ (Len(p) + 1) - 1 = Len(p) /\ (Len(q) + 1) - 1 = Len(q)
        /\ \A k \in 1 .. Len(p) : k \in 1 .. Len(q)
    BY <1>1
  <2>2. CASE now = v /\ \A k \in 1 .. Len(p) : ~Uses(p, k, addr)
    <3>1. \A k \in 1 .. Len(q) : ~Uses(q, k, addr)
      BY <1>3, <2>2
    <3> QED
      BY <2>1, <2>2, <3>1 DEF Before
  <2>3. CASE \E k \in 1 .. Len(p) : /\ Uses(p, k, addr) /\ p[k].data = v
                                    /\ \A m \in k + 1 .. Len(p) : ~Uses(p, m, addr)
    <3>1. PICK k \in 1 .. Len(p) : /\ Uses(p, k, addr) /\ p[k].data = v
                                   /\ \A m \in k + 1 .. Len(p) : ~Uses(p, m, addr)
      BY <2>3
    <3>2. k \in 1 .. Len(q) /\ Uses(q, k, addr) /\ q[k].data = v
      BY <1>2, <3>1
    <3>3. \A m \in k + 1 .. Len(q) : m \in 1 .. Len(q) /\ (m \in 1 .. Len(p) => m \in k + 1 .. Len(p))
      BY <1>1
    <3>4. \A m \in k + 1 .. Len(q) : ~Uses(q, m, addr)
      BY <1>3, <3>1, <3>3
    <3> QED
      BY <2>1, <3>2, <3>4 DEF Before
  <2> QED
    BY <1>5, <2>1, <2>2, <2>3 DEF Before
<1>6. \A i \in 1 .. Len(p) : i \in 1 .. Len(p) + 1
  BY <1>1
<1>7. /\ \A i \in 1 .. Len(p) : \A g : GainBefore(p, i, a, g) => GainBefore(q, i, a, g)
      /\ \A i \in 1 .. Len(p) : \A b : EnablesBefore(p, i, a, b) => EnablesBefore(q, i, a, b)
  BY <1>4, <1>6 DEF GainBefore, EnablesBefore
<1>8. /\ \A g : GainBefore(p, Len(p) + 1, a, g) => GainBefore(q, Len(q) + 1, a, g)
      /\ \A b : EnablesBefore(p, Len(p) + 1, a, b) => EnablesBefore(q, Len(q) + 1, a, b)
  BY <1>5 DEF GainBefore, EnablesBefore
<1>9. StepsSmall(q, a, opt, gain)
  <2> SUFFICES ASSUME NEW i \in 1 .. Len(q), Uses(q, i, "0B"), opt # 2
               PROVE  \/ \E b \in Bits : "EV" \notin b /\ EnablesBefore(q, i, a, b)
                      \/ \E g \in 0 .. GainMod - 1 : GainBefore(q, i, a, g) /\ Near(g, q[i].data, gain)
    BY DEF StepsSmall
  <2>1. i \in 1 .. Len(p) /\ Uses(p, i, "0B") /\ q[i] = p[i]
    BY <1>2, <1>3
  <2>2. \/ \E b \in Bits : "EV" \notin b /\ EnablesBefore(p, i, a, b)
        \/ \E g \in 0 .. GainMod - 1 : GainBefore(p, i, a, g) /\ Near(g, p[i].data, gain)
    BY <2>1 DEF Ramps, StepsSmall
  <2> QED
    BY <1>7, <2>1, <2>2
<1>10. SwitchedAtZero(q, a)
  <2> SUFFICES ASSUME NEW i \in 1 .. Len(q), Uses(q, i, "0D")
               PROVE  \/ \E b \in Bits : ("EV" \in b <=> "EV" \in q[i].data) /\ EnablesBefore(q, i, a, b)
                      \/ GainBefore(q, i, a, 0)
    BY DEF SwitchedAtZero
  <2>1. i \in 1 .. Len(p) /\ Uses(p, i, "0D") /\ q[i] = p[i]
    BY <1>2, <1>3
  <2>2. \/ \E b \in Bits : ("EV" \in b <=> "EV" \in p[i].data) /\ EnablesBefore(p, i, a, b)
        \/ GainBefore(p, i, a, 0)
    BY <2>1 DEF Ramps, SwitchedAtZero
  <2> QED
    BY <1>7, <2>1, <2>2
<1>11. Ends(q, a, gain, on)
  BY <1>8 DEF Ramps, Ends
<1> QED
  BY <1>1, <1>9, <1>10, <1>11 DEF Ramps, q

\* The configuration leaves the drive off and the gain at its starting value.
LEMMA AsicConfiguration ==
  ASSUME NEW a, a.enables = {}, NEW opt
  PROVE  ASIC_Configuration \in Seq(Operations) /\ Ramps(ASIC_Configuration, a, opt, StartGain, FALSE)
<1> DEFINE r == Read
           o == Other
           c == Gain(4)
           s == Gain(StartGain)
           e == Enables({})
           h == Enables({"EH"})
           ops == <<r, e, c, o, e, r, s, r, h, o>>
           q == Locked(ops)
<1>1. /\ r \in Still /\ o \in Still /\ c \in Still /\ s \in Still /\ e \in Still /\ h \in Still
      /\ e.data = {} /\ h.data = {"EH"} /\ s.data = StartGain
  <2>1. {"EH"} \in Bits /\ {} \in Bits /\ 4 \in Int
    BY DEF Bits
  <2>2. StartGain \in 0 .. GainMod - 1 /\ StartGain \in Int
    BY GainAssumption
  <2> QED
    BY <2>1, <2>2, StillOperations, TakesFacts, SameGain
<1>2. /\ \A x \in {r, o} : ~Takes(x, "0B") /\ ~Takes(x, "0D")
      /\ \A x \in {c, s} : Takes(x, "0B") /\ ~Takes(x, "0D")
      /\ \A x \in {e, h} : ~Takes(x, "0B") /\ Takes(x, "0D")
  BY TakesFacts
<1>3. ASIC_Configuration = q
  BY DEF ASIC_Configuration
<1> HIDE DEF r, o, c, s, e, h
<1>4. /\ ops \in Seq(Still) /\ Len(ops) = 10
      /\ ops[1] = r /\ ops[2] = e /\ ops[3] = c /\ ops[4] = o /\ ops[5] = e
      /\ ops[6] = r /\ ops[7] = s /\ ops[8] = r /\ ops[9] = h /\ ops[10] = o
  BY <1>1
<1> HIDE DEF ops
<1>5. /\ q \in Seq(Operations) /\ Len(q) = 12 /\ \A i \in 1 .. 10 : q[i + 1] = ops[i]
      /\ \A k \in 1 .. 12 : \A addr : Uses(q, k, addr) <=> k - 1 \in 1 .. 10 /\ Takes(ops[k - 1], addr)
  <2>1. /\ q \in Seq(Operations) /\ Len(q) = Len(ops) + 2
        /\ \A i \in 1 .. Len(ops) : q[i + 1] = ops[i]
        /\ \A k \in 1 .. Len(q) : \A addr :
             Uses(q, k, addr) <=> k - 1 \in 1 .. Len(ops) /\ Takes(ops[k - 1], addr)
    BY <1>4, LockedUses
  <2>2. Len(ops) = 10 /\ Len(q) = 12
    BY <1>4, <2>1
  <2> HIDE DEF q
  <2> QED
    BY <2>1, <2>2
<1> HIDE DEF q
<1>6. ASSUME NEW k \in 1 .. 12
      PROVE  /\ Uses(q, k, "0B") <=> k \in {4, 8}
             /\ Uses(q, k, "0D") <=> k \in {3, 6, 10}
  <2>1. \A addr : Uses(q, k, addr) <=> k - 1 \in 1 .. 10 /\ Takes(ops[k - 1], addr)
    BY <1>5
  <2>2. CASE k = 1 \/ k = 12
    BY <2>1, <2>2
  <2>3. CASE k \in 2 .. 11
    <3>1. /\ k = 2 => k - 1 = 1
          /\ k = 3 => k - 1 = 2
          /\ k = 4 => k - 1 = 3
          /\ k = 5 => k - 1 = 4
          /\ k = 6 => k - 1 = 5
          /\ k = 7 => k - 1 = 6
          /\ k = 8 => k - 1 = 7
          /\ k = 9 => k - 1 = 8
          /\ k = 10 => k - 1 = 9
          /\ k = 11 => k - 1 = 10
          /\ k - 1 \in 1 .. 10
      BY <2>3
    <3>2. k = 2 \/ k = 3 \/ k = 4 \/ k = 5 \/ k = 6 \/ k = 7 \/ k = 8 \/ k = 9 \/ k = 10 \/ k = 11
      BY <2>3
    <3> QED
      BY <1>2, <1>4, <2>1, <3>1, <3>2
  <2> QED
    BY <2>2, <2>3
<1>7. q[3].data = {} /\ q[6].data = {} /\ q[8].data = StartGain /\ q[10].data = {"EH"}
  <2>1. /\ 2 \in 1 .. 10 /\ 5 \in 1 .. 10 /\ 7 \in 1 .. 10 /\ 9 \in 1 .. 10
        /\ 2 + 1 = 3 /\ 5 + 1 = 6 /\ 7 + 1 = 8 /\ 9 + 1 = 10
    OBVIOUS
  <2>2. q[2 + 1] = ops[2] /\ q[5 + 1] = ops[5] /\ q[7 + 1] = ops[7] /\ q[9 + 1] = ops[9]
    BY <1>5, <2>1
  <2>3. q[3] = e /\ q[6] = e /\ q[8] = s /\ q[10] = h
    BY <1>4, <2>1, <2>2
  <2> QED
    BY <1>1, <2>3
<1>8. EnablesBefore(q, 3, a, {})
  <2>1. \A m \in 1 .. 3 - 1 : m \in 1 .. 12 /\ m \notin {3, 6, 10}
    OBVIOUS
  <2> QED
    BY <1>6, <2>1 DEF EnablesBefore, Before
<1>9. \A i \in {4, 6} : EnablesBefore(q, i, a, {})
  <2>1. \A i \in {4, 6} : 3 \in 1 .. i - 1 /\ \A m \in 3 + 1 .. i - 1 : m \in 1 .. 12 /\ m \notin {3, 6, 10}
    OBVIOUS
  <2>2. Uses(q, 3, "0D")
    BY <1>6
  <2> QED
    BY <1>6, <1>7, <2>1, <2>2 DEF EnablesBefore, Before
<1>10. \A i \in {8, 10} : EnablesBefore(q, i, a, {})
  <2>1. \A i \in {8, 10} : 6 \in 1 .. i - 1 /\ \A m \in 6 + 1 .. i - 1 : m \in 1 .. 12 /\ m \notin {3, 6, 10}
    OBVIOUS
  <2>2. Uses(q, 6, "0D")
    BY <1>6
  <2> QED
    BY <1>6, <1>7, <2>1, <2>2 DEF EnablesBefore, Before
<1>11. EnablesBefore(q, 13, a, {"EH"})
  <2>1. 10 \in 1 .. 13 - 1 /\ \A m \in 10 + 1 .. 13 - 1 : m \in 1 .. 12 /\ m \notin {3, 6, 10}
    OBVIOUS
  <2>2. Uses(q, 10, "0D")
    BY <1>6
  <2> QED
    BY <1>6, <1>7, <2>1, <2>2 DEF EnablesBefore, Before
<1>12. GainBefore(q, 13, a, StartGain)
  <2>1. 8 \in 1 .. 13 - 1 /\ \A m \in 8 + 1 .. 13 - 1 : m \in 1 .. 12 /\ m \notin {4, 8}
    OBVIOUS
  <2>2. Uses(q, 8, "0B")
    BY <1>6
  <2> QED
    BY <1>6, <1>7, <2>1, <2>2 DEF GainBefore, Before
<1>13. {} \in Bits /\ {"EH"} \in Bits /\ "EV" \notin {} /\ "EV" \notin {"EH"}
  BY DEF Bits
<1>14. StepsSmall(q, a, opt, StartGain)
  <2> SUFFICES ASSUME NEW i \in 1 .. Len(q), Uses(q, i, "0B")
               PROVE  \E b \in Bits : "EV" \notin b /\ EnablesBefore(q, i, a, b)
    BY DEF StepsSmall
  <2>1. i \in {4, 8}
    BY <1>5, <1>6
  <2> QED
    BY <1>9, <1>10, <1>13, <2>1
<1>15. SwitchedAtZero(q, a)
  <2> SUFFICES ASSUME NEW i \in 1 .. Len(q), Uses(q, i, "0D")
               PROVE  \E b \in Bits : ("EV" \in b <=> "EV" \in q[i].data) /\ EnablesBefore(q, i, a, b)
    BY DEF SwitchedAtZero
  <2>1. i = 3 \/ i = 6 \/ i = 10
    BY <1>5, <1>6
  <2>2. "EV" \notin q[i].data /\ EnablesBefore(q, i, a, {})
    BY <1>7, <1>8, <1>9, <1>10, <1>13, <2>1
  <2> QED
    BY <1>13, <2>2
<1>16. Len(q) + 1 = 13
  BY <1>5
<1>17. Ends(q, a, StartGain, FALSE)
  <2>1. StartGain % GainMod = StartGain
    BY GainAssumption, SameGain
  <2> QED
    BY <1>11, <1>12, <1>13, <1>16, <2>1 DEF Ends
<1> QED
  BY <1>3, <1>5, <1>14, <1>15, <1>17 DEF Ramps

\* The configuration, which is all that is to come at first, ramps.
LEMMA GainInit == Init => AsicInv /\ GainInv
<1> SUFFICES ASSUME Init PROVE AsicInv /\ GainInv
  OBVIOUS
<1> DEFINE q == ConfigurationCalls
           s == ASIC_Configuration
           p == POT_Configuration
           c == TimingCore_Configuration
           e == TimingCore_Enable
           v == VerticalController_Configuration
<1>1. /\ todo = [t \in Threads |-> IF t = "config" THEN q ELSE <<>>]
      /\ q = s \o p \o c \o e \o v
      /\ at = [t \in Threads |-> 0] /\ asic = [gain |-> 0, enables |-> {}]
      /\ option = -1 /\ enV = FALSE /\ lastVgain = StartGain
  BY DEF Init, ConfigurationCalls
<1>2. p \in Seq(Operations) /\ c \in Seq(Operations) /\ e \in Seq(Operations) /\ v \in Seq(Operations)
  <2>1. TIMING_CORE_EN \in {TIMING_CORE_EN, -TIMING_CORE_EN, TDC_EN, -TDC_EN}
    OBVIOUS
  <2>2. TimingCore_Enable = Locked(<<Flip(TIMING_CORE_EN)>>)
    BY DEF TimingCore_Enable
  <2>3. Sound(p) /\ Sound(c) /\ Sound(e) /\ Sound(v)
    BY <2>1, <2>2, PotConfiguration, QuietCalls, FlagCall
  <2> QED
    BY <2>3 DEF Sound
<1>3. Idles(p) /\ Idles(c) /\ Idles(e) /\ Idles(v)
  BY IdleCalls
<1>4. s \in Seq(Operations) /\ Ramps(s, asic, option, StartGain, FALSE)
  <2>1. asic.enables = {}
    BY <1>1
  <2> QED
    BY <2>1, AsicConfiguration
<1>5. q # <<>>
  <2>1. \E i \in 1 .. Len(q) : q[i].kind = "flag"
    BY ConfigCall
  <2> QED
    BY <2>1
<1> HIDE DEF q, s, p, c, e, v
<1>6. s \o p \in Seq(Operations) /\ Ramps(s \o p, asic, option, StartGain, FALSE)
  BY <1>2, <1>3, <1>4, RampsAppend
<1>7. (s \o p) \o c \in Seq(Operations) /\ Ramps((s \o p) \o c, asic, option, StartGain, FALSE)
  BY <1>2, <1>3, <1>6, RampsAppend
<1>8. (s \o p \o c) \o e \in Seq(Operations) /\ Ramps((s \o p \o c) \o e, asic, option, StartGain, FALSE)
  BY <1>2, <1>3, <1>7, RampsAppend
<1>9. Ramps((s \o p \o c \o e) \o v, asic, option, StartGain, FALSE)
  BY <1>2, <1>3, <1>8, RampsAppend
<1>10. todo["config"] = q /\ at["config"] = 0 /\ todo["dma"] = <<>> /\ todo["math"] = <<>>
  BY <1>1 DEF Threads
<1>11. Script = q
  BY <1>5, <1>10 DEF Script, Left
<1>12. AsicInv
  <2>1. 0 \in 0 .. GainMod - 1 /\ {} \in Bits
    BY GainAssumption DEF Bits
  <2> QED
    BY <1>1, <2>1 DEF AsicInv
<1>13. NoAsic(todo["dma"]) /\ NoAsic(todo["math"])
  BY <1>10 DEF NoAsic
<1>14. Ramps(Script, asic, option, Char(lastVgain), enV)
  <2>1. q = s \o p \o c \o e \o v
    BY <1>1
  <2>2. Char(lastVgain) = StartGain
    BY <1>1, GainAssumption, CharFacts
  <2> QED
    BY <1>1, <1>9, <1>11, <2>1, <2>2
<1> QED
  BY <1>12, <1>13, <1>14 DEF GainInv

\* The calls of option 5 leave the gain and the enable bits of the ASIC as they are.
LEMMA LaserIdles ==
  ASSUME NEW f \in {TIMING_CORE_EN, -TIMING_CORE_EN},
         NEW q, q = Laser_ChangeFrequency \o Locked(<<Flip(f)>>)
  PROVE  q \in Seq(Operations) /\ Idles(q)
<1> DEFINE p == Locked(<<Plain>>)
           r == Locked(<<Flip(f)>>)
<1>1. q = p \o r
  BY DEF Laser_ChangeFrequency
<1>2. /\ p \in Seq(Operations) /\ r \in Seq(Operations)
      /\ Len(r) = 3 /\ r[1].kind = "lock" /\ r[2].kind = "flag" /\ r[3].kind = "unlock"
  BY QuietCalls, FlagCall DEF Sound
<1>3. Idles(p)
  BY IdleCalls
<1> HIDE DEF p, r
<1>4. Idles(r)
  <2>1. \A i \in 1 .. Len(r) : i = 1 \/ i = 2 \/ i = 3
    BY <1>2
  <2>2. \A i \in 1 .. Len(r) : r[i].kind # "asic"
    BY <1>2, <2>1
  <2> QED
    BY <2>2 DEF Idles, Uses
<1>5. /\ p \o r \in Seq(Operations) /\ Len(p \o r) = Len(p) + Len(r)
      /\ Len(p) \in Nat /\ Len(r) \in Nat
      /\ \A i \in 1 .. Len(p) : (p \o r)[i] = p[i]
      /\ \A i \in 1 .. Len(r) : (p \o r)[i + Len(p)] = r[i]
  <2>1. p \in Seq(Operations) /\ r \in Seq(Operations)
    BY <1>2
  <2> QED
    BY <2>1, ConcatIn
<1>6. ASSUME NEW i \in 1 .. Len(q), NEW addr \in {"0B", "0D"}
      PROVE  ~Uses(q, i, addr)
  <2>1. CASE i \in 1 .. Len(p)
    BY <1>1, <1>3, <1>5, <2>1 DEF Idles, Uses
  <2>2. CASE i \notin 1 .. Len(p)
    <3>0. Len(q) = Len(p) + Len(r) /\ Len(p) \in Nat /\ Len(r) \in Nat
      BY <1>1, <1>5
    <3>1. i - Len(p) \in 1 .. Len(r) /\ (i - Len(p)) + Len(p) = i
      BY <3>0, <2>2
    <3>2. q[i] = r[i - Len(p)]
      BY <1>1, <1>5, <3>1
    <3> QED
      BY <1>4, <3>1, <3>2 DEF Idles, Uses
  <2> QED
    BY <2>1, <2>2
<1> QED
  BY <1>1, <1>5, <1>6 DEF Idles

\* Every option of the menu, chosen when its gain and its enable flag are those of the
\* ASIC, makes calls that ramp the gain and leave the two equal again.
LEMMA GainMenu ==
  ASSUME TypeInv, asic.gain = Char(lastVgain) % GainMod, asic.enables \in Bits, "EV" \in asic.enables <=> enV,
         Interface, ~Shutdown
  PROVE  \E q \in Seq(Operations) :
           Call("interface", q) /\ Ramps(q, asic, option', Char(lastVgain'), enV')
<1>1. /\ enV \in BOOLEAN /\ lastVgain \in Int
      /\ Gains \subseteq Int /\ \A g \in Int : Char(g) \in Nat
  BY GainAssumption, CharFacts DEF TypeInv
<1>2. \E b \in Bits : ("EV" \in b <=> enV) /\ asic.enables = b
  OBVIOUS
<1>3. ASSUME NEW q \in Seq(Operations), Idles(q), Call("interface", q),
             lastVgain' = lastVgain, enV' = enV
      PROVE  Call("interface", q) /\ Ramps(q, asic, option', Char(lastVgain'), enV')
  <2>1. Ramps(q, asic, option', Char(lastVgain), enV)
    BY <1>2, <1>3, IdleRamps
  <2> QED
    BY <1>3, <2>1
<1>4. CASE HorizontalGain
  <2>1. /\ Call("interface", POT_ChangeHorizontalGain)
        /\ lastVgain' = lastVgain /\ enV' = enV
    BY <1>4 DEF HorizontalGain, Menu
  <2>2. POT_ChangeHorizontalGain \in Seq(Operations) /\ Idles(POT_ChangeHorizontalGain)
    BY PotCall, PotIdles DEF Sound
  <2> QED
    BY <1>3, <2>1, <2>2
<1>5. CASE VerticalGain
  <2>1. PICK g \in Gains : /\ Menu(2, ASIC_ChangeVerticalGain(Char(g)))
                           /\ lastVgain' = g /\ UNCHANGED <<enH, enV, enL>>
    BY <1>5 DEF VerticalGain
  <2>2. /\ Call("interface", ASIC_ChangeVerticalGain(Char(g))) /\ option' = 2
        /\ lastVgain' = g /\ enV' = enV
    BY <2>1 DEF Menu
  <2>3. Char(g) \in Nat
    BY <1>1
  <2>4. /\ ASIC_ChangeVerticalGain(Char(g)) \in Seq(Operations)
        /\ Ramps(ASIC_ChangeVerticalGain(Char(g)), asic, 2, Char(g), enV)
    BY <1>2, <2>3, ChangeRamps, QuietCalls DEF Sound
  <2> QED
    BY <2>2, <2>4
<1>6. CASE Horizontal
  <2>1. \/ Call("interface", POT_DisableHorizontal)
        \/ Call("interface", POT_EnableHorizontal)
    <3>1. CASE enH
      BY <1>6, <3>1 DEF Horizontal, Menu
    <3>2. CASE ~enH
      BY <1>6, <3>2 DEF Horizontal, Menu
    <3> QED
      BY <3>1, <3>2
  <2>2. lastVgain' = lastVgain /\ enV' = enV
    BY <1>6 DEF Horizontal
  <2>3. /\ POT_DisableHorizontal \in Seq(Operations) /\ Idles(POT_DisableHorizontal)
        /\ POT_EnableHorizontal \in Seq(Operations) /\ Idles(POT_EnableHorizontal)
    BY QuietCalls, IdleCalls DEF Sound
  <2> QED
    BY <1>3, <2>1, <2>2, <2>3
<1>7. CASE Vertical
  <2>1. enV' = ~enV /\ lastVgain' = lastVgain
    BY <1>7 DEF Vertical
  <2>2. CASE enV
    <3>1. Call("interface", ASIC_DisableVertical(Char(lastVgain))) /\ enV' = FALSE
      BY <1>7, <2>1, <2>2 DEF Vertical, Menu
    <3>2. /\ ASIC_DisableVertical(Char(lastVgain)) \in Seq(Operations)
          /\ Ramps(ASIC_DisableVertical(Char(lastVgain)), asic, option', Char(lastVgain), FALSE)
      BY <1>1, DisableRamps, QuietCalls DEF Sound
    <3> QED
      BY <2>1, <3>1, <3>2
  <2>3. CASE ~enV
    <3>1. Call("interface", ASIC_EnableVertical(Char(lastVgain))) /\ enV' = TRUE
      BY <1>7, <2>1, <2>3 DEF Vertical, Menu
    <3>2. /\ ASIC_EnableVertical(Char(lastVgain)) \in Seq(Operations)
          /\ Ramps(ASIC_EnableVertical(Char(lastVgain)), asic, option', Char(lastVgain), TRUE)
      BY <1>1, <2>3, EnableRamps, QuietCalls DEF Sound
    <3> QED
      BY <2>1, <3>1, <3>2
  <2> QED
    BY <2>2, <2>3
<1>8. CASE Laser
  <2> DEFINE f == IF enL THEN -TIMING_CORE_EN ELSE TIMING_CORE_EN
             q == Laser_ChangeFrequency \o Locked(<<Flip(f)>>)
  <2>1. Call("interface", q) /\ lastVgain' = lastVgain /\ enV' = enV
    <3>1. (IF enL THEN TimingCore_Disable ELSE TimingCore_Enable) = Locked(<<Flip(f)>>)
      BY DEF TimingCore_Disable, TimingCore_Enable
    <3> QED
      BY <1>8, <3>1 DEF Laser, Menu
  <2>2. f \in {TIMING_CORE_EN, -TIMING_CORE_EN}
    OBVIOUS
  <2>3. q \in Seq(Operations) /\ Idles(q)
    BY <2>2, LaserIdles
  <2> HIDE DEF q
  <2> QED
    BY <1>3, <2>1, <2>3
<1>9. CASE LaserFrequency \/ VerticalLine
  <2>1. Call("interface", Locked(<<Plain>>)) /\ lastVgain' = lastVgain /\ enV' = enV
    BY <1>9 DEF LaserFrequency, VerticalLine, Menu, Laser_ChangeFrequency, UpdateVerticalPosition
  <2>2. Locked(<<Plain>>) \in Seq(Operations) /\ Idles(Locked(<<Plain>>))
    BY QuietCalls, IdleCalls DEF Sound
  <2> QED
    BY <1>3, <2>1, <2>2
<1>10. CASE AsicRegister
  <2>1. /\ Call("interface", ASIC_Read) \/ Call("interface", ASIC_Write)
        /\ lastVgain' = lastVgain /\ enV' = enV
    BY <1>10 DEF AsicRegister, Menu
  <2>2. /\ ASIC_Read \in Seq(Operations) /\ Idles(ASIC_Read)
        /\ ASIC_Write \in Seq(Operations) /\ Idles(ASIC_Write)
    BY QuietCalls, IdleCalls DEF Sound
  <2> QED
    BY <1>3, <2>1, <2>2
<1> QED
  BY <1>4, <1>5, <1>6, <1>7, <1>8, <1>9, <1>10 DEF Interface

\* Between two calls the menu's gain and enable flag are those of the ASIC.
LEMMA GainRest ==
  ASSUME Locking, AsicInv, GainInv, todo["config"] = <<>>, todo["interface"] = <<>>
  PROVE  /\ Script = <<>> /\ at["interface"] = 0
         /\ asic.gain = Char(lastVgain) % GainMod /\ asic.enables \in Bits /\ ("EV" \in asic.enables <=> enV)
<1>1. at["interface"] = 0
  <2>1. "interface" \in Threads
    BY DEF Threads
  <2>2. at["interface"] \in 0 .. 7 /\ ~(at["interface"] > 0)
    BY <2>1 DEF Locking, TypeInv
  <2> QED
    BY <2>2
<1>2. Script = <<>>
  <2>1. ~(at["interface"] >= 5)
    BY <1>1
  <2> QED
    BY <2>1 DEF Script, Left
<1>3. <<>> \in Seq(Operations) /\ Idles(<<>>)
  BY DEF Idles
<1>4. Ramps(<<>>, asic, option, Char(lastVgain), enV)
  BY <1>2 DEF GainInv
<1>5. asic.gain = Char(lastVgain) % GainMod /\ \E b \in Bits : ("EV" \in b <=> enV) /\ asic.enables = b
  <2> DEFINE z == <<>>
  <2>1. z \in Seq(Operations) /\ Idles(z) /\ Ramps(z, asic, option, Char(lastVgain), enV)
    BY <1>3, <1>4
  <2> HIDE DEF z
  <2> QED
    BY <2>1, IdleRamps
<1> QED
  BY <1>1, <1>2, <1>5

\* A call changes neither the ASIC nor, unless the menu makes it, the commands left for it.
LEMMA GainCall ==
  ASSUME Locking, AsicInv, GainInv, Interface \/ DMAStart \/ DMAEnd \/ MathAccess
  PROVE  GainInv' /\ asic' = asic
<1> DEFINE Kept == /\ NoAsic(todo["dma"]) /\ NoAsic(todo["math"])
                   /\ Ramps(Script, asic, option, Char(lastVgain), enV)
<1>1. Kept /\ todo \in [Threads -> Seq(Operations)] /\ TypeInv
  BY DEF GainInv, Locking, TypeInv
<1>2. "interface" \in Threads /\ "dma" \in Threads /\ "math" \in Threads /\ "config" \in Threads
  BY DEF Threads
<1>3. NoAsic(TDC_Enable) /\ NoAsic(TDC_Disable) /\ NoAsic(Locked(<<Plain>>))
  <2>1. NoAsic(TDC_Enable) /\ NoAsic(TDC_Disable)
    BY OtherCalls DEF NoAsic
  <2>2. NoAsic(Locked(<<Plain>>))
    <3> DEFINE op == Plain
               q == Locked(<<op>>)
    <3>1. op \in Operations /\ op.kind = "plain"
      BY DEF Operations, Plain, Op
    <3> HIDE DEF op
    <3>2. /\ Len(q) = 3 /\ q[1].kind = "lock" /\ q[2] = op /\ q[3].kind = "unlock"
      BY <3>1, OneCall
    <3> HIDE DEF q
    <3>3. \A i \in 1 .. Len(q) : i = 1 \/ i = 2 \/ i = 3
      BY <3>2
    <3>4. NoAsic(q)
      BY <3>1, <3>2, <3>3 DEF NoAsic
    <3> QED
      BY <3>4 DEF q, op
  <2> QED
    BY <2>1, <2>2
<1>4. ASSUME NEW t \in {"dma", "math"}, NEW q, Call(t, q), NoAsic(q),
             UNCHANGED menuVars
      PROVE  GainInv' /\ asic' = asic
  <2>1. /\ todo' = [todo EXCEPT ![t] = q] /\ UNCHANGED <<at, asic, option, lastVgain, enV>>
    BY <1>4 DEF Call, menuVars
  <2>2. /\ todo'["config"] = todo["config"] /\ todo'["interface"] = todo["interface"]
        /\ NoAsic(todo'["dma"]) /\ NoAsic(todo'["math"])
    BY <1>1, <1>2, <1>4, <2>1
  <2>3. Script' = Script
    BY <2>1, <2>2 DEF Script, Left
  <2> QED
    BY <1>1, <2>1, <2>2, <2>3 DEF GainInv
<1>5. CASE Shutdown
  <2>1. /\ todo["config"] = <<>> /\ todo["interface"] = <<>>
        /\ UNCHANGED <<todo, at, asic, lastVgain, enV>>
    BY <1>5 DEF Shutdown, callVars
  <2>2. /\ Script = <<>> /\ asic.gain = Char(lastVgain) % GainMod
        /\ asic.enables \in Bits /\ ("EV" \in asic.enables <=> enV)
    BY <2>1, GainRest
  <2>3. <<>> \in Seq(Operations) /\ Idles(<<>>)
    BY DEF Idles
  <2>4. Ramps(<<>>, asic, option', Char(lastVgain), enV)
    BY <2>2, <2>3, IdleRamps
  <2>5. Script' = <<>>
    BY <2>1, <2>2 DEF Script, Left
  <2> QED
    BY <1>1, <2>1, <2>4, <2>5 DEF GainInv
<1>6. CASE Interface /\ ~Shutdown
  <2>1. todo["config"] = <<>> /\ todo["interface"] = <<>>
    <3>1. PICK q : Call("interface", q)
      BY <1>1, <1>6, MenuCalls
    <3> QED
      BY <3>1 DEF Call
  <2>2. /\ Script = <<>> /\ at["interface"] = 0 /\ asic.gain = Char(lastVgain) % GainMod
        /\ asic.enables \in Bits /\ ("EV" \in asic.enables <=> enV)
    BY <2>1, GainRest
  <2>3. PICK q \in Seq(Operations) :
          Call("interface", q) /\ Ramps(q, asic, option', Char(lastVgain'), enV')
    BY <1>1, <1>6, <2>2, GainMenu
  <2>4. todo' = [todo EXCEPT !["interface"] = q] /\ UNCHANGED <<at, asic>>
    BY <2>3 DEF Call
  <2>5. /\ todo'["config"] = <<>> /\ todo'["interface"] = q
        /\ todo'["dma"] = todo["dma"] /\ todo'["math"] = todo["math"]
    BY <1>1, <1>2, <2>1, <2>4
  <2>6. Script' = q
    <3>1. ~(at'["interface"] >= 5)
      BY <2>2, <2>4
    <3> QED
      BY <2>5, <3>1 DEF Script, Left
  <2> QED
    BY <1>1, <2>3, <2>4, <2>5, <2>6 DEF GainInv
<1>7. CASE DMAStart \/ DMAEnd
  BY <1>3, <1>4, <1>7 DEF DMAStart, DMAEnd
<1>8. CASE MathAccess
  BY <1>3, <1>4, <1>8 DEF MathAccess
<1> QED
  BY <1>5, <1>6, <1>7, <1>8

\* What GainRamps says of a step.
RampedStep == /\ VerticalOn' # VerticalOn => asic.gain = 0
              /\ VerticalOn /\ VerticalOn' /\ option # 2 => Near(asic.gain, asic'.gain, Char(lastVgain))

\* Every step keeps the commands to come ramping, and is itself a permitted step.
LEMMA GainStep ==
  RegisterInv /\ RegisterInv' /\ AsicInv /\ GainInv /\ [Next]_vars
    => AsicInv' /\ GainInv' /\ [RampedStep]_vars
<1> SUFFICES ASSUME RegisterInv, RegisterInv', AsicInv, GainInv, [Next]_vars
             PROVE  AsicInv' /\ GainInv' /\ RampedStep
  OBVIOUS
<1>1. asic' = asic => AsicInv' /\ RampedStep
  <2>1. asic' = asic => VerticalOn' = VerticalOn
    BY DEF VerticalOn
  <2>2. VerticalOn \in BOOLEAN /\ VerticalOn' \in BOOLEAN
    BY DEF VerticalOn
  <2>3. asic.gain \in Int
    BY GainAssumption DEF AsicInv
  <2>4. asic' = asic => Near(asic.gain, asic'.gain, Char(lastVgain))
    BY <2>3 DEF Near
  <2> QED
    BY <2>1, <2>2, <2>4 DEF AsicInv, RampedStep
<1>2. CASE \E t \in Threads : Access(t)
  BY <1>2, GainAccess DEF RampedStep
<1>3. CASE Interface \/ DMAStart \/ DMAEnd \/ MathAccess
  BY <1>1, <1>3, GainCall DEF RegisterInv
<1>4. CASE PotReady \/ UNCHANGED vars
  <2>1. UNCHANGED <<todo, at, asic, option, lastVgain, enV>>
    BY <1>4 DEF PotReady, vars, callVars, menuVars
  <2>2. Script' = Script
    BY <2>1 DEF Script, Left
  <2> QED
    BY <1>1, <2>1, <2>2 DEF GainInv
<1> QED
  BY <1>2, <1>3, <1>4 DEF Next

\* The mirror's vertical drive is switched on and off at gain 0, whatever number the user
\* has entered, and ramped in steps of one unless option 2 jumps.  A ramp to or from a number
\* that fits the gain never wraps; one beyond it falls from full gain to none, or back
\* (AXIInterfaceClass.cpp:477-582).
THEOREM VerticalGainRamps == Spec => GainRamps
<1>1. Spec => []RegisterInv
  BY RegisterCorrect
<1>2. Spec => []AsicInv /\ []GainInv /\ [][RampedStep]_vars
  BY <1>1, GainInit, GainStep, PTL DEF Spec
<1> QED
  BY <1>2 DEF GainRamps, RampedStep
=============================================================================
