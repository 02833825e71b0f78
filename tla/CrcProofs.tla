------------------------------ MODULE CrcProofs ------------------------------
(***************************************************************************)
(* Theorems about module Crc, for every register width, byte width and set *)
(* of CRC widths: the registers keep their types, a driver that polls TC   *)
(* returns only when the shift register has come to rest, and what is in   *)
(* the register is the remainder of the bits fed to it.                    *)
(***************************************************************************)
EXTENDS Crc, SequenceTheorems, FiniteSetTheorems, TLAPS

-----------------------------------------------------------------------------
(* Words of bits. *)

\* A sequence of n bits is a word.
LEMMA SeqIsWord ==
    ASSUME NEW w \in Seq(Bit)
    PROVE  w \in Word(Len(w))
  BY LenProperties DEF Word

\* Shifting a word gives a word of the same width.
LEMMA ShiftType ==
    ASSUME NEW n \in Nat \ {0}, NEW w \in Word(n)
    PROVE  ShiftLeft(w) \in Word(n)
<1>1. w \in Seq(Bit) /\ Len(w) = n /\ w # <<>>
  BY DEF Word
<1>2. Tail(w) \in Seq(Bit) /\ Len(Tail(w)) = n - 1
  BY <1>1
<1>3. Append(Tail(w), 0) \in Seq(Bit) /\ Len(Append(Tail(w), 0)) = n
  BY <1>2 DEF Bit
<1> QED
  BY <1>3, SeqIsWord DEF ShiftLeft

\* So does adding the polynomial.
LEMMA XorType ==
    ASSUME NEW n \in Nat, NEW v \in Word(n), NEW w \in Word(n)
    PROVE  XorWords(v, w) \in Word(n)
  BY DEF Word, XorWords, Xor, Bit

\* A word written with leading zeros fills the register.
LEMMA PaddedType ==
    ASSUME NEW n \in 1 .. RegBits, NEW w \in Word(n)
    PROVE  Zeros(RegBits - n) \o w \in Word(RegBits)
<1>1. RegBits \in Nat /\ RegBits - n \in Nat /\ n \in Nat
  BY CrcAssumption
<1>2. Zeros(RegBits - n) \in Seq(Bit) /\ Len(Zeros(RegBits - n)) = RegBits - n
  BY <1>1 DEF Zeros, Bit
<1>3. w \in Seq(Bit) /\ Len(w) = n
  BY <1>1 DEF Word
<1>4. /\ Zeros(RegBits - n) \o w \in Seq(Bit)
      /\ Len(Zeros(RegBits - n) \o w) = RegBits
  BY <1>1, <1>2, <1>3
<1> QED
  BY <1>4, SeqIsWord

-----------------------------------------------------------------------------
(* The peripheral. *)

CrcType == [sreg : Word(RegBits), poly : Word(RegBits),
            size : CrcWidths \cup {RegBits}, tc : BOOLEAN,
            data : Word(ByteBits), counter : 0..ByteBits]

\* The accesses the driver makes.
Accesses == [reg : {"none", "STAT"}]
            \cup [reg : {"CTRL"}, val : CrcWidths]
            \cup [reg : {"POLY", "SREG"}, val : Word(RegBits)]
            \cup [reg : {"DATA"}, val : Word(ByteBits)]

\* The registers have their types after the reset of crc.vhd.
LEMMA ResetType == Reset \in CrcType
<1>1. RegBits \in Nat /\ ByteBits \in Nat
  BY CrcAssumption
<1>2. Zeros(RegBits) \in Word(RegBits) /\ Zeros(ByteBits) \in Word(ByteBits)
  BY <1>1 DEF Zeros, Word, Bit
<1> QED
  BY <1>1, <1>2 DEF Reset, CrcType

\* A register access leaves registers of their types.
LEMMA AccessType ==
    ASSUME crc \in CrcType, NEW b \in Accesses
    PROVE  Access(b) \in CrcType
<1>1. ByteBits - 1 \in 0 .. ByteBits
  BY CrcAssumption
<1> QED
  BY <1>1 DEF Access, Accesses, CrcType

\* So does a clock edge of the shifting unit, on whatever the access left.
LEMMA ClockedType ==
    ASSUME crc \in CrcType, NEW b \in Accesses
    PROVE  Clocked(b) \in CrcType
<1>1. Access(b) \in CrcType
  BY AccessType
<1>2. ShiftLeft(crc.data) \in Word(ByteBits) /\ ShiftLeft(crc.sreg) \in Word(RegBits)
  BY ShiftType, CrcAssumption DEF CrcType
<1>3. Shifted \in Word(RegBits)
  BY <1>2, XorType, CrcAssumption DEF Shifted, CrcType
<1>4. crc.counter > 0 => crc.counter - 1 \in 0 .. ByteBits
  BY CrcAssumption DEF CrcType
<1> QED
  BY <1>1, <1>2, <1>3, <1>4 DEF Clocked, CrcType

-----------------------------------------------------------------------------
(* Type correctness *)

\* The initial state is typed.
LEMMA InitType == Init => TypeOK
  BY ResetType DEF Init, TypeOK, CrcType

\* The size selects a part of the register.
LEMMA SizeType ==
    ASSUME TypeOK
    PROVE  crc.size \in 1 .. RegBits
<1>1. crc.size \in CrcWidths \cup {RegBits}
  BY DEF TypeOK
<1>2. RegBits \in 1 .. RegBits /\ CrcWidths \subseteq 1 .. RegBits
  BY CrcAssumption
<1> QED
  BY <1>1, <1>2

\* Every clock cycle and every step of crc_init, crc_write and crc_get
\* keeps the types.
LEMMA NextType == TypeOK /\ [Next]_vars => TypeOK'
<1> SUFFICES ASSUME TypeOK, [Next]_vars PROVE TypeOK'
  OBVIOUS
<1>0. crc \in CrcType /\ crc.size \in 1 .. RegBits
  BY SizeType DEF TypeOK, CrcType
<1>1. CASE NoBus
  <2>1. NoAccess \in Accesses
    BY DEF NoAccess, Accesses
  <2> QED
    BY <1>0, <1>1, <2>1, ClockedType DEF NoBus, Cycle, TypeOK, CrcType
<1>2. CASE InitCtrl
  <2>1. PICK n \in CrcWidths : crc' = Clocked([reg |-> "CTRL", val |-> n])
    BY <1>2 DEF InitCtrl
  <2>2. [reg |-> "CTRL", val |-> n] \in Accesses
    BY DEF Accesses
  <2> QED
    BY <1>0, <1>2, <2>1, <2>2, ClockedType DEF InitCtrl, TypeOK, CrcType
<1>3. CASE InitPoly
  <2>1. PICK w \in Word(crc.size) :
           crc' = Clocked([reg |-> "POLY", val |-> Zeros(RegBits - crc.size) \o w])
    BY <1>3 DEF InitPoly, Cycle
  <2>2. [reg |-> "POLY", val |-> Zeros(RegBits - crc.size) \o w] \in Accesses
    BY <1>0, PaddedType DEF Accesses
  <2> QED
    BY <1>0, <1>3, <2>1, <2>2, ClockedType DEF InitPoly, TypeOK, CrcType
<1>4. CASE InitSreg
  <2>1. PICK w \in Word(crc.size) :
           crc' = Clocked([reg |-> "SREG", val |-> Zeros(RegBits - crc.size) \o w])
    BY <1>4 DEF InitSreg, Cycle
  <2>2. [reg |-> "SREG", val |-> Zeros(RegBits - crc.size) \o w] \in Accesses
    BY <1>0, PaddedType DEF Accesses
  <2> QED
    BY <1>0, <1>4, <2>1, <2>2, ClockedType DEF InitSreg, TypeOK, CrcType
<1>5. CASE WriteData
  <2>1. PICK w \in Word(ByteBits) : crc' = Clocked([reg |-> "DATA", val |-> w])
    BY <1>5 DEF WriteData, Cycle
  <2>2. [reg |-> "DATA", val |-> w] \in Accesses
    BY DEF Accesses
  <2> QED
    BY <1>0, <1>5, <2>1, <2>2, ClockedType DEF WriteData, TypeOK, CrcType
<1>6. CASE PollTc
  <2>1. [reg |-> "STAT"] \in Accesses
    BY DEF Accesses
  <2> QED
    BY <1>0, <1>6, <2>1, ClockedType DEF PollTc, Cycle, TypeOK, CrcType
<1>7. CASE SReset
  BY <1>7, ResetType DEF SReset, TypeOK, CrcType
<1>8. CASE UNCHANGED vars
  BY <1>8 DEF vars, TypeOK
<1> QED
  BY <1>1, <1>2, <1>3, <1>4, <1>5, <1>6, <1>7, <1>8 DEF Next

\* The registers of the CRC unit keep their types; the bit counter stays in
\* the range crc.vhd declares for it, whatever the driver writes.
THEOREM TypeCorrect == Spec => []TypeOK
  BY InitType, NextType, PTL DEF Spec

-----------------------------------------------------------------------------
(* A driver that has returned leaves the unit at rest. *)

\* Outside crc_write nothing is shifted.  Within it TC may still be set from
\* before while bits are outstanding, but only in the cycle after the write,
\* when the hart cannot poll.
SettledInv ==
    /\ TypeOK
    /\ pc # "poll" => crc.counter = 0
    /\ crc.tc /\ crc.counter > 0 => holding

\* What a clock edge does to the counter and to TC.
LEMMA ClockedCounter ==
    ASSUME TypeOK, NEW b \in Accesses
    PROVE  /\ crc.counter > 0 => ~Clocked(b).tc
           /\ crc.counter = 0 /\ b.reg # "DATA" => Clocked(b).counter = 0
<1>1. crc \in CrcType /\ Access(b) \in CrcType
  BY AccessType DEF TypeOK, CrcType
<1>2. crc.counter > 0 => ~Clocked(b).tc
  BY <1>1 DEF Clocked, CrcType
<1>3. b.reg # "DATA" => Access(b).counter = crc.counter
  BY <1>1 DEF Access, Accesses, CrcType
<1>4. crc.counter = 0 => Clocked(b).counter = Access(b).counter
  BY <1>1 DEF Clocked, CrcType
<1> QED
  BY <1>2, <1>3, <1>4

\* The unit starts at rest.
LEMMA SettledInit == Init => SettledInv
  BY InitType DEF Init, Reset, SettledInv

\* Every step keeps the invariant: a byte written starts the shifting, the
\* poll that sees TC ends it.
LEMMA SettledNext == SettledInv /\ [Next]_vars => SettledInv'
<1> SUFFICES ASSUME SettledInv, [Next]_vars PROVE SettledInv'
  OBVIOUS
<1>t. TypeOK /\ TypeOK'
  BY NextType DEF SettledInv
<1>c. crc.counter \in Nat /\ crc'.counter \in Nat /\ crc.size \in 1 .. RegBits
  BY <1>t, SizeType, CrcAssumption DEF TypeOK
<1>1. CASE NoBus
  <2>1. NoAccess \in Accesses /\ NoAccess.reg # "DATA"
    BY DEF NoAccess, Accesses
  <2> QED
    BY <1>t, <1>c, <1>1, <2>1, ClockedCounter DEF NoBus, Cycle, SettledInv
<1>2. CASE InitCtrl
  <2>1. PICK n \in CrcWidths : crc' = Clocked([reg |-> "CTRL", val |-> n])
    BY <1>2 DEF InitCtrl
  <2>2. [reg |-> "CTRL", val |-> n] \in Accesses
    BY DEF Accesses
  <2> QED
    BY <1>t, <1>c, <1>2, <2>1, <2>2, ClockedCounter DEF InitCtrl, SettledInv
<1>3. CASE InitPoly
  <2>1. PICK w \in Word(crc.size) :
           crc' = Clocked([reg |-> "POLY", val |-> Zeros(RegBits - crc.size) \o w])
    BY <1>3 DEF InitPoly, Cycle
  <2>2. [reg |-> "POLY", val |-> Zeros(RegBits - crc.size) \o w] \in Accesses
    BY <1>c, PaddedType DEF Accesses
  <2> QED
    BY <1>t, <1>c, <1>3, <2>1, <2>2, ClockedCounter DEF InitPoly, SettledInv
<1>4. CASE InitSreg
  <2>1. PICK w \in Word(crc.size) :
           crc' = Clocked([reg |-> "SREG", val |-> Zeros(RegBits - crc.size) \o w])
    BY <1>4 DEF InitSreg, Cycle
  <2>2. [reg |-> "SREG", val |-> Zeros(RegBits - crc.size) \o w] \in Accesses
    BY <1>c, PaddedType DEF Accesses
  <2> QED
    BY <1>t, <1>c, <1>4, <2>1, <2>2, ClockedCounter DEF InitSreg, SettledInv
<1>5. CASE WriteData
  BY <1>t, <1>c, <1>5 DEF WriteData, SettledInv
<1>6. CASE PollTc
  <2>1. [reg |-> "STAT"] \in Accesses
    BY DEF Accesses
  <2>2. ~(crc.tc /\ crc.counter > 0)
    BY <1>6 DEF PollTc, MayAccess, SettledInv
  <2>3. CASE crc.counter = 0
    BY <1>t, <1>c, <1>6, <2>1, <2>3, ClockedCounter DEF PollTc, Cycle, SettledInv
  <2>4. CASE crc.counter > 0
    BY <1>t, <1>c, <1>6, <2>1, <2>2, <2>4, ClockedCounter DEF PollTc, Cycle, SettledInv
  <2> QED
    BY <1>c, <2>3, <2>4
<1>7. CASE SReset
  BY <1>t, <1>7 DEF SReset, Reset, SettledInv
<1>8. CASE UNCHANGED vars
  BY <1>t, <1>8 DEF vars, SettledInv
<1> QED
  BY <1>1, <1>2, <1>3, <1>4, <1>5, <1>6, <1>7, <1>8 DEF Next

\* When crc_write returns no shift is outstanding: the TC it has seen is that
\* of its own byte, for bytes of any width.
THEOREM ReturnedSettled == Spec => []ReturnedIsSettled
<1>1. SettledInv => ReturnedIsSettled
  BY DEF SettledInv, ReturnedIsSettled
<1> QED
  BY <1>1, SettledInit, SettledNext, PTL DEF Spec

-----------------------------------------------------------------------------
(* Division: a function defined by recursion over the places. *)

\* A set of natural numbers that is not empty has a least element: what the
\* inductions below over the length of a message rest on.
LEMMA NatMin ==
    ASSUME NEW T \in SUBSET Nat, T # {}
    PROVE  \E x \in T : \A y \in T : x <= y
<1> DEFINE R == {ss \in Nat \X Nat : ss[1] < ss[2]}
<1>1. IsWellFoundedOn(R, Nat)
  BY NatLessThanWellFounded DEF OpToRel
<1>2. PICK x \in T : \A y \in T : <<y, x>> \notin R
  <2> HIDE DEF R
  <2> QED
    BY <1>1, WFMin
<1>3. \A y \in T : ~(y < x)
  BY <1>2
<1> QED
  BY <1>3

\* h is the division of d over the first k places.
IsRun(h, poly, d, k) ==
    h = [i \in 0 .. k |-> IF i = 0 THEN d ELSE Subtract(poly, h[i - 1], i)]

\* The division can be carried as far as one likes.
LEMMA RunsExist ==
    ASSUME NEW poly, NEW d, NEW n \in Nat
    PROVE  \E h : IsRun(h, poly, d, n)
<1> DEFINE T == {k \in Nat : ~\E h : IsRun(h, poly, d, k)}
<1>1. SUFFICES ASSUME T # {} PROVE FALSE
  OBVIOUS
<1>2. T \in SUBSET Nat
  OBVIOUS
<1>3. PICK k \in T : \A j \in T : k <= j
  <2> HIDE DEF T
  <2> QED
    BY <1>1, <1>2, NatMin
<1>4. CASE k = 0
  <2> DEFINE h == [i \in 0 .. 0 |-> d]
  <2>1. h = [i \in 0 .. 0 |-> IF i = 0 THEN d ELSE Subtract(poly, h[i - 1], i)]
    OBVIOUS
  <2>2. IsRun(h, poly, d, 0)
    BY <2>1 DEF IsRun
  <2> QED
    BY <1>3, <1>4, <2>2
<1>5. CASE k # 0
  <2>1. k - 1 \in Nat /\ k - 1 \notin T
    BY <1>3, <1>5
  <2>2. PICK h : IsRun(h, poly, d, k - 1)
    BY <2>1
  <2> DEFINE g == [i \in 0 .. k |-> IF i < k THEN h[i] ELSE Subtract(poly, h[k - 1], k)]
  <2>3. ASSUME NEW i \in 0 .. k
        PROVE  g[i] = IF i = 0 THEN d ELSE Subtract(poly, g[i - 1], i)
    <3>1. i # 0 => i - 1 \in 0 .. k - 1 /\ i - 1 \in 0 .. k /\ i - 1 < k
      BY <2>1
    <3>2. i # 0 => g[i - 1] = h[i - 1]
      BY <3>1
    <3>3. CASE i < k
      <4>1. i \in 0 .. k - 1
        BY <2>1, <3>3
      <4>2. h[i] = IF i = 0 THEN d ELSE Subtract(poly, h[i - 1], i)
        BY <2>2, <4>1 DEF IsRun
      <4> QED
        BY <3>2, <3>3, <4>2
    <3>4. CASE ~(i < k)
      <4>1. i = k
        BY <2>1, <3>4
      <4> QED
        BY <1>5, <3>2, <4>1
    <3> QED
      BY <3>3, <3>4
  <2>4. g = [i \in 0 .. k |-> IF i = 0 THEN d ELSE Subtract(poly, g[i - 1], i)]
    BY <2>3
  <2>5. IsRun(g, poly, d, k)
    BY <2>4 DEF IsRun
  <2> QED
    BY <1>3, <2>5
<1> QED
  BY <1>4, <1>5

\* And in one way only.
LEMMA RunsAgree ==
    ASSUME NEW poly, NEW d, NEW m \in Nat, NEW n \in Nat, NEW g, NEW h,
           IsRun(g, poly, d, m), IsRun(h, poly, d, n),
           NEW k \in Nat, k <= m, k <= n
    PROVE  g[k] = h[k]
<1> DEFINE T == {i \in Nat : i <= m /\ i <= n /\ g[i] # h[i]}
<1>1. SUFFICES ASSUME T # {} PROVE FALSE
  OBVIOUS
<1>2. T \in SUBSET Nat
  OBVIOUS
<1>3. PICK i \in T : \A j \in T : i <= j
  <2> HIDE DEF T
  <2> QED
    BY <1>1, <1>2, NatMin
<1>4. i \in 0 .. m /\ i \in 0 .. n
  BY <1>3
<1>5. /\ g[i] = IF i = 0 THEN d ELSE Subtract(poly, g[i - 1], i)
      /\ h[i] = IF i = 0 THEN d ELSE Subtract(poly, h[i - 1], i)
  BY <1>4 DEF IsRun
<1>6. i # 0 => i - 1 \in Nat /\ i - 1 \notin T
  BY <1>3
<1>7. i # 0 => g[i - 1] = h[i - 1]
  BY <1>3, <1>6
<1> QED
  BY <1>3, <1>5, <1>7

\* Division is the function its equation describes.
LEMMA DivisionIs ==
    ASSUME NEW poly, NEW d
    PROVE  /\ Division(poly, d)[0] = d
           /\ \A k \in Nat :
                  Division(poly, d)[k + 1] = Subtract(poly, Division(poly, d)[k], k + 1)
<1> DEFINE run(k) == CHOOSE h : IsRun(h, poly, d, k)
           g == [k \in Nat |-> run(k)[k]]
<1>1. \A k \in Nat : IsRun(run(k), poly, d, k)
  BY RunsExist
<1>2. ASSUME NEW k \in Nat
      PROVE  g[k] = IF k = 0 THEN d ELSE Subtract(poly, g[k - 1], k)
  <2>1. run(k)[k] = IF k = 0 THEN d ELSE Subtract(poly, run(k)[k - 1], k)
    <3>1. IsRun(run(k), poly, d, k) /\ k \in 0 .. k
      BY <1>1
    <3> HIDE DEF run
    <3> QED
      BY <3>1 DEF IsRun
  <2>2. k # 0 => run(k)[k - 1] = run(k - 1)[k - 1]
    <3>1. k # 0 => k - 1 \in Nat /\ k - 1 <= k /\ k - 1 <= k - 1
      OBVIOUS
    <3>2. k # 0 => IsRun(run(k), poly, d, k) /\ IsRun(run(k - 1), poly, d, k - 1)
      BY <1>1, <3>1
    <3> HIDE DEF run
    <3> QED
      BY <3>1, <3>2, RunsAgree
  <2>3. k # 0 => k - 1 \in Nat
    OBVIOUS
  <2> HIDE DEF run
  <2> QED
    BY <2>1, <2>2, <2>3
<1>3. g = [k \in Nat |-> IF k = 0 THEN d ELSE Subtract(poly, g[k - 1], k)]
  <2> HIDE DEF run
  <2> QED
    BY <1>2
<1>4. \E f : f = [k \in Nat |-> IF k = 0 THEN d ELSE Subtract(poly, f[k - 1], k)]
  <2> HIDE DEF g
  <2> QED
    BY <1>3
<1> DEFINE f == Division(poly, d)
<1>5. f = [k \in Nat |-> IF k = 0 THEN d ELSE Subtract(poly, f[k - 1], k)]
  BY <1>4 DEF Division
<1> HIDE DEF f
<1>6. f[0] = d
  BY <1>5
<1>7. ASSUME NEW k \in Nat PROVE f[k + 1] = Subtract(poly, f[k], k + 1)
  <2>1. k + 1 \in Nat /\ k + 1 # 0 /\ (k + 1) - 1 = k
    OBVIOUS
  <2>2. f[k + 1] = Subtract(poly, f[(k + 1) - 1], k + 1)
    BY <1>5, <2>1
  <2> QED
    BY <2>1, <2>2
<1> QED
  BY <1>6, <1>7 DEF f

-----------------------------------------------------------------------------
(* The division of a message that is one bit longer. *)

\* The dividend is as long as the message and the polynomial together.
LEMMA DividendIs ==
    ASSUME NEW n \in Nat \ {0}, NEW m \in Seq(Bit), NEW p \in Word(n), NEW s \in Word(n)
    PROVE  LET e == Dividend(m, p, s) IN
           /\ e \in Word(Len(m) + n)
           /\ \A i \in 1 .. Len(m) + n :
                  e[i] = Xor(IF i <= Len(m) THEN m[i] ELSE 0, IF i <= n THEN s[i] ELSE 0)
<1> DEFINE x == m \o Zeros(n)
<1>1. Zeros(n) \in Seq(Bit) /\ Len(Zeros(n)) = n /\ \A i \in 1 .. n : Zeros(n)[i] = 0
  BY DEF Zeros, Bit
<1>2. p \in Seq(Bit) /\ Len(p) = n
  BY DEF Word
<1>3. Len(m) \in Nat
  OBVIOUS
<1>4. /\ x \in Seq(Bit) /\ Len(x) = Len(m) + n /\ DOMAIN x = 1 .. Len(m) + n
      /\ \A i \in 1 .. Len(m) + n : x[i] = IF i <= Len(m) THEN m[i] ELSE Zeros(n)[i - Len(m)]
  BY <1>1, <1>3
<1>5. \A i \in 1 .. Len(m) + n : x[i] = (IF i <= Len(m) THEN m[i] ELSE 0) /\ x[i] \in Bit
  BY <1>1, <1>3, <1>4
<1>6. Dividend(m, p, s) = [i \in 1 .. Len(m) + n |-> IF i <= n THEN Xor(x[i], s[i]) ELSE x[i]]
  BY <1>2, <1>4 DEF Dividend
<1>7. \A i \in 1 .. Len(m) + n : x[i] = Xor(x[i], 0)
  BY <1>5 DEF Xor, Bit
<1> HIDE DEF x
<1>8. \A i \in 1 .. Len(m) + n :
          Dividend(m, p, s)[i] = Xor(IF i <= Len(m) THEN m[i] ELSE 0, IF i <= n THEN s[i] ELSE 0)
  BY <1>5, <1>6, <1>7
<1>9. Dividend(m, p, s) \in Word(Len(m) + n)
  BY <1>5, <1>6 DEF Word, Xor, Bit
<1> QED
  BY <1>8, <1>9

\* A step of the division keeps the length.
LEMMA SubtractType ==
    ASSUME NEW l \in Nat, NEW e \in Word(l), NEW p, NEW k \in Nat
    PROVE  Subtract(p, e, k) \in Word(l)
  BY DEF Subtract, Word, Xor, Bit

\* So does the whole division.
LEMMA DivisionType ==
    ASSUME NEW l \in Nat, NEW e \in Word(l), NEW p, NEW n \in Nat
    PROVE  Division(p, e)[n] \in Word(l)
<1> DEFINE T == {k \in Nat : Division(p, e)[k] \notin Word(l)}
<1>1. SUFFICES ASSUME T # {} PROVE FALSE
  OBVIOUS
<1>2. PICK k \in T : \A j \in T : k <= j
  <2>1. T \in SUBSET Nat
    OBVIOUS
  <2> HIDE DEF T
  <2> QED
    BY <1>1, <2>1, NatMin
<1>3. k # 0
  BY <1>2, DivisionIs
<1>4. k - 1 \in Nat /\ k - 1 \notin T /\ (k - 1) + 1 = k
  BY <1>2, <1>3
<1>5. Division(p, e)[k - 1] \in Word(l)
  BY <1>4
<1>6. Division(p, e)[k] = Subtract(p, Division(p, e)[k - 1], k)
  BY <1>4, DivisionIs
<1> QED
  BY <1>2, <1>5, <1>6, SubtractType

\* A dividend for one more bit b of the message, which is behind the first k.
Longer(e, k, n, b) ==
    [i \in 1 .. (k + 1) + n |-> IF i = k + 1 THEN Xor(e[i], b)
                                ELSE IF i = (k + 1) + n THEN 0 ELSE e[i]]

\* Adding the bit to the message adds it to the dividend.
LEMMA LongerDividend ==
    ASSUME NEW n \in Nat \ {0}, NEW m \in Seq(Bit), NEW p \in Word(n), NEW s \in Word(n),
           NEW b \in Bit
    PROVE  Dividend(Append(m, b), p, s) = Longer(Dividend(m, p, s), Len(m), n, b)
<1> DEFINE k == Len(m)
           a == Append(m, b)
           e == Dividend(m, p, s)
           f == Dividend(a, p, s)
<1>0. k \in Nat
  OBVIOUS
<1>1. a \in Seq(Bit) /\ Len(a) = k + 1 /\ \A i \in 1 .. k + 1 : a[i] = IF i <= k THEN m[i] ELSE b
  OBVIOUS
<1>2. \A i \in 1 .. k + n : e[i] = Xor(IF i <= k THEN m[i] ELSE 0, IF i <= n THEN s[i] ELSE 0)
  BY DividendIs
<1>3. /\ f \in Word((k + 1) + n)
      /\ \A i \in 1 .. (k + 1) + n :
             f[i] = Xor(IF i <= k + 1 THEN a[i] ELSE 0, IF i <= n THEN s[i] ELSE 0)
  <2> HIDE DEF a, k, f
  <2>1. /\ Dividend(a, p, s) \in Word(Len(a) + n)
        /\ \A i \in 1 .. Len(a) + n :
               Dividend(a, p, s)[i] = Xor(IF i <= Len(a) THEN a[i] ELSE 0, IF i <= n THEN s[i] ELSE 0)
    BY <1>1, DividendIs
  <2> QED
    BY <1>1, <2>1 DEF f
<1>4. \A i \in 1 .. k : m[i] \in Bit
  OBVIOUS
<1>5. \A i \in 1 .. n : s[i] \in Bit
  BY DEF Word
<1> HIDE DEF a, k, e, f
<1>6. ASSUME NEW i \in 1 .. (k + 1) + n
      PROVE  f[i] = IF i = k + 1 THEN Xor(e[i], b) ELSE IF i = (k + 1) + n THEN 0 ELSE e[i]
  <2>1. CASE i <= k
    <3>1. i \in 1 .. k + n /\ i \in 1 .. k + 1 /\ i # k + 1 /\ i # (k + 1) + n
      BY <1>0, <2>1
    <3> QED
      BY <1>0, <1>1, <1>2, <1>3, <2>1, <3>1
  <2>2. CASE i = k + 1
    <3>1. i \in 1 .. k + n /\ i \in 1 .. k + 1 /\ ~(i <= k)
      BY <1>0, <2>2
    <3>2. f[i] = Xor(b, IF i <= n THEN s[i] ELSE 0) /\ e[i] = Xor(0, IF i <= n THEN s[i] ELSE 0)
      BY <1>0, <1>1, <1>2, <1>3, <2>2, <3>1
    <3>3. (IF i <= n THEN s[i] ELSE 0) \in Bit
      BY <1>5, <3>1 DEF Bit
    <3> QED
      BY <2>2, <3>2, <3>3 DEF Xor, Bit
  <2>3. CASE i = (k + 1) + n
    BY <1>0, <1>3, <2>3 DEF Xor
  <2>4. CASE i > k + 1 /\ i # (k + 1) + n
    <3>1. i \in 1 .. k + n
      BY <1>0, <2>4
    <3> QED
      BY <1>0, <1>2, <1>3, <2>4, <3>1
  <2> QED
    BY <1>0, <2>1, <2>2, <2>3, <2>4
<1>7. f = [i \in 1 .. (k + 1) + n |-> f[i]]
  BY <1>3 DEF Word
<1>8. f = [i \in 1 .. (k + 1) + n |-> IF i = k + 1 THEN Xor(e[i], b)
                                       ELSE IF i = (k + 1) + n THEN 0 ELSE e[i]]
  BY <1>6, <1>7
<1> QED
  BY <1>8 DEF Longer, f, e, a, k

\* The places the division has not come to are not touched by the steps
\* before, so the added bit is still there when its turn comes.
LEMMA LongerSubtract ==
    ASSUME NEW n \in Nat \ {0}, NEW k \in Nat, NEW e \in Word(k + n), NEW p \in Word(n),
           NEW b \in Bit, NEW j \in 1 .. k
    PROVE  Subtract(p, Longer(e, k, n, b), j) = Longer(Subtract(p, e, j), k, n, b)
<1> DEFINE g == Longer(e, k, n, b)
<1>1. Len(p) = n /\ \A i \in 1 .. n : p[i] \in Bit
  BY DEF Word
<1>2. DOMAIN e = 1 .. k + n /\ DOMAIN g = 1 .. (k + 1) + n /\ \A i \in 1 .. k + n : e[i] \in Bit
  BY DEF Word, Longer
<1>3. g[j] = e[j] /\ \A i \in 1 .. (k + 1) + n :
                        g[i] = IF i = k + 1 THEN Xor(e[i], b) ELSE IF i = (k + 1) + n THEN 0 ELSE e[i]
  BY DEF Longer
<1> HIDE DEF g
<1>4. CASE e[j] = 0
  BY <1>3, <1>4 DEF Subtract, g
<1>5. CASE e[j] # 0
  <2> DEFINE u == Subtract(p, g, j)
             v == Subtract(p, e, j)
  <2>1. u = [i \in 1 .. (k + 1) + n |->
                IF i = j THEN 0 ELSE IF i \in j + 1 .. j + n THEN Xor(g[i], p[i - j]) ELSE g[i]]
    BY <1>1, <1>2, <1>3, <1>5 DEF Subtract
  <2>2. v = [i \in 1 .. k + n |->
                IF i = j THEN 0 ELSE IF i \in j + 1 .. j + n THEN Xor(e[i], p[i - j]) ELSE e[i]]
    BY <1>1, <1>2, <1>5 DEF Subtract
  <2> HIDE DEF u, v
  <2>3. ASSUME NEW i \in 1 .. (k + 1) + n
        PROVE  u[i] = IF i = k + 1 THEN Xor(v[i], b) ELSE IF i = (k + 1) + n THEN 0 ELSE v[i]
    <3>1. CASE i = k + 1
      <4>1. i \in 1 .. k + n /\ i # j
        BY <3>1
      <4>2. i \in j + 1 .. j + n => i - j \in 1 .. n
        OBVIOUS
      <4>3. /\ g[i] = Xor(e[i], b)
            /\ u[i] = IF i \in j + 1 .. j + n THEN Xor(g[i], p[i - j]) ELSE g[i]
            /\ v[i] = IF i \in j + 1 .. j + n THEN Xor(e[i], p[i - j]) ELSE e[i]
        BY <1>3, <2>1, <2>2, <3>1, <4>1
      <4>4. e[i] \in Bit /\ (i \in j + 1 .. j + n => p[i - j] \in Bit)
        BY <1>1, <1>2, <4>1, <4>2
      <4> QED
        BY <3>1, <4>3, <4>4 DEF Xor, Bit
    <3>2. CASE i = (k + 1) + n
      <4>1. i # j /\ i \notin j + 1 .. j + n /\ i # k + 1
        BY <3>2
      <4> QED
        BY <1>3, <2>1, <3>2, <4>1
    <3>3. CASE i # k + 1 /\ i # (k + 1) + n
      <4>1. i \in 1 .. k + n
        BY <3>3
      <4> QED
        BY <1>3, <2>1, <2>2, <3>3, <4>1
    <3> QED
      BY <3>1, <3>2, <3>3
  <2>4. u = [i \in 1 .. (k + 1) + n |-> u[i]]
    BY <2>1
  <2>5. u = [i \in 1 .. (k + 1) + n |-> IF i = k + 1 THEN Xor(v[i], b)
                                         ELSE IF i = (k + 1) + n THEN 0 ELSE v[i]]
    BY <2>3, <2>4
  <2> QED
    BY <2>5 DEF u, v, Longer, g
<1> QED
  BY <1>4, <1>5

\* So for the whole division of the message without it.
LEMMA LongerDivision ==
    ASSUME NEW n \in Nat \ {0}, NEW k \in Nat, NEW e \in Word(k + n), NEW p \in Word(n),
           NEW b \in Bit, NEW q \in 0 .. k
    PROVE  Division(p, Longer(e, k, n, b))[q] = Longer(Division(p, e)[q], k, n, b)
<1> DEFINE T == {j \in 0 .. k :
                    Division(p, Longer(e, k, n, b))[j] # Longer(Division(p, e)[j], k, n, b)}
<1>1. SUFFICES ASSUME T # {} PROVE FALSE
  OBVIOUS
<1>2. PICK j \in T : \A i \in T : j <= i
  <2>1. T \in SUBSET Nat
    OBVIOUS
  <2> HIDE DEF T
  <2> QED
    BY <1>1, <2>1, NatMin
<1>3. j # 0
  <2>1. Division(p, Longer(e, k, n, b))[0] = Longer(e, k, n, b) /\ Division(p, e)[0] = e
    BY DivisionIs
  <2> QED
    BY <1>2, <2>1
<1>4. j \in 1 .. k /\ j - 1 \in Nat /\ j - 1 \in 0 .. k /\ j - 1 \notin T /\ (j - 1) + 1 = j
  BY <1>2, <1>3
<1>5. Division(p, Longer(e, k, n, b))[j - 1] = Longer(Division(p, e)[j - 1], k, n, b)
  BY <1>4
<1>6. Division(p, e)[j - 1] \in Word(k + n)
  BY <1>4, DivisionType
<1>7. /\ Division(p, e)[j] = Subtract(p, Division(p, e)[j - 1], j)
      /\ Division(p, Longer(e, k, n, b))[j] = Subtract(p, Division(p, Longer(e, k, n, b))[j - 1], j)
  BY <1>4, DivisionIs
<1> QED
  BY <1>2, <1>4, <1>5, <1>6, <1>7, LongerSubtract

\* The n low bits of a word.
LEMMA LowBitsIs ==
    ASSUME NEW l \in Nat, NEW w \in Word(l), NEW n \in 1 .. l
    PROVE  /\ LowBits(w, n) \in Word(n)
           /\ \A i \in 1 .. n : LowBits(w, n)[i] = w[l - n + i]
<1>1. w \in Seq(Bit) /\ Len(w) = l
  BY DEF Word
<1>2. l - n + 1 \in 1 .. l /\ l \in 1 .. l
  OBVIOUS
<1>3. /\ Len(LowBits(w, n)) = n /\ LowBits(w, n) \in Seq(Bit)
      /\ \A i \in 1 .. n : LowBits(w, n)[i] = w[l - n + i]
  BY <1>1, <1>2, SubSeqProperties DEF LowBits
<1> QED
  BY <1>3, SeqIsWord

\* The CRC of no message is the start value.
LEMMA CrcOfNothing ==
    ASSUME NEW n \in Nat \ {0}, NEW p \in Word(n), NEW s \in Word(n)
    PROVE  CrcOf(<<>>, p, s) = s
<1>e. <<>> \in Seq(Bit)
  OBVIOUS
<1>0. PICK m \in Seq(Bit) : m = <<>>
  BY <1>e
<1>1. Len(m) = 0 /\ Len(p) = n
  BY <1>0 DEF Word
<1> DEFINE e == Dividend(m, p, s)
<1>2. /\ e \in Word(Len(m) + n)
      /\ \A i \in 1 .. Len(m) + n :
             e[i] = Xor(IF i <= Len(m) THEN m[i] ELSE 0, IF i <= n THEN s[i] ELSE 0)
  BY DividendIs
<1>3. e \in Word(n) /\ \A i \in 1 .. n : e[i] = s[i]
  <2>1. \A i \in 1 .. n : e[i] = Xor(0, s[i]) /\ s[i] \in Bit
    BY <1>1, <1>2 DEF Word
  <2> QED
    BY <1>1, <1>2, <2>1 DEF Xor, Bit
<1> HIDE DEF e
<1>4. LowBits(e, n) \in Word(n) /\ \A i \in 1 .. n : LowBits(e, n)[i] = s[i]
  <2>1. n \in Nat /\ n \in 1 .. n /\ \A i \in 1 .. n : n - n + i = i
    OBVIOUS
  <2>2. /\ LowBits(e, n) \in Word(n)
        /\ \A i \in 1 .. n : LowBits(e, n)[i] = e[n - n + i]
    BY <1>3, <2>1, LowBitsIs
  <2> QED
    BY <1>3, <2>1, <2>2
<1>5. CrcOf(m, p, s) = LowBits(e, n)
  BY <1>1, DivisionIs DEF CrcOf, e
<1> QED
  BY <1>0, <1>4, <1>5 DEF Word

\* One more bit moves the CRC up by a place; if the bit that leaves it
\* differs from the new bit of the message the polynomial is added.
LEMMA CrcOfOneMore ==
    ASSUME NEW n \in Nat \ {0}, NEW m \in Seq(Bit), NEW p \in Word(n), NEW s \in Word(n),
           NEW b \in Bit
    PROVE  CrcOf(Append(m, b), p, s)
             = [i \in 1 .. n |-> LET c == CrcOf(m, p, s)
                                     u == IF i < n THEN c[i + 1] ELSE 0
                                 IN  IF c[1] # b THEN Xor(u, p[i]) ELSE u]
<1> DEFINE k == Len(m)
           a == Append(m, b)
           e == Dividend(m, p, s)
           d == Division(p, e)[k]
           f == Subtract(p, Longer(d, k, n, b), k + 1)
           c == CrcOf(m, p, s)
           up(i) == IF i < n THEN c[i + 1] ELSE 0
<1>0. k \in Nat /\ Len(a) = k + 1 /\ Len(p) = n /\ a \in Seq(Bit)
  BY DEF Word
<1>1. e \in Word(k + n)
  BY DividendIs
<1>2. d \in Word(k + n)
  BY <1>0, <1>1, DivisionType
<1>3. c = LowBits(d, n)
  BY <1>0 DEF CrcOf
<1>4. CrcOf(a, p, s) = LowBits(f, n)
  <2>1. Dividend(a, p, s) = Longer(e, k, n, b)
    BY LongerDividend
  <2>2. Division(p, Longer(e, k, n, b))[k] = Longer(d, k, n, b)
    BY <1>0, <1>1, LongerDivision
  <2>3. Division(p, Longer(e, k, n, b))[k + 1] = f
    BY <1>0, <2>2, DivisionIs
  <2> QED
    BY <1>0, <2>1, <2>3 DEF CrcOf
<1> HIDE DEF k, a, e, d, c
<1>5. c \in Word(n) /\ \A i \in 1 .. n : c[i] = d[k + i]
  <2>1. k + n \in Nat /\ n \in 1 .. k + n /\ \A i \in 1 .. n : (k + n) - n + i = k + i
    BY <1>0
  <2>2. LowBits(d, n) \in Word(n) /\ \A i \in 1 .. n : LowBits(d, n)[i] = d[(k + n) - n + i]
    BY <1>2, <2>1, LowBitsIs
  <2> QED
    BY <1>3, <2>1, <2>2
<1> DEFINE g == Longer(d, k, n, b)
<1>6. /\ g \in Word((k + 1) + n)
      /\ g[k + 1] = Xor(c[1], b)
      /\ \A i \in 1 .. n : g[k + 1 + i] = up(i)
  <2>1. \A i \in 1 .. k + n : d[i] \in Bit
    BY <1>2 DEF Word
  <2>2. g \in Word((k + 1) + n)
    BY <1>0, <2>1 DEF Longer, Word, Xor, Bit
  <2>3. g[k + 1] = Xor(c[1], b)
    BY <1>0, <1>5 DEF Longer
  <2>4. ASSUME NEW i \in 1 .. n PROVE g[k + 1 + i] = up(i)
    <3>1. CASE i < n
      <4>1. i + 1 \in 1 .. n /\ k + (i + 1) = k + 1 + i /\ k + 1 + i \in 1 .. (k + 1) + n
            /\ k + 1 + i # k + 1 /\ k + 1 + i # (k + 1) + n
        BY <1>0, <3>1
      <4>2. c[i + 1] = d[k + 1 + i]
        BY <1>5, <4>1
      <4> QED
        BY <3>1, <4>1, <4>2 DEF Longer
    <3>2. CASE i = n
      <4>1. k + 1 + i = (k + 1) + n /\ (k + 1) + n \in 1 .. (k + 1) + n /\ (k + 1) + n # k + 1
        BY <1>0, <3>2
      <4> QED
        BY <3>2, <4>1 DEF Longer
    <3> QED
      BY <3>1, <3>2
  <2> QED
    BY <2>2, <2>3, <2>4
<1> HIDE DEF g
<1>7. /\ f \in Word((k + 1) + n)
      /\ \A i \in 1 .. n : f[k + 1 + i] = IF c[1] # b THEN Xor(up(i), p[i]) ELSE up(i)
  <2>1. f \in Word((k + 1) + n)
    BY <1>0, <1>6, SubtractType DEF g
  <2>2. c[1] \in Bit
    BY <1>5 DEF Word
  <2>3. CASE c[1] = b
    <3>1. f = g
      BY <1>6, <2>3 DEF Subtract, Xor, g
    <3> QED
      BY <1>6, <2>1, <2>3, <3>1
  <2>4. CASE c[1] # b
    <3>1. g[k + 1] # 0 /\ DOMAIN g = 1 .. (k + 1) + n
      BY <1>6, <2>4 DEF Xor, Word
    <3>2. f = [i \in 1 .. (k + 1) + n |->
                  IF i = k + 1 THEN 0
                  ELSE IF i \in k + 1 + 1 .. k + 1 + n THEN Xor(g[i], p[i - (k + 1)]) ELSE g[i]]
      BY <1>0, <3>1 DEF Subtract, g
    <3> HIDE DEF f
    <3>3. ASSUME NEW i \in 1 .. n PROVE f[k + 1 + i] = Xor(up(i), p[i])
      <4>1. PICK z \in Nat : z = k + 1 + i
        BY <1>0
      <4>2. /\ z \in 1 .. (k + 1) + n /\ z \in k + 1 + 1 .. k + 1 + n
            /\ z # k + 1 /\ z - (k + 1) = i
        BY <1>0, <4>1
      <4>3. f[z] = Xor(g[z], p[i])
        BY <3>2, <4>2
      <4> QED
        BY <1>6, <4>1, <4>3
    <3> QED
      BY <2>1, <2>4, <3>3
  <2> QED
    BY <2>3, <2>4
<1> HIDE DEF f
<1>8. /\ LowBits(f, n) \in Word(n)
      /\ \A i \in 1 .. n : LowBits(f, n)[i] = IF c[1] # b THEN Xor(up(i), p[i]) ELSE up(i)
  <2>1. PICK l \in Nat : l = (k + 1) + n
    BY <1>0
  <2>2. n \in 1 .. l /\ \A i \in 1 .. n : l - n + i = k + 1 + i
    BY <1>0, <2>1
  <2>3. LowBits(f, n) \in Word(n) /\ \A i \in 1 .. n : LowBits(f, n)[i] = f[l - n + i]
    BY <1>7, <2>1, <2>2, LowBitsIs
  <2> QED
    BY <1>7, <2>2, <2>3
<1>9. LowBits(f, n) = [i \in 1 .. n |-> IF c[1] # b THEN Xor(up(i), p[i]) ELSE up(i)]
  BY <1>8 DEF Word
<1> QED
  BY <1>4, <1>9 DEF a, c

-----------------------------------------------------------------------------
(* The shift register. *)

\* A word is a sequence of bits.
LEMMA WordIsSeq ==
    ASSUME NEW n \in Nat, NEW w \in Word(n)
    PROVE  w \in Seq(Bit) /\ Len(w) = n
  BY DEF Word

\* The low bits of a word written with leading zeros.
LEMMA PaddedBits ==
    ASSUME NEW n \in 1 .. RegBits, NEW w \in Word(n)
    PROVE  \A i \in 1 .. n : (Zeros(RegBits - n) \o w)[RegBits - n + i] = w[i]
<1>1. RegBits \in Nat /\ RegBits - n \in Nat /\ n \in Nat
  BY CrcAssumption
<1>2. Zeros(RegBits - n) \in Seq(Bit) /\ Len(Zeros(RegBits - n)) = RegBits - n
  BY <1>1 DEF Zeros, Bit
<1>3. w \in Seq(Bit) /\ Len(w) = n
  BY <1>1, WordIsSeq
<1>4. ASSUME NEW i \in 1 .. n PROVE (Zeros(RegBits - n) \o w)[RegBits - n + i] = w[i]
  <2>1. PICK z \in 1 .. RegBits : z = RegBits - n + i /\ z > RegBits - n /\ z - (RegBits - n) = i
    BY <1>1
  <2>2. (Zeros(RegBits - n) \o w)[z] = w[i]
    BY <1>1, <1>2, <1>3, <2>1
  <2> QED
    BY <2>1, <2>2
<1> QED
  BY <1>4

\* Without bits outstanding a clock edge does to SREG, POLY and the size what
\* the access does.
LEMMA ClockedAtRest ==
    ASSUME crc \in CrcType, crc.counter = 0, NEW b \in Accesses
    PROVE  /\ Clocked(b).sreg = IF b.reg = "SREG" THEN b.val ELSE crc.sreg
           /\ Clocked(b).poly = IF b.reg = "POLY" THEN b.val ELSE crc.poly
           /\ Clocked(b).size = IF b.reg = "CTRL" THEN b.val ELSE crc.size
<1>1. Access(b) \in CrcType
  BY AccessType
<1>2. /\ Clocked(b).sreg = Access(b).sreg /\ Clocked(b).poly = Access(b).poly
      /\ Clocked(b).size = Access(b).size
  BY <1>1 DEF Clocked, CrcType
<1>3. /\ Access(b).sreg = IF b.reg = "SREG" THEN b.val ELSE crc.sreg
      /\ Access(b).poly = IF b.reg = "POLY" THEN b.val ELSE crc.poly
      /\ Access(b).size = IF b.reg = "CTRL" THEN b.val ELSE crc.size
  BY DEF Access, Accesses, CrcType
<1> QED
  BY <1>2, <1>3

\* A clock edge with bits outstanding does the same to the low bits of SREG:
\* the feedback taps the top of them, and the polynomial lies beneath them.
LEMMA ShiftedBits ==
    ASSUME TypeOK, NEW p \in Word(crc.size), crc.poly = Zeros(RegBits - crc.size) \o p
    PROVE  LET up(i) == IF i < crc.size THEN Crc[i + 1] ELSE 0
           IN  LowBits(Shifted, crc.size)
                 = [i \in 1 .. crc.size |->
                      IF Crc[1] # crc.data[1] THEN Xor(up(i), p[i]) ELSE up(i)]
<1> DEFINE n == crc.size
           R == RegBits
           s == crc.sreg
           up(i) == IF i < n THEN Crc[i + 1] ELSE 0
           sh == ShiftLeft(s)
<1>0. R \in Nat \ {0} /\ n \in 1 .. R /\ s \in Word(R) /\ crc.poly \in Word(R)
  BY SizeType, CrcAssumption DEF TypeOK
<1>1. \A i \in 1 .. n : Crc[i] = s[R - n + i]
  BY <1>0, LowBitsIs DEF Crc
<1>2. msb = Crc[1]
  BY <1>0, <1>1 DEF msb
<1>3. sh \in Word(R) /\ \A i \in 1 .. R : sh[i] = IF i < R THEN s[i + 1] ELSE 0
  <2>1. s \in Seq(Bit) /\ Len(s) = R /\ s # <<>>
    BY <1>0, WordIsSeq
  <2>2. Tail(s) \in Seq(Bit) /\ Len(Tail(s)) = R - 1 /\ \A i \in 1 .. R - 1 : Tail(s)[i] = s[i + 1]
    BY <2>1
  <2>3. \A i \in 1 .. R : Append(Tail(s), 0)[i] = IF i < R THEN s[i + 1] ELSE 0
    BY <1>0, <2>2
  <2> QED
    BY <1>0, <2>3, ShiftType DEF ShiftLeft
<1>4. \A i \in 1 .. n : crc.poly[R - n + i] = p[i]
  BY <1>0, PaddedBits
<1>5. Shifted = IF Crc[1] # crc.data[1] THEN XorWords(sh, crc.poly) ELSE sh
  BY <1>2 DEF Shifted
<1>6. XorWords(sh, crc.poly) \in Word(R)
      /\ \A i \in 1 .. R : XorWords(sh, crc.poly)[i] = Xor(sh[i], crc.poly[i])
  <2>1. DOMAIN sh = 1 .. R
    BY <1>3 DEF Word
  <2> QED
    BY <1>0, <1>3, <2>1, XorType DEF XorWords
<1> HIDE DEF n, R, s, sh
<1>7. Shifted \in Word(R)
  BY <1>3, <1>5, <1>6
<1>8. ASSUME NEW i \in 1 .. n
      PROVE  Shifted[R - n + i] = IF Crc[1] # crc.data[1] THEN Xor(up(i), p[i]) ELSE up(i)
  <2>1. PICK z \in 1 .. R : z = R - n + i
    BY <1>0
  <2>2. sh[z] = up(i)
    <3>1. CASE i < n
      <4>1. i + 1 \in 1 .. n /\ z < R /\ R - n + (i + 1) = z + 1
        BY <1>0, <2>1, <3>1
      <4>2. Crc[i + 1] = s[z + 1]
        BY <1>1, <4>1
      <4> QED
        BY <1>3, <3>1, <4>1, <4>2
    <3>2. CASE i = n
      BY <1>0, <1>3, <2>1, <3>2
    <3> QED
      BY <1>0, <3>1, <3>2
  <2> HIDE DEF up
  <2> QED
    BY <1>4, <1>5, <1>6, <2>1, <2>2
<1>9. /\ LowBits(Shifted, n) \in Word(n)
      /\ \A i \in 1 .. n : LowBits(Shifted, n)[i] = Shifted[R - n + i]
  BY <1>0, <1>7, LowBitsIs
<1>10. LowBits(Shifted, n)
         = [i \in 1 .. n |-> IF Crc[1] # crc.data[1] THEN Xor(up(i), p[i]) ELSE up(i)]
  <2> HIDE DEF up
  <2> QED
    BY <1>8, <1>9 DEF Word
<1> QED
  BY <1>10 DEF n

-----------------------------------------------------------------------------
(* SREG is the remainder. *)

\* What crc_init has written is in the registers.
Started ==
    /\ start = [sreg |-> start.sreg, poly |-> start.poly]
    /\ pc \in {"poly", "sreg"} => fed = <<>>
    /\ (pc = "sreg" \/ Configured) =>
           /\ start.poly \in Word(crc.size)
           /\ crc.poly = Zeros(RegBits - crc.size) \o start.poly
    /\ Configured => start.sreg \in Word(crc.size) /\ fed \in Seq(Bit)

RemainderInv == SettledInv /\ Started /\ SregIsRemainder

\* A cycle in which the driver writes no register, within crc_write or not.
LEMMA CycleKeeps ==
    ASSUME RemainderInv, NEW b \in {NoAccess, [reg |-> "STAT"]}, Cycle(b), SettledInv',
           UNCHANGED start, pc' = pc \/ (Configured /\ Configured')
    PROVE  Started' /\ SregIsRemainder'
<1>1. crc \in CrcType /\ crc.counter \in Nat /\ crc.size \in 1 .. RegBits /\ RegBits \in Nat
  BY SizeType, CrcAssumption DEF RemainderInv, SettledInv, TypeOK, CrcType
<1>2. Access(b) = crc
  BY DEF Access, NoAccess
<1>3. CASE crc.counter = 0
  <2>1. /\ crc'.sreg = crc.sreg /\ crc'.poly = crc.poly /\ crc'.size = crc.size
        /\ fed' = fed
    BY <1>1, <1>2, <1>3 DEF Cycle, Clocked, CrcType
  <2>2. Crc' = Crc
    BY <2>1 DEF Crc
  <2> QED
    BY <2>1, <2>2 DEF RemainderInv, Started, SregIsRemainder, Configured
<1>4. CASE crc.counter > 0
  <2>1. /\ crc'.sreg = Shifted /\ crc'.poly = crc.poly /\ crc'.size = crc.size
        /\ fed' = Append(fed, crc.data[1])
    BY <1>1, <1>2, <1>4 DEF Cycle, Clocked, CrcType
  <2>2. pc = "poll"
    BY <1>1, <1>4 DEF RemainderInv, SettledInv
  <2>3. /\ start.poly \in Word(crc.size) /\ start.sreg \in Word(crc.size) /\ fed \in Seq(Bit)
        /\ crc.poly = Zeros(RegBits - crc.size) \o start.poly
        /\ Crc = CrcOf(fed, start.poly, start.sreg)
    BY <2>2 DEF RemainderInv, Started, SregIsRemainder, Configured
  <2>4. crc.data[1] \in Bit
    BY <1>1, CrcAssumption DEF CrcType, Word
  <2>5. TypeOK
    BY DEF RemainderInv, SettledInv
  <2>6. LowBits(Shifted, crc.size) = CrcOf(Append(fed, crc.data[1]), start.poly, start.sreg)
    <3> DEFINE up(i) == IF i < crc.size THEN Crc[i + 1] ELSE 0
               next == [i \in 1 .. crc.size |->
                          IF Crc[1] # crc.data[1] THEN Xor(up(i), start.poly[i]) ELSE up(i)]
    <3>1. LowBits(Shifted, crc.size) = next
      BY <2>3, <2>5, ShiftedBits
    <3>2. crc.size \in Nat \ {0}
      BY <1>1
    <3>3. CrcOf(Append(fed, crc.data[1]), start.poly, start.sreg) = next
      <4>1. CrcOf(Append(fed, crc.data[1]), start.poly, start.sreg)
              = [i \in 1 .. crc.size |->
                   LET c == CrcOf(fed, start.poly, start.sreg)
                       u == IF i < crc.size THEN c[i + 1] ELSE 0
                   IN  IF c[1] # crc.data[1] THEN Xor(u, start.poly[i]) ELSE u]
        <5> DEFINE n == crc.size
                   m == fed
                   p == start.poly
                   s == start.sreg
                   bit == crc.data[1]
        <5>1. /\ n \in Nat \ {0} /\ m \in Seq(Bit) /\ p \in Word(n) /\ s \in Word(n)
              /\ bit \in Bit
          BY <2>3, <2>4, <3>2
        <5> HIDE DEF n, m, p, s, bit
        <5>2. CrcOf(Append(m, bit), p, s)
                = [i \in 1 .. n |-> LET c == CrcOf(m, p, s)
                                        u == IF i < n THEN c[i + 1] ELSE 0
                                    IN  IF c[1] # bit THEN Xor(u, p[i]) ELSE u]
          BY <5>1, CrcOfOneMore
        <5> QED
          BY <5>2 DEF n, m, p, s, bit
      <4> QED
        BY <2>3, <4>1
    <3> QED
      BY <3>1, <3>3
  <2>7. Crc' = CrcOf(fed', start'.poly, start'.sreg)
    BY <2>1, <2>6 DEF Crc
  <2>8. fed' \in Seq(Bit)
    BY <2>1, <2>3, <2>4
  <2> QED
    BY <2>1, <2>2, <2>3, <2>7, <2>8 DEF RemainderInv, Started, SregIsRemainder, Configured
<1> QED
  BY <1>1, <1>3, <1>4

\* No CRC is configured at the start.
LEMMA RemainderInit == Init => RemainderInv
  BY SettledInit DEF Init, RemainderInv, Started, SregIsRemainder, Configured

\* Every step keeps the remainder: crc_init starts it, each bit moves it on.
LEMMA RemainderNext == RemainderInv /\ [Next]_vars => RemainderInv'
<1> SUFFICES ASSUME RemainderInv, [Next]_vars PROVE RemainderInv'
  OBVIOUS
<1>0. SettledInv /\ SettledInv'
  BY SettledNext DEF RemainderInv
<1>1. /\ crc \in CrcType /\ crc.size \in 1 .. RegBits /\ RegBits \in Nat
      /\ pc # "poll" => crc.counter = 0
  BY <1>0, SizeType, CrcAssumption DEF SettledInv, TypeOK, CrcType
<1>2. CASE NoBus
  <2>1. Cycle(NoAccess) /\ UNCHANGED start /\ pc' = pc
    BY <1>2 DEF NoBus
  <2>2. Started' /\ SregIsRemainder'
    BY <1>0, <2>1, CycleKeeps
  <2> QED
    BY <1>0, <2>2 DEF RemainderInv
<1>3. CASE InitCtrl
  BY <1>0, <1>3 DEF InitCtrl, RemainderInv, Started, SregIsRemainder, Configured
<1>4. CASE InitPoly
  <2>1. PICK w \in Word(crc.size) :
           /\ Cycle([reg |-> "POLY", val |-> Zeros(RegBits - crc.size) \o w])
           /\ start' = [start EXCEPT !.poly = w]
    BY <1>4 DEF InitPoly
  <2>2. /\ crc'.poly = Zeros(RegBits - crc.size) \o w /\ crc'.size = crc.size
        /\ fed' = <<>> /\ pc' = "sreg"
    <3>1. [reg |-> "POLY", val |-> Zeros(RegBits - crc.size) \o w] \in Accesses
      BY <1>1, PaddedType DEF Accesses
    <3>2. crc.counter = 0 /\ pc = "poly" /\ fed = <<>>
      BY <1>1, <1>4 DEF InitPoly, RemainderInv, Started
    <3> QED
      <4> DEFINE b == [reg |-> "POLY", val |-> Zeros(RegBits - crc.size) \o w]
      <4>1. b.reg = "POLY" /\ b.val = Zeros(RegBits - crc.size) \o w /\ b \in Accesses
        BY <3>1
      <4>2. crc' = Clocked(b) /\ fed' = fed
        BY <2>1, <3>2 DEF Cycle
      <4> HIDE DEF b
      <4> QED
        BY <1>1, <1>4, <3>2, <4>1, <4>2, ClockedAtRest DEF InitPoly
  <2>3. start' = [sreg |-> start'.sreg, poly |-> start'.poly] /\ start'.poly = w
    BY <2>1 DEF RemainderInv, Started
  <2> QED
    BY <1>0, <2>2, <2>3 DEF RemainderInv, Started, SregIsRemainder, Configured
<1>5. CASE InitSreg
  <2>1. PICK w \in Word(crc.size) :
           /\ Cycle([reg |-> "SREG", val |-> Zeros(RegBits - crc.size) \o w])
           /\ start' = [start EXCEPT !.sreg = w]
    BY <1>5 DEF InitSreg
  <2>2. /\ crc'.sreg = Zeros(RegBits - crc.size) \o w
        /\ crc'.poly = crc.poly /\ crc'.size = crc.size
        /\ fed' = <<>> /\ pc' = "returned" /\ pc = "sreg"
    <3>1. [reg |-> "SREG", val |-> Zeros(RegBits - crc.size) \o w] \in Accesses
      BY <1>1, PaddedType DEF Accesses
    <3>2. crc.counter = 0 /\ pc = "sreg" /\ fed = <<>>
      BY <1>1, <1>5 DEF InitSreg, RemainderInv, Started
    <3> QED
      <4> DEFINE b == [reg |-> "SREG", val |-> Zeros(RegBits - crc.size) \o w]
      <4>1. b.reg = "SREG" /\ b.val = Zeros(RegBits - crc.size) \o w /\ b \in Accesses
        BY <3>1
      <4>2. crc' = Clocked(b) /\ fed' = fed
        BY <2>1, <3>2 DEF Cycle
      <4> HIDE DEF b
      <4> QED
        BY <1>1, <1>5, <3>2, <4>1, <4>2, ClockedAtRest DEF InitSreg
  <2>3. /\ start' = [sreg |-> start'.sreg, poly |-> start'.poly]
        /\ start'.sreg = w /\ start'.poly = start.poly
    BY <2>1 DEF RemainderInv, Started
  <2>4. Crc' = w
    <3>3. crc'.sreg \in Word(RegBits)
      BY <1>0 DEF SettledInv, TypeOK
    <3>4. \A i \in 1 .. crc.size : crc'.sreg[RegBits - crc.size + i] = w[i]
      BY <1>1, <2>2, PaddedBits
    <3>5. /\ Crc' \in Word(crc.size)
          /\ \A i \in 1 .. crc.size : (Crc')[i] = crc'.sreg[RegBits - crc.size + i]
      BY <1>1, <2>2, <3>3, LowBitsIs DEF Crc
    <3>6. w = [i \in 1 .. crc.size |-> w[i]] /\ Crc' = [i \in 1 .. crc.size |-> (Crc')[i]]
      BY <3>5 DEF Word
    <3>7. \A i \in 1 .. crc.size : (Crc')[i] = w[i]
      BY <3>4, <3>5
    <3> HIDE DEF Crc
    <3> QED
      BY <3>6, <3>7
  <2>5. /\ start.poly \in Word(crc.size) /\ crc.poly = Zeros(RegBits - crc.size) \o start.poly
    BY <2>2 DEF RemainderInv, Started
  <2>6. Crc' = CrcOf(fed', start'.poly, start'.sreg)
    <3>1. crc.size \in Nat \ {0}
      BY <1>1
    <3> QED
      BY <2>2, <2>3, <2>4, <2>5, <3>1, CrcOfNothing
  <2>7. fed' \in Seq(Bit)
    BY <2>2
  <2> QED
    BY <1>0, <2>2, <2>3, <2>5, <2>6, <2>7 DEF RemainderInv, Started, SregIsRemainder, Configured
<1>6. CASE WriteData
  <2>1. PICK w \in Word(ByteBits) : Cycle([reg |-> "DATA", val |-> w])
    BY <1>6 DEF WriteData
  <2>2. /\ crc'.sreg = crc.sreg /\ crc'.poly = crc.poly /\ crc'.size = crc.size
        /\ fed' = fed /\ start' = start /\ pc = "returned" /\ pc' = "poll"
    <3>1. [reg |-> "DATA", val |-> w] \in Accesses
      BY DEF Accesses
    <3>2. crc.counter = 0 /\ pc = "returned"
      BY <1>1, <1>6 DEF WriteData
    <3> QED
      BY <1>1, <1>6, <2>1, <3>1, <3>2, ClockedAtRest DEF WriteData, Cycle
  <2>3. Crc' = Crc
    BY <2>2 DEF Crc
  <2> QED
    BY <1>0, <2>2, <2>3 DEF RemainderInv, Started, SregIsRemainder, Configured
<1>7. CASE PollTc
  <2>1. Cycle([reg |-> "STAT"]) /\ UNCHANGED start /\ Configured /\ Configured'
    BY <1>7 DEF PollTc, Configured
  <2>2. Started' /\ SregIsRemainder'
    BY <1>0, <2>1, CycleKeeps
  <2> QED
    BY <1>0, <2>2 DEF RemainderInv
<1>8. CASE SReset
  BY <1>0, <1>8 DEF SReset, RemainderInv, Started, SregIsRemainder, Configured
<1>9. CASE UNCHANGED vars
  BY <1>0, <1>9 DEF vars, RemainderInv, Started, SregIsRemainder, Configured, Crc
<1> QED
  BY <1>2, <1>3, <1>4, <1>5, <1>6, <1>7, <1>8, <1>9 DEF Next

\* At every cycle the low bits of SREG are the remainder of the bits fed to
\* the unit: for every width, polynomial, start value and message.
THEOREM Remainder == Spec => []SregIsRemainder
<1>1. RemainderInv => SregIsRemainder
  BY DEF RemainderInv
<1> QED
  BY <1>1, RemainderInit, RemainderNext, PTL DEF Spec
=============================================================================
