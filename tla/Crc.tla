--------------------------------- MODULE Crc ---------------------------------
(***************************************************************************)
(* CRC peripheral (rtl/thuas-riscv/crc.vhd) and the library that drives it *)
(* (sw/lib/crc): crc_init writes CTRL, POLY and SREG, crc_write writes one *)
(* byte to DATA and polls STAT.TC.                                         *)
(*                                                                         *)
(* One step is one rising edge of the system clock.  Registers are         *)
(* sequences of bits, most significant bit first.                          *)
(***************************************************************************)
EXTENDS Naturals, Sequences

CONSTANTS
    RegBits,      \* width of SREG and POLY; 32 in the hardware
    ByteBits,     \* bits of the data register; 8 in the hardware
    CrcWidths,    \* the widths CTRL.size selects; {8, 16, 24, 32}
    MaxBytes      \* bound: bytes written after one crc_init

ASSUME CrcAssumption ==
    /\ RegBits \in Nat \ {0} /\ ByteBits \in Nat \ {0}
    /\ CrcWidths \subseteq 1..RegBits
    /\ MaxBytes \in Nat

VARIABLES
    crc,      \* the registers of the peripheral
    pc,       \* the next bus access of the driver; "returned" if it has none
    holding,  \* the bus still holds the access of the previous cycle
    start,    \* history: the start value and polynomial of crc_init
    written,  \* history: the bits of the bytes written since crc_init
    fed       \* history: the bits shifted into the CRC since crc_init

vars == <<crc, pc, holding, start, written, fed>>

Bit == {0, 1}
Word(n) == [1..n -> Bit]
Zeros(n) == [i \in 1..n |-> 0]
Xor(a, b) == IF a = b THEN 0 ELSE 1
XorWords(v, w) == [i \in DOMAIN v |-> Xor(v[i], w[i])]
ShiftLeft(w) == Append(Tail(w), 0)
LowBits(w, n) == SubSeq(w, Len(w) - n + 1, Len(w))

Reset == [sreg |-> Zeros(RegBits), poly |-> Zeros(RegBits), size |-> RegBits,
          tc |-> FALSE, data |-> Zeros(ByteBits), counter |-> 0]

-----------------------------------------------------------------------------
\* The peripheral.  Access is the register access of the cycle; the shift
\* reads the old registers and its assignments win.

NoAccess == [reg |-> "none"]

Access(b) ==
    CASE b.reg = "CTRL" -> [crc EXCEPT !.size = b.val]
      [] b.reg = "POLY" -> [crc EXCEPT !.poly = b.val]
      [] b.reg = "SREG" -> [crc EXCEPT !.sreg = b.val]
      [] b.reg = "DATA" -> [crc EXCEPT !.data = b.val, !.tc = FALSE,
                                       !.counter = ByteBits - 1]
      [] OTHER -> crc

\* Mutant: the feedback is the top bit of the register whatever the size.
msbTop == crc.sreg[1]
msb == crc.sreg[RegBits - crc.size + 1]

Shifted == IF msb # crc.data[1] THEN XorWords(ShiftLeft(crc.sreg), crc.poly)
           ELSE ShiftLeft(crc.sreg)

Clocked(b) ==
    IF crc.counter > 0
    THEN [Access(b) EXCEPT !.sreg = Shifted, !.counter = crc.counter - 1,
                           !.data = ShiftLeft(crc.data), !.tc = FALSE]
    ELSE [Access(b) EXCEPT !.tc = TRUE]

Cycle(b) ==
    /\ crc' = Clocked(b)
    /\ fed' = IF crc.counter > 0 THEN Append(fed, crc.data[1]) ELSE fed

-----------------------------------------------------------------------------
\* The driver.  The hart keeps an access on the bus until the registered
\* ready of the peripheral arrives, so two accesses are two cycles apart.

\* Mutant: an access every cycle.
MayAccessAlways == TRUE
MayAccess == ~holding

\* A clock cycle without an access.
NoBus ==
    /\ Cycle(NoAccess)
    /\ holding' = FALSE
    /\ UNCHANGED <<pc, start, written>>

\* crc_init.  The polynomial and the start value have the width of the CRC.
InitCtrl ==
    /\ MayAccess /\ pc \in {"off", "returned"}
    /\ \E n \in CrcWidths : crc' = Clocked([reg |-> "CTRL", val |-> n])
    /\ pc' = "poly" /\ holding' = TRUE
    /\ start' = [sreg |-> <<>>, poly |-> <<>>] /\ written' = <<>> /\ fed' = <<>>

InitPoly ==
    /\ MayAccess /\ pc = "poly"
    /\ \E w \in Word(crc.size) :
           /\ Cycle([reg |-> "POLY", val |-> Zeros(RegBits - crc.size) \o w])
           /\ start' = [start EXCEPT !.poly = w]
    /\ pc' = "sreg" /\ holding' = TRUE
    /\ UNCHANGED written

InitSreg ==
    /\ MayAccess /\ pc = "sreg"
    /\ \E w \in Word(crc.size) :
           /\ Cycle([reg |-> "SREG", val |-> Zeros(RegBits - crc.size) \o w])
           /\ start' = [start EXCEPT !.sreg = w]
    /\ pc' = "returned" /\ holding' = TRUE
    /\ UNCHANGED written

\* crc_write: CRC->DATA = data.
WriteData ==
    /\ MayAccess /\ pc = "returned"
    /\ Len(written) < MaxBytes * ByteBits
    /\ \E w \in Word(ByteBits) : /\ Cycle([reg |-> "DATA", val |-> w])
                                 /\ written' = written \o w
    /\ pc' = "poll" /\ holding' = TRUE
    /\ UNCHANGED start

\* crc_write: while ((CRC->STAT & CRC_TC) == 0).
PollTc ==
    /\ MayAccess /\ pc = "poll"
    /\ Cycle([reg |-> "STAT"])
    /\ pc' = IF crc.tc THEN "returned" ELSE "poll"
    /\ holding' = TRUE
    /\ UNCHANGED <<start, written>>

\* A synchronous reset resets the hart with its program, too.
SReset ==
    /\ crc' = Reset /\ pc' = "off" /\ holding' = FALSE
    /\ start' = [sreg |-> <<>>, poly |-> <<>>] /\ written' = <<>> /\ fed' = <<>>

Init ==
    /\ crc = Reset /\ pc = "off" /\ holding = FALSE
    /\ start = [sreg |-> <<>>, poly |-> <<>>] /\ written = <<>> /\ fed = <<>>

Next == \/ NoBus \/ InitCtrl \/ InitPoly \/ InitSreg
        \/ WriteData \/ PollTc \/ SReset

Spec == Init /\ [][Next]_vars

-----------------------------------------------------------------------------
\* The reference: the remainder of a message divided by the polynomial.

\* One step of the long division: subtract the polynomial at place i if the
\* dividend has a one there; the leading one of the polynomial is implicit.
Subtract(poly, dividend, i) ==
    IF dividend[i] = 0 THEN dividend
    ELSE [j \in DOMAIN dividend |->
            IF j = i THEN 0
            ELSE IF j \in i + 1..i + Len(poly)
                 THEN Xor(dividend[j], poly[j - i]) ELSE dividend[j]]

\* What is left of the dividend after each step.
Division(poly, dividend) ==
    LET left[i \in Nat] == IF i = 0 THEN dividend ELSE Subtract(poly, left[i - 1], i)
    IN left

\* The message, extended by as many zeros as the polynomial has bits; the
\* start value is added at its front.
Dividend(message, poly, init) ==
    LET extended == message \o Zeros(Len(poly))
    IN [i \in DOMAIN extended |->
           IF i <= Len(poly) THEN Xor(extended[i], init[i]) ELSE extended[i]]

\* The CRC of a message: what the division leaves in the added places.
CrcOf(message, poly, init) ==
    LowBits(Division(poly, Dividend(message, poly, init))[Len(message)], Len(poly))

Configured == pc \in {"returned", "poll"}
Crc == LowBits(crc.sreg, crc.size)

-----------------------------------------------------------------------------
\* Type of the registers; the counter stays in the range declared for it
\* (crc.vhd: counter : integer range 0 to 8).
TypeOK ==
    /\ crc \in [sreg : Word(RegBits), poly : Word(RegBits),
                size : CrcWidths \cup {RegBits}, tc : BOOLEAN,
                data : Word(ByteBits), counter : 0..ByteBits]
    /\ pc \in {"off", "poly", "sreg", "returned", "poll"}
    /\ holding \in BOOLEAN

\* At every cycle the low bits of SREG are the remainder, after division by
\* the polynomial, of the bits shifted in so far: the feedback taps the bit
\* that the size selects, and the start value enters as if it were part of
\* the message (the pre-multiplied register of crc.vhd's comments).
SregIsRemainder == Configured => Crc = CrcOf(fed, start.poly, start.sreg)

\* When crc_write has returned no shift is outstanding, so crc_get reads a
\* CRC that will not change: the poll never sees the TC of an earlier byte.
ReturnedIsSettled == pc = "returned" => crc.counter = 0

\* What the README of sw/crc promises: after crc_write has returned, SREG is
\* the CRC of the bytes written.
CrcOfBytes ==
    pc = "returned" => Crc = CrcOf(written, start.poly, start.sreg)
=============================================================================
