---------------------------- MODULE SerialProofs ----------------------------
(***************************************************************************)
(* Theorems about the serial line: about module Uart first, then about     *)
(* Upload, the protocol of the two programs at its ends.  The modules have *)
(* no variable in common.                                                  *)
(*                                                                         *)
(* Uart.  The registers keep their types; a line that is disturbed only by *)
(* pulses no one can take for a start bit, or by a break, gives no frame   *)
(* and no parity error; and the program that polls RC in time gets exactly *)
(* the characters that uart1_putc wrote, in order: every step of the two   *)
(* state machines is a step of the channel or leaves it alone.  For every  *)
(* divider, frame format and time at which the programs act.               *)
(*                                                                         *)
(* The invariant says where the sender is in its frame (Quiet, Starting,   *)
(* Sending, Ending), where the receiver is in what it takes for one, and   *)
(* how far apart their timers are (Aligned): the receiver samples a place  *)
(* of the frame within a cycle or two of half a bit after it began.  Fresh *)
(* says how soon RC must have been read: the flag of one character never   *)
(* lasts into the next.                                                    *)
(*                                                                         *)
(* Upload.  In a session that nothing disturbs the receive register, which *)
(* has no buffer, never loses a symbol, exit code 0 means that the program *)
(* is in memory, and the only failure is a key that comes too late: for    *)
(* every file of objcopy, set of options and length of the line.  The      *)
(* invariant says which stage the session is in (Calling to Leaving) and   *)
(* what is on its way at that stage: within a line, the symbols from the   *)
(* one the bootloader takes next to the one the tool has written last.     *)
(***************************************************************************)
EXTENDS Uart, Upload, Integers, FiniteSetTheorems, SequenceTheorems, TLAPS

-----------------------------------------------------------------------------
\* Half a bit, as the receiver counts it.
Half == cfg.baud \div 2
\* The bits after the start bit up to and including the first stop bit.
Last == cfg.bits + 1 + One(cfg.paron)
\* The cycles of n bits.
Cells(n) == n * (cfg.baud + 1)

\* The receiver polls within a frame and a bit is long enough for it.
Timely ==
    \A c \in Configs : /\ c.baud \div 2 + 4 <= c.baud
                       /\ c.baud \div 2 + 2 * GetDelay + 1 <= c.baud

\* A disturbance is shorter than half a bit or longer than a frame.
Distinct ==
    \A c \in Configs, d \in Disturbances :
        d <= c.baud \div 2 + 1
        \/ d >= c.baud \div 2 + 3 + (c.bits + 1 + One(c.paron)) * (c.baud + 1)

-----------------------------------------------------------------------------
\* The sender.

\* The bit that a frame of w in format f puts on the line in place i; the start bit is 0.
LineBit(f, w, i) ==
    IF i = 0 THEN 0
    ELSE IF i <= f.bits THEN w[i]
    ELSE IF i = f.bits + 1 /\ f.paron THEN xor_reduce(Append(w, f.odd))
    ELSE 1

\* The bit on the line and the cycles that it has been counted.
BitsSent == TxBits - tx.count
Into == cfg.baud - tx.timer
\* The bit that leaves txd in cycle v of place q, d cycles late.
Late(f, w, q, v, d) == IF v >= d THEN LineBit(f, w, q)
                       ELSE IF q >= 1 THEN LineBit(f, w, q - 1) ELSE 1

Quiet == tx.state = "idle" /\ ~tx.txstart /\ tx.txd = 1
TxStarting(c) ==
    /\ tx.state = "idle" /\ tx.txstart /\ tx.txd = 1 /\ ~tx.tc
    /\ tx.buffer = Frame(Extended(c))
TxSending(c) ==
    /\ tx.state = "iter" /\ ~tx.txstart /\ ~tx.tc
    /\ BitsSent \in 0..TxBits /\ Into \in 0..cfg.baud
    /\ \A i \in 1..BufferBits : tx.buffer[i] = LineBit(cfg, Extended(c), BitsSent + i - 1)
    /\ tx.txd = Late(cfg, Extended(c), BitsSent, Into, 1)
TxEnding == tx.state = "ready" /\ ~tx.txstart /\ ~tx.tc /\ tx.txd = 1

\* uart1_putc waits for TC and nothing disturbs the line.
Waits == put.pc = "poll" /\ low = 0
Starting(c) == TxStarting(c) /\ Waits /\ rx.sync = 1
Sending(c) ==
    TxSending(c) /\ Waits /\ rx.sync = Late(cfg, Extended(c), BitsSent, Into, 2)
Ending == TxEnding /\ Waits /\ rx.sync = 1

-----------------------------------------------------------------------------
\* The reader.

\* At least the cycles since RC rose.
Slack == IF get.pc = "poll" THEN get.gap ELSE GetDelay + 1 + get.gap
Fresh(n) == rx.rc => n <= Slack

\* The buffer holds the first bits of c, all but k.
Content(c, k) ==
    \A i \in 1..MaxBits :
        rx.buffer[i] = IF k < i /\ i <= cfg.bits THEN Extended(c)[i - k] ELSE 0
\* The receiver has the character in front of rest, or rest is all there is.
Full(rest) == \E c \in Word(CharBits) : Content(c, 0) /\ queue = <<c>> \o rest
Held(rest) == IF rx.rc THEN Full(rest) ELSE queue = rest

-----------------------------------------------------------------------------
\* No character on its way.

Rest0 == /\ rx.state = "idle" /\ rx.sync = 1 /\ low = 0
         /\ Fresh(cfg.baud - Half - IF put.pc = "poll" THEN 4 ELSE 3)
Pulse == /\ rx.state = "idle" /\ rx.sync = 1 /\ low > 0
         /\ low <= Half + 1 \/ low >= Half + 3 + Cells(Last)
         /\ Fresh(cfg.baud - Half - 2)
Dip == /\ rx.state = "idle" /\ rx.sync = 0
       /\ low <= Half \/ low >= Half + 2 + Cells(Last)
       /\ Fresh(cfg.baud - Half - 1)
JustWaiting == /\ rx.state = "wait" /\ rx.timer <= Half
               /\ IF rx.timer = Half THEN Fresh(cfg.baud - Half) ELSE ~rx.rc
Doubt == /\ JustWaiting
         /\ rx.sync = 0 => rx.timer >= 1
         /\ low > 0 => low <= rx.timer - 1
Fail == rx.state = "fail" /\ rx.sync = 1 /\ low = 0 /\ ~rx.rc
BreakWait == JustWaiting /\ rx.sync = 0 /\ low >= rx.timer + 1 + Cells(Last)
BreakIter ==
    /\ rx.state = "iter" /\ rx.sync = 0 /\ rx.buffer = Zeros /\ ~rx.rc
    /\ low >= rx.timer + 1 + Cells(rx.count + One(cfg.paron))
BreakParity ==
    /\ rx.state = "parity" /\ rx.sync = 0 /\ rx.buffer = Zeros /\ ~rx.rc
    /\ low >= rx.timer + 1
BreakReady == rx.state = "ready" /\ rx.sync = 0 /\ rx.buffer = Zeros /\ ~rx.rc
Break == rx.state = "break" /\ ~rx.rc /\ (rx.sync = 1 => low = 0)

Lull == \/ Rest0 \/ Pulse \/ Dip \/ Doubt \/ Fail
        \/ BreakWait \/ BreakIter \/ BreakParity \/ BreakReady \/ Break
AtRest == low = 0 /\ rx.state = "idle" /\ rx.sync = 1
LineSilent == Quiet /\ Held(<<>>) /\ Lull /\ (put.pc = "poll" => AtRest)

-----------------------------------------------------------------------------
\* A character on its way.

Unaware == \/ rx.state = "idle" /\ Fresh(cfg.baud - Half - 2)
           \/ JustWaiting
           \/ rx.state \in {"fail", "break"} /\ ~rx.rc
Starts(c) == Starting(c) /\ Held(<<c>>) /\ Unaware

Await(c) ==
    /\ Sending(c) /\ Held(<<c>>) /\ BitsSent = 0
    /\ \/ /\ rx.state = "idle" /\ Into <= 3
          /\ IF Into <= 1 THEN Fresh(cfg.baud - Half - 1 + Into) ELSE ~rx.rc
       \/ rx.state = "fail" /\ Into <= 2 /\ ~rx.rc
       \/ rx.state = "wait" /\ Into <= 1 /\ rx.timer <= Half /\ ~rx.rc

\* The receiver samples place j of the frame when its timer runs out.
Aligned(j) ==
    \/ BitsSent = j /\ Into + rx.timer \in 2..Half + 4
    \/ BitsSent = j - 1 /\ Into + rx.timer \in cfg.baud + 3..cfg.baud + Half + 5

InFrame(c) == Sending(c) /\ queue = <<c>> /\ ~rx.rc
InWait(c) == /\ InFrame(c) /\ rx.state = "wait"
             /\ BitsSent = 0 /\ Into >= 2 /\ Into + rx.timer \in 2..Half + 4
InIter(c) == /\ InFrame(c) /\ rx.state = "iter" /\ rx.count <= cfg.bits
             /\ Aligned(cfg.bits - rx.count + 1) /\ Content(c, rx.count)
InParity(c) == /\ InFrame(c) /\ rx.state = "parity" /\ cfg.paron
               /\ Aligned(cfg.bits + 2) /\ Content(c, 0) /\ ~rx.pe
Ready(c) == rx.state = "ready" /\ Content(c, 0) /\ rx.sync = 1 /\ ~rx.pe
\* The stop bit may be over where the divider is small.
InReady(c) ==
    /\ InFrame(c) /\ Ready(c)
    /\ \/ BitsSent = Last /\ Into \in 3..Half + 5
       \/ BitsSent > Last /\ Into = 0 /\ cfg.baud <= Half + 4
LateReady(c) == Ending /\ queue = <<c>> /\ ~rx.rc /\ Ready(c) /\ cfg.baud <= Half + 4

Resting == rx.state = "idle" /\ rx.sync = 1 /\ Held(<<>>)
After(c) ==
    /\ Sending(c) /\ Resting
    /\ \/ BitsSent = Last /\ Into >= 4 /\ Fresh(Into - Half - 6)
       \/ BitsSent > Last /\ Fresh(cfg.baud + 1 + Into - Half - 6)
FrameEnds == Ending /\ Resting /\ Fresh(cfg.baud - Half - 5)

Busy == \E c \in Word(CharBits) :
            \/ Starts(c) \/ Await(c) \/ InWait(c) \/ InIter(c) \/ InParity(c)
            \/ InReady(c) \/ LateReady(c) \/ After(c)

Drivers ==
    /\ put.pc = "ready" \/ tx.tc => Quiet
    /\ get.gap \in 0..GetDelay
    /\ get.pc = "read" => rx.rc
Flags == /\ ~rx.fe /\ (rx.pe => cfg.paron) /\ (rx.rc => ~rx.pe)


IInv == Drivers /\ Flags /\ (LineSilent \/ Busy \/ FrameEnds)

-----------------------------------------------------------------------------
\* The types of the two machines, and the types as synthesised: the declared
\* range of txshiftcounter needs four bits, and a register of four bits also
\* holds the counts that a parity bit and a second stop bit add.  Whatever is
\* proved for every format is proved of this register.
Synthesised == Registers(0..MaxBits + 3)
TxRecord == [txstart : BOOLEAN, state : {"idle", "iter", "ready"},
             buffer : Word(BufferBits), timer : 0..cfg.baud,
             count : 0..MaxBits + 3, tc : BOOLEAN, txd : Bit]
RxRecord == [state : {"idle", "wait", "iter", "parity", "ready", "break", "fail"},
             sync : Bit, timer : 0..cfg.baud, count : 0..MaxBits,
             buffer : Word(MaxBits), data : Word(MaxBits), rc : BOOLEAN,
             fe : BOOLEAN, pe : BOOLEAN, rf : BOOLEAN, br : BOOLEAN]

\* The fields of the settings and what follows from them.
LEMMA Settings ==
    ASSUME cfg \in Configs
    PROVE  /\ cfg.bits \in 1..MaxBits /\ cfg.paron \in BOOLEAN /\ cfg.odd \in {0, 1}
           /\ cfg.sp2 \in BOOLEAN /\ cfg.baud \in Nat
           /\ One(cfg.paron) \in {0, 1} /\ One(cfg.sp2) \in {0, 1}
           /\ MaxBits \in Nat \ {0, 1}
           /\ Half \in 0..cfg.baud
           /\ TxBits \in 2..MaxBits + 3 /\ Last \in 2..MaxBits + 2
           /\ CharBits \in 1..MaxBits
           /\ TxBits = Last + One(cfg.sp2)
           /\ GetDelay \in Nat \ {0} /\ PutDelay \in Nat \ {0}
PROOF
  <1>1. cfg \in [bits : 1..MaxBits, paron : BOOLEAN, odd : {0, 1}, sp2 : BOOLEAN, baud : Nat]
    BY UartAssumption
  <1>2. MaxBits \in Nat \ {0, 1} /\ GetDelay \in Nat \ {0} /\ PutDelay \in Nat \ {0}
    BY UartAssumption
  <1>3. /\ cfg.bits \in 1..MaxBits /\ cfg.paron \in BOOLEAN /\ cfg.odd \in {0, 1}
        /\ cfg.sp2 \in BOOLEAN /\ cfg.baud \in Nat
    BY <1>1
  <1>4. One(cfg.paron) \in {0, 1} /\ One(cfg.sp2) \in {0, 1}
    BY DEF One
  <1>5. Half \in 0..cfg.baud
    BY <1>3 DEF Half
  <1>6. CharBits \in 1..MaxBits
    BY <1>2, <1>3 DEF CharBits
  <1> QED
    BY <1>2, <1>3, <1>4, <1>5, <1>6 DEF TxBits, Last

\* A word and the sequences made of it.
LEMMA WordSeq ==
    ASSUME NEW n \in Nat, NEW w \in Word(n)
    PROVE  w \in Seq(Bit) /\ Len(w) = n
PROOF
  BY DEF Word

\* A sequence of n bits is a word.
LEMMA SeqWord ==
    ASSUME NEW n \in Nat, NEW w \in Seq(Bit), Len(w) = n
    PROVE  w \in Word(n)
PROOF
  <1>1. DOMAIN w = 1..n /\ w = [i \in 1..n |-> w[i]]
    OBVIOUS
  <1>2. \A i \in 1..n : w[i] \in Bit
    OBVIOUS
  <1> QED
    BY <1>1, <1>2 DEF Word

\* A character padded to the width of the frame.
LEMMA ExtendedWord ==
    ASSUME cfg \in Configs, NEW c \in Word(CharBits)
    PROVE  Extended(c) \in Word(cfg.bits) /\ Extended(c) \in Seq(Bit)
           /\ Len(Extended(c)) = cfg.bits
           /\ \A i \in 1..CharBits : Extended(c)[i] = c[i]
PROOF
  <1>1. CharBits \in Nat /\ cfg.bits \in Nat
    BY Settings
  <1>2. c \in Seq(Bit) /\ Len(c) = CharBits
    BY <1>1, WordSeq
  <1>3. CASE cfg.bits = MaxBits
    <2>1. Extended(c) = Append(c, 0) /\ CharBits = cfg.bits - 1
      BY <1>3 DEF Extended, CharBits
    <2>2. Extended(c) \in Seq(Bit) /\ Len(Extended(c)) = cfg.bits
      BY <2>1, <1>1, <1>2 DEF Bit
    <2>3. \A i \in 1..CharBits : Extended(c)[i] = c[i]
      BY <2>1, <1>1, <1>2
    <2> QED
      BY <2>2, <2>3, <1>1 DEF Word
  <1>4. CASE cfg.bits # MaxBits
    BY <1>4, <1>2 DEF Extended, CharBits
  <1> QED
    BY <1>3, <1>4

\* The length of the parity is a bit.
LEMMA XorBit ==
    ASSUME NEW n \in Nat, NEW w \in Word(n)
    PROVE  xor_reduce(w) \in Bit
PROOF
  <1>1. DOMAIN w = 1..n
    BY DEF Word
  <1>2. IsFiniteSet(1..n)
    BY FS_Interval
  <1>3. IsFiniteSet({i \in DOMAIN w : w[i] = 1})
    BY <1>1, <1>2, FS_Subset
  <1>4. Cardinality({i \in DOMAIN w : w[i] = 1}) \in Nat
    BY <1>3, FS_CardinalityType
  <1> QED
    BY <1>4 DEF xor_reduce, Bit

\* The parity bit of a word and the parity setting.
LEMMA ParityBit ==
    ASSUME cfg \in Configs, NEW w \in Word(cfg.bits)
    PROVE  xor_reduce(Append(w, cfg.odd)) \in Bit
PROOF
  <1>1. cfg.bits \in Nat /\ cfg.odd \in Bit
    BY Settings DEF Bit
  <1>2. w \in Seq(Bit) /\ Len(w) = cfg.bits
    BY <1>1, WordSeq
  <1>3. Append(w, cfg.odd) \in Seq(Bit) /\ Len(Append(w, cfg.odd)) = cfg.bits + 1
    BY <1>1, <1>2
  <1>4. Append(w, cfg.odd) \in Word(cfg.bits + 1)
    <2> DEFINE v == Append(w, cfg.odd)
               n == cfg.bits + 1
    <2>1. v \in Seq(Bit) /\ Len(v) = n /\ n \in Nat
      BY <1>1, <1>3
    <2> HIDE DEF v, n
    <2>2. v \in Word(n)
      BY <2>1, SeqWord
    <2> QED
      BY <2>2 DEF v, n
  <1>5. cfg.bits + 1 \in Nat
    BY <1>1
  <1> QED
    BY <1>4, <1>5, XorBit

\* Whatever the place, the line carries a bit.
LEMMA LineBitType ==
    ASSUME cfg \in Configs, NEW w \in Word(cfg.bits), NEW i \in Nat
    PROVE  LineBit(cfg, w, i) \in Bit
PROOF
  <1>1. xor_reduce(Append(w, cfg.odd)) \in Bit
    BY ParityBit
  <1>2. cfg.bits \in Nat
    BY Settings
  <1>3. ASSUME i # 0, i <= cfg.bits PROVE w[i] \in Bit
    BY <1>2, <1>3 DEF Word
  <1> QED
    BY <1>1, <1>3 DEF LineBit, Bit

\* The transmit buffer holds the bits of the frame in the order of the line.
LEMMA FrameBitsOf ==
    ASSUME cfg \in Configs, NEW w \in Word(cfg.bits)
    PROVE  /\ Frame(w) \in Word(BufferBits)
           /\ \A i \in 1..BufferBits : Frame(w)[i] = LineBit(cfg, w, i - 1)
PROOF
  <1> DEFINE bit == xor_reduce(Append(w, cfg.odd))
             p == IF cfg.paron THEN <<bit>> ELSE <<>>
             f == <<0>> \o w \o p
             o == Ones(BufferBits - Len(f))
  <1>1. cfg.bits \in 1..MaxBits /\ MaxBits \in Nat /\ One(cfg.paron) \in {0, 1}
    BY Settings
  <1>2. bit \in Bit
    BY ParityBit
  <1>3. w \in Seq(Bit) /\ Len(w) = cfg.bits
    BY <1>1, WordSeq
  <1> HIDE DEF bit
  <1>4. /\ p \in Seq(Bit) /\ Len(p) = One(cfg.paron)
        /\ cfg.paron => p[1] = bit
    BY <1>2 DEF One
  <1> HIDE DEF p
  <1>5. <<0>> \in Seq(Bit) /\ Len(<<0>>) = 1 /\ <<0>>[1] = 0
    BY DEF Bit
  <1>6. /\ <<0>> \o w \in Seq(Bit) /\ Len(<<0>> \o w) = cfg.bits + 1
        /\ (<<0>> \o w)[1] = 0
        /\ \A i \in 2..cfg.bits + 1 : (<<0>> \o w)[i] = w[i - 1]
    BY <1>1, <1>3, <1>5
  <1> DEFINE z == <<0>> \o w
  <1>7. /\ f \in Seq(Bit) /\ Len(f) = cfg.bits + 1 + One(cfg.paron)
        /\ \A i \in 1..cfg.bits + 1 : f[i] = z[i]
        /\ cfg.paron => f[cfg.bits + 2] = bit
    <2>1. z \in Seq(Bit) /\ Len(z) = cfg.bits + 1
      BY <1>6
    <2> HIDE DEF z
    <2>2. z \o p \in Seq(Bit) /\ Len(z \o p) = cfg.bits + 1 + One(cfg.paron)
      BY <2>1, <1>1, <1>4
    <2>3. \A i \in 1..cfg.bits + 1 : (z \o p)[i] = z[i]
      BY <2>1, <1>1, <1>4
    <2>4. cfg.paron => (z \o p)[cfg.bits + 2] = bit
      <3>1. ASSUME cfg.paron PROVE (z \o p)[cfg.bits + 2] = p[1]
        <4>1. Len(p) = 1
          BY <3>1, <1>4 DEF One
        <4>2. cfg.bits + 2 \in Len(z) + 1..Len(z) + Len(p)
              /\ cfg.bits + 2 - Len(z) = 1
          BY <4>1, <2>1, <1>1
        <4> QED
          BY <4>1, <4>2, <2>1, <1>4, SMTT(30)
      <3> QED
        BY <3>1, <1>4
    <2> USE DEF z
    <2> QED
      BY <2>2, <2>3, <2>4
  <1> DEFINE n == BufferBits - Len(f)
  <1>8. n \in Nat /\ BufferBits \in Nat /\ Len(f) + n = BufferBits
    <2>1. cfg.bits + 1 + One(cfg.paron) \in 0..MaxBits + 2
      BY <1>1
    <2> QED
      BY <2>1, <1>7, <1>1 DEF BufferBits
  <1>9. o \in Seq(Bit) /\ Len(o) = n /\ \A i \in 1..n : o[i] = 1
    <2> HIDE DEF n
    <2>1. Ones(n) \in Seq(Bit) /\ Len(Ones(n)) = n /\ \A i \in 1..n : Ones(n)[i] = 1
      BY <1>8 DEF Ones, Bit
    <2> USE DEF n
    <2> QED
      BY <2>1
  <1>10. Frame(w) = f \o o
    BY DEF Frame, f, o, p, bit
  <1> HIDE DEF f, o, n
  <1>11. /\ f \o o \in Seq(Bit) /\ Len(f \o o) = BufferBits
         /\ \A i \in 1..Len(f) : (f \o o)[i] = f[i]
         /\ \A i \in Len(f) + 1..BufferBits : (f \o o)[i] = 1
    <2>1. f \o o \in Seq(Bit) /\ Len(f \o o) = BufferBits
      BY <1>7, <1>8, <1>9, SMTT(30)
    <2>2. \A i \in 1..Len(f) : (f \o o)[i] = f[i]
      BY <1>7, <1>8, <1>9
    <2>3. ASSUME NEW i \in Len(f) + 1..BufferBits PROVE (f \o o)[i] = 1
      <3>1. (f \o o)[i] = o[i - Len(f)] /\ i - Len(f) \in 1..n
        BY <1>7, <1>8, <1>9, SMTT(30)
      <3> QED
        BY <3>1, <1>9
    <2> QED
      BY <2>1, <2>2, <2>3
  <1>12. Frame(w) \in Word(BufferBits)
    BY <1>10, <1>11, <1>8, SeqWord
  <1>13. ASSUME NEW i \in 1..BufferBits PROVE Frame(w)[i] = LineBit(cfg, w, i - 1)
    <2>1. CASE i = 1
      <3>1. f[1] = 0
        BY <1>6, <1>7, <1>1, SMTT(30)
      <3> QED
        BY <2>1, <3>1, <1>10, <1>11, <1>7, <1>1 DEF LineBit
    <2>2. CASE i \in 2..cfg.bits + 1
      <3>1. f[i] = w[i - 1]
        BY <2>2, <1>6, <1>7, <1>1
      <3> QED
        BY <2>2, <3>1, <1>10, <1>11, <1>7, <1>1 DEF LineBit
    <2>3. CASE i = cfg.bits + 2 /\ cfg.paron
      <3>1. f[i] = bit /\ i \in 1..Len(f)
        BY <2>3, <1>7, <1>1 DEF One
      <3>2. LineBit(cfg, w, i - 1) = bit
        BY <2>3, <1>1 DEF LineBit, bit
      <3> QED
        BY <3>1, <3>2, <1>10, <1>11
    <2>4. CASE i > cfg.bits + 1 /\ ~(i = cfg.bits + 2 /\ cfg.paron)
      <3>1. i \in Len(f) + 1..BufferBits
        BY <2>4, <1>7, <1>1, <1>8 DEF One
      <3>2. LineBit(cfg, w, i - 1) = 1
        BY <2>4, <1>1 DEF LineBit
      <3> QED
        BY <3>1, <3>2, <1>10, <1>11
    <2> QED
      BY <2>1, <2>2, <2>3, <2>4, <1>1, <1>8
  <1> QED
    BY <1>12, <1>13

-----------------------------------------------------------------------------
\* The receiver, one lemma for each state.

\* The flags after a cycle in which no character is complete.
FlagsKept(a) ==
    /\ rx'.rc <=> (rx.rc /\ a.reg # "DATA")
    /\ rx'.fe => rx.fe
    /\ rx'.pe => rx.pe

\* A read of the data register clears the flags and leaves the machine.
LEMMA ReadFields ==
    ASSUME rx \in RxRecord, NEW a
    PROVE  /\ Read(a) \in RxRecord
           /\ Read(a).state = rx.state /\ Read(a).timer = rx.timer
           /\ Read(a).count = rx.count /\ Read(a).buffer = rx.buffer
           /\ Read(a).rc <=> (rx.rc /\ a.reg # "DATA")
           /\ Read(a).fe => rx.fe
           /\ Read(a).pe => rx.pe
PROOF
  BY DEF Read, RxRecord

\* An idle receiver waits for the synchronised pin to fall.
LEMMA ReceiveIdle ==
    ASSUME cfg \in Configs, rx \in RxRecord, rxd \in Bit, NEW a, Receive(a),
           rx.state = "idle"
    PROVE  /\ rx' \in RxRecord /\ FlagsKept(a)
           /\ rx'.sync = rxd /\ rx'.buffer = rx.buffer
           /\ rx.sync = 0 => rx'.state = "wait" /\ rx'.timer = Half
           /\ rx.sync = 1 => rx'.state = "idle"
PROOF
  <1>1. Half \in 0..cfg.baud
    BY Settings
  <1>2. rx' = [RxIdle(Read(a)) EXCEPT !.sync = rxd]
    BY DEF Receive
  <1> DEFINE r == Read(a)
  <1>3. /\ r \in RxRecord /\ r.state = "idle" /\ r.buffer = rx.buffer
        /\ r.rc <=> (rx.rc /\ a.reg # "DATA")
        /\ r.fe => rx.fe
        /\ r.pe => rx.pe
    BY ReadFields
  <1> HIDE DEF r
  <1>4. rx' = [RxIdle(r) EXCEPT !.sync = rxd]
    BY <1>2 DEF r
  <1>5. CASE rx.sync = 0
    <2>1. rx' = [r EXCEPT !.timer = Half, !.state = "wait", !.sync = rxd]
      BY <1>4, <1>5, <1>3 DEF RxIdle, Half, RxRecord
    <2>7. rx' \in RxRecord
      BY <2>1, <1>1, <1>3 DEF RxRecord
    <2>8. rx'.rc = r.rc /\ rx'.fe = r.fe /\ rx'.pe = r.pe /\ rx'.sync = rxd
      BY <2>1, <1>3 DEF RxRecord
    <2>9. rx'.buffer = r.buffer /\ rx'.state = "wait" /\ rx'.timer = Half
      BY <2>1, <1>3 DEF RxRecord
    <2> QED
      BY <2>7, <2>8, <2>9, <1>3, <1>5 DEF FlagsKept
  <1>6. CASE rx.sync = 1
    <2>1. rx' = [r EXCEPT !.sync = rxd]
      BY <1>4, <1>6 DEF RxIdle
    <2> QED
      BY <2>1, <1>3, <1>6 DEF RxRecord, FlagsKept
  <1> QED
    BY <1>5, <1>6 DEF RxRecord, Bit

\* The receive buffer as the start of a frame clears it.
LEMMA ZerosWord == Zeros \in Word(MaxBits)
PROOF
  BY DEF Zeros, Word, Bit

\* Half a bit after the edge the receiver looks for the start bit again.
LEMMA ReceiveWait ==
    ASSUME cfg \in Configs, rx \in RxRecord, rxd \in Bit, NEW a, Receive(a),
           rx.state = "wait"
    PROVE  /\ rx' \in RxRecord /\ FlagsKept(a)
           /\ rx'.sync = rxd /\ rx'.buffer = Zeros
           /\ rx.timer > 0 => rx'.state = "wait" /\ rx'.timer = rx.timer - 1
           /\ rx.timer = 0 /\ rx.sync = 0 =>
                  rx'.state = "iter" /\ rx'.timer = cfg.baud /\ rx'.count = cfg.bits
           /\ rx.timer = 0 /\ rx.sync = 1 => rx'.state = "fail"
PROOF
  <1>1. cfg.baud \in Nat /\ cfg.bits \in 1..MaxBits /\ MaxBits \in Nat
    BY Settings
  <1>m. cfg.baud \in 0..cfg.baud /\ cfg.bits \in 0..MaxBits
    BY <1>1
  <1>2. rx' = [RxWait(Read(a)) EXCEPT !.sync = rxd]
    BY DEF Receive
  <1> DEFINE r == Read(a)
  <1>3. /\ r \in RxRecord /\ r.state = "wait"
        /\ r.rc <=> (rx.rc /\ a.reg # "DATA")
        /\ r.fe => rx.fe
        /\ r.pe => rx.pe
    BY ReadFields
  <1> HIDE DEF r
  <1>4. rx' = [RxWait(r) EXCEPT !.sync = rxd]
    BY <1>2 DEF r
  <1>z. Zeros \in Word(MaxBits)
    BY ZerosWord
  <1>5. CASE rx.timer > 0
    <2>1. rx' = [r EXCEPT !.buffer = Zeros, !.timer = rx.timer - 1, !.sync = rxd]
      BY <1>4, <1>5, <1>3 DEF RxWait, RxRecord
    <2>2. rx.timer - 1 \in 0..cfg.baud
      BY <1>1, <1>5 DEF RxRecord
    <2>7. rx' \in RxRecord
      BY <2>1, <2>2, <1>z, <1>3 DEF RxRecord
    <2>8. rx'.rc = r.rc /\ rx'.fe = r.fe /\ rx'.pe = r.pe /\ rx'.sync = rxd
      BY <2>1, <1>3 DEF RxRecord
    <2>9. rx'.buffer = Zeros /\ rx'.state = "wait" /\ rx'.timer = rx.timer - 1
      BY <2>1, <1>3 DEF RxRecord
    <2> QED
      BY <2>7, <2>8, <2>9, <1>3, <1>5 DEF FlagsKept
  <1>6. CASE rx.timer = 0 /\ rx.sync = 0
    <2>1. rx' = [r EXCEPT !.buffer = Zeros, !.timer = cfg.baud, !.count = cfg.bits,
                          !.state = "iter", !.sync = rxd]
      BY <1>4, <1>6, <1>3 DEF RxWait, RxRecord
    <2>7. rx' \in RxRecord
      BY <2>1, <1>z, <1>m, <1>3 DEF RxRecord
    <2>8. rx'.rc = r.rc /\ rx'.fe = r.fe /\ rx'.pe = r.pe /\ rx'.sync = rxd
      BY <2>1, <1>3 DEF RxRecord
    <2>9. /\ rx'.buffer = Zeros /\ rx'.state = "iter"
          /\ rx'.timer = cfg.baud /\ rx'.count = cfg.bits
      BY <2>1, <1>3 DEF RxRecord
    <2> QED
      BY <2>7, <2>8, <2>9, <1>3, <1>6 DEF FlagsKept
  <1>7. CASE rx.timer = 0 /\ rx.sync = 1
    <2>1. rx' = [r EXCEPT !.buffer = Zeros, !.state = "fail", !.sync = rxd]
      BY <1>4, <1>7, <1>3 DEF RxWait, RxRecord
    <2>7. rx' \in RxRecord
      BY <2>1, <1>z, <1>m, <1>3 DEF RxRecord
    <2>8. rx'.rc = r.rc /\ rx'.fe = r.fe /\ rx'.pe = r.pe /\ rx'.sync = rxd
      BY <2>1, <1>3 DEF RxRecord
    <2>9. rx'.buffer = Zeros /\ rx'.state = "fail"
      BY <2>1, <1>3 DEF RxRecord
    <2> QED
      BY <2>7, <2>8, <2>9, <1>3, <1>7 DEF FlagsKept
  <1> QED
    BY <1>5, <1>6, <1>7, <1>1 DEF RxRecord, Bit

\* Shifting the pin into the receive buffer keeps its width.
LEMMA ShiftedInWord ==
    ASSUME cfg \in Configs, rx \in RxRecord
    PROVE  ShiftedIn \in Word(MaxBits)
PROOF
  <1>1. cfg.bits \in 1..MaxBits /\ MaxBits \in Nat
    BY Settings
  <1>2. rx.buffer \in [1..MaxBits -> Bit] /\ rx.sync \in Bit
    BY DEF RxRecord, Word
  <1> QED
    BY <1>1, <1>2 DEF ShiftedIn, Word

\* The receiver counts a bit, shifts in the pin and counts the bits down.
LEMMA ReceiveIter ==
    ASSUME cfg \in Configs, rx \in RxRecord, rxd \in Bit, NEW a, Receive(a),
           rx.state = "iter"
    PROVE  /\ rx' \in RxRecord /\ rx'.sync = rxd
           /\ rx'.rc <=> (rx.rc /\ a.reg # "DATA")
           /\ rx'.fe => rx.fe
           /\ rx.timer > 0 =>
                  /\ rx'.state = "iter" /\ rx'.timer = rx.timer - 1
                  /\ rx'.count = rx.count /\ rx'.buffer = rx.buffer
                  /\ rx'.pe => rx.pe
           /\ rx.timer = 0 /\ rx.count > 0 =>
                  /\ rx'.state = "iter" /\ rx'.timer = cfg.baud
                  /\ rx'.count = rx.count - 1 /\ rx'.buffer = ShiftedIn
                  /\ rx'.pe => rx.pe
           /\ rx.timer = 0 /\ rx.count = 0 /\ cfg.paron =>
                  /\ rx'.state = "parity" /\ rx'.timer = cfg.baud
                  /\ rx'.buffer = rx.buffer
                  /\ rx'.pe => ParityError
           /\ rx.timer = 0 /\ rx.count = 0 /\ ~cfg.paron =>
                  /\ rx'.state = "ready" /\ rx'.buffer = rx.buffer
                  /\ rx'.pe => rx.pe
PROOF
  <1>1. cfg.baud \in Nat /\ cfg.bits \in 1..MaxBits /\ MaxBits \in Nat
    BY Settings
  <1>m. cfg.baud \in 0..cfg.baud /\ cfg.bits \in 0..MaxBits
    BY <1>1
  <1>2. rx' = [RxIter(Read(a)) EXCEPT !.sync = rxd]
    BY DEF Receive
  <1> DEFINE r == Read(a)
  <1>3. /\ r \in RxRecord /\ r.state = "iter" /\ r.count = rx.count
        /\ r.buffer = rx.buffer
        /\ r.rc <=> (rx.rc /\ a.reg # "DATA")
        /\ r.fe => rx.fe
        /\ r.pe => rx.pe
    BY ReadFields
  <1> HIDE DEF r
  <1>4. rx' = [RxIter(r) EXCEPT !.sync = rxd]
    BY <1>2 DEF r
  <1>5. CASE rx.timer > 0
    <2>1. rx' = [r EXCEPT !.timer = rx.timer - 1, !.sync = rxd]
      BY <1>4, <1>5, <1>3 DEF RxIter, RxRecord
    <2>2. rx.timer - 1 \in 0..cfg.baud
      BY <1>1, <1>5 DEF RxRecord
    <2>7. rx' \in RxRecord
      BY <2>1, <2>2, <1>3 DEF RxRecord
    <2>8. rx'.rc = r.rc /\ rx'.fe = r.fe /\ rx'.pe = r.pe /\ rx'.sync = rxd
      BY <2>1, <1>3 DEF RxRecord
    <2>9. /\ rx'.buffer = r.buffer /\ rx'.state = "iter"
          /\ rx'.timer = rx.timer - 1 /\ rx'.count = r.count
      BY <2>1, <1>3 DEF RxRecord
    <2> QED
      BY <2>7, <2>8, <2>9, <1>3, <1>5
  <1>6. CASE rx.timer = 0 /\ rx.count > 0
    <2>1. rx' = [r EXCEPT !.timer = cfg.baud, !.count = rx.count - 1,
                          !.buffer = ShiftedIn, !.sync = rxd]
      BY <1>4, <1>6, <1>3 DEF RxIter, RxRecord
    <2>2. ShiftedIn \in Word(MaxBits) /\ rx.count - 1 \in 0..MaxBits
      BY <1>1, <1>6, ShiftedInWord DEF RxRecord
    <2>7. rx' \in RxRecord
      BY <2>1, <2>2, <1>m, <1>3 DEF RxRecord
    <2>8. rx'.rc = r.rc /\ rx'.fe = r.fe /\ rx'.pe = r.pe /\ rx'.sync = rxd
      BY <2>1, <1>3 DEF RxRecord
    <2>9. /\ rx'.buffer = ShiftedIn /\ rx'.state = "iter"
          /\ rx'.timer = cfg.baud /\ rx'.count = rx.count - 1
      BY <2>1, <1>3 DEF RxRecord
    <2> QED
      BY <2>7, <2>8, <2>9, <1>3, <1>6
  <1>7. CASE rx.timer = 0 /\ rx.count = 0 /\ cfg.paron
    <2>1. ParityError \in BOOLEAN
      BY DEF ParityError
    <2> DEFINE e == ParityError
    <2> HIDE DEF e
    <2>2. rx' = [r EXCEPT !.timer = cfg.baud, !.pe = e,
                          !.state = "parity", !.sync = rxd]
      BY <1>4, <1>7, <1>3 DEF RxIter, RxRecord, e
    <2>3. e \in BOOLEAN
      BY <2>1 DEF e
    <2>4. rx' \in RxRecord
      BY <2>2, <2>3, <1>m, <1>3 DEF RxRecord
    <2>5. rx'.pe = e /\ rx'.rc = r.rc /\ rx'.fe = r.fe /\ rx'.sync = rxd
      BY <2>2, <1>3 DEF RxRecord
    <2>6. rx'.state = "parity" /\ rx'.timer = cfg.baud /\ rx'.buffer = r.buffer
      BY <2>2, <1>3 DEF RxRecord
    <2> QED
      BY <2>4, <2>5, <2>6, <1>3, <1>7 DEF e
  <1>8. CASE rx.timer = 0 /\ rx.count = 0 /\ ~cfg.paron
    <2>1. rx' = [r EXCEPT !.state = "ready", !.sync = rxd]
      BY <1>4, <1>8, <1>3 DEF RxIter, RxRecord
    <2>7. rx' \in RxRecord
      BY <2>1, <1>1, <1>3 DEF RxRecord
    <2>8. rx'.rc = r.rc /\ rx'.fe = r.fe /\ rx'.pe = r.pe /\ rx'.sync = rxd
      BY <2>1, <1>3 DEF RxRecord
    <2>9. rx'.buffer = r.buffer /\ rx'.state = "ready"
      BY <2>1, <1>3 DEF RxRecord
    <2> QED
      BY <2>7, <2>8, <2>9, <1>3, <1>8
  <1> QED
    BY <1>5, <1>6, <1>7, <1>8, <1>1 DEF RxRecord

\* The receiver counts a bit and compares the parity.
LEMMA ReceiveParity ==
    ASSUME cfg \in Configs, rx \in RxRecord, rxd \in Bit, NEW a, Receive(a),
           rx.state = "parity"
    PROVE  /\ rx' \in RxRecord /\ FlagsKept(a)
           /\ rx'.sync = rxd /\ rx'.buffer = rx.buffer
           /\ rx.timer > 0 => rx'.state = "parity" /\ rx'.timer = rx.timer - 1
           /\ rx.timer = 0 => rx'.state = "ready"
PROOF
  <1>1. cfg.baud \in Nat
    BY Settings
  <1>2. rx' = [RxParity(Read(a)) EXCEPT !.sync = rxd]
    BY DEF Receive
  <1> DEFINE r == Read(a)
  <1>3. /\ r \in RxRecord /\ r.state = "parity" /\ r.buffer = rx.buffer
        /\ r.rc <=> (rx.rc /\ a.reg # "DATA")
        /\ r.fe => rx.fe
        /\ r.pe => rx.pe
    BY ReadFields
  <1> HIDE DEF r
  <1>4. rx' = [RxParity(r) EXCEPT !.sync = rxd]
    BY <1>2 DEF r
  <1>5. CASE rx.timer > 0
    <2>1. rx' = [r EXCEPT !.timer = rx.timer - 1, !.sync = rxd]
      BY <1>4, <1>5, <1>3 DEF RxParity, RxRecord
    <2>2. rx.timer - 1 \in 0..cfg.baud
      BY <1>1, <1>5 DEF RxRecord
    <2>7. rx' \in RxRecord
      BY <2>1, <2>2, <1>3 DEF RxRecord
    <2>8. rx'.rc = r.rc /\ rx'.fe = r.fe /\ rx'.pe = r.pe /\ rx'.sync = rxd
      BY <2>1, <1>3 DEF RxRecord
    <2>9. rx'.buffer = r.buffer /\ rx'.state = "parity" /\ rx'.timer = rx.timer - 1
      BY <2>1, <1>3 DEF RxRecord
    <2> QED
      BY <2>7, <2>8, <2>9, <1>3, <1>5 DEF FlagsKept
  <1>6. CASE rx.timer = 0
    <2>1. rx' = [r EXCEPT !.state = "ready", !.sync = rxd]
      BY <1>4, <1>6, <1>3 DEF RxParity, RxRecord
    <2>7. rx' \in RxRecord
      BY <2>1, <1>3 DEF RxRecord
    <2>8. rx'.rc = r.rc /\ rx'.fe = r.fe /\ rx'.pe = r.pe /\ rx'.sync = rxd
      BY <2>1, <1>3 DEF RxRecord
    <2>9. rx'.buffer = r.buffer /\ rx'.state = "ready"
      BY <2>1, <1>3 DEF RxRecord
    <2> QED
      BY <2>7, <2>8, <2>9, <1>3, <1>6 DEF FlagsKept
  <1> QED
    BY <1>5, <1>6, <1>1 DEF RxRecord

\* A line that is low where a word of zeros should stop is a break; any other
\* word is complete and its frame flag says whether the stop bit was there.
LEMMA ReceiveReady ==
    ASSUME rx \in RxRecord, rxd \in Bit, NEW a, Receive(a),
           rx.state = "ready"
    PROVE  /\ rx' \in RxRecord
           /\ rx'.sync = rxd /\ rx'.buffer = rx.buffer
           /\ rx'.pe => rx.pe
           /\ rx.sync = 0 /\ rx.buffer = Zeros =>
                  rx'.state = "break" /\ FlagsKept(a)
           /\ rx.sync = 1 => rx'.state = "idle" /\ rx'.rc /\ (rx'.fe => rx.fe)
PROOF
  <1>2. rx' = [RxReady(Read(a)) EXCEPT !.sync = rxd]
    BY DEF Receive
  <1> DEFINE r == Read(a)
             e == r.fe \/ rx.sync = 0
  <1>3. /\ r \in RxRecord /\ r.state = "ready" /\ r.buffer = rx.buffer
        /\ r.rc <=> (rx.rc /\ a.reg # "DATA")
        /\ r.fe => rx.fe
        /\ r.pe => rx.pe
    BY ReadFields
  <1> HIDE DEF r
  <1>4. rx' = [RxReady(r) EXCEPT !.sync = rxd]
    BY <1>2 DEF r
  <1>b. rx.buffer \in Word(MaxBits) /\ rx.sync \in Bit
    BY DEF RxRecord
  <1>5. CASE rx.sync = 0 /\ rx.buffer = Zeros
    <2>1. rx' = [r EXCEPT !.data = rx.buffer, !.state = "break", !.sync = rxd]
      BY <1>4, <1>5, <1>3 DEF RxReady, RxRecord
    <2>7. rx' \in RxRecord
      BY <2>1, <1>b, <1>3 DEF RxRecord
    <2>8. rx'.rc = r.rc /\ rx'.fe = r.fe /\ rx'.pe = r.pe /\ rx'.sync = rxd
      BY <2>1, <1>3 DEF RxRecord
    <2>9. rx'.buffer = r.buffer /\ rx'.state = "break"
      BY <2>1, <1>3 DEF RxRecord
    <2> QED
      BY <2>7, <2>8, <2>9, <1>3, <1>5 DEF FlagsKept
  <1>6. CASE ~(rx.sync = 0 /\ rx.buffer = Zeros)
    <2>1. e \in BOOLEAN /\ (rx.sync = 1 /\ e => rx.fe)
      BY <1>3 DEF RxRecord
    <2>2. rx' = [[[r EXCEPT !.data = rx.buffer] EXCEPT !.fe = e, !.rc = TRUE,
                          !.state = "idle"] EXCEPT !.sync = rxd]
      <3>1. [r EXCEPT !.data = rx.buffer].fe = r.fe
        BY <1>3 DEF RxRecord
      <3> QED
        BY <3>1, <1>4, <1>6, <1>3 DEF RxReady
    <2> HIDE DEF e
    <2>3. /\ rx' \in RxRecord /\ rx'.sync = rxd /\ rx'.buffer = r.buffer
          /\ rx'.fe = e /\ rx'.rc = TRUE /\ rx'.pe = r.pe /\ rx'.state = "idle"
      BY <2>2, <2>1, <1>b, <1>3 DEF RxRecord
    <2> QED
      BY <2>1, <2>3, <1>3, <1>6
  <1> QED
    BY <1>5, <1>6

\* After a frame without a stop bit the receiver waits for the line to rise.
LEMMA ReceiveBreak ==
    ASSUME rx \in RxRecord, rxd \in Bit, NEW a, Receive(a), rx.state = "break"
    PROVE  /\ rx' \in RxRecord /\ FlagsKept(a) /\ rx'.sync = rxd
           /\ rx.sync = 0 => rx'.state = "break"
           /\ rx.sync = 1 => rx'.state = "idle"
PROOF
  <1>2. rx' = [RxBreak(Read(a)) EXCEPT !.sync = rxd]
    BY DEF Receive
  <1> DEFINE r == Read(a)
  <1>3. /\ r \in RxRecord /\ r.state = "break"
        /\ r.rc <=> (rx.rc /\ a.reg # "DATA")
        /\ r.fe => rx.fe
        /\ r.pe => rx.pe
    BY ReadFields
  <1> HIDE DEF r
  <1>4. rx' = [RxBreak(r) EXCEPT !.sync = rxd]
    BY <1>2 DEF r
  <1>5. CASE rx.sync = 1
    <2>1. rx' = [r EXCEPT !.state = "idle", !.br = TRUE, !.sync = rxd]
      BY <1>4, <1>5, <1>3 DEF RxBreak, RxRecord
    <2>7. rx' \in RxRecord
      BY <2>1, <1>3 DEF RxRecord
    <2>8. rx'.rc = r.rc /\ rx'.fe = r.fe /\ rx'.pe = r.pe /\ rx'.sync = rxd
      BY <2>1, <1>3 DEF RxRecord
    <2>9. rx'.state = "idle"
      BY <2>1, <1>3 DEF RxRecord
    <2> QED
      BY <2>7, <2>8, <2>9, <1>3, <1>5 DEF FlagsKept
  <1>6. CASE rx.sync = 0
    <2>1. rx' = [r EXCEPT !.sync = rxd]
      BY <1>4, <1>6 DEF RxBreak
    <2> QED
      BY <2>1, <1>3, <1>6 DEF RxRecord, FlagsKept
  <1> QED
    BY <1>5, <1>6 DEF RxRecord, Bit

\* A start bit that was not there brings the receiver back to idle.
LEMMA ReceiveFail ==
    ASSUME rx \in RxRecord, rxd \in Bit, NEW a, Receive(a), rx.state = "fail"
    PROVE  /\ rx' \in RxRecord /\ FlagsKept(a) /\ rx'.sync = rxd
           /\ rx'.state = "idle"
PROOF
  <1>2. rx' = [RxFail(Read(a)) EXCEPT !.sync = rxd]
    BY DEF Receive
  <1> DEFINE r == Read(a)
  <1>3. /\ r \in RxRecord
        /\ r.rc <=> (rx.rc /\ a.reg # "DATA")
        /\ r.fe => rx.fe
        /\ r.pe => rx.pe
    BY ReadFields
  <1> HIDE DEF r
  <1>4. rx' = [r EXCEPT !.state = "idle", !.rf = TRUE, !.sync = rxd]
    BY <1>2, <1>3 DEF r, RxFail, RxRecord
  <1> QED
    BY <1>3, <1>4 DEF RxRecord, FlagsKept

\* No state of the receiver leaves the types of its registers.
LEMMA ReceiveType ==
    ASSUME cfg \in Configs, rx \in RxRecord, rxd \in Bit, NEW a, Receive(a)
    PROVE  rx' \in RxRecord
PROOF
  <1>1. rx.state \in {"idle", "wait", "iter", "parity", "ready", "break", "fail"}
    BY DEF RxRecord
  <1> QED
    BY <1>1, ReceiveIdle, ReceiveWait, ReceiveIter, ReceiveParity, ReceiveReady,
       ReceiveBreak, ReceiveFail

-----------------------------------------------------------------------------
\* The transmitter, one lemma for each phase.

\* What a bus access does to the transmitter before its state machine runs.
LEMMA WrittenFields ==
    ASSUME cfg \in Configs, tx \in TxRecord, NEW b,
           b.reg = "DATA" => b.word \in Word(cfg.bits)
    PROVE  /\ Written(b) \in TxRecord
           /\ Written(b).state = tx.state /\ Written(b).txd = tx.txd
           /\ b.reg # "DATA" =>
                  /\ ~Written(b).txstart /\ Written(b).tc = tx.tc
                  /\ Written(b).buffer = tx.buffer
                  /\ Written(b).timer = tx.timer /\ Written(b).count = tx.count
           /\ b.reg = "DATA" =>
                  /\ Written(b).txstart /\ ~Written(b).tc
                  /\ Written(b).buffer = Frame(b.word)
PROOF
  <1>1. CASE b.reg = "DATA"
    <2> DEFINE f == Frame(b.word)
    <2>1. f \in Word(BufferBits)
      BY <1>1, FrameBitsOf
    <2>2. Written(b) = [[tx EXCEPT !.txstart = FALSE] EXCEPT
                            !.txstart = TRUE, !.buffer = f, !.tc = FALSE]
      BY <1>1 DEF Written
    <2> HIDE DEF f
    <2>3. Written(b) \in TxRecord
      BY <2>1, <2>2 DEF TxRecord
    <2>4. Written(b).state = tx.state /\ Written(b).txd = tx.txd
          /\ Written(b).buffer = f
      BY <2>2 DEF TxRecord
    <2>5. Written(b).txstart = TRUE /\ Written(b).tc = FALSE
      BY <2>2 DEF TxRecord
    <2> QED
      BY <2>3, <2>4, <2>5, <1>1 DEF f
  <1>2. CASE b.reg # "DATA"
    <2>1. Written(b) = [tx EXCEPT !.txstart = FALSE]
      BY <1>2 DEF Written
    <2>2. Written(b) \in TxRecord
      BY <2>1 DEF TxRecord
    <2>3. /\ Written(b).state = tx.state /\ Written(b).txd = tx.txd
          /\ Written(b).buffer = tx.buffer
          /\ Written(b).timer = tx.timer /\ Written(b).count = tx.count
      BY <2>1 DEF TxRecord
    <2>4. Written(b).txstart = FALSE /\ Written(b).tc = tx.tc
      BY <2>1 DEF TxRecord
    <2> QED
      BY <2>2, <2>3, <2>4, <1>2
  <1> QED
    BY <1>1, <1>2

\* An idle transmitter that has nothing to send; a write starts it.
LEMMA TransmitQuiet ==
    ASSUME cfg \in Configs, tx \in TxRecord, Quiet, NEW b, Transmit(b),
           b.reg = "DATA" => b.word \in Word(cfg.bits)
    PROVE  /\ tx' \in TxRecord
           /\ tx'.state = "idle" /\ tx'.txd = 1
           /\ b.reg # "DATA" => ~tx'.txstart /\ tx'.tc = tx.tc
           /\ b.reg = "DATA" => tx'.txstart /\ ~tx'.tc /\ tx'.buffer = Frame(b.word)
PROOF
  <1> DEFINE t == Written(b)
  <1>1. tx' = [t EXCEPT !.txd = 1]
    BY DEF Transmit, TxIdle, Quiet
  <1>2. /\ t \in TxRecord /\ t.state = "idle"
        /\ b.reg # "DATA" => ~t.txstart /\ t.tc = tx.tc
        /\ b.reg = "DATA" => t.txstart /\ ~t.tc /\ t.buffer = Frame(b.word)
    BY WrittenFields DEF Quiet
  <1> HIDE DEF t
  <1>3. tx' \in TxRecord
    BY <1>1, <1>2 DEF TxRecord, Bit
  <1>4. tx'.state = t.state /\ tx'.txd = 1 /\ tx'.buffer = t.buffer
    BY <1>1, <1>2 DEF TxRecord
  <1>5. tx'.txstart = t.txstart /\ tx'.tc = t.tc
    BY <1>1, <1>2 DEF TxRecord
  <1> QED
    BY <1>2, <1>3, <1>4, <1>5

\* The start bit leaves the idle transmitter a cycle after the write.
LEMMA TransmitStarting ==
    ASSUME cfg \in Configs, tx \in TxRecord, NEW c \in Word(CharBits), TxStarting(c),
           NEW b, b.reg # "DATA", Transmit(b), cfg' = cfg
    PROVE  tx' \in TxRecord /\ TxSending(c)' /\ BitsSent' = 0 /\ Into' = 0
PROOF
  <1> DEFINE t == Written(b)
  <1>q. PICK w : w = Extended(c)
    OBVIOUS
  <1>1. tx' = [t EXCEPT !.txd = 1, !.timer = cfg.baud, !.count = TxBits, !.state = "iter"]
    BY DEF Transmit, TxIdle, TxStarting
  <1>2. /\ t \in TxRecord /\ ~t.txstart /\ t.tc = tx.tc /\ t.buffer = tx.buffer
    BY WrittenFields
  <1> HIDE DEF t
  <1>s. /\ cfg.baud \in Nat /\ cfg.baud \in 0..cfg.baud
        /\ TxBits \in 2..MaxBits + 3 /\ TxBits \in 0..MaxBits + 3
        /\ MaxBits \in Nat
    BY Settings
  <1>3. tx' \in TxRecord
    BY <1>1, <1>2, <1>s DEF TxRecord, Bit
  <1>4. tx'.state = "iter" /\ tx'.txd = 1 /\ tx'.buffer = tx.buffer
        /\ tx'.timer = cfg.baud /\ tx'.count = TxBits
    BY <1>1, <1>2 DEF TxRecord
  <1>5. tx'.txstart = t.txstart /\ tx'.tc = t.tc
    BY <1>1, <1>2 DEF TxRecord
  <1>6. TxBits' = TxBits
    BY DEF TxBits
  <1>7. BitsSent' = 0 /\ Into' = 0
    BY <1>4, <1>6, <1>s DEF BitsSent, Into
  <1>8. w \in Word(cfg.bits)
    BY <1>q, ExtendedWord
  <1>e. w = Extended(c)' /\ cfg' = cfg /\ BufferBits' = BufferBits /\ BufferBits \in Nat
    BY <1>q, <1>s DEF Extended, BufferBits
  <1>9. ASSUME NEW i \in 1..BufferBits PROVE tx'.buffer[i] = LineBit(cfg, w, 0 + i - 1)
    <2>1. tx'.buffer[i] = LineBit(cfg, w, i - 1)
      BY <1>4, <1>8, <1>q, FrameBitsOf DEF TxStarting
    <2>2. 0 + i - 1 = i - 1
      BY <1>e
    <2> QED
      BY <2>1, <2>2
  <1>10. tx'.txd = Late(cfg, w, 0, 0, 1)
    BY <1>4 DEF Late
  <1>11. TxSending(c)'
    <2>1. \A i \in 1..BufferBits : tx'.buffer[i] = LineBit(cfg, w, BitsSent' + i - 1)
      BY <1>7, <1>9
    <2>2. tx'.txd = Late(cfg, w, BitsSent', Into', 1)
      BY <1>7, <1>4 DEF Late
    <2>3. BitsSent' \in 0..TxBits' /\ Into' \in 0..cfg'.baud
      BY <1>6, <1>7, <1>s
    <2>4. tx'.state = "iter" /\ ~tx'.txstart /\ ~tx'.tc
      BY <1>4, <1>5, <1>2 DEF TxStarting
    <2> QED
      BY <2>1, <2>2, <2>3, <2>4, <1>e DEF TxSending
  <1> QED
    BY <1>3, <1>7, <1>11

\* The transmitter counts a bit, shifts and ends after the last stop bit.
LEMMA TransmitSending ==
    ASSUME cfg \in Configs, tx \in TxRecord, NEW c \in Word(CharBits), TxSending(c),
           NEW b, b.reg # "DATA", Transmit(b), cfg' = cfg
    PROVE  /\ tx' \in TxRecord
           /\ \/ Into < cfg.baud /\ TxSending(c)' /\ BitsSent' = BitsSent /\ Into' = Into + 1
              \/ /\ Into = cfg.baud /\ BitsSent < TxBits
                 /\ TxSending(c)' /\ BitsSent' = BitsSent + 1 /\ Into' = 0
              \/ Into = cfg.baud /\ BitsSent = TxBits /\ TxEnding'
PROOF
  <1> DEFINE t == Written(b)
  <1>q. PICK w : w = Extended(c)
    OBVIOUS
  <1> DEFINE d == LineBit(cfg, w, BitsSent)
  <1>s. /\ cfg.baud \in Nat /\ cfg.baud \in 0..cfg.baud
        /\ TxBits \in 2..MaxBits + 3 /\ MaxBits \in Nat
        /\ TxBits = Last + One(cfg.sp2) /\ Last \in Nat /\ One(cfg.sp2) \in {0, 1}
        /\ cfg.bits \in Nat
    BY Settings
  <1>w. w \in Word(cfg.bits)
    BY <1>q, ExtendedWord
  <1>e. w = Extended(c)' /\ cfg' = cfg /\ BufferBits' = BufferBits /\ BufferBits \in Nat \ {0, 1}
        /\ TxBits' = TxBits /\ BufferBits = MaxBits + 2
    BY <1>q, <1>s DEF Extended, BufferBits, TxBits
  <1>p. /\ BitsSent \in 0..TxBits /\ Into \in 0..cfg.baud
        /\ tx.timer = cfg.baud - Into /\ tx.count = TxBits - BitsSent
        /\ tx.timer \in Nat /\ tx.count \in Nat
    BY <1>s DEF TxSending, TxRecord, BitsSent, Into
  <1>b. \A i \in 1..BufferBits : tx.buffer[i] = LineBit(cfg, w, BitsSent + i - 1)
    BY <1>q DEF TxSending
  <1>d. tx.buffer[1] = d /\ d \in Bit
    <2>1. tx.buffer[1] = LineBit(cfg, w, BitsSent + 1 - 1) /\ BitsSent + 1 - 1 = BitsSent
      BY <1>b, <1>e, <1>p
    <2> QED
      BY <2>1, <1>w, <1>p, LineBitType
  <1> HIDE DEF d
  <1>1. tx' = TxIter(t)
    BY DEF Transmit, TxSending
  <1>2. /\ t \in TxRecord /\ ~t.txstart /\ t.tc = tx.tc /\ t.buffer = tx.buffer
        /\ t.state = "iter" /\ t.timer = tx.timer /\ t.count = tx.count
    BY WrittenFields DEF TxSending
  <1> HIDE DEF t
  <1>3. CASE Into < cfg.baud
    <2>1. tx.timer > 0
      BY <1>3, <1>p, <1>s
    <2>2. tx' = [t EXCEPT !.txd = d, !.timer = tx.timer - 1]
      BY <1>1, <2>1, <1>d, <1>2 DEF TxIter, TxRecord
    <2>3. tx.timer - 1 \in 0..cfg.baud
      BY <2>1, <1>p, <1>s
    <2>4. tx' \in TxRecord
      BY <2>2, <2>3, <1>d, <1>2 DEF TxRecord
    <2>5. tx'.state = "iter" /\ tx'.txd = d /\ tx'.buffer = tx.buffer
          /\ tx'.timer = tx.timer - 1 /\ tx'.count = tx.count
      BY <2>2, <1>2 DEF TxRecord
    <2>6. tx'.txstart = t.txstart /\ tx'.tc = t.tc
      BY <2>2, <1>2 DEF TxRecord
    <2>7. BitsSent' = BitsSent /\ Into' = Into + 1
      BY <2>5, <1>e, <1>p, <1>s DEF BitsSent, Into
    <2>8. \A i \in 1..BufferBits : tx'.buffer[i] = LineBit(cfg, w, BitsSent' + i - 1)
      BY <2>5, <2>7, <1>b
    <2>9. tx'.txd = Late(cfg, w, BitsSent', Into', 1)
      <3>1. Into + 1 >= 1
        BY <1>p, <1>s
      <3>2. Late(cfg, w, BitsSent', Into', 1) = LineBit(cfg, w, BitsSent)
        BY <2>7, <3>1 DEF Late
      <3> QED
        BY <2>5, <3>2 DEF d
    <2>10. BitsSent' \in 0..TxBits' /\ Into' \in 0..cfg'.baud
      BY <2>7, <1>e, <1>p, <1>s, <1>3
    <2>11. tx'.state = "iter" /\ ~tx'.txstart /\ ~tx'.tc
      BY <2>5, <2>6, <1>2 DEF TxSending
    <2>12. TxSending(c)'
      BY <2>8, <2>9, <2>10, <2>11, <1>e DEF TxSending
    <2> QED
      BY <2>4, <2>7, <2>12, <1>3
  <1>4. CASE Into = cfg.baud /\ BitsSent < TxBits
    <2> DEFINE k == Append(Tail(tx.buffer), 1)
    <2>1. tx.timer = 0 /\ tx.count > 0
      BY <1>4, <1>p, <1>s
    <2>2. tx.buffer \in Seq(Bit) /\ Len(tx.buffer) = BufferBits
      <3>1. tx.buffer \in Word(BufferBits)
        BY DEF TxRecord
      <3> QED
        BY <3>1, <1>e, WordSeq
    <2>3. /\ k \in Seq(Bit) /\ Len(k) = BufferBits
          /\ \A i \in 1..BufferBits - 1 : k[i] = tx.buffer[i + 1]
          /\ k[BufferBits] = 1
      <3>1. /\ Tail(tx.buffer) \in Seq(Bit) /\ Len(Tail(tx.buffer)) = BufferBits - 1
            /\ \A i \in 1..BufferBits - 1 : Tail(tx.buffer)[i] = tx.buffer[i + 1]
        BY <2>2, <1>e
      <3> QED
        BY <3>1, <1>e DEF Bit
    <2> HIDE DEF k
    <2>k. k \in Word(BufferBits)
      BY <2>3, <1>e, SeqWord
    <2>4. tx' = [t EXCEPT !.txd = d, !.timer = cfg.baud, !.count = tx.count - 1,
                          !.buffer = k]
      BY <1>1, <2>1, <1>d, <1>2 DEF TxIter, TxRecord, k
    <2>5. tx.count - 1 \in 0..MaxBits + 3
      BY <2>1, <1>p, <1>s
    <2>6. tx' \in TxRecord
      BY <2>4, <2>5, <2>k, <1>s, <1>d, <1>2 DEF TxRecord
    <2>7. tx'.state = "iter" /\ tx'.txd = d /\ tx'.buffer = k
          /\ tx'.timer = cfg.baud /\ tx'.count = tx.count - 1
      BY <2>4, <1>2 DEF TxRecord
    <2>8. tx'.txstart = t.txstart /\ tx'.tc = t.tc
      BY <2>4, <1>2 DEF TxRecord
    <2>9. BitsSent' = BitsSent + 1 /\ Into' = 0
      BY <2>7, <1>e, <1>p, <1>s DEF BitsSent, Into
    <2>10. ASSUME NEW i \in 1..BufferBits
           PROVE  tx'.buffer[i] = LineBit(cfg, w, BitsSent + 1 + i - 1)
      <3>1. CASE i < BufferBits
        <4>1. i + 1 \in 1..BufferBits /\ i \in 1..BufferBits - 1
              /\ BitsSent + (i + 1) - 1 = BitsSent + 1 + i - 1
          BY <3>1, <1>e, <1>p
        <4>2. PICK z \in 1..BufferBits : z = i + 1
          BY <4>1
        <4>3. tx.buffer[z] = LineBit(cfg, w, BitsSent + z - 1)
          BY <1>b
        <4> QED
          BY <4>1, <4>2, <4>3, <2>3, <2>7
      <3>2. CASE i = BufferBits
        <4>1. BitsSent + 1 + i - 1 > cfg.bits + 1 /\ BitsSent + 1 + i - 1 # 0
              /\ ~(BitsSent + 1 + i - 1 = cfg.bits + 1)
              /\ ~(BitsSent + 1 + i - 1 <= cfg.bits)
          BY <3>2, <1>e, <1>p, <1>s, Settings
        <4>2. LineBit(cfg, w, BitsSent + 1 + i - 1) = 1
          BY <4>1 DEF LineBit
        <4> QED
          BY <3>2, <4>2, <2>3, <2>7
      <3> QED
        BY <3>1, <3>2, <1>e
    <2>11. \A i \in 1..BufferBits : tx'.buffer[i] = LineBit(cfg, w, BitsSent' + i - 1)
      BY <2>9, <2>10
    <2>12. tx'.txd = Late(cfg, w, BitsSent', Into', 1)
      <3>1. BitsSent + 1 >= 1 /\ ~(0 >= 1) /\ (BitsSent + 1) - 1 = BitsSent
        BY <1>p, <1>s
      <3>2. Late(cfg, w, BitsSent', Into', 1) = LineBit(cfg, w, BitsSent)
        BY <2>9, <3>1 DEF Late
      <3> QED
        BY <2>7, <3>2 DEF d
    <2>13. BitsSent' \in 0..TxBits' /\ Into' \in 0..cfg'.baud
      BY <2>9, <1>e, <1>p, <1>s, <1>4
    <2>14. tx'.state = "iter" /\ ~tx'.txstart /\ ~tx'.tc
      BY <2>7, <2>8, <1>2 DEF TxSending
    <2>15. TxSending(c)'
      BY <2>11, <2>12, <2>13, <2>14, <1>e DEF TxSending
    <2> QED
      BY <2>6, <2>9, <2>15, <1>4
  <1>5. CASE Into = cfg.baud /\ BitsSent = TxBits
    <2>a. tx.timer = cfg.baud - Into /\ tx.count = TxBits - BitsSent
      BY <1>p
    <2>1. tx.timer = 0 /\ tx.count = 0 /\ ~(tx.timer > 0) /\ ~(tx.count > 0)
      <3>1. tx.timer = 0
        <4>1. cfg.baud \in Nat /\ Into = cfg.baud /\ tx.timer = cfg.baud - Into
          BY <1>s, <1>5, <2>a
        <4>2. cfg.baud - cfg.baud = 0
          BY <4>1
        <4>3. tx.timer = cfg.baud - cfg.baud
          BY <4>1, Zenon
        <4> QED
          BY <4>2, <4>3
      <3>2. tx.count = 0
        BY <2>a, <1>5, <1>s
      <3> QED
        BY <3>1, <3>2
    <2>2. tx' = [t EXCEPT !.txd = d, !.state = "ready"]
      BY <1>1, <2>1, <1>d, <1>2 DEF TxIter, TxRecord
    <2>3. tx' \in TxRecord
      BY <2>2, <1>d, <1>2 DEF TxRecord
    <2>4. tx'.state = "ready" /\ tx'.txd = d
      BY <2>2, <1>2 DEF TxRecord
    <2>5. tx'.txstart = t.txstart /\ tx'.tc = t.tc
      BY <2>2, <1>2 DEF TxRecord
    <2>6. d = 1
      BY <1>5, <1>s DEF d, LineBit, Last, One
    <2>7. TxEnding'
      BY <2>4, <2>5, <2>6, <1>2 DEF TxEnding, TxSending
    <2> QED
      BY <2>3, <2>7, <1>5
  <1> QED
    BY <1>3, <1>4, <1>5, <1>p, <1>s

\* The transmitter sets TC and falls idle.
LEMMA TransmitEnding ==
    ASSUME tx \in TxRecord, TxEnding, NEW b, b.reg # "DATA", Transmit(b), cfg' = cfg,
           cfg \in Configs
    PROVE  tx' \in TxRecord /\ Quiet'
PROOF
  <1> DEFINE t == Written(b)
  <1>1. tx' = [t EXCEPT !.txd = 1, !.state = "idle", !.tc = TRUE]
    BY DEF Transmit, TxReady, TxEnding
  <1>2. t \in TxRecord /\ ~t.txstart
    BY WrittenFields
  <1> HIDE DEF t
  <1>3. tx' \in TxRecord
    BY <1>1, <1>2 DEF TxRecord, Bit
  <1>4. tx'.state = "idle" /\ tx'.txd = 1
    BY <1>1, <1>2 DEF TxRecord
  <1>5. tx'.txstart = t.txstart
    BY <1>1, <1>2 DEF TxRecord
  <1> QED
    BY <1>2, <1>3, <1>4, <1>5 DEF Quiet

\* No state of the transmitter leaves the types of its registers.
LEMMA TransmitType ==
    ASSUME cfg \in Configs, tx \in TxRecord, NEW b, Transmit(b),
           b.reg = "DATA" => b.word \in Word(cfg.bits)
    PROVE  tx' \in TxRecord
PROOF
  <1> DEFINE t == Written(b)
  <1>1. t \in TxRecord
    BY WrittenFields
  <1>t. /\ tx.state = "idle" => tx' = TxIdle(t)
        /\ tx.state = "iter" => tx' = TxIter(t)
        /\ tx.state = "ready" => tx' = TxReady(t)
        /\ tx.state \in {"idle", "iter", "ready"}
    BY DEF Transmit, TxRecord
  <1> HIDE DEF t
  <1>s. /\ cfg.baud \in Nat /\ cfg.baud \in 0..cfg.baud /\ MaxBits \in Nat
        /\ TxBits \in 2..MaxBits + 3 /\ TxBits \in 0..MaxBits + 3
    BY Settings
  <1>b. 0 \in Bit /\ 1 \in Bit
    BY DEF Bit
  <1>2. CASE tx.state = "idle"
    <2>1. CASE tx.txstart
      <3>1. tx' = [t EXCEPT !.txd = 1, !.timer = cfg.baud, !.count = TxBits,
                            !.state = "iter"]
        BY <1>t, <1>2, <2>1 DEF TxIdle
      <3> QED
        BY <3>1, <1>1, <1>s, <1>b DEF TxRecord
    <2>2. CASE ~tx.txstart
      <3>1. tx' = [t EXCEPT !.txd = 1]
        BY <1>t, <1>2, <2>2 DEF TxIdle
      <3> QED
        BY <3>1, <1>1, <1>b DEF TxRecord
    <2> QED
      BY <2>1, <2>2
  <1>3. CASE tx.state = "iter"
    <2> DEFINE d == tx.buffer[1]
               k == Append(Tail(tx.buffer), 1)
    <2>1. tx.buffer \in Word(BufferBits) /\ BufferBits \in Nat \ {0, 1}
      BY <1>s DEF TxRecord, BufferBits
    <2>2. tx.buffer \in Seq(Bit) /\ Len(tx.buffer) = BufferBits
      BY <2>1, WordSeq
    <2>3. d \in Bit
      BY <2>1, <2>2
    <2>4. k \in Seq(Bit) /\ Len(k) = BufferBits
      BY <2>1, <2>2, <1>b
    <2> HIDE DEF d, k
    <2>5. k \in Word(BufferBits)
      BY <2>1, <2>4, SeqWord
    <2>6. CASE tx.timer > 0
      <3>1. tx' = [t EXCEPT !.txd = d, !.timer = tx.timer - 1]
        BY <1>t, <1>3, <2>6, <1>1 DEF TxIter, TxRecord, d
      <3>2. tx.timer - 1 \in 0..cfg.baud
        BY <2>6, <1>s DEF TxRecord
      <3> QED
        BY <3>1, <3>2, <2>3, <1>1 DEF TxRecord
    <2>7. CASE ~(tx.timer > 0) /\ tx.count > 0
      <3>1. tx' = [t EXCEPT !.txd = d, !.timer = cfg.baud, !.count = tx.count - 1,
                            !.buffer = k]
        BY <1>t, <1>3, <2>7, <1>1 DEF TxIter, TxRecord, d, k
      <3>2. tx.count - 1 \in 0..MaxBits + 3
        BY <2>7, <1>s DEF TxRecord
      <3> QED
        BY <3>1, <3>2, <2>3, <2>5, <1>s, <1>1 DEF TxRecord
    <2>8. CASE ~(tx.timer > 0) /\ ~(tx.count > 0)
      <3>1. tx' = [t EXCEPT !.txd = d, !.state = "ready"]
        BY <1>t, <1>3, <2>8, <1>1 DEF TxIter, TxRecord, d
      <3> QED
        BY <3>1, <2>3, <1>1 DEF TxRecord
    <2> QED
      BY <2>6, <2>7, <2>8
  <1>4. CASE tx.state = "ready"
    <2>1. tx' = [t EXCEPT !.txd = 1, !.state = "idle", !.tc = TRUE]
      BY <1>t, <1>4 DEF TxReady
    <2> QED
      BY <2>1, <1>1, <1>b DEF TxRecord
  <1> QED
    BY <1>t, <1>2, <1>3, <1>4

-----------------------------------------------------------------------------
\* One clock cycle: what the reader, the sender and the line do in it.

\* The reader makes access a and leaves the queue q.
Reads(a, q) ==
    /\ Receive(a)
    /\ get' \in [pc : {"poll", "read"}, gap : 0..GetDelay]
    /\ \/ /\ a.reg = "DATA" /\ get.pc = "read" /\ get'.pc = "poll" /\ q = Rest
          /\ got' = [char |-> SubSeq(rx.buffer, 1, CharBits), odd |-> ~got.odd]
       \/ /\ a.reg # "DATA" /\ q = queue /\ got' = got
          /\ rx.rc => Slack' >= Slack + 1
          /\ get'.pc = "read" => get.pc = "read" \/ rx.rc

\* The sender makes access b after the reader.
Quietly(b, q) ==
    /\ b.reg # "DATA" /\ queue' = q
    /\ put'.pc = put.pc \/ (tx.tc /\ put'.pc = "ready")
Puts(b, q, c) ==
    /\ b = [reg |-> "DATA", word |-> Extended(c)] /\ queue' = Append(q, c)
    /\ put.pc = "ready" /\ low = 0 /\ put'.pc = "poll"
Writes(b, q) ==
    /\ Transmit(b)
    /\ put' \in [pc : {"ready", "poll"}, gap : 0..PutDelay]
    /\ Quietly(b, q) \/ \E c \in Word(CharBits) : Puts(b, q, c)

Cycle(a, b, q) == /\ Reads(a, q) /\ Writes(b, q)
                  /\ Disturb \/ Undisturbed
                  /\ cfg' = cfg

\* The delays of the two programs stay within their bounds.
LEMMA Clocks ==
    ASSUME Synthesised
    PROVE  /\ At("poll") \in [pc : {"ready", "poll"}, gap : 0..PutDelay]
           /\ At("ready") \in [pc : {"ready", "poll"}, gap : 0..PutDelay]
           /\ At("poll") \in [pc : {"poll", "read"}, gap : 0..GetDelay]
           /\ At("read") \in [pc : {"poll", "read"}, gap : 0..GetDelay]
           /\ \A p : At(p).pc = p /\ At(p).gap = 0
           /\ Later(put, PutDelay) \in [pc : {"ready", "poll"}, gap : 0..PutDelay]
           /\ Later(put, PutDelay).pc = put.pc
           /\ Later(get, GetDelay) \in [pc : {"poll", "read"}, gap : 0..GetDelay]
           /\ Later(get, GetDelay).pc = get.pc
           /\ get.gap < GetDelay => Later(get, GetDelay).gap = get.gap + 1
PROOF
  <1>1. PutDelay \in Nat \ {0} /\ GetDelay \in Nat \ {0}
    BY UartAssumption
  <1>2. /\ At("poll") \in [pc : {"ready", "poll"}, gap : 0..PutDelay]
        /\ At("ready") \in [pc : {"ready", "poll"}, gap : 0..PutDelay]
        /\ At("poll") \in [pc : {"poll", "read"}, gap : 0..GetDelay]
        /\ At("read") \in [pc : {"poll", "read"}, gap : 0..GetDelay]
        /\ \A p : At(p).pc = p /\ At(p).gap = 0
    BY <1>1 DEF At
  <1>3. /\ put \in [pc : {"ready", "poll"}, gap : 0..PutDelay]
        /\ get \in [pc : {"poll", "read"}, gap : 0..GetDelay]
    BY DEF Synthesised, Registers
  <1>4. /\ Later(put, PutDelay) \in [pc : {"ready", "poll"}, gap : 0..PutDelay]
        /\ Later(put, PutDelay).pc = put.pc
    <2>1. CASE put.gap < PutDelay
      <3>1. Later(put, PutDelay) = [put EXCEPT !.gap = put.gap + 1]
        BY <2>1, <1>3 DEF Later
      <3>2. put.gap + 1 \in 0..PutDelay
        BY <1>1, <1>3, <2>1
      <3> QED
        BY <3>1, <3>2, <1>3
    <2>2. CASE ~(put.gap < PutDelay)
      <3>1. Later(put, PutDelay) = [put EXCEPT !.gap = put.gap]
        BY <2>2, <1>3 DEF Later
      <3> QED
        BY <3>1, <1>3
    <2> QED
      BY <2>1, <2>2
  <1>5. /\ Later(get, GetDelay) \in [pc : {"poll", "read"}, gap : 0..GetDelay]
        /\ Later(get, GetDelay).pc = get.pc
        /\ get.gap < GetDelay => Later(get, GetDelay).gap = get.gap + 1
    <2>1. CASE get.gap < GetDelay
      <3>1. Later(get, GetDelay) = [get EXCEPT !.gap = get.gap + 1]
        BY <2>1, <1>3 DEF Later
      <3>2. get.gap + 1 \in 0..GetDelay
        BY <1>1, <1>3, <2>1
      <3> QED
        BY <3>1, <3>2, <1>3
    <2>2. CASE ~(get.gap < GetDelay)
      <3>1. Later(get, GetDelay) = [get EXCEPT !.gap = get.gap]
        BY <2>2, <1>3 DEF Later
      <3> QED
        BY <3>1, <1>3, <2>2
    <2> QED
      BY <2>1, <2>2
  <1> QED
    BY <1>2, <1>4, <1>5

\* Every step of the system is such a cycle.
LEMMA CycleOfNext ==
    ASSUME Synthesised, Next
    PROVE  \E a, b, q : Cycle(a, b, q)
PROOF
  <1>g. /\ get \in [pc : {"poll", "read"}, gap : 0..GetDelay] /\ GetDelay \in Nat
        /\ get.gap \in Int
    BY UartAssumption DEF Synthesised, Registers
  <1> DEFINE none == [reg |-> "none"]
             stat == [reg |-> "STAT"]
             data == [reg |-> "DATA"]
  <1>n. /\ none.reg # "DATA" /\ stat.reg # "DATA" /\ data.reg = "DATA"
    OBVIOUS
  <1>1. ASSUME GetData PROVE Reads(data, Rest)
    <2>1. /\ Receive(data) /\ get.pc = "read" /\ get' = At("poll")
          /\ got' = [char |-> SubSeq(rx.buffer, 1, CharBits), odd |-> ~got.odd]
      BY <1>1 DEF GetData, DataRead
    <2> QED
      BY <2>1, <1>n, Clocks DEF Reads
  <1>2. ASSUME GetQuiet PROVE Reads(none, queue)
    <2>1. /\ Receive(none) /\ get.gap < GetDelay /\ get' = Later(get, GetDelay)
          /\ got' = got
      BY <1>2 DEF GetQuiet, NoAccess
    <2>2. /\ get' \in [pc : {"poll", "read"}, gap : 0..GetDelay]
          /\ get'.pc = get.pc /\ get'.gap = get.gap + 1
      BY <2>1, Clocks
    <2>3. Slack' >= Slack + 1
      BY <2>2, <1>g DEF Slack
    <2> QED
      BY <2>1, <2>2, <2>3, <1>n DEF Reads
  <1>3. ASSUME GetPoll PROVE Reads(stat, queue)
    <2>1. /\ Receive(stat) /\ get.pc = "poll" /\ got' = got
          /\ get' = At(IF rx.rc THEN "read" ELSE "poll")
      BY <1>3 DEF GetPoll
    <2>2. /\ get' \in [pc : {"poll", "read"}, gap : 0..GetDelay]
          /\ get'.pc = (IF rx.rc THEN "read" ELSE "poll") /\ get'.gap = 0
      BY <2>1, Clocks
    <2>3. rx.rc => Slack' >= Slack + 1
      BY <2>1, <2>2, <1>g DEF Slack
    <2> QED
      BY <2>1, <2>2, <2>3, <1>n DEF Reads
  <1>4. ASSUME NEW q, Sender(q) PROVE \E b : Writes(b, q)
    <2>1. CASE PutQuiet(q)
      <3>1. Transmit(none) /\ put' = Later(put, PutDelay) /\ queue' = q
        BY <2>1 DEF PutQuiet, NoAccess
      <3>2. Writes(none, q)
        BY <3>1, <1>n, Clocks DEF Writes, Quietly
      <3> QED
        BY <3>2
    <2>2. CASE PutData(q)
      <3>1. PICK c \in Word(CharBits) :
                /\ Transmit([reg |-> "DATA", word |-> Extended(c)])
                /\ queue' = Append(q, c)
        BY <2>2 DEF PutData
      <3>2. put.pc = "ready" /\ low = 0 /\ put' = At("poll")
        BY <2>2 DEF PutData
      <3>3. Puts([reg |-> "DATA", word |-> Extended(c)], q, c)
        BY <3>1, <3>2, Clocks DEF Puts
      <3>4. Writes([reg |-> "DATA", word |-> Extended(c)], q)
        BY <3>1, <3>2, <3>3, Clocks DEF Writes
      <3> QED
        BY <3>4
    <2>3. CASE PutPoll(q)
      <3>1. /\ Transmit(stat) /\ queue' = q /\ put.pc = "poll"
            /\ put' = At(IF tx.tc THEN "ready" ELSE "poll")
        BY <2>3 DEF PutPoll
      <3>2. put'.pc = put.pc \/ (tx.tc /\ put'.pc = "ready")
        BY <3>1, Clocks
      <3>3. put' \in [pc : {"ready", "poll"}, gap : 0..PutDelay]
        BY <3>1, Clocks
      <3>4. Writes(stat, q)
        BY <3>1, <3>2, <3>3, <1>n DEF Writes, Quietly
      <3> QED
        BY <3>4
    <2> QED
      BY <1>4, <2>1, <2>2, <2>3 DEF Sender
  <1> HIDE DEF none, stat, data
  <1>5. (Disturb \/ Undisturbed) /\ cfg' = cfg
    BY DEF Next
  <1>6. CASE GetData /\ Sender(Rest)
    <2>1. PICK b : Writes(b, Rest)
      BY <1>4, <1>6
    <2>2. Cycle(data, b, Rest)
      BY <2>1, <1>1, <1>5, <1>6 DEF Cycle
    <2> QED
      BY <2>2
  <1>7. CASE (GetQuiet \/ GetPoll) /\ Sender(queue)
    <2>1. PICK b : Writes(b, queue)
      BY <1>4, <1>7
    <2>2. PICK a : Reads(a, queue)
      BY <1>2, <1>3, <1>7
    <2>3. Cycle(a, b, queue)
      BY <2>1, <2>2, <1>5 DEF Cycle
    <2> QED
      BY <2>3
  <1> QED
    BY <1>6, <1>7 DEF Next

\* A disturbance pulls the line low; otherwise it is what txd puts on it.
LEMMA LineType ==
    ASSUME Synthesised
    PROVE  rxd \in Bit /\ (low > 0 => rxd = 0) /\ (low = 0 => rxd = tx.txd)
PROOF
  BY DEF rxd, Bit, Synthesised, Registers

\* uart1_putc writes a character, padded to the width of the frame.
LEMMA AccessType ==
    ASSUME Synthesised, NEW b, NEW q, Writes(b, q)
    PROVE  b.reg = "DATA" => b.word \in Word(cfg.bits)
PROOF
  <1>0. cfg \in Configs
    BY DEF Synthesised, Registers
  <1>1. CASE Quietly(b, q)
    BY <1>1 DEF Quietly
  <1>2. ASSUME NEW c \in Word(CharBits), Puts(b, q, c) PROVE b.word \in Word(cfg.bits)
    <2>1. b.word = Extended(c)
      BY <1>2 DEF Puts
    <2> QED
      BY <2>1, <1>0, ExtendedWord
  <1> QED
    BY <1>1, <1>2 DEF Writes

\* A clock cycle keeps the types.
LEMMA TypeStep ==
    ASSUME Synthesised, NEW a, NEW b, NEW q, Cycle(a, b, q)
    PROVE  Synthesised'
PROOF
  <1>1. cfg \in Configs /\ tx \in TxRecord /\ rx \in RxRecord
        /\ low \in Nat /\ queue \in Seq(Word(CharBits))
    BY DEF Synthesised, Registers, TxRecord, RxRecord
  <1>2. tx' \in TxRecord
    BY <1>1, AccessType, TransmitType DEF Cycle, Writes
  <1>3. rx' \in RxRecord
    BY <1>1, LineType, ReceiveType DEF Cycle, Reads
  <1>4. low' \in Nat
    <2>1. CASE Disturb
      BY <2>1, UartAssumption DEF Disturb
    <2>2. CASE Undisturbed
      BY <2>2, <1>1 DEF Undisturbed
    <2> QED
      BY <2>1, <2>2 DEF Cycle
  <1>5. q \in Seq(Word(CharBits))
    <2>1. Rest \in Seq(Word(CharBits))
      BY <1>1 DEF Rest
    <2> QED
      BY <2>1, <1>1 DEF Cycle, Reads
  <1>6. queue' \in Seq(Word(CharBits))
    <2>1. CASE Quietly(b, q)
      BY <2>1, <1>5 DEF Quietly
    <2>2. ASSUME NEW c \in Word(CharBits), Puts(b, q, c)
          PROVE  queue' \in Seq(Word(CharBits))
      BY <2>2, <1>5 DEF Puts
    <2> QED
      BY <2>1, <2>2 DEF Cycle, Writes
  <1>7. cfg' = cfg /\ CharBits' = CharBits
    BY DEF Cycle, CharBits
  <1>8. /\ put' \in [pc : {"ready", "poll"}, gap : 0..PutDelay]
        /\ get' \in [pc : {"poll", "read"}, gap : 0..GetDelay]
    BY DEF Cycle, Reads, Writes
  <1>9. tx' \in TxRecord' /\ rx' \in RxRecord'
    BY <1>2, <1>3, <1>7 DEF TxRecord, RxRecord
  <1> QED
    BY <1>1, <1>4, <1>6, <1>7, <1>8, <1>9 DEF Synthesised, Registers, TxRecord, RxRecord

\* The registers have their types at reset.
LEMMA TypeInit == ASSUME Init PROVE Synthesised
PROOF
  <1>1. cfg \in Configs /\ MaxBits \in Nat /\ cfg.baud \in Nat
        /\ GetDelay \in Nat /\ PutDelay \in Nat
    BY Settings DEF Init
  <1>2. tx \in TxRecord
    <2>1. [i \in 1..BufferBits |-> 0] \in Word(BufferBits)
      BY DEF Word, Bit
    <2>2. 0 \in 0..cfg.baud /\ 0 \in 0..MaxBits + 3
      BY <1>1
    <2> QED
      BY <2>1, <2>2 DEF Init, TxRecord, Bit
  <1>3. rx \in RxRecord
    <2>1. 0 \in 0..cfg.baud /\ 0 \in 0..MaxBits
      BY <1>1
    <2> QED
      BY <2>1, ZerosWord DEF Init, RxRecord, Bit
  <1>4. /\ put \in [pc : {"ready", "poll"}, gap : 0..PutDelay]
        /\ get \in [pc : {"poll", "read"}, gap : 0..GetDelay]
    BY <1>1 DEF Init, At
  <1>5. low \in Nat /\ queue \in Seq(Word(CharBits))
    BY DEF Init
  <1> QED
    BY <1>1, <1>2, <1>3, <1>4, <1>5 DEF Synthesised, Registers, TxRecord, RxRecord

\* Every register as synthesised keeps its width, at both ends and in every
\* format.
LEMMA SynthesisedKept == Spec => []Synthesised
PROOF
  <1>1. Init => Synthesised
    BY TypeInit
  <1>2. Synthesised /\ [Next]_vars => Synthesised'
    <2> SUFFICES ASSUME Synthesised, [Next]_vars PROVE Synthesised'
      OBVIOUS
    <2>1. CASE Next
      BY <2>1, CycleOfNext, TypeStep
    <2>2. CASE UNCHANGED vars
      BY <2>2 DEF Synthesised, Registers, vars, CharBits
    <2> QED
      BY <2>1, <2>2
  <1> QED
    BY <1>1, <1>2, PTL DEF Spec

\* The bits of a frame after the start bit fit in the declared txshiftcounter:
\* not those of 9 data bits with a parity bit or a second stop bit, nor those
\* of 8 with both.
CountersFit == \A c \in Configs : c.bits + One(c.paron) + One(c.sp2) <= MaxBits

\* The transmitter never has more bits left than it was loaded with.
LEMMA CountStep ==
    ASSUME Synthesised, tx.count <= TxBits, [Next]_vars
    PROVE  tx'.count <= TxBits'
PROOF
  <1>1. tx \in TxRecord /\ cfg \in Configs
    BY DEF Synthesised, Registers, TxRecord
  <1>2. cfg' = cfg
    BY DEF Next, vars
  <1>3. TxBits' = TxBits /\ TxBits \in Nat /\ tx.count \in Nat
    BY <1>1, <1>2, Settings DEF TxBits, One, TxRecord
  <1>4. CASE Next
    <2>1. PICK a, b, q : Cycle(a, b, q)
      BY <1>4, CycleOfNext
    <2>2. Transmit(b)
      BY <2>1 DEF Cycle, Writes
    <2> DEFINE t == Written(b)
    <2>3. /\ t.count = tx.count
          /\ t \in [txstart : BOOLEAN, state : {"idle", "iter", "ready"},
                    buffer : {t.buffer}, timer : 0..cfg.baud,
                    count : 0..MaxBits + 3, tc : BOOLEAN, txd : Bit]
      BY <1>1 DEF Written, TxRecord
    <2>4. /\ tx.state = "idle" => tx' = TxIdle(t)
          /\ tx.state = "iter" => tx' = TxIter(t)
          /\ tx.state = "ready" => tx' = TxReady(t)
          /\ tx.state \in {"idle", "iter", "ready"}
      BY <1>1, <2>2 DEF Transmit, TxRecord
    <2> HIDE DEF t
    <2>5. CASE tx.state = "idle"
      <3>1. tx'.count = IF tx.txstart THEN TxBits ELSE tx.count
        BY <2>3, <2>4, <2>5 DEF TxIdle
      <3> QED
        BY <3>1, <1>3
    <2>6. CASE tx.state = "iter"
      <3>1. tx'.count = tx.count \/ tx'.count = tx.count - 1
        BY <2>3, <2>4, <2>6 DEF TxIter
      <3> QED
        BY <3>1, <1>3
    <2>7. CASE tx.state = "ready"
      <3>1. tx'.count = tx.count
        BY <2>3, <2>4, <2>7 DEF TxReady
      <3> QED
        BY <3>1, <1>3
    <2> QED
      BY <2>4, <2>5, <2>6, <2>7
  <1>5. CASE UNCHANGED vars
    BY <1>5, <1>3 DEF vars
  <1> QED
    BY <1>4, <1>5

\* In the formats whose bits fit, every register of uart.vhd keeps the range
\* that its declaration gives it, at both ends and for every divider.
THEOREM TypeCorrect ==
    ASSUME CountersFit
    PROVE  Spec => []TypeOK
PROOF
  <1>1. Init => tx.count <= TxBits
    <2> SUFFICES ASSUME Init PROVE tx.count <= TxBits
      OBVIOUS
    <2>1. cfg \in Configs /\ tx.count = 0
      BY DEF Init
    <2> QED
      BY <2>1, Settings
  <1>2. Synthesised /\ tx.count <= TxBits /\ [Next]_vars => (tx.count <= TxBits)'
    BY CountStep
  <1>3. Synthesised /\ tx.count <= TxBits => TypeOK
    <2> SUFFICES ASSUME Synthesised, tx.count <= TxBits PROVE TypeOK
      OBVIOUS
    <2>1. cfg \in Configs /\ tx \in TxRecord
      BY DEF Synthesised, Registers, TxRecord
    <2>2. /\ cfg.bits \in Nat /\ One(cfg.paron) \in {0, 1} /\ One(cfg.sp2) \in {0, 1}
          /\ MaxBits \in Nat
      BY <2>1, Settings
    <2>3. cfg.bits + One(cfg.paron) + One(cfg.sp2) <= MaxBits
      BY <2>1 DEF CountersFit
    <2>4. TxBits <= MaxBits + 1 /\ TxBits \in Nat
      BY <2>2, <2>3 DEF TxBits
    <2>5. tx.count \in Nat
      BY <2>1, <2>2 DEF TxRecord
    <2>6. tx.count \in 0..MaxBits + 1
      BY <2>2, <2>4, <2>5
    <2>7. tx \in [txstart : BOOLEAN, state : {"idle", "iter", "ready"},
                  buffer : Word(BufferBits), timer : 0..cfg.baud,
                  count : 0..MaxBits + 1, tc : BOOLEAN, txd : Bit]
      BY <2>1, <2>6 DEF TxRecord
    <2> QED
      BY <2>7 DEF TypeOK, Synthesised, Registers
  <1> QED
    BY <1>1, <1>2, <1>3, SynthesisedKept, PTL DEF Spec

-----------------------------------------------------------------------------
\* What a cycle does to the sender and to the line.

\* The divider and the disturbances suit the reader.
Times == /\ Half + 4 <= cfg.baud
         /\ Half + 2 * GetDelay + 1 <= cfg.baud
         /\ \A d \in Disturbances : d <= Half + 1 \/ d >= Half + 3 + Cells(Last)
Step(a, b, q) ==
    Synthesised /\ Synthesised' /\ Times /\ Drivers /\ Flags /\ Cycle(a, b, q)

\* The hypotheses about the times, for the configuration in use.
LEMMA TimesOfConfig ==
    ASSUME Timely, Distinct, cfg \in Configs
    PROVE  Times
PROOF
  BY DEF Timely, Distinct, Times, Half, Cells, Last

\* The numbers that the timing arguments compare.
LEMMA Numbers ==
    ASSUME Synthesised, Times
    PROVE  /\ cfg.baud \in Nat /\ Half \in Nat /\ Half >= 3
           /\ Half + 4 <= cfg.baud /\ Half + 2 * GetDelay + 1 <= cfg.baud
           /\ GetDelay \in Nat \ {0}
           /\ rx.timer \in 0..cfg.baud /\ rx.count \in 0..MaxBits /\ low \in Nat
           /\ rx.sync \in {0, 1} /\ get.gap \in 0..GetDelay
           /\ get.pc \in {"poll", "read"} /\ put.pc \in {"ready", "poll"}
PROOF
  <1>1. cfg \in Configs /\ rx.timer \in 0..cfg.baud /\ rx.count \in 0..MaxBits
        /\ low \in Nat /\ rx.sync \in {0, 1} /\ get.gap \in 0..GetDelay
        /\ get.pc \in {"poll", "read"} /\ put.pc \in {"ready", "poll"}
    BY DEF Synthesised, Registers, Bit
  <1>2. cfg.baud \in Nat /\ GetDelay \in Nat \ {0}
    BY <1>1, Settings
  <1>3. Half \in Nat /\ Half + 4 <= cfg.baud /\ Half >= 3
    BY <1>2 DEF Half, Times
  <1> QED
    BY <1>1, <1>2, <1>3 DEF Times

\* What every clock cycle relies on.
LEMMA StepTypes ==
    ASSUME NEW a, NEW b, NEW q, Step(a, b, q)
    PROVE  /\ cfg \in Configs /\ cfg' = cfg /\ tx \in TxRecord /\ rx \in RxRecord
           /\ rxd \in Bit /\ Receive(a) /\ Transmit(b)
           /\ (low > 0 => rxd = 0) /\ (low = 0 => rxd = tx.txd)
           /\ rx'.sync = rxd
           /\ b.reg = "DATA" => b.word \in Word(cfg.bits)
           /\ put'.pc # "ready" \/ put.pc # "ready" \/ low > 0
              \/ rx.state # "idle" \/ rx.sync # 1 =>
                  low' = IF low > 0 THEN low - 1 ELSE 0
           /\ low' = (IF low > 0 THEN low - 1 ELSE 0) \/ low' \in Disturbances
PROOF
  <1>1. cfg \in Configs /\ cfg' = cfg /\ tx \in TxRecord /\ rx \in RxRecord
    BY DEF Step, Cycle, Synthesised, Registers, TxRecord, RxRecord
  <1>2. rxd \in Bit /\ (low > 0 => rxd = 0) /\ (low = 0 => rxd = tx.txd)
    BY LineType DEF Step
  <1>3. Receive(a) /\ Transmit(b)
    BY DEF Step, Cycle, Reads, Writes
  <1>4. rx'.sync = rxd
    <2>1. rx.state \in {"idle", "wait", "iter", "parity", "ready", "break", "fail"}
      BY <1>1 DEF RxRecord
    <2> QED
      BY <2>1, <1>1, <1>2, <1>3, ReceiveIdle, ReceiveWait, ReceiveIter, ReceiveParity,
         ReceiveReady, ReceiveBreak, ReceiveFail
  <1>5. b.reg = "DATA" => b.word \in Word(cfg.bits)
    BY AccessType DEF Step, Cycle
  <1>6. /\ put'.pc # "ready" \/ put.pc # "ready" \/ low > 0
           \/ rx.state # "idle" \/ rx.sync # 1 => Undisturbed
        /\ Undisturbed \/ low' \in Disturbances
    <2>1. Disturb \/ Undisturbed
      BY DEF Step, Cycle
    <2>2. Disturb => /\ put'.pc = "ready" /\ put.pc = "ready" /\ low = 0
                     /\ rx.state = "idle" /\ rx.sync = 1 /\ low' \in Disturbances
      BY DEF Disturb
    <2>3. low = 0 => ~(low > 0)
      OBVIOUS
    <2> QED
      BY <2>1, <2>2, <2>3
  <1> QED
    BY <1>1, <1>2, <1>3, <1>4, <1>5, <1>6 DEF Undisturbed

\* No character is being sent, or uart1_putc starts one.
LEMMA SenderQuiet ==
    ASSUME NEW a, NEW b, NEW q, Step(a, b, q), Quiet
    PROVE  /\ rxd = IF low > 0 THEN 0 ELSE 1
           /\ \/ /\ Quiet' /\ queue' = q
                 /\ put'.pc = put.pc \/ put'.pc = "ready"
              \/ \E c \in Word(CharBits) :
                     /\ Starting(c)' /\ queue' = Append(q, c)
                     /\ put.pc = "ready" /\ low = 0
PROOF
  <1>1. /\ cfg \in Configs /\ cfg' = cfg /\ tx \in TxRecord
        /\ Transmit(b) /\ (b.reg = "DATA" => b.word \in Word(cfg.bits))
        /\ (low > 0 => rxd = 0) /\ (low = 0 => rxd = tx.txd) /\ rx'.sync = rxd
    BY StepTypes
  <1>2. low \in Nat
    BY DEF Step, Synthesised, Registers
  <1>3. /\ tx'.state = "idle" /\ tx'.txd = 1
        /\ b.reg # "DATA" => ~tx'.txstart
        /\ b.reg = "DATA" => tx'.txstart /\ ~tx'.tc /\ tx'.buffer = Frame(b.word)
    BY <1>1, TransmitQuiet
  <1>4. rxd = IF low > 0 THEN 0 ELSE 1
    BY <1>1, <1>2 DEF Quiet
  <1>5. CASE Quietly(b, q)
    BY <1>3, <1>4, <1>5 DEF Quietly, Quiet
  <1>6. ASSUME NEW c \in Word(CharBits), Puts(b, q, c)
        PROVE  /\ Starting(c)' /\ queue' = Append(q, c)
               /\ put.pc = "ready" /\ low = 0
    <2>1. /\ b.reg = "DATA" /\ b.word = Extended(c) /\ queue' = Append(q, c)
          /\ put.pc = "ready" /\ low = 0 /\ put'.pc = "poll"
      BY <1>6 DEF Puts
    <2>2. Frame(Extended(c))' = Frame(Extended(c))
      BY <1>1 DEF Frame, Extended, BufferBits
    <2>3. TxStarting(c)'
      BY <2>1, <2>2, <1>3 DEF TxStarting
    <2>4. low' = 0
      <3>1. low' = IF low > 0 THEN low - 1 ELSE 0
        BY <2>1, StepTypes
      <3> QED
        BY <3>1, <2>1
    <2>5. rx'.sync = 1
      BY <1>1, <1>4, <2>1
    <2> QED
      BY <2>1, <2>3, <2>4, <2>5 DEF Starting, Waits
  <1>7. Quietly(b, q) \/ \E c \in Word(CharBits) : Puts(b, q, c)
    BY DEF Step, Cycle, Writes
  <1> QED
    BY <1>4, <1>5, <1>6, <1>7

\* While a character is on its way uart1_putc polls and nothing disturbs.
LEMMA SenderWaits ==
    ASSUME NEW a, NEW b, NEW q, Step(a, b, q), Waits, ~tx.tc
    PROVE  b.reg # "DATA" /\ queue' = q /\ Waits'
PROOF
  <1>1. Quietly(b, q)
    BY DEF Step, Cycle, Writes, Puts, Waits
  <1>2. put'.pc = "poll"
    BY <1>1 DEF Quietly, Waits
  <1>3. low' = IF low > 0 THEN low - 1 ELSE 0
    BY <1>2, StepTypes
  <1> QED
    BY <1>1, <1>2, <1>3 DEF Waits, Quietly

\* The sender's write becomes the first cycle of a start bit.
LEMMA SenderStarting ==
    ASSUME NEW a, NEW b, NEW q, Step(a, b, q), NEW c \in Word(CharBits), Starting(c)
    PROVE  Sending(c)' /\ BitsSent' = 0 /\ Into' = 0 /\ queue' = q
PROOF
  <1>1. /\ cfg \in Configs /\ cfg' = cfg /\ tx \in TxRecord /\ Transmit(b)
        /\ (low = 0 => rxd = tx.txd) /\ rx'.sync = rxd
    BY StepTypes
  <1>2. b.reg # "DATA" /\ queue' = q /\ Waits'
    BY SenderWaits DEF Starting, TxStarting
  <1>3. TxSending(c)' /\ BitsSent' = 0 /\ Into' = 0
    BY <1>1, <1>2, TransmitStarting DEF Starting
  <1>4. rx'.sync = 1
    BY <1>1 DEF Starting, TxStarting, Waits
  <1>5. Late(cfg', Extended(c)', 0, 0, 2) = 1
    BY DEF Late
  <1> QED
    BY <1>2, <1>3, <1>4, <1>5 DEF Sending

\* The line goes on to the next cycle or bit, or the frame is over.
LEMMA SenderSending ==
    ASSUME NEW a, NEW b, NEW q, Step(a, b, q), NEW c \in Word(CharBits), Sending(c)
    PROVE  /\ queue' = q
           /\ \/ Into < cfg.baud /\ Sending(c)' /\ BitsSent' = BitsSent /\ Into' = Into + 1
              \/ /\ Into = cfg.baud /\ BitsSent < TxBits
                 /\ Sending(c)' /\ BitsSent' = BitsSent + 1 /\ Into' = 0
              \/ Into = cfg.baud /\ BitsSent = TxBits /\ Ending'
PROOF
  <1>1. /\ cfg \in Configs /\ cfg' = cfg /\ tx \in TxRecord /\ Transmit(b)
        /\ (low = 0 => rxd = tx.txd) /\ rx'.sync = rxd
    BY StepTypes
  <1>2. b.reg # "DATA" /\ queue' = q /\ Waits'
    BY SenderWaits DEF Sending, TxSending
  <1>q. PICK w : w = Extended(c)
    OBVIOUS
  <1>e. Extended(c)' = w
    BY <1>q, <1>1 DEF Extended
  <1>3. rx'.sync = Late(cfg, w, BitsSent, Into, 1)
    BY <1>1, <1>q DEF Sending, TxSending, Waits
  <1>4. BitsSent \in Nat /\ Into \in 0..cfg.baud /\ cfg.baud \in Nat /\ cfg.baud >= 7
    <2>1. Synthesised /\ Times
      BY DEF Step
    <2>2. cfg.baud \in Nat /\ cfg.baud >= 7
      BY <2>1, Numbers
    <2> QED
      BY <2>2, <1>1, Settings DEF Sending, TxSending
  <1>5. TxSending(c)
    BY DEF Sending
  <1>6. CASE Into < cfg.baud /\ TxSending(c)' /\ BitsSent' = BitsSent /\ Into' = Into + 1
    <2>1. Into + 1 >= 2 <=> Into >= 1
      BY <1>4
    <2>2. Late(cfg, w, BitsSent, Into + 1, 2) = Late(cfg, w, BitsSent, Into, 1)
      BY <2>1 DEF Late
    <2>3. Sending(c)'
      BY <2>2, <1>1, <1>2, <1>3, <1>6, <1>e DEF Sending
    <2> QED
      BY <2>3, <1>2, <1>6
  <1>7. CASE /\ Into = cfg.baud /\ BitsSent < TxBits
             /\ TxSending(c)' /\ BitsSent' = BitsSent + 1 /\ Into' = 0
    <2>1. Into >= 1 /\ BitsSent + 1 >= 1 /\ ~(0 >= 2) /\ (BitsSent + 1) - 1 = BitsSent
      BY <1>4, <1>7
    <2>2. Late(cfg, w, BitsSent + 1, 0, 2) = Late(cfg, w, BitsSent, Into, 1)
      BY <2>1 DEF Late
    <2>3. Sending(c)'
      BY <2>2, <1>1, <1>2, <1>3, <1>7, <1>e DEF Sending
    <2> QED
      BY <2>3, <1>2, <1>7
  <1>8. CASE Into = cfg.baud /\ BitsSent = TxBits /\ TxEnding'
    <2>1. Into >= 1
      BY <1>4, <1>8
    <2>2. Late(cfg, w, BitsSent, Into, 1) = 1
      BY <2>1, <1>1, <1>8, Settings DEF Late, LineBit, Last, One
    <2> QED
      BY <2>2, <1>2, <1>3, <1>8 DEF Ending
  <1> QED
    BY <1>1, <1>2, <1>5, <1>6, <1>7, <1>8, TransmitSending

\* The sender's frame is over; uart1_putc has still to see TC.
LEMMA SenderEnding ==
    ASSUME NEW a, NEW b, NEW q, Step(a, b, q), Ending
    PROVE  Quiet' /\ Waits' /\ rx'.sync = 1 /\ queue' = q
PROOF
  <1>1. /\ cfg \in Configs /\ cfg' = cfg /\ tx \in TxRecord /\ Transmit(b)
        /\ (low = 0 => rxd = tx.txd) /\ rx'.sync = rxd
    BY StepTypes
  <1>2. b.reg # "DATA" /\ queue' = q /\ Waits'
    BY SenderWaits DEF Ending, TxEnding
  <1>3. Quiet'
    BY <1>1, <1>2, TransmitEnding DEF Ending
  <1> QED
    BY <1>1, <1>2, <1>3 DEF Ending, TxEnding, Waits

-----------------------------------------------------------------------------
\* What a cycle does to the reader.

\* While RC stays set the reader comes one cycle nearer to its read.
LEMMA FreshStep ==
    ASSUME NEW a, NEW b, NEW q, Step(a, b, q), FlagsKept(a),
           NEW n \in Int, Fresh(n)
    PROVE  rx'.rc => n + 1 <= Slack'
PROOF
  <1>1. ASSUME rx'.rc PROVE n + 1 <= Slack'
    <2>1. rx.rc /\ a.reg # "DATA"
      BY <1>1 DEF FlagsKept
    <2>2. Slack' >= Slack + 1
      BY <2>1 DEF Step, Cycle, Reads
    <2>3. n <= Slack
      BY <2>1 DEF Fresh
    <2>4. Slack \in Int /\ Slack' \in Int
      <3>1. get.gap \in Int /\ get'.gap \in Int /\ GetDelay \in Nat
        BY UartAssumption DEF Step, Synthesised, Registers
      <3> QED
        BY <3>1 DEF Slack
    <2> QED
      BY <2>2, <2>3, <2>4
  <1> QED
    BY <1>1

\* A character is taken within two delays of the reader.
LEMMA Expired ==
    ASSUME Synthesised, NEW n \in Int, rx.rc => n <= Slack, n > 2 * GetDelay + 1
    PROVE  ~rx.rc
PROOF
  <1>1. get.gap \in 0..GetDelay /\ GetDelay \in Nat
    BY UartAssumption DEF Synthesised, Registers
  <1>2. Slack <= 2 * GetDelay + 1 /\ Slack \in Int
    BY <1>1 DEF Slack
  <1> QED
    BY <1>1, <1>2

\* The reader has taken the character before the bound is reached.
LEMMA ExpiredNext ==
    ASSUME Synthesised', NEW n \in Int, rx'.rc => n <= Slack', n > 2 * GetDelay + 1
    PROVE  ~rx'.rc
PROOF
  <1>1. get'.gap \in 0..GetDelay /\ GetDelay \in Nat
    BY UartAssumption DEF Synthesised, Registers
  <1>2. Slack' <= 2 * GetDelay + 1 /\ Slack' \in Int
    BY <1>1 DEF Slack
  <1> QED
    BY <1>1, <1>2

\* The receiver has the character in front of rest, and q is the queue.
Keeps(q, rest) ==
    IF rx'.rc THEN \E c \in Word(CharBits) : Content(c, 0)' /\ q = <<c>> \o rest
    ELSE q = rest

\* A read takes the character that RC announces; nothing else touches it.
LEMMA HeldStep ==
    ASSUME NEW a, NEW b, NEW q, Step(a, b, q), FlagsKept(a),
           NEW rest \in Seq(Word(CharBits)), Held(rest),
           rx'.buffer = rx.buffer \/ ~rx'.rc
    PROVE  Keeps(q, rest)
PROOF
  <1>1. Reads(a, q) /\ cfg' = cfg
    BY DEF Step, Cycle
  <1>2. CASE a.reg # "DATA"
    <2>1. q = queue /\ (rx'.rc <=> rx.rc)
      BY <1>1, <1>2 DEF Reads, FlagsKept
    <2>2. ASSUME rx.rc PROVE \E c \in Word(CharBits) : Content(c, 0)' /\ q = <<c>> \o rest
      <3>1. PICK c \in Word(CharBits) : Content(c, 0) /\ queue = <<c>> \o rest
        BY <2>2 DEF Held, Full
      <3>2. Content(c, 0)'
        BY <3>1, <2>1, <2>2, <1>1 DEF Content, Extended
      <3> QED
        BY <3>1, <3>2, <2>1
    <2> QED
      BY <2>1, <2>2 DEF Keeps, Held
  <1>3. CASE a.reg = "DATA"
    <2>1. q = Rest /\ ~rx'.rc /\ rx.rc
      BY <1>1, <1>3 DEF Reads, FlagsKept, Step, Drivers
    <2>2. PICK c \in Word(CharBits) : queue = <<c>> \o rest
      BY <2>1 DEF Held, Full
    <2>3. Tail(<<c>> \o rest) = rest /\ <<c>> \o rest # <<>>
      OBVIOUS
    <2>4. Rest = rest
      BY <2>2, <2>3 DEF Rest
    <2> QED
      BY <2>1, <2>4 DEF Keeps
  <1> QED
    BY <1>2, <1>3

\* Nothing is taken where nothing was received.
LEMMA NothingTaken ==
    ASSUME NEW a, NEW b, NEW q, Step(a, b, q), ~rx.rc
    PROVE  q = queue /\ a.reg # "DATA"
PROOF
  BY DEF Step, Cycle, Reads, Drivers

\* With an error flag the step is over, and the reader knows what it polled.
Remembers(a) == a.reg # "DATA" /\ rx.rc => rx'.rc

\* A cycle that raises no flag keeps what is known of the flags.
LEMMA FlagsStep ==
    ASSUME NEW a, NEW b, NEW q, Step(a, b, q), FlagsKept(a)
    PROVE  Flags' /\ Remembers(a)
PROOF
  <1>1. cfg' = cfg
    BY DEF Step, Cycle
  <1> QED
    BY <1>1 DEF Step, Flags, FlagsKept, Remembers

\* The two programs keep to their parts: write when idle, read when RC.
LEMMA DriversStep ==
    ASSUME NEW a, NEW b, NEW q, Step(a, b, q), Remembers(a),
           put'.pc = "ready" \/ tx'.tc => Quiet'
    PROVE  Drivers'
PROOF
  <1>1. Reads(a, q)
    BY DEF Step, Cycle
  <1>2. get'.gap \in 0..GetDelay
    BY <1>1 DEF Reads
  <1>3. get'.pc = "read" => rx'.rc
    BY <1>1 DEF Reads, Remembers, Step, Drivers
  <1> QED
    BY <1>2, <1>3 DEF Drivers

-----------------------------------------------------------------------------
\* The parity.

\* The ones of a word whose last bit is v are one more if v is.
LEMMA OnesOfAppend ==
    ASSUME NEW T, IsFiniteSet(T), NEW x, x \notin T, NEW v \in Bit
    PROVE  /\ IsFiniteSet(IF v = 1 THEN T \cup {x} ELSE T)
           /\ Cardinality(IF v = 1 THEN T \cup {x} ELSE T) = Cardinality(T) + v
PROOF
  <1>0. Cardinality(T) \in Nat
    BY FS_CardinalityType
  <1>1. IsFiniteSet(T \cup {x}) /\ Cardinality(T \cup {x}) = Cardinality(T) + 1
    BY FS_AddElement
  <1>2. CASE v = 1
    BY <1>1, <1>2
  <1>3. CASE v = 0
    BY <1>0, <1>3
  <1> QED
    BY <1>2, <1>3 DEF Bit

\* A word of n bits and two more.
LEMMA ConcatTwo ==
    ASSUME NEW n \in Nat, NEW g \in Seq(Bit), Len(g) = n,
           NEW p \in Seq(Bit), Len(p) = 2
    PROVE  /\ DOMAIN (g \o p) = 1..n + 2
           /\ \A i \in 1..n : (g \o p)[i] = g[i]
           /\ (g \o p)[n + 1] = p[1]
           /\ (g \o p)[n + 2] = p[2]
PROOF
  <1>1. g \o p \in Seq(Bit)
    BY ConcatProperties
  <1>2. Len(g \o p) = Len(g) + Len(p)
    BY ConcatProperties
  <1>3. \A i \in 1..Len(g) + Len(p) :
            (g \o p)[i] = IF i <= Len(g) THEN g[i] ELSE p[i - Len(g)]
    BY ConcatProperties
  <1>4. DOMAIN (g \o p) = 1..n + 2
    BY <1>1, <1>2
  <1>5. \A i \in 1..n : (g \o p)[i] = g[i]
    BY <1>3
  <1>6. n + 1 \in 1..n + 2 /\ ~(n + 1 <= n) /\ (n + 1) - n = 1
    OBVIOUS
  <1>7. n + 2 \in 1..n + 2 /\ ~(n + 2 <= n) /\ (n + 2) - n = 2
    OBVIOUS
  <1>8. (g \o p)[n + 1] = p[1]
    BY <1>3, <1>6
  <1>9. (g \o p)[n + 2] = p[2]
    BY <1>3, <1>7
  <1> QED
    BY <1>4, <1>5, <1>8, <1>9

\* A character and the parity bit that the sender computed for it: the
\* receiver finds no parity error, whatever the padding of its buffer.
LEMMA ParityAgrees ==
    ASSUME cfg \in Configs, rx \in RxRecord, NEW c \in Word(CharBits), Content(c, 0),
           rx.sync = xor_reduce(Append(Extended(c), cfg.odd))
    PROVE  ~ParityError
PROOF
  <1> DEFINE w == Extended(c)
             s == rx.sync
             A == {i \in 1..cfg.bits : w[i] = 1}
             u == rx.buffer \o <<cfg.odd, s>>
             v == Append(w, cfg.odd)
  <1>1. /\ cfg.bits \in 1..MaxBits /\ MaxBits \in Nat /\ cfg.odd \in Bit
        /\ cfg.bits \in Nat
    BY Settings DEF Bit
  <1>2. w \in Seq(Bit) /\ Len(w) = cfg.bits
    BY ExtendedWord
  <1>3. rx.buffer \in Seq(Bit) /\ Len(rx.buffer) = MaxBits /\ s \in Bit
    <2>1. rx.buffer \in Word(MaxBits) /\ s \in Bit
      BY DEF RxRecord
    <2> QED
      BY <2>1, <1>1, WordSeq
  <1>4. IsFiniteSet(A)
    <2>1. IsFiniteSet(1..cfg.bits)
      BY <1>1, FS_Interval
    <2> QED
      BY <2>1, FS_Subset
  <1>b. \A i \in 1..MaxBits :
            rx.buffer[i] = IF 0 < i /\ i <= cfg.bits THEN w[i - 0] ELSE 0
    BY DEF Content
  <1>s. s = xor_reduce(v)
    OBVIOUS
  <1> HIDE DEF w, s
  <1>5. {i \in DOMAIN v : v[i] = 1} = IF cfg.odd = 1 THEN A \cup {cfg.bits + 1} ELSE A
    <2>1. /\ DOMAIN v = 1..cfg.bits + 1
          /\ \A i \in 1..cfg.bits : v[i] = w[i]
          /\ v[cfg.bits + 1] = cfg.odd
      BY <1>1, <1>2
    <2>2. \A i \in 1..cfg.bits + 1 : i \in 1..cfg.bits \/ i = cfg.bits + 1
      BY <1>1
    <2>3. 1..cfg.bits \subseteq 1..cfg.bits + 1 /\ cfg.bits + 1 \in 1..cfg.bits + 1
          /\ cfg.bits + 1 \notin 1..cfg.bits
      BY <1>1
    <2> HIDE DEF v
    <2> QED
      BY <2>1, <2>2, <2>3, <1>1 DEF Bit
  <1> DEFINE B == IF cfg.odd = 1 THEN A \cup {MaxBits + 1} ELSE A
  <1>6. {i \in DOMAIN u : u[i] = 1} = IF s = 1 THEN B \cup {MaxBits + 2} ELSE B
    <2> DEFINE p == <<cfg.odd, s>>
    <2>0. p \in Seq(Bit) /\ Len(p) = 2 /\ p[1] = cfg.odd /\ p[2] = s
      BY <1>1, <1>3
    <2> HIDE DEF p
    <2>1. /\ DOMAIN (rx.buffer \o p) = 1..MaxBits + 2
          /\ \A i \in 1..MaxBits : (rx.buffer \o p)[i] = rx.buffer[i]
          /\ (rx.buffer \o p)[MaxBits + 1] = p[1]
          /\ (rx.buffer \o p)[MaxBits + 2] = p[2]
      BY <2>0, <1>1, <1>3, ConcatTwo
    <2>2. /\ DOMAIN u = 1..MaxBits + 2
          /\ \A i \in 1..MaxBits : u[i] = rx.buffer[i]
          /\ u[MaxBits + 1] = cfg.odd
          /\ u[MaxBits + 2] = s
      BY <2>0, <2>1 DEF p
    <2> HIDE DEF u
    <2>3. \A i \in 1..cfg.bits : i \in 1..MaxBits /\ u[i] = w[i]
      <3>1. ASSUME NEW i \in 1..cfg.bits PROVE i \in 1..MaxBits /\ u[i] = w[i]
        <4>1. i \in 1..MaxBits /\ 0 < i /\ i <= cfg.bits /\ i - 0 = i
          BY <1>1
        <4> QED
          BY <4>1, <2>2, <1>b
      <3> QED
        BY <3>1
    <2>4. \A i \in 1..MaxBits : i \notin 1..cfg.bits => u[i] = 0
      <3>1. ASSUME NEW i \in 1..MaxBits, i \notin 1..cfg.bits PROVE u[i] = 0
        <4>1. ~(i <= cfg.bits)
          BY <3>1, <1>1
        <4> QED
          BY <4>1, <2>2, <1>b
      <3> QED
        BY <3>1
    <2>5. \A i \in 1..MaxBits + 2 : i \in 1..MaxBits \/ i = MaxBits + 1 \/ i = MaxBits + 2
      BY <1>1
    <2>6. /\ 1..MaxBits \subseteq 1..MaxBits + 2
          /\ MaxBits + 1 \in 1..MaxBits + 2 /\ MaxBits + 2 \in 1..MaxBits + 2
          /\ MaxBits + 1 # MaxBits + 2
          /\ MaxBits + 1 \notin 1..MaxBits /\ MaxBits + 2 \notin 1..MaxBits
      BY <1>1
    <2>7. cfg.odd \in {0, 1} /\ s \in {0, 1}
      BY <1>1, <1>3 DEF Bit
    <2>8. ASSUME NEW i \in 1..MaxBits + 2
          PROVE  u[i] = 1 <=> i \in IF s = 1 THEN B \cup {MaxBits + 2} ELSE B
      <3>1. CASE i \in 1..MaxBits
        BY <3>1, <2>3, <2>4, <2>6
      <3>2. CASE i = MaxBits + 1
        BY <3>2, <2>2, <2>3, <2>6, <2>7
      <3>3. CASE i = MaxBits + 2
        BY <3>3, <2>2, <2>3, <2>6, <2>7
      <3> QED
        BY <3>1, <3>2, <3>3, <2>5
    <2>9. \A i \in IF s = 1 THEN B \cup {MaxBits + 2} ELSE B : i \in 1..MaxBits + 2
      BY <2>3, <2>6
    <2> QED
      BY <2>2, <2>8, <2>9
  <1>7. xor_reduce(v) = (Cardinality(A) + cfg.odd) % 2
    <2>1. cfg.bits + 1 \notin A
      BY <1>1
    <2>2. Cardinality(IF cfg.odd = 1 THEN A \cup {cfg.bits + 1} ELSE A)
              = Cardinality(A) + cfg.odd
      BY <2>1, <1>1, <1>4, OnesOfAppend
    <2> QED
      BY <2>2, <1>5 DEF xor_reduce
  <1>8. xor_reduce(u) = (Cardinality(A) + cfg.odd + s) % 2
    <2>1. MaxBits + 1 \notin A
      BY <1>1
    <2>2. IsFiniteSet(B) /\ Cardinality(B) = Cardinality(A) + cfg.odd
      BY <2>1, <1>1, <1>4, OnesOfAppend
    <2>3. MaxBits + 2 \notin B
      BY <1>1
    <2> HIDE DEF B
    <2>4. Cardinality(IF s = 1 THEN B \cup {MaxBits + 2} ELSE B) = Cardinality(B) + s
      BY <2>2, <2>3, <1>3, OnesOfAppend
    <2> QED
      BY <2>2, <2>4, <1>6 DEF xor_reduce
  <1>9. Cardinality(A) \in Nat
    BY <1>4, FS_CardinalityType
  <1> DEFINE n == Cardinality(A) + cfg.odd
  <1>10. n \in Nat
    BY <1>9, <1>1 DEF Bit
  <1>11. s = n % 2 /\ xor_reduce(u) = (n + s) % 2
    BY <1>7, <1>8, <1>s
  <1> HIDE DEF n, u, A
  <1>12. (n + s) % 2 = 0
    BY <1>10, <1>11
  <1>13. xor_reduce(u) = 0
    BY <1>11, <1>12
  <1> QED
    BY <1>13 DEF ParityError, u, s

-----------------------------------------------------------------------------
\* No character on its way: one lemma for each state of the receiver.

\* The lengths derived from the configuration do not change.
LEMMA Same ==
    ASSUME cfg' = cfg
    PROVE  /\ Half' = Half /\ Last' = Last /\ TxBits' = TxBits
           /\ CharBits' = CharBits /\ cfg'.baud = cfg.baud
           /\ \A n : Cells(n)' = Cells(n)
PROOF
  BY DEF Half, Last, TxBits, CharBits, Cells

\* A bit more is baud + 1 cycles more.
LEMMA CellsSum ==
    ASSUME cfg \in Configs, NEW n \in Nat
    PROVE  Cells(n) \in Nat /\ Cells(n + 1) = Cells(n) + cfg.baud + 1 /\ Cells(0) = 0
PROOF
  <1>1. cfg.baud \in Nat
    BY Settings
  <1>2. PICK k \in Nat : k = cfg.baud + 1
    BY <1>1
  <1>3. n * k \in Nat /\ (n + 1) * k = n * k + k /\ 0 * k = 0
    OBVIOUS
  <1> QED
    BY <1>1, <1>2, <1>3 DEF Cells

\* The next state where the sender stays quiet and where it starts.
Silenced(a, q) ==
    /\ Flags' /\ Remembers(a) /\ Keeps(q, <<>>)
    /\ put'.pc = put.pc \/ put'.pc = "ready" => Lull'
    /\ put.pc = "poll" => AtRest'
    /\ put.pc = "ready" /\ low = 0 /\ put'.pc = "poll" => Unaware'

\* Nothing on its way stays so where the receiver changes nothing.
LEMMA KeepsEmpty ==
    ASSUME NEW a, NEW b, NEW q, Step(a, b, q), FlagsKept(a), Held(<<>>),
           rx'.buffer = rx.buffer \/ ~rx'.rc
    PROVE  Flags' /\ Remembers(a) /\ Keeps(q, <<>>)
PROOF
  <1>1. <<>> \in Seq(Word(CharBits))
    OBVIOUS
  <1> QED
    BY <1>1, HeldStep, FlagsStep

\* The line is high and idle: a disturbance or a write may come.
LEMMA RestStep ==
    ASSUME NEW a, NEW b, NEW q, Step(a, b, q), LineSilent, Rest0
    PROVE  Silenced(a, q)
PROOF
  <1> DEFINE n == cfg.baud - Half - IF put.pc = "poll" THEN 4 ELSE 3
  <1>1. /\ cfg \in Configs /\ cfg' = cfg /\ rx \in RxRecord /\ rxd \in Bit
        /\ Receive(a) /\ rx'.sync = rxd
    BY StepTypes
  <1>2. /\ Synthesised /\ Times
        /\ cfg.baud \in Nat /\ Half \in Nat /\ low \in Nat
        /\ put.pc \in {"ready", "poll"}
    BY Numbers DEF Step
  <1>3. rx.state = "idle" /\ rx.sync = 1 /\ low = 0 /\ Fresh(n)
    BY DEF Rest0
  <1>4. FlagsKept(a) /\ rx'.buffer = rx.buffer /\ rx'.state = "idle"
    BY <1>1, <1>3, ReceiveIdle
  <1>5. Flags' /\ Remembers(a) /\ Keeps(q, <<>>)
    BY <1>4, KeepsEmpty DEF LineSilent
  <1>6. n \in Int
    BY <1>2
  <1>7. rx'.rc => n + 1 <= Slack'
    BY <1>3, <1>4, <1>6, FreshStep
  <1>8. rx'.sync = 1
    BY <1>1, <1>3, SenderQuiet DEF LineSilent
  <1>9. Half' = Half /\ cfg'.baud = cfg.baud /\ Last' = Last
        /\ Cells(Last)' = Cells(Last)
    BY <1>1, Same DEF Cells
  <1>s. Slack' \in Int
    <2>1. GetDelay \in Int /\ get'.gap \in Int
      BY UartAssumption DEF Step, Synthesised, Registers
    <2> QED
      BY <2>1 DEF Slack
  <1>10. put'.pc \in {"ready", "poll"}
    BY Numbers DEF Step, Synthesised, Registers
  <1>11. ASSUME put'.pc = put.pc \/ put'.pc = "ready" PROVE Lull'
    <2>1. CASE low' = 0
      <3>1. rx'.rc => cfg.baud - Half - (IF put'.pc = "poll" THEN 4 ELSE 3) <= Slack'
        BY <1>2, <1>7, <1>10, <1>11, <1>s
      <3>2. Rest0'
        BY <2>1, <3>1, <1>4, <1>8, <1>9 DEF Rest0, Fresh
      <3> QED
        BY <3>2 DEF Lull
    <2>2. CASE low' # 0
      <3>1. low' \in Nat /\ put.pc = "ready" /\ low' \in Disturbances
        <4>1. low' \in Nat
          BY DEF Step, Synthesised, Registers
        <4>2. low' # (IF low > 0 THEN low - 1 ELSE 0)
          BY <2>2, <1>3
        <4> QED
          BY <4>1, <4>2, <1>2, StepTypes
      <3>2. low' <= Half + 1 \/ low' >= Half + 3 + Cells(Last)
        BY <3>1, <1>2 DEF Times
      <3>3. rx'.rc => cfg.baud - Half - 2 <= Slack'
        BY <3>1, <1>2, <1>7, <1>s
      <3>4. Pulse'
        BY <3>1, <3>2, <3>3, <2>2, <1>4, <1>8, <1>9 DEF Pulse, Fresh
      <3> QED
        BY <3>4 DEF Lull
    <2> QED
      BY <2>1, <2>2
  <1>12. put.pc = "poll" => AtRest'
    <2>1. ASSUME put.pc = "poll" PROVE low' = 0
      <3>1. low' = IF low > 0 THEN low - 1 ELSE 0
        BY <2>1, StepTypes
      <3> QED
        BY <3>1, <1>3
    <2> QED
      BY <2>1, <1>4, <1>8 DEF AtRest
  <1>13. put.pc = "ready" => Unaware'
    <2>1. ASSUME put.pc = "ready" PROVE rx'.rc => cfg.baud - Half - 2 <= Slack'
      BY <2>1, <1>2, <1>7, <1>s
    <2> QED
      BY <2>1, <1>4, <1>9 DEF Unaware, Fresh
  <1> QED
    BY <1>5, <1>11, <1>12, <1>13 DEF Silenced

\* The common part of the other phases: the sender is ready to put.
LEMMA Disturbed ==
    ASSUME NEW a, NEW b, NEW q, Step(a, b, q), LineSilent, ~AtRest
    PROVE  /\ put.pc = "ready" /\ low' = IF low > 0 THEN low - 1 ELSE 0
           /\ rx'.sync = IF low > 0 THEN 0 ELSE 1
PROOF
  <1>1. put.pc = "ready"
    BY Numbers DEF Step, LineSilent
  <1>2. low' = IF low > 0 THEN low - 1 ELSE 0
    <2>1. low \in Nat
      BY DEF Step, Synthesised, Registers
    <2>2. low > 0 \/ rx.state # "idle" \/ rx.sync # 1
      BY <2>1 DEF AtRest
    <2> QED
      BY <2>2, StepTypes
  <1>3. rx'.sync = IF low > 0 THEN 0 ELSE 1
    BY StepTypes, SenderQuiet DEF LineSilent
  <1> QED
    BY <1>1, <1>2, <1>3

\* The line is low and the synchroniser has not shown it yet.
LEMMA PulseStep ==
    ASSUME NEW a, NEW b, NEW q, Step(a, b, q), LineSilent, Pulse
    PROVE  Silenced(a, q)
PROOF
  <1> DEFINE n == cfg.baud - Half - 2
  <1>1. /\ cfg \in Configs /\ cfg' = cfg /\ rx \in RxRecord /\ rxd \in Bit
        /\ Receive(a) /\ rx'.sync = rxd
    BY StepTypes
  <1>2. /\ Synthesised /\ Times
        /\ cfg.baud \in Nat /\ Half \in Nat /\ low \in Nat
    BY Numbers DEF Step
  <1>3. rx.state = "idle" /\ rx.sync = 1 /\ low > 0 /\ Fresh(n)
        /\ (low <= Half + 1 \/ low >= Half + 3 + Cells(Last))
    BY DEF Pulse
  <1>4. FlagsKept(a) /\ rx'.buffer = rx.buffer /\ rx'.state = "idle"
    BY <1>1, <1>3, ReceiveIdle
  <1>5. Flags' /\ Remembers(a) /\ Keeps(q, <<>>)
    BY <1>4, KeepsEmpty DEF LineSilent
  <1>6. n \in Int
    BY <1>2
  <1>7. rx'.rc => n + 1 <= Slack'
    BY <1>3, <1>4, <1>6, FreshStep
  <1>8. put.pc = "ready" /\ low' = low - 1 /\ rx'.sync = 0
    BY <1>2, <1>3, Disturbed DEF AtRest
  <1>9. Half' = Half /\ cfg'.baud = cfg.baud /\ Last' = Last
        /\ Cells(Last)' = Cells(Last)
    BY <1>1, Same DEF Cells
  <1>10. n + 1 = cfg.baud - Half - 1
    BY <1>2
  <1>11. Cells(Last) \in Nat
    BY <1>1, CellsSum, Settings
  <1>12. low' <= Half \/ low' >= Half + 2 + Cells(Last)
    BY <1>2, <1>3, <1>8, <1>11
  <1>13. Dip'
    BY <1>4, <1>7, <1>8, <1>9, <1>10, <1>12 DEF Dip, Fresh
  <1>14. ~(low = 0) /\ put.pc # "poll"
    BY <1>2, <1>3, <1>8
  <1> QED
    BY <1>5, <1>13, <1>14 DEF Silenced, Lull

\* The synchronised pin is low and the receiver leaves idle.
LEMMA DipStep ==
    ASSUME NEW a, NEW b, NEW q, Step(a, b, q), LineSilent, Dip
    PROVE  Silenced(a, q)
PROOF
  <1> DEFINE n == cfg.baud - Half - 1
  <1>1. /\ cfg \in Configs /\ cfg' = cfg /\ rx \in RxRecord /\ rxd \in Bit
        /\ Receive(a) /\ rx'.sync = rxd
    BY StepTypes
  <1>2. /\ Synthesised /\ Times
        /\ cfg.baud \in Nat /\ Half \in Nat /\ low \in Nat /\ Half >= 3
    BY Numbers DEF Step
  <1>3. rx.state = "idle" /\ rx.sync = 0 /\ Fresh(n)
        /\ (low <= Half \/ low >= Half + 2 + Cells(Last))
    BY DEF Dip
  <1>4. FlagsKept(a) /\ rx'.buffer = rx.buffer /\ rx'.state = "wait" /\ rx'.timer = Half
    BY <1>1, <1>3, ReceiveIdle
  <1>5. Flags' /\ Remembers(a) /\ Keeps(q, <<>>)
    BY <1>4, KeepsEmpty DEF LineSilent
  <1>6. n \in Int
    BY <1>2
  <1>7. rx'.rc => n + 1 <= Slack'
    BY <1>3, <1>4, <1>6, FreshStep
  <1>8. put.pc = "ready" /\ low' = (IF low > 0 THEN low - 1 ELSE 0)
        /\ rx'.sync = (IF low > 0 THEN 0 ELSE 1)
    BY <1>3, Disturbed DEF AtRest
  <1>9. Half' = Half /\ cfg'.baud = cfg.baud /\ Last' = Last
        /\ Cells(Last)' = Cells(Last)
    BY <1>1, Same DEF Cells
  <1>10. n + 1 = cfg.baud - Half
    BY <1>2
  <1>11. Cells(Last) \in Nat
    BY <1>1, CellsSum, Settings
  <1>12. JustWaiting'
    BY <1>2, <1>4, <1>7, <1>9, <1>10 DEF JustWaiting, Fresh
  <1>13. Lull'
    <2>1. CASE low <= Half
      <3>1. low' > 0 => low' <= Half - 1
        BY <2>1, <1>2, <1>8
      <3>2. Half >= 1
        BY <1>2
      <3>3. Doubt'
        BY <3>1, <3>2, <1>4, <1>12 DEF Doubt
      <3> QED
        BY <3>3 DEF Lull
    <2>2. CASE low >= Half + 2 + Cells(Last)
      <3>1. low' >= Half + 1 + Cells(Last) /\ rx'.sync = 0
        BY <2>2, <1>2, <1>8, <1>11
      <3>2. BreakWait'
        BY <3>1, <1>4, <1>9, <1>12 DEF BreakWait
      <3> QED
        BY <3>2 DEF Lull
    <2> QED
      BY <2>1, <2>2, <1>3
  <1> QED
    BY <1>5, <1>8, <1>12, <1>13 DEF Silenced, Unaware

\* Half a bit after the pulse began nothing is left of the last character.
LEMMA JustWaitingStep ==
    ASSUME NEW a, NEW b, NEW q, Step(a, b, q), JustWaiting
    PROVE  /\ ~rx'.rc /\ FlagsKept(a)
           /\ Flags' /\ Remembers(a)
           /\ rx.timer \in 0..Half /\ Half < cfg.baud
           /\ rx'.buffer = Zeros
           /\ rx.timer > 0 => rx'.state = "wait" /\ rx'.timer = rx.timer - 1
           /\ rx.timer = 0 /\ rx.sync = 0 =>
                  rx'.state = "iter" /\ rx'.timer = cfg.baud /\ rx'.count = cfg.bits
           /\ rx.timer = 0 /\ rx.sync = 1 => rx'.state = "fail"
PROOF
  <1> DEFINE n == cfg.baud - Half
  <1>1. /\ cfg \in Configs /\ cfg' = cfg /\ rx \in RxRecord /\ rxd \in Bit
        /\ Receive(a) /\ rx'.sync = rxd
    BY StepTypes
  <1>2. /\ Synthesised /\ Synthesised' /\ Times
        /\ cfg.baud \in Nat /\ Half \in Nat /\ Half + 2 * GetDelay + 1 <= cfg.baud
        /\ GetDelay \in Nat \ {0} /\ Half + 4 <= cfg.baud /\ rx.timer \in 0..cfg.baud
    BY Numbers DEF Step
  <1>3. rx.state = "wait" /\ rx.timer <= Half
    BY DEF JustWaiting
  <1>4. /\ FlagsKept(a) /\ rx'.buffer = Zeros
        /\ rx.timer > 0 => rx'.state = "wait" /\ rx'.timer = rx.timer - 1
        /\ rx.timer = 0 /\ rx.sync = 0 =>
               rx'.state = "iter" /\ rx'.timer = cfg.baud /\ rx'.count = cfg.bits
        /\ rx.timer = 0 /\ rx.sync = 1 => rx'.state = "fail"
    BY <1>1, <1>3, ReceiveWait
  <1>5. n \in Int /\ n + 1 \in Int /\ n + 1 > 2 * GetDelay + 1
    BY <1>2
  <1>6. ~rx'.rc
    <2>1. CASE rx.timer = Half
      <3>1. Fresh(n)
        BY <2>1 DEF JustWaiting
      <3>2. rx'.rc => n + 1 <= Slack'
        BY <3>1, <1>4, <1>5, FreshStep
      <3> QED
        BY <3>2, <1>2, <1>5, ExpiredNext
    <2>2. CASE rx.timer # Half
      BY <2>2, <1>4 DEF JustWaiting, FlagsKept
    <2> QED
      BY <2>1, <2>2
  <1>7. rx.timer \in 0..Half /\ Half < cfg.baud
    BY <1>2, <1>3
  <1> QED
    BY <1>4, <1>6, <1>7, FlagsStep

\* A short pulse is over before the receiver looks again.
LEMMA DoubtStep ==
    ASSUME NEW a, NEW b, NEW q, Step(a, b, q), LineSilent, Doubt
    PROVE  Silenced(a, q)
PROOF
  <1>1. /\ cfg' = cfg /\ low \in Nat /\ Half \in Nat /\ rx.sync \in {0, 1}
    BY StepTypes, Numbers DEF Step
  <1>2. JustWaiting /\ (rx.sync = 0 => rx.timer >= 1) /\ (low > 0 => low <= rx.timer - 1)
        /\ rx.state = "wait"
    BY DEF Doubt, JustWaiting
  <1>3. /\ ~rx'.rc /\ FlagsKept(a) /\ rx.timer \in 0..Half
        /\ rx.timer > 0 => rx'.state = "wait" /\ rx'.timer = rx.timer - 1
        /\ rx.timer = 0 /\ rx.sync = 1 => rx'.state = "fail"
    BY <1>2, JustWaitingStep
  <1>4. Flags' /\ Remembers(a) /\ Keeps(q, <<>>)
    BY <1>3, KeepsEmpty DEF LineSilent
  <1>5. put.pc = "ready" /\ low' = (IF low > 0 THEN low - 1 ELSE 0)
        /\ rx'.sync = (IF low > 0 THEN 0 ELSE 1)
    BY <1>2, Disturbed DEF AtRest
  <1>6. Half' = Half
    BY <1>1, Same
  <1>7. CASE rx.timer > 0
    <2>1. rx'.state = "wait" /\ rx'.timer = rx.timer - 1
      BY <1>3, <1>7
    <2>2. rx'.timer <= Half /\ rx'.timer # Half
      BY <2>1, <1>1, <1>3
    <2>3. JustWaiting'
      BY <2>1, <2>2, <1>3, <1>6 DEF JustWaiting
    <2>4. (rx'.sync = 0 => rx'.timer >= 1) /\ (low' > 0 => low' <= rx'.timer - 1)
      BY <2>1, <1>1, <1>2, <1>3, <1>5
    <2>5. Doubt'
      BY <2>3, <2>4 DEF Doubt
    <2> QED
      BY <2>3, <2>5, <1>4, <1>5 DEF Silenced, Lull, Unaware
  <1>8. CASE rx.timer = 0
    <2>1. rx.sync = 1 /\ low = 0
      BY <1>1, <1>2, <1>8
    <2>2. rx'.state = "fail" /\ low' = 0 /\ rx'.sync = 1
      BY <2>1, <1>3, <1>5, <1>8
    <2>3. Fail' /\ Unaware'
      BY <2>2, <1>3 DEF Fail, Unaware
    <2> QED
      BY <2>3, <1>4, <1>5 DEF Silenced, Lull
  <1> QED
    BY <1>3, <1>7, <1>8

\* The receiver forgets the pulse.
LEMMA FailStep ==
    ASSUME NEW a, NEW b, NEW q, Step(a, b, q), LineSilent, Fail
    PROVE  Silenced(a, q)
PROOF
  <1>1. /\ cfg \in Configs /\ cfg' = cfg /\ rx \in RxRecord /\ rxd \in Bit /\ Receive(a)
    BY StepTypes
  <1>2. rx.state = "fail" /\ low = 0 /\ ~rx.rc
    BY DEF Fail
  <1>3. FlagsKept(a) /\ rx'.state = "idle" /\ ~rx'.rc
    BY <1>1, <1>2, ReceiveFail DEF FlagsKept
  <1>4. Flags' /\ Remembers(a) /\ Keeps(q, <<>>)
    BY <1>3, KeepsEmpty DEF LineSilent
  <1>5. put.pc = "ready" /\ low' = 0 /\ rx'.sync = 1
    BY <1>2, Disturbed DEF AtRest
  <1>6. Rest0' /\ Unaware'
    BY <1>3, <1>5 DEF Rest0, Unaware, Fresh
  <1> QED
    BY <1>4, <1>5, <1>6 DEF Silenced, Lull

\* A long pulse is taken for a start bit.
LEMMA BreakWaitStep ==
    ASSUME NEW a, NEW b, NEW q, Step(a, b, q), LineSilent, BreakWait
    PROVE  Silenced(a, q)
PROOF
  <1>1. /\ cfg \in Configs /\ cfg' = cfg /\ low \in Nat /\ Half \in Nat
        /\ cfg.baud \in Nat
    BY StepTypes, Numbers DEF Step
  <1>2. JustWaiting /\ rx.sync = 0 /\ rx.state = "wait"
        /\ low >= rx.timer + 1 + Cells(Last)
    BY DEF BreakWait, JustWaiting
  <1>3. /\ ~rx'.rc /\ FlagsKept(a) /\ rx.timer \in 0..Half /\ rx'.buffer = Zeros
        /\ rx.timer > 0 => rx'.state = "wait" /\ rx'.timer = rx.timer - 1
        /\ rx.timer = 0 /\ rx.sync = 0 =>
               rx'.state = "iter" /\ rx'.timer = cfg.baud /\ rx'.count = cfg.bits
    BY <1>2, JustWaitingStep
  <1>4. Flags' /\ Remembers(a) /\ Keeps(q, <<>>)
    BY <1>3, KeepsEmpty DEF LineSilent
  <1> DEFINE k == cfg.bits + One(cfg.paron)
  <1>5. k \in Nat /\ Last = k + 1
    BY <1>1, Settings DEF Last
  <1>6. Cells(Last) = Cells(k) + cfg.baud + 1 /\ Cells(k) \in Nat
    BY <1>1, <1>5, CellsSum
  <1>7. put.pc = "ready" /\ low' = low - 1 /\ rx'.sync = 0 /\ low # 0
    <2>1. low > 0
      BY <1>1, <1>2, <1>3, <1>6
    <2>2. low # 0
      BY <1>1, <2>1
    <2> QED
      BY <2>1, <2>2, Disturbed DEF AtRest
  <1>8. Half' = Half /\ Last' = Last /\ Cells(Last)' = Cells(Last)
    BY <1>1, Same DEF Cells
  <1>9. CASE rx.timer > 0
    <2>1. rx'.state = "wait" /\ rx'.timer = rx.timer - 1
      BY <1>3, <1>9
    <2>2. /\ rx'.timer <= Half /\ rx'.timer # Half
          /\ low' >= rx'.timer + 1 + Cells(Last)
      BY <2>1, <1>1, <1>2, <1>3, <1>6, <1>7
    <2>3. JustWaiting'
      BY <2>1, <2>2, <1>3, <1>8 DEF JustWaiting
    <2>4. BreakWait'
      BY <2>2, <2>3, <1>7, <1>8 DEF BreakWait
    <2> QED
      BY <2>4, <1>4, <1>7 DEF Silenced, Lull
  <1>10. CASE rx.timer = 0
    <2>1. rx'.state = "iter" /\ rx'.timer = cfg.baud /\ rx'.count = cfg.bits
      BY <1>2, <1>3, <1>10
    <2>2. low' >= cfg.baud + 1 + Cells(k)
      BY <1>1, <1>2, <1>6, <1>7, <1>10
    <2>3. Cells(rx.count + One(cfg.paron))' = Cells(k) /\ Zeros' = Zeros
      BY <2>1, <1>1 DEF Cells, Zeros
    <2>4. BreakIter'
      BY <2>1, <2>2, <2>3, <1>3, <1>7 DEF BreakIter
    <2> QED
      BY <2>4, <1>4, <1>7 DEF Silenced, Lull
  <1> QED
    BY <1>3, <1>9, <1>10

\* A break gives data bits that are all zero.
LEMMA BreakIterStep ==
    ASSUME NEW a, NEW b, NEW q, Step(a, b, q), LineSilent, BreakIter
    PROVE  Silenced(a, q)
PROOF
  <1> DEFINE k == rx.count + One(cfg.paron)
  <1>1. /\ cfg \in Configs /\ cfg' = cfg /\ rx \in RxRecord /\ rxd \in Bit /\ Receive(a)
        /\ low \in Nat /\ cfg.baud \in Nat /\ rx.timer \in 0..cfg.baud
        /\ rx.count \in 0..MaxBits /\ MaxBits \in Nat
        /\ cfg.paron \in BOOLEAN /\ One(cfg.paron) \in {0, 1}
    BY StepTypes, Settings, Numbers DEF Step
  <1>2. rx.state = "iter" /\ rx.sync = 0 /\ rx.buffer = Zeros /\ ~rx.rc
        /\ low >= rx.timer + 1 + Cells(k)
    BY DEF BreakIter
  <1>3. /\ ~rx'.rc /\ (rx'.fe => rx.fe)
        /\ rx.timer > 0 =>
               /\ rx'.state = "iter" /\ rx'.timer = rx.timer - 1
               /\ rx'.count = rx.count /\ rx'.buffer = rx.buffer /\ (rx'.pe => rx.pe)
        /\ rx.timer = 0 /\ rx.count > 0 =>
               /\ rx'.state = "iter" /\ rx'.timer = cfg.baud
               /\ rx'.count = rx.count - 1 /\ rx'.buffer = ShiftedIn
               /\ rx'.pe => rx.pe
        /\ rx.timer = 0 /\ rx.count = 0 /\ cfg.paron =>
               /\ rx'.state = "parity" /\ rx'.timer = cfg.baud
               /\ rx'.buffer = rx.buffer
        /\ rx.timer = 0 /\ rx.count = 0 /\ ~cfg.paron =>
               /\ rx'.state = "ready" /\ rx'.buffer = rx.buffer /\ (rx'.pe => rx.pe)
    BY <1>1, <1>2, ReceiveIter
  <1>4. Flags' /\ Remembers(a)
    <2>1. ~rx.fe /\ (rx.pe => cfg.paron)
      BY DEF Step, Flags
    <2>2. rx'.pe => cfg.paron
      BY <2>1, <1>1, <1>3
    <2> QED
      BY <2>1, <2>2, <1>1, <1>2, <1>3 DEF Flags, Remembers
  <1>5. Keeps(q, <<>>)
    <2>1. q = queue
      BY <1>2, NothingTaken
    <2> QED
      BY <2>1, <1>2, <1>3 DEF Keeps, LineSilent, Held
  <1>6. k \in Nat /\ Cells(k) \in Nat
    BY <1>1, CellsSum
  <1>7. put.pc = "ready" /\ low' = low - 1 /\ rx'.sync = 0 /\ low # 0
    <2>1. low > 0
      BY <1>1, <1>2, <1>6
    <2>2. low # 0
      BY <1>1, <2>1
    <2> QED
      BY <2>1, <2>2, Disturbed DEF AtRest
  <1>8. Zeros' = Zeros
    BY DEF Zeros
  <1>9. CASE rx.timer > 0
    <2>1. Cells(rx.count + One(cfg.paron))' = Cells(k)
      BY <1>1, <1>3, <1>9 DEF Cells
    <2>2. low' >= rx'.timer + 1 + Cells(k)
      BY <1>1, <1>2, <1>3, <1>6, <1>7, <1>9
    <2>3. BreakIter'
      BY <2>1, <2>2, <1>2, <1>3, <1>7, <1>8, <1>9 DEF BreakIter
    <2> QED
      BY <2>3, <1>4, <1>5, <1>7 DEF Silenced, Lull
  <1>10. CASE rx.timer = 0 /\ rx.count > 0
    <2> DEFINE m == rx.count - 1 + One(cfg.paron)
    <2>1. m \in Nat /\ k = m + 1
      BY <1>1, <1>10
    <2>2. Cells(k) = Cells(m) + cfg.baud + 1 /\ Cells(m) \in Nat
      BY <2>1, <1>1, CellsSum
    <2>3. Cells(rx.count + One(cfg.paron))' = Cells(m)
      BY <1>1, <1>3, <1>10 DEF Cells
    <2>4. low' >= rx'.timer + 1 + Cells(m)
      BY <2>2, <1>1, <1>2, <1>3, <1>7, <1>10
    <2>5. ShiftedIn = Zeros
      <3>1. cfg.bits \in 1..MaxBits
        BY <1>1, Settings
      <3>2. \A i \in 1..MaxBits : i < cfg.bits => i + 1 \in 1..MaxBits
        BY <3>1, <1>1
      <3>3. \A i \in 1..MaxBits : rx.buffer[i] = 0
        BY <1>2 DEF Zeros
      <3> QED
        BY <3>2, <3>3, <1>2 DEF ShiftedIn, Zeros
    <2>6. BreakIter'
      BY <2>3, <2>4, <2>5, <1>3, <1>7, <1>8, <1>10 DEF BreakIter
    <2> QED
      BY <2>6, <1>4, <1>5, <1>7 DEF Silenced, Lull
  <1>11. CASE rx.timer = 0 /\ rx.count = 0 /\ cfg.paron
    <2>1. k = 0 + 1 /\ Cells(0 + 1) = Cells(0) + cfg.baud + 1 /\ Cells(0) = 0
      BY <1>1, <1>11, CellsSum DEF One
    <2>2. Cells(k) = cfg.baud + 1
      BY <2>1, <1>1
    <2>a. low >= 0 + 1 + Cells(k)
      BY <1>2, <1>11
    <2> HIDE DEF k
    <2>b. low >= cfg.baud + 2
      BY <2>a, <2>2, <1>1
    <2>c. rx'.timer = cfg.baud /\ low' = low - 1
      BY <1>3, <1>7, <1>11
    <2>3. low' >= rx'.timer + 1
      BY <2>b, <2>c, <1>1
    <2>4. BreakParity'
      BY <2>3, <1>2, <1>3, <1>7, <1>8, <1>11 DEF BreakParity
    <2> QED
      BY <2>4, <1>4, <1>5, <1>7 DEF Silenced, Lull
  <1>12. CASE rx.timer = 0 /\ rx.count = 0 /\ ~cfg.paron
    <2>1. BreakReady'
      BY <1>2, <1>3, <1>7, <1>8, <1>12 DEF BreakReady
    <2> QED
      BY <2>1, <1>4, <1>5, <1>7 DEF Silenced, Lull
  <1> QED
    BY <1>1, <1>9, <1>10, <1>11, <1>12

\* A break gives a parity bit that is zero.
LEMMA BreakParityStep ==
    ASSUME NEW a, NEW b, NEW q, Step(a, b, q), LineSilent, BreakParity
    PROVE  Silenced(a, q)
PROOF
  <1>1. /\ cfg \in Configs /\ rx \in RxRecord /\ rxd \in Bit /\ Receive(a)
        /\ low \in Nat /\ cfg.baud \in Nat /\ rx.timer \in 0..cfg.baud
    BY StepTypes, Numbers DEF Step
  <1>2. rx.state = "parity" /\ rx.sync = 0 /\ rx.buffer = Zeros /\ ~rx.rc
        /\ low >= rx.timer + 1
    BY DEF BreakParity
  <1>3. /\ FlagsKept(a) /\ rx'.buffer = rx.buffer
        /\ rx.timer > 0 => rx'.state = "parity" /\ rx'.timer = rx.timer - 1
        /\ rx.timer = 0 => rx'.state = "ready"
    BY <1>1, <1>2, ReceiveParity
  <1>4. Flags' /\ Remembers(a) /\ Keeps(q, <<>>) /\ ~rx'.rc
    BY <1>2, <1>3, KeepsEmpty DEF LineSilent, FlagsKept
  <1>5. put.pc = "ready" /\ low' = low - 1 /\ rx'.sync = 0 /\ low # 0
    <2>1. low > 0
      BY <1>1, <1>2
    <2>2. low # 0
      BY <1>1, <2>1
    <2> QED
      BY <2>1, <2>2, Disturbed DEF AtRest
  <1>6. Zeros' = Zeros
    BY DEF Zeros
  <1>7. CASE rx.timer > 0
    <2>1. low' >= rx'.timer + 1
      BY <1>1, <1>2, <1>3, <1>5, <1>7
    <2>2. BreakParity'
      BY <2>1, <1>2, <1>3, <1>4, <1>5, <1>6, <1>7 DEF BreakParity
    <2> QED
      BY <2>2, <1>4, <1>5 DEF Silenced, Lull
  <1>8. CASE rx.timer = 0
    <2>1. BreakReady'
      BY <1>2, <1>3, <1>4, <1>5, <1>6, <1>8 DEF BreakReady
    <2> QED
      BY <2>1, <1>4, <1>5 DEF Silenced, Lull
  <1> QED
    BY <1>1, <1>7, <1>8

\* No bit of the frame was one: the receiver takes it for a break.
LEMMA BreakReadyStep ==
    ASSUME NEW a, NEW b, NEW q, Step(a, b, q), LineSilent, BreakReady
    PROVE  Silenced(a, q)
PROOF
  <1>1. /\ rx \in RxRecord /\ rxd \in Bit /\ Receive(a) /\ low \in Nat
    BY StepTypes, Numbers DEF Step
  <1>2. rx.state = "ready" /\ rx.sync = 0 /\ rx.buffer = Zeros /\ ~rx.rc
    BY DEF BreakReady
  <1>3. FlagsKept(a) /\ rx'.buffer = rx.buffer /\ rx'.state = "break"
    BY <1>1, <1>2, ReceiveReady
  <1>4. Flags' /\ Remembers(a) /\ Keeps(q, <<>>) /\ ~rx'.rc
    BY <1>2, <1>3, KeepsEmpty DEF LineSilent, FlagsKept
  <1>5. put.pc = "ready" /\ low' = (IF low > 0 THEN low - 1 ELSE 0)
        /\ rx'.sync = (IF low > 0 THEN 0 ELSE 1)
    BY <1>2, Disturbed DEF AtRest
  <1>6. rx'.sync = 1 => low' = 0
    BY <1>5
  <1>7. Break' /\ Unaware'
    BY <1>3, <1>4, <1>6 DEF Break, Unaware
  <1> QED
    BY <1>4, <1>5, <1>7 DEF Silenced, Lull

\* The receiver waits for the end of the break.
LEMMA BreakStep ==
    ASSUME NEW a, NEW b, NEW q, Step(a, b, q), LineSilent, Break
    PROVE  Silenced(a, q)
PROOF
  <1>1. /\ cfg \in Configs /\ rx \in RxRecord /\ rxd \in Bit /\ Receive(a)
        /\ low \in Nat /\ rx.sync \in {0, 1}
    BY StepTypes, Numbers DEF Step
  <1>2. rx.state = "break" /\ ~rx.rc /\ (rx.sync = 1 => low = 0)
    BY DEF Break
  <1>3. /\ FlagsKept(a)
        /\ rx.sync = 0 => rx'.state = "break"
        /\ rx.sync = 1 => rx'.state = "idle"
    BY <1>1, <1>2, ReceiveBreak
  <1>4. ~rx'.rc
    BY <1>2, <1>3 DEF FlagsKept
  <1>5. Flags' /\ Remembers(a) /\ Keeps(q, <<>>)
    BY <1>3, <1>4, KeepsEmpty DEF LineSilent
  <1>6. put.pc = "ready" /\ low' = (IF low > 0 THEN low - 1 ELSE 0)
        /\ rx'.sync = (IF low > 0 THEN 0 ELSE 1)
    BY <1>2, Disturbed DEF AtRest
  <1>7. CASE rx.sync = 0
    <2>1. Break' /\ Unaware'
      BY <1>3, <1>4, <1>6, <1>7 DEF Break, Unaware
    <2> QED
      BY <2>1, <1>5, <1>6 DEF Silenced, Lull
  <1>8. CASE rx.sync = 1
    <2>1. low' = 0 /\ rx'.sync = 1 /\ rx'.state = "idle"
      BY <1>2, <1>3, <1>6, <1>8
    <2>2. Rest0' /\ Unaware'
      BY <2>1, <1>4 DEF Rest0, Unaware, Fresh
    <2> QED
      BY <2>2, <1>5, <1>6 DEF Silenced, Lull
  <1> QED
    BY <1>1, <1>7, <1>8

\* Silence goes on until uart1_putc writes a character.
LEMMA SilentStep ==
    ASSUME NEW a, NEW b, NEW q, Step(a, b, q), LineSilent
    PROVE  IInv'
PROOF
  <1>1. Silenced(a, q)
    BY RestStep, PulseStep, DipStep, DoubtStep, FailStep, BreakWaitStep, BreakIterStep,
       BreakParityStep, BreakReadyStep, BreakStep DEF LineSilent, Lull
  <1>2. CASE Quiet' /\ queue' = q /\ (put'.pc = put.pc \/ put'.pc = "ready")
    <2>1. Drivers'
      BY <1>1, <1>2, DriversStep DEF Silenced
    <2>2. Held(<<>>)'
      <3>1. CharBits' = CharBits
        BY StepTypes, Same
      <3> QED
        BY <3>1, <1>1, <1>2 DEF Silenced, Keeps, Held, Full
    <2>3. put'.pc = "poll" => AtRest'
      BY <1>1, <1>2 DEF Silenced
    <2>4. LineSilent'
      BY <2>2, <2>3, <1>1, <1>2 DEF LineSilent, Silenced
    <2> QED
      BY <2>1, <2>4, <1>1 DEF IInv, Silenced
  <1>3. ASSUME NEW c \in Word(CharBits), Starting(c)', queue' = Append(q, c),
               put.pc = "ready", low = 0
        PROVE  IInv'
    <2>1. put'.pc = "poll" /\ ~tx'.tc
      BY <1>3 DEF Starting, TxStarting, Waits
    <2>2. Drivers'
      BY <2>1, <1>1, DriversStep DEF Silenced
    <2>3. CharBits' = CharBits
      BY StepTypes, Same
    <2>4. Held(<<c>>)'
      <3>1. CASE rx'.rc
        <4>1. PICK d \in Word(CharBits) : Content(d, 0)' /\ q = <<d>> \o <<>>
          BY <1>1, <3>1 DEF Silenced, Keeps
        <4>2. queue' = <<d>> \o <<c>>
          BY <4>1, <1>3
        <4> QED
          BY <4>1, <4>2, <3>1, <2>3 DEF Held, Full
      <3>2. CASE ~rx'.rc
        <4>1. q = <<>>
          BY <1>1, <3>2 DEF Silenced, Keeps
        <4>2. queue' = <<c>>
          BY <4>1, <1>3
        <4> QED
          BY <4>2, <3>2 DEF Held
      <3> QED
        BY <3>1, <3>2
    <2>5. Starts(c)'
      BY <2>1, <2>4, <1>1, <1>3 DEF Silenced, Starts
    <2>6. Busy'
      BY <2>3, <2>5 DEF Busy
    <2> QED
      BY <2>2, <2>6, <1>1 DEF IInv, Silenced
  <1> QED
    BY <1>2, <1>3, SenderQuiet DEF LineSilent

-----------------------------------------------------------------------------
\* A character on its way: one lemma for each state of the receiver.

\* The invariant from its parts, where a character is on its way.
LEMMA Onward ==
    ASSUME NEW a, NEW b, NEW q, Step(a, b, q), Flags', Remembers(a), Busy' \/ FrameEnds'
    PROVE  IInv'
PROOF
  <1>1. put'.pc = "poll" /\ ~tx'.tc
    BY DEF Busy, FrameEnds, Starts, Await, InWait, InIter, InParity, InReady, LateReady,
       After, InFrame, Starting, Sending, Ending, TxStarting, TxSending, TxEnding, Waits
  <1>2. Drivers'
    BY <1>1, DriversStep
  <1> QED
    BY <1>2 DEF IInv

\* What is kept of the queue is what is held in the next state.
LEMMA HeldNext ==
    ASSUME NEW q, NEW rest, Keeps(q, rest), queue' = q, cfg' = cfg
    PROVE  Held(rest)'
PROOF
  <1>1. CharBits' = CharBits
    BY Same
  <1> QED
    BY <1>1 DEF Keeps, Held, Full

\* The sender has filled the buffer and the receiver does not know it yet.
LEMMA StartsStep ==
    ASSUME NEW a, NEW b, NEW q, Step(a, b, q), NEW c \in Word(CharBits), Starts(c)
    PROVE  IInv'
PROOF
  <1>1. /\ cfg \in Configs /\ cfg' = cfg /\ rx \in RxRecord /\ rxd \in Bit /\ Receive(a)
    BY StepTypes
  <1>2. /\ Synthesised /\ Times
        /\ cfg.baud \in Nat /\ Half \in Nat /\ Half >= 3 /\ Half < cfg.baud
    BY Numbers DEF Step
  <1>3. Starting(c) /\ Held(<<c>>) /\ Unaware /\ rx.sync = 1
    BY DEF Starts, Starting
  <1>4. Sending(c)' /\ BitsSent' = 0 /\ Into' = 0 /\ queue' = q
    BY <1>3, SenderStarting
  <1>5. <<c>> \in Seq(Word(CharBits))
    OBVIOUS
  <1>6. Half' = Half /\ cfg'.baud = cfg.baud /\ CharBits' = CharBits
    BY <1>1, Same
  <1>7. /\ FlagsKept(a)
        /\ rx'.buffer = rx.buffer \/ ~rx'.rc
        /\ \/ /\ rx'.state = "idle"
              /\ rx'.rc => cfg.baud - Half - 1 <= Slack'
           \/ rx'.state = "fail" /\ ~rx'.rc
           \/ rx'.state = "wait" /\ rx'.timer <= Half /\ ~rx'.rc
    <2>1. CASE rx.state = "idle" /\ Fresh(cfg.baud - Half - 2)
      <3> DEFINE n == cfg.baud - Half - 2
      <3>1. FlagsKept(a) /\ rx'.buffer = rx.buffer /\ rx'.state = "idle"
        BY <1>1, <1>3, <2>1, ReceiveIdle
      <3>2. n \in Int /\ n + 1 = cfg.baud - Half - 1 /\ Fresh(n)
        BY <1>2, <2>1
      <3> HIDE DEF n
      <3>3. rx'.rc => n + 1 <= Slack'
        BY <3>1, <3>2, FreshStep
      <3> QED
        BY <3>1, <3>2, <3>3
    <2>2. CASE JustWaiting
      <3>1. /\ ~rx'.rc /\ FlagsKept(a) /\ rx.timer \in 0..Half
            /\ rx.timer > 0 => rx'.state = "wait" /\ rx'.timer = rx.timer - 1
            /\ rx.timer = 0 /\ rx.sync = 1 => rx'.state = "fail"
        BY <2>2, JustWaitingStep
      <3>2. CASE rx.timer > 0
        <4>1. rx.timer - 1 <= Half
          BY <3>1, <1>2
        <4> QED
          BY <4>1, <3>1, <3>2
      <3>3. CASE rx.timer = 0
        BY <3>1, <3>3, <1>3
      <3> QED
        BY <3>1, <3>2, <3>3, <1>2
    <2>3. CASE rx.state = "fail" /\ ~rx.rc
      BY <2>3, <1>1, ReceiveFail DEF FlagsKept
    <2>4. CASE rx.state = "break" /\ ~rx.rc
      BY <2>4, <1>1, <1>3, ReceiveBreak DEF FlagsKept
    <2> QED
      BY <2>1, <2>2, <2>3, <2>4, <1>3 DEF Unaware
  <1>8. Keeps(q, <<c>>)
    BY <1>3, <1>5, <1>7, HeldStep
  <1>9. Held(<<c>>)'
    BY <1>1, <1>4, <1>8, HeldNext
  <1>10. Flags' /\ Remembers(a)
    BY <1>7, FlagsStep
  <1>11. Await(c)'
    <2>1. cfg.baud - Half - 1 + 0 = cfg.baud - Half - 1 /\ 0 <= 1 /\ 0 <= 2 /\ 0 <= 3
      BY <1>2
    <2> QED
      BY <2>1, <1>4, <1>6, <1>7, <1>9 DEF Await, Fresh
  <1> QED
    BY <1>6, <1>10, <1>11, Onward DEF Busy

\* The start bit is on the line and the receiver does not know it yet.
LEMMA AwaitStep ==
    ASSUME NEW a, NEW b, NEW q, Step(a, b, q), NEW c \in Word(CharBits), Await(c)
    PROVE  IInv'
PROOF
  <1>1. /\ cfg \in Configs /\ cfg' = cfg /\ rx \in RxRecord /\ rxd \in Bit /\ Receive(a)
    BY StepTypes
  <1>2. /\ Synthesised /\ Synthesised' /\ Times
        /\ cfg.baud \in Nat /\ Half \in Nat /\ Half >= 3 /\ Half + 4 <= cfg.baud
        /\ Half + 2 * GetDelay + 1 <= cfg.baud /\ GetDelay \in Nat \ {0}
        /\ rx.timer \in 0..cfg.baud
    BY Numbers DEF Step
  <1>3. Sending(c) /\ Held(<<c>>) /\ BitsSent = 0 /\ Into \in 0..cfg.baud /\ Into <= 3
    BY <1>2 DEF Await, Sending, TxSending
  <1>4. Sending(c)' /\ BitsSent' = 0 /\ Into' = Into + 1 /\ queue' = q
    <2>1. Into # cfg.baud
      BY <1>2, <1>3
    <2> QED
      BY <2>1, <1>3, SenderSending
  <1>5. <<c>> \in Seq(Word(CharBits))
    OBVIOUS
  <1>6. Half' = Half /\ cfg'.baud = cfg.baud /\ CharBits' = CharBits
    BY <1>1, Same
  <1>7. rx.sync = IF Into >= 2 THEN 0 ELSE 1
    BY <1>3 DEF Sending, Late, LineBit
  <1>8. CASE rx.state = "idle" /\ Into <= 1
    <2> DEFINE n == cfg.baud - Half - 1 + Into
    <2>1. rx.sync = 1 /\ n \in Int /\ Fresh(n)
      BY <1>2, <1>3, <1>7, <1>8 DEF Await
    <2>2. FlagsKept(a) /\ rx'.buffer = rx.buffer /\ rx'.state = "idle"
      BY <1>1, <1>8, <2>1, ReceiveIdle
    <2>3. n + 1 = cfg.baud - Half - 1 + Into'
      BY <1>2, <1>3, <1>4
    <2> HIDE DEF n
    <2>4. rx'.rc => n + 1 <= Slack'
      BY <2>1, <2>2, FreshStep
    <2>5. Into' > 1 => ~rx'.rc
      <3>1. ASSUME Into' > 1 PROVE ~rx'.rc
        <4>1. n + 1 > 2 * GetDelay + 1 /\ n + 1 \in Int
          BY <2>1, <2>3, <3>1, <1>2, <1>3, <1>4
        <4> QED
          BY <4>1, <2>4, <1>2, ExpiredNext
      <3> QED
        BY <3>1
    <2>6. Flags' /\ Remembers(a) /\ Keeps(q, <<c>>)
      BY <1>3, <1>5, <2>2, HeldStep, FlagsStep
    <2>7. Held(<<c>>)'
      BY <1>1, <1>4, <2>6, HeldNext
    <2>8. Into' <= 3 /\ (~(Into' <= 1) => Into' > 1)
      BY <1>3, <1>4, <1>8
    <2>9. Await(c)'
      <3>1. IF Into' <= 1 THEN rx'.rc => cfg.baud - Half - 1 + Into' <= Slack' ELSE ~rx'.rc
        BY <2>3, <2>4, <2>5, <2>8
      <3>2. IF Into' <= 1 THEN Fresh(cfg.baud - Half - 1 + Into)' ELSE ~rx'.rc
        BY <3>1, <1>6 DEF Fresh
      <3> QED
        BY <3>2, <1>4, <2>2, <2>7, <2>8 DEF Await
    <2> QED
      BY <1>6, <2>6, <2>9, Onward DEF Busy
  <1>9. CASE ~rx.rc
    <2>1. q = queue /\ queue = <<c>>
      BY <1>3, <1>9, NothingTaken DEF Held
    <2>2. CASE rx.state = "idle" /\ Into >= 2
      <3>1. FlagsKept(a) /\ rx'.state = "wait" /\ rx'.timer = Half
        BY <1>1, <1>7, <2>2, ReceiveIdle
      <3>2. Flags' /\ Remembers(a) /\ ~rx'.rc
        BY <3>1, <1>9, FlagsStep DEF FlagsKept
      <3>3. Into' >= 2 /\ Into' + rx'.timer \in 2..Half + 4
        BY <3>1, <1>2, <1>3, <1>4, <2>2
      <3>4. InWait(c)'
        BY <3>1, <3>2, <3>3, <1>4, <1>6, <2>1 DEF InWait, InFrame
      <3> QED
        BY <3>2, <3>4, <1>6, Onward DEF Busy
    <2>3. CASE rx.state = "fail" /\ Into <= 2
      <3>1. FlagsKept(a) /\ rx'.state = "idle"
        BY <1>1, <2>3, ReceiveFail
      <3>2. Flags' /\ Remembers(a) /\ ~rx'.rc
        BY <3>1, <1>9, FlagsStep DEF FlagsKept
      <3>3. Into' <= 3
        BY <1>3, <1>4, <2>3
      <3>4. Held(<<c>>)'
        BY <3>2, <1>4, <2>1 DEF Held
      <3>5. Await(c)'
        BY <3>1, <3>2, <3>3, <3>4, <1>4 DEF Await, Fresh
      <3> QED
        BY <3>2, <3>5, <1>6, Onward DEF Busy
    <2>4. CASE rx.state = "wait" /\ Into <= 1 /\ rx.timer <= Half
      <3>1. /\ FlagsKept(a) /\ rx.sync = 1
            /\ rx.timer > 0 => rx'.state = "wait" /\ rx'.timer = rx.timer - 1
            /\ rx.timer = 0 => rx'.state = "fail"
        <4>1. rx.sync = 1
          BY <1>3, <1>7, <2>4
        <4> QED
          BY <4>1, <1>1, <2>4, ReceiveWait
      <3>2. Flags' /\ Remembers(a) /\ ~rx'.rc
        BY <3>1, <1>9, FlagsStep DEF FlagsKept
      <3>3. Held(<<c>>)'
        BY <3>2, <1>4, <2>1 DEF Held
      <3>4. CASE rx.timer > 0 /\ Into = 0
        <4>1. Into' <= 1 /\ Into' <= 3 /\ rx'.timer <= Half
          BY <3>1, <3>4, <1>2, <1>4, <2>4
        <4>2. Await(c)'
          BY <4>1, <3>1, <3>2, <3>3, <3>4, <1>4, <1>6 DEF Await
        <4> QED
          BY <4>2, <3>2, <1>6, Onward DEF Busy
      <3>5. CASE rx.timer > 0 /\ Into = 1
        <4>1. Into' >= 2 /\ Into' + rx'.timer \in 2..Half + 4
          BY <3>1, <3>5, <1>2, <1>4, <2>4
        <4>2. InWait(c)'
          BY <4>1, <3>1, <3>2, <3>5, <1>4, <1>6, <2>1 DEF InWait, InFrame
        <4> QED
          BY <4>2, <3>2, <1>6, Onward DEF Busy
      <3>6. CASE rx.timer = 0
        <4>1. Into' <= 2
          BY <1>3, <1>4, <2>4
        <4>2. Await(c)'
          BY <4>1, <3>1, <3>2, <3>3, <3>6, <1>4 DEF Await
        <4> QED
          BY <4>2, <3>2, <1>6, Onward DEF Busy
      <3> QED
        BY <3>4, <3>5, <3>6, <1>2, <1>3, <2>4
    <2>5. \/ rx.state = "idle" /\ Into >= 2
          \/ rx.state = "idle" /\ Into <= 1
          \/ rx.state = "fail" /\ Into <= 2
          \/ rx.state = "wait" /\ Into <= 1 /\ rx.timer <= Half
      BY <1>3 DEF Await
    <2> QED
      BY <1>8, <2>2, <2>3, <2>4, <2>5
  <1>10. (rx.state = "idle" /\ Into <= 1) \/ ~rx.rc
    BY DEF Await
  <1> QED
    BY <1>8, <1>9, <1>10

\* From the stop bit on the line is high.
LEMMA StopBit ==
    ASSUME cfg \in Configs, NEW w, NEW i \in Nat, i >= Last
    PROVE  LineBit(cfg, w, i) = 1
PROOF
  <1>1. /\ cfg.bits \in Nat /\ cfg.paron \in BOOLEAN
        /\ Last = IF cfg.paron THEN cfg.bits + 2 ELSE cfg.bits + 1
    BY Settings DEF Last, One
  <1>2. i # 0 /\ ~(i <= cfg.bits) /\ ~(i = cfg.bits + 1 /\ cfg.paron)
    BY <1>1
  <1> QED
    BY <1>2 DEF LineBit

\* The numbers of a frame on its way.
LEMMA FrameNumbers ==
    ASSUME NEW a, NEW b, NEW q, Step(a, b, q), NEW c \in Word(CharBits), Sending(c)
    PROVE  /\ BitsSent \in 0..TxBits /\ Into \in 0..cfg.baud
           /\ cfg.baud \in Nat /\ Half \in Nat /\ Half >= 3 /\ Half + 4 <= cfg.baud
           /\ rx.timer \in 0..cfg.baud /\ rx.count \in 0..MaxBits
           /\ TxBits \in Nat /\ Last \in Nat /\ Last <= TxBits /\ TxBits <= Last + 1
           /\ cfg.bits \in Nat /\ cfg.bits >= 1
           /\ Half' = Half /\ cfg'.baud = cfg.baud /\ Last' = Last /\ TxBits' = TxBits
           /\ CharBits' = CharBits /\ cfg' = cfg
PROOF
  <1>1. cfg \in Configs /\ cfg' = cfg
    BY StepTypes
  <1>2. Synthesised /\ Times
    BY DEF Step
  <1>3. /\ cfg.baud \in Nat /\ Half \in Nat /\ Half >= 3 /\ Half + 4 <= cfg.baud
        /\ rx.timer \in 0..cfg.baud /\ rx.count \in 0..MaxBits
    BY <1>2, Numbers
  <1>4. /\ TxBits \in Nat /\ Last \in Nat /\ TxBits = Last + One(cfg.sp2)
        /\ One(cfg.sp2) \in {0, 1} /\ cfg.bits \in 1..MaxBits /\ MaxBits \in Nat
    BY <1>1, Settings
  <1>5. Last <= TxBits /\ TxBits <= Last + 1 /\ cfg.bits \in Nat /\ cfg.bits >= 1
    BY <1>4
  <1>6. /\ Half' = Half /\ cfg'.baud = cfg.baud /\ Last' = Last /\ TxBits' = TxBits
        /\ CharBits' = CharBits
    BY <1>1, Same
  <1> QED
    BY <1>1, <1>3, <1>4, <1>5, <1>6 DEF Sending, TxSending

\* Where the timer of the receiver runs out, place j has been on the line for
\* at least two cycles, so the synchronised pin shows its bit.
LEMMA AlignedSample ==
    ASSUME NEW a, NEW b, NEW q, Step(a, b, q), NEW c \in Word(CharBits), Sending(c),
           NEW j \in Nat, Aligned(j), rx.timer = 0
    PROVE  /\ BitsSent = j /\ Into \in 2..Half + 4
           /\ rx.sync = LineBit(cfg, Extended(c), j)
PROOF
  <1>1. /\ BitsSent \in 0..TxBits /\ Into \in 0..cfg.baud /\ cfg.baud \in Nat /\ Half \in Nat
    BY FrameNumbers
  <1>2. BitsSent = j /\ Into \in 2..Half + 4
    BY <1>1 DEF Aligned
  <1> QED
    BY <1>2 DEF Sending, Late

\* The two timers count down and up together.
LEMMA AlignedDown ==
    ASSUME NEW a, NEW b, NEW q, Step(a, b, q), NEW c \in Word(CharBits), Sending(c),
           NEW j \in Nat, j <= Last, Aligned(j), rx.timer > 0, rx'.timer = rx.timer - 1
    PROVE  Sending(c)' /\ Aligned(j)' /\ queue' = q
PROOF
  <1>1. /\ BitsSent \in 0..TxBits /\ Into \in 0..cfg.baud /\ cfg.baud \in Nat /\ Half \in Nat
        /\ Half + 4 <= cfg.baud /\ rx.timer \in 0..cfg.baud /\ TxBits \in Nat
        /\ Last \in Nat /\ Last <= TxBits
        /\ Half' = Half /\ cfg'.baud = cfg.baud
    BY FrameNumbers
  <1>2. CASE Into < cfg.baud /\ Sending(c)' /\ BitsSent' = BitsSent /\ Into' = Into + 1
    <2>1. Into' + rx'.timer = Into + rx.timer
      BY <1>1, <1>2
    <2> QED
      BY <2>1, <1>1, <1>2, SenderSending DEF Aligned
  <1>3. CASE Into = cfg.baud
    <2>1. BitsSent = j - 1 /\ Into + rx.timer \in cfg.baud + 3..cfg.baud + Half + 5
      BY <1>1, <1>3 DEF Aligned
    <2>2. BitsSent # TxBits
      BY <2>1, <1>1
    <2>3. Sending(c)' /\ BitsSent' = BitsSent + 1 /\ Into' = 0 /\ queue' = q
      BY <2>2, <1>1, <1>3, SenderSending
    <2>4. BitsSent' = j /\ Into' + rx'.timer \in 2..Half + 4
      BY <2>1, <2>3, <1>1, <1>3
    <2> QED
      BY <2>3, <2>4, <1>1 DEF Aligned
  <1> QED
    BY <1>2, <1>3, SenderSending

\* After a sample the receiver waits a bit, and the next place comes.
LEMMA AlignedNext ==
    ASSUME NEW a, NEW b, NEW q, Step(a, b, q), NEW c \in Word(CharBits), Sending(c),
           NEW j \in Nat, j + 1 <= Last, BitsSent = j, Into \in 2..Half + 4,
           rx'.timer = cfg.baud
    PROVE  Sending(c)' /\ Aligned(j + 1)' /\ queue' = q
PROOF
  <1>1. /\ BitsSent \in 0..TxBits /\ Into \in 0..cfg.baud /\ cfg.baud \in Nat /\ Half \in Nat
        /\ Half + 4 <= cfg.baud /\ TxBits \in Nat /\ Last \in Nat /\ Last <= TxBits
        /\ Half' = Half /\ cfg'.baud = cfg.baud
    BY FrameNumbers
  <1>2. CASE Into < cfg.baud /\ Sending(c)' /\ BitsSent' = BitsSent /\ Into' = Into + 1
    <2>1. BitsSent' = (j + 1) - 1
          /\ Into' + rx'.timer \in cfg.baud + 3..cfg.baud + Half + 5
      BY <1>1, <1>2
    <2> QED
      BY <2>1, <1>1, <1>2, SenderSending DEF Aligned
  <1>3. CASE Into = cfg.baud
    <2>1. BitsSent # TxBits
      BY <1>1
    <2>2. Sending(c)' /\ BitsSent' = BitsSent + 1 /\ Into' = 0 /\ queue' = q
      BY <2>1, <1>1, <1>3, SenderSending
    <2>3. BitsSent' = j + 1 /\ Into' + rx'.timer \in 2..Half + 4
      BY <2>2, <1>1, <1>3
    <2> QED
      BY <2>2, <2>3, <1>1 DEF Aligned
  <1> QED
    BY <1>2, <1>3, SenderSending

\* After the sample of the stop bit the line stays high.
LEMMA AlignedStop ==
    ASSUME NEW a, NEW b, NEW q, Step(a, b, q), NEW c \in Word(CharBits), Sending(c),
           BitsSent = Last, Into \in 2..Half + 4
    PROVE  /\ queue' = q /\ rx'.sync = 1
           /\ \/ Sending(c)' /\ BitsSent' = Last' /\ (Into \in 3..Half + 5)'
              \/ Sending(c)' /\ BitsSent' > Last' /\ Into' = 0 /\ (cfg.baud <= Half + 4)'
              \/ Ending' /\ (cfg.baud <= Half + 4)'
PROOF
  <1>1. /\ BitsSent \in 0..TxBits /\ Into \in 0..cfg.baud /\ cfg.baud \in Nat /\ Half \in Nat
        /\ Half + 4 <= cfg.baud /\ TxBits \in Nat /\ Last \in Nat /\ Last <= TxBits
        /\ Half' = Half /\ cfg'.baud = cfg.baud /\ Last' = Last /\ cfg' = cfg
    BY FrameNumbers
  <1>2. queue' = q
    BY SenderSending
  <1>c. cfg \in Configs
    BY StepTypes
  <1>q. PICK w : w = Extended(c)
    OBVIOUS
  <1>e. Extended(c)' = w
    BY <1>q, <1>1 DEF Extended
  <1>l. LineBit(cfg, w, Last) = 1
    BY <1>1, <1>c, StopBit
  <1>3. CASE Into < cfg.baud /\ Sending(c)' /\ BitsSent' = BitsSent /\ Into' = Into + 1
    <2>1. Into + 1 \in 3..Half + 5 /\ Into + 1 >= 2
      BY <1>1
    <2>2. rx'.sync = Late(cfg, w, Last, Into + 1, 2)
      BY <1>1, <1>3, <1>e DEF Sending
    <2>3. rx'.sync = 1
      BY <2>1, <2>2, <1>l DEF Late
    <2> QED
      BY <2>1, <2>3, <1>1, <1>2, <1>3
  <1>4. CASE Into = cfg.baud /\ Sending(c)' /\ BitsSent' = BitsSent + 1 /\ Into' = 0
    <2>1. cfg.baud <= Half + 4 /\ Last + 1 > Last /\ Last + 1 >= 1 /\ (Last + 1) - 1 = Last
          /\ ~(0 >= 2)
      BY <1>1, <1>4
    <2>2. rx'.sync = Late(cfg, w, Last + 1, 0, 2)
      BY <1>1, <1>4, <1>e DEF Sending
    <2>3. rx'.sync = 1
      BY <2>1, <2>2, <1>l DEF Late
    <2> QED
      BY <2>1, <2>3, <1>1, <1>2, <1>4
  <1>5. CASE Into = cfg.baud /\ Ending'
    <2>1. cfg.baud <= Half + 4
      BY <1>1, <1>5
    <2> QED
      BY <2>1, <1>1, <1>2, <1>5 DEF Ending
  <1> QED
    BY <1>3, <1>4, <1>5, SenderSending

\* The receiver counts half a bit from the start bit and looks again.
LEMMA InWaitStep ==
    ASSUME NEW a, NEW b, NEW q, Step(a, b, q), NEW c \in Word(CharBits), InWait(c)
    PROVE  IInv'
PROOF
  <1>1. /\ cfg \in Configs /\ cfg' = cfg /\ rx \in RxRecord /\ rxd \in Bit /\ Receive(a)
    BY StepTypes
  <1>2. /\ Sending(c) /\ queue = <<c>> /\ ~rx.rc /\ rx.state = "wait"
        /\ BitsSent = 0 /\ Into >= 2 /\ Into + rx.timer \in 2..Half + 4
    BY DEF InWait, InFrame
  <1>3. /\ Into \in 0..cfg.baud /\ cfg.baud \in Nat /\ Half \in Nat
        /\ Half + 4 <= cfg.baud /\ rx.timer \in 0..cfg.baud /\ TxBits \in Nat
        /\ Last \in Nat /\ Last <= TxBits /\ cfg.bits \in Nat /\ cfg.bits >= 1
        /\ Half' = Half /\ cfg'.baud = cfg.baud /\ CharBits' = CharBits
    BY <1>2, FrameNumbers
  <1>4. rx.sync = 0
    BY <1>2 DEF Sending, Late, LineBit
  <1>5. /\ FlagsKept(a) /\ rx'.buffer = Zeros
        /\ rx.timer > 0 => rx'.state = "wait" /\ rx'.timer = rx.timer - 1
        /\ rx.timer = 0 =>
               rx'.state = "iter" /\ rx'.timer = cfg.baud /\ rx'.count = cfg.bits
    BY <1>1, <1>2, <1>4, ReceiveWait
  <1>6. Flags' /\ Remembers(a) /\ ~rx'.rc
    BY <1>2, <1>5, FlagsStep DEF FlagsKept
  <1>7. q = <<c>>
    BY <1>2, NothingTaken
  <1>8. CASE rx.timer > 0
    <2>1. Into # cfg.baud
      BY <1>2, <1>3, <1>8
    <2>2. Sending(c)' /\ BitsSent' = 0 /\ Into' = Into + 1 /\ queue' = q
      BY <2>1, <1>2, SenderSending
    <2>3. Into' >= 2 /\ Into' + rx'.timer \in 2..Half + 4
      BY <2>2, <1>2, <1>3, <1>5, <1>8
    <2>4. InWait(c)'
      BY <2>2, <2>3, <1>3, <1>5, <1>6, <1>7, <1>8 DEF InWait, InFrame
    <2> QED
      BY <2>4, <1>3, <1>6, Onward DEF Busy
  <1>9. CASE rx.timer = 0
    <2>1. Into \in 2..Half + 4 /\ rx'.timer = cfg.baud /\ 0 + 1 <= Last
      <3>1. Last >= 1
        BY <1>1, Settings
      <3> QED
        BY <3>1, <1>2, <1>3, <1>5, <1>9
    <2>2. Sending(c)' /\ Aligned(0 + 1)' /\ queue' = q
      BY <2>1, <1>2, AlignedNext
    <2>3. rx'.count = cfg'.bits /\ cfg'.bits - rx'.count + 1 = 0 + 1
      BY <1>1, <1>3, <1>5, <1>9
    <2>4. Aligned(cfg.bits - rx.count + 1)'
      BY <2>2, <2>3 DEF Aligned
    <2>5. Content(c, rx.count)'
      <3>1. \A i : ~(cfg.bits < i /\ i <= cfg.bits) \/ i \notin 1..MaxBits
        BY <1>3
      <3> QED
        BY <3>1, <2>3, <1>1, <1>5 DEF Content, Zeros
    <2>6. InIter(c)'
      BY <2>2, <2>3, <2>4, <2>5, <1>1, <1>3, <1>5, <1>6, <1>7, <1>9 DEF InIter, InFrame
    <2> QED
      BY <2>6, <1>3, <1>6, Onward DEF Busy
  <1> QED
    BY <1>3, <1>8, <1>9

\* A data bit is shifted in from the top.
LEMMA ContentShift ==
    ASSUME cfg \in Configs, rx \in RxRecord, NEW c \in Word(CharBits),
           NEW k \in 1..cfg.bits, Content(c, k),
           rx.sync = Extended(c)[cfg.bits - k + 1],
           NEW i \in 1..MaxBits
    PROVE  ShiftedIn[i] = IF k - 1 < i /\ i <= cfg.bits THEN Extended(c)[i - (k - 1)] ELSE 0
PROOF
  <1>1. cfg.bits \in 1..MaxBits /\ MaxBits \in Nat
    BY Settings
  <1>2. ShiftedIn[i] = IF i < cfg.bits THEN rx.buffer[i + 1]
                       ELSE IF i = cfg.bits THEN rx.sync ELSE rx.buffer[i]
    BY DEF ShiftedIn
  <1>3. CASE i < cfg.bits
    <2>1. PICK z \in 1..MaxBits : z = i + 1
      BY <1>1, <1>3
    <2>2. rx.buffer[z] = IF k < z /\ z <= cfg.bits THEN Extended(c)[z - k] ELSE 0
      BY DEF Content
    <2>3. (k < z <=> k - 1 < i) /\ z <= cfg.bits /\ i <= cfg.bits /\ z - k = i - (k - 1)
      BY <2>1, <1>1, <1>3
    <2> QED
      BY <2>1, <2>2, <2>3, <1>2, <1>3
  <1>4. CASE i = cfg.bits
    <2>1. k - 1 < i /\ i <= cfg.bits /\ ~(i < cfg.bits) /\ i - (k - 1) = cfg.bits - k + 1
      BY <1>1, <1>4
    <2> QED
      BY <2>1, <1>2, <1>4
  <1>5. CASE i > cfg.bits
    <2>1. ~(i <= cfg.bits) /\ ~(i < cfg.bits) /\ i # cfg.bits
      BY <1>1, <1>5
    <2>2. rx.buffer[i] = 0
      BY <2>1 DEF Content
    <2> QED
      BY <2>1, <2>2, <1>2
  <1> QED
    BY <1>1, <1>3, <1>4, <1>5

\* The receiver becomes ready with the sample of the stop bit.
LEMMA ReadyNext ==
    ASSUME NEW a, NEW b, NEW q, Step(a, b, q), NEW c \in Word(CharBits), Sending(c),
           BitsSent = Last, Into \in 2..Half + 4, queue = <<c>>, q = queue,
           Content(c, 0), rx'.state = "ready", rx'.buffer = rx.buffer, ~rx'.rc, ~rx'.pe
    PROVE  InReady(c)' \/ LateReady(c)'
PROOF
  <1>1. /\ queue' = q /\ rx'.sync = 1
        /\ \/ Sending(c)' /\ BitsSent' = Last' /\ (Into \in 3..Half + 5)'
           \/ Sending(c)' /\ BitsSent' > Last' /\ Into' = 0 /\ (cfg.baud <= Half + 4)'
           \/ Ending' /\ (cfg.baud <= Half + 4)'
    BY AlignedStop
  <1>2. cfg' = cfg
    BY StepTypes
  <1>3. Content(c, 0)'
    BY <1>2 DEF Content, Extended
  <1>4. Ready(c)'
    BY <1>1, <1>3 DEF Ready
  <1> QED
    BY <1>1, <1>4 DEF InReady, LateReady, InFrame

\* A data bit is sampled where the transmitter holds it on the line.
LEMMA InIterStep ==
    ASSUME NEW a, NEW b, NEW q, Step(a, b, q), NEW c \in Word(CharBits), InIter(c)
    PROVE  IInv'
PROOF
  <1>1. /\ cfg \in Configs /\ cfg' = cfg /\ rx \in RxRecord /\ rxd \in Bit /\ Receive(a)
    BY StepTypes
  <1>2. /\ Sending(c) /\ queue = <<c>> /\ ~rx.rc /\ rx.state = "iter"
        /\ rx.count <= cfg.bits /\ Aligned(cfg.bits - rx.count + 1) /\ Content(c, rx.count)
    BY DEF InIter, InFrame
  <1>3. /\ cfg.baud \in Nat /\ Half \in Nat /\ rx.timer \in 0..cfg.baud
        /\ rx.count \in 0..MaxBits /\ Last \in Nat /\ cfg.bits \in Nat /\ cfg.bits >= 1
        /\ CharBits' = CharBits /\ cfg'.baud = cfg.baud
    BY <1>2, FrameNumbers
  <1>l. cfg.paron \in BOOLEAN /\ Last = IF cfg.paron THEN cfg.bits + 2 ELSE cfg.bits + 1
    BY <1>1, <1>3, Settings DEF Last, One
  <1>4. PICK j \in Nat : j = cfg.bits - rx.count + 1
    BY <1>2, <1>3
  <1>5. j <= Last /\ Aligned(j) /\ j >= 1
    BY <1>2, <1>3, <1>4, <1>l
  <1>6. /\ ~rx'.rc /\ (rx'.fe => rx.fe)
        /\ rx.timer > 0 =>
               /\ rx'.state = "iter" /\ rx'.timer = rx.timer - 1
               /\ rx'.count = rx.count /\ rx'.buffer = rx.buffer /\ (rx'.pe => rx.pe)
        /\ rx.timer = 0 /\ rx.count > 0 =>
               /\ rx'.state = "iter" /\ rx'.timer = cfg.baud
               /\ rx'.count = rx.count - 1 /\ rx'.buffer = ShiftedIn
               /\ rx'.pe => rx.pe
        /\ rx.timer = 0 /\ rx.count = 0 /\ cfg.paron =>
               /\ rx'.state = "parity" /\ rx'.timer = cfg.baud
               /\ rx'.buffer = rx.buffer /\ (rx'.pe => ParityError)
        /\ rx.timer = 0 /\ rx.count = 0 /\ ~cfg.paron =>
               /\ rx'.state = "ready" /\ rx'.buffer = rx.buffer /\ (rx'.pe => rx.pe)
    BY <1>1, <1>2, ReceiveIter
  <1>7. Flags' /\ Remembers(a)
    <2>1. ~rx.fe /\ (rx.pe => cfg.paron)
      BY DEF Step, Flags
    <2>2. rx'.pe => cfg.paron
      BY <2>1, <1>3, <1>6
    <2> QED
      BY <2>1, <2>2, <1>1, <1>2, <1>6 DEF Flags, Remembers
  <1>8. q = <<c>>
    BY <1>2, NothingTaken
  <1>9. CASE rx.timer > 0
    <2>1. Sending(c)' /\ Aligned(j)' /\ queue' = q
      BY <1>2, <1>5, <1>6, <1>9, AlignedDown
    <2>2. cfg'.bits - rx'.count + 1 = j /\ rx'.count <= cfg'.bits
      BY <1>1, <1>2, <1>4, <1>6, <1>9
    <2>3. Aligned(cfg.bits - rx.count + 1)'
      BY <2>1, <2>2 DEF Aligned
    <2>4. Content(c, rx.count)'
      BY <1>1, <1>2, <1>6, <1>9 DEF Content, Extended
    <2>5. InIter(c)'
      BY <2>1, <2>2, <2>3, <2>4, <1>6, <1>8, <1>9 DEF InIter, InFrame
    <2> QED
      BY <2>5, <1>3, <1>7, Onward DEF Busy
  <1>10. CASE rx.timer = 0
    <2>1. /\ BitsSent = j /\ Into \in 2..Half + 4
          /\ rx.sync = LineBit(cfg, Extended(c), j)
      BY <1>2, <1>5, <1>10, AlignedSample
    <2>2. CASE rx.count > 0
      <3>1. /\ j # 0 /\ j <= cfg.bits /\ j + 1 <= Last /\ rx.count \in 1..cfg.bits
        BY <2>2, <1>2, <1>3, <1>4, <1>5, <1>l
      <3>2. rx.sync = Extended(c)[cfg.bits - rx.count + 1]
        BY <2>1, <3>1, <1>4 DEF LineBit
      <3>3. Sending(c)' /\ Aligned(j + 1)' /\ queue' = q
        BY <2>1, <2>2, <3>1, <1>2, <1>6, <1>10, AlignedNext
      <3>4. cfg'.bits - rx'.count + 1 = j + 1 /\ rx'.count <= cfg'.bits
        BY <2>2, <1>1, <1>2, <1>3, <1>4, <1>6, <1>10
      <3>5. Aligned(cfg.bits - rx.count + 1)'
        BY <3>3, <3>4 DEF Aligned
      <3>6. PICK k \in 1..cfg.bits : k = rx.count
        BY <3>1
      <3>7. \A i \in 1..MaxBits :
                ShiftedIn[i] = IF k - 1 < i /\ i <= cfg.bits
                               THEN Extended(c)[i - (k - 1)] ELSE 0
        BY <3>2, <3>6, <1>1, <1>2, ContentShift
      <3>8. rx'.buffer = ShiftedIn /\ rx'.count = k - 1 /\ Extended(c)' = Extended(c)
        BY <2>2, <3>6, <1>1, <1>6, <1>10 DEF Extended
      <3>9. Content(c, rx.count)'
        BY <3>7, <3>8, <1>1 DEF Content
      <3>10. InIter(c)'
        BY <3>3, <3>4, <3>5, <3>9, <1>6, <1>8, <1>10, <2>2 DEF InIter, InFrame
      <3> QED
        BY <3>10, <1>3, <1>7, Onward DEF Busy
    <2>3. CASE rx.count = 0 /\ cfg.paron
      <3>1. j = cfg.bits + 1 /\ j + 1 <= Last /\ j # 0 /\ ~(j <= cfg.bits)
        BY <2>3, <1>3, <1>4, <1>l
      <3>2. rx.sync = xor_reduce(Append(Extended(c), cfg.odd))
        BY <2>1, <2>3, <3>1 DEF LineBit
      <3>3. Content(c, 0)
        BY <2>3, <1>2
      <3>4. ~rx'.pe
        BY <3>2, <3>3, <2>3, <1>1, <1>6, <1>10, ParityAgrees
      <3>5. Sending(c)' /\ Aligned(j + 1)' /\ queue' = q
        BY <2>1, <2>3, <3>1, <1>2, <1>6, <1>10, AlignedNext
      <3>6. j + 1 = cfg.bits + 2
        BY <3>1, <1>3
      <3>7. Aligned(cfg.bits + 2)'
        BY <3>5, <3>6, <1>1 DEF Aligned
      <3>8. Content(c, 0)'
        BY <2>3, <3>3, <1>1, <1>6, <1>10 DEF Content, Extended
      <3>9. InParity(c)'
        BY <2>3, <3>4, <3>5, <3>7, <3>8, <1>1, <1>6, <1>8, <1>10 DEF InParity, InFrame
      <3> QED
        BY <3>9, <1>3, <1>7, Onward DEF Busy
    <2>4. CASE rx.count = 0 /\ ~cfg.paron
      <3>1. BitsSent = Last
        BY <2>1, <2>4, <1>3, <1>4, <1>l
      <3>2. Content(c, 0)
        BY <2>4, <1>2
      <3>3. ~rx'.pe
        BY <2>4, <1>6, <1>10 DEF Step, Flags
      <3>4. InReady(c)' \/ LateReady(c)'
        BY <2>1, <2>4, <3>1, <3>2, <3>3, <1>2, <1>6, <1>8, <1>10, ReadyNext
      <3> QED
        BY <3>4, <1>3, <1>7, Onward DEF Busy
    <2> QED
      BY <2>2, <2>3, <2>4, <1>3
  <1> QED
    BY <1>3, <1>9, <1>10

\* The parity bit is sampled, and the parity of buffer and line agree.
LEMMA InParityStep ==
    ASSUME NEW a, NEW b, NEW q, Step(a, b, q), NEW c \in Word(CharBits), InParity(c)
    PROVE  IInv'
PROOF
  <1>1. /\ cfg \in Configs /\ cfg' = cfg /\ rx \in RxRecord /\ rxd \in Bit /\ Receive(a)
    BY StepTypes
  <1>2. /\ Sending(c) /\ queue = <<c>> /\ ~rx.rc /\ rx.state = "parity" /\ cfg.paron
        /\ Aligned(cfg.bits + 2) /\ Content(c, 0) /\ ~rx.pe
    BY DEF InParity, InFrame
  <1>3. /\ cfg.baud \in Nat /\ Half \in Nat /\ rx.timer \in 0..cfg.baud
        /\ cfg.bits \in Nat /\ CharBits' = CharBits
    BY <1>2, FrameNumbers
  <1>4. PICK j \in Nat : j = cfg.bits + 2
    BY <1>3
  <1>5. j = Last /\ j <= Last /\ Aligned(j)
    BY <1>2, <1>3, <1>4 DEF Last, One
  <1>6. /\ FlagsKept(a) /\ rx'.buffer = rx.buffer
        /\ rx.timer > 0 => rx'.state = "parity" /\ rx'.timer = rx.timer - 1
        /\ rx.timer = 0 => rx'.state = "ready"
    BY <1>1, <1>2, ReceiveParity
  <1>7. Flags' /\ Remembers(a) /\ ~rx'.rc /\ ~rx'.pe
    BY <1>2, <1>6, FlagsStep DEF FlagsKept
  <1>8. q = <<c>>
    BY <1>2, NothingTaken
  <1>9. CASE rx.timer > 0
    <2>1. Sending(c)' /\ Aligned(j)' /\ queue' = q
      BY <1>2, <1>5, <1>6, <1>9, AlignedDown
    <2>2. Aligned(cfg.bits + 2)'
      BY <2>1, <1>1, <1>4 DEF Aligned
    <2>3. Content(c, 0)'
      BY <1>1, <1>2, <1>6 DEF Content, Extended
    <2>4. InParity(c)'
      BY <2>1, <2>2, <2>3, <1>1, <1>2, <1>6, <1>7, <1>8, <1>9 DEF InParity, InFrame
    <2> QED
      BY <2>4, <1>3, <1>7, Onward DEF Busy
  <1>10. CASE rx.timer = 0
    <2>1. BitsSent = Last /\ Into \in 2..Half + 4
      BY <1>2, <1>5, <1>10, AlignedSample
    <2>2. InReady(c)' \/ LateReady(c)'
      BY <2>1, <1>2, <1>6, <1>7, <1>8, <1>10, ReadyNext
    <2> QED
      BY <2>2, <1>3, <1>7, Onward DEF Busy
  <1> QED
    BY <1>3, <1>9, <1>10

\* The character is complete: RC rises with the buffer as it was sent.
LEMMA ReadyStep ==
    ASSUME NEW a, NEW b, NEW q, Step(a, b, q), NEW c \in Word(CharBits), Ready(c),
           queue = <<c>>, ~rx.rc
    PROVE  /\ q = queue /\ Flags' /\ Remembers(a) /\ rx'.state = "idle" /\ rx'.rc
           /\ queue' = q => Held(<<>>)'
PROOF
  <1>1. /\ cfg' = cfg /\ rx \in RxRecord /\ rxd \in Bit /\ Receive(a)
    BY StepTypes
  <1>2. rx.state = "ready" /\ Content(c, 0) /\ rx.sync = 1 /\ ~rx.pe
    BY DEF Ready
  <1>3. /\ rx'.buffer = rx.buffer /\ (rx'.pe => rx.pe)
        /\ rx'.state = "idle" /\ rx'.rc /\ (rx'.fe => rx.fe)
    BY <1>1, <1>2, ReceiveReady
  <1>4. Flags' /\ Remembers(a)
    BY <1>2, <1>3 DEF Step, Flags, Remembers
  <1>5. q = queue
    BY NothingTaken
  <1>6. ASSUME queue' = q PROVE Held(<<>>)'
    <2>1. Content(c, 0)'
      BY <1>1, <1>2, <1>3 DEF Content, Extended
    <2>2. queue' = <<c>> \o <<>>
      BY <1>5, <1>6
    <2>3. CharBits' = CharBits
      BY <1>1, Same
    <2> QED
      BY <2>1, <2>2, <2>3, <1>3 DEF Held, Full
  <1> QED
    BY <1>3, <1>4, <1>5, <1>6

\* A bound below zero is no bound.
LEMMA FreshNow ==
    ASSUME Synthesised', NEW n \in Int, n <= 0
    PROVE  rx'.rc => n <= Slack'
PROOF
  <1>1. get'.gap \in 0..GetDelay /\ GetDelay \in Nat
    BY UartAssumption DEF Synthesised, Registers
  <1>2. Slack' \in Int /\ Slack' >= 0
    BY <1>1 DEF Slack
  <1> QED
    BY <1>2

\* The synchronised pin stays high after the first cycle of the stop bit.
LEMMA HighAfter ==
    ASSUME NEW a, NEW b, NEW q, Step(a, b, q), NEW c \in Word(CharBits), Sending(c),
           BitsSent >= Last, BitsSent > Last \/ Into >= 1
    PROVE  rx'.sync = 1
PROOF
  <1>1. /\ cfg \in Configs /\ (low = 0 => rxd = tx.txd) /\ rx'.sync = rxd
    BY StepTypes
  <1>2. BitsSent \in Nat /\ Last \in Nat
    BY FrameNumbers
  <1>3. rx'.sync = Late(cfg, Extended(c), BitsSent, Into, 1)
    BY <1>1 DEF Sending, TxSending, Waits
  <1>4. CASE Into >= 1
    BY <1>1, <1>2, <1>3, <1>4, StopBit DEF Late
  <1>5. CASE BitsSent > Last /\ ~(Into >= 1)
    <2>1. BitsSent >= 1 /\ BitsSent - 1 \in Nat /\ BitsSent - 1 >= Last
      BY <1>2, <1>5
    <2>2. LineBit(cfg, Extended(c), BitsSent - 1) = 1
      BY <2>1, <1>1, StopBit
    <2> QED
      BY <2>1, <2>2, <1>3, <1>5 DEF Late
  <1> QED
    BY <1>4, <1>5

\* RC rises while the stop bit is on the line, or has just been.
LEMMA InReadyStep ==
    ASSUME NEW a, NEW b, NEW q, Step(a, b, q), NEW c \in Word(CharBits), InReady(c)
    PROVE  IInv'
PROOF
  <1>c. /\ cfg \in Configs /\ cfg' = cfg /\ Synthesised'
    BY StepTypes DEF Step
  <1>1. /\ Sending(c) /\ queue = <<c>> /\ ~rx.rc /\ Ready(c)
        /\ \/ BitsSent = Last /\ Into \in 3..Half + 5
           \/ BitsSent > Last /\ Into = 0 /\ cfg.baud <= Half + 4
    BY DEF InReady, InFrame
  <1>2. /\ BitsSent \in 0..TxBits /\ Into \in 0..cfg.baud /\ cfg.baud \in Nat /\ Half \in Nat
        /\ Half >= 3 /\ Half + 4 <= cfg.baud /\ TxBits \in Nat /\ Last \in Nat
        /\ Last <= TxBits /\ TxBits <= Last + 1
        /\ Half' = Half /\ cfg'.baud = cfg.baud /\ Last' = Last /\ CharBits' = CharBits
    BY <1>1, FrameNumbers
  <1>3. queue' = q
    BY <1>1, SenderSending
  <1>4. /\ Flags' /\ Remembers(a) /\ rx'.state = "idle" /\ rx'.rc /\ Held(<<>>)'
    BY <1>1, <1>3, ReadyStep
  <1>h. rx'.sync = 1
    <2>1. BitsSent >= Last /\ (BitsSent > Last \/ Into >= 1)
      BY <1>1, <1>2
    <2> QED
      BY <2>1, <1>1, HighAfter
  <1>5. CASE Into < cfg.baud /\ Sending(c)' /\ BitsSent' = BitsSent /\ Into' = Into + 1
    <2>2. Resting'
      BY <1>h, <1>4 DEF Resting
    <2>3. CASE BitsSent = Last
      <3>1. Into + 1 >= 4 /\ (Into + 1) - Half - 6 <= 0 /\ (Into + 1) - Half - 6 \in Int
        BY <2>3, <1>1, <1>2
      <3>2. rx'.rc => (Into + 1) - Half - 6 <= Slack'
        BY <3>1, <1>c, FreshNow
      <3>3. After(c)'
        BY <2>2, <2>3, <3>1, <3>2, <1>2, <1>5 DEF After, Fresh
      <3> QED
        BY <3>3, <1>2, <1>4, Onward DEF Busy
    <2>4. CASE BitsSent > Last
      <3>1. /\ cfg.baud + 1 + (Into + 1) - Half - 6 <= 0
            /\ cfg.baud + 1 + (Into + 1) - Half - 6 \in Int
        BY <2>4, <1>1, <1>2
      <3>2. rx'.rc => cfg.baud + 1 + (Into + 1) - Half - 6 <= Slack'
        BY <3>1, <1>c, FreshNow
      <3>3. After(c)'
        BY <2>2, <2>4, <3>2, <1>2, <1>5 DEF After, Fresh
      <3> QED
        BY <3>3, <1>2, <1>4, Onward DEF Busy
    <2> QED
      BY <2>3, <2>4, <1>1
  <1>6. CASE Into = cfg.baud
    <2>1. BitsSent = Last /\ cfg.baud <= Half + 5 /\ Into \in 3..Half + 5
      BY <1>1, <1>2, <1>6
    <2>2. CASE Sending(c)' /\ BitsSent' = BitsSent + 1 /\ Into' = 0
      <3>2. /\ cfg.baud + 1 + 0 - Half - 6 <= 0 /\ cfg.baud + 1 + 0 - Half - 6 \in Int
            /\ Last + 1 > Last
        BY <2>1, <1>2
      <3>3. rx'.rc => cfg.baud + 1 + 0 - Half - 6 <= Slack'
        BY <3>2, <1>c, FreshNow
      <3>4. After(c)'
        BY <2>1, <2>2, <1>h, <3>2, <3>3, <1>2, <1>4 DEF After, Fresh, Resting
      <3> QED
        BY <3>4, <1>2, <1>4, Onward DEF Busy
    <2>3. CASE Ending'
      <3>1. cfg.baud - Half - 5 <= 0 /\ cfg.baud - Half - 5 \in Int
        BY <2>1, <1>2
      <3>2. rx'.rc => cfg.baud - Half - 5 <= Slack'
        BY <3>1, <1>c, FreshNow
      <3>3. FrameEnds'
        BY <2>3, <3>2, <1>2, <1>4 DEF FrameEnds, Resting, Fresh, Ending
      <3> QED
        BY <3>3, <1>4, Onward
    <2> QED
      BY <2>2, <2>3, <1>1, <1>2, <1>6, SenderSending
  <1> QED
    BY <1>1, <1>5, <1>6, SenderSending

\* The same where uart1_putc's frame is just over.
LEMMA LateReadyStep ==
    ASSUME NEW a, NEW b, NEW q, Step(a, b, q), NEW c \in Word(CharBits), LateReady(c)
    PROVE  IInv'
PROOF
  <1>c. /\ cfg \in Configs /\ cfg' = cfg /\ Synthesised /\ Synthesised' /\ Times
    BY StepTypes DEF Step
  <1>1. Ending /\ queue = <<c>> /\ ~rx.rc /\ Ready(c) /\ cfg.baud <= Half + 4
    BY DEF LateReady
  <1>2. Quiet' /\ Waits' /\ rx'.sync = 1 /\ queue' = q
    BY <1>1, SenderEnding
  <1>3. /\ Flags' /\ Remembers(a) /\ rx'.state = "idle" /\ rx'.rc /\ Held(<<>>)'
    BY <1>1, <1>2, ReadyStep
  <1>4. cfg.baud - Half - 4 \in Int /\ cfg.baud - Half - 4 <= 0
    BY <1>1, <1>c, Numbers
  <1>5. rx'.rc => cfg.baud - Half - 4 <= Slack'
    BY <1>4, <1>c, FreshNow
  <1>6. Half' = Half /\ cfg'.baud = cfg.baud
    BY <1>c, Same
  <1>7. Rest0'
    BY <1>2, <1>3, <1>5, <1>6 DEF Rest0, Fresh, Waits
  <1>8. LineSilent'
    BY <1>2, <1>3, <1>7 DEF LineSilent, Lull, AtRest, Waits
  <1>9. Drivers'
    BY <1>2, <1>3, DriversStep
  <1> QED
    BY <1>3, <1>8, <1>9 DEF IInv

\* The character has been received and its stop bits run out.
LEMMA AfterStep ==
    ASSUME NEW a, NEW b, NEW q, Step(a, b, q), NEW c \in Word(CharBits), After(c)
    PROVE  IInv'
PROOF
  <1>c. /\ cfg \in Configs /\ cfg' = cfg /\ Synthesised'
        /\ rx \in RxRecord /\ rxd \in Bit /\ Receive(a)
    BY StepTypes DEF Step
  <1>1. /\ Sending(c) /\ Resting
        /\ \/ BitsSent = Last /\ Into >= 4 /\ Fresh(Into - Half - 6)
           \/ BitsSent > Last /\ Fresh(cfg.baud + 1 + Into - Half - 6)
    BY DEF After
  <1>2. /\ BitsSent \in 0..TxBits /\ Into \in 0..cfg.baud /\ cfg.baud \in Nat /\ Half \in Nat
        /\ TxBits \in Nat /\ Last \in Nat
        /\ Half' = Half /\ cfg'.baud = cfg.baud /\ Last' = Last /\ CharBits' = CharBits
    BY <1>1, FrameNumbers
  <1>3. rx.state = "idle" /\ rx.sync = 1 /\ Held(<<>>)
    BY <1>1 DEF Resting
  <1>4. FlagsKept(a) /\ rx'.buffer = rx.buffer /\ rx'.state = "idle"
    BY <1>c, <1>3, ReceiveIdle
  <1>5. Flags' /\ Remembers(a) /\ Keeps(q, <<>>)
    BY <1>3, <1>4, KeepsEmpty
  <1>6. queue' = q /\ Held(<<>>)'
    BY <1>1, <1>5, <1>c, SenderSending, HeldNext
  <1>7. rx'.sync = 1
    <2>1. BitsSent >= Last /\ (BitsSent > Last \/ Into >= 1)
      BY <1>1, <1>2
    <2> QED
      BY <2>1, <1>1, HighAfter
  <1>8. Resting'
    BY <1>4, <1>6, <1>7 DEF Resting
  <1> DEFINE n == IF BitsSent = Last THEN Into - Half - 6 ELSE cfg.baud + 1 + Into - Half - 6
  <1>9. n \in Int /\ Fresh(n)
    BY <1>1, <1>2
  <1>s. Slack' \in Int
    <2>1. GetDelay \in Int /\ get'.gap \in Int
      BY UartAssumption, <1>c DEF Synthesised, Registers
    <2> QED
      BY <2>1 DEF Slack
  <1>10. rx'.rc => n + 1 <= Slack'
    <2> HIDE DEF n
    <2> QED
      BY <1>4, <1>9, FreshStep
  <1>11. CASE Into < cfg.baud /\ Sending(c)' /\ BitsSent' = BitsSent /\ Into' = Into + 1
    <2>1. CASE BitsSent = Last
      <3>1. n + 1 = (Into + 1) - Half - 6 /\ Into + 1 >= 4
        BY <2>1, <1>1, <1>2
      <3>2. After(c)'
        BY <2>1, <3>1, <1>2, <1>8, <1>10, <1>11 DEF After, Fresh
      <3> QED
        BY <3>2, <1>2, <1>5, Onward DEF Busy
    <2>2. CASE BitsSent # Last
      <3>1. n + 1 = cfg.baud + 1 + (Into + 1) - Half - 6 /\ BitsSent > Last
        BY <2>2, <1>1, <1>2
      <3>2. After(c)'
        BY <3>1, <1>2, <1>8, <1>10, <1>11 DEF After, Fresh
      <3> QED
        BY <3>2, <1>2, <1>5, Onward DEF Busy
    <2> QED
      BY <2>1, <2>2
  <1>12. CASE Into = cfg.baud /\ Sending(c)' /\ BitsSent' = BitsSent + 1 /\ Into' = 0
    <2>1. BitsSent + 1 > Last
      BY <1>1, <1>2
    <2>2. rx'.rc => cfg.baud + 1 + 0 - Half - 6 <= Slack'
      BY <1>1, <1>2, <1>10, <1>12, <1>s
    <2>3. After(c)'
      BY <2>1, <2>2, <1>2, <1>8, <1>12 DEF After, Fresh
    <2> QED
      BY <2>3, <1>2, <1>5, Onward DEF Busy
  <1>13. CASE Into = cfg.baud /\ Ending'
    <2>1. rx'.rc => cfg.baud - Half - 5 <= Slack'
      BY <1>1, <1>2, <1>10, <1>13, <1>s
    <2>2. FrameEnds'
      BY <2>1, <1>2, <1>8, <1>13 DEF FrameEnds, Fresh
    <2> QED
      BY <2>2, <1>5, Onward
  <1> QED
    BY <1>1, <1>11, <1>12, <1>13, SenderSending

\* The transmitter falls idle with the character received.
LEMMA EndsStep ==
    ASSUME NEW a, NEW b, NEW q, Step(a, b, q), FrameEnds
    PROVE  IInv'
PROOF
  <1>c. /\ cfg \in Configs /\ cfg' = cfg /\ Synthesised /\ Times
        /\ rx \in RxRecord /\ rxd \in Bit /\ Receive(a)
    BY StepTypes DEF Step
  <1> DEFINE n == cfg.baud - Half - 5
  <1>1. Ending /\ rx.state = "idle" /\ rx.sync = 1 /\ Held(<<>>) /\ Fresh(n)
    BY DEF FrameEnds, Resting
  <1>2. Quiet' /\ Waits' /\ rx'.sync = 1 /\ queue' = q
    BY <1>1, SenderEnding
  <1>3. FlagsKept(a) /\ rx'.buffer = rx.buffer /\ rx'.state = "idle"
    BY <1>c, <1>1, ReceiveIdle
  <1>4. Flags' /\ Remembers(a) /\ Keeps(q, <<>>)
    BY <1>1, <1>3, KeepsEmpty
  <1>5. Held(<<>>)'
    BY <1>2, <1>4, <1>c, HeldNext
  <1>6. n \in Int /\ n + 1 = cfg.baud - Half - 4
    BY <1>c, Numbers
  <1>7. rx'.rc => n + 1 <= Slack'
    <2> HIDE DEF n
    <2> QED
      BY <1>1, <1>3, <1>6, FreshStep
  <1>8. Half' = Half /\ cfg'.baud = cfg.baud
    BY <1>c, Same
  <1>9. Rest0'
    BY <1>2, <1>3, <1>6, <1>7, <1>8 DEF Rest0, Fresh, Waits
  <1>10. LineSilent'
    BY <1>2, <1>3, <1>5, <1>9 DEF LineSilent, Lull, AtRest, Waits
  <1>11. Drivers'
    BY <1>2, <1>4, DriversStep
  <1> QED
    BY <1>4, <1>10, <1>11 DEF IInv

-----------------------------------------------------------------------------
\* The invariant and what follows from it.

\* At reset the line is high and both state machines are idle.
LEMMA IInvInit ==
    ASSUME Init
    PROVE  IInv
PROOF
  <1>1. cfg \in Configs
    BY DEF Init
  <1>2. GetDelay \in Nat
    BY UartAssumption
  <1>3. Drivers
    BY <1>2 DEF Init, Drivers, Quiet, At
  <1>4. Flags
    BY DEF Init, Flags
  <1>5. LineSilent
    BY DEF Init, LineSilent, Quiet, Held, Lull, Rest0, Fresh, At
  <1> QED
    BY <1>3, <1>4, <1>5 DEF IInv

\* The invariant speaks of the variables only.
LEMMA IInvUnchanged ==
    ASSUME UNCHANGED vars, IInv
    PROVE  IInv'
PROOF
  <1>1. /\ cfg' = cfg /\ tx' = tx /\ rx' = rx /\ low' = low /\ put' = put /\ get' = get
        /\ queue' = queue /\ got' = got
    BY DEF vars
  <1>2. /\ Half' = Half /\ Last' = Last /\ TxBits' = TxBits /\ CharBits' = CharBits
        /\ \A n : Cells(n)' = Cells(n)
    BY <1>1, Same
  <1>3. /\ Slack' = Slack /\ BitsSent' = BitsSent /\ Into' = Into /\ Zeros' = Zeros
        /\ \A c : Extended(c)' = Extended(c)
        /\ \A w : Frame(w)' = Frame(w)
    BY <1>1, <1>2 DEF Slack, BitsSent, Into, Zeros, Extended, Frame, BufferBits
  <1>4. \A c, k : Content(c, k)' <=> Content(c, k)
    BY <1>1, <1>3 DEF Content
  <1>5. \A r : Held(r)' <=> Held(r)
    BY <1>1, <1>2, <1>4 DEF Held, Full
  <1>6. (Quiet' <=> Quiet) /\ (Ending' <=> Ending)
        /\ \A c : (Starting(c)' <=> Starting(c)) /\ (Sending(c)' <=> Sending(c))
    <2>1. (Quiet' <=> Quiet) /\ (Ending' <=> Ending) /\ (Waits' <=> Waits)
      BY <1>1 DEF Quiet, Ending, TxEnding, Waits
    <2>2. \A c : Starting(c)' <=> Starting(c)
      BY <1>1, <1>3, <2>1 DEF Starting, TxStarting
    <2>3. \A c : TxSending(c)' <=> TxSending(c)
      BY <1>1, <1>2, <1>3 DEF TxSending, BufferBits
    <2>4. \A c : Sending(c)' <=> Sending(c)
      BY <1>1, <1>3, <2>1, <2>3 DEF Sending
    <2> QED
      BY <2>1, <2>2, <2>4
  <1>7. (Drivers' <=> Drivers) /\ (Flags' <=> Flags)
    BY <1>1, <1>6 DEF Drivers, Flags
  <1>8. JustWaiting' <=> JustWaiting
    BY <1>1, <1>2, <1>3 DEF JustWaiting, Fresh
  <1>9. Lull' <=> Lull
    <2>1. (Rest0' <=> Rest0) /\ (Pulse' <=> Pulse) /\ (Dip' <=> Dip)
      BY <1>1, <1>2, <1>3 DEF Rest0, Pulse, Dip, Fresh, Cells
    <2>2. (Doubt' <=> Doubt) /\ (Fail' <=> Fail) /\ (Break' <=> Break)
          /\ (BreakWait' <=> BreakWait)
      BY <1>1, <1>2, <1>8 DEF Doubt, Fail, Break, BreakWait, Cells
    <2>3. (BreakIter' <=> BreakIter) /\ (BreakParity' <=> BreakParity)
          /\ (BreakReady' <=> BreakReady)
      BY <1>1, <1>3 DEF BreakIter, BreakParity, BreakReady, Cells
    <2> QED
      BY <2>1, <2>2, <2>3 DEF Lull
  <1>10. LineSilent' <=> LineSilent
    BY <1>1, <1>5, <1>6, <1>9 DEF LineSilent, AtRest
  <1>11. (Resting' <=> Resting) /\ (Unaware' <=> Unaware)
         /\ \A j : Aligned(j)' <=> Aligned(j)
    BY <1>1, <1>2, <1>3, <1>5, <1>8 DEF Resting, Unaware, Aligned, Fresh
  <1>12. FrameEnds' <=> FrameEnds
    BY <1>1, <1>2, <1>3, <1>6, <1>11 DEF FrameEnds, Fresh
  <1>13. ASSUME NEW c
         PROVE  /\ Starts(c)' <=> Starts(c)
                /\ Await(c)' <=> Await(c)
                /\ InWait(c)' <=> InWait(c)
    BY <1>1, <1>2, <1>3, <1>5, <1>6, <1>11 DEF Starts, Await, InWait, InFrame, Fresh
  <1>14. ASSUME NEW c
         PROVE  /\ InIter(c)' <=> InIter(c)
                /\ InParity(c)' <=> InParity(c)
                /\ InReady(c)' <=> InReady(c)
                /\ LateReady(c)' <=> LateReady(c)
                /\ After(c)' <=> After(c)
    <2>1. InIter(c)' <=> InIter(c)
      <3>1. Aligned(cfg.bits - rx.count + 1)' <=> Aligned(cfg.bits - rx.count + 1)
        BY <1>1, <1>2, <1>3 DEF Aligned
      <3>2. Content(c, rx.count)' <=> Content(c, rx.count)
        BY <1>1, <1>3 DEF Content
      <3> QED
        BY <3>1, <3>2, <1>1, <1>6 DEF InIter, InFrame
    <2>2. InParity(c)' <=> InParity(c)
      <3>1. Aligned(cfg.bits + 2)' <=> Aligned(cfg.bits + 2)
        BY <1>1, <1>2, <1>3 DEF Aligned
      <3> QED
        BY <3>1, <1>1, <1>4, <1>6 DEF InParity, InFrame
    <2>3. Ready(c)' <=> Ready(c)
      BY <1>1, <1>4 DEF Ready
    <2>4. (InReady(c)' <=> InReady(c)) /\ (LateReady(c)' <=> LateReady(c))
      BY <2>3, <1>1, <1>2, <1>3, <1>6 DEF InReady, LateReady, InFrame
    <2>5. After(c)' <=> After(c)
      BY <1>1, <1>2, <1>3, <1>6, <1>11 DEF After, Fresh
    <2> QED
      BY <2>1, <2>2, <2>4, <2>5
  <1>15. Busy' <=> Busy
    BY <1>2, <1>13, <1>14 DEF Busy
  <1> QED
    BY <1>7, <1>10, <1>12, <1>15 DEF IInv

\* Every clock cycle of sender, line and receiver keeps the invariant.
LEMMA IInvStep ==
    ASSUME Timely, Distinct, Synthesised, IInv, Next
    PROVE  IInv'
PROOF
  <1>1. PICK a, b, q : Cycle(a, b, q)
    BY CycleOfNext
  <1>2. Step(a, b, q)
    <2>1. Synthesised'
      BY <1>1, TypeStep
    <2>2. Times
      BY TimesOfConfig DEF Synthesised, Registers
    <2> QED
      BY <2>1, <2>2, <1>1 DEF Step, IInv
  <1>3. CASE LineSilent
    BY <1>2, <1>3, SilentStep
  <1>4. CASE FrameEnds
    BY <1>2, <1>4, EndsStep
  <1>5. CASE Busy
    <2>1. PICK c \in Word(CharBits) :
              \/ Starts(c) \/ Await(c) \/ InWait(c) \/ InIter(c) \/ InParity(c)
              \/ InReady(c) \/ LateReady(c) \/ After(c)
      BY <1>5 DEF Busy
    <2> QED
      BY <2>1, <1>2, StartsStep, AwaitStep, InWaitStep, InIterStep, InParityStep,
         InReadyStep, LateReadyStep, AfterStep
  <1> QED
    BY <1>3, <1>4, <1>5 DEF IInv

\* With a reader that polls in time, and noise that is shorter than half a bit
\* or longer than a frame, RC never comes with a frame or parity error: the
\* flags that a character announces are its own, in every format and for every
\* divider of BAUD.
THEOREM NoFalseErrors ==
    ASSUME Timely, Distinct
    PROVE  Spec => []NoFalseError
PROOF
  <1>1. Init => Synthesised /\ IInv
    BY TypeInit, IInvInit
  <1>2. Synthesised /\ IInv /\ [Next]_vars => (Synthesised /\ IInv)'
    <2> SUFFICES ASSUME Synthesised, IInv, [Next]_vars PROVE Synthesised' /\ IInv'
      OBVIOUS
    <2>1. CASE Next
      BY <2>1, CycleOfNext, TypeStep, IInvStep
    <2>2. CASE UNCHANGED vars
      <3>1. Synthesised'
        BY <2>2 DEF Synthesised, Registers, vars, CharBits
      <3>2. IInv'
        BY <2>2, IInvUnchanged
      <3> QED
        BY <3>1, <3>2
    <2> QED
      BY <2>1, <2>2
  <1>3. IInv => NoFalseError
    BY DEF IInv, Flags, NoFalseError
  <1> QED
    BY <1>1, <1>2, <1>3, PTL DEF Spec

-----------------------------------------------------------------------------
\* The UART implements the channel.

\* Where RC is set the buffer holds the character at the front of the queue.
LEMMA RcMeansFront ==
    ASSUME IInv, rx.rc
    PROVE  \E c \in Word(CharBits), rest \in Seq(Word(CharBits)) :
               Content(c, 0) /\ queue = <<c>> \o rest
PROOF
  <1>1. ASSUME NEW rest \in Seq(Word(CharBits)), Held(rest)
        PROVE  \E c \in Word(CharBits), r \in Seq(Word(CharBits)) :
                   Content(c, 0) /\ queue = <<c>> \o r
    BY <1>1 DEF Held, Full
  <1>2. <<>> \in Seq(Word(CharBits))
    OBVIOUS
  <1>3. CASE LineSilent \/ FrameEnds
    <2>1. Held(<<>>)
      BY <1>3 DEF LineSilent, FrameEnds, Resting
    <2> QED
      BY <1>1, <1>2, <2>1
  <1>4. CASE Busy
    <2>1. PICK c \in Word(CharBits) : Starts(c) \/ Await(c) \/ After(c)
      BY <1>4 DEF Busy, InWait, InIter, InParity, InReady, LateReady, InFrame
    <2>2. Held(<<c>>) \/ Held(<<>>)
      BY <2>1 DEF Starts, Await, After, Resting
    <2>3. <<c>> \in Seq(Word(CharBits))
      OBVIOUS
    <2> QED
      BY <1>1, <1>2, <2>2, <2>3
  <1> QED
    BY <1>3, <1>4 DEF IInv

\* The character uart1_getc reads is the one whose bits the buffer holds.
LEMMA ContentIsChar ==
    ASSUME cfg \in Configs, rx \in RxRecord, NEW c \in Word(CharBits), Content(c, 0)
    PROVE  SubSeq(rx.buffer, 1, CharBits) = c
PROOF
  <1>1. /\ cfg.bits \in 1..MaxBits /\ MaxBits \in Nat /\ CharBits \in 1..MaxBits
        /\ CharBits <= cfg.bits
    BY Settings DEF CharBits
  <1>2. rx.buffer \in Seq(Bit) /\ Len(rx.buffer) = MaxBits
    <2>1. rx.buffer \in Word(MaxBits)
      BY DEF RxRecord
    <2> QED
      BY <2>1, <1>1, WordSeq
  <1>3. c \in Seq(Bit) /\ Len(c) = CharBits
    BY <1>1, WordSeq
  <1>4. \A i \in 1..CharBits : rx.buffer[i] = c[i]
    <2>1. ASSUME NEW i \in 1..CharBits PROVE rx.buffer[i] = c[i]
      <3>1. i \in 1..MaxBits /\ 0 < i /\ i <= cfg.bits /\ i - 0 = i
        BY <1>1
      <3>2. rx.buffer[i] = Extended(c)[i]
        BY <3>1 DEF Content
      <3> QED
        BY <3>2, ExtendedWord
    <2> QED
      BY <2>1
  <1>5. PICK n \in Nat : n = CharBits
    BY <1>1
  <1>6. PICK g : g = rx.buffer
    OBVIOUS
  <1>7. SubSeq(g, 1, n) = [i \in 1..n |-> g[i]]
    <2>1. g \in Seq(Bit) /\ n <= Len(g)
      BY <1>1, <1>2, <1>5, <1>6
    <2>2. /\ SubSeq(g, 1, n) \in Seq(Bit) /\ Len(SubSeq(g, 1, n)) = n
          /\ \A i \in 1..n : SubSeq(g, 1, n)[i] = g[i]
      BY <2>1, <1>1, <1>5
    <2> QED
      BY <2>2
  <1>8. c = [i \in 1..n |-> c[i]]
    BY <1>3, <1>5
  <1> QED
    BY <1>4, <1>5, <1>6, <1>7, <1>8

\* A read of DATA takes the front of the channel, a write of DATA extends it.
LEMMA ChannelStep ==
    ASSUME Synthesised, IInv, Next
    PROVE  [Channel!Next]_<<queue, got>>
PROOF
  <1>1. PICK a, b, q : Cycle(a, b, q)
    BY CycleOfNext
  <1>2. cfg \in Configs /\ rx \in RxRecord /\ queue \in Seq(Word(CharBits))
    BY DEF Synthesised, Registers, RxRecord
  <1>3. \A c \in Word(CharBits) : c \in UNION {Word(n) : n \in 1..MaxBits}
    BY <1>2, Settings
  <1>4. \/ queue' = q
        \/ \E c \in Word(CharBits) : queue' = Append(q, c)
    BY <1>1 DEF Cycle, Writes, Quietly, Puts
  <1>5. CASE a.reg # "DATA"
    <2>1. q = queue /\ got' = got
      BY <1>1, <1>5 DEF Cycle, Reads
    <2>2. CASE queue' = q
      BY <2>1, <2>2
    <2>3. ASSUME NEW c \in Word(CharBits), queue' = Append(q, c)
          PROVE  Channel!Next
      <3>1. Channel!Put(c)
        BY <2>1, <2>3 DEF Channel!Put
      <3> QED
        BY <3>1, <1>3 DEF Channel!Next
    <2> QED
      BY <2>2, <2>3, <1>4
  <1>6. CASE a.reg = "DATA"
    <2>1. /\ get.pc = "read" /\ q = Rest
          /\ got' = [char |-> SubSeq(rx.buffer, 1, CharBits), odd |-> ~got.odd]
      BY <1>1, <1>6 DEF Cycle, Reads
    <2>2. rx.rc
      BY <2>1 DEF IInv, Drivers
    <2>3. PICK d \in Word(CharBits), rest \in Seq(Word(CharBits)) :
              Content(d, 0) /\ queue = <<d>> \o rest
      BY <2>2, RcMeansFront
    <2>4. SubSeq(rx.buffer, 1, CharBits) = d
      BY <2>3, <1>2, ContentIsChar
    <2>5. queue # <<>> /\ Head(queue) = d
      BY <2>3
    <2>6. q = Tail(queue)
      BY <2>1, <2>5 DEF Rest
    <2>7. got' = Channel!GotNext(Head(queue))
      BY <2>1, <2>4, <2>5 DEF Channel!GotNext
    <2>8. CASE queue' = q
      <3>1. Channel!Get
        BY <2>5, <2>6, <2>7, <2>8 DEF Channel!Get
      <3> QED
        BY <3>1 DEF Channel!Next
    <2>9. ASSUME NEW c \in Word(CharBits), queue' = Append(q, c)
          PROVE  Channel!Next
      <3>1. Channel!PutAndGet(c)
        BY <2>5, <2>6, <2>7, <2>9 DEF Channel!PutAndGet
      <3> QED
        BY <3>1, <1>3 DEF Channel!Next
    <2> QED
      BY <2>8, <2>9, <1>4
  <1> QED
    BY <1>5, <1>6

\* The characters that uart1_putc puts in are those that uart1_getc returns:
\* in order, none lost, changed, repeated or made up by noise, in every
\* format, for every divider and every time at which the programs act.
THEOREM InOrder ==
    ASSUME Timely, Distinct
    PROVE  Spec => Channel!Safety
PROOF
  <1>1. Init => Channel!Init
    BY DEF Init, Channel!Init, Channel!Idle
  <1>2. Init => Synthesised /\ IInv
    BY TypeInit, IInvInit
  <1>3. Synthesised /\ IInv /\ [Next]_vars => (Synthesised /\ IInv)' /\ [Channel!Next]_<<queue, got>>
    <2> SUFFICES ASSUME Synthesised, IInv, [Next]_vars
                 PROVE  Synthesised' /\ IInv' /\ [Channel!Next]_<<queue, got>>
      OBVIOUS
    <2>1. CASE Next
      BY <2>1, CycleOfNext, TypeStep, IInvStep, ChannelStep
    <2>2. CASE UNCHANGED vars
      <3>1. Synthesised'
        BY <2>2 DEF Synthesised, Registers, vars, CharBits
      <3>2. IInv'
        BY <2>2, IInvUnchanged
      <3>3. UNCHANGED <<queue, got>>
        BY <2>2 DEF vars
      <3> QED
        BY <3>1, <3>2, <3>3
    <2> QED
      BY <2>1, <2>2
  <1> QED
    BY <1>1, <1>2, <1>3, PTL DEF Spec, Channel!Safety

-----------------------------------------------------------------------------
(***************************************************************************)
(* The upload of a program.                                                *)
(***************************************************************************)

\* The data bytes of a line, for a data record.
DataBytes(l) == IF l[2].ch \in Data THEN l[3].val - Overhead[l[2].ch] ELSE 0

\* A line as objcopy writes it: empty, or a record whose bytes are where its
\* count says, at addresses that have memory.
WellFormed(l) ==
    \/ l = <<nl>>
    \/ /\ Len(l) >= 3 /\ l[1] = Ch("S") /\ l[Len(l)] = nl
       /\ \A i \in 2..Len(l) - 1 : l[i].ch \notin {"nl", "none", "J", "#"}
       /\ l[2].ch \in Data =>
              /\ l[3].ch = "hex" /\ l[3].val \in Overhead[l[2].ch]..255
              /\ Len(l) > 4 + DataBytes(l)
              /\ \A i \in 4..4 + DataBytes(l) : l[i].ch = "hex"
              /\ \A i \in 1..DataBytes(l) : l[4].val + i - 1 \in Addr
       /\ l[2].ch \in Start => Len(l) > 4 /\ l[4].ch = "hex"

\* What one line puts into memory, or into app_start, no later one changes.
Apart(k, l) ==
    /\ IsRecord(k, Data) /\ IsRecord(l, Data) =>
           \A i \in 1..DataBytes(k), j \in 1..DataBytes(l) :
               k[4].val + i # l[4].val + j
    /\ IsRecord(k, Start) /\ IsRecord(l, Start) => k[4].val = l[4].val

Objcopied(f) ==
    /\ \A i \in DOMAIN f : WellFormed(f[i])
    /\ \A i, j \in DOMAIN f : i < j => Apart(f[i], f[j])

\* Files that are answered line for line come from objcopy.
FromObjcopy ==
    \A i \in 1..MaxSessions : \A u \in Uploads[i] :
        RegularFile(u.file) => Objcopied(u.file)

-----------------------------------------------------------------------------
\* The tool, whatever the target does.
ThisLine == file[pos[1]]
Positions ==
    /\ hpc \in {"off", "break", "key", "contact", "residue"} => pos = <<1, 1>>
    /\ hpc \in {"break", "key"} => ~calm
    /\ hpc \in {"contact", "answer", "final"} => ~opt.nowait
    /\ pos[1] <= Len(file) + 1 \/ ~Open
    /\ hpc = "send" => IF AtEnd THEN pos[2] = 1 ELSE pos[2] <= Len(ThisLine)
    /\ hpc = "answer" => ~AtEnd
    /\ hpc = "final" => AtEnd
\* Where its file comes from.
Origin == Open /\ Regular => Objcopied(file)

-----------------------------------------------------------------------------
\* A calm session with handshake.

Way(a, b) == toHost = a /\ tout = b
Clear == held = None /\ toTarget = <<>>
\* The second symbol of an answer, or both, are on their way to the tool.
NewlineComes == Way(<<>>, <<nl>>) \/ Way(<<nl>>, <<>>)
AnswerComes == \/ Way(<<>>, <<Ch("?"), nl>>) \/ Way(<<Ch("?")>>, <<nl>>)
        \/ Way(<<Ch("?"), nl>>, <<>>)
\* The target is ready for the next line.
Listening == tpc = "cmd" /\ ~noresponse
\* One symbol is on its way to the target, or has arrived there.
Carries(c) == \/ held = None /\ toTarget = <<c>>
              \/ held = c /\ toTarget = <<>>

Calling == /\ hpc = "contact" /\ Way(<<>>, <<>>)
           /\ \/ (tpc = "prompt" \/ Listening) /\ Carries(Ch("!"))
              \/ tpc = "app" /\ held = None
Met == hpc = "contact" /\ Clear /\ Listening /\ AnswerComes
Meeting == hpc = "residue" /\ Clear /\ Listening /\ NewlineComes

\* The symbols of line l from k + 1 to w are on their way to the target.
Flying(l, k, w) ==
    LET r == IF held = None THEN 0 ELSE 1 IN
    /\ k + r + Len(toTarget) = w
    /\ held # None => held = l[k + 1]
    /\ \A i \in 1..Len(toTarget) : toTarget[i] = l[k + r + i]

\* Where the target is when it has taken k symbols of line l.
HasAddress(l) == l[2].ch \in Data \cup Start
Place(l, k) ==
    /\ k = 0 => tpc = "cmd"
    /\ k = 1 => tpc = "type"
    /\ k >= 2 => par.type = l[2].ch
    /\ k >= 2 /\ ~HasAddress(l) => tpc = "eat"
    /\ k = 2 /\ HasAddress(l) => tpc = "count"
    /\ k = 3 /\ HasAddress(l) => tpc = "addr" /\ par.left = DataBytes(l)
    /\ k >= 4 /\ HasAddress(l) =>
          IF k < 4 + DataBytes(l)
          THEN /\ tpc = "data" /\ par.left = DataBytes(l) + 4 - k
               /\ par.addr = l[4].val + k - 4
          ELSE tpc = "eat" /\ (l[2].ch \in Start => par.addr = l[4].val)
\* The bytes of line l that were among them are in memory.
Patched(l, k) ==
    IsRecord(l, Data) =>
        \A i \in 1..DataBytes(l) : i + 4 <= k => mem[l[4].val + i - 1] = l[4 + i].val

Reading(l, w) ==
    /\ ~noresponse /\ Way(<<>>, <<>>)
    /\ \E k \in 0..Len(l) - 1 : Flying(l, k, w) /\ Place(l, k) /\ Patched(l, k)
Writing == /\ hpc = "send" /\ Loaded(pos[1] - 1)
           /\ IF AtEnd THEN Clear /\ Listening /\ Way(<<>>, <<>>)
              ELSE Reading(ThisLine, pos[2] - 1)
LineOut == hpc = "answer" /\ Loaded(pos[1] - 1) /\ Reading(ThisLine, Len(ThisLine))
Answered == /\ hpc = "answer" /\ Clear /\ Listening /\ Loaded(pos[1])
            /\ AnswerComes \/ NewlineComes

Marking == /\ hpc = "final" /\ Loaded(Len(file)) /\ Listening /\ Way(<<>>, <<>>)
           /\ Carries(IF opt.jump THEN Ch("J") ELSE Ch("#"))
Leaving ==
    /\ hpc = "final" /\ Loaded(Len(file)) /\ Clear
    /\ IF opt.jump
       THEN (tpc = "start" \/ (tpc = "app" /\ tout = <<>>)) /\ (AnswerComes \/ NewlineComes)
       ELSE /\ tpc = "monitor"
            /\ \/ Way(<<>>, <<nl>> \o Prompt) \/ Way(<<nl>>, Prompt)
               \/ Way(<<nl>> \o Prompt, <<>>)

Handshaking == \/ Calling \/ Met \/ Meeting \/ Writing \/ LineOut \/ Answered
          \/ Marking \/ Leaving

-----------------------------------------------------------------------------
\* A calm session without.

\* Symbols of a record: no command but S.
BodySymbol == {s \in Symbol : s.ch \notin {"none", "J", "#"}}
Streaming ==
    /\ hpc \in {"residue", "send"} /\ tout = <<>>
    /\ \/ /\ tpc = "prompt"
          /\ \/ held = Ch("$") /\ toTarget \in Seq(BodySymbol)
             \/ /\ held = None /\ toTarget # <<>> /\ Head(toTarget) = Ch("$")
                /\ Tail(toTarget) \in Seq(BodySymbol)
       \/ /\ tpc \in {"cmd", "type", "count", "addr", "data", "eat"}
          /\ noresponse /\ held \in BodySymbol \cup {None} /\ toTarget \in Seq(BodySymbol)
       \/ tpc \in {"app", "hung"} /\ held = None

\* The bootloader starts with answers on.
Booted == tpc \in {"greet", "prompt"} => ~noresponse

UploadInv ==
    /\ Positions /\ Origin /\ Booted
    /\ Open /\ Clean => IF opt.nowait THEN Streaming ELSE Handshaking

-----------------------------------------------------------------------------
\* Types.

\* The characters that the programs know are symbols, and differ.
LEMMA CharSymbols ==
    /\ \A c \in Character : Ch(c) \in Symbol /\ Ch(c).ch = c
    /\ nl = Ch("nl") /\ None = Ch("none") /\ nl \in Symbol /\ None \in Symbol
    /\ nl # None /\ nl.ch = "nl" /\ None.ch = "none"
PROOF
  BY DEF Ch, nl, None, Symbol, Character

\* Two symbols, one behind the other.
LEMMA TwoSymbols ==
    ASSUME NEW a \in Symbol, NEW b \in Symbol
    PROVE  <<a>> \o <<b>> = <<a, b>>
PROOF
  <1>1. PICK s : s = <<a>> \o <<b>>
    OBVIOUS
  <1>2. PICK t : t = <<a, b>>
    OBVIOUS
  <1>3. <<a>> \in Seq(Symbol) /\ <<b>> \in Seq(Symbol)
    OBVIOUS
  <1>4. s \in Seq(Symbol) /\ Len(s) = 2
    BY <1>1, <1>3, ConcatProperties
  <1>5. s[1] = a /\ s[2] = b
    BY <1>1, <1>3, ConcatProperties
  <1>6. t \in Seq(Symbol) /\ Len(t) = 2 /\ t[1] = a /\ t[2] = b
    BY <1>2
  <1>7. \A i \in 1..2 : s[i] = t[i]
    BY <1>5, <1>6
  <1>8. s = t
    BY <1>4, <1>6, <1>7, SeqEqual
  <1> QED
    BY <1>1, <1>2, <1>8

\* The bounds are numbers.
LEMMA Bounds ==
    ASSUME Typed
    PROVE  /\ Window \in Nat /\ LineCap \in Nat /\ MaxLine \in Nat
           /\ MaxSessions \in Nat /\ MaxChat \in Nat
PROOF
  BY DEF Typed

\* What the bootloader prints consists of symbols.
LEMMA Printed ==
    ASSUME noresponse \in BOOLEAN
    PROVE  /\ Answer \in Seq(Symbol) /\ Prompt \in Seq(Symbol)
           /\ <<nl>> \o Prompt \in Seq(Symbol) /\ <<nl>> \in Seq(Symbol)
           /\ <<nl, Ch("?"), nl>> \o Prompt \in Seq(Symbol)
           /\ <<nl>> \o Prompt = <<nl, Ch(">")>>
           /\ <<Ch("*")>> \in Seq(Symbol) /\ <<Ch("del")>> \in Seq(Symbol)
           /\ \A s \in Symbol : <<s>> \in Seq(Symbol)
PROOF
  <1>1. Ch("?") \in Symbol /\ Ch(">") \in Symbol /\ Ch("*") \in Symbol
        /\ Ch("del") \in Symbol /\ nl \in Symbol
    BY CharSymbols DEF Character
  <1>2. /\ <<Ch("?"), nl>> \in Seq(Symbol) /\ <<nl, Ch("?"), nl>> \in Seq(Symbol)
        /\ Prompt \in Seq(Symbol) /\ <<nl>> \in Seq(Symbol) /\ <<>> \in Seq(Symbol)
        /\ <<Ch("*")>> \in Seq(Symbol) /\ <<Ch("del")>> \in Seq(Symbol)
    BY <1>1 DEF Prompt
  <1>3. /\ <<nl>> \o Prompt \in Seq(Symbol)
        /\ <<nl, Ch("?"), nl>> \o Prompt \in Seq(Symbol)
    BY <1>2, ConcatProperties
  <1>4. <<nl>> \o Prompt = <<nl, Ch(">")>>
    BY <1>1, TwoSymbols DEF Prompt
  <1>5. \A s \in Symbol : <<s>> \in Seq(Symbol)
    OBVIOUS
  <1> QED
    BY <1>2, <1>3, <1>4, <1>5 DEF Answer

\* The parts of the state the tool changes.
HostType ==
    /\ file \in Seq(Seq(Symbol) \ {<<>>}) /\ opt \in Options
    /\ hpc \in {"off", "break", "key", "contact", "residue", "send", "answer", "final"}
    /\ pos \in (Nat \ {0}) \X (Nat \ {0})
    /\ code \in {"none", "ok", "6", "8", "9", "killed"}
WireType ==
    /\ {toTarget, toHost} \subseteq Seq(Symbol) /\ held \in Symbol /\ arrived \in BOOLEAN
TargetType ==
    /\ tout \in Seq(Symbol)
    /\ tpc \in {"greet", "prompt", "cmd", "type", "count", "addr", "data", "eat",
               "start", "app", "monitor", "hung"}
    /\ par \in [type : Character, left : Nat, addr : Nat]
    /\ tpc = "data" => par.left > 0
    /\ tpc = "count" => par.type \in Data \cup Start
    /\ mem \in [Addr -> Nat] /\ entry \in Nat /\ noresponse \in BOOLEAN
    /\ window \in 0..Window
    /\ buffer \in Seq(Symbol) /\ Len(buffer) <= MaxLine
BoundType == sessions \in 0..MaxSessions /\ chat \in 0..MaxChat /\ calm \in BOOLEAN

\* The types, part by part.
LEMMA TypeParts ==
    /\ UploadTypeOK <=> HostType /\ WireType /\ TargetType /\ BoundType
    /\ UploadTypeOK' <=> HostType' /\ WireType' /\ TargetType' /\ BoundType'
PROOF
  BY DEF UploadTypeOK, HostType, WireType, TargetType, BoundType

\* What a step does not touch keeps its type.
LEMMA TypeKept ==
    /\ UNCHANGED host /\ HostType => HostType'
    /\ UNCHANGED line /\ WireType => WireType'
    /\ UNCHANGED target /\ TargetType => TargetType'
    /\ UNCHANGED bounds /\ BoundType => BoundType'
PROOF
  BY DEF HostType, WireType, TargetType, BoundType, host, line, target, bounds,
         state

\* A reset starts the bootloader again.
LEMMA RestartType ==
    ASSUME Typed, UploadTypeOK, Restart
    PROVE  TargetType' /\ held' \in Symbol /\ arrived' \in BOOLEAN /\ calm' = FALSE
PROOF
  <1>1. Window \in Nat /\ MaxLine \in Nat /\ Greeting \in Seq(Symbol) /\ None \in Symbol
    BY CharSymbols DEF Typed
  <1>2. /\ tout' = Greeting /\ tpc' = "greet" /\ window' = Window /\ held' = None
        /\ arrived' = FALSE /\ entry' = 0 /\ noresponse' = FALSE /\ buffer' = <<>>
        /\ par' = [type |-> "none", left |-> 0, addr |-> 0] /\ mem' = mem /\ calm' = FALSE
    BY DEF Restart
  <1>3. mem' \in [Addr -> Nat] /\ window' \in 0..Window /\ tout' \in Seq(Symbol)
    BY <1>1, <1>2 DEF UploadTypeOK
  <1>4. buffer' \in Seq(Symbol) /\ Len(buffer') <= MaxLine
    BY <1>1, <1>2
  <1>5. par' \in [type : Character, left : Nat, addr : Nat]
    BY <1>2 DEF Character
  <1> QED
    BY <1>1, <1>2, <1>3, <1>4, <1>5 DEF TargetType

\* The tool closes the device.
LEMMA ExitType ==
    ASSUME UploadTypeOK, NEW c \in {"ok", "6", "8", "9", "killed"}, Exit(c)
    PROVE  HostType' /\ toHost' = <<>> /\ hpc' = "off" /\ code' = c
PROOF
  <1>1. /\ hpc' = "off" /\ code' = c /\ toHost' = <<>> /\ pos' = <<1, 1>>
        /\ \/ file' = file /\ opt' = opt
           \/ file' = <<>> /\ opt' = NoOptions
    BY DEF Exit
  <1>2. NoOptions \in Options
    BY DEF NoOptions, Options
  <1>3. file' \in Seq(Seq(Symbol) \ {<<>>}) /\ opt' \in Options
    <2>1. file \in Seq(Seq(Symbol) \ {<<>>}) /\ opt \in Options
      BY DEF UploadTypeOK
    <2>2. <<>> \in Seq(Seq(Symbol) \ {<<>>})
      OBVIOUS
    <2> QED
      BY <1>1, <1>2, <2>1, <2>2
  <1>4. pos' \in (Nat \ {0}) \X (Nat \ {0})
    BY <1>1
  <1> QED
    BY <1>1, <1>3, <1>4 DEF HostType

\* The symbol that is written next.
LEMMA NextSymbol ==
    ASSUME UploadTypeOK, Positions, hpc = "send", ~AtEnd
    PROVE  /\ pos[1] \in DOMAIN file /\ pos[1] \in 1..Len(file)
           /\ ThisLine \in Seq(Symbol) /\ ThisLine # <<>>
           /\ pos[2] \in 1..Len(ThisLine) /\ ThisLine[pos[2]] \in Symbol
           /\ Len(ThisLine) \in Nat /\ pos = <<pos[1], pos[2]>>
PROOF
  <1>1. pos[1] \in Nat \ {0} /\ pos[2] \in Nat \ {0} /\ pos = <<pos[1], pos[2]>>
    BY DEF UploadTypeOK
  <1>2. file \in Seq(Seq(Symbol) \ {<<>>}) /\ Len(file) \in Nat
    BY DEF UploadTypeOK
  <1>3. pos[1] \in 1..Len(file)
    BY <1>1, <1>2 DEF AtEnd
  <1>4. pos[1] \in DOMAIN file /\ ThisLine \in Seq(Symbol) /\ ThisLine # <<>>
    BY <1>2, <1>3 DEF ThisLine
  <1>5. pos[2] \in 1..Len(ThisLine) /\ Len(ThisLine) \in Nat
    BY <1>1, <1>4 DEF Positions
  <1> QED
    BY <1>1, <1>3, <1>4, <1>5

\* The tool's steps keep the types.
LEMMA HostStepType ==
    ASSUME Typed, UploadTypeOK, Positions, HostOpen \/ HostStep \/ HostKill \/ Type
    PROVE  UploadTypeOK'
PROOF
  <1> USE TypeParts, TypeKept
  <1>1. HostType /\ WireType /\ TargetType /\ BoundType
    OBVIOUS
  <1>2. CASE HostOpen
    <2>1. sessions' \in 1..MaxSessions
      BY <1>1, <1>2, Bounds DEF HostOpen, BoundType
    <2>2. PICK u \in Uploads[sessions'] :
              /\ file' = u.file /\ opt' = u.opt
              /\ hpc' = IF u.opt.brk THEN "break" ELSE "key"
      BY <1>2 DEF HostOpen
    <2>3. u.file \in Seq(Seq(Symbol) \ {<<>>}) /\ u.opt \in Options
      BY <2>1, <2>2 DEF Typed
    <2>4. HostType'
      BY <1>1, <1>2, <2>2, <2>3 DEF HostOpen, HostType
    <2>5. BoundType'
      <3>1. chat' = chat /\ calm' = FALSE
        BY <1>2 DEF HostOpen
      <3>2. sessions' \in 0..MaxSessions
        BY <2>1, Bounds
      <3> QED
        BY <1>1, <3>1, <3>2 DEF BoundType
    <2> QED
      BY <1>1, <1>2, <2>4, <2>5 DEF HostOpen
  <1>3. CASE HostBreak
    <2>1. HostType'
      BY <1>1, <1>3 DEF HostBreak, HostType
    <2>2. CASE Restart
      <3>1. TargetType' /\ held' \in Symbol /\ arrived' \in BOOLEAN /\ calm' = FALSE
        BY <2>2, RestartType
      <3>2. WireType' /\ BoundType'
        BY <1>1, <1>3, <3>1 DEF HostBreak, WireType, BoundType
      <3> QED
        BY <2>1, <3>1, <3>2
    <2>3. CASE UNCHANGED <<target, held, arrived, calm>>
      BY <1>1, <1>3, <2>1, <2>3 DEF HostBreak, WireType, BoundType
    <2> QED
      BY <1>3, <2>2, <2>3 DEF HostBreak
  <1>4. CASE HostKey
    <2>1. Ch("$") \in Symbol /\ Ch("!") \in Symbol
      BY CharSymbols DEF Character
    <2>2. toTarget' \in Seq(Symbol)
      BY <1>1, <1>4, <2>1 DEF HostKey, WireType
    <2>3. HostType'
      BY <1>1, <1>4 DEF HostKey, HostType
    <2>4. WireType'
      BY <1>1, <1>4, <2>2 DEF HostKey, WireType
    <2>5. BoundType'
      BY <1>1, <1>4 DEF HostKey, BoundType
    <2> QED
      BY <1>1, <1>4, <2>3, <2>4, <2>5 DEF HostKey
  <1>5. CASE HostContact
    <2>1. UNCHANGED <<toTarget, held, arrived, target, bounds>>
      BY <1>5 DEF HostContact
    <2>2. CASE toHost # <<>> /\ toHost' = Tail(toHost) /\ hpc' = "residue"
               /\ UNCHANGED <<file, opt, pos, code>>
      BY <1>1, <2>1, <2>2 DEF HostType, WireType
    <2>3. CASE Exit("6")
      BY <1>1, <2>1, <2>3, ExitType DEF WireType
    <2> QED
      BY <1>5, <2>2, <2>3 DEF HostContact
  <1>6. CASE HostResidue
    <2>1. SubSeq(toHost, 6, Len(toHost)) \in Seq(Symbol)
      <3>1. toHost \in Seq(Symbol) /\ Len(toHost) \in Nat
        BY <1>1 DEF WireType
      <3>2. CASE Len(toHost) >= 6
        BY <3>1, <3>2, SubSeqProperties
      <3>3. CASE Len(toHost) < 6
        BY <3>1, <3>3, SubSeqEmpty
      <3> QED
        BY <3>1, <3>2, <3>3
    <2> QED
      BY <1>1, <1>6, <2>1 DEF HostResidue, HostType, WireType
  <1>7. CASE HostSend
    <2>1. ThisLine[pos[2]] \in Symbol
      BY <1>7, NextSymbol DEF HostSend
    <2>2. toTarget' \in Seq(Symbol)
      BY <1>1, <1>7, <2>1 DEF HostSend, WireType, ThisLine
    <2>3. pos' \in (Nat \ {0}) \X (Nat \ {0})
      <3>1. pos[1] \in Nat \ {0} /\ pos[2] \in Nat \ {0}
        BY <1>1 DEF HostType
      <3>2. pos' = pos \/ pos' = <<pos[1], pos[2] + 1>> \/ pos' = <<pos[1] + 1, 1>>
        BY <1>7 DEF HostSend, NextLine
      <3> QED
        BY <1>1, <3>1, <3>2 DEF HostType
    <2>4. HostType'
      BY <1>1, <1>7, <2>3 DEF HostSend, HostType
    <2> QED
      BY <1>1, <1>7, <2>2, <2>4 DEF HostSend, WireType
  <1>8. CASE HostAnswer
    <2>1. UNCHANGED <<toTarget, held, arrived, target, bounds>>
      BY <1>8 DEF HostAnswer
    <2>2. CASE /\ toHost # <<>> /\ toHost' = Tail(toHost)
               /\ IF Head(toHost) = nl
                  THEN hpc' = "send" /\ pos' = NextLine ELSE UNCHANGED <<hpc, pos>>
               /\ UNCHANGED <<file, opt, code>>
      <3>1. NextLine \in (Nat \ {0}) \X (Nat \ {0})
        BY <1>1 DEF HostType, NextLine
      <3>2. HostType'
        BY <1>1, <2>2, <3>1 DEF HostType
      <3>3. toHost' \in Seq(Symbol)
        BY <1>1, <2>2 DEF WireType
      <3> QED
        BY <1>1, <2>1, <3>2, <3>3 DEF WireType
    <2>3. CASE Exit("8")
      BY <1>1, <2>1, <2>3, ExitType DEF WireType
    <2> QED
      BY <1>8, <2>2, <2>3 DEF HostAnswer
  <1>9. CASE HostMarker
    <2>1. Ch("J") \in Symbol /\ Ch("#") \in Symbol
      BY CharSymbols DEF Character
    <2>2. toTarget' \in Seq(Symbol)
      BY <1>1, <1>9, <2>1 DEF HostMarker, WireType
    <2>3. CASE Exit("ok")
      BY <1>1, <1>9, <2>2, <2>3, ExitType DEF WireType, HostMarker
    <2>4. CASE hpc' = "final" /\ UNCHANGED <<file, opt, pos, code, toHost>>
      <3>1. HostType'
        BY <1>1, <2>4 DEF HostType
      <3> QED
        BY <1>1, <1>9, <2>2, <2>4, <3>1 DEF WireType, HostMarker
    <2> QED
      BY <1>9, <2>3, <2>4 DEF HostMarker
  <1>10. CASE HostFinal
    <2>1. UNCHANGED <<toTarget, held, arrived, target, bounds>>
      BY <1>10 DEF HostFinal
    <2>2. CASE toHost # <<>> /\ toHost' = Tail(toHost) /\ UNCHANGED host
      BY <1>1, <2>1, <2>2 DEF WireType
    <2>3. CASE Exit("ok")
      BY <1>1, <2>1, <2>3, ExitType DEF WireType
    <2>4. CASE Exit("9")
      BY <1>1, <2>1, <2>4, ExitType DEF WireType
    <2> QED
      BY <1>10, <2>2, <2>3, <2>4 DEF HostFinal
  <1>11. CASE HostKill
    BY <1>1, <1>11, ExitType DEF WireType, HostKill
  <1>12. CASE Type
    <2>1. toTarget' \in Seq(Symbol)
      BY <1>12 DEF Type, Typed
    <2>2. WireType'
      BY <1>1, <1>12, <2>1 DEF Type, WireType
    <2>3. BoundType'
      <3>1. chat' = chat /\ calm' = FALSE /\ sessions' = sessions + 1
            /\ sessions < MaxSessions
        BY <1>12 DEF Type
      <3>2. sessions' \in 0..MaxSessions
        BY <1>1, <3>1, Bounds DEF BoundType
      <3> QED
        BY <1>1, <3>1, <3>2 DEF BoundType
    <2> QED
      BY <1>1, <1>12, <2>2, <2>3 DEF Type
  <1> QED
    BY <1>2, <1>3, <1>4, <1>5, <1>6, <1>7, <1>8, <1>9, <1>10, <1>11, <1>12 DEF HostStep

\* The line's steps keep the types.
LEMMA LineStepType ==
    ASSUME UploadTypeOK, Arrive \/ Sent
    PROVE  UploadTypeOK'
PROOF
  <1> USE TypeParts, TypeKept
  <1>1. HostType /\ WireType /\ TargetType /\ BoundType
    OBVIOUS
  <1>2. CASE Arrive
    <2>1. toTarget \in Seq(Symbol) /\ toTarget # <<>> /\ None \in Symbol
      BY <1>1, <1>2, CharSymbols DEF Arrive, WireType
    <2>2. Tail(toTarget) \in Seq(Symbol) /\ Head(toTarget) \in Symbol
      BY <2>1
    <2>3. WireType'
      BY <1>1, <1>2, <2>1, <2>2 DEF Arrive, WireType
    <2> QED
      BY <1>1, <1>2, <2>3 DEF Arrive
  <1>3. CASE Sent
    <2>1. tout \in Seq(Symbol) /\ tout # <<>> /\ toHost \in Seq(Symbol)
      BY <1>1, <1>3 DEF Sent, WireType, TargetType
    <2>2. /\ Tail(tout) \in Seq(Symbol) /\ Head(tout) \in Symbol
          /\ Append(toHost, Head(tout)) \in Seq(Symbol)
      BY <2>1
    <2>3. /\ tout' = Tail(tout) /\ toHost' \in Seq(Symbol)
          /\ toTarget' = toTarget /\ held' = held /\ arrived' = FALSE
          /\ tpc' = tpc /\ state' = state /\ window' = window
      BY <1>3, <2>1, <2>2 DEF Sent
    <2>4. WireType'
      BY <1>1, <2>3 DEF WireType
    <2>5. TargetType'
      BY <1>1, <2>2, <2>3 DEF TargetType, state
    <2> QED
      BY <1>1, <1>3, <2>4, <2>5 DEF Sent
  <1> QED
    BY <1>2, <1>3

\* The bootloader has taken a symbol.
LEMMA TakeType ==
    ASSUME UploadTypeOK, NEW p, Take(p)
    PROVE  /\ WireType' /\ HostType' /\ BoundType'
           /\ held \in Symbol /\ held # None /\ tpc = p /\ tout = <<>>
           /\ gethex \in Nat /\ held.ch \in Character /\ held.val \in Nat
           /\ held' = None /\ toTarget' = toTarget /\ toHost' = toHost
PROOF
  <1> USE TypeParts, TypeKept
  <1>1. HostType /\ WireType /\ TargetType /\ BoundType
    OBVIOUS
  <1>2. /\ tout = <<>> /\ held # None /\ tpc = p /\ held' = None /\ arrived' = FALSE
        /\ UNCHANGED host /\ toTarget' = toTarget /\ toHost' = toHost
        /\ UNCHANGED bounds
    BY DEF Take, bounds
  <1>3. WireType'
    BY <1>1, <1>2, CharSymbols DEF WireType
  <1>4. held \in Symbol /\ held.ch \in Character /\ held.val \in Nat
    BY <1>1 DEF WireType, Symbol
  <1>5. gethex \in Nat
    BY <1>4 DEF gethex
  <1> QED
    BY <1>1, <1>2, <1>3, <1>4, <1>5

\* The bootloader's steps keep the types.
LEMMA TargetStepType ==
    ASSUME Typed, UploadTypeOK, TargetStep \/ Chat \/ Reset
    PROVE  UploadTypeOK'
PROOF
  <1> USE TypeParts, TypeKept
  <1>1. HostType /\ WireType /\ TargetType /\ BoundType
    OBVIOUS
  <1>2. noresponse \in BOOLEAN
    BY <1>1 DEF TargetType
  <1>3. CASE Star
    <2>1. window' \in 0..Window
      BY <1>1, <1>3, Bounds DEF Star, TargetType
    <2>2. tout' \in Seq(Symbol)
      BY <1>2, <1>3, Printed DEF Star
    <2>3. TargetType'
      BY <1>1, <1>3, <2>1, <2>2 DEF Star, TargetType, state
    <2>4. BoundType'
      BY <1>1, <1>3 DEF Star, BoundType
    <2> QED
      BY <1>1, <1>3, <2>3, <2>4 DEF Star
  <1>4. CASE GreetingDone
    <2>1. TargetType'
      BY <1>1, <1>4 DEF GreetingDone, TargetType, state
    <2> QED
      BY <1>1, <1>4, <2>1 DEF GreetingDone
  <1>5. CASE StartApp
    <2>1. TargetType'
      BY <1>1, <1>5 DEF StartApp, TargetType, state
    <2>2. WireType'
      BY <1>1, <1>5, CharSymbols DEF StartApp, WireType
    <2> QED
      BY <1>1, <1>5, <2>1, <2>2 DEF StartApp
  <1>6. CASE Key
    <2>1. /\ WireType' /\ HostType' /\ BoundType' /\ tout = <<>>
      BY <1>6, TakeType DEF Key
    <2>2. noresponse' \in BOOLEAN
      BY <1>2, <1>6 DEF Key
    <2>5. tout' \in Seq(Symbol)
      <3>1. tout' \in {<<>>, <<nl>> \o Prompt, Answer}
        BY <1>6 DEF Key
      <3>2. <<>> \in Seq(Symbol)
        OBVIOUS
      <3> QED
        BY <1>2, <3>1, <3>2, Printed
    <2>3. tpc' \in {"cmd", "monitor"}
      BY <1>6 DEF Key
    <2>4. TargetType'
      BY <1>1, <1>6, <2>2, <2>3, <2>5 DEF Key, TargetType
    <2> QED
      BY <2>1, <2>4
  <1>7. CASE Command
    <2>1. /\ WireType' /\ HostType' /\ BoundType' /\ tout = <<>>
      BY <1>7, TakeType DEF Command
    <2>2. tpc' \in {"type", "start", "monitor", "cmd"}
      BY <1>7 DEF Command
    <2>3. tout' \in Seq(Symbol)
      <3>1. tout' \in {<<>>, <<nl>> \o Prompt, Answer}
        BY <1>7 DEF Command
      <3>2. <<>> \in Seq(Symbol)
        OBVIOUS
      <3> QED
        BY <1>2, <3>1, <3>2, Printed
    <2>4. TargetType'
      BY <1>1, <1>7, <2>2, <2>3 DEF Command, TargetType, state
    <2> QED
      BY <2>1, <2>4
  <1>8. CASE RecordType
    <2>1. /\ WireType' /\ HostType' /\ BoundType' /\ held.ch \in Character
      BY <1>8, TakeType DEF RecordType
    <2>2. /\ par' \in [type : Character, left : Nat, addr : Nat] /\ par'.type = held.ch
      BY <1>1, <1>8, <2>1 DEF RecordType, TargetType
    <2>3. /\ tpc' \in {"count", "eat"}
          /\ tpc' = "count" => par'.type \in Data \cup Start
      BY <1>8, <2>2 DEF RecordType
    <2>4. TargetType'
      BY <1>1, <1>8, <2>2, <2>3 DEF RecordType, TargetType
    <2> QED
      BY <2>1, <2>4
  <1>9. CASE Count
    <2>1. /\ WireType' /\ HostType' /\ BoundType' /\ tpc = "count" /\ gethex \in Nat
      BY <1>9, TakeType DEF Count
    <2>2. par.type \in Data \cup Start
      BY <1>1, <2>1 DEF TargetType
    <2>3. Forever \in Nat /\ \A t \in Data : Overhead[t] \in Nat
      BY DEF Forever, Data, Overhead
    <2>4. (IF par.type \in Start THEN 0
           ELSE IF gethex < Overhead[par.type] THEN Forever
           ELSE gethex - Overhead[par.type]) \in Nat
      BY <2>1, <2>2, <2>3
    <2>5. par' \in [type : Character, left : Nat, addr : Nat]
      BY <1>1, <1>9, <2>4 DEF Count, TargetType
    <2>6. TargetType'
      BY <1>1, <1>9, <2>5 DEF Count, TargetType
    <2> QED
      BY <2>1, <2>6
  <1>10. CASE Address
    <2>1. /\ WireType' /\ HostType' /\ BoundType' /\ gethex \in Nat
      BY <1>10, TakeType DEF Address
    <2>2. par' \in [type : Character, left : Nat, addr : Nat] /\ par'.left = par.left
      BY <1>1, <1>10, <2>1 DEF Address, TargetType
    <2>3. tpc' \in {"data", "eat"} /\ (tpc' = "data" => par.left > 0)
      BY <1>10 DEF Address
    <2>4. TargetType'
      BY <1>1, <1>10, <2>2, <2>3 DEF Address, TargetType
    <2> QED
      BY <2>1, <2>4
  <1>11. CASE Byte
    <2>1. /\ WireType' /\ HostType' /\ BoundType' /\ gethex \in Nat /\ tpc = "data"
      BY <1>11, TakeType DEF Byte
    <2>2. par.left \in Nat /\ par.left > 0 /\ par.addr \in Nat /\ Forever \in Nat
      BY <1>1, <2>1 DEF TargetType, Forever
    <2>3. par' = [par EXCEPT !.left = IF @ = Forever THEN @ ELSE @ - 1, !.addr = @ + 1]
      BY <1>11 DEF Byte
    <2>4. par' \in [type : Character, left : Nat, addr : Nat]
      <3>1. (IF par.left = Forever THEN par.left ELSE par.left - 1) \in Nat
            /\ par.addr + 1 \in Nat
        BY <2>2
      <3>2. par \in [type : Character, left : Nat, addr : Nat]
        BY <1>1 DEF TargetType
      <3> QED
        BY <2>3, <3>1, <3>2
    <2>5. mem' \in [Addr -> Nat]
      BY <1>1, <1>11, <2>1 DEF Byte, TargetType
    <2>6. tpc' \in {"eat", "data", "hung"} /\ (tpc' = "data" => par'.left # 0)
      BY <1>11 DEF Byte
    <2>8. tpc' = "data" => par'.left > 0
      <3>1. par'.left \in Nat
        BY <2>4
      <3> QED
        BY <2>6, <3>1
    <2>7. TargetType'
      BY <1>1, <1>11, <2>4, <2>5, <2>6, <2>8 DEF Byte, TargetType
    <2> QED
      BY <2>1, <2>7
  <1>12. CASE EatLine
    <2>1. /\ WireType' /\ HostType' /\ BoundType'
      BY <1>12, TakeType DEF EatLine
    <2>2. tout' \in Seq(Symbol)
      BY <1>1, <1>2, <1>12, Printed DEF EatLine, TargetType
    <2>3. entry' \in Nat /\ tpc' \in {"cmd", "eat"}
      BY <1>1, <1>12, TakeType DEF EatLine, TargetType
    <2>4. TargetType'
      BY <1>1, <1>12, <2>2, <2>3 DEF EatLine, TargetType
    <2> QED
      BY <2>1, <2>4
  <1>13. CASE Monitor
    <2>1. WireType' /\ HostType' /\ BoundType' /\ tout = <<>> /\ held \in Symbol
          /\ tpc = "monitor"
      BY <1>13, TakeType DEF Monitor
    <2>2. buffer \in Seq(Symbol) /\ Len(buffer) \in Nat /\ Len(buffer) <= MaxLine
          /\ MaxLine \in Nat
      BY <1>1, Bounds DEF TargetType
    <2>3. tout' \in Seq(Symbol)
      <3>1. tout' \in {<<nl>>, <<nl>> \o Prompt, <<nl, Ch("?"), nl>> \o Prompt,
                       <<Ch("del")>>, <<held>>, tout,
                       [i \in 1..Len(buffer) |-> Ch("del")]}
        BY <1>13 DEF Monitor
      <3>2. [i \in 1..Len(buffer) |-> Ch("del")] \in Seq(Symbol)
        <4>1. Ch("del") \in Symbol
          BY CharSymbols DEF Character
        <4> QED
          BY <2>2, <4>1
      <3> QED
        BY <1>1, <1>2, <2>1, <3>1, <3>2, Printed DEF TargetType
    <2>4. buffer' \in Seq(Symbol) /\ Len(buffer') <= MaxLine
      <3>1. \/ buffer' = <<>> \/ buffer' = buffer
            \/ buffer # <<>> /\ buffer' = SubSeq(buffer, 1, Len(buffer) - 1)
            \/ Len(buffer) < MaxLine /\ buffer' = Append(buffer, held)
        BY <1>13 DEF Monitor, Room
      <3>2. CASE buffer # <<>> /\ buffer' = SubSeq(buffer, 1, Len(buffer) - 1)
        <4>1. \A i \in 1..Len(buffer) - 1 : buffer[i] \in Symbol
          BY <2>2
        <4>2. /\ SubSeq(buffer, 1, Len(buffer) - 1) \in Seq(Symbol)
              /\ Len(SubSeq(buffer, 1, Len(buffer) - 1)) =
                     IF 1 <= Len(buffer) - 1 THEN Len(buffer) - 1 - 1 + 1 ELSE 0
          BY <2>2, <4>1, SubSeqProperties
        <4> QED
          BY <2>2, <3>2, <4>2
      <3>3. CASE Len(buffer) < MaxLine /\ buffer' = Append(buffer, held)
        BY <2>1, <2>2, <3>3
      <3>4. CASE buffer' = <<>>
        <4>1. <<>> \in Seq(Symbol) /\ Len(<<>>) = 0
          OBVIOUS
        <4> QED
          BY <2>2, <3>4, <4>1
      <3>5. CASE buffer' = buffer
        BY <2>2, <3>5
      <3> QED
        BY <3>1, <3>2, <3>3, <3>4, <3>5
    <2>5. mem' \in [Addr -> Nat]
      <3>1. CASE mem' = mem
        BY <1>1, <3>1 DEF TargetType
      <3>2. CASE IsWrite(buffer) /\ mem' = [mem EXCEPT ![buffer[2].val] = buffer[3].val]
        <4>1. buffer[3] \in Symbol
          <5>1. Len(buffer) >= 3
            BY <3>2 DEF IsWrite
          <5> QED
            BY <2>2, <5>1
        <4>2. buffer[3].val \in Nat
          BY <4>1 DEF Symbol
        <4> QED
          BY <1>1, <3>2, <4>2 DEF TargetType
      <3> QED
        BY <1>13, <3>1, <3>2 DEF Monitor
    <2>6. tpc' \in {"start", "monitor"}
      BY <1>13, <2>1 DEF Monitor
    <2>7. TargetType'
      BY <1>1, <1>13, <2>3, <2>4, <2>5, <2>6 DEF Monitor, TargetType
    <2> QED
      BY <2>1, <2>7
  <1>14. CASE Chat
    <2>1. Ch(".") \in Symbol /\ nl \in Symbol
      BY CharSymbols DEF Character
    <2>2. PICK c \in {Ch("."), nl} : tout' = <<c>>
      BY <1>14 DEF Chat
    <2>3. tout' \in Seq(Symbol)
      BY <2>1, <2>2
    <2>4. chat' \in 0..MaxChat
      BY <1>1, <1>14, Bounds DEF Chat, BoundType
    <2>5. TargetType'
      BY <1>1, <1>14, <2>3 DEF Chat, TargetType, state
    <2>6. BoundType'
      BY <1>1, <1>14, <2>4 DEF Chat, BoundType
    <2> QED
      BY <1>1, <1>14, <2>5, <2>6 DEF Chat
  <1>15. CASE Reset
    <2>1. TargetType' /\ held' \in Symbol /\ arrived' \in BOOLEAN /\ calm' = FALSE
      BY <1>15, RestartType DEF Reset
    <2>2. WireType'
      BY <1>1, <1>15, <2>1 DEF Reset, WireType
    <2>3. BoundType'
      <3>1. chat' = chat /\ sessions' = sessions + 1 /\ sessions < MaxSessions
        BY <1>15 DEF Reset
      <3>2. sessions' \in 0..MaxSessions
        BY <1>1, <3>1, Bounds DEF BoundType
      <3> QED
        BY <1>1, <2>1, <3>1, <3>2 DEF BoundType
    <2> QED
      BY <1>1, <1>15, <2>1, <2>2, <2>3 DEF Reset
  <1> QED
    BY <1>3, <1>4, <1>5, <1>6, <1>7, <1>8, <1>9, <1>10, <1>11, <1>12, <1>13, <1>14,
       <1>15 DEF TargetStep


\* Every action of the program keeps the types.
LEMMA UploadTypeStep ==
    ASSUME Typed, UploadTypeOK, Positions, UploadNext
    PROVE  UploadTypeOK'
PROOF
  BY HostStepType, LineStepType, TargetStepType DEF UploadNext

\* Where the tool is in its file follows from what it does.
LEMMA PositionsNext ==
    ASSUME UploadTypeOK, UploadTypeOK', Positions, UploadNext
    PROVE  Positions'
PROOF
  <1>1. /\ pos = <<pos[1], pos[2]>> /\ pos[1] \in Nat \ {0} /\ pos[2] \in Nat \ {0}
        /\ Len(file) \in Nat /\ Len(file') \in Nat
    <2>1. pos \in (Nat \ {0}) \X (Nat \ {0})
      BY DEF UploadTypeOK
    <2>2. file \in Seq(Seq(Symbol) \ {<<>>}) /\ file' \in Seq(Seq(Symbol) \ {<<>>})
      BY DEF UploadTypeOK
    <2> QED
      BY <2>1, <2>2
  <1>2. CASE UNCHANGED <<file, opt, hpc, pos>> /\ (calm' => calm)
    BY <1>2 DEF Positions, Open, AtEnd, ThisLine
  <1>3. ASSUME NEW c, Exit(c) PROVE Positions'
    BY <1>3 DEF Exit, Positions, Open, AtEnd, ThisLine
  <1>4. ASSUME pos' = <<1, 1>>, hpc' \in {"break", "key", "contact", "residue"},
               hpc' \in {"break", "key"} => ~calm', hpc' = "contact" => ~opt'.nowait
        PROVE  Positions'
    BY <1>1, <1>4 DEF Positions, Open
  <1>5. CASE HostOpen
    BY <1>4, <1>5 DEF HostOpen, Positions, Open
  <1>6. CASE HostBreak
    <2>1. hpc = "break" /\ hpc' = "key" /\ pos' = pos /\ opt' = opt
      BY <1>6 DEF HostBreak
    <2>2. pos' = <<1, 1>> /\ ~calm
      BY <2>1 DEF Positions
    <2>3. ~calm'
      BY <1>6, <2>2 DEF HostBreak, Restart
    <2> QED
      BY <1>4, <2>1, <2>2, <2>3
  <1>7. CASE HostKey
    BY <1>4, <1>7 DEF HostKey, Positions
  <1>8. CASE HostContact
    BY <1>3, <1>4, <1>8 DEF HostContact, Positions
  <1>9. CASE HostResidue
    <2>1. pos = <<1, 1>> /\ pos' = pos /\ hpc' = "send" /\ file' = file
      BY <1>9 DEF HostResidue, Positions
    <2>2. ~AtEnd' => pos'[2] <= Len(ThisLine')
      <3> SUFFICES ASSUME ~AtEnd' PROVE 1 <= Len(ThisLine')
        BY <2>1
      <3>1. 1 \in 1..Len(file)
        BY <1>1, <2>1 DEF AtEnd
      <3>2. file[1] \in Seq(Symbol) /\ file[1] # <<>>
        <4>1. file \in Seq(Seq(Symbol) \ {<<>>})
          BY DEF UploadTypeOK
        <4> QED
          BY <3>1, <4>1
      <3> QED
        BY <2>1, <3>2 DEF ThisLine
    <2> QED
      BY <1>1, <2>1, <2>2 DEF Positions, Open, AtEnd
  <1>10. ASSUME hpc' = "send", pos' = NextLine, file' = file, pos[1] <= Len(file)
         PROVE  Positions'
    <2>1. pos'[1] = pos[1] + 1 /\ pos'[2] = 1
      BY <1>1, <1>10 DEF NextLine
    <2>2. ~AtEnd' => pos'[2] <= Len(ThisLine')
      <3> SUFFICES ASSUME ~AtEnd' PROVE 1 <= Len(ThisLine')
        BY <2>1
      <3>1. pos[1] + 1 \in 1..Len(file)
        BY <1>1, <1>10, <2>1 DEF AtEnd
      <3>2. file[pos[1] + 1] \in Seq(Symbol) /\ file[pos[1] + 1] # <<>>
        <4>1. file \in Seq(Seq(Symbol) \ {<<>>})
          BY DEF UploadTypeOK
        <4> QED
          BY <3>1, <4>1
      <3> QED
        BY <1>10, <2>1, <3>2 DEF ThisLine
    <2> QED
      BY <1>1, <1>10, <2>1, <2>2 DEF Positions, Open, AtEnd
  <1>11. CASE HostSend
    <2>1. pos[1] <= Len(file) /\ pos[2] \in 1..Len(ThisLine) /\ Len(ThisLine) \in Nat
      BY <1>11, NextSymbol DEF HostSend
    <2>2. hpc = "send" /\ file' = file /\ opt' = opt /\ calm' = calm
      BY <1>11 DEF HostSend, bounds
    <2>3. CASE pos[2] < Len(ThisLine) /\ pos' = <<pos[1], pos[2] + 1>> /\ hpc' = hpc
      BY <1>1, <2>1, <2>2, <2>3 DEF Positions, Open, AtEnd, ThisLine
    <2>4. CASE pos' = NextLine /\ hpc' = hpc
      BY <1>10, <2>1, <2>2, <2>4
    <2>5. CASE ~opt.nowait /\ hpc' = "answer" /\ pos' = pos
      BY <1>1, <2>1, <2>2, <2>5 DEF Positions, Open, AtEnd, ThisLine
    <2> QED
      BY <1>11, <2>3, <2>4, <2>5 DEF HostSend, ThisLine
  <1>12. CASE HostAnswer
    <2>1. pos[1] <= Len(file)
      BY <1>1, <1>12 DEF HostAnswer, Positions, AtEnd
    <2> QED
      BY <1>2, <1>3, <1>10, <1>12, <2>1 DEF HostAnswer, bounds
  <1>13. CASE HostMarker
    <2>1. CASE Exit("ok")
      BY <1>3, <2>1
    <2>2. CASE hpc' = "final" /\ UNCHANGED <<file, opt, pos>> /\ ~opt.nowait
      BY <1>1, <1>13, <2>2 DEF HostMarker, Positions, Open, AtEnd
    <2> QED
      BY <1>13, <2>1, <2>2 DEF HostMarker
  <1>14. CASE HostFinal
    BY <1>2, <1>3, <1>14 DEF HostFinal, host, bounds
  <1>15. CASE HostKill
    BY <1>3, <1>15 DEF HostKill
  <1>16. CASE \/ Type \/ Arrive \/ Sent \/ Star
              \/ GreetingDone \/ StartApp \/ Chat \/ Reset
    BY <1>2, <1>16 DEF Type, Arrive, Sent, Star, GreetingDone, StartApp,
                       Chat, Reset, Restart, host, bounds
  <1>17. CASE \/ Key \/ Command \/ RecordType \/ Count
              \/ Address \/ Byte \/ EatLine \/ Monitor
    BY <1>2, <1>17 DEF Key, Command, RecordType, Count, Address, Byte,
                       EatLine, Monitor, Take, host
  <1> QED
    BY <1>5, <1>6, <1>7, <1>8, <1>9, <1>11, <1>12, <1>13, <1>14, <1>15, <1>16, <1>17
       DEF UploadNext, HostStep, TargetStep

\* At reset the tool does not run and nothing is on the line.
LEMMA UploadTypeInit ==
    ASSUME Typed, UploadInit
    PROVE  UploadTypeOK /\ Positions
PROOF
  <1>1. None \in Symbol /\ Window \in Nat /\ MaxLine \in Nat /\ MaxSessions \in Nat
        /\ MaxChat \in Nat /\ Greeting \in Seq(Symbol)
    BY CharSymbols, Bounds DEF Typed
  <1>2. NoOptions \in Options
    BY DEF NoOptions, Options
  <1>3. HostType
    <2>1. file = <<>> /\ opt = NoOptions /\ hpc = "off" /\ pos = <<1, 1>> /\ code = "none"
      BY DEF UploadInit
    <2>2. <<>> \in Seq(Seq(Symbol) \ {<<>>}) /\ <<1, 1>> \in (Nat \ {0}) \X (Nat \ {0})
      OBVIOUS
    <2> QED
      BY <1>2, <2>1, <2>2 DEF HostType
  <1>4. WireType
    <2>1. toTarget = <<>> /\ toHost = <<>> /\ held = None /\ arrived = FALSE
      BY DEF UploadInit
    <2>2. <<>> \in Seq(Symbol)
      OBVIOUS
    <2> QED
      BY <1>1, <2>1, <2>2 DEF WireType
  <1>5. par \in [type : Character, left : Nat, addr : Nat]
    BY DEF UploadInit, Character
  <1>6. buffer \in Seq(Symbol) /\ Len(buffer) <= MaxLine
    BY <1>1 DEF UploadInit
  <1>7. mem \in [Addr -> Nat] /\ window \in 0..Window
    BY <1>1 DEF UploadInit
  <1>8. TargetType
    BY <1>1, <1>5, <1>6, <1>7 DEF UploadInit, TargetType
  <1>9. BoundType
    <2>1. sessions \in 0..MaxSessions /\ chat \in 0..MaxChat
      BY <1>1 DEF UploadInit
    <2> QED
      BY <2>1 DEF UploadInit, BoundType
  <1>10. Positions
    BY DEF UploadInit, Positions, Open
  <1> QED
    BY <1>3, <1>4, <1>8, <1>9, <1>10, TypeParts

\* The symbols on the line, the record that is read, the line buffer and the
\* memory keep their types, whatever is uploaded or typed and whenever the
\* target is reset.
THEOREM UploadTypeCorrect ==
    UploadSpec => []UploadTypeOK
PROOF
  <1>3. Typed
    BY UploadAssumption
  <1>1. UploadInit => UploadTypeOK /\ Positions
    BY <1>3, UploadTypeInit
  <1>2. UploadTypeOK /\ Positions /\ [UploadNext]_uploadvars => (UploadTypeOK /\ Positions)'
    <2> SUFFICES ASSUME UploadTypeOK, Positions, [UploadNext]_uploadvars PROVE UploadTypeOK' /\ Positions'
      OBVIOUS
    <2>1. CASE UploadNext
      BY <1>3, <2>1, UploadTypeStep, PositionsNext
    <2>2. CASE UNCHANGED uploadvars
      <3>1. UNCHANGED <<host, line, target, bounds>>
        BY <2>2 DEF uploadvars
      <3>2. UploadTypeOK'
        BY <3>1, TypeParts, TypeKept
      <3>3. Positions'
        BY <3>1 DEF host, bounds, Positions, Open, AtEnd, ThisLine
      <3> QED
        BY <3>2, <3>3
    <2> QED
      BY <2>1, <2>2
  <1> QED
    BY <1>1, <1>2, PTL DEF UploadSpec


-----------------------------------------------------------------------------
\* A session with handshake.

\* A calm session of a tool that waits for answers, with a file from objcopy.
Session == /\ UploadTypeOK /\ Positions /\ Booted /\ Objcopied(file)
           /\ Open /\ opt.patient /\ ~opt.nowait
\* What the tool keeps when it does nothing.
SameHost == UNCHANGED <<file, opt, hpc, pos>>

\* The line that is written.
LEMMA GoodLine ==
    ASSUME UploadTypeOK, Objcopied(file), ~AtEnd
    PROVE  /\ ThisLine \in Seq(Symbol) /\ ThisLine # <<>> /\ Len(ThisLine) \in Nat \ {0}
           /\ WellFormed(ThisLine)
           /\ pos[1] \in 1..Len(file) /\ pos[1] \in Nat /\ Len(file) \in Nat
           /\ pos = <<pos[1], pos[2]>> /\ pos[2] \in Nat
           /\ \A i \in 1..Len(ThisLine) :
                  /\ ThisLine[i] \in Symbol /\ ThisLine[i].val \in Nat
                  /\ ThisLine[i] # None
PROOF
  <1>1. pos \in (Nat \ {0}) \X (Nat \ {0}) /\ file \in Seq(Seq(Symbol) \ {<<>>})
    BY DEF UploadTypeOK
  <1>2. pos[1] \in 1..Len(file) /\ pos[1] \in DOMAIN file /\ Len(file) \in Nat
        /\ pos = <<pos[1], pos[2]>> /\ pos[2] \in Nat
    BY <1>1 DEF AtEnd
  <1>3. ThisLine \in Seq(Symbol) /\ ThisLine # <<>> /\ Len(ThisLine) \in Nat \ {0}
    BY <1>1, <1>2 DEF ThisLine
  <1>4. WellFormed(ThisLine)
    BY <1>2 DEF Objcopied, ThisLine
  <1>5. ASSUME NEW i \in 1..Len(ThisLine)
        PROVE  ThisLine[i] \in Symbol /\ ThisLine[i].val \in Nat /\ ThisLine[i] # None
    <2>1. ThisLine[i] \in Symbol
      BY <1>3
    <2>2. ThisLine[i].val \in Nat
      BY <2>1 DEF Symbol
    <2>3. ThisLine[i].ch # "none"
      <3>1. CASE ThisLine = <<nl>>
        <4>1. ThisLine[i] = nl
          BY <3>1
        <4> QED
          BY <4>1, CharSymbols
      <3>2. CASE ThisLine # <<nl>>
        <4>1. /\ ThisLine[1] = Ch("S") /\ ThisLine[Len(ThisLine)] = nl
              /\ \A j \in 2..Len(ThisLine) - 1 :
                     ThisLine[j].ch \notin {"nl", "none", "J", "#"}
          BY <1>4, <3>2 DEF WellFormed
        <4>2. i = 1 \/ i = Len(ThisLine) \/ i \in 2..Len(ThisLine) - 1
          BY <1>3
        <4>3. Ch("S").ch = "S" /\ nl.ch = "nl"
          BY DEF Ch, nl
        <4> QED
          BY <4>1, <4>2, <4>3
      <3> QED
        BY <3>1, <3>2
    <2> QED
      BY <2>1, <2>2, <2>3, CharSymbols
  <1> QED
    BY <1>2, <1>3, <1>4, <1>5

\* A record, symbol for symbol.
LEMMA GoodRecord ==
    ASSUME UploadTypeOK, Objcopied(file), ~AtEnd, ThisLine # <<nl>>
    PROVE  LET l == ThisLine IN
           /\ Len(l) >= 3 /\ l[1] = Ch("S") /\ l[Len(l)] = nl
           /\ \A i \in 2..Len(l) - 1 : l[i] # nl
           /\ HasAddress(l) => Len(l) > 4 + DataBytes(l) /\ l[4].ch = "hex"
           /\ DataBytes(l) \in 0..254
           /\ l[2].ch \in Data =>
                  /\ l[2].ch \notin Start
                  /\ l[3].ch = "hex" /\ l[3].val >= Overhead[l[2].ch]
                  /\ DataBytes(l) = l[3].val - Overhead[l[2].ch]
                  /\ \A i \in 4..4 + DataBytes(l) : l[i].ch = "hex"
                  /\ \A i \in 1..DataBytes(l) : l[4].val + i - 1 \in Addr
           /\ l[2].ch \in Start => DataBytes(l) = 0
PROOF
  <1> DEFINE l == ThisLine
  <1>1. WellFormed(l) /\ Len(l) \in Nat /\ \A i \in 1..Len(l) : l[i].val \in Nat
    BY GoodLine
  <1>2. /\ Len(l) >= 3 /\ l[1] = Ch("S") /\ l[Len(l)] = nl
        /\ \A i \in 2..Len(l) - 1 : l[i].ch \notin {"nl", "none", "J", "#"}
        /\ l[2].ch \in Data =>
               /\ l[3].ch = "hex" /\ l[3].val \in Overhead[l[2].ch]..255
               /\ Len(l) > 4 + DataBytes(l)
               /\ \A i \in 4..4 + DataBytes(l) : l[i].ch = "hex"
               /\ \A i \in 1..DataBytes(l) : l[4].val + i - 1 \in Addr
        /\ l[2].ch \in Start => Len(l) > 4 /\ l[4].ch = "hex"
    BY <1>1 DEF WellFormed
  <1>3. \A i \in 2..Len(l) - 1 : l[i] # nl
    BY <1>2, CharSymbols
  <1>4. \A t \in Data : Overhead[t] \in 3..5 /\ t \notin Start
    BY DEF Data, Overhead, Start
  <1>5. l[2].ch \in Data =>
            DataBytes(l) = l[3].val - Overhead[l[2].ch] /\ DataBytes(l) \in 0..254
    <2> SUFFICES ASSUME l[2].ch \in Data
                 PROVE  DataBytes(l) = l[3].val - Overhead[l[2].ch] /\ DataBytes(l) \in 0..254
      OBVIOUS
    <2>1. DataBytes(l) = l[3].val - Overhead[l[2].ch]
      BY DEF DataBytes
    <2>2. Overhead[l[2].ch] \in 3..5 /\ l[3].val \in Overhead[l[2].ch]..255
      BY <1>2, <1>4
    <2> QED
      BY <2>1, <2>2
  <1>6. l[2].ch \notin Data => DataBytes(l) = 0
    BY DEF DataBytes
  <1>7. DataBytes(l) \in 0..254
    BY <1>5, <1>6
  <1>8. HasAddress(l) => Len(l) > 4 + DataBytes(l) /\ l[4].ch = "hex"
    <2>1. CASE l[2].ch \in Data
      <3>1. 4 \in 4..4 + DataBytes(l)
        BY <1>7
      <3> QED
        BY <1>2, <2>1, <3>1
    <2>2. CASE l[2].ch \notin Data
      BY <1>1, <1>2, <1>6, <2>2 DEF HasAddress
    <2> QED
      BY <2>1, <2>2
  <1> HIDE DEF l
  <1>9. l[2].ch \in Data => l[3].val >= Overhead[l[2].ch]
    <2> SUFFICES ASSUME l[2].ch \in Data PROVE l[3].val >= Overhead[l[2].ch]
      OBVIOUS
    <2>1. Overhead[l[2].ch] \in 3..5 /\ l[3].val \in Overhead[l[2].ch]..255
      BY <1>2, <1>4
    <2> QED
      BY <2>1
  <1>10. l[2].ch \in Start => DataBytes(l) = 0
    BY <1>4, <1>6
  <1> QED
    BY <1>2, <1>3, <1>4, <1>5, <1>7, <1>8, <1>9, <1>10 DEF l


\* A symbol arrives: it is the next one of the line.
LEMMA FlyingArrives ==
    ASSUME UploadTypeOK, NEW l \in Seq(Symbol), NEW k \in Nat, NEW w \in 0..Len(l),
           Flying(l, k, w),
           held = None, toTarget # <<>>, \A i \in 1..Len(l) : l[i] # None,
           held' = Head(toTarget), toTarget' = Tail(toTarget)
    PROVE  Flying(l, k, w)'
PROOF
  <1>1. toTarget \in Seq(Symbol) /\ Len(toTarget) \in Nat \ {0} /\ Len(l) \in Nat
    BY SMTT(30) DEF UploadTypeOK
  <1>2. k + Len(toTarget) = w /\ \A i \in 1..Len(toTarget) : toTarget[i] = l[k + i]
    <2>1. \A i \in 1..Len(toTarget) : k + 0 + i = k + i
      BY <1>1
    <2> QED
      BY <1>1, <2>1 DEF Flying
  <1>3. held' = l[k + 1] /\ held' # None
    <2>1. 1 \in 1..Len(toTarget) /\ k + 1 \in 1..Len(l)
      BY <1>1, <1>2
    <2>2. Head(toTarget) = toTarget[1]
      BY <1>1
    <2> QED
      BY <1>2, <2>1, <2>2
  <1>4. Len(toTarget') = Len(toTarget) - 1 /\ k + 1 + Len(toTarget') = w
    <2>1. Len(toTarget') = Len(toTarget) - 1
      BY <1>1
    <2>2. PICK m \in Nat \ {0} : m = Len(toTarget)
      BY <1>1
    <2>3. PICK n : n = Len(toTarget')
      OBVIOUS
    <2>4. k + 1 + n = w
      BY <1>2, <2>1, <2>2, <2>3
    <2> QED
      BY <2>1, <2>3, <2>4
  <1>5. ASSUME NEW i \in 1..Len(toTarget') PROVE toTarget'[i] = l[k + 1 + i]
    <2>1. i + 1 \in 1..Len(toTarget) /\ k + (i + 1) = k + 1 + i
      BY <1>1, <1>4
    <2>2. toTarget'[i] = toTarget[i + 1]
      BY <1>1, <1>4, <1>5
    <2> QED
      BY <1>2, <2>1, <2>2
  <1> QED
    BY <1>3, <1>4, <1>5 DEF Flying

\* The bootloader takes a symbol: it is the next one of the line.
LEMMA FlyingTaken ==
    ASSUME UploadTypeOK, NEW l \in Seq(Symbol), NEW k \in Nat, NEW w \in 0..Len(l),
           Flying(l, k, w),
           held # None, held' = None, toTarget' = toTarget
    PROVE  Flying(l, k + 1, w)' /\ held = l[k + 1] /\ k + 1 <= w
PROOF
  <1>1. toTarget \in Seq(Symbol) /\ Len(toTarget) \in Nat /\ Len(l) \in Nat
    BY SMTT(30) DEF UploadTypeOK
  <1>2. /\ k + 1 + Len(toTarget) = w /\ held = l[k + 1]
        /\ \A i \in 1..Len(toTarget) : toTarget[i] = l[k + 1 + i]
    BY DEF Flying
  <1>3. \A i \in 1..Len(toTarget) : k + 1 + 0 + i = k + 1 + i
    BY <1>1
  <1>4. k + 1 + 0 + Len(toTarget) = w
    BY <1>1, <1>2
  <1> QED
    BY <1>1, <1>2, <1>3, <1>4 DEF Flying

\* The tool writes the next symbol of the line.
LEMMA FlyingWritten ==
    ASSUME UploadTypeOK, NEW l \in Seq(Symbol), NEW k \in Nat, NEW w \in 0..Len(l) - 1,
           Flying(l, k, w), toTarget' = Append(toTarget, l[w + 1]), held' = held
    PROVE  Flying(l, k, w + 1)'
PROOF
  <1>8. PICK r \in 0..1 : r = IF held = None THEN 0 ELSE 1
    OBVIOUS
  <1>9. toTarget \in Seq(Symbol)
    BY DEF UploadTypeOK
  <1>1. toTarget \in Seq(Symbol) /\ Len(toTarget) \in Nat /\ Len(l) \in Nat /\ r \in 0..1
    BY <1>9
  <1>2. /\ k + r + Len(toTarget) = w /\ (held # None => held = l[k + 1])
        /\ \A i \in 1..Len(toTarget) : toTarget[i] = l[k + r + i]
    BY <1>8 DEF Flying
  <1>3. l[w + 1] \in Symbol
    BY <1>1
  <1>4. Len(toTarget') = Len(toTarget) + 1
    BY <1>1, <1>3
  <1>5. ASSUME NEW i \in 1..Len(toTarget') PROVE toTarget'[i] = l[k + r + i]
    <2>1. CASE i = Len(toTarget) + 1
      BY <1>1, <1>2, <1>3, <2>1
    <2>2. CASE i # Len(toTarget) + 1
      <3>1. i \in 1..Len(toTarget)
        BY <1>1, <1>4, <2>2
      <3>2. toTarget'[i] = toTarget[i]
        BY <1>1, <1>3, <3>1
      <3> QED
        BY <1>2, <3>1, <3>2
    <2> QED
      BY <2>1, <2>2
  <1>6. k + r + Len(toTarget') = w + 1
    <2>1. PICK m \in Nat : m = Len(toTarget)
      BY <1>1
    <2> QED
      BY <1>2, <1>4, <2>1
  <1>7. (IF held' = None THEN 0 ELSE 1) = r
    BY <1>8
  <1> QED
    BY <1>2, <1>5, <1>6, <1>7 DEF Flying

\* The sequences of symbols that are on their way to the tool.
LEMMA Ways ==
    LET q == Ch("?") IN
    /\ q \in Symbol /\ nl \in Symbol /\ q # nl /\ Ch(">") \in Symbol
    /\ <<nl>> # <<>> /\ <<q>> # <<>> /\ <<q, nl>> # <<>> /\ <<nl, Ch(">")>> # <<>>
    /\ Head(<<nl>>) = nl /\ Tail(<<nl>>) = <<>>
    /\ Head(<<q>>) = q /\ Tail(<<q>>) = <<>>
    /\ Head(<<q, nl>>) = q /\ Tail(<<q, nl>>) = <<nl>>
    /\ Head(<<nl, Ch(">")>>) = nl /\ Tail(<<nl, Ch(">")>>) = Prompt
    /\ Append(<<>>, nl) = <<nl>> /\ Append(<<>>, q) = <<q>>
    /\ Append(<<q>>, nl) = <<q, nl>>
    /\ Head(Prompt) = Ch(">") /\ Tail(Prompt) = <<>> /\ Prompt # <<>>
    /\ Append(<<nl>>, Ch(">")) = <<nl, Ch(">")>>
PROOF
  <1> DEFINE q == Ch("?")
             p == Ch(">")
  <1>1. q \in Symbol /\ nl \in Symbol /\ q # nl /\ p \in Symbol
    BY CharSymbols DEF Character, Ch, nl
  <1>2. Prompt = <<p>>
    BY DEF Prompt
  <1> HIDE DEF q, p
  <1>3. /\ <<nl>> # <<>> /\ <<q>> # <<>> /\ <<q, nl>> # <<>> /\ <<nl, p>> # <<>>
        /\ <<p>> # <<>>
    OBVIOUS
  <1>4. /\ Head(<<nl>>) = nl /\ Head(<<q>>) = q /\ Head(<<q, nl>>) = q
        /\ Head(<<nl, p>>) = nl /\ Head(<<p>>) = p
    OBVIOUS
  <1>5. \A a \in Symbol : Tail(<<a>>) = <<>>
    OBVIOUS
  <1>6. ASSUME NEW a \in Symbol, NEW b \in Symbol
        PROVE  Tail(<<a, b>>) = <<b>>
    <2>1. Tail(<<a, b>>) \in Seq(Symbol) /\ Len(Tail(<<a, b>>)) = 1
      OBVIOUS
    <2>2. Tail(<<a, b>>)[1] = b
      OBVIOUS
    <2>3. <<b>> \in Seq(Symbol) /\ Len(<<b>>) = 1 /\ <<b>>[1] = b
      OBVIOUS
    <2> QED
      BY <2>1, <2>2, <2>3, SeqEqual
  <1>7. \A a \in Symbol : Append(<<>>, a) = <<a>>
    OBVIOUS
  <1>8. ASSUME NEW a \in Symbol, NEW b \in Symbol
        PROVE  Append(<<a>>, b) = <<a, b>>
    <2>1. <<a>> \in Seq(Symbol)
      OBVIOUS
    <2> QED
      BY <2>1, AppendIsConcat, TwoSymbols
  <1> QED
    BY <1>1, <1>2, <1>3, <1>4, <1>5, <1>6, <1>7, <1>8 DEF q, p


\* The line is being written, up to symbol w.
Upto(w) == \/ hpc = "send" /\ ~AtEnd /\ w = pos[2] - 1
           \/ hpc = "answer" /\ w = Len(ThisLine)
\* The target has taken k symbols of it.
Within(w, k) == /\ Upto(w) /\ Loaded(pos[1] - 1) /\ ~noresponse /\ Way(<<>>, <<>>)
                /\ k \in 0..Len(ThisLine) - 1 /\ Flying(ThisLine, k, w)
                /\ Place(ThisLine, k) /\ Patched(ThisLine, k)

\* Writing and waiting are the same to the target.
LEMMA WithinLine ==
    ASSUME UploadTypeOK, Positions, NEW w, NEW k, Within(w, k)
    PROVE  (Writing \/ LineOut) /\ ~AtEnd /\ w \in 0..Len(ThisLine)
PROOF
  <1>1. ~AtEnd
    BY DEF Within, Upto, Positions
  <1>2. pos[2] \in Nat \ {0} /\ Len(ThisLine) \in Nat
    <2>1. pos \in (Nat \ {0}) \X (Nat \ {0}) /\ file \in Seq(Seq(Symbol) \ {<<>>})
      BY DEF UploadTypeOK
    <2>2. pos[1] \in 1..Len(file)
      BY <1>1, <2>1 DEF AtEnd
    <2>3. ThisLine \in Seq(Symbol)
      BY <2>1, <2>2 DEF ThisLine
    <2> QED
      BY <2>1, <2>3
  <1>3. Reading(ThisLine, w) /\ Loaded(pos[1] - 1)
    BY DEF Within, Reading
  <1>4. CASE hpc = "send" /\ w = pos[2] - 1
    BY <1>1, <1>2, <1>3, <1>4 DEF Writing, Positions
  <1>5. CASE hpc = "answer" /\ w = Len(ThisLine)
    BY <1>1, <1>2, <1>3, <1>5 DEF LineOut
  <1> QED
    BY <1>1, <1>4, <1>5 DEF Within, Upto

\* The stages of a session by what is on its way to the target.
LEMMA Stages ==
    ASSUME Session, Handshaking
    PROVE  \/ Calling \/ Met \/ Meeting \/ Answered \/ Marking \/ Leaving
           \/ Writing /\ AtEnd
           \/ \E w, k : Within(w, k)
PROOF
  <1>1. CASE Writing /\ ~AtEnd
    <2>1. PICK k \in 0..Len(ThisLine) - 1 :
              /\ Flying(ThisLine, k, pos[2] - 1)
              /\ Place(ThisLine, k) /\ Patched(ThisLine, k)
      BY <1>1 DEF Writing, Reading
    <2>2. Within(pos[2] - 1, k)
      BY <1>1, <2>1 DEF Within, Upto, Writing, Reading
    <2> QED
      BY <2>2
  <1>2. CASE LineOut
    <2>1. PICK k \in 0..Len(ThisLine) - 1 :
              /\ Flying(ThisLine, k, Len(ThisLine))
              /\ Place(ThisLine, k) /\ Patched(ThisLine, k)
      BY <1>2 DEF LineOut, Reading
    <2>2. Within(Len(ThisLine), k)
      BY <1>2, <2>1 DEF Within, Upto, LineOut, Reading
    <2> QED
      BY <2>2
  <1> QED
    BY <1>1, <1>2 DEF Handshaking

\* The bootloader does something while symbols of a line are on their way.
LEMMA WithinNext ==
    ASSUME UploadTypeOK', Positions', SameHost, NEW w, Upto(w), Loaded(pos[1] - 1)',
           ~noresponse', Way(<<>>, <<>>)', NEW k, k \in 0..Len(ThisLine) - 1,
           Flying(ThisLine, k, w)', Place(ThisLine, k)', Patched(ThisLine, k)'
    PROVE  Handshaking'
PROOF
  <1>1. UNCHANGED <<file, hpc, pos>>
    BY DEF SameHost
  <1>2. ThisLine' = ThisLine /\ Upto(w)' /\ AtEnd' = AtEnd
    BY <1>1 DEF ThisLine, Upto, AtEnd
  <1>3. Within(w, k)'
    BY <1>2 DEF Within
  <1>4. CASE hpc = "send" /\ w = pos[2] - 1 /\ ~AtEnd
    BY <1>1, <1>2, <1>3, <1>4 DEF Within, Writing, Reading, Handshaking
  <1>5. CASE hpc = "answer" /\ w = Len(ThisLine)
    BY <1>1, <1>2, <1>3, <1>5 DEF Within, LineOut, Reading, Handshaking
  <1> QED
    BY <1>4, <1>5 DEF Upto

\* What stays in memory, stays loaded.
LEMMA StaysLoaded ==
    ASSUME UNCHANGED <<file, mem, entry>>
    PROVE  /\ \A n : Loaded(n)' <=> Loaded(n)
           /\ \A l, k : Patched(l, k)' <=> Patched(l, k)
PROOF
  BY DEF Loaded, IsStored, Patched

\* A symbol arrives at the target.
LEMMA HandshakeArrive ==
    ASSUME Session, Handshaking, Arrive, UploadTypeOK', Positions'
    PROVE  Handshaking'
PROOF
  <1>1. /\ toTarget # <<>> /\ toTarget' = Tail(toTarget)
        /\ held' = IF tpc \in {"app", "hung"} THEN None ELSE Head(toTarget)
        /\ tout = <<>> => held = None
        /\ UNCHANGED <<toHost, file, opt, hpc, pos, tpc, tout, par, mem, entry, noresponse>>
    BY DEF Arrive, host, target, state
  <1>2. (\A n : Loaded(n)' <=> Loaded(n)) /\ \A l, k : Patched(l, k)' <=> Patched(l, k)
    BY <1>1, StaysLoaded
  <1>3. SameHost /\ (Listening' <=> Listening) /\ \A a, b : Way(a, b)' <=> Way(a, b)
    BY <1>1 DEF SameHost, Listening, Way
  <1>4. ASSUME NEW c \in Symbol, Carries(c), c # None, tout = <<>>, tpc \notin {"app", "hung"}
        PROVE  Carries(c)'
    <2>1. held = None /\ toTarget = <<c>>
      BY <1>1, <1>4 DEF Carries
    <2>2. Head(toTarget) = c /\ Tail(toTarget) = <<>>
      BY <2>1
    <2> QED
      BY <1>1, <1>4, <2>2 DEF Carries
  <1>5. /\ Ch("!") \in Symbol /\ Ch("!") # None
        /\ Ch("J") \in Symbol /\ Ch("J") # None
        /\ Ch("#") \in Symbol /\ Ch("#") # None
    BY CharSymbols DEF Character, Ch, None
  <1>6. CASE Calling
    <2>1. tout = <<>>
      BY <1>6 DEF Calling, Way
    <2>2. CASE (tpc = "prompt" \/ Listening) /\ Carries(Ch("!"))
      BY <1>1, <1>3, <1>4, <1>5, <1>6, <2>1, <2>2 DEF Calling, Listening, Handshaking
    <2>3. CASE tpc = "app" /\ held = None
      BY <1>1, <1>3, <1>6, <2>3 DEF Calling, Handshaking
    <2> QED
      BY <1>6, <2>2, <2>3 DEF Calling
  <1>7. CASE Marking
    BY <1>1, <1>2, <1>3, <1>4, <1>5, <1>7 DEF Marking, Listening, Way, Handshaking
  <1>8. CASE Met \/ Meeting \/ Answered \/ Leaving \/ (Writing /\ AtEnd)
    BY <1>1, <1>8 DEF Met, Meeting, Answered, Leaving, Writing, Clear
  <1>9. ASSUME NEW w, NEW k, Within(w, k) PROVE Handshaking'
    <2>1. ~AtEnd /\ w \in 0..Len(ThisLine)
      BY <1>9, WithinLine DEF Session
    <2>2. /\ ThisLine \in Seq(Symbol) /\ Len(ThisLine) \in Nat
          /\ \A i \in 1..Len(ThisLine) : ThisLine[i] # None
      BY <2>1, GoodLine DEF Session
    <2>3. /\ k \in 0..Len(ThisLine) - 1 /\ Flying(ThisLine, k, w) /\ Place(ThisLine, k)
          /\ Patched(ThisLine, k) /\ Loaded(pos[1] - 1) /\ Way(<<>>, <<>>) /\ ~noresponse
          /\ Upto(w)
      BY <1>9 DEF Within
    <2>4. tpc \notin {"app", "hung"}
      BY <2>2, <2>3 DEF Place, HasAddress
    <2>5. held = None /\ held' = Head(toTarget) /\ ThisLine' = ThisLine
      BY <1>1, <2>3, <2>4 DEF Way, ThisLine
    <2>6. Flying(ThisLine, k, w)'
      <3>1. PICK l \in Seq(Symbol) : l = ThisLine
        BY <2>2
      <3>2. Flying(l, k, w)'
        BY <1>1, <2>1, <2>2, <2>3, <2>5, <3>1, FlyingArrives DEF Session
      <3> QED
        BY <2>5, <3>1, <3>2
    <2>7. Place(ThisLine, k)' /\ Patched(ThisLine, k)'
      BY <1>1, <1>2, <2>3, <2>5 DEF Place
    <2>8. Loaded(pos[1] - 1)' /\ Way(<<>>, <<>>)' /\ ~noresponse'
      BY <1>1, <1>2, <1>3, <2>3
    <2> QED
      BY <1>3, <2>3, <2>6, <2>7, <2>8, WithinNext
  <1> QED
    BY <1>6, <1>7, <1>8, <1>9, Stages

\* The target sends a symbol of what it prints: it is on its way.
LEMMA SentWays ==
    ASSUME Sent, Open
    PROVE  /\ tout # <<>> /\ tout' = Tail(tout) /\ toHost' = Append(toHost, Head(tout))
           /\ AnswerComes => AnswerComes'
           /\ NewlineComes => NewlineComes'
           /\ Way(<<>>, <<nl, Ch(">")>>) => Way(<<nl>>, Prompt)'
           /\ Way(<<nl>>, Prompt) => Way(<<nl, Ch(">")>>, <<>>)'
PROOF
  <1>1. tout # <<>> /\ tout' = Tail(tout) /\ toHost' = Append(toHost, Head(tout))
    BY DEF Sent
  <1>2. Way(<<>>, <<Ch("?"), nl>>) => Way(<<Ch("?")>>, <<nl>>)'
    BY <1>1, Ways DEF Way
  <1>3. Way(<<Ch("?")>>, <<nl>>) => Way(<<Ch("?"), nl>>, <<>>)'
    BY <1>1, Ways DEF Way
  <1>4. Way(<<>>, <<nl>>) => Way(<<nl>>, <<>>)'
    BY <1>1, Ways DEF Way
  <1>5. Way(<<>>, <<nl, Ch(">")>>) => Way(<<nl>>, Prompt)'
    BY <1>1, Ways DEF Way, Prompt
  <1>6. Way(<<nl>>, Prompt) => Way(<<nl, Ch(">")>>, <<>>)'
    BY <1>1, Ways DEF Way, Prompt
  <1>7. ~Way(<<Ch("?"), nl>>, <<>>) /\ ~Way(<<nl>>, <<>>)
    BY <1>1 DEF Way
  <1>8. AnswerComes => AnswerComes'
    BY <1>2, <1>3, <1>7 DEF AnswerComes
  <1>9. NewlineComes => NewlineComes'
    BY <1>4, <1>7 DEF NewlineComes
  <1> QED
    BY <1>1, <1>5, <1>6, <1>8, <1>9

\* The target sends a symbol.
LEMMA HandshakeSent ==
    ASSUME Session, Handshaking, Sent
    PROVE  Handshaking'
PROOF
  <1>1. UNCHANGED <<file, opt, hpc, pos, toTarget, held, tpc, par, mem, entry, noresponse>>
    BY DEF Sent, host, state
  <1>2. /\ tout # <<>> /\ (AnswerComes => AnswerComes') /\ (NewlineComes => NewlineComes')
        /\ Way(<<>>, <<nl, Ch(">")>>) => Way(<<nl>>, Prompt)'
        /\ Way(<<nl>>, Prompt) => Way(<<nl, Ch(">")>>, <<>>)'
    BY SentWays DEF Session
  <1>3. ~Way(<<>>, <<>>) /\ ~Way(<<nl, Ch(">")>>, <<>>)
    BY <1>2 DEF Way
  <1>4. \A n : Loaded(n)' <=> Loaded(n)
    BY <1>1, StaysLoaded
  <1>5. (Clear' <=> Clear) /\ (Listening' <=> Listening)
    BY <1>1 DEF Clear, Listening
  <1>6. CASE Met
    BY <1>1, <1>2, <1>5, <1>6 DEF Met, Handshaking
  <1>7. CASE Meeting
    BY <1>1, <1>2, <1>5, <1>7 DEF Meeting, Handshaking
  <1>8. CASE Answered
    BY <1>1, <1>2, <1>4, <1>5, <1>8 DEF Answered, Handshaking
  <1>9. CASE Leaving
    <2>1. <<nl>> \o Prompt = <<nl, Ch(">")>>
      BY Printed DEF Session, UploadTypeOK
    <2>2. hpc' = "final" /\ Loaded(Len(file))' /\ Clear'
      BY <1>1, <1>4, <1>5, <1>9 DEF Leaving
    <2>3. CASE opt.jump
      <3>1. tpc = "start" /\ (AnswerComes \/ NewlineComes)
        BY <1>2, <1>9, <2>3 DEF Leaving
      <3> QED
        BY <1>1, <1>2, <2>2, <2>3, <3>1 DEF Leaving, Handshaking
    <2>4. CASE ~opt.jump
      <3>1. tpc = "monitor" /\ (Way(<<>>, <<nl, Ch(">")>>) \/ Way(<<nl>>, Prompt))
        BY <1>3, <1>9, <2>1, <2>4 DEF Leaving
      <3> QED
        BY <1>1, <1>2, <2>1, <2>2, <2>4, <3>1 DEF Leaving, Handshaking
    <2> QED
      BY <2>3, <2>4
  <1>10. CASE Calling \/ Marking \/ (Writing /\ AtEnd) \/ \E w, k : Within(w, k)
    BY <1>3, <1>10 DEF Calling, Marking, Writing, Within
  <1> QED
    BY <1>6, <1>7, <1>8, <1>9, <1>10, Stages

\* The tool comes to a line, or to the end of the file.
LEMMA LineStarts ==
    ASSUME UploadTypeOK', hpc' = "send", pos'[2] = 1, Loaded(pos[1] - 1)', Clear', Listening',
           Way(<<>>, <<>>)', Objcopied(file)'
    PROVE  Handshaking'
PROOF
  <1>1. CASE AtEnd'
    BY <1>1 DEF Writing, Handshaking
  <1>2. CASE ~AtEnd'
    <2>1. pos' \in (Nat \ {0}) \X (Nat \ {0}) /\ file' \in Seq(Seq(Symbol) \ {<<>>})
      BY DEF UploadTypeOK
    <2>2. pos'[1] \in 1..Len(file')
      BY <1>2, <2>1 DEF AtEnd
    <2>3. PICK l \in Seq(Symbol) : l = file'[pos'[1]] /\ l # <<>>
      BY <2>1, <2>2
    <2>4. 0 \in 0..Len(l) - 1
      BY <2>3
    <2>5. Flying(l, 0, 0)'
      BY DEF Flying, Clear
    <2>6. Place(l, 0)'
      BY DEF Place, Listening
    <2>7. Patched(l, 0)'
      <3>1. \A i \in 1..DataBytes(l) : ~(i + 4 <= 0)
        OBVIOUS
      <3> QED
        BY <3>1 DEF Patched
    <2>8. Reading(l, 0)'
      BY <2>4, <2>5, <2>6, <2>7 DEF Reading, Listening
    <2>9. Reading(ThisLine, pos[2] - 1)'
      <3>1. pos'[2] - 1 = 0 /\ ThisLine' = l
        BY <2>3 DEF ThisLine
      <3> QED
        BY <2>8, <3>1
    <2> QED
      BY <1>2, <2>9 DEF Writing, Handshaking
  <1> QED
    BY <1>1, <1>2

\* Nothing is on its way only when the tool has given up, or the target is
\* silent: in a session with handshake that is after the window alone.
LEMMA HandshakeSilent ==
    ASSUME Session, Handshaking, MayTimeOut, hpc \in {"contact", "residue", "answer", "final"}
    PROVE  hpc = "contact" /\ tpc = "app"
PROOF
  <1>1. /\ toHost = <<>> /\ toTarget = <<>> /\ tout = <<>> /\ held = None
        /\ tpc \notin {"greet", "prompt", "start"}
    BY DEF MayTimeOut, Silent, Session
  <1>2. ~AnswerComes /\ ~NewlineComes
    BY <1>1, Ways DEF AnswerComes, NewlineComes, Way
  <1>3. \A c \in Symbol : c # None => ~Carries(c)
    BY <1>1 DEF Carries
  <1>4. /\ Ch("!") \in Symbol /\ Ch("!") # None
        /\ Ch("J") \in Symbol /\ Ch("J") # None
        /\ Ch("#") \in Symbol /\ Ch("#") # None
    BY CharSymbols DEF Character, Ch, None
  <1>5. CASE Calling
    BY <1>1, <1>3, <1>4, <1>5 DEF Calling
  <1>6. CASE Met \/ Meeting \/ Answered
    BY <1>2, <1>6 DEF Met, Meeting, Answered
  <1>7. CASE Marking
    BY <1>3, <1>4, <1>7 DEF Marking
  <1>8. CASE Leaving
    <2>1. <<nl>> \o Prompt # <<>> /\ <<nl>> # <<>>
      <3>1. <<nl>> \o Prompt = <<nl, Ch(">")>>
        BY Printed DEF Session, UploadTypeOK
      <3> QED
        BY <3>1, Ways
    <2>2. /\ ~Way(<<>>, <<nl>> \o Prompt) /\ ~Way(<<nl>>, Prompt)
          /\ ~Way(<<nl>> \o Prompt, <<>>)
      BY <1>1, <2>1 DEF Way
    <2> QED
      BY <1>2, <1>8, <2>2 DEF Leaving
  <1>9. CASE Writing /\ AtEnd
    BY <1>9 DEF Writing
  <1>10. ASSUME NEW w, NEW k, Within(w, k) PROVE FALSE
    <2>1. hpc = "answer" /\ w = Len(ThisLine)
      BY <1>10 DEF Within, Upto
    <2>2. k \in 0..Len(ThisLine) - 1 /\ Flying(ThisLine, k, w) /\ ~AtEnd
      BY <1>10, WithinLine DEF Within, Session
    <2>3. Len(ThisLine) \in Nat
      BY <2>2, GoodLine DEF Session
    <2>4. k + 0 + Len(toTarget) = w /\ Len(toTarget) = 0
      BY <1>1, <2>2 DEF Flying
    <2> QED
      BY <2>1, <2>2, <2>3, <2>4
  <1> QED
    BY <1>5, <1>6, <1>7, <1>8, <1>9, <1>10, Stages

\* The tool has contact.
LEMMA HandshakeContact ==
    ASSUME Session, Handshaking, HostContact, Open'
    PROVE  Handshaking'
PROOF
  <1>1. /\ hpc = "contact" /\ toHost # <<>> /\ toHost' = Tail(toHost) /\ hpc' = "residue"
        /\ UNCHANGED <<toTarget, held, tout, tpc, noresponse>>
    BY DEF HostContact, Exit, Open, target, state
  <1>2. CASE Calling
    BY <1>1, <1>2 DEF Calling, Way
  <1>3. CASE Met
    <2>1. Way(<<Ch("?")>>, <<nl>>) \/ Way(<<Ch("?"), nl>>, <<>>)
      BY <1>1, <1>3 DEF Met, AnswerComes, Way
    <2>2. Way(<<>>, <<nl>>)' \/ Way(<<nl>>, <<>>)'
      BY <1>1, <2>1, Ways DEF Way
    <2> QED
      BY <1>1, <1>3, <2>2 DEF Met, Meeting, NewlineComes, Clear, Listening, Handshaking
  <1> QED
    BY <1>1, <1>2, <1>3 DEF Handshaking, Meeting, Writing, LineOut, Answered, Marking,
                            Leaving

\* The tool has read what was left of the answer to its key.
LEMMA HandshakeResidue ==
    ASSUME Session, Handshaking, HostResidue, UploadTypeOK'
    PROVE  Handshaking'
PROOF
  <1>1. /\ hpc = "residue" /\ (toHost # <<>> \/ MayTimeOut) /\ hpc' = "send"
        /\ toHost' = SubSeq(toHost, 6, Len(toHost))
        /\ UNCHANGED <<file, opt, pos, toTarget, held, tout, tpc, noresponse>>
    BY DEF HostResidue, target, state
  <1>2. Clear /\ Listening /\ NewlineComes
    BY <1>1 DEF Handshaking, Calling, Met, Meeting, Writing, LineOut, Answered, Marking,
                Leaving
  <1>3. toHost # <<>>
    BY <1>1, HandshakeSilent
  <1>4. toHost = <<nl>> /\ tout = <<>>
    BY <1>2, <1>3 DEF NewlineComes, Way
  <1>5. toHost' = <<>>
    <2>1. <<nl>> \in Seq(Symbol) /\ Len(<<nl>>) = 1
      BY Ways
    <2> QED
      BY <1>1, <1>4, <2>1, SubSeqEmpty
  <1>6. pos' = <<1, 1>> /\ Clear' /\ Listening' /\ Way(<<>>, <<>>)'
    BY <1>1, <1>2, <1>4, <1>5 DEF Session, Positions, Clear, Listening, Way
  <1>7. Loaded(pos[1] - 1)' /\ pos'[2] = 1
    <2>1. pos'[1] - 1 = 0 /\ pos'[2] = 1
      BY <1>6
    <2> QED
      BY <2>1 DEF Loaded
  <1>8. Objcopied(file)'
    BY <1>1 DEF Session
  <1> QED
    BY <1>1, <1>6, <1>7, <1>8, LineStarts

\* The tool writes a symbol of the line.
LEMMA HandshakeSend ==
    ASSUME Session, Handshaking, HostSend
    PROVE  Handshaking'
PROOF
  <1>1. /\ hpc = "send" /\ ~AtEnd /\ toTarget' = Append(toTarget, ThisLine[pos[2]])
        /\ IF pos[2] < Len(ThisLine)
           THEN pos' = <<pos[1], pos[2] + 1>> /\ hpc' = hpc
           ELSE hpc' = "answer" /\ pos' = pos
        /\ UNCHANGED <<file, opt, toHost, held, tout, tpc, par, mem, entry, noresponse>>
    BY DEF HostSend, Session, ThisLine, target, state
  <1>2. PICK w, k : Within(w, k)
    BY <1>1, Stages DEF Calling, Met, Meeting, Answered, Marking, Leaving
  <1>3. /\ ThisLine \in Seq(Symbol) /\ Len(ThisLine) \in Nat \ {0} /\ pos[1] \in Nat
        /\ pos[2] \in 1..Len(ThisLine) /\ pos = <<pos[1], pos[2]>>
    BY <1>1, GoodLine, NextSymbol DEF Session
  <1>4. /\ w = pos[2] - 1 /\ k \in 0..Len(ThisLine) - 1 /\ Flying(ThisLine, k, w)
        /\ Place(ThisLine, k) /\ Patched(ThisLine, k) /\ Loaded(pos[1] - 1)
        /\ Way(<<>>, <<>>) /\ ~noresponse
    BY <1>1, <1>2 DEF Within, Upto
  <1>5. pos'[1] = pos[1] /\ ThisLine' = ThisLine /\ ~AtEnd'
    BY <1>1, <1>3 DEF ThisLine, AtEnd
  <1>6. PICK l \in Seq(Symbol) : l = ThisLine
    BY <1>3
  <1>7. PICK q \in Nat : q = pos[2]
    BY <1>3
  <1>8. Flying(l, k, q)'
    <2>1. w \in 0..Len(l) - 1 /\ w + 1 = q /\ k \in Nat
      BY <1>3, <1>4, <1>6, <1>7
    <2>2. toTarget' = Append(toTarget, l[w + 1])
      BY <1>1, <1>6, <1>7, <2>1
    <2>3. Flying(l, k, w + 1)'
      BY <1>1, <1>4, <1>6, <2>1, <2>2, FlyingWritten DEF Session
    <2> QED
      BY <2>1, <2>3
  <1>9. Place(l, k)'
    BY <1>1, <1>4, <1>6 DEF Place
  <1>10. Patched(l, k)' /\ Loaded(pos[1] - 1)'
    <2>1. Patched(l, k)'
      BY <1>1, <1>4, <1>6, StaysLoaded
    <2>2. PICK m : m = pos[1] - 1
      OBVIOUS
    <2>3. Loaded(m)'
      BY <1>1, <1>4, <2>2, StaysLoaded
    <2>4. pos'[1] - 1 = m
      BY <1>5, <2>2
    <2> QED
      BY <2>1, <2>3, <2>4
  <1>11. Way(<<>>, <<>>)' /\ ~noresponse' /\ k \in 0..Len(l) - 1
    BY <1>1, <1>4, <1>6 DEF Way
  <1>12. Reading(l, q)'
    BY <1>8, <1>9, <1>10, <1>11 DEF Reading
  <1>13. CASE pos[2] < Len(ThisLine)
    <2>1. pos'[2] - 1 = q /\ hpc' = "send"
      BY <1>1, <1>3, <1>7, <1>13
    <2>2. Reading(ThisLine, pos[2] - 1)'
      BY <1>5, <1>6, <1>12, <2>1
    <2> QED
      BY <1>5, <1>10, <2>1, <2>2 DEF Writing, Handshaking
  <1>14. CASE ~(pos[2] < Len(ThisLine))
    <2>1. q = Len(l) /\ hpc' = "answer"
      BY <1>1, <1>3, <1>6, <1>7, <1>14
    <2>2. Reading(ThisLine, Len(ThisLine))'
      BY <1>5, <1>6, <1>12, <2>1
    <2> QED
      BY <1>10, <2>1, <2>2 DEF LineOut, Handshaking
  <1> QED
    BY <1>13, <1>14

\* The tool reads a symbol of the answer.
LEMMA HandshakeAnswer ==
    ASSUME Session, Handshaking, HostAnswer, Open', UploadTypeOK'
    PROVE  Handshaking'
PROOF
  <1>1. /\ hpc = "answer" /\ toHost # <<>> /\ toHost' = Tail(toHost)
        /\ IF Head(toHost) = nl
           THEN hpc' = "send" /\ pos' = NextLine ELSE UNCHANGED <<hpc, pos>>
        /\ UNCHANGED <<file, opt, toTarget, held, tout, tpc, mem, entry, noresponse>>
    BY DEF HostAnswer, Exit, Open, target, state
  <1>2. Answered
    <2>1. ~LineOut
      BY <1>1 DEF LineOut, Reading, Way
    <2> QED
      BY <1>1, <2>1 DEF Handshaking, Calling, Met, Meeting, Writing, Marking, Leaving
  <1>3. Clear' /\ Listening' /\ \A n : Loaded(n)' <=> Loaded(n)
    BY <1>1, <1>2, StaysLoaded DEF Answered, Clear, Listening
  <1>4. CASE AnswerComes
    <2>1. Way(<<Ch("?")>>, <<nl>>) \/ Way(<<Ch("?"), nl>>, <<>>)
      BY <1>1, <1>4 DEF AnswerComes, Way
    <2>2. (Way(<<>>, <<nl>>)' \/ Way(<<nl>>, <<>>)') /\ Head(toHost) # nl
      BY <1>1, <2>1, Ways DEF Way
    <2>3. hpc' = "answer" /\ pos' = pos
      BY <1>1, <2>2
    <2>4. Loaded(pos[1])'
      BY <1>2, <1>3, <2>3 DEF Answered
    <2> QED
      BY <1>3, <2>2, <2>3, <2>4 DEF Answered, NewlineComes, Handshaking
  <1>5. CASE NewlineComes
    <2>1. toHost = <<nl>> /\ tout = <<>>
      BY <1>1, <1>5 DEF NewlineComes, Way
    <2>2. hpc' = "send" /\ pos' = NextLine /\ Way(<<>>, <<>>)'
      BY <1>1, <2>1, Ways DEF Way
    <2>3. pos[1] \in Nat
      BY DEF Session, UploadTypeOK
    <2>4. pos'[1] - 1 = pos[1] /\ pos'[2] = 1
      BY <2>2, <2>3 DEF NextLine
    <2>5. Loaded(pos[1] - 1)'
      <3>1. Loaded(pos[1]) /\ pos'[1] - 1 = pos[1]
        BY <1>2, <2>4 DEF Answered
      <3> QED
        BY <1>3, <3>1
    <2> QED
      BY <1>1, <1>3, <2>2, <2>4, <2>5, LineStarts DEF Session
  <1> QED
    BY <1>2, <1>4, <1>5 DEF Answered

\* At the end of the file the tool writes its marker.
LEMMA HandshakeMarker ==
    ASSUME Session, Handshaking, HostMarker
    PROVE  Handshaking'
PROOF
  <1> DEFINE mark == IF opt.jump THEN Ch("J") ELSE Ch("#")
  <1>1. /\ hpc = "send" /\ AtEnd /\ toTarget' = Append(toTarget, mark) /\ hpc' = "final"
        /\ UNCHANGED <<file, opt, pos, toHost, held, tout, tpc, mem, entry, noresponse>>
    BY DEF HostMarker, Session, target, state
  <1>2. Writing
    BY <1>1 DEF Handshaking, Calling, Met, Meeting, LineOut, Answered, Marking, Leaving
  <1>3. /\ Loaded(pos[1] - 1) /\ held = None /\ toTarget = <<>> /\ Listening
        /\ Way(<<>>, <<>>)
    BY <1>1, <1>2 DEF Writing, Clear
  <1>4. pos[1] - 1 = Len(file)
    <2>1. pos[1] \in Nat /\ Len(file) \in Nat
      BY DEF Session, UploadTypeOK
    <2> QED
      BY <1>1, <2>1 DEF AtEnd, Session, Positions
  <1>5. Loaded(Len(file))'
    BY <1>1, <1>3, <1>4, StaysLoaded
  <1>6. toTarget' = <<mark>>
    BY <1>1, <1>3
  <1> QED
    BY <1>1, <1>3, <1>5, <1>6 DEF Marking, Carries, Listening, Way, Handshaking

\* The tool waits for the answer to its marker.
LEMMA HandshakeFinal ==
    ASSUME Session, Handshaking, HostFinal
    PROVE  /\ Leaving
           /\ Open' => Handshaking'
PROOF
  <1>1. /\ hpc = "final" /\ UNCHANGED <<toTarget, held, tout, tpc, mem, entry, noresponse>>
        /\ toHost # <<>> \/ MayTimeOut
    BY DEF HostFinal, target, state
  <1>2. toHost # <<>>
    BY <1>1, HandshakeSilent
  <1>3. Leaving
    <2>1. ~Marking
      BY <1>2 DEF Marking, Way
    <2> QED
      BY <1>1, <2>1 DEF Handshaking, Calling, Met, Meeting, Writing, LineOut, Answered
  <1>4. ASSUME Open' PROVE Handshaking'
    <2>1. Head(toHost) # nl /\ toHost' = Tail(toHost) /\ UNCHANGED <<file, opt, hpc, pos>>
      BY <1>2, <1>4 DEF HostFinal, MayTimeOut, Exit, Open, host
    <2>2. <<nl>> \o Prompt = <<nl, Ch(">")>>
      BY Printed DEF Session, UploadTypeOK
    <2>3. /\ ~Way(<<nl>>, Prompt) /\ ~Way(<<nl>> \o Prompt, <<>>)
          /\ ~Way(<<>>, <<nl>> \o Prompt) /\ ~NewlineComes
      BY <1>2, <2>1, <2>2, Ways DEF Way, NewlineComes
    <2>4. opt.jump /\ (tpc = "start" \/ (tpc = "app" /\ tout = <<>>)) /\ AnswerComes
      BY <1>3, <2>3 DEF Leaving
    <2>5. Way(<<Ch("?")>>, <<nl>>) \/ Way(<<Ch("?"), nl>>, <<>>)
      BY <1>2, <2>4 DEF AnswerComes, Way
    <2>6. NewlineComes'
      BY <1>1, <2>1, <2>5, Ways DEF NewlineComes, Way
    <2>7. Loaded(Len(file))' /\ Clear'
      <3>1. \A n : Loaded(n)' <=> Loaded(n)
        BY <1>1, <2>1, StaysLoaded
      <3>2. Loaded(Len(file)) /\ Clear
        BY <1>3 DEF Leaving
      <3> QED
        BY <1>1, <2>1, <3>1, <3>2 DEF Clear
    <2> QED
      BY <1>1, <2>1, <2>4, <2>6, <2>7 DEF Leaving, Handshaking
  <1> QED
    BY <1>3, <1>4

\* The window closes before the key arrives, or the marker starts the
\* application.
LEMMA HandshakeStart ==
    ASSUME Session, Handshaking, StartApp
    PROVE  Handshaking'
PROOF
  <1>1. /\ tout = <<>> /\ tpc' = "app" /\ held' = None
        /\ (tpc = "prompt" /\ window = 0 /\ held = None) \/ tpc = "start"
        /\ UNCHANGED <<file, opt, hpc, pos, toTarget, toHost, tout, mem, entry, noresponse>>
    BY DEF StartApp, host, state
  <1>2. CASE Calling
    BY <1>1, <1>2 DEF Calling, Listening, Way, Handshaking
  <1>3. CASE Leaving
    <2>1. opt.jump /\ Clear /\ Loaded(Len(file)) /\ (AnswerComes \/ NewlineComes)
      BY <1>1, <1>3 DEF Leaving
    <2>2. (AnswerComes \/ NewlineComes)' /\ Clear'
      BY <1>1, <2>1 DEF AnswerComes, NewlineComes, Way, Clear
    <2>3. Loaded(Len(file))'
      BY <1>1, <2>1, StaysLoaded
    <2> QED
      BY <1>1, <1>3, <2>1, <2>2, <2>3 DEF Leaving, Handshaking
  <1>4. CASE Met \/ Meeting \/ Answered \/ Marking \/ (Writing /\ AtEnd)
    BY <1>1, <1>4 DEF Met, Meeting, Answered, Marking, Writing, Listening
  <1>5. ASSUME NEW w, NEW k, Within(w, k) PROVE FALSE
    <2>1. ~AtEnd
      BY <1>5, WithinLine DEF Session
    <2>2. Len(ThisLine) \in Nat /\ k \in 0..Len(ThisLine) - 1 /\ Place(ThisLine, k)
      BY <1>5, <2>1, GoodLine DEF Within, Session
    <2>3. tpc \in {"cmd", "type", "eat", "count", "addr", "data"}
      BY <2>2 DEF Place, HasAddress
    <2> QED
      BY <1>1, <2>3
  <1> QED
    BY <1>2, <1>3, <1>4, <1>5, Stages

\* What the bootloader can take: the key, the marker, or the next symbol of
\* the line.
LEMMA Takes ==
    ASSUME Session, Handshaking, NEW p, Take(p)
    PROVE  \/ Calling /\ held = Ch("!") /\ p \in {"prompt", "cmd"}
           \/ Marking /\ held = (IF opt.jump THEN Ch("J") ELSE Ch("#")) /\ p = "cmd"
           \/ \E w, k : Within(w, k)
PROOF
  <1>1. tout = <<>> /\ held # None /\ tpc = p
    BY DEF Take
  <1>2. CASE Calling
    BY <1>1, <1>2 DEF Calling, Carries, Listening
  <1>3. CASE Marking
    BY <1>1, <1>3 DEF Marking, Carries, Listening
  <1>4. CASE Met \/ Meeting \/ Answered \/ Leaving \/ (Writing /\ AtEnd)
    BY <1>1, <1>4 DEF Met, Meeting, Answered, Leaving, Writing, Clear
  <1> QED
    BY <1>2, <1>3, <1>4, Stages

\* The bootloader answers the key.
LEMMA HandshakeKey ==
    ASSUME Session, Handshaking, Key
    PROVE  Handshaking'
PROOF
  <1>1. /\ Take("prompt") /\ tpc = "prompt" /\ held' = None
        /\ UNCHANGED <<file, opt, hpc, pos, toTarget, toHost>>
    BY DEF Key, Take, host
  <1>2. CASE \E w, k : Within(w, k)
    <2>1. PICK w, k : Within(w, k)
      BY <1>2
    <2>2. ~AtEnd
      BY <2>1, WithinLine DEF Session
    <2>3. Len(ThisLine) \in Nat /\ k \in 0..Len(ThisLine) - 1 /\ Place(ThisLine, k)
      BY <2>1, <2>2, GoodLine DEF Within, Session
    <2>4. tpc \in {"cmd", "type", "eat", "count", "addr", "data"}
      BY <2>3 DEF Place, HasAddress
    <2> QED
      BY <1>1, <2>4
  <1>3. CASE Calling /\ held = Ch("!")
    <2>1. Ch("!") # Ch("$") /\ Ch("!") # None
      BY CharSymbols DEF Character, Ch, None
    <2>2. ~noresponse
      BY <1>1 DEF Session, Booted
    <2>3. tpc' = "cmd" /\ ~noresponse' /\ tout' = <<Ch("?"), nl>>
      BY <1>3, <2>1, <2>2 DEF Key, Answer
    <2>4. toHost' = <<>> /\ toTarget' = <<>> /\ hpc' = "contact"
      BY <1>1, <1>3, <2>1 DEF Calling, Carries, Way
    <2> QED
      BY <1>1, <2>3, <2>4 DEF Met, Clear, Listening, AnswerComes, Way, Handshaking
  <1> QED
    BY <1>1, <1>2, <1>3, Takes

\* The bootloader takes the next symbol of a line.
LEMMA TakesSymbol ==
    ASSUME Session, NEW w, NEW k, Within(w, k), NEW p, Take(p)
    PROVE  /\ ThisLine \in Seq(Symbol) /\ Len(ThisLine) \in Nat /\ k \in Nat
           /\ Upto(w) /\ ~AtEnd /\ Loaded(pos[1] - 1) /\ ~noresponse
           /\ k \in 0..Len(ThisLine) - 1 /\ Place(ThisLine, k) /\ Patched(ThisLine, k)
           /\ held = ThisLine[k + 1] /\ k + 1 \in 1..Len(ThisLine) /\ held.val \in Nat
           /\ \A n \in Nat : n = k + 1 => Flying(ThisLine, n, w)'
           /\ k + 1 <= w /\ w \in 0..Len(ThisLine)
           /\ SameHost /\ ThisLine' = ThisLine /\ tout = <<>> /\ toHost' = <<>>
           /\ held' = None
PROOF
  <1>1. ~AtEnd /\ w \in 0..Len(ThisLine)
    BY WithinLine DEF Session
  <1>2. /\ ThisLine \in Seq(Symbol) /\ Len(ThisLine) \in Nat
        /\ \A i \in 1..Len(ThisLine) : ThisLine[i].val \in Nat
    BY <1>1, GoodLine DEF Session
  <1>3. /\ Upto(w) /\ Loaded(pos[1] - 1) /\ ~noresponse /\ Way(<<>>, <<>>)
        /\ k \in 0..Len(ThisLine) - 1 /\ Flying(ThisLine, k, w)
        /\ Place(ThisLine, k) /\ Patched(ThisLine, k)
    BY DEF Within
  <1>4. /\ tout = <<>> /\ held # None /\ held' = None /\ toTarget' = toTarget
        /\ toHost' = toHost /\ UNCHANGED <<file, opt, hpc, pos>>
    BY DEF Take, host
  <1>5. SameHost /\ ThisLine' = ThisLine
    BY <1>4 DEF SameHost, ThisLine
  <1>6. k \in Nat /\ k + 1 \in 1..Len(ThisLine)
    BY <1>2, <1>3
  <1>7. PICK l \in Seq(Symbol) : l = ThisLine
    BY <1>2
  <1>8. Flying(l, k + 1, w)' /\ held = l[k + 1] /\ k + 1 <= w
    BY <1>1, <1>3, <1>4, <1>6, <1>7, FlyingTaken DEF Session
  <1>9. \A n \in Nat : n = k + 1 => Flying(ThisLine, n, w)'
    BY <1>5, <1>7, <1>8
  <1>10. held = ThisLine[k + 1] /\ held.val \in Nat
    BY <1>2, <1>6, <1>7, <1>8
  <1> QED
    BY <1>1, <1>2, <1>3, <1>4, <1>5, <1>6, <1>8, <1>9, <1>10 DEF Way

\* The line ends: all of it has been written, and the bootloader has all.
LEMMA LineEnds ==
    ASSUME Session, NEW w, Upto(w), w = Len(ThisLine), ~AtEnd
    PROVE  hpc = "answer"
PROOF
  <1>1. CASE hpc = "send" /\ w = pos[2] - 1
    <2>1. pos[2] \in 1..Len(ThisLine) /\ Len(ThisLine) \in Nat
      BY <1>1, NextSymbol DEF Session
    <2> QED
      BY <1>1, <2>1
  <1> QED
    BY <1>1 DEF Upto

\* The bootloader's step leaves memory alone and brings it further in the line.
LEMMA ReadsOn ==
    ASSUME Session, UploadTypeOK', Positions', NEW w, NEW k, Within(w, k), NEW p, Take(p),
           ~noresponse', tout' = <<>>, UNCHANGED <<mem, entry>>,
           NEW n \in Nat, n = k + 1, n < Len(ThisLine), k < 4,
           Place(ThisLine, n)'
    PROVE  Handshaking'
PROOF
  <1>1. /\ Len(ThisLine) \in Nat /\ k \in Nat /\ Upto(w) /\ Loaded(pos[1] - 1)
        /\ Flying(ThisLine, n, w)' /\ SameHost /\ ThisLine' = ThisLine /\ toHost' = <<>>
        /\ ~AtEnd
    BY TakesSymbol
  <1>2. UNCHANGED <<file, hpc, pos>>
    BY <1>1 DEF SameHost
  <1>3. Loaded(pos[1] - 1)'
    BY <1>1, <1>2, StaysLoaded
  <1>4. Patched(ThisLine, n)'
    <2>1. \A i \in 1..DataBytes(ThisLine) : ~(i + 4 <= n)
      BY <1>1
    <2>2. PICK l : l = ThisLine
      OBVIOUS
    <2>3. Patched(l, n)'
      BY <2>1, <2>2 DEF Patched
    <2> QED
      BY <1>1, <2>2, <2>3
  <1>5. Way(<<>>, <<>>)' /\ n \in 0..Len(ThisLine) - 1
    BY <1>1 DEF Way
  <1> QED
    BY <1>1, <1>3, <1>4, <1>5, WithinNext

\* The bootloader answers a line: the tool is waiting for it.
LEMMA LineAnswered ==
    ASSUME Session, NEW w, NEW k, Within(w, k), NEW p, Take(p),
           k + 1 = Len(ThisLine), tpc' = "cmd", ~noresponse', tout' = <<Ch("?"), nl>>,
           \A i \in 1..pos[1] : IsStored(file[i])'
    PROVE  Handshaking'
PROOF
  <1>1. /\ Len(ThisLine) \in Nat /\ k \in Nat /\ Upto(w) /\ ~AtEnd
        /\ \A n \in Nat : n = k + 1 => Flying(ThisLine, n, w)'
        /\ k + 1 <= w /\ w \in 0..Len(ThisLine) /\ SameHost /\ ThisLine' = ThisLine
        /\ toHost' = <<>> /\ held' = None
    BY TakesSymbol
  <1>2. w = Len(ThisLine) /\ hpc = "answer"
    BY <1>1, LineEnds
  <1>3. UNCHANGED <<file, hpc, pos>>
    BY <1>1 DEF SameHost
  <1>4. PICK n \in Nat : n = k + 1
    BY <1>1
  <1>5. n + 0 + Len(toTarget') = w
    <2>1. Flying(ThisLine, n, w)'
      BY <1>1, <1>4
    <2> QED
      BY <1>1, <2>1 DEF Flying
  <1>6. toTarget' = <<>>
    <2>1. toTarget' = toTarget /\ toTarget \in Seq(Symbol)
      BY DEF Take, Session, UploadTypeOK
    <2>2. Len(toTarget') \in Nat
      BY <2>1
    <2>3. Len(toTarget') = 0
      BY <1>1, <1>2, <1>4, <1>5, <2>2
    <2> QED
      BY <2>1, <2>3
  <1>7. Loaded(pos[1])'
    BY <1>3 DEF Loaded
  <1>8. AnswerComes'
    BY <1>1 DEF AnswerComes, Way
  <1> QED
    BY <1>1, <1>2, <1>3, <1>6, <1>7, <1>8 DEF Answered, Clear, Listening, Handshaking

\* What was loaded is, when memory and start address are left alone.
LEMMA EarlierStored ==
    ASSUME UploadTypeOK, ~AtEnd, Loaded(pos[1] - 1), UNCHANGED <<file, mem, entry>>
    PROVE  \A i \in 1..pos[1] : i # pos[1] => IsStored(file[i])'
PROOF
  <1>1. pos[1] \in Nat
    BY DEF UploadTypeOK
  <1> TAKE i \in 1..pos[1]
  <1>2. SUFFICES ASSUME i # pos[1] PROVE IsStored(file[i])'
    OBVIOUS
  <1>3. i \in 1..pos[1] - 1
    BY <1>1, <1>2
  <1>4. IsStored(file[i])
    BY <1>3 DEF Loaded
  <1> QED
    BY <1>4 DEF IsStored

\* The top of the upload loop takes the key, the marker, or the first symbol
\* of a line.
LEMMA HandshakeCommand ==
    ASSUME Session, Handshaking, Command, UploadTypeOK', Positions'
    PROVE  Handshaking'
PROOF
  <1>1. /\ Take("cmd") /\ tpc = "cmd" /\ held' = None
        /\ UNCHANGED <<file, opt, hpc, pos, toTarget, toHost, par, mem, entry, noresponse>>
    BY DEF Command, Take, host, state
  <1>2. /\ Ch("!") \notin {Ch("S"), Ch("J"), Ch("#"), None}
        /\ Ch("J") # None /\ Ch("#") # None
        /\ Ch("J") \notin {Ch("S"), Ch("#")} /\ Ch("#") # Ch("S")
        /\ nl \notin {Ch("S"), Ch("J"), Ch("#"), None}
    <2>1. \A a, b \in Character : a # b => Ch(a) # Ch(b)
      BY CharSymbols
    <2> QED
      BY <2>1 DEF nl, None, Character
  <1>3. ~noresponse => Answer = <<Ch("?"), nl>>
    BY DEF Answer
  <1>4. CASE Calling /\ held = Ch("!")
    <2>1. ~noresponse /\ hpc = "contact" /\ toHost = <<>>
      BY <1>1, <1>4 DEF Calling, Listening, Way
    <2>2. tpc' = "cmd" /\ tout' = Answer
      BY <1>2, <1>4 DEF Command
    <2>3. toTarget' = <<>>
      BY <1>1, <1>2, <1>4 DEF Calling, Carries
    <2> QED
      BY <1>1, <1>3, <2>1, <2>2, <2>3
         DEF Met, Clear, Listening, AnswerComes, Way, Handshaking
  <1>5. CASE Marking /\ held = (IF opt.jump THEN Ch("J") ELSE Ch("#"))
    <2>1. ~noresponse /\ hpc = "final" /\ toHost = <<>> /\ Loaded(Len(file))
      BY <1>5 DEF Marking, Listening, Way
    <2>2. toTarget' = <<>>
      BY <1>1, <1>2, <1>5 DEF Marking, Carries
    <2>3. Loaded(Len(file))'
      BY <1>1, <2>1, StaysLoaded
    <2>4. CASE opt.jump
      <3>1. tpc' = "start" /\ tout' = Answer
        BY <1>2, <1>5, <2>4 DEF Command
      <3> QED
        BY <1>1, <1>3, <2>1, <2>2, <2>3, <2>4, <3>1
           DEF Leaving, Clear, AnswerComes, Way, Handshaking
    <2>5. CASE ~opt.jump
      <3>1. tpc' = "monitor" /\ tout' = <<nl>> \o Prompt
        BY <1>2, <1>5, <2>5 DEF Command
      <3> QED
        BY <1>1, <2>1, <2>2, <2>3, <2>5, <3>1 DEF Leaving, Clear, Way, Handshaking
    <2> QED
      BY <2>4, <2>5
  <1>6. ASSUME NEW w, NEW k, Within(w, k) PROVE Handshaking'
    <2> DEFINE l == ThisLine
    <2>1. /\ Len(l) \in Nat /\ k \in 0..Len(l) - 1 /\ Place(l, k) /\ held = l[k + 1]
          /\ ~AtEnd /\ ~noresponse /\ SameHost /\ l' = l /\ Loaded(pos[1] - 1)
      BY <1>1, <1>6, TakesSymbol
    <2>2. k = 0
      <3>1. tpc \notin {"type", "eat", "count", "addr", "data"}
        BY <1>1
      <3> QED
        BY <2>1, <3>1 DEF Place, HasAddress
    <2>3. CASE l = <<nl>>
      <3>1. held = nl /\ Len(l) = 1
        BY <2>1, <2>2, <2>3
      <3>2. tpc' = "cmd" /\ tout' = Answer
        BY <1>2, <3>1 DEF Command
      <3>3. IsStored(file[pos[1]])'
        <4>1. file'[pos[1]] = <<nl>> /\ Len(<<nl>>) = 1
          BY <1>1, <2>3, Ways DEF ThisLine
        <4>2. ~IsRecord(<<nl>>, Data) /\ ~IsRecord(<<nl>>, Start)
          BY <4>1 DEF IsRecord
        <4> QED
          BY <1>1, <2>3, <4>2 DEF IsStored, ThisLine
      <3>4. \A i \in 1..pos[1] : IsStored(file[i])'
        BY <1>1, <2>1, <3>3, EarlierStored DEF Session
      <3>5. k + 1 = Len(l)
        BY <2>2, <3>1
      <3> QED
        BY <1>1, <1>3, <1>6, <2>1, <3>2, <3>4, <3>5, LineAnswered
    <2>4. CASE l # <<nl>>
      <3>1. Len(l) >= 3 /\ l[1] = Ch("S")
        BY <2>1, <2>4, GoodRecord DEF Session
      <3>2. held = Ch("S")
        BY <2>1, <2>2, <3>1
      <3>3. tpc' = "type" /\ tout' = <<>>
        BY <1>2, <3>2 DEF Command
      <3>4. Place(l, 1)'
        BY <3>3 DEF Place
      <3>5. 1 = k + 1 /\ 1 < Len(l) /\ k < 4
        BY <2>1, <2>2, <3>1
      <3> QED
        BY <1>1, <1>6, <2>1, <3>3, <3>4, <3>5, ReadsOn
    <2> QED
      BY <2>3, <2>4
  <1> QED
    BY <1>1, <1>4, <1>5, <1>6, Takes

\* The type, the count and the address of a record.
LEMMA HandshakeHeader ==
    ASSUME Session, Handshaking, RecordType \/ Count \/ Address, UploadTypeOK', Positions'
    PROVE  Handshaking'
PROOF
  <1>1. PICK p \in {"type", "count", "addr"} : /\ Take(p) /\ tpc = p
                                               /\ p = "type" => RecordType
                                               /\ p = "count" => Count
                                               /\ p = "addr" => Address
    BY DEF RecordType, Count, Address, Take
  <1>2. UNCHANGED <<tout, mem, entry, noresponse>> /\ tout = <<>>
    BY DEF RecordType, Count, Address, Take
  <1>3. PICK w, k : Within(w, k)
    BY <1>1, Takes
  <1>11. PICK l : l = ThisLine
    OBVIOUS
  <1>4. /\ Len(l) \in Nat /\ k \in 0..Len(l) - 1 /\ Place(l, k) /\ held = l[k + 1]
        /\ held.val \in Nat /\ ~AtEnd /\ ~noresponse /\ SameHost /\ ThisLine' = l
    BY <1>1, <1>3, <1>11, TakesSymbol
  <1>5. tpc # "cmd" /\ tpc \notin {"data", "eat"} /\ k # 0
    BY <1>1, <1>4 DEF Place
  <1>6. l # <<nl>>
    <2>1. Len(<<nl>>) = 1
      BY Ways
    <2> QED
      BY <1>4, <1>5, <2>1
  <1>7. /\ Len(l) >= 3
        /\ HasAddress(l) => Len(l) > 4 + DataBytes(l) /\ l[4].ch = "hex"
        /\ DataBytes(l) \in 0..254
        /\ l[2].ch \in Data =>
               /\ l[2].ch \notin Start
               /\ l[3].ch = "hex" /\ l[3].val >= Overhead[l[2].ch]
               /\ DataBytes(l) = l[3].val - Overhead[l[2].ch]
        /\ l[2].ch \in Start => DataBytes(l) = 0
    BY <1>4, <1>6, <1>11, GoodRecord DEF Session
  <1>12. DataBytes(l) \in Nat /\ (DataBytes(l) = 0 \/ DataBytes(l) > 0)
    <2>1. PICK b \in 0..254 : b = DataBytes(l)
      BY <1>7
    <2> QED
      BY <2>1
  <1>13. HasAddress(l) => Len(l) > 4
    <2>1. SUFFICES ASSUME HasAddress(l) PROVE Len(l) > 4
      OBVIOUS
    <2>2. Len(l) > 4 + DataBytes(l)
      BY <1>7, <2>1
    <2> QED
      BY <1>4, <1>12, <2>2
  <1>8. CASE p = "type"
    <2>1. k = 1
      BY <1>1, <1>4, <1>5, <1>8 DEF Place, HasAddress
    <2>2. par'.type = held.ch /\ tpc' = IF held.ch \in Data \cup Start THEN "count" ELSE "eat"
      <3>1. par \in [type : Character, left : Nat, addr : Nat]
        BY DEF Session, UploadTypeOK
      <3> QED
        BY <1>1, <1>8, <3>1 DEF RecordType
    <2>3. held = l[2]
      BY <1>4, <2>1
    <2>4. Place(l, 2)'
      BY <2>2, <2>3 DEF Place, HasAddress
    <2>5. 2 = k + 1 /\ 2 < Len(l) /\ k < 4
      BY <1>4, <1>7, <2>1
    <2> QED
      BY <1>1, <1>2, <1>3, <1>4, <2>4, <2>5, <1>11, ReadsOn
  <1>9. CASE p = "count"
    <2>1. k = 2 /\ HasAddress(l)
      BY <1>1, <1>4, <1>5, <1>9 DEF Place
    <2>2. par.type = l[2].ch /\ held = l[3]
      BY <1>4, <2>1 DEF Place
    <2>3. par'.type = par.type /\ tpc' = "addr"
          /\ par'.left = IF par.type \in Start THEN 0
                         ELSE IF gethex < Overhead[par.type] THEN Forever
                         ELSE gethex - Overhead[par.type]
      <3>1. par \in [type : Character, left : Nat, addr : Nat]
        BY DEF Session, UploadTypeOK
      <3> QED
        BY <1>1, <1>9, <3>1 DEF Count
    <2>4. par'.left = DataBytes(l)
      <3>1. CASE l[2].ch \in Start
        BY <1>7, <2>2, <2>3, <3>1
      <3>2. CASE l[2].ch \notin Start
        <4>1. l[2].ch \in Data /\ gethex = l[3].val
          BY <1>7, <2>1, <2>2, <3>2 DEF HasAddress, gethex
        <4>2. Overhead[l[2].ch] \in Nat /\ l[3].val \in Nat
          BY <1>4, <2>2, <4>1 DEF Data, Overhead
        <4> QED
          BY <1>7, <2>2, <2>3, <3>2, <4>1, <4>2
      <3> QED
        BY <3>1, <3>2
    <2>5. Place(l, 3)'
      BY <2>1, <2>2, <2>3, <2>4 DEF Place, HasAddress
    <2>6. 3 = k + 1 /\ 3 < Len(l) /\ k < 4
      BY <1>4, <1>13, <2>1
    <2> QED
      BY <1>1, <1>2, <1>3, <1>4, <2>5, <2>6, <1>11, ReadsOn
  <1>10. CASE p = "addr"
    <2>1. k = 3 /\ HasAddress(l)
      BY <1>1, <1>4, <1>5, <1>10 DEF Place
    <2>2. par.type = l[2].ch /\ held = l[4] /\ par.left = DataBytes(l)
      BY <1>4, <2>1 DEF Place
    <2>3. par'.type = par.type /\ par'.left = par.left /\ par'.addr = l[4].val
          /\ tpc' = IF par.type \in Data /\ par.left > 0 THEN "data" ELSE "eat"
      <3>1. par \in [type : Character, left : Nat, addr : Nat]
        BY DEF Session, UploadTypeOK
      <3>2. gethex = l[4].val
        BY <1>7, <2>1, <2>2 DEF gethex
      <3> QED
        BY <1>1, <1>10, <3>1, <3>2 DEF Address
    <2>4. l[4].val \in Nat
      BY <1>4, <2>2
    <2>5. Place(l, 4)'
      <3>1. CASE DataBytes(l) > 0
        <4>1. l[2].ch \in Data
          BY <1>7, <2>1, <3>1 DEF HasAddress
        <4>2. tpc' = "data" /\ l[2].ch \notin Start
          BY <1>7, <2>2, <2>3, <3>1, <4>1
        <4>3. par'.left = DataBytes(l) + 4 - 4 /\ par'.addr = l[4].val + 4 - 4
              /\ 4 < 4 + DataBytes(l)
          BY <1>12, <2>2, <2>3, <2>4, <3>1
        <4> QED
          BY <2>1, <2>2, <2>3, <4>2, <4>3 DEF Place
      <3>2. CASE DataBytes(l) = 0
        BY <2>1, <2>2, <2>3, <3>2 DEF Place
      <3> QED
        BY <1>12, <3>1, <3>2
    <2>6. 4 = k + 1 /\ 4 < Len(l) /\ k < 4
      BY <1>4, <1>13, <2>1
    <2> QED
      BY <1>1, <1>2, <1>3, <1>4, <2>5, <2>6, <1>11, ReadsOn
  <1> QED
    BY <1>8, <1>9, <1>10

\* A data byte does not overwrite what an earlier line has put into memory.
LEMMA BytesApart ==
    ASSUME Session, ~AtEnd, Loaded(pos[1] - 1), NEW l, l = ThisLine, Len(l) >= 4,
           l[1] = Ch("S"), l[2].ch \in Data, NEW b, b \in 1..DataBytes(l),
           l[4].val \in Nat, NEW a, a = l[4].val + b - 1, NEW v,
           mem' = [mem EXCEPT ![a] = v], UNCHANGED <<file, pos, entry>>
    PROVE  Loaded(pos[1] - 1)'
PROOF
  <1>1. pos[1] \in 1..Len(file) /\ pos[1] \in Nat /\ Len(file) \in Nat
        /\ file \in Seq(Seq(Symbol) \ {<<>>}) /\ mem \in [Addr -> Nat]
    BY GoodLine DEF Session, UploadTypeOK
  <1>2. IsRecord(l, Data)
    BY DEF IsRecord
  <1>3. ASSUME NEW i \in 1..pos[1] - 1 PROVE IsStored(file[i])'
    <2>9. PICK p \in Nat : p = pos[1]
      BY <1>1
    <2>10. PICK f \in Nat : f = Len(file)
      BY <1>1
    <2>11. i \in 1..p - 1 /\ p \in 1..f
      BY <1>1, <2>9, <2>10
    <2>6. i \in Nat /\ i \in 1..Len(file) /\ i < pos[1]
      BY <2>9, <2>10, <2>11, SMTT(60)
    <2>12. file \in Seq(Seq(Symbol) \ {<<>>})
      BY <1>1
    <2>7. i \in DOMAIN file /\ pos[1] \in DOMAIN file
      BY <2>6, <2>9, <2>10, <2>11, <2>12, SMTT(60)
    <2>8. file[i] \in Seq(Symbol)
      BY <1>1, <2>6
    <2>1. PICK k \in Seq(Symbol) : k = file[i]
      BY <2>8
    <2>2. IsStored(k)
      BY <2>1 DEF Loaded
    <2>3. Apart(k, l)
      <3> QED
        BY <2>1, <2>6, <2>7 DEF Session, Objcopied, ThisLine
    <2>4. IsRecord(k, Start) => entry' = k[4].val
      BY <2>2 DEF IsStored
    <2>5. ASSUME IsRecord(k, Data), NEW j \in 1..(k[3].val - Overhead[k[2].ch])
          PROVE  mem'[k[4].val + j - 1] = k[4 + j].val
      <3>1. j \in 1..DataBytes(k)
        BY <2>5 DEF IsRecord, DataBytes
      <3>2. k[4].val + j # l[4].val + b
        BY <1>2, <2>3, <2>5, <3>1 DEF Apart
      <3>3. k[4].val \in Nat
        <4>1. k[4] \in Symbol
          BY <2>5 DEF IsRecord
        <4> QED
          BY <4>1 DEF Symbol
      <3>4. PICK n \in 0..254 : n = DataBytes(l)
        <4>1. DataBytes(l) \in 0..254
          <5>1. l # <<nl>>
            <6>1. Len(<<nl>>) = 1
              BY Ways
            <6> QED
              BY <6>1
          <5> QED
            BY <5>1, GoodRecord DEF Session
        <4> QED
          BY <4>1
      <3>7. PICK x \in Nat : x = k[4].val
        BY <3>3
      <3>8. PICK y \in Nat : y = l[4].val
        OBVIOUS
      <3>9. b \in 1..n /\ x + j # y + b
        BY <3>2, <3>4, <3>7, <3>8
      <3>10. PICK z \in Nat : z = j
        <4>1. PICK e : e = k[3].val - Overhead[k[2].ch]
          OBVIOUS
        <4>2. j \in 1..e
          BY <4>1
        <4> QED
          BY <4>2
      <3>11. x + z - 1 # y + b - 1
        BY <3>9, <3>10
      <3>5. k[4].val + j - 1 # a
        BY <3>7, <3>8, <3>10, <3>11
      <3>6. mem[k[4].val + j - 1] = k[4 + j].val
        BY <2>2, <2>5 DEF IsStored
      <3> QED
        BY <1>1, <3>5, <3>6
    <2> QED
      BY <2>1, <2>4, <2>5 DEF IsStored
  <1>4. ASSUME NEW i \in 1..pos'[1] - 1 PROVE IsStored(file[i])'
    BY <1>3
  <1> QED
    BY <1>4 DEF Loaded

\* A data byte is patched into memory.
LEMMA HandshakeByte ==
    ASSUME Session, Handshaking, Byte, UploadTypeOK', Positions'
    PROVE  Handshaking'
PROOF
  <1>1. /\ Take("data") /\ tpc = "data" /\ tout' = tout /\ tout = <<>>
        /\ UNCHANGED <<file, opt, hpc, pos, entry, noresponse>>
    BY DEF Byte, Take, host
  <1>2. PICK w, k : Within(w, k)
    BY <1>1, Takes
  <1>3. PICK l : l = ThisLine
    OBVIOUS
  <1>4. /\ l \in Seq(Symbol) /\ Len(l) \in Nat /\ k \in 0..Len(l) - 1 /\ Place(l, k)
        /\ Patched(l, k) /\ held = l[k + 1] /\ held.val \in Nat /\ k + 1 \in 1..Len(l)
        /\ ~AtEnd /\ ~noresponse /\ SameHost /\ ThisLine' = l
        /\ Upto(w) /\ Loaded(pos[1] - 1) /\ toHost' = <<>>
        /\ \A n \in Nat : n = k + 1 => Flying(l, n, w)'
    BY <1>1, <1>2, <1>3, TakesSymbol
  <1>5. k # 0 /\ k # 1 /\ k \in Nat
    BY <1>1, <1>4 DEF Place
  <1>6. k >= 4 /\ HasAddress(l)
    BY <1>1, <1>4, <1>5 DEF Place
  <1>7. /\ k < 4 + DataBytes(l) /\ par.left = DataBytes(l) + 4 - k
        /\ par.addr = l[4].val + k - 4 /\ par.type = l[2].ch
    BY <1>1, <1>4, <1>6 DEF Place
  <1>8. l # <<nl>>
    <2>1. Len(<<nl>>) = 1
      BY Ways
    <2> QED
      BY <1>4, <1>5, <2>1
  <1>9. /\ l[1] = Ch("S")
        /\ HasAddress(l) => Len(l) > 4 + DataBytes(l)
        /\ DataBytes(l) \in 0..254
        /\ l[2].ch \in Data =>
               /\ l[2].ch \notin Start
               /\ \A i \in 4..4 + DataBytes(l) : l[i].ch = "hex"
               /\ \A i \in 1..DataBytes(l) : l[4].val + i - 1 \in Addr
        /\ l[2].ch \in Start => DataBytes(l) = 0
    BY <1>3, <1>4, <1>8, GoodRecord DEF Session
  <1>10. PICK d \in 0..254 : d = DataBytes(l)
    BY <1>9
  <1>11. Len(l) > 4 + d /\ k < 4 + d /\ par.left = d + 4 - k
    BY <1>6, <1>7, <1>9, <1>10
  <1>24. PICK m \in Nat : m = Len(l) /\ m > 4 + d
    BY <1>4, <1>11
  <1>12. l[2].ch \in Data /\ l[2].ch \notin Start
    <2>1. l[2].ch \notin Start
      <3>1. ASSUME l[2].ch \in Start PROVE FALSE
        <4>1. d = 0
          BY <1>9, <1>10, <3>1
        <4> QED
          BY <1>5, <1>6, <1>11, <4>1
      <3> QED
        BY <3>1
    <2> QED
      BY <1>6, <2>1 DEF HasAddress
  <1>13. l[4].val \in Nat
    <2>1. l[4] \in Symbol
      <3>1. l \in Seq(Symbol)
        BY <1>4
      <3>2. 4 \in 1..Len(l)
        BY <1>24
      <3> QED
        BY <3>1, <3>2
    <2> QED
      BY <2>1 DEF Symbol
  <1>14. k - 3 \in 1..d /\ k + 1 \in 4..4 + d /\ l[4].val + (k - 3) - 1 = par.addr
    <2>1. PICK x \in Nat : x = l[4].val
      BY <1>13
    <2>2. par.addr = x + k - 4
      BY <1>7, <2>1
    <2>3. k - 3 \in 1..d /\ k + 1 \in 4..4 + d
      BY <1>5, <1>6, <1>11
    <2>4. x + (k - 3) - 1 = par.addr
      BY <1>5, <2>2
    <2> QED
      BY <2>1, <2>3, <2>4
  <1>15. par.addr \in Addr /\ gethex = l[k + 1].val
    <2>1. l[4].val + (k - 3) - 1 \in Addr /\ l[k + 1].ch = "hex"
      BY <1>9, <1>10, <1>12, <1>14
    <2> QED
      BY <1>4, <1>14, <2>1 DEF gethex
  <1>16. /\ mem' = [mem EXCEPT ![par.addr] = gethex]
         /\ par'.left = par.left - 1 /\ par'.addr = par.addr + 1 /\ par'.type = par.type
         /\ tpc' = IF par'.left = 0 THEN "eat" ELSE "data"
    <2>1. par \in [type : Character, left : Nat, addr : Nat] /\ par.left # Forever
      <3>1. par.left \in 0..254
        BY <1>5, <1>6, <1>11
      <3>2. par.left # Forever
        BY <3>1 DEF Forever
      <3> QED
        BY <3>2 DEF Session, UploadTypeOK
    <2>2. par' = [par EXCEPT !.left = IF @ = Forever THEN @ ELSE @ - 1, !.addr = @ + 1]
      BY DEF Byte
    <2>3. par' = [par EXCEPT !.left = par.left - 1, !.addr = par.addr + 1]
      BY <2>1, <2>2
    <2>4. par'.left = par.left - 1 /\ par'.addr = par.addr + 1 /\ par'.type = par.type
      BY <2>1, <2>3
    <2> QED
      BY <1>15, <2>4 DEF Byte
  <1>17. PICK n \in Nat : n = k + 1
    BY <1>5
  <1>18. n >= 4 /\ n <= 4 + d /\ n < Len(l) /\ n \in 0..Len(l) - 1
    BY <1>4, <1>5, <1>6, <1>11, <1>17, SMTT(60)
  <1>19. Place(l, n)'
    <2>1. par'.type = l[2].ch /\ par'.left = d + 4 - n /\ par'.addr = l[4].val + n - 4
      <3>1. PICK x \in Nat : x = l[4].val
        BY <1>13
      <3>2. par.addr = x + k - 4 /\ par.left = d + 4 - k
        BY <1>7, <1>11, <3>1
      <3>3. par'.left = d + 4 - n /\ par'.addr = x + n - 4
        BY <1>5, <1>16, <1>17, <3>2
      <3> QED
        BY <1>7, <1>16, <3>1, <3>3
    <2>4. PICK e : e = par'.left
      OBVIOUS
    <2>5. e = d + 4 - n /\ tpc' = IF e = 0 THEN "eat" ELSE "data"
      BY <1>16, <2>1, <2>4
    <2>2. CASE n < 4 + d
      <3>1. tpc' = "data"
        BY <1>18, <2>2, <2>5
      <3> QED
        BY <1>6, <1>10, <1>18, <2>1, <2>2, <3>1, SMTT(30) DEF Place
    <2>3. CASE n = 4 + d
      <3>1. tpc' = "eat" /\ ~(n < 4 + d)
        BY <1>18, <2>3, <2>5
      <3> QED
        BY <1>6, <1>10, <1>12, <1>18, <2>1, <3>1 DEF Place
    <2> QED
      BY <1>18, <2>2, <2>3
  <1>20. mem \in [Addr -> Nat]
    BY DEF Session, UploadTypeOK
  <1>21. Patched(l, n)'
    <2>1. IsRecord(l, Data)
      BY <1>9, <1>12, <1>24 DEF IsRecord
    <2>2. ASSUME NEW i \in 1..d, i + 4 <= n
          PROVE  mem'[l[4].val + i - 1] = l[4 + i].val
      <3>1. CASE i = k - 3
        <4>1. l[4].val + i - 1 = par.addr /\ 4 + i = k + 1
          BY <1>5, <1>14, <3>1
        <4> QED
          BY <1>15, <1>16, <1>20, <4>1
      <3>2. CASE i # k - 3
        <4>1. i + 4 <= k /\ l[4].val + i - 1 # par.addr
          BY <1>5, <1>13, <1>14, <1>17, <2>2, <3>2
        <4>2. mem[l[4].val + i - 1] = l[4 + i].val
          BY <1>4, <1>10, <2>1, <4>1 DEF Patched
        <4> QED
          BY <1>16, <1>20, <4>1, <4>2
      <3> QED
        BY <3>1, <3>2
    <2> QED
      BY <1>10, <2>2 DEF Patched
  <1>22. Loaded(pos[1] - 1)'
    <2>1. PICK b : b = k - 3
      OBVIOUS
    <2>2. b \in 1..DataBytes(l) /\ par.addr = l[4].val + b - 1
      BY <1>10, <1>14, <2>1
    <2>3. Len(l) >= 4
      BY <1>24
    <2>4. ~AtEnd /\ Loaded(pos[1] - 1) /\ l[1] = Ch("S") /\ UNCHANGED <<file, pos, entry>>
      BY <1>1, <1>4, <1>9
    <2> QED
      BY <1>3, <1>12, <1>13, <1>16, <2>2, <2>3, <2>4, BytesApart, ZenonT(60)
  <1>23. Way(<<>>, <<>>)' /\ ~noresponse' /\ Flying(l, n, w)'
    BY <1>1, <1>4, <1>17 DEF Way
  <1> QED
    BY <1>3, <1>4, <1>18, <1>19, <1>21, <1>22, <1>23, WithinNext

\* The start address of a record is that of all records that have one.
LEMMA EntryApart ==
    ASSUME Session, ~AtEnd, Loaded(pos[1] - 1), NEW l, l = ThisLine,
           mem' = mem, UNCHANGED <<file, pos>>,
           entry' = entry \/ (IsRecord(l, Start) /\ entry' = l[4].val)
    PROVE  \A i \in 1..pos[1] : i # pos[1] => IsStored(file[i])'
PROOF
  <1>1. CASE entry' = entry
    BY <1>1, EarlierStored DEF Session
  <1>2. CASE IsRecord(l, Start) /\ entry' = l[4].val
    <2>1. PICK p \in Nat : p = pos[1]
      BY DEF Session, UploadTypeOK
    <2>2. PICK f \in Nat : f = Len(file) /\ DOMAIN file = 1..f
      BY DEF Session, UploadTypeOK
    <2>3. p \in 1..f
      BY <2>1, <2>2, GoodLine DEF Session
    <2>4. ASSUME NEW i \in 1..p, i # p PROVE IsStored(file[i])'
      <3>1. i \in 1..p - 1 /\ i \in 1..f /\ i < p
        BY <2>3, <2>4
      <3>2. PICK k : k = file[i]
        OBVIOUS
      <3>3. IsStored(k)
        BY <2>1, <3>1, <3>2 DEF Loaded
      <3>4. Apart(k, l)
        BY <2>1, <2>2, <2>3, <3>1, <3>2 DEF Session, Objcopied, ThisLine
      <3>5. IsRecord(k, Start) => entry' = k[4].val
        BY <1>2, <3>4 DEF Apart
      <3>6. IsStored(k)'
        BY <3>3, <3>5 DEF IsStored
      <3> QED
        BY <3>2, <3>6
    <2> QED
      BY <2>1, <2>4
  <1> QED
    BY <1>1, <1>2

\* The rest of a line is read; at its end it is answered.
LEMMA HandshakeEat ==
    ASSUME Session, Handshaking, EatLine, UploadTypeOK', Positions'
    PROVE  Handshaking'
PROOF
  <1>1. /\ Take("eat") /\ tpc = "eat" /\ tout = <<>>
        /\ UNCHANGED <<file, opt, hpc, pos, par, mem, noresponse>>
    BY DEF EatLine, Take, host
  <1>2. PICK w, k : Within(w, k)
    BY <1>1, Takes
  <1>3. PICK l : l = ThisLine
    OBVIOUS
  <1>4. /\ l \in Seq(Symbol) /\ Len(l) \in Nat /\ k \in 0..Len(l) - 1 /\ Place(l, k)
        /\ Patched(l, k) /\ held = l[k + 1] /\ k + 1 \in 1..Len(l)
        /\ ~AtEnd /\ ~noresponse /\ SameHost /\ ThisLine' = l
        /\ Upto(w) /\ Loaded(pos[1] - 1) /\ toHost' = <<>>
        /\ \A n \in Nat : n = k + 1 => Flying(l, n, w)'
    BY <1>1, <1>2, <1>3, TakesSymbol
  <1>5. k # 0 /\ k # 1 /\ k \in Nat
    BY <1>1, <1>4 DEF Place
  <1>6. PICK m \in Nat : m = Len(l) /\ k + 1 <= m
    BY <1>4
  <1>7. k >= 2 /\ par.type = l[2].ch
    BY <1>4, <1>5 DEF Place
  <1>16. k \in Nat /\ k >= 2
    BY <1>5
  <1>8. HasAddress(l) => k >= 4 /\ ~(k < 4 + DataBytes(l))
    BY <1>1, <1>4, <1>5 DEF Place
  <1>9. l # <<nl>>
    <2>1. Len(<<nl>>) = 1
      BY Ways
    <2> QED
      BY <1>6, <1>16, <2>1
  <1>10. /\ l[1] = Ch("S") /\ l[m] = nl /\ \A i \in 2..m - 1 : l[i] # nl
         /\ l[2].ch \in Data => l[2].ch \notin Start
         /\ HasAddress(l) => m > 4 + DataBytes(l)
         /\ DataBytes(l) \in 0..254
    BY <1>3, <1>4, <1>6, <1>9, GoodRecord DEF Session
  <1>11. PICK d \in 0..254 : d = DataBytes(l)
    BY <1>10
  <1>12. HasAddress(l) => k >= 4 + d /\ m > 4 + d
    BY <1>5, <1>8, <1>10, <1>11
  <1>13. PICK n \in Nat : n = k + 1
    BY <1>5
  <1>14. CASE held # nl
    <2>1. tpc' = "eat" /\ tout' = <<>> /\ entry' = entry
      BY <1>1, <1>14 DEF EatLine
    <2>2. n # m
      BY <1>4, <1>10, <1>13, <1>14
    <2>3. n \in 0..m - 1 /\ n > 2
      BY <1>6, <1>13, <1>16, <2>2
    <2>4. Place(l, n)'
      <3>1. CASE HasAddress(l)
        <4>1. n >= 4 /\ n # 3 /\ ~(n < 4 + d)
          BY <1>5, <1>12, <1>13, <3>1
        <4>2. l[2].ch \in Start => par.addr = l[4].val
          BY <1>4, <1>8, <3>1 DEF Place
        <4> QED
          BY <1>1, <1>7, <1>11, <2>1, <2>3, <3>1, <4>1, <4>2 DEF Place
      <3>2. CASE ~HasAddress(l)
        BY <1>1, <1>7, <2>1, <2>3, <3>2 DEF Place
      <3> QED
        BY <3>1, <3>2
    <2>5. Patched(l, n)'
      <3>1. ASSUME IsRecord(l, Data), NEW i \in 1..DataBytes(l), i + 4 <= n
            PROVE  mem'[l[4].val + i - 1] = l[4 + i].val
        <4>1. HasAddress(l)
          BY <3>1 DEF IsRecord, HasAddress
        <4>2. i + 4 <= k
          BY <1>5, <1>11, <1>12, <3>1, <4>1
        <4> QED
          BY <1>1, <1>4, <3>1, <4>2 DEF Patched
      <3> QED
        BY <3>1 DEF Patched
    <2>6. Loaded(pos[1] - 1)'
      <3>1. PICK p : p = pos[1] - 1
        OBVIOUS
      <3>2. Loaded(p)'
        BY <1>1, <1>4, <2>1, <3>1, StaysLoaded
      <3> QED
        BY <1>1, <3>1, <3>2
    <2>7. Way(<<>>, <<>>)' /\ ~noresponse' /\ Flying(l, n, w)'
      BY <1>1, <1>4, <1>13, <2>1 DEF Way
    <2> QED
      BY <1>3, <1>4, <1>6, <2>3, <2>4, <2>5, <2>6, <2>7, WithinNext
  <1>15. CASE held = nl
    <2>1. /\ tpc' = "cmd" /\ tout' = Answer
          /\ entry' = IF par.type \in Start THEN par.addr ELSE entry
      BY <1>15 DEF EatLine
    <2>2. tout' = <<Ch("?"), nl>>
      BY <1>4, <2>1 DEF Answer
    <2>3. n = m
      <3>1. n \notin 2..m - 1
        BY <1>4, <1>10, <1>13, <1>15
      <3> QED
        BY <1>6, <1>13, <1>16, <3>1
    <2>4. l[2].ch \in Start => IsRecord(l, Start) /\ entry' = l[4].val
      <3>1. SUFFICES ASSUME l[2].ch \in Start PROVE IsRecord(l, Start) /\ entry' = l[4].val
        OBVIOUS
      <3>2. HasAddress(l)
        BY <3>1 DEF HasAddress
      <3>3. par.addr = l[4].val
        BY <1>4, <1>8, <3>1, <3>2 DEF Place
      <3>4. Len(l) >= 4
        BY <1>6, <1>12, <3>2
      <3> QED
        BY <1>7, <1>10, <2>1, <3>1, <3>3, <3>4 DEF IsRecord
    <2>5. l[2].ch \notin Start => entry' = entry
      BY <1>7, <2>1
    <2>6. \A i \in 1..pos[1] : i # pos[1] => IsStored(file[i])'
      <3>1. entry' = entry \/ (IsRecord(l, Start) /\ entry' = l[4].val)
        BY <2>4, <2>5
      <3> QED
        BY <1>1, <1>3, <1>4, <3>1, EntryApart
    <2>7. IsStored(l)'
      <3>1. ASSUME IsRecord(l, Data), NEW i \in 1..(l[3].val - Overhead[l[2].ch])
            PROVE  mem'[l[4].val + i - 1] = l[4 + i].val
        <4>1. HasAddress(l) /\ l[2].ch \in Data
          BY <3>1 DEF IsRecord, HasAddress
        <4>2. i \in 1..DataBytes(l)
          BY <3>1, <4>1 DEF DataBytes
        <4>3. i + 4 <= k
          <5>1. i \in 1..d
            BY <1>11, <4>2
          <5> QED
            BY <1>5, <1>12, <4>1, <5>1
        <4> QED
          BY <1>1, <1>4, <3>1, <4>2, <4>3 DEF Patched
      <3>2. IsRecord(l, Start) => entry' = l[4].val
        BY <2>4 DEF IsRecord
      <3> QED
        BY <3>1, <3>2 DEF IsStored
    <2>8. \A i \in 1..pos[1] : IsStored(file[i])'
      <3>1. IsStored(file[pos[1]])'
        BY <1>1, <1>3, <2>7 DEF ThisLine
      <3> QED
        BY <1>1, <2>6, <3>1
    <2>9. k + 1 = Len(ThisLine)
      BY <1>3, <1>6, <1>13, <2>3
    <2> QED
      BY <1>1, <1>2, <1>4, <2>1, <2>2, <2>8, <2>9, LineAnswered
  <1> QED
    BY <1>14, <1>15

\* A step of an undisturbed session with handshake.
LEMMA HandshakeNext ==
    ASSUME Session, Handshaking, calm', UploadNext, UploadTypeOK', Positions', Open'
    PROVE  Handshaking'
PROOF
  <1>1. hpc \notin {"break", "key"}
    BY DEF Handshaking, Calling, Met, Meeting, Writing, LineOut, Answered, Marking, Leaving
  <1>2. tpc # "greet"
    <2>1. ASSUME NEW w, NEW k, Within(w, k) PROVE tpc # "greet"
      <3>1. ~AtEnd
        BY <2>1, WithinLine DEF Session
      <3>2. Len(ThisLine) \in Nat /\ k \in 0..Len(ThisLine) - 1 /\ Place(ThisLine, k)
        BY <2>1, <3>1, GoodLine DEF Within, Session
      <3> QED
        BY <3>2 DEF Place, HasAddress
    <2> QED
      BY <2>1, Stages DEF Calling, Met, Meeting, Writing, Answered, Marking, Leaving,
                          Listening
  <1>3. ~Monitor
    <2>1. SUFFICES ASSUME Monitor PROVE FALSE
      OBVIOUS
    <2>2. Take("monitor") /\ tpc = "monitor"
      BY <2>1 DEF Monitor, Take
    <2>3. PICK w, k : Within(w, k)
      BY <2>2, Takes
    <2>4. ~AtEnd
      BY <2>3, WithinLine DEF Session
    <2>5. Len(ThisLine) \in Nat /\ k \in 0..Len(ThisLine) - 1 /\ Place(ThisLine, k)
      BY <2>3, <2>4, GoodLine DEF Within, Session
    <2> QED
      BY <2>2, <2>5 DEF Place, HasAddress
  <1>4. /\ ~HostOpen /\ ~HostBreak /\ ~HostKey /\ ~HostKill /\ ~Type /\ ~Star
        /\ ~GreetingDone /\ ~Chat /\ ~Reset
    BY <1>1, <1>2 DEF HostOpen, HostBreak, HostKey, HostKill, Exit, Open,
                      Type, Star, GreetingDone, Chat, Reset, Restart, Session
  <1>5. \/ HostContact \/ HostResidue \/ HostSend \/ HostAnswer \/ HostMarker
        \/ HostFinal \/ Arrive \/ Sent \/ StartApp \/ Key \/ Command
        \/ RecordType \/ Count \/ Address \/ Byte \/ EatLine
    BY <1>3, <1>4 DEF UploadNext, HostStep, TargetStep
  <1> QED
    BY <1>5, HandshakeContact, HandshakeResidue, HandshakeSend, HandshakeAnswer,
       HandshakeMarker, HandshakeFinal, HandshakeArrive, HandshakeSent, HandshakeStart,
       HandshakeKey, HandshakeCommand, HandshakeHeader, HandshakeByte, HandshakeEat

-----------------------------------------------------------------------------
\* A session without handshake.

\* A calm session of a tool that does not wait, with a file from objcopy.
Stream == /\ UploadTypeOK /\ Positions /\ Objcopied(file)
          /\ Open /\ opt.nowait

\* The symbols of the file are no commands but S.
LEMMA BodyWritten ==
    ASSUME Stream, hpc = "send", ~AtEnd
    PROVE  ThisLine[pos[2]] \in BodySymbol
PROOF
  <1>1. PICK l : l = ThisLine
    OBVIOUS
  <1>2. PICK i : i = pos[2]
    OBVIOUS
  <1>3. l \in Seq(Symbol) /\ i \in 1..Len(l) /\ Len(l) \in Nat /\ l[i] \in Symbol
    BY <1>1, <1>2, NextSymbol DEF Stream
  <1>4. WellFormed(l)
    BY <1>1, GoodLine DEF Stream
  <1>5. Ch("S").ch = "S" /\ nl.ch = "nl"
    BY DEF Ch, nl
  <1>6. CASE l = <<nl>>
    <2>1. l[i] = nl
      BY <1>3, <1>6
    <2> QED
      BY <1>1, <1>2, <1>3, <1>5, <2>1 DEF BodySymbol
  <1>7. CASE l # <<nl>>
    <2>1. /\ l[1] = Ch("S") /\ l[Len(l)] = nl
          /\ \A j \in 2..Len(l) - 1 : l[j].ch \notin {"nl", "none", "J", "#"}
      BY <1>4, <1>7 DEF WellFormed
    <2>2. i = 1 \/ i = Len(l) \/ i \in 2..Len(l) - 1
      BY <1>3
    <2>3. l[i].ch \notin {"none", "J", "#"}
      BY <1>5, <2>1, <2>2
    <2> QED
      BY <1>1, <1>2, <1>3, <2>3 DEF BodySymbol
  <1> QED
    BY <1>6, <1>7

\* A symbol behind others.
LEMMA BodyAppended ==
    ASSUME NEW s \in Seq(Symbol), NEW b \in BodySymbol
    PROVE  /\ s \in Seq(BodySymbol) => Append(s, b) \in Seq(BodySymbol)
           /\ s # <<>> => /\ Append(s, b) # <<>> /\ Head(Append(s, b)) = Head(s)
                          /\ Tail(Append(s, b)) = Append(Tail(s), b)
PROOF
  <1>1. b \in Symbol
    BY DEF BodySymbol
  <1>2. s \in Seq(BodySymbol) => Append(s, b) \in Seq(BodySymbol)
    OBVIOUS
  <1>3. ASSUME s # <<>>
        PROVE  /\ Append(s, b) # <<>> /\ Head(Append(s, b)) = Head(s)
               /\ Tail(Append(s, b)) = Append(Tail(s), b)
    <2>1. Len(s) \in Nat \ {0} /\ Tail(s) \in Seq(Symbol) /\ Len(Tail(s)) = Len(s) - 1
      BY <1>3
    <2>2. Append(s, b) # <<>> /\ Head(Append(s, b)) = Head(s)
      BY <1>1, <1>3, <2>1
    <2>11. Append(s, b) \in Seq(Symbol)
      BY <1>1
    <2>3. PICK u \in Seq(Symbol) : u = Append(s, b)
      BY <2>11
    <2>4. PICK n \in Nat \ {0} : n = Len(s)
      BY <2>1, ZenonT(60)
    <2>5. Len(u) = n + 1 /\ u # <<>>
      BY <1>1, <2>3, <2>4
    <2>6. PICK v \in Seq(Symbol) : v = Tail(u) /\ Len(v) = n
      <3>1. Tail(u) \in Seq(Symbol) /\ Len(Tail(u)) = Len(u) - 1
        BY <2>5
      <3>2. PICK m : m = Len(u)
        OBVIOUS
      <3>3. m = n + 1 /\ Len(Tail(u)) = m - 1
        BY <2>5, <3>1, <3>2
      <3>4. Len(Tail(u)) = n
        BY <3>3
      <3> QED
        BY <3>1, <3>4
    <2>7. PICK t \in Seq(Symbol) : t = Tail(s) /\ Len(t) = n - 1
      BY <2>1, <2>4, ZenonT(60)
    <2>8. PICK x \in Seq(Symbol) : x = Append(t, b) /\ Len(x) = n
      <3>1. Append(t, b) \in Seq(Symbol) /\ Len(Append(t, b)) = Len(t) + 1
        BY <1>1
      <3>2. PICK m : m = Len(t)
        OBVIOUS
      <3>3. m = n - 1 /\ Len(Append(t, b)) = m + 1
        BY <2>7, <3>1, <3>2
      <3>4. Len(Append(t, b)) = n
        BY <3>3
      <3> QED
        BY <3>1, <3>4
    <2>9. ASSUME NEW i \in 1..n PROVE v[i] = x[i]
      <3>1. v[i] = u[i + 1]
        BY <2>5, <2>6, <2>9
      <3>2. CASE i = n
        BY <1>1, <2>3, <2>4, <2>7, <2>8, <3>1, <3>2
      <3>3. CASE i # n
        <4>1. i \in 1..n - 1 /\ i + 1 \in 1..n
          BY <2>4, <3>3
        <4>2. u[i + 1] = s[i + 1]
          BY <1>1, <2>3, <2>4, <4>1
        <4>3. x[i] = t[i]
          BY <1>1, <2>7, <2>8, <4>1
        <4>4. t[i] = s[i + 1]
          BY <1>3, <2>7, <4>1
        <4> QED
          BY <3>1, <4>2, <4>3, <4>4
      <3> QED
        BY <3>2, <3>3
    <2>10. v = x
      BY <2>6, <2>8, <2>9, SeqEqual
    <2> QED
      BY <2>2, <2>3, <2>6, <2>7, <2>8, <2>10
  <1> QED
    BY <1>2, <1>3

\* A symbol in front of others.
LEMMA BodyArrives ==
    ASSUME NEW s \in Seq(BodySymbol), s # <<>>
    PROVE  Head(s) \in BodySymbol /\ Tail(s) \in Seq(BodySymbol)
PROOF
  OBVIOUS

\* The tool and the line.
LEMMA StreamingHost ==
    ASSUME Stream, Streaming, HostResidue \/ HostSend \/ Arrive
    PROVE  Streaming'
PROOF
  <1>1. /\ hpc \in {"residue", "send"} /\ tout = <<>> /\ toTarget \in Seq(Symbol)
        /\ UNCHANGED <<tout, tpc, noresponse>>
    BY DEF Streaming, HostResidue, HostSend, Arrive, target, state, Stream,
           UploadTypeOK
  <1>2. CASE HostResidue
    <2>1. hpc' = "send" /\ UNCHANGED <<toTarget, held>>
      BY <1>2 DEF HostResidue
    <2> QED
      BY <1>1, <2>1 DEF Streaming
  <1>3. CASE HostSend
    <2>1. /\ hpc = "send" /\ ~AtEnd /\ toTarget' = Append(toTarget, ThisLine[pos[2]])
          /\ hpc' = "send" /\ held' = held
      BY <1>3 DEF HostSend, Stream, ThisLine
    <2>2. PICK b \in BodySymbol : toTarget' = Append(toTarget, b)
      BY <2>1, BodyWritten
    <2>3. /\ toTarget \in Seq(BodySymbol) => toTarget' \in Seq(BodySymbol)
          /\ toTarget # <<>> => /\ toTarget' # <<>> /\ Head(toTarget') = Head(toTarget)
                                /\ Tail(toTarget') = Append(Tail(toTarget), b)
      BY <1>1, <2>2, BodyAppended
    <2>4. toTarget # <<>> /\ Tail(toTarget) \in Seq(BodySymbol)
              => Tail(toTarget') \in Seq(BodySymbol)
      BY <2>3
    <2> QED
      BY <1>1, <2>1, <2>3, <2>4 DEF Streaming
  <1>4. CASE Arrive
    <2>1. /\ toTarget # <<>> /\ toTarget' = Tail(toTarget) /\ held = None /\ hpc' = hpc
          /\ held' = IF tpc \in {"app", "hung"} THEN None ELSE Head(toTarget)
      BY <1>1, <1>4 DEF Arrive, host
    <2>2. Ch("$") # None
      BY CharSymbols DEF Ch, None
    <2>3. CASE tpc = "prompt"
      <3>1. Head(toTarget) = Ch("$") /\ Tail(toTarget) \in Seq(BodySymbol)
        BY <2>1, <2>2, <2>3 DEF Streaming
      <3> QED
        BY <1>1, <2>1, <2>3, <3>1 DEF Streaming
    <2>4. CASE tpc \in {"cmd", "type", "count", "addr", "data", "eat"}
      <3>1. noresponse /\ toTarget \in Seq(BodySymbol)
        BY <2>4 DEF Streaming
      <3>2. Head(toTarget) \in BodySymbol /\ Tail(toTarget) \in Seq(BodySymbol)
        BY <2>1, <3>1, BodyArrives
      <3> QED
        BY <1>1, <2>1, <2>4, <3>1, <3>2 DEF Streaming
    <2>5. CASE tpc \in {"app", "hung"}
      BY <1>1, <2>1, <2>5 DEF Streaming
    <2> QED
      BY <2>3, <2>4, <2>5 DEF Streaming
  <1> QED
    BY <1>2, <1>3, <1>4

\* The bootloader.
LEMMA StreamingTarget ==
    ASSUME Stream, Streaming,
           \/ StartApp \/ Key \/ Command \/ RecordType
           \/ Count \/ Address \/ Byte \/ EatLine
    PROVE  Streaming'
PROOF
  <1>1. hpc \in {"residue", "send"} /\ tout = <<>>
    BY DEF Streaming
  <1>2. hpc' = hpc /\ held' = None /\ toTarget' = toTarget
    BY DEF StartApp, Key, Command, RecordType, Count, Address, Byte,
           EatLine, Take, host
  <1>3. CASE StartApp
    <2>1. tpc' = "app" /\ tout' = tout
      BY <1>3 DEF StartApp
    <2> QED
      BY <1>1, <1>2, <2>1 DEF Streaming
  <1>4. CASE Key
    <2>1. tpc = "prompt" /\ held # None
      BY <1>4 DEF Key, Take
    <2>2. held = Ch("$") /\ toTarget \in Seq(BodySymbol)
      BY <2>1 DEF Streaming
    <2>3. tpc' = "cmd" /\ noresponse' /\ tout' = <<>>
      BY <1>4, <2>2 DEF Key
    <2> QED
      BY <1>1, <1>2, <2>2, <2>3 DEF Streaming
  <1>5. CASE Command \/ RecordType \/ Count \/ Address \/ Byte \/ EatLine
    <2>1. /\ tpc \in {"cmd", "type", "count", "addr", "data", "eat"} /\ held # None
          /\ noresponse' = noresponse
      BY <1>5 DEF Command, RecordType, Count, Address, Byte, EatLine, Take,
                  state
    <2>2. noresponse /\ held \in BodySymbol /\ toTarget \in Seq(BodySymbol)
      BY <2>1 DEF Streaming
    <2>3. Answer = <<>>
      BY <2>2 DEF Answer
    <2>4. /\ tpc' \in {"cmd", "type", "count", "addr", "data", "eat", "hung"}
          /\ tout' = <<>>
      <3>1. CASE Command
        <4>1. held # Ch("J") /\ held # Ch("#")
          BY <2>2 DEF BodySymbol, Ch
        <4>2. tpc' \in {"type", "cmd"} /\ tout' = <<>>
          <5>1. CASE held = Ch("S")
            BY <3>1, <4>1, <5>1 DEF Command
          <5>2. CASE held # Ch("S")
            BY <2>3, <3>1, <4>1, <5>2 DEF Command
          <5> QED
            BY <5>1, <5>2
        <4> QED
          BY <4>2
      <3>2. CASE RecordType
        BY <1>1, <3>2 DEF RecordType
      <3>3. CASE Count
        BY <1>1, <3>3 DEF Count
      <3>4. CASE Address
        BY <1>1, <3>4 DEF Address
      <3>5. CASE Byte
        BY <1>1, <3>5 DEF Byte
      <3>6. CASE EatLine
        BY <1>1, <2>1, <2>3, <3>6 DEF EatLine, Take
      <3> QED
        BY <1>5, <3>1, <3>2, <3>3, <3>4, <3>5, <3>6
    <2> QED
      BY <1>1, <1>2, <2>1, <2>2, <2>4 DEF Streaming
  <1> QED
    BY <1>3, <1>4, <1>5

\* A step of an undisturbed session without handshake.
LEMMA StreamingNext ==
    ASSUME Stream, Streaming, calm', UploadNext, Open'
    PROVE  Streaming'
PROOF
  <1>1. hpc \in {"residue", "send"} /\ tout = <<>> /\ tpc \notin {"greet", "monitor", "start"}
    BY DEF Streaming
  <1>2. /\ ~HostOpen /\ ~HostBreak /\ ~HostKey /\ ~HostKill /\ ~Type /\ ~Star
        /\ ~GreetingDone /\ ~Chat /\ ~Reset
        /\ ~HostContact /\ ~HostAnswer /\ ~HostFinal
        /\ ~HostMarker /\ ~Sent /\ ~Monitor
    BY <1>1 DEF HostOpen, HostBreak, HostKey, HostKill, Exit, Open, Type,
                Star, GreetingDone, Chat, Reset, Restart, HostContact,
                HostAnswer, HostFinal, HostMarker, Sent, Monitor, Take, Stream
  <1>3. \/ HostResidue \/ HostSend \/ Arrive \/ StartApp \/ Key \/ Command \/ RecordType
        \/ Count \/ Address \/ Byte \/ EatLine
    BY <1>2 DEF UploadNext, HostStep, TargetStep
  <1> QED
    BY <1>3, StreamingHost, StreamingTarget

-----------------------------------------------------------------------------
\* The invariant.

\* The tool writes its key: from here on a session may be undisturbed.
LEMMA SessionStarts ==
    ASSUME UploadTypeOK, Positions, Booted, HostKey, calm'
    PROVE  IF opt'.nowait THEN Streaming' ELSE Handshaking'
PROOF
  <1>1. /\ hpc = "key" /\ opt' = opt
        /\ toTarget' = Append(toTarget, IF opt.nowait THEN Ch("$") ELSE Ch("!"))
        /\ hpc' = IF opt.nowait THEN "residue" ELSE "contact"
        /\ UNCHANGED <<toHost, held, tout, tpc, noresponse>>
    BY DEF HostKey, target, state
  <1>2. /\ toHost = <<>> /\ toTarget = <<>> /\ held = None /\ tout = <<>>
        /\ tpc = "prompt" \/ (tpc = "cmd" /\ ~opt.nowait /\ ~noresponse)
    BY DEF HostKey
  <1>3. CASE opt.nowait
    <2>1. tpc = "prompt" /\ toTarget' = <<Ch("$")>>
      BY <1>1, <1>2, <1>3
    <2>2. toTarget' # <<>> /\ Head(toTarget') = Ch("$") /\ Tail(toTarget') \in Seq(BodySymbol)
      <3>1. Ch("$") \in Symbol
        BY CharSymbols DEF Character
      <3>2. Tail(<<Ch("$")>>) = <<>>
        BY <3>1
      <3> QED
        BY <2>1, <3>1, <3>2
    <2> QED
      BY <1>1, <1>2, <1>3, <2>1, <2>2 DEF Streaming
  <1>4. CASE ~opt.nowait
    <2>1. toTarget' = <<Ch("!")>>
      BY <1>1, <1>2, <1>4
    <2> QED
      BY <1>1, <1>2, <1>4, <2>1 DEF Calling, Way, Carries, Listening, Handshaking
  <1> QED
    BY <1>3, <1>4

\* The bootloader starts with answers on, and only its key turns them off.
LEMMA BootedNext ==
    ASSUME Booted, UploadNext
    PROVE  Booted'
PROOF
  <1>1. CASE UNCHANGED target
    BY <1>1 DEF Booted, target, state
  <1>2. CASE Restart
    BY <1>2 DEF Booted, Restart
  <1>3. CASE TargetStep
    <2>1. CASE Star \/ GreetingDone
      BY <2>1 DEF Star, GreetingDone, Booted, state
    <2>2. CASE StartApp \/ Key \/ RecordType \/ Count \/ Address \/ Byte
      BY <2>2 DEF StartApp, Key, RecordType, Count, Address, Byte, Booted
    <2>3. CASE EatLine
      BY <2>3 DEF EatLine, Take, Booted
    <2>4. CASE Command
      <3>1. tpc' \in {"type", "start", "monitor", "cmd"}
        BY <2>4 DEF Command
      <3> QED
        BY <3>1 DEF Booted
    <2>5. CASE Monitor
      <3>1. tpc' \in {"start", "monitor"}
        BY <2>5 DEF Monitor, Take
      <3> QED
        BY <3>1 DEF Booted
    <2> QED
      BY <1>3, <2>1, <2>2, <2>3, <2>4, <2>5 DEF TargetStep
  <1>4. CASE HostOpen \/ HostKill \/ Type \/ Arrive
    BY <1>1, <1>4 DEF HostOpen, HostKill, Type, Arrive
  <1>5. CASE HostStep
    BY <1>1, <1>2, <1>5 DEF HostStep, HostBreak, HostKey, HostContact,
                            HostResidue, HostSend, HostAnswer, HostMarker,
                            HostFinal
  <1>6. CASE Sent \/ Chat
    BY <1>6 DEF Sent, Chat, Booted, state
  <1>7. CASE Reset
    BY <1>2, <1>7 DEF Reset
  <1> QED
    BY <1>3, <1>4, <1>5, <1>6, <1>7 DEF UploadNext

\* A session that is open was open before, with the same file, or has just
\* been opened.
LEMMA StaysOpen ==
    ASSUME UploadNext, Open'
    PROVE  HostOpen \/ (Open /\ file' = file /\ opt' = opt)
PROOF
  <1>1. CASE Open
    <2>1. /\ ~Exit("ok") /\ ~Exit("6") /\ ~Exit("8") /\ ~Exit("9")
          /\ ~Exit("killed") /\ ~Type
      BY <1>1 DEF Exit, Open, Type
    <2>2. CASE HostStep \/ HostKill
      BY <1>1, <2>1, <2>2 DEF HostStep, HostBreak, HostKey, HostContact,
                              HostResidue, HostSend, HostAnswer, HostMarker,
                              HostFinal, HostKill, host
    <2>3. CASE Arrive \/ Sent \/ TargetStep \/ Chat \/ Reset
      BY <1>1, <2>3 DEF Arrive, Sent, TargetStep, Star, GreetingDone,
                        StartApp, Key, Command, RecordType, Count, Address,
                        Byte, EatLine, Monitor, Take, Chat, Reset, host
    <2> QED
      BY <2>1, <2>2, <2>3 DEF UploadNext
  <1>2. CASE ~Open
    <2>1. hpc = "off"
      BY <1>2 DEF Open
    <2>2. ~HostStep /\ ~HostKill
      BY <2>1 DEF HostStep, HostBreak, HostKey, HostContact, HostResidue,
                  HostSend, HostAnswer, HostMarker, HostFinal, HostKill, Open
    <2>3. CASE Type \/ Arrive \/ Sent \/ TargetStep \/ Chat \/ Reset
      <3>1. hpc' = hpc
        BY <2>3 DEF Type, Arrive, Sent, TargetStep, Star, GreetingDone,
                    StartApp, Key, Command, RecordType, Count, Address,
                    Byte, EatLine, Monitor, Take, Chat, Reset, host
      <3> QED
        BY <2>1, <3>1 DEF Open
    <2> QED
      BY <2>2, <2>3 DEF UploadNext
  <1> QED
    BY <1>1, <1>2

\* A step never makes a session calm but the one that writes the key.
LEMMA CalmBefore ==
    ASSUME UploadNext, calm'
    PROVE  calm \/ HostKey
PROOF
  BY DEF UploadNext, HostOpen, HostStep, HostBreak, HostKey, HostContact,
         HostResidue, HostSend, HostAnswer, HostMarker, HostFinal, HostKill,
         Type, Arrive, Sent, TargetStep, Star, GreetingDone, StartApp,
         Key, Command, RecordType, Count, Address, Byte, EatLine, Monitor,
         Take, Chat, Reset, Restart, bounds

\* The invariant is kept.
LEMMA UploadInvStep ==
    ASSUME Typed, FromObjcopy, UploadTypeOK, UploadInv, UploadNext
    PROVE  UploadTypeOK' /\ UploadInv'
PROOF
  <1>1. UploadTypeOK' /\ Positions' /\ Booted'
    BY UploadTypeStep, PositionsNext, BootedNext DEF UploadInv
  <1>2. Origin'
    <2>1. SUFFICES ASSUME Open', Regular' PROVE Objcopied(file')
      BY DEF Origin
    <2>2. CASE HostOpen
      <3>1. sessions' \in 1..MaxSessions
        <4>1. sessions \in 0..MaxSessions /\ MaxSessions \in Nat
          BY Bounds DEF UploadTypeOK
        <4>2. sessions' = sessions + 1 /\ sessions < MaxSessions
          BY <2>2 DEF HostOpen
        <4> QED
          BY <4>1, <4>2
      <3>2. PICK u \in Uploads[sessions'] : file' = u.file
        BY <2>2 DEF HostOpen
      <3>3. RegularFile(u.file)
        BY <2>1, <3>2 DEF Regular
      <3> QED
        BY <3>1, <3>2, <3>3 DEF FromObjcopy
    <2>3. CASE Open /\ file' = file
      BY <2>1, <2>3 DEF UploadInv, Origin, Regular
    <2> QED
      BY <2>1, <2>2, <2>3, StaysOpen
  <1>3. ASSUME Open', Clean' PROVE IF opt'.nowait THEN Streaming' ELSE Handshaking'
    <2>1. calm' /\ Regular' /\ opt'.patient
      BY <1>3 DEF Clean
    <2>2. ~HostOpen
      BY <2>1 DEF HostOpen
    <2>3. Open /\ file' = file /\ opt' = opt
      BY <1>3, <2>2, StaysOpen
    <2>4. Objcopied(file) /\ opt.patient /\ Regular
      BY <2>1, <2>3 DEF UploadInv, Origin, Regular
    <2>5. CASE HostKey
      BY <2>1, <2>5, SessionStarts DEF UploadInv
    <2>6. CASE calm
      <3>1. IF opt.nowait THEN Streaming ELSE Handshaking
        BY <2>3, <2>4, <2>6 DEF UploadInv, Clean
      <3>2. CASE opt.nowait
        BY <1>3, <2>1, <2>3, <2>4, <3>1, <3>2, StreamingNext DEF Stream, UploadInv
      <3>3. CASE ~opt.nowait
        BY <1>1, <1>3, <2>1, <2>3, <2>4, <3>1, <3>3, HandshakeNext DEF Session, UploadInv
      <3> QED
        BY <2>3, <3>2, <3>3
    <2> QED
      BY <2>1, <2>5, <2>6, CalmBefore
  <1> QED
    BY <1>1, <1>2, <1>3 DEF UploadInv

\* Where a session of the tool is, and what is on its way, in every state.
LEMMA UploadInvariant ==
    ASSUME Typed, FromObjcopy
    PROVE  UploadSpec => [](UploadTypeOK /\ UploadInv)
PROOF
  <1>1. UploadInit => UploadTypeOK /\ UploadInv
    <2>1. UploadInit => UploadTypeOK /\ Positions
      BY UploadTypeInit
    <2>2. UploadInit => ~Open /\ ~noresponse
      BY DEF UploadInit, Open
    <2> QED
      BY <2>1, <2>2 DEF UploadInv, Origin, Booted
  <1>2. ASSUME UploadTypeOK, UploadInv, [UploadNext]_uploadvars PROVE (UploadTypeOK /\ UploadInv)'
    <2>1. CASE UploadNext
      BY <1>2, <2>1, UploadInvStep
    <2>2. CASE UNCHANGED uploadvars
      <3>1. UNCHANGED <<file, opt, hpc, pos, code, toTarget, toHost, held, arrived, tpc, tout,
                        window, par, mem, entry, noresponse, buffer, sessions, chat, calm>>
        BY <2>2 DEF uploadvars, host, line, target, state, bounds
      <3>2. UploadTypeOK'
        BY <1>2, <3>1 DEF UploadTypeOK
      <3>3. Positions' /\ Origin' /\ Booted'
        BY <1>2, <3>1
           DEF UploadInv, Positions, Origin, Booted, Open, Regular, AtEnd, ThisLine
      <3>4. Open' /\ Clean' => IF opt'.nowait THEN Streaming' ELSE Handshaking'
        <4>1. /\ (Streaming' <=> Streaming) /\ (Open' <=> Open)
              /\ (Clean' <=> Clean) /\ opt' = opt
          BY <3>1 DEF Streaming, Open, Clean, Regular
        <4>2. Handshaking => Handshaking'
          <5>1. /\ \A n : Loaded(n)' <=> Loaded(n)
                /\ \A l, k : Patched(l, k)' <=> Patched(l, k)
            BY <3>1, StaysLoaded
          <5>2. /\ \A a, b : Way(a, b)' <=> Way(a, b)
                /\ \A c : Carries(c)' <=> Carries(c)
                /\ Clear' <=> Clear
                /\ Listening' <=> Listening
                /\ AtEnd' <=> AtEnd
                /\ ThisLine' = ThisLine
            BY <3>1 DEF Way, Carries, Clear, Listening, AtEnd, ThisLine
          <5>3. (NewlineComes' <=> NewlineComes) /\ (AnswerComes' <=> AnswerComes)
            BY <5>2 DEF NewlineComes, AnswerComes
          <5>4. /\ \A l, k, w : Flying(l, k, w)' <=> Flying(l, k, w)
                /\ \A l, k : Place(l, k)' <=> Place(l, k)
            BY <3>1 DEF Flying, Place
          <5>5. \A l, w : Reading(l, w)' <=> Reading(l, w)
            BY <3>1, <5>1, <5>2, <5>4 DEF Reading
          <5>6. (Writing' <=> Writing) /\ (LineOut' <=> LineOut)
            BY <3>1, <5>1, <5>2, <5>5 DEF Writing, LineOut
          <5>7. (Calling' <=> Calling) /\ (Met' <=> Met) /\ (Meeting' <=> Meeting)
            BY <3>1, <5>2, <5>3 DEF Calling, Met, Meeting
          <5>8. (Answered' <=> Answered) /\ (Marking' <=> Marking) /\ (Leaving' <=> Leaving)
            BY <3>1, <5>1, <5>2, <5>3 DEF Answered, Marking, Leaving
          <5> QED
            BY <5>6, <5>7, <5>8 DEF Handshaking
        <4> QED
          BY <1>2, <4>1, <4>2 DEF UploadInv
      <3> QED
        BY <3>2, <3>3, <3>4 DEF UploadInv
    <2> QED
      BY <1>2, <2>1, <2>2
  <1> QED
    BY <1>1, <1>2, PTL DEF UploadSpec

\* What of the invariant a step of an undisturbed session starts from.
LEMMA Undisturbing ==
    ASSUME UploadTypeOK, UploadInv, Open, Clean
    PROVE  /\ ~opt.nowait => Session /\ Handshaking
           /\ opt.nowait => Streaming
PROOF
  BY DEF UploadInv, Origin, Clean, Session

\* How the tool comes to an end.
LEMMA WaysOut ==
    ASSUME UploadTypeOK, UploadInv, Clean, [UploadNext]_uploadvars, NEW c, Ends(c)
    PROVE  \/ HostContact /\ c = "6" /\ MayTimeOut
           \/ HostAnswer /\ c = "8" /\ MayTimeOut
           \/ HostFinal /\ ((c = "9" /\ MayTimeOut) \/ c = "ok")
           \/ HostMarker /\ opt.nowait /\ c = "ok"
           \/ c = "killed"
PROOF
  <1>1. Open /\ hpc # "off" /\ hpc' = "off" /\ code' = c
    BY DEF Ends, Open
  <1>2. ~HostOpen /\ ~Type /\ ~UNCHANGED host
    BY <1>1 DEF HostOpen, Type, Open, host
  <1>3. ~(Arrive \/ Sent \/ TargetStep \/ Chat \/ Reset)
    BY <1>2 DEF Arrive, Sent, TargetStep, Star, GreetingDone, StartApp, Key,
                Command, RecordType, Count, Address, Byte, EatLine, Monitor,
                Take, Chat, Reset
  <1>4. ~HostBreak /\ ~HostKey /\ ~HostResidue /\ ~HostSend
    BY <1>1 DEF HostBreak, HostKey, HostResidue, HostSend
  <1>5. ~UNCHANGED uploadvars
    BY <1>2 DEF uploadvars, host
  <1>6. CASE HostContact
    BY <1>1, <1>6 DEF HostContact, Exit
  <1>7. CASE HostAnswer
    BY <1>1, <1>7 DEF HostAnswer, Exit
  <1>8. CASE HostMarker
    BY <1>1, <1>8 DEF HostMarker, Exit
  <1>9. CASE HostFinal
    <2>1. ~UNCHANGED host
      BY <1>2
    <2> QED
      BY <1>1, <1>9, <2>1 DEF HostFinal, Exit
  <1>10. CASE HostKill
    BY <1>1, <1>10 DEF HostKill, Exit
  <1> QED
    BY <1>2, <1>3, <1>4, <1>5, <1>6, <1>7, <1>8, <1>9, <1>10 DEF UploadNext, HostStep

-----------------------------------------------------------------------------
\* When the tool of an undisturbed session ends with exit code 0, every line
\* of its file is in memory, the start address is that of the file, and the
\* bootloader has left for the application or for the monitor.
THEOREM UploadOkMeansLoaded ==
    ASSUME FromObjcopy
    PROVE  UploadSpec => OkMeansLoaded
PROOF
  <1>1. ASSUME UploadTypeOK, UploadInv, [UploadNext]_uploadvars
        PROVE  [Ends("ok") /\ Clean /\ ~opt.nowait =>
                   /\ Loaded(Len(file))
                   /\ tpc \in IF opt.jump THEN {"start", "app"} ELSE {"monitor"}]_uploadvars
    <2>1. SUFFICES ASSUME Ends("ok"), Clean, ~opt.nowait
                   PROVE  /\ Loaded(Len(file))
                          /\ tpc \in IF opt.jump THEN {"start", "app"} ELSE {"monitor"}
      OBVIOUS
    <2>2. Session /\ Handshaking
      BY <1>1, <2>1, Undisturbing DEF Ends
    <2>3. HostFinal
      BY <1>1, <2>1, WaysOut
    <2>4. Leaving
      BY <2>2, <2>3, HandshakeFinal
    <2> QED
      BY <2>4 DEF Leaving
  <1>2. UploadSpec => [](UploadTypeOK /\ UploadInv)
    BY UploadInvariant, UploadAssumption
  <1> QED
    BY <1>1, <1>2, PTL DEF UploadSpec, OkMeansLoaded

\* In an undisturbed session no symbol arrives while the receive register of
\* the target, which has no buffer, still holds one.
THEOREM UploadNothingLost ==
    ASSUME FromObjcopy
    PROVE  UploadSpec => NothingLost
PROOF
  <1>1. ASSUME UploadTypeOK, UploadInv, [UploadNext]_uploadvars
        PROVE  [Arrive /\ Clean /\ Open => held = None]_uploadvars
    <2>1. SUFFICES ASSUME Arrive, Clean, Open PROVE held = None
      OBVIOUS
    <2>2. toTarget # <<>> /\ (tout = <<>> => held = None)
      BY <2>1 DEF Arrive
    <2>3. CASE opt.nowait
      BY <1>1, <2>1, <2>2, <2>3, Undisturbing DEF Streaming
    <2>4. CASE ~opt.nowait
      <3>1. Session /\ Handshaking
        BY <1>1, <2>1, <2>4, Undisturbing
      <3>2. CASE Calling \/ Marking \/ (Writing /\ AtEnd) \/ \E w, k : Within(w, k)
        BY <2>2, <3>2 DEF Calling, Marking, Writing, Within, Way
      <3>3. CASE Met \/ Meeting \/ Answered \/ Leaving
        BY <2>2, <3>3 DEF Met, Meeting, Answered, Leaving, Clear
      <3> QED
        BY <3>1, <3>2, <3>3, Stages
    <2> QED
      BY <2>3, <2>4
  <1>2. UploadSpec => [](UploadTypeOK /\ UploadInv)
    BY UploadInvariant, UploadAssumption
  <1> QED
    BY <1>1, <1>2, PTL DEF UploadSpec, NothingLost

\* A patient tool that is not disturbed fails in one way only: the window has
\* closed before its key arrived, and the application has started.
THEOREM UploadFailsOnlyAtWindow ==
    ASSUME FromObjcopy
    PROVE  UploadSpec => FailsOnlyAtWindow
PROOF
  <1>1. ASSUME UploadTypeOK, UploadInv, [UploadNext]_uploadvars
        PROVE  [\A c \in {"6", "8", "9"} :
                    Ends(c) /\ Clean => c = "6" /\ tpc = "app"]_uploadvars
    <2>1. SUFFICES ASSUME NEW c \in {"6", "8", "9"}, Ends(c), Clean
                   PROVE  c = "6" /\ tpc = "app"
      OBVIOUS
    <2>2. \/ HostContact /\ c = "6" /\ MayTimeOut
          \/ HostAnswer /\ c = "8" /\ MayTimeOut
          \/ HostFinal /\ c = "9" /\ MayTimeOut
      BY <1>1, <2>1, WaysOut
    <2>3. hpc \in {"contact", "answer", "final"}
      BY <2>2 DEF HostContact, HostAnswer, HostFinal
    <2>4. ~opt.nowait
      BY <1>1, <2>3 DEF UploadInv, Positions
    <2>5. Session /\ Handshaking
      BY <1>1, <2>1, <2>4, Undisturbing DEF Ends
    <2>6. hpc = "contact" /\ tpc = "app"
      BY <2>2, <2>3, <2>5, HandshakeSilent
    <2> QED
      BY <2>2, <2>6 DEF HostAnswer, HostFinal
  <1>2. UploadSpec => [](UploadTypeOK /\ UploadInv)
    BY UploadInvariant, UploadAssumption
  <1> QED
    BY <1>1, <1>2, PTL DEF UploadSpec, FailsOnlyAtWindow
=============================================================================
