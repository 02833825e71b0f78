------------------------------ MODULE SpiProofs ------------------------------
(***************************************************************************)
(* Theorems about module Spi, for every register width, set of frame       *)
(* lengths, prescaler and clock mode: the bus is at rest when TC is set,   *)
(* and a transfer exchanges the two words bit by bit.                      *)
(***************************************************************************)
EXTENDS Spi, SequenceTheorems, TLAPS

Register == Word(Width)
Counts == 0..(Width - 1)
Times == 0..127
States == {"idle", "first", "second", "leadout"}
SpiType == [cpol : Bit, cpha : Bit, size : Sizes, pre : Prescalers,
            tc : BOOLEAN, data : Register, start : BOOLEAN, state : States,
            txbuffer : Register, rxbuffer : Register,
            bittimer : Times, shiftcounter : Counts, mosi : Bit, sck : Bit]

SlaveType == [offer : Seq(Bit), taken : Seq(Bit), miso : Bit]

-----------------------------------------------------------------------------
(* Words and registers *)

\* The registers have at least one bit; the cleared register is one.
LEMMA WidthType == Width \in Nat \ {0} /\ Zeros \in Register
<1>1. Width \in Nat \ {0}
  BY SpiAssumption
<1>2. Zeros \in Register
  BY DEF Zeros, Register, Word, Bit
<1> QED
  BY <1>1, <1>2

\* A frame fits the register, and its last bit fits the bit counter.
LEMMA SizeRange ==
    ASSUME NEW n \in Sizes
    PROVE  n \in 1..Width /\ n \in Nat /\ n - 1 \in Counts
  BY SpiAssumption DEF Counts

\* A clock mode is a pair of bits.
LEMMA ModeBits ==
    ASSUME NEW m \in Modes
    PROVE  m[1] \in Bit /\ m[2] \in Bit
  BY SpiAssumption DEF Bit

\* A prescaler fits the bit timer.
LEMMA PrescalerRange == \A p \in Prescalers : p \in Times
  BY SpiAssumption DEF Times

\* A shifted register: every bit moves one place to the left.
LEMMA ShiftedRegister ==
    ASSUME NEW w \in Register, NEW b \in Bit
    PROVE  /\ ShiftLeft(w, b) \in Register
           /\ \A i \in 1..(Width - 1) : ShiftLeft(w, b)[i] = w[i + 1]
           /\ ShiftLeft(w, b)[Width] = b
<1>1. \A i \in 1..Width : i < Width => i + 1 \in 1..Width
  BY WidthType
<1>2. \A i \in 1..Width : (IF i < Width THEN w[i + 1] ELSE b) \in Bit
  BY <1>1 DEF Register, Word
<1>3. ShiftLeft(w, b) \in Register
  BY <1>2 DEF ShiftLeft, Register, Word
<1>4. \A i \in 1..(Width - 1) : ShiftLeft(w, b)[i] = w[i + 1]
  BY WidthType DEF ShiftLeft
<1>5. ShiftLeft(w, b)[Width] = b
  BY WidthType DEF ShiftLeft
<1> QED
  BY <1>3, <1>4, <1>5

\* The left-most bit of a register exists, so MOSI gets a bit.
LEMMA FirstBit ==
    ASSUME NEW w \in Register
    PROVE  w[1] \in Bit
  BY WidthType DEF Register, Word

\* A frame at the left of the register.
LEMMA AlignedFrame ==
    ASSUME NEW n \in Sizes, NEW w \in Word(n)
    PROVE  /\ LeftAlign(w, n) \in Register
           /\ \A i \in 1..n : LeftAlign(w, n)[i] = w[i]
<1>1. n \in 1..Width /\ n \in Nat
  BY SizeRange
<1>2. \A i \in 1..Width : (IF i <= n THEN w[i] ELSE 0) \in Bit
  BY <1>1 DEF Word, Bit
<1>3. LeftAlign(w, n) \in Register
  BY <1>2 DEF LeftAlign, Register, Word
<1>4. \A i \in 1..n : LeftAlign(w, n)[i] = w[i]
  BY <1>1, WidthType DEF LeftAlign
<1> QED
  BY <1>3, <1>4

\* The bits of a frame at the right of the register.
LEMMA LowBitsAre ==
    ASSUME NEW n \in Sizes, NEW w, NEW v \in Word(n),
           \A i \in 1..n : w[Width - n + i] = v[i]
    PROVE  LowBits(w, n) = v
  BY DEF LowBits, Word

\* A sequence with the elements of a word is that word.
LEMMA SameWord ==
    ASSUME NEW n \in Nat, NEW w \in Word(n), NEW q \in Seq(Bit), Len(q) = n,
           \A i \in 1..n : q[i] = w[i]
    PROVE  q = w
<1>1. q \in [1..n -> Bit]
  BY LenProperties
<1> QED
  BY <1>1 DEF Word

-----------------------------------------------------------------------------
(* Types *)

\* The accesses of the driver keep the registers in their ranges.
LEMMA NoAccessType ==
    ASSUME NEW s \in SpiType
    PROVE  Access(s, NoAccess) = [s EXCEPT !.start = FALSE]
<1>1. NoAccess.reg = "none"
  BY DEF NoAccess
<1> QED
  BY <1>1 DEF Access

\* Reading DATA clears TC and nothing else but the start flag.
LEMMA DataReadType ==
    ASSUME NEW s \in SpiType
    PROVE  Access(s, [reg |-> "dataread"]) = [s EXCEPT !.start = FALSE, !.tc = FALSE]
  BY DEF Access, SpiType

\* Writing DATA asks for a transfer of the word, left-aligned.
LEMMA DataWriteType ==
    ASSUME NEW s \in SpiType, NEW w \in Word(s.size)
    PROVE  Access(s, [reg |-> "datawrite", word |-> w]) =
             [s EXCEPT !.start = TRUE, !.tc = FALSE, !.data = Zeros,
                       !.txbuffer = LeftAlign(w, s.size), !.shiftcounter = s.size - 1]
  BY DEF Access, SpiType

\* Writing CTRL sets the mode, the frame length and the prescaler.
LEMMA CtrlType ==
    ASSUME NEW s \in SpiType, NEW b \in CtrlWrites
    PROVE  Access(s, b) =
             [s EXCEPT !.start = FALSE, !.cpol = b.mode[1], !.cpha = b.mode[2],
                       !.size = b.size, !.pre = b.pre, !.sck = b.mode[1]]
  BY DEF Access, CtrlWrites, SpiType

-----------------------------------------------------------------------------
(* One clock edge without an access, state by state *)

\* A clock cycle is the step of the state the transfer machine is in.
LEMMA ClockIs ==
    ASSUME NEW b, Clock(b)
    PROVE  /\ spi.state = "idle" => spi' = Idle(spi, Access(spi, b))
           /\ spi.state = "first" => spi' = First(spi, Access(spi, b), slave.miso)
           /\ spi.state = "second" => spi' = Second(spi, Access(spi, b), slave.miso)
           /\ spi.state = "leadout" => spi' = Leadout(spi, Access(spi, b))
  BY DEF Clock, ClockIdle, ClockFirst, ClockSecond, ClockLeadout

\* The mode, the frame length and the two buffers are those of s.
SameMode(s, n) == n.cpol = s.cpol /\ n.cpha = s.cpha /\ n.size = s.size
SameBuffers(s, n) == n.txbuffer = s.txbuffer /\ n.rxbuffer = s.rxbuffer
SameBit(s, n) == /\ n.state = s.state /\ n.sck = s.sck /\ n.mosi = s.mosi
                 /\ n.shiftcounter = s.shiftcounter

\* What the first half of a cycle without an access leaves.
Untouched(s, n) ==
    /\ n \in SpiType /\ n.start = FALSE
    /\ n.tc = s.tc /\ n.data = s.data
    /\ SameMode(s, n) /\ SameBuffers(s, n) /\ SameBit(s, n)

\* Without an access the register file reaches the machine as it was.
LEMMA NoAccessUntouched ==
    ASSUME NEW s \in SpiType
    PROVE  Untouched(s, Access(s, NoAccess))
<1> DEFINE n == [s EXCEPT !.start = FALSE]
<1>1. Untouched(s, n)
  BY Zenon DEF Untouched, SameMode, SameBuffers, SameBit, SpiType
<1> QED
  BY <1>1, NoAccessType

\* The ranges that the new values fall in.
LEMMA NewValues ==
    ASSUME NEW s \in SpiType, NEW miso \in Bit
    PROVE  /\ ShiftLeft(s.txbuffer, 0) \in Register
           /\ ShiftLeft(s.rxbuffer, miso) \in Register
           /\ s.txbuffer[1] \in Bit /\ ShiftLeft(s.txbuffer, 0)[1] \in Bit
           /\ 1 - s.cpol \in Bit /\ spimosidefault \in Bit /\ s.pre \in Times
           /\ s.bittimer > 0 => s.bittimer - 1 \in Times
           /\ s.shiftcounter > 0 => s.shiftcounter - 1 \in Counts
           /\ Zeros \in Register
           /\ "idle" \in States /\ "first" \in States
           /\ "second" \in States /\ "leadout" \in States
<1>1. /\ s.txbuffer \in Register /\ s.rxbuffer \in Register /\ s.cpol \in Bit
      /\ s.bittimer \in Times /\ s.shiftcounter \in Counts /\ s.pre \in Prescalers
  BY DEF SpiType
<1>2. 0 \in Bit /\ 1 - s.cpol \in Bit /\ spimosidefault \in Bit
  BY <1>1 DEF Bit, spimosidefault
<1>3. /\ ShiftLeft(s.txbuffer, 0) \in Register
      /\ ShiftLeft(s.rxbuffer, miso) \in Register
  BY <1>1, <1>2, ShiftedRegister
<1>4. s.txbuffer[1] \in Bit /\ ShiftLeft(s.txbuffer, 0)[1] \in Bit
  BY <1>1, <1>3, FirstBit
<1>5. s.bittimer > 0 => s.bittimer - 1 \in Times
  BY <1>1 DEF Times
<1>6. s.shiftcounter > 0 => s.shiftcounter - 1 \in Counts
  BY <1>1, WidthType DEF Counts
<1>7. s.pre \in Times
  BY <1>1, PrescalerRange
<1> QED
  BY <1>2, <1>3, <1>4, <1>5, <1>6, <1>7, WidthType DEF States

\* The machine rests until it is started.
LEMMA IdleRests ==
    ASSUME NEW s \in SpiType, NEW n \in SpiType, ~s.start
    PROVE  LET r == Idle(s, n) IN
           /\ r \in SpiType /\ SameMode(n, r)
           /\ r.state = n.state /\ r.start = n.start /\ r.tc = n.tc /\ r.data = n.data
           /\ r.sck = n.sck /\ r.shiftcounter = n.shiftcounter
           /\ r.txbuffer = n.txbuffer /\ r.rxbuffer = Zeros
<1>1. Zeros \in Register /\ s.pre \in Times /\ spimosidefault \in Bit
  BY NewValues DEF Bit
<1> QED
  BY <1>1, Zenon DEF Idle, SameMode, SpiType

\* A started transfer puts out its first bit.
LEMMA IdleBegins ==
    ASSUME NEW s \in SpiType, NEW n \in SpiType, s.start, Untouched(s, n)
    PROVE  LET r == Idle(s, n) IN
           /\ r \in SpiType /\ SameMode(s, r)
           /\ r.tc = s.tc /\ r.shiftcounter = s.shiftcounter
           /\ r.mosi = s.txbuffer[1]
           /\ s.cpha = 0 => /\ r.state = "first" /\ r.sck = s.cpol
                            /\ r.txbuffer = s.txbuffer
           /\ s.cpha # 0 => /\ r.state = "second" /\ r.sck = 1 - s.cpol
                            /\ r.txbuffer = ShiftLeft(s.txbuffer, 0)
<1>1. /\ ShiftLeft(s.txbuffer, 0) \in Register /\ s.txbuffer[1] \in Bit
      /\ 1 - s.cpol \in Bit /\ s.pre \in Times /\ Zeros \in Register
      /\ "first" \in States /\ "second" \in States
  BY NewValues DEF Bit
<1>2. CASE s.cpha = 0
  BY <1>1, <1>2, Zenon DEF Idle, Untouched, SameMode, SameBuffers, SameBit, SpiType
<1>3. CASE s.cpha # 0
  BY <1>1, <1>3, Zenon DEF Idle, Untouched, SameMode, SameBuffers, SameBit, SpiType
<1> QED
  BY <1>2, <1>3

\* Inside a bit only the timer moves.
LEMMA Waits ==
    ASSUME NEW s \in SpiType, NEW n \in SpiType, Untouched(s, n), s.bittimer > 0,
           NEW miso \in Bit
    PROVE  /\ Untouched(s, First(s, n, miso)) /\ Untouched(s, Second(s, n, miso))
           /\ LET r == Leadout(s, n) IN
              /\ r \in SpiType /\ SameMode(s, r) /\ SameBuffers(s, r) /\ SameBit(s, r)
              /\ r.tc = s.tc /\ r.start = FALSE
<1>1. s.bittimer - 1 \in Times /\ s.rxbuffer \in Register
  BY NewValues DEF SpiType
<1> DEFINE r == [n EXCEPT !.bittimer = s.bittimer - 1]
<1>2. First(s, n, miso) = r /\ Second(s, n, miso) = r
  BY DEF First, Second
<1>3. Untouched(s, r)
  BY <1>1, Zenon DEF Untouched, SameMode, SameBuffers, SameBit, SpiType
<1>4. LET q == Leadout(s, n) IN
      /\ q \in SpiType /\ SameMode(s, q) /\ SameBuffers(s, q) /\ SameBit(s, q)
      /\ q.tc = s.tc /\ q.start = FALSE
  BY <1>1, Zenon DEF Leadout, Untouched, SameMode, SameBuffers, SameBit, SpiType
<1> QED
  BY <1>2, <1>3, <1>4

\* The end of the first half of a bit: the leading edge of the clock.
LEMMA FirstEnds ==
    ASSUME NEW s \in SpiType, NEW n \in SpiType, Untouched(s, n), ~(s.bittimer > 0),
           NEW miso \in Bit
    PROVE  LET r == First(s, n, miso) IN
           /\ r \in SpiType /\ SameMode(s, r)
           /\ r.state = "second" /\ r.sck = 1 - s.cpol
           /\ r.tc = s.tc /\ r.shiftcounter = s.shiftcounter
           /\ s.cpha = 0 => /\ r.rxbuffer = ShiftLeft(s.rxbuffer, miso)
                            /\ r.txbuffer = s.txbuffer /\ r.mosi = s.mosi
           /\ s.cpha # 0 => /\ r.txbuffer = ShiftLeft(s.txbuffer, 0)
                            /\ r.rxbuffer = s.rxbuffer /\ r.mosi = s.txbuffer[1]
<1>1. /\ ShiftLeft(s.txbuffer, 0) \in Register
      /\ ShiftLeft(s.rxbuffer, miso) \in Register
      /\ s.txbuffer[1] \in Bit /\ 1 - s.cpol \in Bit /\ s.pre \in Times
      /\ "second" \in States
  BY NewValues
<1>2. CASE s.cpha = 0
  BY <1>1, <1>2, Zenon DEF First, Untouched, SameMode, SameBuffers, SameBit, SpiType
<1>3. CASE s.cpha # 0
  BY <1>1, <1>3, Zenon DEF First, Untouched, SameMode, SameBuffers, SameBit, SpiType
<1> QED
  BY <1>2, <1>3

\* The end of the second half of a bit that is not the last.
LEMMA SecondEnds ==
    ASSUME NEW s \in SpiType, NEW n \in SpiType, Untouched(s, n), ~(s.bittimer > 0),
           s.shiftcounter > 0, NEW miso \in Bit
    PROVE  LET r == Second(s, n, miso) IN
           /\ r \in SpiType /\ SameMode(s, r)
           /\ r.state = "first" /\ r.sck = s.cpol
           /\ r.tc = s.tc /\ r.shiftcounter = s.shiftcounter - 1
           /\ s.cpha = 0 => /\ r.txbuffer = ShiftLeft(s.txbuffer, 0)
                            /\ r.mosi = ShiftLeft(s.txbuffer, 0)[1]
                            /\ r.rxbuffer = s.rxbuffer
           /\ s.cpha # 0 => /\ r.rxbuffer = ShiftLeft(s.rxbuffer, miso)
                            /\ r.txbuffer = s.txbuffer
<1>1. /\ ShiftLeft(s.txbuffer, 0) \in Register
      /\ ShiftLeft(s.rxbuffer, miso) \in Register
      /\ ShiftLeft(s.txbuffer, 0)[1] \in Bit /\ s.pre \in Times
      /\ s.shiftcounter - 1 \in Counts /\ s.cpol \in Bit
      /\ "first" \in States
  BY NewValues DEF SpiType
<1>2. CASE s.cpha = 0
  BY <1>1, <1>2, Zenon DEF Second, Untouched, SameMode, SameBuffers, SameBit, SpiType
<1>3. CASE s.cpha # 0
  BY <1>1, <1>3, Zenon DEF Second, Untouched, SameMode, SameBuffers, SameBit, SpiType
<1> QED
  BY <1>2, <1>3

\* The end of the last bit.
LEMMA SecondLast ==
    ASSUME NEW s \in SpiType, NEW n \in SpiType, Untouched(s, n), ~(s.bittimer > 0),
           ~(s.shiftcounter > 0), NEW miso \in Bit
    PROVE  LET r == Second(s, n, miso) IN
           /\ r \in SpiType /\ SameMode(s, r)
           /\ r.sck = s.cpol /\ r.start = FALSE
           /\ s.cpol = 1 => r.state = "leadout" /\ r.tc = s.tc
           /\ s.cpol # 1 => r.state = "idle" /\ r.tc = TRUE /\ r.data = s.rxbuffer
           /\ s.cpha = 0 => r.rxbuffer = s.rxbuffer
           /\ s.cpha # 0 => r.rxbuffer = ShiftLeft(s.rxbuffer, miso)
<1>1. /\ ShiftLeft(s.txbuffer, 0) \in Register
      /\ ShiftLeft(s.rxbuffer, miso) \in Register
      /\ ShiftLeft(s.txbuffer, 0)[1] \in Bit /\ s.pre \in Times /\ s.cpol \in Bit
      /\ spimosidefault \in Bit /\ s.rxbuffer \in Register
      /\ "idle" \in States /\ "leadout" \in States
  BY NewValues DEF SpiType
<1> DEFINE k == IF s.cpha = 0
                THEN LET t == ShiftLeft(s.txbuffer, 0)
                     IN  [[n EXCEPT !.bittimer = s.pre, !.sck = s.cpol]
                            EXCEPT !.txbuffer = t, !.mosi = t[1]]
                ELSE [[n EXCEPT !.bittimer = s.pre, !.sck = s.cpol]
                        EXCEPT !.rxbuffer = ShiftLeft(s.rxbuffer, miso)]
<1>2. /\ k \in SpiType /\ SameMode(s, k) /\ k.sck = s.cpol
      /\ k.tc = s.tc /\ k.start = FALSE
      /\ s.cpha = 0 => k.rxbuffer = s.rxbuffer
      /\ s.cpha # 0 => k.rxbuffer = ShiftLeft(s.rxbuffer, miso)
  <2>1. CASE s.cpha = 0
    BY <1>1, <2>1, Zenon DEF Untouched, SameMode, SameBuffers, SpiType
  <2>2. CASE s.cpha # 0
    BY <1>1, <2>2, Zenon DEF Untouched, SameMode, SameBuffers, SpiType
  <2> QED
    BY <2>1, <2>2
<1>3. Second(s, n, miso) = LastBit(s, k)
  BY DEF Second
<1> HIDE DEF k
<1>4. LET r == LastBit(s, k) IN
      /\ r \in SpiType /\ SameMode(s, r)
      /\ r.sck = s.cpol /\ r.start = FALSE /\ r.rxbuffer = k.rxbuffer
      /\ s.cpol = 1 => r.state = "leadout" /\ r.tc = s.tc
      /\ s.cpol # 1 => r.state = "idle" /\ r.tc = TRUE /\ r.data = s.rxbuffer
  <2>1. CASE s.cpol = 1
    BY <1>1, <1>2, <2>1, Zenon DEF LastBit, SameMode, SpiType
  <2>2. CASE s.cpol # 1
    BY <1>1, <1>2, <2>2, Zenon DEF LastBit, SameMode, SpiType
  <2> QED
    BY <2>1, <2>2
<1> QED
  BY <1>2, <1>3, <1>4, Zenon

\* The end of the leadout.
LEMMA LeadoutEnds ==
    ASSUME NEW s \in SpiType, NEW n \in SpiType, Untouched(s, n), ~(s.bittimer > 0)
    PROVE  LET r == Leadout(s, n) IN
           /\ r \in SpiType /\ SameMode(s, r) /\ r.start = FALSE
           /\ r.state = "idle" /\ r.sck = s.cpol /\ r.tc = TRUE
           /\ r.data = s.rxbuffer
<1>1. /\ s.cpol \in Bit /\ spimosidefault \in Bit /\ s.rxbuffer \in Register
      /\ "idle" \in States
  BY NewValues DEF SpiType, Bit
<1> QED
  BY <1>1, Zenon DEF Leadout, Untouched, SameMode, SpiType

-----------------------------------------------------------------------------
(* The invariant *)

\* The clock pin and TC follow the state of the machine; the driver touches
\* the registers only while the machine is at rest.
Wires ==
    /\ spi \in SpiType /\ slave \in SlaveType
    /\ spi.sck = IF spi.state = "second" THEN 1 - spi.cpol ELSE spi.cpol
    /\ spi.state = "leadout" => spi.cpol = 1
    /\ spi.tc => spi.state = "idle" /\ ~spi.start
ControlInv ==
    /\ Wires
    /\ drv \in {"ready", "polling", "reading"}
    /\ drv # "polling" => spi.state = "idle" /\ ~spi.start

\* The first n bits have gone over: the slave has taken them, a register has
\* received them, the rest is still to be sent or to be offered.
Taken(n) == Len(slave.taken) = n /\ \A i \in 1..n : slave.taken[i] = sent[i]
Received(w, n) == \A i \in 1..n : w[Width - n + i] = served[i]
ToSend(n) == \A i \in 1..(spi.size - n) : spi.txbuffer[i] = sent[i + n]
ToOffer(n) == /\ Len(slave.offer) = spi.size - n
              /\ \A i \in 1..(spi.size - n) : slave.offer[i] = served[i + n]

\* The bits that are complete, and in the middle of a bit the sides that are
\* one ahead: which these are depends on the mode.
Complete == spi.size - 1 - spi.shiftcounter
Ahead(here) == IF here THEN Complete + 1 ELSE Complete

Pending ==
    /\ spi.shiftcounter = spi.size - 1
    /\ Taken(0) /\ ToSend(0)
    /\ spi.cpha = 0 => ToOffer(1) /\ slave.miso = served[1]
    /\ spi.cpha # 0 => ToOffer(0)

Moving ==
    /\ spi.shiftcounter <= spi.size - 1
    /\ Taken(Ahead(spi.state = "second" /\ spi.cpha = 0))
    /\ Received(spi.rxbuffer, Ahead(spi.state = "second" /\ spi.cpha = 0))
    /\ ToSend(Ahead(spi.state = "second" /\ spi.cpha # 0))
    /\ ToOffer(Ahead(spi.state = "second" \/ spi.cpha = 0))
    /\ spi.state = "second" \/ spi.cpha = 0 =>
         spi.mosi = sent[Complete + 1] /\ slave.miso = served[Complete + 1]

Over == /\ Taken(spi.size)
        /\ <<spi.cpol, spi.cpha>> # <<0, 1>> => Received(spi.data, spi.size)

Exchange ==
    /\ sent \in Word(spi.size) /\ served \in Word(spi.size)
    /\ spi.state = "idle" /\ spi.start => Pending
    /\ spi.state \in {"first", "second"} => Moving
    /\ spi.state = "leadout" => Taken(spi.size) /\ Received(spi.rxbuffer, spi.size)
    /\ spi.state = "idle" /\ ~spi.start => Over

\* From the call of spi1_transfer until the next one the two words are going
\* over or have gone over, and what was returned is still in DATA.
ExchangeInv ==
    /\ ControlInv
    /\ drv # "ready" \/ ret # <<>> => Exchange
    /\ ret # <<>> => drv = "ready" /\ ret = spi.data

-----------------------------------------------------------------------------
(* The slave at a clock edge *)

\* The slave does nothing while the clock pin keeps its level.
LEMMA NoEdge ==
    ASSUME NEW v, NEW s, NEW n, n.sck = s.sck
    PROVE  SlaveEdge(v, s, n) = v
  BY DEF SlaveEdge

\* At the sampling edge of the mode the slave takes the bit on MOSI.
LEMMA TakingEdge ==
    ASSUME NEW v \in SlaveType, NEW s, NEW n, n.sck # s.sck, s.mosi \in Bit,
           (n.sck # s.cpol) = (s.cpha = 0)
    PROVE  LET r == SlaveEdge(v, s, n) IN
           /\ r \in SlaveType /\ r.taken = Append(v.taken, s.mosi)
           /\ r.offer = v.offer /\ r.miso = v.miso
<1>1. SlaveEdge(v, s, n) = [v EXCEPT !.taken = Append(v.taken, s.mosi)]
  BY DEF SlaveEdge, SlaveTake
<1>2. Append(v.taken, s.mosi) \in Seq(Bit)
  BY DEF SlaveType
<1> QED
  BY <1>1, <1>2, Zenon DEF SlaveType

\* At the other edge it puts its next bit on MISO.
LEMMA ShiftingEdge ==
    ASSUME NEW v \in SlaveType, NEW s, NEW n, n.sck # s.sck,
           (n.sck # s.cpol) # (s.cpha = 0)
    PROVE  LET r == SlaveEdge(v, s, n) IN
           /\ r \in SlaveType /\ r.taken = v.taken
           /\ Len(v.offer) > 0 => r.miso = v.offer[1] /\ r.offer = Tail(v.offer)
<1> DEFINE miso == IF v.offer = <<>> THEN 0 ELSE Head(v.offer)
           offer == IF v.offer = <<>> THEN <<>> ELSE Tail(v.offer)
<1>1. SlaveEdge(v, s, n) = [v EXCEPT !.miso = miso, !.offer = offer]
  BY DEF SlaveEdge, SlaveShift
<1>2. v.offer \in Seq(Bit)
  BY DEF SlaveType
<1>3. /\ miso \in Bit /\ offer \in Seq(Bit)
      /\ Len(v.offer) > 0 => miso = v.offer[1] /\ offer = Tail(v.offer)
  BY <1>2 DEF Bit
<1> HIDE DEF miso, offer
<1> QED
  BY <1>1, <1>3, Zenon DEF SlaveType

-----------------------------------------------------------------------------
(* A clock edge of a transfer *)

Quiet == /\ Clock(NoAccess)
         /\ slave' = SlaveEdge(slave, spi, spi')
         /\ UNCHANGED <<sent, served>>

\* The ranges of what the steps below calculate with.
LEMMA Ranges ==
    ASSUME Wires
    PROVE  /\ spi.size \in Sizes /\ spi.size \in Nat /\ spi.size <= Width /\ spi.size > 0
           /\ Width \in Nat /\ spi.shiftcounter \in Nat
           /\ spi.txbuffer \in Register /\ spi.rxbuffer \in Register
           /\ slave.taken \in Seq(Bit) /\ slave.offer \in Seq(Bit)
           /\ spi.mosi \in Bit /\ slave.miso \in Bit
           /\ spi.cpol \in {0, 1} /\ spi.cpha \in {0, 1}
           /\ 1 - spi.cpol # spi.cpol
<1>1. /\ spi.size \in Sizes /\ spi.shiftcounter \in Counts
      /\ spi.txbuffer \in Register /\ spi.rxbuffer \in Register
      /\ slave.taken \in Seq(Bit) /\ slave.offer \in Seq(Bit)
      /\ spi.mosi \in Bit /\ slave.miso \in Bit
      /\ spi.cpol \in Bit /\ spi.cpha \in Bit
  BY DEF Wires, SpiType, SlaveType
<1>2. spi.size \in 1..Width /\ Width \in Nat
  BY <1>1, SizeRange, WidthType
<1>3. spi.shiftcounter \in Nat
  BY <1>1, WidthType DEF Counts
<1>4. spi.cpol \in {0, 1} /\ spi.cpha \in {0, 1} /\ 1 - spi.cpol # spi.cpol
  BY <1>1 DEF Bit
<1> QED
  BY <1>1, <1>2, <1>3, <1>4

-----------------------------------------------------------------------------
(* One more bit *)

\* The slave takes the bit on MOSI.
LEMMA TakeOne ==
    ASSUME Wires, NEW n \in Nat, Taken(n), spi.mosi = sent[n + 1],
           slave'.taken = Append(slave.taken, spi.mosi), sent' = sent
    PROVE  Taken(n + 1)'
<1>1. Len(slave'.taken) = n + 1
  BY Ranges DEF Taken
<1>2. \A i \in 1..(n + 1) : slave'.taken[i] = IF i <= n THEN slave.taken[i] ELSE spi.mosi
  BY Ranges DEF Taken
<1>3. \A i \in 1..(n + 1) : slave'.taken[i] = sent[i]
  BY <1>2 DEF Taken
<1> QED
  BY <1>1, <1>3 DEF Taken

\* The master samples MISO.
LEMMA ReceiveOne ==
    ASSUME Wires, NEW n \in Nat, n < spi.size, Received(spi.rxbuffer, n),
           slave.miso = served[n + 1], served' = served,
           spi'.rxbuffer = ShiftLeft(spi.rxbuffer, slave.miso)
    PROVE  Received(spi.rxbuffer, n + 1)'
<1> SUFFICES ASSUME NEW i \in 1..(n + 1)
             PROVE  spi'.rxbuffer[Width - (n + 1) + i] = served[i]
  BY DEF Received
<1>0. Width \in Nat \ {0} /\ n < Width
  BY WidthType, Ranges
<1>1. CASE i = n + 1
  <2>1. Width - (n + 1) + i = Width
    BY <1>0, <1>1
  <2> QED
    BY <1>1, <2>1, Ranges, ShiftedRegister
<1>2. CASE i # n + 1
  <2>1. /\ i \in 1..n /\ Width - (n + 1) + i \in 1..(Width - 1)
        /\ Width - (n + 1) + i + 1 = Width - n + i
    BY <1>0, <1>2
  <2>2. spi'.rxbuffer[Width - (n + 1) + i] = spi.rxbuffer[Width - n + i]
    BY <2>1, Ranges, ShiftedRegister
  <2> QED
    BY <2>1, <2>2 DEF Received
<1> QED
  BY <1>1, <1>2

\* The bit at the left of the transmit buffer is the next one to be sent.
LEMMA NextToSend ==
    ASSUME Wires, NEW n \in Nat, n < spi.size, ToSend(n)
    PROVE  spi.txbuffer[1] = sent[n + 1]
<1>1. 1 \in 1..(spi.size - n)
  BY Ranges
<1> QED
  BY <1>1 DEF ToSend

\* The master shifts out one more bit.
LEMMA SendOne ==
    ASSUME Wires, NEW n \in Nat, n < spi.size, ToSend(n), sent' = sent,
           spi'.size = spi.size, spi'.txbuffer = ShiftLeft(spi.txbuffer, 0)
    PROVE  /\ ToSend(n + 1)'
           /\ n + 1 < spi.size => spi'.txbuffer[1] = sent[n + 2]
<1>1. ASSUME NEW i \in 1..(spi.size - (n + 1))
      PROVE  spi'.txbuffer[i] = sent[i + (n + 1)]
  <2>1. /\ i \in 1..(Width - 1) /\ i + 1 \in 1..(spi.size - n)
        /\ i + 1 + n = i + (n + 1)
    BY Ranges
  <2>2. spi'.txbuffer[i] = spi.txbuffer[i + 1]
    BY <2>1, Ranges, ShiftedRegister DEF Bit
  <2> QED
    BY <2>1, <2>2 DEF ToSend
<1>2. n + 1 < spi.size => 1 \in 1..(spi.size - (n + 1)) /\ 1 + (n + 1) = n + 2
  BY Ranges
<1> QED
  BY <1>1, <1>2 DEF ToSend

\* The slave puts its next bit on MISO.
LEMMA OfferOne ==
    ASSUME Wires, NEW n \in Nat, n < spi.size, ToOffer(n), served' = served,
           spi'.size = spi.size,
           Len(slave.offer) > 0 => /\ slave'.miso = slave.offer[1]
                                   /\ slave'.offer = Tail(slave.offer)
    PROVE  ToOffer(n + 1)' /\ slave'.miso = served[n + 1]
<1>1. /\ slave.offer \in Seq(Bit) /\ Len(slave.offer) = spi.size - n
      /\ Len(slave.offer) > 0 /\ slave.offer # <<>> /\ 1 \in 1..(spi.size - n)
  BY Ranges DEF ToOffer
<1>2. slave'.miso = served[n + 1]
  BY <1>1 DEF ToOffer
<1>3. Len(Tail(slave.offer)) = spi.size - (n + 1)
  BY <1>1, Ranges
<1>4. \A i \in 1..(spi.size - (n + 1)) : Tail(slave.offer)[i] = slave.offer[i + 1]
  BY <1>1, <1>3
<1>5. \A i \in 1..(spi.size - (n + 1)) :
        i + 1 \in 1..(spi.size - n) /\ i + 1 + n = i + (n + 1)
  BY Ranges
<1>6. \A i \in 1..(spi.size - (n + 1)) : slave'.offer[i] = served[i + (n + 1)]
  BY <1>1, <1>4, <1>5 DEF ToOffer
<1> QED
  BY <1>1, <1>2, <1>3, <1>6 DEF ToOffer

-----------------------------------------------------------------------------
(* The steps of a transfer *)

\* The machine at rest.
LEMMA QuietRest ==
    ASSUME Wires, Clock(NoAccess), spi.state = "idle", ~spi.start
    PROVE  /\ spi' \in SpiType /\ SameMode(spi, spi') /\ spi'.state = "idle"
           /\ ~spi'.start /\ spi'.tc = spi.tc /\ spi'.data = spi.data
           /\ spi'.sck = spi.sck
<1>1. spi \in SpiType /\ spi' = Idle(spi, Access(spi, NoAccess))
  BY ClockIs DEF Wires
<1>2. Untouched(spi, Access(spi, NoAccess))
  BY <1>1, NoAccessUntouched
<1> DEFINE n == Access(spi, NoAccess)
<1>3. LET r == Idle(spi, n) IN
      /\ r \in SpiType /\ SameMode(n, r)
      /\ r.state = n.state /\ r.start = n.start /\ r.tc = n.tc /\ r.data = n.data
      /\ r.sck = n.sck
  BY <1>1, <1>2, IdleRests DEF Untouched
<1> QED
  BY <1>1, <1>2, <1>3 DEF Untouched, SameMode, SameBit

\* A cycle at rest: what was exchanged stays exchanged.
LEMMA RestStep ==
    ASSUME Wires, Exchange, Quiet, spi.state = "idle", ~spi.start
    PROVE  Wires' /\ Exchange'
<1>1. /\ spi' \in SpiType /\ SameMode(spi, spi') /\ spi'.state = "idle"
      /\ ~spi'.start /\ spi'.tc = spi.tc /\ spi'.data = spi.data
      /\ spi'.sck = spi.sck
  BY QuietRest DEF Quiet
<1>2. slave' = slave
  BY <1>1, NoEdge DEF Quiet
<1>3. Wires'
  BY <1>1, <1>2 DEF Wires, SameMode
<1>4. Over'
  BY <1>1, <1>2 DEF Exchange, Over, Taken, Received, SameMode, Quiet
<1> QED
  BY <1>1, <1>2, <1>3, <1>4 DEF Exchange, SameMode, Quiet

\* The first edge of a transfer.
LEMMA BeginStep ==
    ASSUME Wires, Exchange, Quiet, spi.state = "idle", spi.start
    PROVE  Wires' /\ Exchange'
<1>1. spi \in SpiType /\ spi' = Idle(spi, Access(spi, NoAccess))
  BY ClockIs DEF Wires, Quiet
<1>2. /\ Untouched(spi, Access(spi, NoAccess))
      /\ Access(spi, NoAccess) \in SpiType
  BY <1>1, NoAccessUntouched DEF Untouched
<1>3. LET r == Idle(spi, Access(spi, NoAccess)) IN
      /\ r \in SpiType /\ SameMode(spi, r)
      /\ r.tc = spi.tc /\ r.shiftcounter = spi.shiftcounter
      /\ r.mosi = spi.txbuffer[1]
      /\ spi.cpha = 0 => /\ r.state = "first" /\ r.sck = spi.cpol
                         /\ r.txbuffer = spi.txbuffer
      /\ spi.cpha # 0 => /\ r.state = "second" /\ r.sck = 1 - spi.cpol
                         /\ r.txbuffer = ShiftLeft(spi.txbuffer, 0)
  BY <1>1, <1>2, IdleBegins
<1> USE Ranges
<1>4. Pending /\ ~spi.tc /\ spi.sck = spi.cpol
  BY DEF Exchange, Wires
<1>5. /\ Complete' = 0 /\ spi'.mosi = sent[1] /\ spi'.size = spi.size
      /\ spi'.shiftcounter = spi'.size - 1
  BY <1>1, <1>3, <1>4, NextToSend DEF Complete, Pending, SameMode
<1>6. CASE spi.cpha = 0
  <2>1. slave' = slave /\ spi'.state = "first" /\ spi'.sck = spi.cpol
    BY <1>1, <1>3, <1>4, <1>6, NoEdge DEF Quiet
  <2>2. Wires'
    BY <1>1, <1>3, <1>4, <1>6, <2>1 DEF Wires, SameMode
  <2>3. /\ Taken(0)' /\ ToSend(0)' /\ ToOffer(1)' /\ Received(spi.rxbuffer, 0)'
        /\ slave'.miso = served'[1] /\ spi'.mosi = sent'[1]
    BY <1>1, <1>3, <1>4, <1>5, <1>6, <2>1
       DEF Pending, Taken, ToSend, ToOffer, Received, Quiet
  <2> QED
    BY <1>1, <1>3, <1>5, <1>6, <2>1, <2>2, <2>3
       DEF Exchange, Moving, Ahead, SameMode, Quiet
<1>7. CASE spi.cpha # 0
  <2>1. spi'.state = "second" /\ spi'.sck = 1 - spi.cpol
    BY <1>1, <1>3, <1>7
  <2>2. /\ slave' \in SlaveType /\ slave'.taken = slave.taken
        /\ Len(slave.offer) > 0 => /\ slave'.miso = slave.offer[1]
                                   /\ slave'.offer = Tail(slave.offer)
    BY <1>4, <1>7, <2>1, ShiftingEdge DEF Wires, Quiet
  <2>3. Wires'
    BY <1>1, <1>3, <1>4, <1>7, <2>1, <2>2 DEF Wires, SameMode
  <2>4. /\ Taken(0)' /\ ToSend(0 + 1)' /\ ToOffer(0 + 1)'
        /\ Received(spi.rxbuffer, 0)'
        /\ slave'.miso = served'[1] /\ spi'.mosi = sent'[1]
    <3>1. Taken(0)' /\ Received(spi.rxbuffer, 0)'
      BY <1>4, <2>2 DEF Pending, Taken, Received, Quiet
    <3>2. ToSend(0 + 1)'
      BY <1>1, <1>3, <1>4, <1>5, <1>7, SendOne DEF Pending, Quiet
    <3>3. ToOffer(0 + 1)' /\ slave'.miso = served[0 + 1]
      BY <1>4, <1>5, <1>7, <2>2, OfferOne DEF Pending, Quiet
    <3> QED
      BY <1>5, <3>1, <3>2, <3>3 DEF Quiet
  <2> QED
    BY <1>1, <1>3, <1>5, <1>7, <2>1, <2>3, <2>4
       DEF Exchange, Moving, Ahead, SameMode, Quiet
<1> QED
  BY <1>6, <1>7

\* A cycle inside a bit.
LEMMA WaitStep ==
    ASSUME Wires, Exchange, Quiet, spi.state # "idle", spi.bittimer > 0
    PROVE  Wires' /\ Exchange'
<1>1. /\ spi \in SpiType /\ slave.miso \in Bit /\ spi.state \in States
      /\ Untouched(spi, Access(spi, NoAccess))
      /\ Access(spi, NoAccess) \in SpiType
  BY Ranges, NoAccessUntouched DEF Wires, Untouched, SpiType
<1>w. /\ Untouched(spi, First(spi, Access(spi, NoAccess), slave.miso))
      /\ Untouched(spi, Second(spi, Access(spi, NoAccess), slave.miso))
      /\ LET r == Leadout(spi, Access(spi, NoAccess)) IN
         /\ r \in SpiType /\ SameMode(spi, r) /\ SameBuffers(spi, r)
         /\ SameBit(spi, r) /\ r.tc = spi.tc
  BY <1>1, Waits
<1>2. /\ spi' \in SpiType /\ SameMode(spi, spi') /\ SameBuffers(spi, spi')
      /\ SameBit(spi, spi') /\ spi'.tc = spi.tc
  <2>1. CASE spi.state = "first"
    <3>1. spi' = First(spi, Access(spi, NoAccess), slave.miso)
      BY <2>1, ClockIs DEF Quiet
    <3> QED
      BY <1>w, <3>1 DEF Untouched
  <2>2. CASE spi.state = "second"
    <3>1. spi' = Second(spi, Access(spi, NoAccess), slave.miso)
      BY <2>2, ClockIs DEF Quiet
    <3> QED
      BY <1>w, <3>1 DEF Untouched
  <2>3. CASE spi.state = "leadout"
    <3>1. spi' = Leadout(spi, Access(spi, NoAccess))
      BY <2>3, ClockIs DEF Quiet
    <3> QED
      BY <1>w, <3>1
  <2> QED
    BY <1>1, <2>1, <2>2, <2>3 DEF States
<1>3. slave' = slave
  BY <1>2, NoEdge DEF Quiet, SameBit
<1>4. Wires'
  BY <1>2, <1>3 DEF Wires, SameMode, SameBit
<1>5. Moving => Moving'
  BY <1>2, <1>3 DEF Moving, Ahead, Complete, Taken, Received, ToSend, ToOffer,
                    SameMode, SameBuffers, SameBit, Quiet
<1>6. Taken(spi.size) /\ Received(spi.rxbuffer, spi.size)
      => (Taken(spi.size) /\ Received(spi.rxbuffer, spi.size))'
  BY <1>2, <1>3 DEF Taken, Received, SameMode, SameBuffers, Quiet
<1> QED
  BY <1>2, <1>3, <1>4, <1>5, <1>6 DEF Exchange, SameMode, SameBit, Quiet

\* The leading edge of the clock, in the middle of a bit.
LEMMA FirstStep ==
    ASSUME Wires, Exchange, Quiet, spi.state = "first", ~(spi.bittimer > 0)
    PROVE  Wires' /\ Exchange'
<1>1. /\ spi \in SpiType /\ slave.miso \in Bit
      /\ spi' = First(spi, Access(spi, NoAccess), slave.miso)
      /\ Untouched(spi, Access(spi, NoAccess))
      /\ Access(spi, NoAccess) \in SpiType
  BY Ranges, ClockIs, NoAccessUntouched DEF Wires, Untouched, Quiet
<1>2. LET r == First(spi, Access(spi, NoAccess), slave.miso) IN
      /\ r \in SpiType /\ SameMode(spi, r)
      /\ r.state = "second" /\ r.sck = 1 - spi.cpol
      /\ r.tc = spi.tc /\ r.shiftcounter = spi.shiftcounter
      /\ spi.cpha = 0 => /\ r.rxbuffer = ShiftLeft(spi.rxbuffer, slave.miso)
                         /\ r.txbuffer = spi.txbuffer /\ r.mosi = spi.mosi
      /\ spi.cpha # 0 => /\ r.txbuffer = ShiftLeft(spi.txbuffer, 0)
                         /\ r.rxbuffer = spi.rxbuffer /\ r.mosi = spi.txbuffer[1]
  BY <1>1, FirstEnds
<1>3. Moving /\ ~spi.tc /\ spi.sck = spi.cpol
  BY DEF Exchange, Wires
<1> USE Ranges
<1>4. PICK k \in Nat : k = Complete /\ k < spi.size
  BY <1>3 DEF Complete, Moving
<1>5. /\ Complete' = k /\ spi'.size = spi.size /\ spi'.state = "second"
      /\ spi'.shiftcounter <= spi'.size - 1 /\ spi'.cpha = spi.cpha
      /\ Taken(k) /\ Received(spi.rxbuffer, k) /\ ToSend(k)
  BY <1>1, <1>2, <1>3, <1>4 DEF Complete, Moving, Ahead, SameMode
<1>6. CASE spi.cpha = 0
  <2>1. /\ slave' \in SlaveType /\ slave'.taken = Append(slave.taken, spi.mosi)
        /\ slave'.offer = slave.offer /\ slave'.miso = slave.miso
    BY <1>1, <1>2, <1>3, <1>6, TakingEdge DEF Wires, Quiet
  <2>2. Wires'
    BY <1>1, <1>2, <1>3, <1>6, <2>1 DEF Wires, SameMode
  <2>3. ToOffer(k + 1) /\ spi.mosi = sent[k + 1] /\ slave.miso = served[k + 1]
    BY <1>3, <1>4, <1>6 DEF Moving, Ahead
  <2>4. Taken(k + 1)' /\ Received(spi.rxbuffer, k + 1)'
    BY <1>1, <1>2, <1>4, <1>5, <1>6, <2>1, <2>3, TakeOne, ReceiveOne DEF Quiet
  <2>5. /\ spi'.txbuffer = spi.txbuffer /\ spi'.mosi = spi.mosi
        /\ sent' = sent /\ served' = served
    BY <1>1, <1>2, <1>6 DEF Quiet
  <2>6. ToSend(k)'
    BY <1>5, <2>5 DEF ToSend
  <2>7. ToOffer(k + 1)'
    BY <1>5, <2>1, <2>3, <2>5 DEF ToOffer
  <2>8. spi'.mosi = sent'[k + 1] /\ slave'.miso = served'[k + 1]
    BY <2>1, <2>3, <2>5
  <2> QED
    BY <1>5, <1>6, <2>2, <2>4, <2>6, <2>7, <2>8 DEF Exchange, Moving, Ahead, Quiet
<1>7. CASE spi.cpha # 0
  <2>1. /\ slave' \in SlaveType /\ slave'.taken = slave.taken
        /\ Len(slave.offer) > 0 => /\ slave'.miso = slave.offer[1]
                                   /\ slave'.offer = Tail(slave.offer)
    BY <1>1, <1>2, <1>3, <1>7, ShiftingEdge DEF Wires, Quiet
  <2>2. Wires'
    BY <1>1, <1>2, <1>3, <1>7, <2>1 DEF Wires, SameMode
  <2>3. ToOffer(k)
    BY <1>3, <1>4, <1>7 DEF Moving, Ahead
  <2>4. ToSend(k + 1)' /\ spi'.mosi = sent'[k + 1]
    BY <1>1, <1>2, <1>4, <1>5, <1>7, SendOne, NextToSend DEF Quiet
  <2>5. ToOffer(k + 1)' /\ slave'.miso = served'[k + 1]
    BY <1>4, <1>5, <2>1, <2>3, OfferOne DEF Quiet
  <2>6. Taken(k)' /\ Received(spi.rxbuffer, k)'
    BY <1>1, <1>2, <1>5, <1>7, <2>1 DEF Taken, Received, Quiet
  <2> QED
    BY <1>5, <1>7, <2>2, <2>4, <2>5, <2>6 DEF Exchange, Moving, Ahead, Quiet
<1> QED
  BY <1>6, <1>7

\* The trailing edge of a bit that is not the last.
LEMMA SecondStep ==
    ASSUME Wires, Exchange, Quiet, spi.state = "second", ~(spi.bittimer > 0),
           spi.shiftcounter > 0
    PROVE  Wires' /\ Exchange'
<1>1. /\ spi \in SpiType /\ slave.miso \in Bit
      /\ spi' = Second(spi, Access(spi, NoAccess), slave.miso)
      /\ Untouched(spi, Access(spi, NoAccess))
      /\ Access(spi, NoAccess) \in SpiType
  BY Ranges, ClockIs, NoAccessUntouched DEF Wires, Untouched, Quiet
<1>2. LET r == Second(spi, Access(spi, NoAccess), slave.miso) IN
      /\ r \in SpiType /\ SameMode(spi, r)
      /\ r.state = "first" /\ r.sck = spi.cpol
      /\ r.tc = spi.tc /\ r.shiftcounter = spi.shiftcounter - 1
      /\ spi.cpha = 0 => /\ r.txbuffer = ShiftLeft(spi.txbuffer, 0)
                         /\ r.mosi = ShiftLeft(spi.txbuffer, 0)[1]
                         /\ r.rxbuffer = spi.rxbuffer
      /\ spi.cpha # 0 => /\ r.rxbuffer = ShiftLeft(spi.rxbuffer, slave.miso)
                         /\ r.txbuffer = spi.txbuffer
  BY <1>1, SecondEnds
<1>3. Moving /\ ~spi.tc /\ spi.sck = 1 - spi.cpol
  BY DEF Exchange, Wires
<1> USE Ranges
<1>4. PICK k \in Nat : k = Complete /\ k + 1 < spi.size
  BY <1>3 DEF Complete, Moving
<1>5. /\ Complete' = k + 1 /\ spi'.size = spi.size /\ spi'.state = "first"
      /\ spi'.shiftcounter <= spi'.size - 1 /\ spi'.cpha = spi.cpha
      /\ spi.mosi = sent[k + 1] /\ slave.miso = served[k + 1] /\ ToOffer(k + 1)
  BY <1>1, <1>2, <1>3, <1>4 DEF Complete, Moving, Ahead, SameMode
<1>6. CASE spi.cpha = 0
  <2>1. /\ slave' \in SlaveType /\ slave'.taken = slave.taken
        /\ Len(slave.offer) > 0 => /\ slave'.miso = slave.offer[1]
                                   /\ slave'.offer = Tail(slave.offer)
    BY <1>1, <1>2, <1>3, <1>6, ShiftingEdge DEF Wires, Quiet
  <2>2. Wires'
    BY <1>1, <1>2, <1>3, <1>6, <2>1 DEF Wires, SameMode
  <2>3. Taken(k + 1) /\ Received(spi.rxbuffer, k + 1) /\ ToSend(k)
    BY <1>3, <1>4, <1>6 DEF Moving, Ahead
  <2>4. ToSend(k + 1)' /\ spi'.mosi = sent'[k + 2]
    BY <1>1, <1>2, <1>4, <1>5, <1>6, <2>3, SendOne DEF Quiet
  <2>5. ToOffer(k + 2)' /\ slave'.miso = served'[k + 2]
    <3>1. ToOffer((k + 1) + 1)' /\ slave'.miso = served[(k + 1) + 1]
      BY <1>4, <1>5, <2>1, OfferOne DEF Quiet
    <3>2. (k + 1) + 1 = k + 2
      OBVIOUS
    <3> QED
      BY <3>1, <3>2 DEF Quiet
  <2>6. Taken(k + 1)' /\ Received(spi.rxbuffer, k + 1)'
    BY <1>1, <1>2, <1>5, <1>6, <2>1, <2>3 DEF Taken, Received, Quiet
  <2> QED
    BY <1>5, <1>6, <2>2, <2>4, <2>5, <2>6 DEF Exchange, Moving, Ahead, Quiet
<1>7. CASE spi.cpha # 0
  <2>1. /\ slave' \in SlaveType /\ slave'.taken = Append(slave.taken, spi.mosi)
        /\ slave'.offer = slave.offer /\ slave'.miso = slave.miso
    BY <1>1, <1>2, <1>3, <1>7, TakingEdge DEF Wires, Quiet
  <2>2. Wires'
    BY <1>1, <1>2, <1>3, <1>7, <2>1 DEF Wires, SameMode
  <2>3. Taken(k) /\ Received(spi.rxbuffer, k) /\ ToSend(k + 1)
    BY <1>3, <1>4, <1>7 DEF Moving, Ahead
  <2>4. /\ Taken(k + 1)'
        /\ Received(spi.rxbuffer, k + 1)'
    <3>1. /\ spi'.rxbuffer = ShiftLeft(spi.rxbuffer, slave.miso)
          /\ sent' = sent /\ served' = served
      BY <1>1, <1>2, <1>7 DEF Quiet
    <3>2. Taken(k + 1)'
      BY <1>4, <1>5, <2>1, <2>3, <3>1, TakeOne
    <3>3. Received(spi.rxbuffer, k + 1)'
      BY <1>4, <1>5, <2>3, <3>1, ReceiveOne
    <3> QED
      BY <3>2, <3>3
  <2>5. ToSend(k + 1)' /\ ToOffer(k + 1)'
    BY <1>1, <1>2, <1>5, <1>7, <2>1, <2>3 DEF ToSend, ToOffer, Quiet
  <2> QED
    BY <1>5, <1>7, <2>2, <2>4, <2>5 DEF Exchange, Moving, Ahead, Quiet
<1> QED
  BY <1>6, <1>7

\* The trailing edge of the last bit.
LEMMA LastStep ==
    ASSUME Wires, Exchange, Quiet, spi.state = "second", ~(spi.bittimer > 0),
           ~(spi.shiftcounter > 0)
    PROVE  Wires' /\ Exchange'
<1>1. /\ spi \in SpiType /\ slave.miso \in Bit
      /\ spi' = Second(spi, Access(spi, NoAccess), slave.miso)
      /\ Untouched(spi, Access(spi, NoAccess))
      /\ Access(spi, NoAccess) \in SpiType
  BY Ranges, ClockIs, NoAccessUntouched DEF Wires, Untouched, Quiet
<1>2. LET r == Second(spi, Access(spi, NoAccess), slave.miso) IN
      /\ r \in SpiType /\ SameMode(spi, r)
      /\ r.sck = spi.cpol /\ r.start = FALSE
      /\ spi.cpol = 1 => r.state = "leadout" /\ r.tc = spi.tc
      /\ spi.cpol # 1 => r.state = "idle" /\ r.tc = TRUE /\ r.data = spi.rxbuffer
      /\ spi.cpha = 0 => r.rxbuffer = spi.rxbuffer
      /\ spi.cpha # 0 => r.rxbuffer = ShiftLeft(spi.rxbuffer, slave.miso)
  BY <1>1, SecondLast
<1>3. Moving /\ ~spi.tc /\ spi.sck = 1 - spi.cpol
  BY DEF Exchange, Wires
<1> USE Ranges
<1>4. PICK k \in Nat : k = Complete /\ k + 1 = spi.size
  BY <1>3 DEF Complete, Moving
<1>5. /\ spi'.size = spi.size /\ spi'.cpol = spi.cpol /\ spi'.cpha = spi.cpha
      /\ spi.mosi = sent[k + 1] /\ slave.miso = served[k + 1]
  BY <1>1, <1>2, <1>3, <1>4 DEF Moving, SameMode
<1>6. slave' \in SlaveType /\ Taken(k + 1)'
  <2>1. CASE spi.cpha = 0
    <3>1. slave' \in SlaveType /\ slave'.taken = slave.taken
      BY <1>1, <1>2, <1>3, <2>1, ShiftingEdge DEF Wires, Quiet
    <3>2. Taken(k + 1)
      BY <1>3, <1>4, <2>1 DEF Moving, Ahead
    <3> QED
      BY <3>1, <3>2 DEF Taken, Quiet
  <2>2. CASE spi.cpha # 0
    <3>1. slave' \in SlaveType /\ slave'.taken = Append(slave.taken, spi.mosi)
      BY <1>1, <1>2, <1>3, <2>2, TakingEdge DEF Wires, Quiet
    <3>2. Taken(k)
      BY <1>3, <1>4, <2>2 DEF Moving, Ahead
    <3> QED
      BY <1>5, <3>1, <3>2, TakeOne DEF Quiet
  <2> QED
    BY <2>1, <2>2
<1>7. Received(spi.rxbuffer, k + 1)'
  <2>1. CASE spi.cpha = 0
    <3>1. Received(spi.rxbuffer, k + 1)
      BY <1>3, <1>4, <2>1 DEF Moving, Ahead
    <3> QED
      BY <1>1, <1>2, <2>1, <3>1 DEF Received, Quiet
  <2>2. CASE spi.cpha # 0
    <3>1. Received(spi.rxbuffer, k)
      BY <1>3, <1>4, <2>2 DEF Moving, Ahead
    <3> QED
      BY <1>1, <1>2, <1>4, <1>5, <2>2, <3>1, ReceiveOne DEF Quiet
  <2> QED
    BY <2>1, <2>2
<1>8. Wires'
  BY <1>1, <1>2, <1>3, <1>5, <1>6 DEF Wires
<1>9. CASE spi.cpol = 1
  BY <1>1, <1>2, <1>4, <1>5, <1>6, <1>7, <1>8, <1>9 DEF Exchange, Quiet
<1>10. CASE spi.cpol # 1
  <2>1. spi'.state = "idle" /\ ~spi'.start /\ spi'.data = spi.rxbuffer /\ spi.cpol = 0
    BY <1>1, <1>2, <1>10
  <2>2. <<spi'.cpol, spi'.cpha>> # <<0, 1>> => Received(spi.data, spi.size)'
    <3>1. <<spi'.cpol, spi'.cpha>> # <<0, 1>> => spi.cpha = 0
      BY <1>5, <2>1
    <3>2. spi.cpha = 0 => Received(spi.rxbuffer, k + 1)
      BY <1>3, <1>4 DEF Moving, Ahead
    <3> QED
      BY <1>4, <1>5, <2>1, <3>1, <3>2 DEF Received, Quiet
  <2>3. Over'
    BY <1>4, <1>5, <1>6, <2>2 DEF Over
  <2> QED
    BY <1>5, <1>8, <2>1, <2>3 DEF Exchange, Quiet
<1> QED
  BY <1>9, <1>10

\* The end of the leadout.
LEMMA LeadoutStep ==
    ASSUME Wires, Exchange, Quiet, spi.state = "leadout", ~(spi.bittimer > 0)
    PROVE  Wires' /\ Exchange'
<1>1. /\ spi \in SpiType /\ spi' = Leadout(spi, Access(spi, NoAccess))
      /\ Untouched(spi, Access(spi, NoAccess))
      /\ Access(spi, NoAccess) \in SpiType
  BY ClockIs, NoAccessUntouched DEF Wires, Untouched, Quiet
<1>2. LET r == Leadout(spi, Access(spi, NoAccess)) IN
      /\ r \in SpiType /\ SameMode(spi, r) /\ r.start = FALSE
      /\ r.state = "idle" /\ r.sck = spi.cpol /\ r.tc = TRUE
      /\ r.data = spi.rxbuffer
  BY <1>1, LeadoutEnds
<1>3. slave' = slave /\ spi.sck = spi.cpol
  BY <1>1, <1>2, NoEdge DEF Wires, Quiet
<1>4. Wires'
  BY <1>1, <1>2, <1>3 DEF Wires, SameMode
<1>5. Over'
  BY <1>1, <1>2, <1>3 DEF Exchange, Over, Taken, Received, SameMode, Quiet
<1> QED
  BY <1>1, <1>2, <1>4, <1>5 DEF Exchange, SameMode, Quiet

\* Every cycle of the transfer machine without an access keeps the invariant.
LEMMA QuietStep ==
    ASSUME Wires, Exchange, Quiet
    PROVE  Wires' /\ Exchange'
<1>1. spi.state \in States
  BY DEF Wires, SpiType
<1> QED
  BY <1>1, RestStep, BeginStep, WaitStep, FirstStep, SecondStep, LastStep, LeadoutStep
     DEF States

-----------------------------------------------------------------------------
(* The driver *)

\* Nothing has been sent or returned yet.
LEMMA InitExchange == Init => ExchangeInv
<1> SUFFICES ASSUME Init PROVE ExchangeInv
  OBVIOUS
<1>1. PICK m \in Modes, n \in Sizes, p \in Prescalers :
         spi = [cpol |-> m[1], cpha |-> m[2], size |-> n, pre |-> p, tc |-> FALSE,
                data |-> Zeros, start |-> FALSE, state |-> "idle",
                txbuffer |-> Zeros, rxbuffer |-> Zeros, bittimer |-> p,
                shiftcounter |-> 0, mosi |-> spimosidefault, sck |-> m[1]]
  BY DEF Init
<1>2. /\ m[1] \in Bit /\ m[2] \in Bit /\ p \in Times /\ Zeros \in Register
      /\ spimosidefault \in Bit /\ 0 \in Counts /\ "idle" \in States
  BY ModeBits, PrescalerRange, WidthType DEF spimosidefault, Bit, Counts, States
<1>3. spi \in SpiType
  BY <1>1, <1>2, Zenon DEF SpiType
<1>4. slave \in SlaveType
  BY DEF Init, SlaveType, Bit
<1>5. ControlInv
  BY <1>1, <1>3, <1>4 DEF Init, ControlInv, Wires
<1> QED
  BY <1>5 DEF Init, ExchangeInv

\* CTRL is written at rest.
LEMMA SpiInitStep ==
    ASSUME ExchangeInv, NEW b \in CtrlWrites, SpiInit(b)
    PROVE  ExchangeInv'
<1>1. /\ spi \in SpiType /\ spi.state = "idle" /\ ~spi.start
      /\ spi' = Idle(spi, Access(spi, b))
  BY ClockIs DEF SpiInit, ExchangeInv, ControlInv, Wires
<1> DEFINE n == Access(spi, b)
<1>2. /\ b.mode[1] \in Bit /\ b.mode[2] \in Bit /\ b.size \in Sizes
      /\ b.pre \in Prescalers
  BY ModeBits DEF CtrlWrites
<1>3. n = [spi EXCEPT !.start = FALSE, !.cpol = b.mode[1], !.cpha = b.mode[2],
                      !.size = b.size, !.pre = b.pre, !.sck = b.mode[1]]
  BY <1>1, CtrlType
<1>4. /\ n \in SpiType /\ n.start = FALSE /\ n.state = spi.state /\ n.tc = spi.tc
      /\ n.sck = n.cpol
  BY <1>1, <1>2, <1>3, Zenon DEF SpiType
<1> HIDE DEF n
<1>5. LET r == Idle(spi, n) IN
      /\ r \in SpiType /\ SameMode(n, r)
      /\ r.state = n.state /\ r.start = n.start /\ r.tc = n.tc /\ r.sck = n.sck
  BY <1>1, <1>4, IdleRests
<1>6. spi' = Idle(spi, n)
  BY <1>1 DEF n
<1>7. Wires'
  BY <1>1, <1>4, <1>5, <1>6 DEF Wires, SameMode, SpiInit, ExchangeInv, ControlInv
<1> QED
  BY <1>1, <1>4, <1>5, <1>6, <1>7 DEF ExchangeInv, ControlInv, SpiInit

\* DATA is written at rest: a transfer is pending, with nothing exchanged yet.
LEMMA SendStep ==
    ASSUME ExchangeInv, NEW w \in Word(spi.size), NEW v \in Word(spi.size), Send(w, v)
    PROVE  ExchangeInv'
<1>1. /\ spi \in SpiType /\ slave \in SlaveType /\ spi.state = "idle" /\ ~spi.start
      /\ spi' = Idle(spi, Access(spi, [reg |-> "datawrite", word |-> w]))
      /\ Wires
  BY ClockIs DEF Send, ExchangeInv, ControlInv, Wires
<1> DEFINE n == Access(spi, [reg |-> "datawrite", word |-> w])
<1>2. n = [spi EXCEPT !.start = TRUE, !.tc = FALSE, !.data = Zeros,
                      !.txbuffer = LeftAlign(w, spi.size), !.shiftcounter = spi.size - 1]
  BY <1>1, DataWriteType
<1>a. \A i \in 1..spi.size : LeftAlign(w, spi.size)[i] = w[i]
  BY <1>1, Ranges, AlignedFrame
<1>3. /\ LeftAlign(w, spi.size) \in Register
      /\ spi.size \in Sizes /\ spi.size - 1 \in Counts /\ Zeros \in Register
  BY <1>1, Ranges, AlignedFrame, SizeRange, WidthType
<1> HIDE DEF n
<1>4. /\ n \in SpiType /\ n.start /\ n.state = spi.state /\ ~n.tc
      /\ n.sck = spi.sck /\ n.shiftcounter = spi.size - 1
      /\ n.txbuffer = LeftAlign(w, spi.size) /\ SameMode(spi, n)
  BY <1>1, <1>2, <1>3, Zenon DEF SpiType, SameMode
<1>5. LET r == Idle(spi, n) IN
      /\ r \in SpiType /\ SameMode(n, r)
      /\ r.state = n.state /\ r.start = n.start /\ r.tc = n.tc /\ r.sck = n.sck
      /\ r.shiftcounter = n.shiftcounter /\ r.txbuffer = n.txbuffer
  BY <1>1, <1>4, IdleRests
<1>6. spi' = Idle(spi, n)
  BY <1>1 DEF n
<1>r. spi.size \in Nat
  BY <1>1, Ranges
<1>7. /\ spi' \in SpiType /\ SameMode(spi, spi') /\ spi'.state = "idle" /\ spi'.start
      /\ ~spi'.tc /\ spi'.sck = spi.sck /\ spi'.shiftcounter = spi.size - 1
      /\ spi'.txbuffer = LeftAlign(w, spi.size) /\ spi'.size = spi.size
      /\ spi'.cpha = spi.cpha
  BY <1>1, <1>4, <1>5, <1>6 DEF SameMode
<1>8. /\ v \in Seq(Bit) /\ Len(v) = spi.size /\ Len(v) > 0 /\ v # <<>>
  <2>1. v \in [1..spi.size -> Bit] /\ spi.size > 0
    BY <1>1, <1>r, Ranges DEF Word
  <2>2. v \in Seq(Bit) /\ Len(v) = spi.size
    BY <1>r, <2>1
  <2> QED
    BY <2>1, <2>2
<1>9. /\ slave' \in SlaveType /\ slave'.taken = <<>>
      /\ spi.cpha = 0 => slave'.offer = Tail(v) /\ slave'.miso = v[1]
      /\ spi.cpha # 0 => slave'.offer = v
  <2>1. slave' = Select(v, spi.cpha)
    BY DEF Send
  <2>2. Head(v) \in Bit /\ Head(v) = v[1] /\ Tail(v) \in Seq(Bit) /\ <<>> \in Seq(Bit)
        /\ 0 \in Bit
    BY <1>8 DEF Bit
  <2> QED
    BY <1>8, <2>1, <2>2 DEF Select, SlaveType
<1>10. Wires'
  BY <1>1, <1>7, <1>9 DEF Wires, SameMode
<1>11. Pending'
  <2>1. Taken(0)'
    BY <1>9 DEF Taken
  <2>s. ToSend(0)'
    <3>1. spi.size - 0 = spi.size /\ \A i \in 1..spi.size : i + 0 = i
      BY <1>r
    <3>2. \A i \in 1..(spi.size - 0) : spi'.txbuffer[i] = w[i + 0]
      BY <1>7, <1>a, <3>1
    <3> QED
      BY <1>7, <3>2 DEF ToSend, Send
  <2>2. spi.cpha = 0 => ToOffer(1)' /\ slave'.miso = served'[1]
    <3> SUFFICES ASSUME spi.cpha = 0 PROVE ToOffer(1)' /\ slave'.miso = served'[1]
      OBVIOUS
    <3>1. slave'.offer = Tail(v) /\ slave'.miso = v[1] /\ served' = v
      BY <1>9 DEF Send
    <3>2. Len(Tail(v)) = spi.size - 1 /\ \A i \in 1..(spi.size - 1) : Tail(v)[i] = v[i + 1]
      BY <1>8, <1>r
    <3> QED
      BY <1>7, <3>1, <3>2 DEF ToOffer
  <2>3. spi.cpha # 0 => ToOffer(0)'
    BY <1>1, <1>7, <1>8, <1>9, Ranges DEF ToOffer, SameMode, Send
  <2> QED
    BY <1>7, <2>1, <2>s, <2>2, <2>3 DEF Pending, SameMode
<1>12. Exchange'
  BY <1>7, <1>11 DEF Exchange, SameMode, Send
<1> QED
  BY <1>10, <1>12 DEF ExchangeInv, ControlInv, Send

\* DATA is read at rest and returned.
LEMMA ReturnStep ==
    ASSUME ExchangeInv, Return
    PROVE  ExchangeInv'
<1>1. /\ spi \in SpiType /\ spi.state = "idle" /\ ~spi.start /\ Wires /\ Exchange
      /\ spi' = Idle(spi, Access(spi, [reg |-> "dataread"]))
  BY ClockIs DEF Return, ExchangeInv, ControlInv, Wires
<1> DEFINE n == Access(spi, [reg |-> "dataread"])
<1>2. n = [spi EXCEPT !.start = FALSE, !.tc = FALSE]
  BY <1>1, DataReadType
<1>3. /\ n \in SpiType /\ ~n.start /\ n.state = spi.state /\ ~n.tc
      /\ n.sck = spi.sck /\ n.data = spi.data /\ SameMode(spi, n)
  BY <1>1, <1>2, Zenon DEF SpiType, SameMode
<1> HIDE DEF n
<1>4. LET r == Idle(spi, n) IN
      /\ r \in SpiType /\ SameMode(n, r)
      /\ r.state = n.state /\ r.start = n.start /\ r.tc = n.tc /\ r.data = n.data
      /\ r.sck = n.sck
  BY <1>1, <1>3, IdleRests
<1>5. spi' = Idle(spi, n)
  BY <1>1 DEF n
<1>6. /\ spi' \in SpiType /\ SameMode(spi, spi') /\ spi'.state = "idle" /\ ~spi'.start
      /\ ~spi'.tc /\ spi'.sck = spi.sck /\ spi'.data = spi.data
  BY <1>1, <1>3, <1>4, <1>5 DEF SameMode
<1>7. slave' = slave
  BY <1>6, NoEdge DEF Return
<1>8. Wires'
  BY <1>1, <1>6, <1>7 DEF Wires, SameMode
<1>9. Exchange'
  BY <1>1, <1>6, <1>7 DEF Exchange, Over, Taken, Received, SameMode, Return
<1> QED
  BY <1>6, <1>8, <1>9 DEF ExchangeInv, ControlInv, Return

\* Cycles between the accesses, and polls of TC.
LEMMA NoBusStep ==
    ASSUME ExchangeInv, NoBus \/ Poll
    PROVE  ExchangeInv'
<1>1. Wires /\ Clock(NoAccess)
  BY DEF NoBus, Poll, ExchangeInv, ControlInv
<1>2. spi.state = "idle" /\ ~spi.start =>
        /\ spi' \in SpiType /\ SameMode(spi, spi') /\ spi'.state = "idle"
        /\ ~spi'.start /\ spi'.tc = spi.tc /\ spi'.data = spi.data
        /\ spi'.sck = spi.sck
  BY <1>1, QuietRest
<1>3. CASE drv = "ready" /\ NoBus
  <2>1. /\ spi.state = "idle" /\ ~spi.start /\ UNCHANGED <<slave, drv, sent, ret, served>>
    BY <1>3 DEF NoBus, ExchangeInv, ControlInv
  <2>2. Wires'
    BY <1>1, <1>2, <2>1 DEF Wires, SameMode
  <2>3. Exchange => Exchange'
    BY <1>2, <2>1 DEF Exchange, Over, Taken, Received, SameMode
  <2> QED
    BY <1>2, <2>1, <2>2, <2>3 DEF ExchangeInv, ControlInv
<1>4. CASE drv # "ready" /\ NoBus
  <2>1. Exchange /\ Quiet /\ UNCHANGED <<drv, ret>>
    BY <1>1, <1>4 DEF NoBus, Quiet, ExchangeInv
  <2>2. Wires' /\ Exchange'
    BY <1>1, <2>1, QuietStep
  <2> QED
    BY <1>2, <1>4, <2>1, <2>2 DEF ExchangeInv, ControlInv
<1>5. CASE Poll
  <2>1. /\ Exchange /\ Quiet /\ drv = "polling" /\ ret' = ret /\ ret = <<>>
        /\ drv' = IF spi.tc THEN "reading" ELSE "polling"
    BY <1>1, <1>5 DEF Poll, Quiet, ExchangeInv
  <2>2. Wires' /\ Exchange'
    BY <1>1, <2>1, QuietStep
  <2> QED
    BY <1>1, <1>2, <2>1, <2>2 DEF ExchangeInv, ControlInv, Wires
<1> QED
  BY <1>3, <1>4, <1>5

\* Every step of the peripheral, the driver and the slave keeps the invariant.
LEMMA NextExchange == ExchangeInv /\ [Next]_vars => ExchangeInv'
<1> SUFFICES ASSUME ExchangeInv, [Next]_vars PROVE ExchangeInv'
  OBVIOUS
<1>1. CASE NoBus \/ Poll
  BY <1>1, NoBusStep
<1>2. ASSUME NEW b \in CtrlWrites, SpiInit(b) PROVE ExchangeInv'
  BY <1>2, SpiInitStep
<1>3. ASSUME NEW w \in Word(spi.size), NEW v \in Word(spi.size), Send(w, v)
      PROVE  ExchangeInv'
  BY <1>3, SendStep
<1>4. CASE Return
  BY <1>4, ReturnStep
<1>5. CASE UNCHANGED vars
  BY <1>5 DEF vars, ExchangeInv, ControlInv, Wires, Exchange, Pending, Moving, Over,
              Ahead, Complete, Taken, Received, ToSend, ToOffer
<1> QED
  BY <1>1, <1>2, <1>3, <1>4, <1>5 DEF Next

\* At every clock cycle of a transfer of spi.vhd the bits taken by the slave,
\* received by the master, still in the transmit buffer and still offered
\* make up the two words, with the sides that are one bit ahead given by the
\* state of the transfer machine and CTRL.cpha.
THEOREM ExchangeHolds == Spec => []ExchangeInv
  BY InitExchange, NextExchange, PTL DEF Spec

-----------------------------------------------------------------------------
(* What follows for the driver *)

\* The registers of the SPI master keep their types, and the bit counter and
\* the timer stay in the ranges spi.vhd declares for them.
THEOREM TypeCorrect == Spec => []TypeOK
<1>1. ExchangeInv => TypeOK
  BY Zenon DEF ExchangeInv, ControlInv, Wires, SpiType, Register, Counts, Times, States,
               TypeOK
<1> QED
  BY <1>1, ExchangeHolds, PTL

\* When spi1_transfer sees TC the bus is at rest, in every mode.
THEOREM RestWhenComplete == Spec => []CompleteAtRest
<1>1. ExchangeInv => CompleteAtRest
  BY DEF ExchangeInv, ControlInv, Wires, CompleteAtRest
<1> QED
  BY <1>1, ExchangeHolds, PTL

\* One call of spi1_transfer exchanges the two words: for every frame length
\* and prescaler the slave takes exactly the word of the driver, and in every
\* mode but CPOL=0, CPHA=1 the driver returns exactly the word of the slave.
THEOREM ExchangesWords == Spec => []WordsExchanged
<1>1. ExchangeInv => WordsExchanged
  <2> SUFFICES ASSUME ExchangeInv PROVE WordsExchanged
    OBVIOUS
  <2>w. Wires
    BY DEF ExchangeInv, ControlInv
  <2>1. SlaveGetsWord
    <3> SUFFICES ASSUME drv = "reading" \/ ret # <<>> PROVE slave.taken = sent
      BY DEF SlaveGetsWord
    <3>1. Over /\ sent \in Word(spi.size)
      BY DEF ExchangeInv, ControlInv, Exchange
    <3>2. /\ slave.taken \in Seq(Bit) /\ Len(slave.taken) = spi.size /\ spi.size \in Nat
          /\ \A i \in 1..spi.size : slave.taken[i] = sent[i]
      BY <2>w, <3>1, Ranges DEF Over, Taken
    <3> QED
      BY <3>1, <3>2, SameWord
  <2>2. ServedButMode1
    <3> SUFFICES ASSUME <<spi.cpol, spi.cpha>> # <<0, 1>>, ret # <<>>
                 PROVE  LowBits(ret, spi.size) = served
      BY DEF ServedButMode1, ReturnsServed
    <3>1. Over /\ served \in Word(spi.size) /\ ret = spi.data
      BY DEF ExchangeInv, ControlInv, Exchange
    <3>2. spi.size \in Sizes /\ \A i \in 1..spi.size : ret[Width - spi.size + i] = served[i]
      BY <2>w, <3>1, Ranges DEF Over, Received
    <3> QED
      BY <3>1, <3>2, LowBitsAre
  <2> QED
    BY <2>1, <2>2 DEF WordsExchanged
<1> QED
  BY <1>1, ExchangeHolds, PTL
=============================================================================
