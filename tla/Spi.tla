--------------------------------- MODULE Spi ---------------------------------
(***************************************************************************)
(* SPI master peripheral (rtl/thuas-riscv/spi.vhd) driven by the polling   *)
(* driver of the library (sw/lib/spi/spi1_transfer.c) and wired to an SPI  *)
(* slave that works in the same clock mode.                                *)
(*                                                                         *)
(* One step is one rising edge of the system clock.  The VHDL process      *)
(* first performs the register access of the cycle and then runs the       *)
(* transfer state machine; both read the old registers and a later         *)
(* assignment wins.  Access(s, b) is the register file after the first     *)
(* half, and the state machine updates that record with EXCEPT.            *)
(*                                                                         *)
(* The shift registers keep a width (Width; 32 in the hardware) and the    *)
(* frame lengths 8/16/24/32 become the members of Sizes.                   *)
(***************************************************************************)
EXTENDS Naturals, Sequences

CONSTANTS
    Width,        \* width of the shift registers
    Sizes,        \* frame lengths selectable in CTRL.size
    Prescalers,   \* spiprescaler_v: clock cycles of half a bit, minus one
    Modes         \* the pairs <<cpol, cpha>> the software configures

ASSUME SpiAssumption ==
    /\ Width \in Nat \ {0}
    /\ Sizes \subseteq 1..Width
    /\ Prescalers \subseteq 0..127
    /\ Modes \subseteq {0, 1} \X {0, 1}

VARIABLES
    spi,      \* the registers of the peripheral
    drv,      \* where spi1_transfer is: "ready", "polling" or "reading"
    sent,     \* the argument of the last call of spi1_transfer
    ret,      \* what that call returned, <<>> before it returns
    slave,    \* the slave: bits still to offer, bits taken, the MISO pin
    served    \* the word the slave offers in this frame

vars == <<spi, drv, sent, ret, slave, served>>

Bit == {0, 1}
Word(n) == [1..n -> Bit]
Zeros == [i \in 1..Width |-> 0]

\* A register shifted left by one place, b entering at the right.
ShiftLeft(w, b) == [i \in 1..Width |-> IF i < Width THEN w[i + 1] ELSE b]
\* The n right-most bits of a register.
LowBits(w, n) == [i \in 1..n |-> w[Width - n + i]]
\* An n-bit frame at the left of the transmit buffer, zeros after it.
LeftAlign(w, n) == [i \in 1..Width |-> IF i <= n THEN w[i] ELSE 0]

spimosidefault == 1

-----------------------------------------------------------------------------
\* The register access of a clock cycle.

NoAccess == [reg |-> "none"]
CtrlWrites == [reg : {"ctrl"}, mode : Modes, size : Sizes, pre : Prescalers]

\* Mutant: one bit too many is clocked out.
AccessOneMore(s, b) ==
    LET n == [s EXCEPT !.start = FALSE] IN
    CASE b.reg = "ctrl" ->
             [n EXCEPT !.cpol = b.mode[1], !.cpha = b.mode[2], !.size = b.size,
                       !.pre = b.pre, !.sck = b.mode[1]]
      [] b.reg = "datawrite" ->
             [n EXCEPT !.start = TRUE, !.tc = FALSE, !.data = Zeros,
                       !.txbuffer = LeftAlign(b.word, s.size),
                       !.shiftcounter = s.size]
      [] b.reg = "dataread" -> [n EXCEPT !.tc = FALSE]
      [] OTHER -> n

Access(s, b) ==
    LET n == [s EXCEPT !.start = FALSE] IN
    CASE b.reg = "ctrl" ->
             [n EXCEPT !.cpol = b.mode[1], !.cpha = b.mode[2], !.size = b.size,
                       !.pre = b.pre, !.sck = b.mode[1]]
      [] b.reg = "datawrite" ->
             [n EXCEPT !.start = TRUE, !.tc = FALSE, !.data = Zeros,
                       !.txbuffer = LeftAlign(b.word, s.size),
                       !.shiftcounter = s.size - 1]
      [] b.reg = "dataread" -> [n EXCEPT !.tc = FALSE]
      [] OTHER -> n

-----------------------------------------------------------------------------
\* The transfer state machine: s is the old register file, n the one that the
\* register access of this cycle left.

Idle(s, n) ==
    LET m == [n EXCEPT !.rxbuffer = Zeros, !.bittimer = s.pre] IN
    IF ~s.start THEN [m EXCEPT !.mosi = spimosidefault]
    ELSE IF s.cpha = 0
    THEN [m EXCEPT !.state = "first", !.sck = s.cpol, !.mosi = s.txbuffer[1]]
    ELSE [m EXCEPT !.state = "second", !.sck = 1 - s.cpol,
                   !.mosi = s.txbuffer[1], !.txbuffer = ShiftLeft(s.txbuffer, 0)]

First(s, n, miso) ==
    IF s.bittimer > 0 THEN [n EXCEPT !.bittimer = s.bittimer - 1]
    ELSE LET m == [n EXCEPT !.bittimer = s.pre, !.state = "second",
                            !.sck = 1 - s.cpol] IN
         IF s.cpha = 0
         THEN [m EXCEPT !.rxbuffer = ShiftLeft(s.rxbuffer, miso)]
         ELSE [m EXCEPT !.txbuffer = ShiftLeft(s.txbuffer, 0),
                        !.mosi = s.txbuffer[1]]

\* Mutant: TC is set when the leadout begins, not when it ends.
LastBitEarlyTc(s, m) ==
    IF s.cpol = 1
    THEN [m EXCEPT !.state = "leadout", !.tc = TRUE]
    ELSE [m EXCEPT !.sck = s.cpol, !.tc = TRUE, !.mosi = spimosidefault,
                   !.state = "idle", !.data = s.rxbuffer]
\* Mutant: the state machine is left in the last bit.
LastBitStuck(s, m) ==
    [m EXCEPT !.tc = FALSE, !.data = s.rxbuffer]

\* The end of the last bit: with cpol = 1 half a bit of leadout follows,
\* otherwise the transfer completes at once.
LastBit(s, m) ==
    IF s.cpol = 1
    THEN [m EXCEPT !.state = "leadout"]
    ELSE [m EXCEPT !.sck = s.cpol, !.tc = TRUE, !.mosi = spimosidefault,
                   !.state = "idle", !.data = s.rxbuffer]

Second(s, n, miso) ==
    IF s.bittimer > 0 THEN [n EXCEPT !.bittimer = s.bittimer - 1]
    ELSE LET m == [n EXCEPT !.bittimer = s.pre, !.sck = s.cpol]
             k == IF s.cpha = 0
                  THEN LET t == ShiftLeft(s.txbuffer, 0)
                       IN  [m EXCEPT !.txbuffer = t, !.mosi = t[1]]
                  ELSE [m EXCEPT !.rxbuffer = ShiftLeft(s.rxbuffer, miso)]
         IN IF s.shiftcounter > 0
            THEN [k EXCEPT !.shiftcounter = s.shiftcounter - 1, !.state = "first"]
            ELSE LastBit(s, k)

Leadout(s, n) ==
    LET m == [n EXCEPT !.data = s.rxbuffer] IN
    IF s.bittimer > 0 THEN [m EXCEPT !.bittimer = s.bittimer - 1]
    ELSE [m EXCEPT !.sck = s.cpol, !.tc = TRUE, !.mosi = spimosidefault,
                   !.state = "idle"]

-----------------------------------------------------------------------------
\* The slave (external): it offers its bits on MISO and takes the bits on MOSI
\* at the clock edges its mode prescribes.  mosi is the pin before the edge.

Select(w, pha) ==
    IF pha = 0 THEN [offer |-> Tail(w), taken |-> <<>>, miso |-> Head(w)]
    ELSE [offer |-> w, taken |-> <<>>, miso |-> 0]

SlaveShift(v) ==
    [v EXCEPT !.miso = IF v.offer = <<>> THEN 0 ELSE Head(v.offer),
              !.offer = IF v.offer = <<>> THEN <<>> ELSE Tail(v.offer)]
SlaveTake(v, b) == [v EXCEPT !.taken = Append(v.taken, b)]

SlaveEdge(v, s, n) ==
    LET leading == n.sck # s.cpol IN
    IF n.sck = s.sck THEN v
    ELSE IF leading = (s.cpha = 0) THEN SlaveTake(v, s.mosi)
    ELSE SlaveShift(v)

-----------------------------------------------------------------------------
\* A clock cycle with register access b; the four actions are the four states
\* of the transfer machine.

ClockIdle(b) ==
    /\ spi.state = "idle"
    /\ spi' = Idle(spi, Access(spi, b))
ClockFirst(b) ==
    /\ spi.state = "first"
    /\ spi' = First(spi, Access(spi, b), slave.miso)
ClockSecond(b) ==
    /\ spi.state = "second"
    /\ spi' = Second(spi, Access(spi, b), slave.miso)
ClockLeadout(b) ==
    /\ spi.state = "leadout"
    /\ spi' = Leadout(spi, Access(spi, b))

Clock(b) == ClockIdle(b) \/ ClockFirst(b) \/ ClockSecond(b) \/ ClockLeadout(b)

\* Cycles in which the driver makes no access, and each access it makes.
NoBus ==
    /\ Clock(NoAccess)
    /\ slave' = IF drv = "ready" THEN slave ELSE SlaveEdge(slave, spi, spi')
    /\ UNCHANGED <<drv, sent, ret, served>>

\* spi1_init: CTRL is written between transfers, with the slave deselected.
SpiInit(b) ==
    /\ drv = "ready"
    /\ Clock(b)
    /\ ret' = <<>>
    /\ UNCHANGED <<drv, sent, slave, served>>

\* spi1_transfer writes DATA; the slave was selected just before.
Send(w, v) ==
    /\ drv = "ready"
    /\ drv' = "polling"
    /\ Clock([reg |-> "datawrite", word |-> w])
    /\ sent' = w
    /\ ret' = <<>>
    /\ served' = v
    /\ slave' = Select(v, spi.cpha)

\* One round of the polling loop: it ends when STAT.TC is read as one.
Poll ==
    /\ drv = "polling"
    /\ Clock(NoAccess)
    /\ drv' = IF spi.tc THEN "reading" ELSE "polling"
    /\ slave' = SlaveEdge(slave, spi, spi')
    /\ UNCHANGED <<sent, ret, served>>

\* The received word is read and returned.
Return ==
    /\ drv = "reading"
    /\ Clock([reg |-> "dataread"])
    /\ drv' = "ready"
    /\ ret' = spi.data
    /\ slave' = SlaveEdge(slave, spi, spi')
    /\ UNCHANGED <<sent, served>>

Init ==
    \* one clock cycle after the first spi1_init
    /\ \E m \in Modes, n \in Sizes, p \in Prescalers :
          spi = [cpol |-> m[1], cpha |-> m[2], size |-> n, pre |-> p, tc |-> FALSE,
                 data |-> Zeros, start |-> FALSE, state |-> "idle",
                 txbuffer |-> Zeros, rxbuffer |-> Zeros, bittimer |-> p,
                 shiftcounter |-> 0, mosi |-> spimosidefault, sck |-> m[1]]
    /\ drv = "ready" /\ sent = <<>> /\ ret = <<>> /\ served = <<>>
    /\ slave = [offer |-> <<>>, taken |-> <<>>, miso |-> 0]

Next ==
    \/ NoBus
    \/ \E b \in CtrlWrites : SpiInit(b)
    \/ \E w, v \in Word(spi.size) : Send(w, v)
    \/ Poll
    \/ Return

\* The clock runs and the processor keeps executing the polling loop.
Spec == Init /\ [][Next]_vars /\ WF_vars(NoBus) /\ WF_vars(Poll) /\ WF_vars(Return)

-----------------------------------------------------------------------------
TypeOK ==
    /\ spi \in [cpol : Bit, cpha : Bit, size : Sizes, pre : Prescalers,
                tc : BOOLEAN, data : Word(Width), start : BOOLEAN,
                state : {"idle", "first", "second", "leadout"},
                txbuffer : Word(Width), rxbuffer : Word(Width),
                bittimer : 0..127, shiftcounter : 0..(Width - 1),
                mosi : Bit, sck : Bit]
    /\ drv \in {"ready", "polling", "reading"}

\* In every clock mode the slave has taken exactly the word the driver sent,
\* neither a bit more nor a bit less, when the driver sees TC (spi.vhd: the
\* number of SCK pulses and what MOSI carries at each of them).
SlaveGetsWord == (drv = "reading" \/ ret # <<>>) => slave.taken = sent

\* spi1_transfer returns the word the slave offered in this frame.
ReturnsServed == ret # <<>> => LowBits(ret, spi.size) = served

\* It does so in every mode but CPOL=0, CPHA=1, in which the transfer ends
\* without the half bit that samples the last bit.
ServedButMode1 == <<spi.cpol, spi.cpha>> # <<0, 1>> => ReturnsServed

\* One transfer exchanges the two words, bit by bit (spi1_transfer).
WordsExchanged == SlaveGetsWord /\ ServedButMode1

\* TC is only ever set with the bus back at rest: the clock pin at its idle
\* level and no transfer in progress (software deselects the slave on TC).
CompleteAtRest == spi.tc => spi.state = "idle" /\ spi.sck = spi.cpol

\* A call of spi1_transfer returns.
TransferReturns == drv # "ready" ~> drv = "ready"
=============================================================================
