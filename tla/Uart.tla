-------------------------------- MODULE Uart --------------------------------
(***************************************************************************)
(* UART peripheral (rtl/thuas-riscv/uart.vhd): the transmitter of one UART *)
(* wired to the receiver of another, with the polling drivers uart1_putc   *)
(* and uart1_getc (sw/lib/uart) at the two ends.                           *)
(*                                                                         *)
(* One step is one rising edge of the system clock, the same at both ends; *)
(* the frames start at any cycle.  The VHDL process performs the register  *)
(* access of the cycle first and the machines after it; both read the old  *)
(* registers and a later assignment wins.                                  *)
(*                                                                         *)
(* Bits are sequences with the bit that is sent first at the front.  The   *)
(* data sizes 7, 8 and 9 become sizes up to MaxBits; the divider BAUD      *)
(* becomes a few cycles.                                                   *)
(***************************************************************************)
EXTENDS Naturals, Sequences, FiniteSets

CONSTANTS
    MaxBits,      \* width of rxbuffer; 9 in the hardware
    Configs,      \* the settings of CTRL and BAUD that software chooses
    PutDelay,     \* bound: idle cycles between two accesses of uart1_putc
    GetDelay,     \* bound: the same for uart1_getc
    Disturbances  \* lengths of the low pulses that noise puts on the line

ASSUME UartAssumption ==
    /\ MaxBits \in Nat \ {0, 1}
    /\ Configs \subseteq [bits : 1..MaxBits, paron : BOOLEAN, odd : {0, 1},
                          sp2 : BOOLEAN, baud : Nat]
    /\ PutDelay \in Nat \ {0} /\ GetDelay \in Nat \ {0}
    /\ Disturbances \subseteq Nat

VARIABLES
    cfg,      \* CTRL and BAUD, equal at both ends
    tx,       \* the transmitter and TC
    rx,       \* the receiver and its flags
    low,      \* cycles that the line is still held low: noise or a break
    put,      \* uart1_putc: its next access and the cycles since the last
    get,      \* uart1_getc: the same
    queue,    \* history: characters put and not yet got
    got       \* the character uart1_getc returned last, and their parity

vars == <<cfg, tx, rx, low, put, get, queue, got>>

Bit == {0, 1}
Word(n) == [1..n -> Bit]
Ones(n) == [i \in 1..n |-> 1]
Zeros == [i \in 1..MaxBits |-> 0]
xor_reduce(w) == Cardinality({i \in DOMAIN w : w[i] = 1}) % 2
One(b) == IF b THEN 1 ELSE 0
\* The frame with its parity bit and a stop bit, in bits.
FrameBits(c) == c.bits + One(c.paron) + 2

Channel == INSTANCE Channel WITH Chars <- UNION {Word(n) : n \in 1..MaxBits}

-----------------------------------------------------------------------------
\* The transmitter.

BufferBits == MaxBits + 2
\* The transmit buffer: start bit, data, parity bit if any, then ones.
Frame(w) ==
    LET parity == IF cfg.paron THEN <<xor_reduce(Append(w, cfg.odd))>> ELSE <<>>
        frame == <<0>> \o w \o parity
    IN frame \o Ones(BufferBits - Len(frame))

\* The register file of the sender after the access of this cycle.
Written(access) ==
    LET t == [tx EXCEPT !.txstart = FALSE] IN
    IF access.reg # "DATA" THEN t
    ELSE [t EXCEPT !.txstart = TRUE, !.buffer = Frame(access.word), !.tc = FALSE]

\* What is loaded into txshiftcounter, which the declaration bounds by
\* MaxBits + 1; a register that is as wide as that takes the rest as well.
TxBits == cfg.bits + 1 + One(cfg.paron) + One(cfg.sp2)

TxIdle(t) ==
    IF tx.txstart
    THEN [t EXCEPT !.txd = 1, !.timer = cfg.baud, !.count = TxBits, !.state = "iter"]
    ELSE [t EXCEPT !.txd = 1]

TxIter(t) ==
    LET d == [t EXCEPT !.txd = tx.buffer[1]] IN
    IF tx.timer > 0 THEN [d EXCEPT !.timer = tx.timer - 1]
    ELSE IF tx.count > 0
    THEN [d EXCEPT !.timer = cfg.baud, !.count = tx.count - 1,
                   !.buffer = Append(Tail(tx.buffer), 1)]
    ELSE [d EXCEPT !.state = "ready"]

TxReady(t) == [t EXCEPT !.txd = 1, !.state = "idle", !.tc = TRUE]

Transmit(access) ==
    LET t == Written(access) IN
    tx' = CASE tx.state = "idle" -> TxIdle(t)
            [] tx.state = "iter" -> TxIter(t)
            [] tx.state = "ready" -> TxReady(t)

-----------------------------------------------------------------------------
\* The receiver.

\* The pin: the other end's output, unless something pulls the line low.
rxd == IF low > 0 THEN 0 ELSE tx.txd

\* The register file of the receiver after the access of this cycle: a read
\* of DATA clears the flags.
Read(access) ==
    IF access.reg # "DATA" THEN rx
    ELSE [rx EXCEPT !.br = FALSE, !.pe = FALSE, !.rc = FALSE, !.rf = FALSE,
                    !.fe = FALSE]

RxIdle(r) ==
    IF rx.sync = 0 THEN [r EXCEPT !.timer = cfg.baud \div 2, !.state = "wait"] ELSE r

\* Mutant: the start bit is not looked at again after half a bit.
RxWaitUnchecked(r) ==
    LET z == [r EXCEPT !.buffer = Zeros] IN
    IF rx.timer > 0 THEN [z EXCEPT !.timer = rx.timer - 1]
    ELSE [z EXCEPT !.timer = cfg.baud, !.count = cfg.bits, !.state = "iter"]
RxWait(r) ==
    LET z == [r EXCEPT !.buffer = Zeros] IN
    IF rx.timer > 0 THEN [z EXCEPT !.timer = rx.timer - 1]
    ELSE IF rx.sync = 0
    THEN [z EXCEPT !.timer = cfg.baud, !.count = cfg.bits, !.state = "iter"]
    ELSE [z EXCEPT !.state = "fail"]

ShiftedIn == [i \in 1..MaxBits |-> IF i < cfg.bits THEN rx.buffer[i + 1]
                                   ELSE IF i = cfg.bits THEN rx.sync ELSE rx.buffer[i]]

\* Mutant: the parity setting is left out of the check.
ParityErrorEven == xor_reduce(Append(rx.buffer, rx.sync)) = 1
ParityError == xor_reduce(rx.buffer \o <<cfg.odd, rx.sync>>) = 1

RxIter(r) ==
    IF rx.timer > 0 THEN [r EXCEPT !.timer = rx.timer - 1]
    ELSE IF rx.count > 0
    THEN [r EXCEPT !.timer = cfg.baud, !.count = rx.count - 1, !.buffer = ShiftedIn]
    ELSE IF cfg.paron
    THEN [r EXCEPT !.timer = cfg.baud, !.pe = ParityError, !.state = "parity"]
    ELSE [r EXCEPT !.state = "ready"]

RxParity(r) ==
    IF rx.timer > 0 THEN [r EXCEPT !.timer = rx.timer - 1]
    ELSE [r EXCEPT !.state = "ready"]

\* Mutant: a break is an ordinary frame error.
RxReadyNoBreak(r) ==
    [r EXCEPT !.data = rx.buffer, !.fe = r.fe \/ rx.sync = 0, !.rc = TRUE,
              !.state = "idle"]
RxReady(r) ==
    LET d == [r EXCEPT !.data = rx.buffer] IN
    IF rx.sync = 0 /\ rx.buffer = Zeros THEN [d EXCEPT !.state = "break"]
    ELSE [d EXCEPT !.fe = r.fe \/ rx.sync = 0, !.rc = TRUE, !.state = "idle"]

RxBreak(r) == IF rx.sync = 1 THEN [r EXCEPT !.state = "idle", !.br = TRUE] ELSE r
RxFail(r) == [r EXCEPT !.state = "idle", !.rf = TRUE]

Receive(access) ==
    LET r == Read(access)
        n == CASE rx.state = "idle" -> RxIdle(r)
               [] rx.state = "wait" -> RxWait(r)
               [] rx.state = "iter" -> RxIter(r)
               [] rx.state = "parity" -> RxParity(r)
               [] rx.state = "ready" -> RxReady(r)
               [] rx.state = "break" -> RxBreak(r)
               [] rx.state = "fail" -> RxFail(r)
    IN rx' = [n EXCEPT !.sync = rxd]

-----------------------------------------------------------------------------
\* The drivers.  The hart keeps an access on the bus until the registered
\* ready arrives, so two accesses are at least two cycles apart; a polling
\* loop makes the next one after at most PutDelay or GetDelay idle cycles.

NoAccess == [reg |-> "none"]
Later(d, max) == [d EXCEPT !.gap = IF d.gap < max THEN d.gap + 1 ELSE d.gap]
At(pc) == [pc |-> pc, gap |-> 0]

\* uart1_putc casts its argument to a byte: a ninth data bit is zero.
CharBits == IF cfg.bits = MaxBits THEN MaxBits - 1 ELSE cfg.bits
Extended(c) == IF cfg.bits = MaxBits THEN Append(c, 0) ELSE c

\* In each action of the sender, q is the queue after the receiver's part.
PutQuiet(q) ==
    /\ put.pc = "ready" \/ put.gap < PutDelay
    /\ Transmit(NoAccess)
    /\ put' = Later(put, PutDelay)
    /\ queue' = q

\* uart1_putc: UART1->DATA = ch.
PutData(q) ==
    /\ put.pc = "ready" /\ put.gap > 0 /\ low = 0
    /\ \E c \in Word(CharBits) :
           /\ Transmit([reg |-> "DATA", word |-> Extended(c)])
           /\ queue' = Append(q, c)
    /\ put' = At("poll")

\* uart1_putc: while ((UART1->STAT & UART_STAT_TC) == 0).
PutPoll(q) ==
    /\ put.pc = "poll" /\ put.gap > 0
    /\ Transmit([reg |-> "STAT"])
    /\ put' = At(IF tx.tc THEN "ready" ELSE "poll")
    /\ queue' = q

Sender(q) == PutQuiet(q) \/ PutData(q) \/ PutPoll(q)

GetQuiet ==
    /\ get.gap < GetDelay
    /\ Receive(NoAccess)
    /\ get' = Later(get, GetDelay)
    /\ UNCHANGED got

\* uart1_getc: while ((UART1->STAT & UART_STAT_RC) == 0).
GetPoll ==
    /\ get.pc = "poll" /\ get.gap > 0
    /\ Receive([reg |-> "STAT"])
    /\ get' = At(IF rx.rc THEN "read" ELSE "poll")
    /\ UNCHANGED got

\* What a read of the data register returns.
DataRead == rx.buffer

\* uart1_getc: return UART1->DATA & 0xff.
GetData ==
    /\ get.pc = "read" /\ get.gap > 0
    /\ Receive([reg |-> "DATA"])
    /\ get' = At("poll")
    /\ got' = [char |-> SubSeq(DataRead, 1, CharBits), odd |-> ~got.odd]

Rest == IF queue = <<>> THEN <<>> ELSE Tail(queue)

\* Noise, or a break, comes when no character is being sent.
Disturb ==
    /\ low = 0 /\ rx.state = "idle" /\ rx.sync = 1
    /\ put.pc = "ready" /\ put'.pc = "ready"
    /\ low' \in Disturbances
Undisturbed == low' = IF low > 0 THEN low - 1 ELSE 0

Init ==
    /\ cfg \in Configs
    /\ tx = [txstart |-> FALSE, state |-> "idle", buffer |-> [i \in 1..BufferBits |-> 0],
             timer |-> 0, count |-> 0, tc |-> FALSE, txd |-> 1]
    /\ rx = [state |-> "idle", sync |-> 1, timer |-> 0, count |-> 0,
             buffer |-> Zeros, data |-> Zeros, rc |-> FALSE, fe |-> FALSE,
             pe |-> FALSE, rf |-> FALSE, br |-> FALSE]
    /\ low = 0
    /\ put = At("ready") /\ get = At("poll")
    /\ queue = <<>> /\ got = [char |-> <<>>, odd |-> FALSE]

Next ==
    /\ \/ GetData /\ Sender(Rest)
       \/ (GetQuiet \/ GetPoll) /\ Sender(queue)
    /\ Disturb \/ Undisturbed
    /\ UNCHANGED cfg

Spec == Init /\ [][Next]_vars /\ WF_vars(Next)

-----------------------------------------------------------------------------
\* Types of the registers, where the transmitter counts its bits with counts.
Registers(counts) ==
    /\ cfg \in Configs
    /\ tx \in [txstart : BOOLEAN, state : {"idle", "iter", "ready"},
               buffer : Word(BufferBits), timer : 0..cfg.baud,
               count : counts, tc : BOOLEAN, txd : Bit]
    /\ rx \in [state : {"idle", "wait", "iter", "parity", "ready", "break", "fail"},
               sync : Bit, timer : 0..cfg.baud, count : 0..MaxBits,
               buffer : Word(MaxBits), data : Word(MaxBits), rc : BOOLEAN,
               fe : BOOLEAN, pe : BOOLEAN, rf : BOOLEAN, br : BOOLEAN]
    /\ put \in [pc : {"ready", "poll"}, gap : 0..PutDelay]
    /\ get \in [pc : {"poll", "read"}, gap : 0..GetDelay]
    /\ low \in Nat /\ queue \in Seq(Word(CharBits))

\* The types that uart.vhd declares: its txshiftcounter goes to one more than
\* the largest size.  A parity bit and a second stop bit take it further.
TypeOK == Registers(0..MaxBits + 1)

\* The two UARTs and their drivers are a channel: with a receiver that polls
\* promptly every character arrives once, in order and unchanged, in every
\* format and whatever pulses of noise and breaks lie between characters.
ImplementsChannel == Channel!Spec

\* A character that was sent correctly is not reported with an error: frame
\* and parity flags belong to the character RC announces.
NoFalseError == rx.rc => ~rx.fe /\ ~rx.pe

\* A line that is low for a whole frame is reported as a break.
BreakReported == low >= FrameBits(cfg) * (cfg.baud + 1) ~> rx.br

\* What the comments of uart.vhd say: a received character is copied to the
\* data register, and a read of the data register returns it.
DataIsReceived ==
    [][GetData => got'.char = SubSeq(rx.data, 1, CharBits)]_vars
=============================================================================
