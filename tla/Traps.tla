-------------------------------- MODULE Traps --------------------------------
(***************************************************************************)
(* The universal trap handler (trap_handler_direct.c), the handlers it     *)
(* calls (handlers_direct.c) and a program that runs under it: polling the *)
(* UART, reading the 64-bit time, making system calls, running into        *)
(* exceptions, while the peripherals interrupt it at any instruction.      *)
(*                                                                         *)
(* A step is an instruction that touches something another party sees: a   *)
(* CSR, a device register, the stack frame.  The registers are those whose *)
(* contents matter to somebody: the program computes in a0, passes a7 and  *)
(* a2 to a system call and assembles the time in th, tl; the handler uses  *)
(* all of them.                                                            *)
(***************************************************************************)
EXTENDS Naturals, Sequences, SequencesExt

CONSTANTS Sources,      \* the peripherals in use, beside the timer and UART1
          Leds,         \* bound: the bits of POUT that are followed
          Ops,          \* what the program does
          SysCalls,     \* and which system calls it makes
          Base,         \* the values of the low half of the time (2^32)
          MaxHigh,      \* the largest high half (2^32 - 1)
          Delta,        \* external_timer_delta
          MaxTime,      \* bound: the time stands still then
          MaxEvents     \* bound: events of the peripherals

ASSUME TrapsAssumption ==
  /\ Base \in Nat \ {0, 1} /\ Delta \in Nat \ {0}
  /\ MaxTime \in Nat /\ MaxEvents \in Nat
  /\ MaxHigh \in Nat /\ MaxTime + Delta < Base * MaxHigh
  /\ SysCalls \subseteq {"brk", "read", "write", "gettimeofday", "exit", "fstat", "open", "unknown"}
  /\ Sources \subseteq {"SPI1", "I2C1", "I2C2", "TIMER1", "TIMER2", "EXTI", "MSI"}
  /\ Ops \subseteq {"compute", "putc", "time", "ecall", "ebreak", "fault", "jump", "toggle"}

\* The value -1 of a0.
Minus1 == 4

Hi(t) == t \div Base
Lo(t) == t % Base
Join(h, l) == h * Base + l

\* The bits of mip, in the order in which the hardware serves them.
IrqOrder == <<27, 26, 24, 23, 21, 20, 18, 3, 7>>
IrqOf(s) == CASE s = "SPI1" -> 27   [] s = "I2C1" -> 26   [] s = "I2C2" -> 24
              [] s = "UART1" -> 23  [] s = "TIMER2" -> 21 [] s = "TIMER1" -> 20
              [] s = "EXTI" -> 18   [] s = "MTIME" -> 7   [] s = "MSI" -> 3

\* mcause; the program's own traps are the exceptions.
Intr(n) == [intr |-> TRUE, code |-> n]
Exc(n)  == [intr |-> FALSE, code |-> n]
ECALL == Exc(11)

VARIABLES pc,        \* the next instruction, by name
          regs,      \* the registers
          csr,       \* mepc, mcause, mie and mpie of mstatus
          frames,    \* the trap frames on the stack
          flag,      \* the interrupt flags of the peripherals; UART1: RC
          tc,        \* UART1: transmission complete
          sending,   \* UART1 is shifting a character out
          pout,      \* GPIOA->POUT, the bits that are set
          time,      \* MTIMEH:MTIME
          cmp,       \* MTIMECMPH and MTIMECMP
          events,    \* events so far (bound)
          asked,     \* for the properties: when the time was asked for
          ctx,       \* for the properties: the traps being served, as they came
          tick       \* for the properties: before when no timer interrupt may come

devices == <<flag, tc, sending, pout, cmp>>
env == <<time, events>>
ghost == <<ctx, tick>>
vars == <<pc, regs, csr, frames, devices, env, asked, ghost>>

All == Sources \cup {"UART1", "MTIME"}
Raised(s) == IF s = "MTIME" THEN time >= Join(cmp.hi, cmp.lo) ELSE flag[s]

\* An exclusive-or with one bit of POUT.
Flip(bits, b) == (bits \ {b}) \cup (({b} \cap Leds) \ bits)

-----------------------------------------------------------------------------
(* Traps, as the hart takes and leaves them *)

Trap(cause) ==
  /\ csr' = [mepc |-> pc, mcause |-> cause, mie |-> FALSE, mpie |-> csr.mie]
  /\ pc' = "save"
  /\ ctx' = Append(ctx, [pc |-> pc, regs |-> regs, cause |-> cause])
  /\ tick' = IF cause = Intr(7) THEN time + Delta ELSE tick
  /\ UNCHANGED <<regs, frames, devices, env, asked>>

PendingIrqs == {IrqOf(s) : s \in {r \in All : Raised(r)}}
Interrupted == csr.mie /\ PendingIrqs # {}

Interrupt ==
  /\ Interrupted
  /\ \E i \in 1 .. Len(IrqOrder) :
       /\ IrqOrder[i] \in PendingIrqs
       /\ \A j \in 1 .. i - 1 : IrqOrder[j] \notin PendingIrqs
       /\ Trap(Intr(IrqOrder[i]))

\* The instruction four bytes further.
Next4(p) == CASE p = "ecall" -> "ecalled"
              [] p \in {"ebreak", "fault"} -> "main"
              [] p = "nowhere" -> "nowhere"
              [] OTHER -> "astray"

-----------------------------------------------------------------------------
(* The program *)

\* An instruction of the program, when no interrupt comes before it.
At(p) == pc = p /\ ~Interrupted
Quiet == UNCHANGED <<csr, frames, env, ghost>>

Compute == /\ At("main") /\ "compute" \in Ops
           /\ regs' = [regs EXCEPT !.a0 = 1 - @]
           /\ Quiet /\ UNCHANGED <<pc, devices, asked>>

\* uart1_putc, also called in the trap handler by write and by the debugger
PutData == /\ At("main") /\ "putc" \in Ops
           /\ tc' = FALSE /\ sending' = TRUE
           /\ pc' = "poll"
           /\ Quiet /\ UNCHANGED <<regs, flag, pout, cmp, asked>>

PollTc == /\ At("poll") /\ tc
          /\ pc' = IF frames = <<>> THEN "main"
                   ELSE IF csr.mcause = ECALL THEN "write" ELSE "return"
          /\ Quiet /\ UNCHANGED <<regs, devices, asked>>

\* csr_get_time: rdtimeh, rdtime, rdtimeh and the branch back.  The system
\* call gettimeofday has the same loop.
GetTime == /\ At("main") /\ "time" \in Ops
           /\ asked' = time
           /\ pc' = "rdtimeh"
           /\ Quiet /\ UNCHANGED <<regs, devices>>

RdTimeh == /\ At("rdtimeh")
           /\ regs' = [regs EXCEPT !.th = Hi(time)]
           /\ pc' = "rdtime"
           /\ Quiet /\ UNCHANGED <<devices, asked>>

RdTime == /\ At("rdtime")
          /\ regs' = [regs EXCEPT !.tl = Lo(time)]
          /\ pc' = "rdtimeh2"
          /\ Quiet /\ UNCHANGED <<devices, asked>>

\* Mutant: the high half is not compared.
AgainNever(tt) == FALSE
Again(tt) == regs.th # tt

RdTimeh2 == /\ At("rdtimeh2")
            /\ IF Again(Hi(time))
                 THEN pc' = "rdtimeh" /\ UNCHANGED <<regs, asked>>
                 ELSE /\ pc' = IF frames = <<>> THEN "main" ELSE "return"
                      /\ regs' = [regs EXCEPT !.th = 0, !.tl = 0]
                      /\ asked' = 0
            /\ Quiet /\ UNCHANGED devices

\* The program sets up a system call, or comes to an instruction that traps.
Prepare ==
  /\ At("main")
  /\ \/ /\ "ecall" \in Ops
        /\ \E n \in SysCalls, v \in {0, 2, 3}, l \in 0 .. 1 :
             /\ (n \notin {"read", "write"} => l = 0) /\ (n # "brk" => v = 0)
             /\ regs' = [regs EXCEPT !.a7 = n, !.a0 = v, !.a2 = l]
        /\ pc' = "ecall"
     \/ /\ pc' \in {"ebreak", "fault"} \cap Ops
        /\ UNCHANGED regs
     \/ /\ "jump" \in Ops /\ pc' = "nowhere"
        /\ UNCHANGED regs
  /\ Quiet /\ UNCHANGED <<devices, asked>>

Except == /\ At(pc) /\ pc \in {"ecall", "ebreak", "fault", "nowhere"}
          /\ Trap(CASE pc = "ecall" -> ECALL  [] pc = "ebreak" -> Exc(3)
                    [] pc = "fault" -> Exc(5) [] pc = "nowhere" -> Exc(1))

\* The result of a system call becomes a value of the program.
Ecalled == /\ At("ecalled")
           /\ regs' = [regs EXCEPT !.a0 = 0, !.a2 = 0, !.a7 = "exit"]
           /\ pc' = "main"
           /\ Quiet /\ UNCHANGED <<devices, asked>>

\* gpioa_togglepin
ReadPout == /\ At("main") /\ "toggle" \in Ops
            /\ regs' = [regs EXCEPT !.tp = pout]
            /\ pc' = "writepout"
            /\ Quiet /\ UNCHANGED <<devices, asked>>

WritePout == /\ At("writepout")
             /\ pout' = Flip(regs.tp, "main")
             /\ regs' = [regs EXCEPT !.tp = {}]
             /\ pc' = "main"
             /\ Quiet /\ UNCHANGED <<flag, tc, sending, cmp, asked>>

-----------------------------------------------------------------------------
(* trap_handler_direct: save, call the C part, restore.  Interrupts are     *)
(* off, and nothing in it is meant to trap.                                 *)

Save == /\ pc = "save"
        /\ frames' = Append(frames, [regs |-> regs, mcause |-> csr.mcause])
        /\ pc' = "saveinstr"
        /\ UNCHANGED <<regs, csr, devices, env, asked, ghost>>

\* The trapped instruction is loaded into the frame, t0 and t1 being free now.
SaveInstr ==
  /\ pc = "saveinstr"
  /\ IF csr.mepc = "nowhere"
       THEN Trap(Exc(5))
       ELSE /\ regs' = [regs EXCEPT !.th = 0, !.tl = 0]
            /\ pc' = "execute"
            /\ UNCHANGED <<csr, frames, devices, env, asked, ghost>>

\* __trap_handler_execute reads mcause again and finds the handler.
\* Mutant: the numbers of two sources are exchanged.
HandlerOfSwapped(m) ==
  CASE m = Intr(7)  -> "external_timer_handler"
    [] m = Intr(3)  -> "MSI"     [] m = Intr(27) -> "SPI1"    [] m = Intr(24) -> "I2C1"
    [] m = Intr(26) -> "I2C2"    [] m = Intr(21) -> "TIMER2"  [] m = Intr(20) -> "TIMER1"
    [] m = Intr(18) -> "EXTI"    [] m = Intr(23) -> "UART1"
    [] m = Exc(3)   -> "debugger"
    [] OTHER        -> "return"
HandlerOf(m) ==
  CASE m = Intr(7)  -> "external_timer_handler"
    [] m = Intr(3)  -> "MSI"     [] m = Intr(27) -> "SPI1"    [] m = Intr(26) -> "I2C1"
    [] m = Intr(24) -> "I2C2"    [] m = Intr(21) -> "TIMER2"  [] m = Intr(20) -> "TIMER1"
    [] m = Intr(18) -> "EXTI"    [] m = Intr(23) -> "UART1"
    [] m = Exc(3)   -> "debugger"
    [] OTHER        -> "return"

\* The system calls, by the number in a7.  brk knows the start of the heap (1)
\* and its limit (3).
SysCall ==
  CASE regs.a7 \in {"read", "write"} -> regs.a7
    [] regs.a7 = "gettimeofday"      -> "rdtimeh"
    [] OTHER                         -> "restore"

SysResult ==
  CASE regs.a7 = "brk" -> IF regs.a0 = 0 THEN 1 ELSE IF regs.a0 < 3 THEN regs.a0 ELSE Minus1
    [] regs.a7 \in {"exit", "fstat"} -> 0
    [] regs.a7 \in {"open", "unknown"} -> Minus1
    [] OTHER -> regs.a0

Execute ==
  /\ pc = "execute"
  /\ IF csr.mcause = ECALL
       THEN /\ pc' = SysCall
            /\ regs' = [regs EXCEPT !.a0 = SysResult]
            /\ asked' = IF regs.a7 = "gettimeofday" THEN time ELSE asked
       ELSE pc' = HandlerOf(csr.mcause) /\ UNCHANGED <<regs, asked>>
  /\ UNCHANGED <<csr, frames, devices, env, ghost>>

\* return 0
ReturnZero == /\ pc = "return"
              /\ regs' = [regs EXCEPT !.a0 = 0]
              /\ pc' = "restore"
              /\ UNCHANGED <<csr, frames, devices, env, asked, ghost>>

\* mepc moves on after an exception.  a0 comes from the frame but for ECALL.
\* (mepc and mcause are dead after mret: the model forgets them.)
\* Mutant: a0 always comes from the frame.
KeptAll(f) == f.regs
Kept(f) == IF f.mcause = ECALL THEN [f.regs EXCEPT !.a0 = regs.a0] ELSE f.regs

Restore ==
  /\ pc = "restore" /\ frames # <<>>
  /\ LET f == Last(frames) IN
       /\ pc' = IF f.mcause.intr THEN csr.mepc ELSE Next4(csr.mepc)
       /\ regs' = Kept(f)
       /\ csr' = [csr EXCEPT !.mepc = "main", !.mcause = Exc(0), !.mie = csr.mpie, !.mpie = TRUE]
  /\ frames' = Front(frames) /\ ctx' = Front(ctx)
  /\ UNCHANGED <<devices, env, asked, tick>>

-----------------------------------------------------------------------------
(* The handlers *)

Handler(p, q) == pc = p /\ pc' = q /\ UNCHANGED <<csr, frames, env, asked, ghost>>

\* spi1_handler, i2c1_handler, i2c2_handler, timer1_handler, timer2_handler,
\* external_input_handler, external_msi_handler: clear the flag, flip the led
PeripheralHandler ==
  \E s \in Sources :
    /\ Handler(s, "return")
    /\ flag' = [flag EXCEPT ![s] = FALSE]
    /\ pout' = Flip(pout, s)
    /\ UNCHANGED <<regs, tc, sending, cmp>>

\* Reading the data clears the receive flags and no other.
\* Mutant: the handler writes 0 to the status register.
uart1_handlerAll ==
  /\ Handler("UART1", "return")
  /\ flag' = [flag EXCEPT !["UART1"] = FALSE]
  /\ pout' = IF flag["UART1"] THEN Flip(pout, "UART1") ELSE pout
  /\ tc' = FALSE
  /\ UNCHANGED <<regs, sending, cmp>>
uart1_handler ==
  /\ Handler("UART1", "return")
  /\ flag' = [flag EXCEPT !["UART1"] = FALSE]
  /\ pout' = IF flag["UART1"] THEN Flip(pout, "UART1") ELSE pout
  /\ UNCHANGED <<regs, tc, sending, cmp>>

\* external_timer_handler: MTIMEH, MTIME, MTIMEH, until the high halves agree
TimerHigh == /\ Handler("external_timer_handler", "timer_low")
             /\ regs' = [regs EXCEPT !.th = Hi(time)]
             /\ UNCHANGED devices

TimerLow == /\ Handler("timer_low", "timer_high2")
            /\ regs' = [regs EXCEPT !.tl = Lo(time)]
            /\ UNCHANGED devices

TimerHigh2 == /\ Handler("timer_high2", IF Again(Hi(time)) THEN "external_timer_handler"
                                                           ELSE "cmp_h")
              /\ UNCHANGED <<regs, devices>>

\* The compare register is written in halves, through its maximum.
\* Mutant: the sum of the low halves has no carry.
DueNoCarry == Join(regs.th, (regs.tl + Delta) % Base)
Due == Join(regs.th, regs.tl) + Delta
Compare(h, l) == /\ cmp' = [hi |-> h, lo |-> l]
                 /\ UNCHANGED <<regs, flag, tc, sending>>

TimerCompare ==
  \/ Handler("cmp_h", "cmp_l")     /\ Compare(MaxHigh, cmp.lo) /\ UNCHANGED pout
  \/ Handler("cmp_l", "cmp_low")   /\ Compare(cmp.hi, Base - 1) /\ UNCHANGED pout
  \/ Handler("cmp_low", "cmp_high") /\ Compare(cmp.hi, Lo(Due)) /\ UNCHANGED pout
  \/ Handler("cmp_high", "return") /\ Compare(Hi(Due), cmp.lo) /\ pout' = Flip(pout, "MTIME")

\* The debugger stub prints on UART1.
Debugger == /\ Handler("debugger", "poll")
            /\ tc' = FALSE /\ sending' = TRUE
            /\ UNCHANGED <<regs, flag, pout, cmp>>

\* The loops of the system calls write and read: __io_putchar and
\* __io_getchar poll UART1 for each of the a2 characters.
Write == /\ pc = "write"
         /\ IF regs.tl < regs.a2
              THEN /\ Handler("write", "poll")
                   /\ tc' = FALSE /\ sending' = TRUE
                   /\ regs' = [regs EXCEPT !.tl = @ + 1]
                   /\ UNCHANGED <<flag, pout, cmp>>
              ELSE /\ Handler("write", "restore")
                   /\ regs' = [regs EXCEPT !.a0 = regs.a2]
                   /\ UNCHANGED devices

Read == /\ pc = "read"
        /\ IF regs.tl < regs.a2
             THEN /\ flag["UART1"]
                  /\ Handler("read", "read")
                  /\ flag' = [flag EXCEPT !["UART1"] = FALSE]
                  /\ regs' = [regs EXCEPT !.tl = @ + 1]
                  /\ UNCHANGED <<tc, sending, pout, cmp>>
             ELSE /\ Handler("read", "restore")
                  /\ regs' = [regs EXCEPT !.a0 = regs.a2]
                  /\ UNCHANGED devices

-----------------------------------------------------------------------------
(* The peripherals *)

TimePasses == /\ time < MaxTime /\ time' = time + 1
        /\ UNCHANGED <<pc, regs, csr, frames, devices, events, asked, ghost>>

\* A transfer ends, a timer matches, a pin changes, a character comes, MSI is
\* triggered.
Event == /\ events < MaxEvents /\ events' = events + 1
         /\ \E s \in Sources \cup {"UART1"} : flag' = [flag EXCEPT ![s] = TRUE]
         /\ UNCHANGED <<pc, regs, csr, frames, tc, sending, pout, cmp, time, asked, ghost>>

Transmitted == /\ sending
               /\ sending' = FALSE /\ tc' = TRUE
               /\ UNCHANGED <<pc, regs, csr, frames, flag, pout, cmp, env, asked, ghost>>

Instruction ==
  \/ Compute \/ PutData \/ PollTc \/ GetTime \/ RdTimeh \/ RdTime \/ RdTimeh2
  \/ Prepare \/ Except \/ Ecalled \/ ReadPout \/ WritePout
  \/ Save \/ SaveInstr \/ Execute \/ ReturnZero \/ Restore
  \/ PeripheralHandler \/ uart1_handler \/ TimerHigh \/ TimerLow \/ TimerHigh2
  \/ TimerCompare \/ Debugger \/ Write \/ Read

Hart == Interrupt \/ Instruction

Next == Hart \/ TimePasses \/ Event \/ Transmitted

Init == /\ pc = "main"
        /\ regs = [a0 |-> 0, a2 |-> 0, a7 |-> "exit", th |-> 0, tl |-> 0, tp |-> {}]
        /\ csr = [mepc |-> "main", mcause |-> Exc(0), mie |-> TRUE, mpie |-> FALSE]
        /\ frames = <<>>
        /\ flag = [s \in Sources \cup {"UART1"} |-> FALSE]
        /\ tc = FALSE /\ sending = FALSE
        /\ pout = {}
        /\ time = 0
        /\ cmp = [hi |-> 0, lo |-> 0]
        /\ events = 0
        /\ asked = 0
        /\ ctx = <<>> /\ tick = 0

\* The hart executes and the UART shifts its character out.
Spec == Init /\ [][Next]_vars /\ WF_vars(Hart) /\ WF_vars(Transmitted)

-----------------------------------------------------------------------------
(* Properties *)

Registers == [a0 : 0 .. Minus1, a2 : 0 .. 1, a7 : SysCalls \cup {"exit"},
              th : 0 .. MaxHigh, tl : 0 .. Base - 1, tp : SUBSET Leds]

\* The variables keep to their types; one frame is on the stack at most, for
\* the handler is not interrupted and does not trap.
TypeOK ==
  /\ regs \in Registers
  /\ Len(frames) <= 1 /\ Len(ctx) <= 1
  /\ \A i \in 1 .. Len(frames) : frames[i].regs \in Registers
  /\ csr.mie \in BOOLEAN /\ csr.mpie \in BOOLEAN
  /\ flag \in [Sources \cup {"UART1"} -> BOOLEAN]
  /\ tc \in BOOLEAN /\ sending \in BOOLEAN
  /\ pout \subseteq Leds
  /\ time \in 0 .. MaxTime /\ events \in 0 .. MaxEvents
  /\ cmp \in [hi : 0 .. MaxHigh, lo : 0 .. Base - 1]

\* What a system call made with these registers returns.
Result(r) ==
  CASE r.a7 = "brk" /\ r.a0 = 0           -> 1
    [] r.a7 = "brk" /\ r.a0 \in 1 .. 2    -> r.a0
    [] r.a7 \in {"read", "write"}         -> r.a2
    [] r.a7 \in {"gettimeofday", "exit", "fstat"} -> 0
    [] OTHER                              -> Minus1

\* A trap leaves no trace in the program: it goes on where it was interrupted,
\* or behind the instruction that trapped, with interrupts on and every
\* register as it was, but for a0 of a system call, which has its result
\* (trap_handler_direct).
Leaves == Len(ctx') < Len(ctx)
TrapTransparent ==
  [][Leaves => LET e == Last(ctx) IN
       /\ pc' = IF e.cause.intr THEN e.pc ELSE Next4(e.pc)
       /\ regs' = IF e.cause = ECALL THEN [e.regs EXCEPT !.a0 = Result(e.regs)] ELSE e.regs
       /\ csr'.mie]_vars

\* The time a program gets is one that was, between asking and getting, with
\* carries between the halves and traps at any place (csr_get_time).
TimeIsTrue ==
  [][pc = "rdtimeh2" /\ pc' \in {"main", "return"} =>
       LET t == Join(regs.th, regs.tl) IN asked <= t /\ t <= time]_vars

\* Two timer interrupts are Delta apart, whatever the time does while the
\* handler reads it and writes the compare register in halves.
TicksApart ==
  [][Len(ctx') > Len(ctx) /\ Last(ctx').cause = Intr(7) => time >= tick]_vars

\* Every event of a peripheral flips its led, unless read waits for a character
\* in the trap handler, where no interrupt is served.
EventServed ==
  \A s \in Sources \cap Leds : \A on \in BOOLEAN :
    (flag[s] /\ (s \in pout) = on) ~> ((s \in pout) # on \/ pc = "read")

\* uart1_putc returns, also under interrupts of the same UART ("the uart1_putc()
\* function will hang", handlers_direct.c, says what must not happen).
PutcReturns == pc = "poll" ~> (pc # "poll" /\ ctx = <<>>) \/ pc = "read"

\* The program's own bit of POUT and the leds change by their own writers only.
TogglesKept ==
  [][pout' # pout => \E s \in Leds : pout' = Flip(pout, s)]_vars
=============================================================================
