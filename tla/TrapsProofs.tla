---------------------------- MODULE TrapsProofs ----------------------------
(***************************************************************************)
(* Theorems about module Traps: a trap leaves no trace in the program, the *)
(* time read in halves is a true one and timer interrupts keep their       *)
(* distance, for every set of peripherals, system calls, width of the time *)
(* and interleaving.                                                       *)
(***************************************************************************)
EXTENDS Traps, TLAPS

\* The program does not jump to an address without memory (README, section 4).
StaysInMemory == "jump" \notin Ops

\* What the program is at, and the traps that may come to it.
ProgramPcs == {"main", "poll", "rdtimeh", "rdtime", "rdtimeh2", "ecall", "ebreak", "fault",
               "ecalled", "writepout"}
Causes == {Intr(IrqOf(s)) : s \in All} \cup {ECALL, Exc(3), Exc(5)}

\* The program computes with 0 and 1, save in the arguments and the result of
\* a system call.
Computes(p, r) == p \notin {"ecall", "ecalled"} => r.a0 \in 0 .. 1

\* The trap being served.  An exception is that of an instruction of its own.
Trapped == ctx[1]
TrapIs ==
  /\ ctx = <<Trapped>>
  /\ Trapped = [pc |-> Trapped.pc, regs |-> Trapped.regs, cause |-> Trapped.cause]
  /\ Trapped.pc \in ProgramPcs /\ Trapped.regs \in Registers /\ Trapped.cause \in Causes
  /\ ~Trapped.cause.intr =>
       Trapped.pc = CASE Trapped.cause = ECALL  -> "ecall"
                      [] Trapped.cause = Exc(3) -> "ebreak"
                      [] OTHER                  -> "fault"
  /\ Computes(Trapped.pc, Trapped.regs)
  /\ csr = [mepc |-> Trapped.pc, mcause |-> Trapped.cause, mie |-> FALSE, mpie |-> TRUE]

Running == /\ ctx = <<>> /\ frames = <<>> /\ csr.mie
           /\ pc \in ProgramPcs /\ Computes(pc, regs)
Saving == TrapIs /\ frames = <<>> /\ pc = "save" /\ regs = Trapped.regs

TimerPcs == {"external_timer_handler", "timer_low", "timer_high2", "cmp_h", "cmp_l", "cmp_low",
             "cmp_high"}
HandlerPcs == {"saveinstr", "execute", "restore", "return", "poll", "rdtimeh", "rdtime", "rdtimeh2",
               "write", "read", "debugger", "UART1"} \cup TimerPcs \cup Sources

\* The handler leaves the arguments of a system call alone and has computed its
\* result when it returns.
Call == IF Trapped.cause = ECALL THEN Trapped.regs.a7 ELSE "none"
Serving ==
  /\ TrapIs
  /\ frames = <<[regs |-> Trapped.regs, mcause |-> Trapped.cause]>>
  /\ pc \in HandlerPcs
  /\ regs.a2 = Trapped.regs.a2 /\ regs.a7 = Trapped.regs.a7
  /\ pc \in {"saveinstr", "execute"} => regs.a0 = Trapped.regs.a0
  /\ pc \in {"read", "write"} => Call = pc
  /\ pc \in {"rdtimeh", "rdtime", "rdtimeh2"} => Call = "gettimeofday"
  /\ pc = "poll" => Trapped.cause # ECALL \/ Call = "write"
  /\ pc = "return" => Trapped.cause # ECALL \/ Call = "gettimeofday"
  /\ pc \in {"debugger", "UART1"} \cup Sources => Trapped.cause # ECALL
  /\ pc \in TimerPcs => Trapped.cause = Intr(7)
  /\ pc = "restore" /\ Trapped.cause = ECALL => regs.a0 = Result(Trapped.regs)

\* A program or handler that reads the time in halves, and its registers.
ReadPcs == {"rdtimeh", "rdtime", "rdtimeh2"}
Reads(p, r) ==
  /\ p \in ReadPcs => asked <= time
  /\ p \in {"rdtime", "rdtimeh2"} => r.th <= Hi(time)
  /\ p = "rdtimeh2" /\ r.th = Hi(time) => asked <= Join(r.th, r.tl) /\ Join(r.th, r.tl) <= time

Reading == asked \in 0 .. MaxTime /\ Reads(pc, regs) /\ (ctx # <<>> => Reads(Trapped.pc, Trapped.regs))

\* A timer interrupt has come and the compare register does not yet hold the time of the next.
ToCome == /\ ctx # <<>> /\ Trapped.cause = Intr(7)
          /\ pc \in {"save", "saveinstr", "execute"} \cup TimerPcs
Ticking ==
  /\ tick \in Nat /\ tick <= time + Delta
  /\ pc \in {"timer_low", "timer_high2"} => regs.th <= Hi(time)
  /\ pc = "timer_high2" /\ regs.th = Hi(time) =>
       tick <= Due /\ Join(regs.th, regs.tl) <= time
  /\ pc \in {"cmp_h", "cmp_l", "cmp_low", "cmp_high"} => tick <= Due /\ Join(regs.th, regs.tl) <= time
  /\ pc = "cmp_high" => cmp.lo = Lo(Due)
  /\ ToCome \/ tick <= Join(cmp.hi, cmp.lo)

Types ==
  /\ regs \in Registers /\ csr.mie \in BOOLEAN /\ csr.mpie \in BOOLEAN
  /\ flag \in [Sources \cup {"UART1"} -> BOOLEAN]
  /\ tc \in BOOLEAN /\ sending \in BOOLEAN /\ pout \subseteq Leds
  /\ time \in 0 .. MaxTime /\ events \in 0 .. MaxEvents
  /\ cmp \in [hi : 0 .. MaxHigh, lo : 0 .. Base - 1]

Served == Running \/ Saving \/ Serving
TrapInv == Types /\ Served /\ Reading /\ Ticking

-----------------------------------------------------------------------------
(* Halves of the time *)

\* Quotient and remainder, for any width of the low half.
LEMMA HalvesOf ==
  ASSUME NEW t \in Nat
  PROVE  /\ Hi(t) \in Nat /\ Lo(t) \in 0 .. Base - 1
         /\ Join(Hi(t), Lo(t)) = t
BY TrapsAssumption DEF Hi, Lo, Join

\* The high half does not go down.
LEMMA HighGrows ==
  ASSUME NEW s \in Nat, NEW t \in Nat, s <= t
  PROVE  Hi(s) <= Hi(t)
BY TrapsAssumption DEF Hi

\* A time in halves is a time.
LEMMA JoinIs ==
  ASSUME NEW h \in Nat, NEW l \in 0 .. Base - 1
  PROVE  Join(h, l) \in Nat
BY TrapsAssumption DEF Join

\* No time the handler computes with exceeds the high half.
LEMMA HighFits ==
  ASSUME NEW t \in Nat, t <= MaxTime + Delta
  PROVE  Hi(t) \in 0 .. MaxHigh
<1>1. Hi(t) < MaxHigh
  <2>1. t < Base * MaxHigh
    BY TrapsAssumption
  <2>2. SUFFICES ASSUME Hi(t) >= MaxHigh PROVE FALSE
    BY HalvesOf, TrapsAssumption
  <2>3. Base * Hi(t) >= Base * MaxHigh
    BY <2>2, HalvesOf, TrapsAssumption
  <2>4. t >= Base * Hi(t)
    BY HalvesOf, TrapsAssumption DEF Join
  <2> QED
    BY <2>1, <2>3, <2>4, HalvesOf, TrapsAssumption
<1> QED
  BY <1>1, HalvesOf, TrapsAssumption

-----------------------------------------------------------------------------
(* Types *)

\* A frame of one trap.
LEMMA OneFrame ==
  ASSUME NEW e
  PROVE  /\ Append(<<>>, e) = <<e>> /\ <<e>>[1] = e /\ <<e>> # <<>> /\ Len(<<e>>) = 1
         /\ Last(<<e>>) = e /\ Front(<<e>>) = <<>>
BY DEF Last, Front

\* The ranges of the registers.
LEMMA RegistersAre ==
  ASSUME NEW r \in Registers
  PROVE  /\ r.a0 \in 0 .. 4 /\ r.a2 \in 0 .. 1 /\ r.th \in 0 .. MaxHigh /\ r.tl \in 0 .. Base - 1
         /\ r.tp \in SUBSET Leds /\ r.a7 \in SysCalls \cup {"exit"}
BY DEF Registers, Minus1

\* The arguments of a system call are set.
LEMMA ArgumentsAre ==
  ASSUME NEW r \in Registers, NEW v \in 0 .. 4, NEW l \in 0 .. 1, NEW n \in SysCalls \cup {"exit"}
  PROVE  /\ [r EXCEPT !.a0 = v, !.a2 = l, !.a7 = n] \in Registers
         /\ [r EXCEPT !.a7 = n, !.a0 = v, !.a2 = l] \in Registers
<1>1. \A q \in Registers : /\ [q EXCEPT !.a0 = v] \in Registers /\ [q EXCEPT !.a2 = l] \in Registers
                           /\ [q EXCEPT !.a7 = n] \in Registers
  BY DEF Registers, Minus1
<1> HIDE DEF Registers
<1> QED
  BY <1>1

\* The causes of the traps and how they differ.
LEMMA CausesAre ==
  /\ \A s \in All : Intr(IrqOf(s)) \in Causes
  /\ \A c \in Causes : c.intr \in BOOLEAN
  /\ {ECALL, Exc(3), Exc(5)} \subseteq Causes
  /\ ~ECALL.intr /\ ~Exc(3).intr /\ ~Exc(5).intr /\ \A n : Intr(n).intr
  /\ ECALL # Exc(3) /\ Exc(3) # Exc(5) /\ ECALL # Exc(5)
  /\ \A c \in Causes : ~c.intr => c \in {ECALL, Exc(3), Exc(5)}
<1>1. ECALL.code # Exc(3).code /\ Exc(3).code # Exc(5).code /\ ECALL.code # Exc(5).code
  BY DEF ECALL, Exc
<1>2. ~ECALL.intr /\ ~Exc(3).intr /\ ~Exc(5).intr /\ \A n : Intr(n).intr /\ Intr(n).intr = TRUE
  BY DEF ECALL, Exc, Intr
<1>3. ECALL.intr = FALSE /\ Exc(3).intr = FALSE /\ Exc(5).intr = FALSE
  BY DEF ECALL, Exc
<1>4. \A c \in Causes : c \in {ECALL, Exc(3), Exc(5)} \/ \E n : c = Intr(n)
  BY DEF Causes
<1> QED
  BY <1>1, <1>2, <1>3, <1>4 DEF Causes

\* Each source has its number.
LEMMA IrqsDiffer ==
  ASSUME NEW s \in All
  PROVE  /\ IrqOf(s) \in {27, 26, 24, 23, 21, 20, 18, 3, 7}
         /\ IrqOf(s) = 7 <=> s = "MTIME"
<1>1. s \in {"SPI1", "I2C1", "I2C2", "UART1", "TIMER2", "TIMER1", "EXTI", "MTIME", "MSI"}
  BY TrapsAssumption DEF All
<1>2. CASE s = "MTIME"
  BY <1>2 DEF IrqOf
<1>3. CASE s # "MTIME"
  BY <1>1, <1>3 DEF IrqOf
<1> QED
  BY <1>2, <1>3

\* The handler of a trap.
LEMMA HandlersAre ==
  /\ \A s \in All : HandlerOf(Intr(IrqOf(s))) = IF s = "MTIME" THEN "external_timer_handler" ELSE s
  /\ HandlerOf(Exc(3)) = "debugger" /\ HandlerOf(Exc(5)) = "return"
<1>1. \A n : /\ Intr(n).code = n /\ Intr(n).intr = TRUE
            /\ Exc(n).code = n /\ Exc(n).intr = FALSE
  BY DEF Intr, Exc
<1>2. HandlerOf(Exc(3)) = "debugger" /\ HandlerOf(Exc(5)) = "return"
  BY <1>1 DEF HandlerOf
<1>3. ASSUME NEW s \in All
      PROVE  HandlerOf(Intr(IrqOf(s))) = IF s = "MTIME" THEN "external_timer_handler" ELSE s
  <2>1. \A n, m \in Nat : Intr(n) = Intr(m) <=> n = m
    BY <1>1
  <2>2. \A n \in Nat : Intr(n) # Exc(3)
    BY <1>1
  <2> HIDE DEF Intr, Exc
  <2> QED
    BY <2>1, <2>2, TrapsAssumption DEF All, IrqOf, HandlerOf
<1> QED
  BY <1>2, <1>3

\* A bit of POUT is one of the bits that are followed.
LEMMA FlipIs ==
  ASSUME NEW bits \in SUBSET Leds, NEW b
  PROVE  Flip(bits, b) \subseteq Leds
BY DEF Flip

\* A system call has a result.
LEMMA ResultIs ==
  ASSUME regs \in Registers
  PROVE  SysResult \in 0 .. 4
BY RegistersAre DEF SysResult, Minus1

\* The instructions keep the types; those of the program,
LEMMA ProgramTypes ==
  ASSUME Types, Served,
         \/ Compute \/ PutData \/ PollTc \/ GetTime \/ RdTimeh \/ RdTime \/ RdTimeh2
         \/ Prepare \/ Except \/ Ecalled \/ ReadPout \/ WritePout
  PROVE  Types'
<1>t. /\ Hi(time) \in 0 .. MaxHigh /\ Lo(time) \in 0 .. Base - 1
      /\ 0 \in 0 .. MaxHigh /\ 0 \in 0 .. Base - 1
  BY HighFits, HalvesOf, TrapsAssumption DEF Types
<1>1. CASE Compute
  <2>1. Running
    BY <1>1, TrapsAssumption DEF Compute, At, Served, Saving, Serving, HandlerPcs, TimerPcs
  <2>2. 1 - regs.a0 \in 0 .. 4
    BY <1>1, <2>1 DEF Running, Computes, Compute, At
  <2> QED
    BY <1>1, <2>2 DEF Compute, Quiet, devices, env, Types, Registers, Minus1
<1>2. CASE PutData \/ PollTc \/ GetTime
  BY <1>2 DEF PutData, PollTc, GetTime, Quiet, devices, env, Types
<1>3. CASE RdTimeh \/ RdTime \/ RdTimeh2
  BY <1>3, <1>t DEF RdTimeh, RdTime, RdTimeh2, Quiet, devices, env, Types, Registers
<1>4. CASE Prepare
  <2>1. regs' \in Registers
    <3>1. CASE regs' = regs
      BY <3>1 DEF Types
    <3>2. CASE \E n \in SysCalls, v \in {0, 2, 3}, l \in 0 .. 1 :
                 regs' = [regs EXCEPT !.a7 = n, !.a0 = v, !.a2 = l]
      <4>1. PICK n \in SysCalls, v \in {0, 2, 3}, l \in 0 .. 1 :
                   regs' = [regs EXCEPT !.a7 = n, !.a0 = v, !.a2 = l]
        BY <3>2
      <4>2. regs \in Registers /\ v \in 0 .. 4 /\ n \in SysCalls \cup {"exit"}
        BY DEF Types
      <4>3. [regs EXCEPT !.a7 = n, !.a0 = v, !.a2 = l] \in Registers
        BY <4>2, ArgumentsAre
      <4> QED
        BY <4>1, <4>3
    <3> QED
      BY <1>4, <3>1, <3>2 DEF Prepare
  <2> QED
    BY <1>4, <2>1 DEF Prepare, Quiet, devices, env, Types
<1>5. CASE Except
  BY <1>5 DEF Except, Trap, devices, env, Types
<1>6. CASE Ecalled
  <2>1. regs' \in Registers
    <3>1. regs \in Registers /\ 0 \in 0 .. 4 /\ 0 \in 0 .. 1 /\ "exit" \in SysCalls \cup {"exit"}
      BY DEF Types
    <3>2. [regs EXCEPT !.a0 = 0, !.a2 = 0, !.a7 = "exit"] \in Registers
      BY <3>1, ArgumentsAre
    <3> QED
      BY <1>6, <3>2 DEF Ecalled
  <2> QED
    BY <1>6, <2>1 DEF Ecalled, Quiet, devices, env, Types
<1>7. CASE ReadPout
  BY <1>7 DEF ReadPout, Quiet, devices, env, Types, Registers
<1>8. CASE WritePout
  <2>1. regs.tp \in SUBSET Leds
    BY RegistersAre DEF Types
  <2> QED
    BY <1>8, <2>1, FlipIs DEF WritePout, Quiet, env, Types, Registers
<1> QED
  BY <1>1, <1>2, <1>3, <1>4, <1>5, <1>6, <1>7, <1>8

\* those of the handler,
LEMMA HandlerTypes ==
  ASSUME Types, Served, Ticking,
         \/ Save \/ SaveInstr \/ Execute \/ ReturnZero \/ Restore
         \/ PeripheralHandler \/ uart1_handler \/ TimerHigh \/ TimerLow \/ TimerHigh2
         \/ TimerCompare \/ Debugger \/ Write \/ Read
  PROVE  Types'
<1>t. /\ Hi(time) \in 0 .. MaxHigh /\ Lo(time) \in 0 .. Base - 1
      /\ 0 \in 0 .. MaxHigh /\ 0 \in 0 .. Base - 1 /\ MaxHigh \in 0 .. MaxHigh
      /\ Base - 1 \in 0 .. Base - 1 /\ 1 \in 0 .. Base - 1
  BY HighFits, HalvesOf, TrapsAssumption DEF Types
<1>r. regs \in Registers
  BY DEF Types
<1>1. CASE Save
  BY <1>1 DEF Save, devices, env, Types
<1>2. CASE SaveInstr
  <2>1. regs' \in Registers
    BY <1>2, <1>t DEF SaveInstr, Trap, Types, Registers
  <2>2. csr'.mie \in BOOLEAN /\ csr'.mpie \in BOOLEAN
    <3>1. CASE csr.mepc = "nowhere"
      <4>1. csr'.mie = FALSE /\ csr'.mpie = csr.mie
        BY <1>2, <3>1 DEF SaveInstr, Trap
      <4> QED
        BY <4>1 DEF Types
    <3>2. CASE csr.mepc # "nowhere"
      BY <1>2, <3>2 DEF SaveInstr, Types
    <3> QED
      BY <3>1, <3>2
  <2> QED
    BY <1>2, <2>1, <2>2 DEF SaveInstr, Trap, devices, env, Types
<1>3. CASE Execute
  BY <1>3, <1>r, ResultIs DEF Execute, devices, env, Types, Registers, Minus1
<1>4. CASE ReturnZero
  BY <1>4 DEF ReturnZero, devices, env, Types, Registers, Minus1
<1>5. CASE Restore
  <2>1. Serving
    BY <1>5 DEF Restore, Served, Running, Saving
  <2>2. Last(frames) = [regs |-> Trapped.regs, mcause |-> Trapped.cause] /\ Trapped.regs \in Registers
    BY <2>1, OneFrame DEF Serving, TrapIs
  <2>3. regs' \in Registers
    BY <1>5, <2>2, <1>r DEF Restore, Kept, Registers
  <2>4. csr'.mie \in BOOLEAN /\ csr'.mpie \in BOOLEAN
    BY <1>5, <2>1 DEF Restore, Serving, TrapIs
  <2> QED
    BY <1>5, <2>3, <2>4 DEF Restore, devices, env, Types
<1>6. CASE PeripheralHandler \/ uart1_handler
  BY <1>6, FlipIs DEF PeripheralHandler, uart1_handler, Handler, env, Types
<1>7. CASE TimerHigh \/ TimerLow \/ TimerHigh2
  BY <1>7, <1>t DEF TimerHigh, TimerLow, TimerHigh2, Handler, devices, env, Types, Registers
<1>8. CASE TimerCompare
  <2>1. pc \in {"cmp_low", "cmp_high"} => Hi(Due) \in 0 .. MaxHigh /\ Lo(Due) \in 0 .. Base - 1
    <3> SUFFICES ASSUME pc \in {"cmp_low", "cmp_high"} PROVE Due \in Nat /\ Due <= MaxTime + Delta
      BY HighFits, HalvesOf
    <3>1. Join(regs.th, regs.tl) \in Nat
      BY <1>r, RegistersAre, JoinIs, TrapsAssumption
    <3>2. Join(regs.th, regs.tl) <= time /\ time <= MaxTime
      BY DEF Ticking, Types
    <3> QED
      BY <3>1, <3>2, TrapsAssumption DEF Due, Types
  <2>2. /\ regs' = regs /\ flag' = flag /\ tc' = tc /\ sending' = sending
        /\ csr' = csr /\ time' = time /\ events' = events
    BY <1>8 DEF TimerCompare, Handler, Compare, env
  <2>3. pout' \in SUBSET Leds
    BY <1>8, FlipIs DEF TimerCompare, Types
  <2>4. cmp' \in [hi : 0 .. MaxHigh, lo : 0 .. Base - 1]
    BY <1>8, <2>1, <1>t DEF TimerCompare, Handler, Compare, Types
  <2> QED
    BY <2>2, <2>3, <2>4 DEF Types
<1>9. CASE Debugger
  BY <1>9 DEF Debugger, Handler, env, Types
<1>10. CASE Write \/ Read
  <2>1. regs.tl < regs.a2 => regs.tl + 1 \in 0 .. Base - 1
    BY <1>r, <1>t, RegistersAre
  <2>2. regs.a2 \in 0 .. Minus1
    BY <1>r, RegistersAre DEF Minus1
  <2>3. regs' \in Registers
    BY <1>10, <1>r, <2>1, <2>2 DEF Write, Read, Registers
  <2>4. flag' \in [Sources \cup {"UART1"} -> BOOLEAN] /\ tc' \in BOOLEAN /\ sending' \in BOOLEAN
    BY <1>10 DEF Write, Read, devices, Types
  <2>5. csr' = csr /\ time' = time /\ events' = events /\ pout' = pout /\ cmp' = cmp
    BY <1>10 DEF Write, Read, Handler, devices, env
  <2> QED
    BY <2>3, <2>4, <2>5 DEF Types
<1> QED
  BY <1>1, <1>2, <1>3, <1>4, <1>5, <1>6, <1>7, <1>8, <1>9, <1>10

\* and what the peripherals do, also an interrupt.
LEMMA DeviceTypes ==
  ASSUME Types, Interrupt \/ TimePasses \/ Event \/ Transmitted
  PROVE  Types'
<1>1. CASE Interrupt
  BY <1>1 DEF Interrupt, Trap, devices, env, Types
<1>2. CASE TimePasses
  BY <1>2, TrapsAssumption DEF TimePasses, devices, Types
<1>3. CASE Event
  <2>1. events' \in 0 .. MaxEvents
    BY <1>3, TrapsAssumption DEF Event, Types
  <2> QED
    BY <1>3, <2>1 DEF Event, Types
<1>4. CASE Transmitted
  BY <1>4 DEF Transmitted, env, Types
<1> QED
  BY <1>1, <1>2, <1>3, <1>4

-----------------------------------------------------------------------------
(* Traps are taken from the program and served one at a time *)

\* The pc of the program and that of a handler.
LEMMA PlacesAre ==
  /\ "save" \notin ProgramPcs /\ "save" \notin HandlerPcs
  /\ ProgramPcs \cap HandlerPcs = {"poll", "rdtimeh", "rdtime", "rdtimeh2"}
BY TrapsAssumption DEF ProgramPcs, HandlerPcs, TimerPcs

\* An instruction of the program, when no trap is being served.
LEMMA WhereRunning ==
  ASSUME Served, pc \in ProgramPcs \ {"poll", "rdtimeh", "rdtime", "rdtimeh2"}
  PROVE  Running
BY PlacesAre DEF Served, Saving, Serving

\* An instruction of the handler, when one is.
LEMMA WhereServing ==
  ASSUME Served, pc \in HandlerPcs \ {"poll", "rdtimeh", "rdtime", "rdtimeh2"}
  PROVE  Serving
BY PlacesAre DEF Served, Saving, Running

\* A trap that comes to the program.
LEMMA TrapTaken ==
  ASSUME Types, Running, NEW c \in Causes, Trap(c),
         ~c.intr => pc = CASE c = ECALL  -> "ecall"
                           [] c = Exc(3) -> "ebreak"
                           [] OTHER      -> "fault"
  PROVE  Saving' /\ ctx' = <<[pc |-> pc, regs |-> regs, cause |-> c]>>
<1> DEFINE e == [pc |-> pc, regs |-> regs, cause |-> c]
<1>1. ctx' = <<e>> /\ Trapped' = e
  BY OneFrame DEF Running, Trap, Trapped
<1>2. csr.mie = TRUE
  BY DEF Types, Running
<1>3. csr' = [mepc |-> e.pc, mcause |-> e.cause, mie |-> FALSE, mpie |-> TRUE]
  BY <1>2 DEF Trap
<1>4. frames' = <<>> /\ pc' = "save" /\ regs' = e.regs
  BY DEF Trap, Running
<1>5. TrapIs'
  <2>1. e.pc \in ProgramPcs /\ e.regs \in Registers /\ e.cause \in Causes /\ Computes(e.pc, e.regs)
    BY DEF Running, Types
  <2>2. ~e.cause.intr => e.pc = CASE e.cause = ECALL  -> "ecall"
                                  [] e.cause = Exc(3) -> "ebreak"
                                  [] OTHER            -> "fault"
    OBVIOUS
  <2>3. e = [pc |-> e.pc, regs |-> e.regs, cause |-> e.cause]
    OBVIOUS
  <2> HIDE DEF e
  <2> QED
    BY <1>1, <1>3, <2>1, <2>2, <2>3 DEF TrapIs, Computes
<1> QED
  BY <1>1, <1>4, <1>5 DEF Saving

\* An interrupt comes to the program only.
LEMMA InterruptTaken ==
  ASSUME Types, Served, Interrupt
  PROVE  /\ Running /\ Saving'
         /\ \E s \in All : /\ Raised(s)
                           /\ Trap(Intr(IrqOf(s)))
                           /\ ctx' = <<[pc |-> pc, regs |-> regs, cause |-> Intr(IrqOf(s))]>>
<1>1. Running
  <2>1. csr.mie
    BY DEF Interrupt, Interrupted
  <2>2. ~TrapIs
    <3>1. TrapIs => csr.mie = FALSE
      BY DEF TrapIs
    <3> QED
      BY <2>1, <3>1
  <2> QED
    BY <2>2 DEF Served, Saving, Serving
<1>2. PICK n \in PendingIrqs : Trap(Intr(n))
  BY DEF Interrupt
<1>3. PICK s \in All : Raised(s) /\ n = IrqOf(s)
  BY <1>2 DEF PendingIrqs
<1>4. Intr(n) \in Causes /\ Intr(n).intr
  BY <1>3, CausesAre
<1>5. Saving' /\ ctx' = <<[pc |-> pc, regs |-> regs, cause |-> Intr(n)]>>
  BY <1>1, <1>2, <1>4, TrapTaken
<1> QED
  BY <1>1, <1>2, <1>3, <1>5

\* An exception comes to the instruction that causes it.
LEMMA ExceptionTaken ==
  ASSUME Types, Served, Except
  PROVE  /\ Running /\ Saving'
         /\ \E c \in {ECALL, Exc(3), Exc(5)} :
              Trap(c) /\ ctx' = <<[pc |-> pc, regs |-> regs, cause |-> c]>>
<1>1. pc \in {"ecall", "ebreak", "fault", "nowhere"}
  BY DEF Except
<1>2. "nowhere" \notin ProgramPcs \cup HandlerPcs
  BY TrapsAssumption DEF ProgramPcs, HandlerPcs, TimerPcs
<1>3. Running
  BY <1>1, <1>2, WhereRunning DEF Served, Running, Saving, Serving, ProgramPcs
<1>4. pc \in {"ecall", "ebreak", "fault"}
  BY <1>1, <1>2, <1>3 DEF Running
<1>5. CASE pc = "ecall"
  BY <1>3, <1>5, TrapTaken, CausesAre DEF Except
<1>6. CASE pc = "ebreak"
  BY <1>3, <1>6, TrapTaken, CausesAre DEF Except
<1>7. CASE pc = "fault"
  BY <1>3, <1>7, TrapTaken, CausesAre DEF Except
<1> QED
  BY <1>4, <1>5, <1>6, <1>7

\* The program goes on.
LEMMA ProgramServed ==
  ASSUME Types, StaysInMemory, Running,
         \/ Compute \/ PutData \/ PollTc \/ GetTime \/ RdTimeh \/ RdTime \/ RdTimeh2
         \/ Prepare \/ Ecalled \/ ReadPout \/ WritePout
  PROVE  Running' /\ ctx' = ctx
<1>1. csr' = csr /\ frames' = frames /\ ctx' = ctx
  BY DEF Compute, PutData, PollTc, GetTime, RdTimeh, RdTime, RdTimeh2, Prepare, Ecalled, ReadPout,
         WritePout, Quiet, ghost
<1>r. regs = [a0 |-> regs.a0, a2 |-> regs.a2, a7 |-> regs.a7, th |-> regs.th, tl |-> regs.tl,
              tp |-> regs.tp]
  BY DEF Types, Registers
<1>2. pc' \in ProgramPcs /\ Computes(pc', regs')
  <2>1. CASE Compute
    BY <2>1, <1>r DEF Running, Computes, Compute, At, ProgramPcs
  <2>2. CASE PutData \/ PollTc \/ GetTime
    <3>1. regs' = regs /\ pc' \in {"poll", "main", "rdtimeh"} /\ pc \notin {"ecall", "ecalled"}
      BY <2>2 DEF Running, PutData, PollTc, GetTime, At
    <3> QED
      BY <3>1 DEF Running, Computes, ProgramPcs
  <2>3. CASE RdTimeh
    BY <2>3, <1>r DEF Running, Computes, RdTimeh, At, ProgramPcs
  <2>4. CASE RdTime
    BY <2>4, <1>r DEF Running, Computes, RdTime, At, ProgramPcs
  <2>5. CASE RdTimeh2
    BY <2>5, <1>r DEF Running, Computes, RdTimeh2, At, ProgramPcs
  <2>6. CASE Prepare
    BY <2>6 DEF Running, Computes, Prepare, At, StaysInMemory, ProgramPcs
  <2>7. CASE Ecalled
    BY <2>7, <1>r DEF Running, Computes, Ecalled, At, ProgramPcs
  <2>8. CASE ReadPout
    BY <2>8, <1>r DEF Running, Computes, ReadPout, At, ProgramPcs
  <2>9. CASE WritePout
    BY <2>9, <1>r DEF Running, Computes, WritePout, At, ProgramPcs
  <2> QED
    BY <2>1, <2>2, <2>3, <2>4, <2>5, <2>6, <2>7, <2>8, <2>9
<1> QED
  BY <1>1, <1>2 DEF Running

\* The handler goes on.
LEMMA HandlerGoesOn ==
  ASSUME Serving, csr' = csr, frames' = frames, ctx' = ctx,
         regs'.a2 = regs.a2, regs'.a7 = regs.a7, pc' \in HandlerPcs,
         pc' \in {"saveinstr", "execute"} => regs'.a0 = Trapped.regs.a0,
         pc' \in {"read", "write"} => Call = pc',
         pc' \in {"rdtimeh", "rdtime", "rdtimeh2"} => Call = "gettimeofday",
         pc' = "poll" => Trapped.cause # ECALL \/ Call = "write",
         pc' = "return" => Trapped.cause # ECALL \/ Call = "gettimeofday",
         pc' \in {"debugger", "UART1"} \cup Sources => Trapped.cause # ECALL,
         pc' \in TimerPcs => Trapped.cause = Intr(7),
         pc' = "restore" /\ Trapped.cause = ECALL => regs'.a0 = Result(Trapped.regs)
  PROVE  Serving'
BY DEF Serving, TrapIs, Trapped, Call

\* The names of the handlers are those of no other place.
LEMMA NamesAre ==
  /\ Sources \cap ({"saveinstr", "execute", "restore", "return", "poll", "rdtimeh", "rdtime",
                    "rdtimeh2", "write", "read", "debugger", "UART1"} \cup TimerPcs) = {}
  /\ HandlerPcs = {"saveinstr", "execute", "restore", "return", "poll", "rdtimeh", "rdtime",
                   "rdtimeh2", "write", "read", "debugger", "UART1"} \cup TimerPcs \cup Sources
BY TrapsAssumption DEF HandlerPcs, TimerPcs

\* The frame is complete.
LEMMA SaveServed ==
  ASSUME Saving, Types, Save
  PROVE  Serving' /\ ctx' = ctx
<1>1. /\ frames' = <<[regs |-> Trapped.regs, mcause |-> Trapped.cause]>>
      /\ ctx' = ctx /\ csr' = csr /\ regs' = regs /\ pc' = "saveinstr"
  BY OneFrame DEF Saving, TrapIs, Save, ghost
<1> QED
  BY <1>1, NamesAre DEF Saving, Serving, TrapIs, Trapped, Call, TimerPcs

\* The result of a system call that does nothing.
LEMMA SysCallResult ==
  ASSUME regs \in Registers, NEW r \in Registers, r.a0 = regs.a0, r.a2 = regs.a2, r.a7 = regs.a7
  PROVE  regs.a7 \in {"brk", "exit", "fstat", "open", "unknown"} => SysResult = Result(r)
BY RegistersAre DEF SysResult, Result, Minus1

\* A handler is chosen by the cause, a system call by its number.
LEMMA ExecuteServed ==
  ASSUME Types, Serving, Execute
  PROVE  Serving'
<1>r. regs \in Registers /\ Trapped.regs \in Registers /\ pc = "execute"
  BY DEF Types, Serving, TrapIs, Execute
<1>u. csr' = csr /\ frames' = frames /\ ctx' = ctx
  BY DEF Execute, ghost
<1>c. csr.mcause = Trapped.cause
  BY DEF Serving, TrapIs
<1>1. CASE Trapped.cause = ECALL
  <2>1. pc' = SysCall /\ regs' = [regs EXCEPT !.a0 = SysResult]
    BY <1>1, <1>c DEF Execute
  <2>2. /\ Call = regs.a7 /\ regs.a7 = Trapped.regs.a7
        /\ regs.a0 = Trapped.regs.a0 /\ regs.a2 = Trapped.regs.a2
    BY <1>1, <1>r DEF Call, Serving
  <2>3. regs'.a0 = SysResult /\ regs'.a2 = regs.a2 /\ regs'.a7 = regs.a7
    BY <2>1, <1>r DEF Registers
  <2>4. regs.a7 \in {"brk", "read", "write", "gettimeofday", "exit", "fstat", "open", "unknown"}
    BY <1>r, RegistersAre, TrapsAssumption
  <2>5. CASE regs.a7 \in {"read", "write", "gettimeofday"}
    BY <2>1, <2>2, <2>3, <2>5, <1>1, <1>u, HandlerGoesOn, NamesAre DEF SysCall, TimerPcs
  <2>6. CASE regs.a7 \notin {"read", "write", "gettimeofday"}
    <3>1. regs'.a0 = Result(Trapped.regs)
      BY <2>2, <2>3, <2>4, <2>6, <1>r, SysCallResult
    <3>2. pc' = "restore"
      BY <2>1, <2>6 DEF SysCall
    <3> QED
      BY <3>1, <3>2, <2>3, <1>u, HandlerGoesOn, NamesAre DEF TimerPcs
  <2> QED
    BY <2>5, <2>6
<1>2. CASE Trapped.cause # ECALL
  <2>1. pc' = HandlerOf(Trapped.cause) /\ regs' = regs
    BY <1>2, <1>c DEF Execute
  <2>2. Trapped.cause \in Causes
    BY DEF Serving, TrapIs
  <2>3. CASE Trapped.cause \in {Exc(3), Exc(5)}
    <3>1. pc' \in {"debugger", "return"}
      BY <2>1, <2>3, HandlersAre
    <3> QED
      BY <3>1, <2>1, <1>2, <1>u, HandlerGoesOn, NamesAre DEF TimerPcs
  <2>4. CASE \E s \in All : Trapped.cause = Intr(IrqOf(s))
    <3>1. PICK s \in All : Trapped.cause = Intr(IrqOf(s))
      BY <2>4
    <3>2. CASE s = "MTIME"
      <4>1. pc' = "external_timer_handler" /\ Trapped.cause = Intr(7)
        BY <3>1, <3>2, <2>1, HandlersAre, IrqsDiffer
      <4> QED
        BY <4>1, <2>1, <1>2, <1>u, HandlerGoesOn, NamesAre DEF TimerPcs
    <3>3. CASE s # "MTIME"
      <4>1. pc' \in {"UART1"} \cup Sources
        BY <3>1, <3>3, <2>1, HandlersAre DEF All
      <4> QED
        BY <4>1, <2>1, <1>2, <1>u, HandlerGoesOn, NamesAre DEF TimerPcs
    <3> QED
      BY <3>2, <3>3
  <2> QED
    BY <2>2, <2>3, <2>4, <1>2 DEF Causes
<1> QED
  BY <1>1, <1>2

\* The other instructions of the handler, but for its last.
LEMMA HandlerServed ==
  ASSUME Types, Serving,
         \/ PollTc \/ RdTimeh \/ RdTime \/ RdTimeh2
         \/ SaveInstr \/ ReturnZero \/ PeripheralHandler \/ uart1_handler
         \/ TimerHigh \/ TimerLow \/ TimerHigh2 \/ TimerCompare \/ Debugger \/ Write \/ Read
  PROVE  Serving'
<1>r. regs = [a0 |-> regs.a0, a2 |-> regs.a2, a7 |-> regs.a7, th |-> regs.th, tl |-> regs.tl,
              tp |-> regs.tp]
  BY DEF Types, Registers
<1>c. csr.mcause = Trapped.cause /\ csr.mepc = Trapped.pc /\ frames # <<>>
  BY OneFrame DEF Serving, TrapIs
<1>s. /\ pc \in {"read", "write"} => Call = pc
      /\ pc \in {"rdtimeh", "rdtime", "rdtimeh2"} => Call = "gettimeofday"
      /\ pc \in TimerPcs => Trapped.cause = Intr(7)
      /\ pc \in {"debugger", "UART1"} \cup Sources => Trapped.cause # ECALL
  BY DEF Serving
<1>i. Intr(7) # ECALL
  BY CausesAre
<1>1. CASE PollTc
  <2>1. pc' = (IF Trapped.cause = ECALL THEN "write" ELSE "return") /\ regs' = regs
    BY <1>1, <1>c DEF PollTc
  <2>2. Trapped.cause = ECALL => Call = "write"
    BY <1>1 DEF PollTc, At, Serving
  <2>3. csr' = csr /\ frames' = frames /\ ctx' = ctx
    BY <1>1 DEF PollTc, Quiet, ghost
  <2> QED
    BY <2>1, <2>2, <2>3, HandlerGoesOn, NamesAre DEF TimerPcs
<1>2. CASE RdTimeh \/ RdTime \/ RdTimeh2
  <2>1. csr' = csr /\ frames' = frames /\ ctx' = ctx
    BY <1>2 DEF RdTimeh, RdTime, RdTimeh2, Quiet, ghost
  <2>2. regs'.a2 = regs.a2 /\ regs'.a7 = regs.a7
    BY <1>2, <1>r DEF RdTimeh, RdTime, RdTimeh2
  <2>3. pc' \in {"rdtimeh", "rdtime", "rdtimeh2", "return"}
    BY <1>2, <1>c DEF RdTimeh, RdTime, RdTimeh2
  <2>4. Call = "gettimeofday"
    BY <1>2, <1>s DEF RdTimeh, RdTime, RdTimeh2, At
  <2> QED
    BY <2>1, <2>2, <2>3, <2>4, HandlerGoesOn, NamesAre DEF TimerPcs
<1>3. CASE SaveInstr
  <2>1. csr.mepc # "nowhere"
    BY <1>c DEF Serving, TrapIs, ProgramPcs
  <2>2. /\ csr' = csr /\ frames' = frames /\ ctx' = ctx /\ pc' = "execute"
        /\ regs' = [regs EXCEPT !.th = 0, !.tl = 0]
    BY <1>3, <2>1 DEF SaveInstr, ghost
  <2>3. regs'.a0 = regs.a0 /\ regs'.a2 = regs.a2 /\ regs'.a7 = regs.a7
    BY <2>2, <1>r
  <2>4. regs.a0 = Trapped.regs.a0
    BY <1>3 DEF SaveInstr, Serving
  <2> QED
    BY <2>2, <2>3, <2>4, HandlerGoesOn, NamesAre DEF TimerPcs
<1>4. CASE ReturnZero
  <2>1. csr' = csr /\ frames' = frames /\ ctx' = ctx /\ pc' = "restore" /\ regs' = [regs EXCEPT !.a0 = 0]
    BY <1>4 DEF ReturnZero, ghost
  <2>2. regs'.a0 = 0 /\ regs'.a2 = regs.a2 /\ regs'.a7 = regs.a7
    BY <2>1, <1>r
  <2>3. Trapped.cause = ECALL => Result(Trapped.regs) = 0
    BY <1>4 DEF ReturnZero, Serving, Call, Result
  <2> QED
    BY <2>1, <2>2, <2>3, HandlerGoesOn, NamesAre DEF TimerPcs
<1>5. CASE PeripheralHandler \/ uart1_handler
  <2>1. /\ csr' = csr /\ frames' = frames /\ ctx' = ctx /\ pc' = "return" /\ regs' = regs
        /\ pc \in {"UART1"} \cup Sources
    BY <1>5 DEF PeripheralHandler, uart1_handler, Handler, ghost
  <2> QED
    BY <2>1, <1>s, HandlerGoesOn, NamesAre DEF TimerPcs
<1>6. CASE TimerHigh \/ TimerLow \/ TimerHigh2 \/ TimerCompare
  <2>1. /\ csr' = csr /\ frames' = frames /\ ctx' = ctx /\ pc' \in TimerPcs \cup {"return"}
        /\ pc \in TimerPcs
    BY <1>6 DEF TimerHigh, TimerLow, TimerHigh2, TimerCompare, Handler, ghost, TimerPcs
  <2>2. regs'.a2 = regs.a2 /\ regs'.a7 = regs.a7
    BY <1>6, <1>r DEF TimerHigh, TimerLow, TimerHigh2, TimerCompare, Compare
  <2> QED
    BY <2>1, <2>2, <1>s, <1>i, HandlerGoesOn, NamesAre DEF TimerPcs
<1>7. CASE Debugger
  <2>1. /\ csr' = csr /\ frames' = frames /\ ctx' = ctx /\ pc' = "poll" /\ regs' = regs
        /\ pc = "debugger"
    BY <1>7 DEF Debugger, Handler, ghost
  <2> QED
    BY <2>1, <1>s, HandlerGoesOn, NamesAre DEF TimerPcs
<1>8. CASE Write \/ Read
  <2>1. pc \in {"read", "write"} /\ csr' = csr /\ frames' = frames /\ ctx' = ctx
    BY <1>8 DEF Write, Read, Handler, ghost
  <2>2. Call = pc /\ Trapped.cause = ECALL /\ Call = regs.a7 /\ Call = Trapped.regs.a7
    BY <2>1, <1>s DEF Call, Serving
  <2>3. CASE regs.tl < regs.a2
    <3>1. regs' = [regs EXCEPT !.tl = @ + 1] /\ pc' = IF pc = "write" THEN "poll" ELSE "read"
      BY <1>8, <2>3 DEF Write, Read, Handler
    <3>2. regs'.a2 = regs.a2 /\ regs'.a7 = regs.a7
      BY <3>1, <1>r
    <3> QED
      BY <3>1, <3>2, <2>1, <2>2, HandlerGoesOn, NamesAre DEF TimerPcs
  <2>4. CASE ~(regs.tl < regs.a2)
    <3>1. regs' = [regs EXCEPT !.a0 = regs.a2] /\ pc' = "restore"
      BY <1>8, <2>4 DEF Write, Read, Handler
    <3>2. regs'.a0 = regs.a2 /\ regs'.a2 = regs.a2 /\ regs'.a7 = regs.a7
      BY <3>1, <1>r
    <3>3. Result(Trapped.regs) = regs.a2
      BY <2>1, <2>2 DEF Serving, Result
    <3> QED
      BY <3>1, <3>2, <3>3, <2>1, HandlerGoesOn, NamesAre DEF TimerPcs
  <2> QED
    BY <2>3, <2>4
<1> QED
  BY <1>1, <1>2, <1>3, <1>4, <1>5, <1>6, <1>7, <1>8

\* What a handler leaves behind: the program as it was, with the result of its
\* system call.
LEMMA Restored ==
  ASSUME Types, Serving, Restore
  PROVE  /\ Running' /\ ctx' = <<>> /\ csr'.mie
         /\ pc' = IF Trapped.cause.intr THEN Trapped.pc ELSE Next4(Trapped.pc)
         /\ regs' = IF Trapped.cause = ECALL THEN [Trapped.regs EXCEPT !.a0 = Result(Trapped.regs)]
                                             ELSE Trapped.regs
<1>1. /\ Last(frames) = [regs |-> Trapped.regs, mcause |-> Trapped.cause]
      /\ Front(frames) = <<>> /\ Front(ctx) = <<>>
  BY OneFrame DEF Serving, TrapIs
<1>2. csr = [mepc |-> Trapped.pc, mcause |-> Trapped.cause, mie |-> FALSE, mpie |-> TRUE]
  BY DEF Serving, TrapIs
<1>3. ctx' = <<>> /\ frames' = <<>> /\ csr'.mie
  BY <1>1, <1>2 DEF Restore
<1>4. pc' = IF Trapped.cause.intr THEN Trapped.pc ELSE Next4(Trapped.pc)
  BY <1>1, <1>2 DEF Restore
<1>5. regs' = IF Trapped.cause = ECALL THEN [Trapped.regs EXCEPT !.a0 = Result(Trapped.regs)]
                                       ELSE Trapped.regs
  BY <1>1 DEF Restore, Kept, Serving
<1>6. Trapped.pc \in ProgramPcs /\ Computes(Trapped.pc, Trapped.regs) /\ Trapped.cause \in Causes
      /\ (~Trapped.cause.intr => Trapped.pc = CASE Trapped.cause = ECALL -> "ecall"
                                                [] Trapped.cause = Exc(3) -> "ebreak"
                                                [] OTHER -> "fault")
  BY DEF Serving, TrapIs
<1>7. pc' \in ProgramPcs /\ Computes(pc', regs')
  <2>1. CASE Trapped.cause = ECALL
    <3>1. Trapped.pc = "ecall"
      BY <2>1, <1>6, CausesAre
    <3> QED
      BY <3>1, <2>1, <1>4, CausesAre DEF Next4, Computes, ProgramPcs
  <2>2. CASE Trapped.cause # ECALL /\ Trapped.cause.intr
    BY <2>2, <1>4, <1>5, <1>6
  <2>3. CASE Trapped.cause # ECALL /\ ~Trapped.cause.intr
    <3>1. Trapped.pc \in {"ebreak", "fault"}
      BY <2>3, <1>6
    <3> QED
      BY <3>1, <2>3, <1>4, <1>5, <1>6 DEF Next4, Computes, ProgramPcs
  <2> QED
    BY <2>1, <2>2, <2>3
<1> QED
  BY <1>3, <1>4, <1>5, <1>7 DEF Running

-----------------------------------------------------------------------------
(* The time in halves *)

\* Who does not read the time has nothing to keep.
LEMMA ReadsNot ==
  ASSUME NEW p, NEW r, p \notin ReadPcs
  PROVE  Reads(p, r)
BY DEF Reads, ReadPcs

\* What is read stays true when time goes on.
LEMMA ReadsLater ==
  ASSUME Types, asked \in Nat, time' = time + 1, asked' = asked,
         NEW p, NEW r \in Registers, Reads(p, r)
  PROVE  Reads(p, r)'
<1>1. time \in Nat /\ time' \in Nat /\ time <= time'
  BY TrapsAssumption DEF Types
<1>2. Hi(time) \in Nat /\ Hi(time') \in Nat /\ Hi(time) <= Hi(time')
  BY <1>1, HalvesOf, HighGrows
<1>3. r.th \in Nat /\ Join(r.th, r.tl) \in Nat
  BY RegistersAre, JoinIs, TrapsAssumption
<1> QED
  BY <1>1, <1>2, <1>3 DEF Reads, ReadPcs

\* A step that reads nothing.
LEMMA NoReading ==
  ASSUME Types, Served, Reading, ctx' = ctx, asked' = asked, time' = time,
         (pc' = pc /\ regs' = regs) \/ pc' \notin ReadPcs
  PROVE  Reading'
<1>1. Reads(pc, regs)'
  BY ReadsNot DEF Reading, Reads, ReadPcs
<1> QED
  BY <1>1 DEF Reading, Reads, Trapped

\* csr_get_time, in the program or in the handler of gettimeofday.
LEMMA ReadTheTime ==
  ASSUME Types, Served, Reading, GetTime \/ RdTimeh \/ RdTime \/ RdTimeh2
  PROVE  Reading'
<1>t. /\ time \in Nat /\ Hi(time) \in Nat /\ Lo(time) \in 0 .. Base - 1
      /\ Join(Hi(time), Lo(time)) = time /\ time \in 0 .. MaxTime /\ 0 \in 0 .. MaxTime
  BY HalvesOf, TrapsAssumption DEF Types
<1>r. regs \in Registers
  BY DEF Types
<1>u. time' = time /\ ctx' = ctx
  BY DEF GetTime, RdTimeh, RdTime, RdTimeh2, Quiet, env, ghost
<1>n. ctx # <<>> /\ pc \in ReadPcs => Trapped.pc \notin ReadPcs
  <2> SUFFICES ASSUME ctx # <<>>, pc \in ReadPcs PROVE Trapped.pc \notin ReadPcs
    OBVIOUS
  <2>1. Serving
    BY PlacesAre DEF Served, Running, Saving, ReadPcs
  <2>2. Trapped.cause = ECALL
    BY <2>1 DEF Serving, Call, ReadPcs
  <2>3. Trapped.pc = "ecall"
    BY <2>1, <2>2, CausesAre DEF Serving, TrapIs
  <2> QED
    BY <2>3 DEF ReadPcs
<1>1. CASE GetTime
  <2>1. ctx = <<>>
    BY <1>1, WhereRunning DEF GetTime, At, ProgramPcs, Running
  <2>2. asked' = time /\ pc' = "rdtimeh"
    BY <1>1 DEF GetTime
  <2> QED
    BY <2>1, <2>2, <1>t, <1>u DEF Reading, Reads, ReadPcs
<1>2. CASE RdTimeh
  <2>1. /\ pc = "rdtimeh" /\ pc' = "rdtime" /\ asked' = asked
        /\ regs' = [regs EXCEPT !.th = Hi(time)]
    BY <1>2 DEF RdTimeh, At
  <2>2. regs'.th = Hi(time)
    BY <2>1, <1>r DEF Registers
  <2>3. Reads(pc, regs)'
    BY <2>1, <2>2, <1>t, <1>u DEF Reading, Reads, ReadPcs
  <2> QED
    BY <2>1, <2>3, <1>u, <1>n, ReadsNot DEF Reading, Reads, Trapped, ReadPcs
<1>3. CASE RdTime
  <2>1. /\ pc = "rdtime" /\ pc' = "rdtimeh2" /\ asked' = asked
        /\ regs' = [regs EXCEPT !.tl = Lo(time)]
    BY <1>3 DEF RdTime, At
  <2>2. regs'.th = regs.th /\ regs'.tl = Lo(time) /\ regs.th <= Hi(time) /\ asked <= time
    BY <2>1, <1>r DEF Registers, Reading, Reads, ReadPcs
  <2>3. Reads(pc, regs)'
    BY <2>1, <2>2, <1>t, <1>u DEF Reads, ReadPcs
  <2> QED
    BY <2>1, <2>3, <1>u, <1>n, ReadsNot DEF Reading, Reads, Trapped, ReadPcs
<1>4. CASE RdTimeh2
  <2>1. CASE Again(Hi(time))
    <3>1. pc = "rdtimeh2" /\ pc' = "rdtimeh" /\ regs' = regs /\ asked' = asked
      BY <1>4, <2>1 DEF RdTimeh2, At
    <3>2. asked <= time
      BY <3>1 DEF Reading, Reads, ReadPcs
    <3> QED
      BY <3>1, <3>2, <1>u, <1>n DEF Reading, Reads, Trapped, ReadPcs
  <2>2. CASE ~Again(Hi(time))
    <3>1. pc = "rdtimeh2" /\ pc' \in {"main", "return"} /\ asked' = 0
      BY <1>4, <2>2 DEF RdTimeh2, At
    <3>2. ctx # <<>> => Reads(Trapped.pc, Trapped.regs)'
      BY <3>1, <1>n, <1>u DEF Reads, ReadPcs, Trapped
    <3>3. Reads(pc, regs)'
      BY <3>1 DEF Reads, ReadPcs
    <3> QED
      BY <3>1, <3>2, <3>3, <1>t, <1>u DEF Reading, Trapped
  <2> QED
    BY <2>1, <2>2
<1> QED
  BY <1>1, <1>2, <1>3, <1>4

\* The other steps read no time, or let the program go on where it was.
LEMMA ReadingStep ==
  ASSUME StaysInMemory, Types, Served, Reading, Next
  PROVE  Reading'
<1>a. asked \in Nat /\ 0 \in 0 .. MaxTime /\ time \in 0 .. MaxTime
  BY TrapsAssumption DEF Reading, Types
<1>1. CASE GetTime \/ RdTimeh \/ RdTime \/ RdTimeh2
  BY <1>1, ReadTheTime
<1>2. CASE Compute \/ PutData \/ Prepare \/ Ecalled \/ ReadPout \/ WritePout
  <2>1. /\ time' = time /\ asked' = asked /\ ctx' = ctx
        /\ pc' \in {"main", "poll", "ecall", "ebreak", "fault", "nowhere", "writepout"}
    BY <1>2 DEF Compute, PutData, Prepare, Ecalled, ReadPout, WritePout, Quiet, env, ghost, At
  <2> QED
    BY <2>1, NoReading DEF ReadPcs
<1>3. CASE PollTc \/ Save \/ ReturnZero
  <2>1. /\ time' = time /\ asked' = asked /\ ctx' = ctx
        /\ pc' \in {"main", "write", "return", "saveinstr", "restore"}
    BY <1>3 DEF PollTc, Save, ReturnZero, Quiet, env, ghost
  <2> QED
    BY <2>1, NoReading DEF ReadPcs
<1>4. CASE SaveInstr
  <2>1. Serving
    BY <1>4, WhereServing DEF SaveInstr, HandlerPcs
  <2>2. csr.mepc # "nowhere"
    BY <2>1 DEF Serving, TrapIs, ProgramPcs
  <2>3. time' = time /\ asked' = asked /\ ctx' = ctx /\ pc' = "execute"
    BY <1>4, <2>2 DEF SaveInstr, env, ghost
  <2> QED
    BY <2>3, NoReading DEF ReadPcs
<1>5. CASE Execute
  <2>1. Serving
    BY <1>5, WhereServing DEF Execute, HandlerPcs
  <2>2. csr.mcause = Trapped.cause
    BY <2>1 DEF Serving, TrapIs
  <2>3. time' = time /\ ctx' = ctx /\ ctx # <<>>
    BY <1>5, <2>1, OneFrame DEF Execute, env, ghost, Serving, TrapIs
  <2>4. CASE Trapped.cause = ECALL
    <3>1. Trapped.pc = "ecall"
      BY <2>1, <2>4, CausesAre DEF Serving, TrapIs
    <3>2. asked' \in 0 .. MaxTime /\ (pc' \in ReadPcs => asked' = time /\ pc' = "rdtimeh")
      BY <1>5, <2>2, <2>4, <1>a DEF Execute, SysCall, ReadPcs, Reading
    <3>3. Reads(pc, regs)' /\ Reads(Trapped.pc, Trapped.regs)'
      BY <3>1, <3>2, <2>3, <1>a, TrapsAssumption DEF Reads, ReadPcs, Trapped
    <3> QED
      BY <3>2, <3>3 DEF Reading
  <2>5. CASE Trapped.cause # ECALL
    <3>1. asked' = asked /\ pc' = HandlerOf(Trapped.cause)
      BY <1>5, <2>2, <2>5 DEF Execute
    <3>2. pc' \in {"debugger", "return", "external_timer_handler"} \cup All
      BY <3>1, <2>1, <2>5, HandlersAre DEF Serving, TrapIs, Causes
    <3> QED
      BY <3>1, <3>2, <2>3, NoReading, TrapsAssumption DEF ReadPcs, All
  <2> QED
    BY <2>4, <2>5
<1>6. CASE PeripheralHandler \/ uart1_handler \/ TimerHigh \/ TimerLow \/ TimerHigh2 \/ TimerCompare
             \/ Debugger \/ Write \/ Read
  <2>1. /\ time' = time /\ asked' = asked /\ ctx' = ctx
        /\ pc' \in {"return", "restore", "poll", "read"} \cup TimerPcs
    BY <1>6 DEF PeripheralHandler, uart1_handler, TimerHigh, TimerLow, TimerHigh2, TimerCompare, Debugger,
                Write, Read, Handler, env, ghost, TimerPcs
  <2> QED
    BY <2>1, NoReading DEF ReadPcs, TimerPcs
<1>7. CASE Restore
  <2>1. Serving
    BY <1>7, WhereServing DEF Restore, HandlerPcs
  <2>2. time' = time /\ asked' = asked
    BY <1>7 DEF Restore, env
  <2>3. ctx' = <<>> /\ ctx # <<>>
    BY <1>7, <2>1, Restored, OneFrame DEF Serving, TrapIs
  <2>4. Reads(pc', regs')
    <3>1. CASE Trapped.cause.intr
      <4>1. Trapped.cause # ECALL
        BY <3>1, CausesAre
      <4>2. pc' = Trapped.pc /\ regs' = Trapped.regs
        BY <1>7, <2>1, <3>1, <4>1, Restored
      <4> QED
        BY <4>2, <2>3 DEF Reading
    <3>2. CASE ~Trapped.cause.intr
      <4>1. pc' = Next4(Trapped.pc) /\ Trapped.pc \in {"ecall", "ebreak", "fault"}
        BY <1>7, <2>1, <3>2, Restored DEF Serving, TrapIs
      <4>2. pc' \in {"ecalled", "main"}
        BY <4>1 DEF Next4
      <4> QED
        BY <4>2, ReadsNot DEF ReadPcs
    <3> QED
      BY <3>1, <3>2
  <2> QED
    BY <2>2, <2>3, <2>4 DEF Reading, Reads
<1>8. CASE Interrupt \/ Except
  <2>1. \E c : ctx' = <<[pc |-> pc, regs |-> regs, cause |-> c]>>
    BY <1>8, InterruptTaken, ExceptionTaken
  <2>2. Trapped'.pc = pc /\ Trapped'.regs = regs
    BY <2>1, OneFrame DEF Trapped
  <2>3. time' = time /\ asked' = asked /\ pc' = "save"
    BY <1>8 DEF Interrupt, Except, Trap, env
  <2>4. Reads(pc, regs)' /\ Reads(Trapped.pc, Trapped.regs)'
    BY <2>2, <2>3 DEF Reading, Reads, ReadPcs
  <2> QED
    BY <2>3, <2>4 DEF Reading
<1>9. CASE Event \/ Transmitted
  <2>1. time' = time /\ asked' = asked /\ ctx' = ctx /\ pc' = pc /\ regs' = regs
    BY <1>9 DEF Event, Transmitted, env, ghost
  <2> QED
    BY <2>1, NoReading
<1>10. CASE TimePasses
  <2>1. time' = time + 1 /\ asked' = asked /\ ctx' = ctx /\ pc' = pc /\ regs' = regs
    BY <1>10 DEF TimePasses, ghost
  <2>2. \A p : \A r \in Registers : Reads(p, r) => Reads(p, r)'
    BY <2>1, <1>a, ReadsLater
  <2>3. ctx # <<>> => Trapped.regs \in Registers
    BY DEF Served, Running, Saving, Serving, TrapIs
  <2>4. Reads(pc, regs)'
    BY <2>1, <2>2 DEF Reading, Types, Reads
  <2>5. ctx # <<>> => Reads(Trapped.pc, Trapped.regs)'
    BY <2>1, <2>2, <2>3 DEF Reading, Reads, Trapped
  <2> QED
    BY <2>1, <2>4, <2>5 DEF Reading
<1> QED
  BY <1>1, <1>2, <1>3, <1>4, <1>5, <1>6, <1>7, <1>8, <1>9, <1>10 DEF Next, Hart, Instruction

-----------------------------------------------------------------------------
(* The timer interrupts *)

\* A step outside of the timer's handler.
LEMMA NoTimer ==
  ASSUME Ticking, UNCHANGED <<time, cmp, tick>>, ~ToCome, pc' \notin TimerPcs
  PROVE  Ticking'
BY DEF Ticking, TimerPcs

\* A step on the way to it.
LEMMA OnTheWay ==
  ASSUME Ticking, UNCHANGED <<time, cmp, tick, ctx>>,
         pc' \in {"saveinstr", "execute", "external_timer_handler"}, ToCome
  PROVE  Ticking'
BY DEF Ticking, ToCome, Trapped, TimerPcs

\* The timer is read.
LEMMA TimerRead ==
  ASSUME Types, Ticking, Serving, TimerHigh \/ TimerLow \/ TimerHigh2
  PROVE  Ticking'
<1>t. /\ time \in Nat /\ Hi(time) \in Nat /\ Lo(time) \in 0 .. Base - 1
      /\ Join(Hi(time), Lo(time)) = time
  BY HalvesOf, TrapsAssumption DEF Types
<1>r. regs \in Registers
  BY DEF Types
<1>u. time' = time /\ ctx' = ctx /\ cmp' = cmp /\ tick' = tick
  BY DEF TimerHigh, TimerLow, TimerHigh2, Handler, devices, env, ghost
<1>c. ToCome'
  <2>1. pc \in TimerPcs /\ pc' \in TimerPcs
    BY DEF TimerHigh, TimerLow, TimerHigh2, Handler, TimerPcs
  <2>2. ctx # <<>> /\ Trapped.cause = Intr(7)
    BY <2>1, OneFrame DEF Serving, TrapIs
  <2> QED
    BY <2>1, <2>2, <1>u DEF ToCome, Trapped
<1>k. tick \in Nat /\ tick <= time + Delta
  BY DEF Ticking
<1>1. CASE TimerHigh
  <2>1. pc' = "timer_low" /\ regs' = [regs EXCEPT !.th = Hi(time)]
    BY <1>1 DEF TimerHigh, Handler
  <2>2. regs'.th = Hi(time)
    BY <2>1, <1>r DEF Registers
  <2> QED
    BY <2>1, <2>2, <1>t, <1>u, <1>c, <1>k DEF Ticking
<1>2. CASE TimerLow
  <2>1. pc = "timer_low" /\ pc' = "timer_high2" /\ regs' = [regs EXCEPT !.tl = Lo(time)]
    BY <1>2 DEF TimerLow, Handler
  <2>2. regs'.tl = Lo(time) /\ regs'.th = regs.th /\ regs.th <= Hi(time)
    BY <2>1, <1>r DEF Registers, Ticking
  <2>3. regs'.th = Hi(time) => Due' = time + Delta
    BY <2>2, <1>t DEF Due
  <2> QED
    BY <2>1, <2>2, <2>3, <1>t, <1>u, <1>c, <1>k DEF Ticking
<1>3. CASE TimerHigh2
  <2>1. pc = "timer_high2" /\ regs' = regs
        /\ pc' = IF regs.th # Hi(time) THEN "external_timer_handler" ELSE "cmp_h"
    BY <1>3 DEF TimerHigh2, Handler, Again
  <2>2. Due' = Due
    BY <2>1 DEF Due
  <2> QED
    BY <2>1, <2>2, <1>u, <1>c, <1>k DEF Ticking
<1> QED
  BY <1>1, <1>2, <1>3

\* The compare register is written; the last of the writes makes it whole.
LEMMA CompareWritten ==
  ASSUME Types, Ticking, Serving, TimerCompare
  PROVE  Ticking'
<1>u. time' = time /\ ctx' = ctx /\ tick' = tick /\ regs' = regs /\ Due' = Due
  BY DEF TimerCompare, Handler, Compare, env, ghost, Due
<1>k. tick \in Nat /\ tick <= time + Delta
  BY DEF Ticking
<1>p. pc \in {"cmp_h", "cmp_l", "cmp_low", "cmp_high"}
  BY DEF TimerCompare, Handler
<1>d. tick <= Due /\ Join(regs.th, regs.tl) <= time
  BY <1>p DEF Ticking
<1>c. ctx # <<>> /\ Trapped.cause = Intr(7)
  BY <1>p, OneFrame DEF Serving, TrapIs, TimerPcs
<1>1. CASE pc # "cmp_high"
  <2>1. pc' \in {"cmp_l", "cmp_low", "cmp_high"}
    BY <1>1 DEF TimerCompare, Handler
  <2>2. pc' = "cmp_high" => cmp'.lo = Lo(Due)
    BY <1>1 DEF TimerCompare, Handler, Compare
  <2>3. ToCome'
    BY <2>1, <1>c, <1>u DEF ToCome, Trapped, TimerPcs
  <2> QED
    BY <2>1, <2>2, <2>3, <1>u, <1>k, <1>d DEF Ticking
<1>2. CASE pc = "cmp_high"
  <2>1. pc' = "return" /\ cmp' = [hi |-> Hi(Due), lo |-> cmp.lo] /\ cmp.lo = Lo(Due)
    BY <1>2 DEF TimerCompare, Handler, Compare, Ticking
  <2>2. Due \in Nat
    BY RegistersAre, JoinIs, TrapsAssumption DEF Types, Due
  <2>3. Join(cmp'.hi, cmp'.lo) = Due
    BY <2>1, <2>2, HalvesOf
  <2> QED
    BY <2>1, <2>3, <1>u, <1>k, <1>d DEF Ticking
<1> QED
  BY <1>1, <1>2

\* Every step.
LEMMA TickingStep ==
  ASSUME Types, Served, Ticking, Next
  PROVE  Ticking'
<1>1. CASE \/ Compute \/ PutData \/ PollTc \/ GetTime \/ RdTimeh \/ RdTime \/ RdTimeh2
           \/ Prepare \/ Ecalled \/ ReadPout \/ WritePout
  <2>1. /\ UNCHANGED <<time, cmp, tick>> /\ pc' \notin TimerPcs
        /\ pc \notin {"save", "saveinstr", "execute"} \cup TimerPcs
    BY <1>1 DEF Compute, PutData, PollTc, GetTime, RdTimeh, RdTime, RdTimeh2, Prepare, Ecalled, ReadPout,
                WritePout, At, Quiet, devices, env, ghost, TimerPcs
  <2> QED
    BY <2>1, NoTimer DEF ToCome
<1>2. CASE Save \/ SaveInstr
  <2>1. CASE Trap(Exc(5))
    <3>1. tick' = tick /\ time' = time /\ cmp' = cmp /\ pc' = "save"
      BY <2>1, CausesAre DEF Trap, devices, env
    <3>2. SaveInstr /\ Serving
      BY <1>2, <2>1, WhereServing DEF Save, SaveInstr, Trap, HandlerPcs
    <3>3. csr.mepc # "nowhere"
      BY <3>2 DEF Serving, TrapIs, ProgramPcs
    <3> QED
      BY <3>2, <3>3, <3>1, <2>1 DEF SaveInstr, Trap
  <2>2. CASE ~Trap(Exc(5))
    <3>1. UNCHANGED <<time, cmp, tick, ctx>> /\ pc' \in {"saveinstr", "execute"}
      BY <1>2, <2>2 DEF Save, SaveInstr, devices, env, ghost
    <3> QED
      BY <3>1, OnTheWay, NoTimer DEF TimerPcs
  <2> QED
    BY <2>1, <2>2
<1>3. CASE Execute
  <2>1. Serving
    BY <1>3, WhereServing DEF Execute, HandlerPcs
  <2>2. csr.mcause = Trapped.cause /\ Trapped.cause \in Causes /\ ctx # <<>> /\ pc = "execute"
    BY <1>3, <2>1, OneFrame DEF Execute, Serving, TrapIs
  <2>3. UNCHANGED <<time, cmp, tick, ctx>>
    BY <1>3 DEF Execute, devices, env, ghost
  <2>4. CASE Trapped.cause = Intr(7)
    <3>1. pc' = "external_timer_handler"
      BY <1>3, <2>2, <2>4, CausesAre, HandlersAre DEF Execute, All, IrqOf
    <3> QED
      BY <3>1, <2>2, <2>3, <2>4, OnTheWay DEF ToCome
  <2>5. CASE Trapped.cause # Intr(7)
    <3>1. pc' \notin TimerPcs
      <4>1. Serving'
        BY <1>3, <2>1, ExecuteServed
      <4> QED
        BY <4>1, <2>3, <2>5 DEF Serving, Trapped
    <3> QED
      BY <3>1, <2>3, <2>5, NoTimer DEF ToCome
  <2> QED
    BY <2>4, <2>5
<1>4. CASE ReturnZero \/ Restore
  <2>1. UNCHANGED <<time, cmp, tick>> /\ pc \in {"return", "restore"}
    BY <1>4 DEF ReturnZero, Restore, devices, env, ghost
  <2>2. pc' \notin TimerPcs
    <3>1. CASE ReturnZero
      BY <3>1 DEF ReturnZero, TimerPcs
    <3>2. CASE Restore
      <4>1. Running'
        BY <3>2, WhereServing, Restored DEF Restore, HandlerPcs
      <4> QED
        BY <4>1, TrapsAssumption DEF Running, ProgramPcs, TimerPcs
    <3> QED
      BY <1>4, <3>1, <3>2
  <2> QED
    BY <2>1, <2>2, NoTimer DEF ToCome, TimerPcs
<1>5. CASE PeripheralHandler \/ uart1_handler \/ Debugger \/ Write \/ Read
  <2>1. /\ UNCHANGED <<time, cmp, tick>> /\ pc' \in {"return", "restore", "poll", "read"}
        /\ pc \in {"UART1", "debugger", "write", "read"} \cup Sources
    BY <1>5 DEF PeripheralHandler, uart1_handler, Debugger, Write, Read, Handler, devices, env, ghost
  <2> QED
    BY <2>1, NamesAre, NoTimer, TrapsAssumption DEF ToCome, TimerPcs
<1>6. CASE TimerHigh \/ TimerLow \/ TimerHigh2
  BY <1>6, TimerRead, WhereServing DEF TimerHigh, TimerLow, TimerHigh2, Handler, HandlerPcs, TimerPcs
<1>7. CASE TimerCompare
  BY <1>7, CompareWritten, WhereServing DEF TimerCompare, Handler, HandlerPcs, TimerPcs
<1>8. CASE Interrupt
  <2>1. PICK s \in All : /\ Trap(Intr(IrqOf(s))) /\ Running
                         /\ ctx' = <<[pc |-> pc, regs |-> regs, cause |-> Intr(IrqOf(s))]>>
    BY <1>8, InterruptTaken
  <2>2. /\ time' = time /\ cmp' = cmp /\ pc' = "save" /\ ctx' # <<>> /\ Trapped'.cause = Intr(IrqOf(s))
        /\ tick' = IF Intr(IrqOf(s)) = Intr(7) THEN time + Delta ELSE tick
    BY <2>1, OneFrame DEF Trap, devices, env, Trapped
  <2>3. CASE Intr(IrqOf(s)) = Intr(7)
    <3>1. ToCome'
      BY <2>2, <2>3 DEF ToCome
    <3>2. time + Delta \in Nat
      BY TrapsAssumption DEF Types
    <3> QED
      BY <2>2, <2>3, <3>1, <3>2 DEF Ticking
  <2>4. CASE Intr(IrqOf(s)) # Intr(7)
    BY <2>1, <2>2, <2>4, NoTimer DEF ToCome, Running, TimerPcs
  <2> QED
    BY <2>3, <2>4
<1>9. CASE Except
  <2>1. Running
    BY <1>9, ExceptionTaken
  <2>2. PICK c \in {ECALL, Exc(3), Exc(5)} : Trap(c)
    BY <1>9, ExceptionTaken
  <2>3. c # Intr(7)
    BY CausesAre
  <2>4. time' = time /\ cmp' = cmp /\ tick' = tick /\ pc' = "save"
    BY <2>2, <2>3 DEF Trap, devices, env
  <2> QED
    BY <2>1, <2>4, NoTimer DEF ToCome, Running, TimerPcs
<1>10. CASE Event \/ Transmitted
  BY <1>10 DEF Event, Transmitted, env, ghost, Ticking, ToCome, Trapped, Due
<1>11. CASE TimePasses
  <2>1. time' = time + 1 /\ UNCHANGED <<pc, regs, ctx, cmp, tick>>
    BY <1>11 DEF TimePasses, devices, ghost
  <2>2. time \in Nat /\ time' \in Nat /\ time <= time'
    BY <2>1, TrapsAssumption DEF Types
  <2>3. Hi(time) \in Nat /\ Hi(time') \in Nat /\ Hi(time) <= Hi(time')
    BY <2>2, HalvesOf, HighGrows
  <2>4. regs.th \in Nat /\ Join(regs.th, regs.tl) \in Nat
    BY RegistersAre, JoinIs, TrapsAssumption DEF Types
  <2>5. (ToCome' <=> ToCome) /\ Due' = Due
    BY <2>1 DEF ToCome, Trapped, Due
  <2> QED
    BY <2>1, <2>2, <2>3, <2>4, <2>5, TrapsAssumption DEF Ticking
<1> QED
  BY <1>1, <1>2, <1>3, <1>4, <1>5, <1>6, <1>7, <1>8, <1>9, <1>10, <1>11 DEF Next, Hart, Instruction

-----------------------------------------------------------------------------
(* The invariant *)

\* Traps come and go, one at a time.
LEMMA ServedStep ==
  ASSUME StaysInMemory, Types, Served, Next
  PROVE  Served'
<1>1. CASE \/ Compute \/ PutData \/ PollTc \/ GetTime \/ RdTimeh \/ RdTime \/ RdTimeh2
           \/ Prepare \/ Ecalled \/ ReadPout \/ WritePout
  <2>1. CASE Running
    BY <1>1, <2>1, ProgramServed DEF Served
  <2>2. CASE ~Running
    <3>1. Serving /\ (PollTc \/ RdTimeh \/ RdTime \/ RdTimeh2)
      BY <1>1, <2>2, WhereRunning, PlacesAre DEF Served, Saving, ProgramPcs, Compute, PutData, PollTc, GetTime,
         RdTimeh, RdTime, RdTimeh2, Prepare, Ecalled, ReadPout, WritePout, At
    <3> QED
      BY <3>1, HandlerServed DEF Served
  <2> QED
    BY <2>1, <2>2
<1>2. CASE Interrupt \/ Except
  BY <1>2, InterruptTaken, ExceptionTaken DEF Served
<1>3. CASE Save
  <2>1. Saving
    BY <1>3, PlacesAre DEF Save, Served, Running, Serving
  <2> QED
    BY <1>3, <2>1, SaveServed DEF Served
<1>4. CASE Execute
  BY <1>4, WhereServing, ExecuteServed DEF Execute, HandlerPcs, Served
<1>5. CASE Restore
  BY <1>5, WhereServing, Restored DEF Restore, HandlerPcs, Served
<1>6. CASE \/ SaveInstr \/ ReturnZero \/ PeripheralHandler \/ uart1_handler
           \/ TimerHigh \/ TimerLow \/ TimerHigh2 \/ TimerCompare \/ Debugger \/ Write \/ Read
  <2>1. pc \in HandlerPcs \ {"poll", "rdtimeh", "rdtime", "rdtimeh2"}
    BY <1>6, NamesAre DEF SaveInstr, ReturnZero, PeripheralHandler, uart1_handler, TimerHigh, TimerLow,
       TimerHigh2, TimerCompare, Debugger, Write, Read, Handler, TimerPcs
  <2> QED
    BY <1>6, <2>1, WhereServing, HandlerServed DEF Served
<1>7. CASE TimePasses \/ Event \/ Transmitted
  <2>1. UNCHANGED <<pc, regs, csr, frames, ctx>>
    BY <1>7 DEF TimePasses, Event, Transmitted, ghost
  <2> QED
    BY <2>1 DEF Served, Running, Saving, Serving, TrapIs, Trapped, Computes, Call
<1> QED
  BY <1>1, <1>2, <1>3, <1>4, <1>5, <1>6, <1>7 DEF Next, Hart, Instruction

\* A program begins without a trap.
LEMMA InitInv == Init => TrapInv
<1> SUFFICES ASSUME Init PROVE TrapInv
  OBVIOUS
<1>1. 0 \in 0 .. MaxHigh /\ 0 \in 0 .. Base - 1 /\ 0 \in 0 .. MaxTime /\ 0 \in 0 .. MaxEvents
  BY TrapsAssumption
<1>2. Types
  <2>1. regs \in Registers
    BY <1>1 DEF Init, Registers, Minus1
  <2>2. flag \in [Sources \cup {"UART1"} -> BOOLEAN] /\ tc \in BOOLEAN /\ sending \in BOOLEAN
    BY DEF Init
  <2>3. csr.mie \in BOOLEAN /\ csr.mpie \in BOOLEAN
    BY DEF Init
  <2> QED
    BY <1>1, <2>1, <2>2, <2>3 DEF Init, Types
<1>3. Running
  BY DEF Init, Running, ProgramPcs, Computes
<1>4. Reading
  BY <1>1 DEF Init, Reading, Reads, ReadPcs
<1>5. Ticking
  <2>1. Join(0, 0) = 0 /\ tick = 0 /\ tick <= time + Delta
    BY TrapsAssumption DEF Init, Join
  <2> QED
    BY <2>1 DEF Init, Ticking
<1> QED
  BY <1>2, <1>3, <1>4, <1>5 DEF TrapInv, Served

\* Each step keeps the invariant.
LEMMA NextInv == ASSUME StaysInMemory, TrapInv, [Next]_vars PROVE TrapInv'
<1>1. CASE Next
  <2>1. Types'
    BY <1>1, ProgramTypes, HandlerTypes, DeviceTypes DEF TrapInv, Next, Hart, Instruction
  <2> QED
    BY <1>1, <2>1, ServedStep, ReadingStep, TickingStep DEF TrapInv
<1>2. CASE UNCHANGED vars
  BY <1>2 DEF vars, devices, env, ghost, TrapInv, Types, Served, Running, Saving, Serving, TrapIs, Trapped,
     Computes, Call, Reading, Reads, Ticking, ToCome, Due
<1> QED
  BY <1>1, <1>2

\* In every state of a program that stays in memory the invariant holds.
LEMMA TrapInvHolds == ASSUME StaysInMemory PROVE Spec => []TrapInv
BY InitInv, NextInv, PTL DEF Spec

\* One frame is on the stack at most: the handler is not interrupted and does
\* not trap.  The registers and the devices keep their types.
THEOREM TypeCorrect == ASSUME StaysInMemory PROVE Spec => []TypeOK
<1>1. TrapInv => TypeOK
  <2> SUFFICES ASSUME TrapInv PROVE TypeOK
    OBVIOUS
  <2>1. Len(frames) <= 1 /\ Len(ctx) <= 1 /\ \A i \in 1 .. Len(frames) : frames[i].regs \in Registers
    <3>1. CASE Running
      BY <3>1 DEF Running
    <3>2. CASE Saving
      BY <3>2, OneFrame DEF Saving, TrapIs
    <3>3. CASE Serving
      <4>1. ctx = <<Trapped>> /\ frames = <<[regs |-> Trapped.regs, mcause |-> Trapped.cause]>>
            /\ Trapped.regs \in Registers
        BY <3>3 DEF Serving, TrapIs
      <4> QED
        BY <4>1, OneFrame
    <3> QED
      BY <3>1, <3>2, <3>3 DEF TrapInv, Served
  <2> QED
    BY <2>1 DEF TrapInv, Types, TypeOK
<1> QED
  BY <1>1, TrapInvHolds, PTL

\* Traps come by an interrupt or an exception and leave by the last instruction
\* of the handler.
LEMMA ComeAndGo ==
  ASSUME TrapInv, Next
  PROVE  \/ Interrupt \/ Except
         \/ Serving /\ Restore
         \/ ctx' = ctx
<1>1. CASE Restore
  BY <1>1, WhereServing DEF TrapInv, Restore, HandlerPcs
<1>2. CASE SaveInstr
  <2>1. Serving
    BY <1>2, WhereServing DEF TrapInv, SaveInstr, HandlerPcs
  <2>2. csr.mepc # "nowhere"
    BY <2>1 DEF Serving, TrapIs, ProgramPcs
  <2> QED
    BY <1>2, <2>2 DEF SaveInstr, ghost
<1>3. CASE ~(Restore \/ Interrupt \/ Except \/ SaveInstr)
  BY <1>3 DEF Next, Hart, Instruction, Compute, PutData, PollTc, GetTime, RdTimeh, RdTime, RdTimeh2,
     Prepare, Ecalled, ReadPout, WritePout, Save, Execute, ReturnZero, PeripheralHandler,
     uart1_handler, TimerHigh, TimerLow, TimerHigh2, TimerCompare, Debugger, Write, Read, Handler,
     TimePasses, Event, Transmitted, Quiet, ghost
<1> QED
  BY <1>1, <1>2, <1>3

\* The trap being served, as the sequence of traps has it.
LEMMA Depth ==
  ASSUME TrapInv
  PROVE  Len(ctx) \in Nat /\ (Serving => ctx = <<Trapped>> /\ Len(ctx) = 1 /\ Last(ctx) = Trapped)
BY OneFrame DEF TrapInv, Served, Running, Saving, Serving, TrapIs

\* A trap leaves no trace in the program (trap_handler_direct).
THEOREM TrapsLeaveNoTrace == ASSUME StaysInMemory PROVE Spec => TrapTransparent
<1>1. ASSUME TrapInv, [Next]_vars
      PROVE  [Leaves => LET e == Last(ctx) IN
                /\ pc' = IF e.cause.intr THEN e.pc ELSE Next4(e.pc)
                /\ regs' = IF e.cause = ECALL THEN [e.regs EXCEPT !.a0 = Result(e.regs)] ELSE e.regs
                /\ csr'.mie]_vars
  <2> SUFFICES ASSUME Next, Leaves
               PROVE  /\ pc' = IF Last(ctx).cause.intr THEN Last(ctx).pc ELSE Next4(Last(ctx).pc)
                      /\ regs' = IF Last(ctx).cause = ECALL
                                   THEN [Last(ctx).regs EXCEPT !.a0 = Result(Last(ctx).regs)]
                                   ELSE Last(ctx).regs
                      /\ csr'.mie
    BY <1>1
  <2>1. Serving /\ Restore
    <3>1. CASE Interrupt \/ Except
      <4>1. ctx = <<>> /\ \E e : ctx' = <<e>>
        BY <1>1, <3>1, InterruptTaken, ExceptionTaken DEF TrapInv, Running
      <4> QED
        BY <4>1 DEF Leaves
    <3> QED
      BY <1>1, <3>1, ComeAndGo, Depth DEF Leaves
  <2>2. Last(ctx) = Trapped
    BY <1>1, <2>1, Depth
  <2> QED
    BY <1>1, <2>1, <2>2, Restored DEF TrapInv
<1> QED
  BY <1>1, TrapInvHolds, PTL DEF Spec, TrapTransparent

\* The time csr_get_time and gettimeofday return is one that was while they ran.
THEOREM TimesAreTrue == ASSUME StaysInMemory PROVE Spec => TimeIsTrue
<1>1. ASSUME TrapInv, [Next]_vars
      PROVE  [pc = "rdtimeh2" /\ pc' \in {"main", "return"} =>
                LET t == Join(regs.th, regs.tl) IN asked <= t /\ t <= time]_vars
  <2> SUFFICES ASSUME Next, pc = "rdtimeh2", pc' \in {"main", "return"}
               PROVE  asked <= Join(regs.th, regs.tl) /\ Join(regs.th, regs.tl) <= time
    BY <1>1
  <2>1. RdTimeh2
    BY TrapsAssumption DEF Next, Hart, Interrupt, Instruction, Compute, PutData, PollTc, GetTime, RdTimeh, RdTime,
       Prepare, Except, Ecalled, ReadPout, WritePout, Save, SaveInstr, Execute, ReturnZero, Restore,
       PeripheralHandler, uart1_handler, TimerHigh, TimerLow, TimerHigh2, TimerCompare, Debugger, Write,
       Read, Handler, TimePasses, Event, Transmitted, At, Trap
  <2>2. regs.th = Hi(time)
    BY <2>1 DEF RdTimeh2, Again
  <2> QED
    BY <1>1, <2>2 DEF TrapInv, Reading, Reads
<1> QED
  BY <1>1, TrapInvHolds, PTL DEF Spec, TimeIsTrue

\* Timer interrupts keep their distance, whatever the time does while the
\* handler reads and writes it in halves.
THEOREM TicksAreApart == ASSUME StaysInMemory PROVE Spec => TicksApart
<1>1. ASSUME TrapInv, [Next]_vars
      PROVE  [Len(ctx') > Len(ctx) /\ Last(ctx').cause = Intr(7) => time >= tick]_vars
  <2> SUFFICES ASSUME Next, Len(ctx') > Len(ctx), Last(ctx').cause = Intr(7) PROVE time >= tick
    BY <1>1
  <2>1. Interrupt
    <3>1. CASE Except
      <4>1. PICK c \in {ECALL, Exc(3), Exc(5)} : ctx' = <<[pc |-> pc, regs |-> regs, cause |-> c]>>
        BY <1>1, <3>1, ExceptionTaken DEF TrapInv
      <4>2. Last(ctx').cause = c
        BY <4>1, OneFrame
      <4> QED
        BY <4>2, CausesAre
    <3>2. CASE Serving /\ Restore
      <4>1. ctx' = <<>>
        BY <1>1, <3>2, Restored DEF TrapInv
      <4> QED
        BY <1>1, <3>2, <4>1, Depth
    <3> QED
      BY <1>1, <3>1, <3>2, ComeAndGo, Depth
  <2>2. PICK s \in All : Running /\ Raised(s)
                         /\ ctx' = <<[pc |-> pc, regs |-> regs, cause |-> Intr(IrqOf(s))]>>
    BY <1>1, <2>1, InterruptTaken DEF TrapInv
  <2>3. Intr(IrqOf(s)) = Intr(7)
    BY <2>2, OneFrame
  <2>4. s = "MTIME"
    BY <2>3, IrqsDiffer DEF Intr
  <2>5. time >= Join(cmp.hi, cmp.lo)
    BY <2>2, <2>4 DEF Raised
  <2>6. tick <= Join(cmp.hi, cmp.lo)
    BY <1>1, <2>2 DEF TrapInv, Ticking, ToCome, Running
  <2>7. tick \in Nat /\ time \in Nat /\ Join(cmp.hi, cmp.lo) \in Nat
    <3>1. cmp.hi \in Nat /\ cmp.lo \in 0 .. Base - 1 /\ time \in Nat /\ tick \in Nat
      BY <1>1, TrapsAssumption DEF TrapInv, Ticking, Types
    <3> QED
      BY <3>1, JoinIs
  <2> QED
    BY <2>5, <2>6, <2>7
<1> QED
  BY <1>1, TrapInvHolds, PTL DEF Spec, TicksApart
===============================================================================
