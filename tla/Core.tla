-------------------------------- MODULE Core --------------------------------
(***************************************************************************)
(* The three-stage pipelined hart of rtl/thuas-riscv/core.vhd: the control *)
(* state machine with its debug states, instruction fetch, decode, the     *)
(* trap CSRs, the local interrupt controller, the timing of the            *)
(* multiply/divide unit and the registered memory interface                *)
(* (FAST_MEM = false, HAVE_OCD = true).                                    *)
(*                                                                         *)
(* One step is one rising edge of the clock.  Every clocked process of the *)
(* VHDL reads the registers as they were before the edge, so each block    *)
(* below is an operator of the unprimed registers and the inputs i of the  *)
(* cycle.  Data is abstracted: addresses are word numbers 0..N-1 that wrap *)
(* around, an instruction is its class, operands and results are left out, *)
(* and a branch is taken or not by choice.                                 *)
(*                                                                         *)
(* arch is a history variable: the program counter and the interrupt       *)
(* enable stack of the sequential machine the RISC-V ISA describes, moved  *)
(* on by each completed instruction and each trap.  The properties compare *)
(* the pipeline with it.                                                   *)
(***************************************************************************)
EXTENDS Naturals, FiniteSets

CONSTANTS
    N,            \* number of instruction addresses
    Programs,     \* the instruction memories considered
    Target,       \* where the jump or branch at an address leads
    Mtvec,        \* address of the trap handler (direct mode)
    BadPcs,       \* addresses no instruction memory answers to
    DivCycles,    \* cycles of a division: 32, or 16 with FAST_DIVIDE
    MaxWait,      \* bus cycles after which every memory has answered
    HaltReqs, Irqs, Nmis, BusErrs, Resets,  \* values of the input wires
    DbgWrites     \* the writes of debug CSRs the debugger makes

Pcs == 0..(N - 1)
Kinds == {"alu", "load", "store", "jump", "branch", "mul", "div", "csr",
          "ecall", "ebreak", "mret", "wfi", "illegal"}
NoBp == N         \* tdata1 without an armed execute trigger

ASSUME CoreAssumption ==
    /\ N \in Nat \ {0}
    /\ Programs \subseteq [Pcs -> Kinds]
    /\ Target \in [Pcs -> Pcs]
    /\ Mtvec \in Pcs
    /\ BadPcs \subseteq Pcs
    /\ DivCycles \in Nat \ {0, 1}
    /\ MaxWait \in Nat
    /\ HaltReqs \subseteq BOOLEAN /\ HaltReqs # {} /\ Irqs \subseteq BOOLEAN
    /\ Nmis \subseteq BOOLEAN /\ BusErrs \subseteq BOOLEAN
    /\ Resets \subseteq BOOLEAN
    /\ DbgWrites \subseteq [reg : {"step", "ebreakm"}, val : BOOLEAN]
                     \cup [reg : {"dpc"}, val : Pcs]
                     \cup [reg : {"tdata"}, val : Pcs \cup {NoBp}]

VARIABLES
    ctl,      \* control: state, handshakes with the debug module, step flags
    ftc,      \* fetch: pc, if_id.pc and the address the ROM output belongs to
    acc,      \* instr_access_error(0) and (1)
    ex,       \* the id_ex register
    md,       \* multiply/divide unit: mul_running, divider count, div_ready
    csr,      \* mstatus.MIE/MPIE, mepc, mcause, NMI lockout, debug CSRs
    bus,      \* registered bus request and how long it has been outstanding
    halt_req, \* the halt request wire of the debug module
    rom,      \* the program
    arch,     \* history: the sequential machine
    hist      \* history: see Hist

vars == <<ctl, ftc, acc, ex, md, csr, bus, halt_req, rom, arch, hist>>

Inc(a) == (a + 1) % N

-----------------------------------------------------------------------------
\* Combinational signals.  i holds the input wires of the cycle.

isstepping == csr.step
indebug == ctl.state = "debug"
bpmatch == ex.pc = csr.bp
MayInterruptInMem == ctl.state \in {"exec", "wfi", "mem"}
may_interrupt == ctl.state \in {"exec", "wfi"}
MulNeverReady == md.div_ready
ReadyWhenIdle == md.mul_running \/ md.count = 0
mdready == md.mul_running \/ md.div_ready
penalty(i) == ex.kind \in {"jump", "mret"} \/ (ex.kind = "branch" /\ i.taken)

\* The local interrupt controller: the cause of the trap requested, or "none".
\* Interrupts need an interruptible state and no single-stepping; exceptions
\* are not gated by the state.
trap_mcause(i) ==
    IF i.nmi /\ may_interrupt /\ ~csr.nmi_lockout /\ ~isstepping THEN "nmi"
    ELSE IF i.irq /\ csr.mie /\ may_interrupt /\ ~isstepping THEN "irq"
    ELSE IF acc.e1 THEN "instraccess"
    ELSE IF ex.kind = "illegal" THEN "illegal"
    ELSE IF ex.kind = "ecall" THEN "ecall"
    ELSE IF ex.kind = "ebreak" /\ ~csr.ebreakm THEN "ebreak"
    ELSE IF i.err THEN "busaccess"
    ELSE "none"

trap_request(i) == trap_mcause(i) # "none"

stall(i) ==
    \/ ctl.state = "exec" /\ ex.ismem /\ ~i.ready
    \/ ctl.state = "md"
    \/ ctl.state = "wfi"
    \/ ctl.state = "mem" /\ ~i.ready
    \/ ctl.state = "exec" /\ ex.md_start

\* Why the hart leaves the exec state for debug mode in this cycle, if it does.
trigger ==
    IF halt_req THEN "halt"
    ELSE IF bpmatch /\ ~ctl.skip_match THEN "bp"
    ELSE IF ex.kind = "ebreak" /\ csr.ebreakm THEN "ebreak"
    ELSE IF isstepping /\ ~ctl.step THEN "step"
    ELSE "none"

stall_on_trigger ==
    \/ ctl.state = "debug"
    \/ ctl.state = "exec" /\ trigger # "none"

FlushOneShort(i) ==
    \/ penalty(i)
    \/ ctl.state \in {"debugflush", "trap", "trap2", "mret", "boot0"}

flush(i) ==
    \/ penalty(i)
    \/ ctl.state \in {"flush", "debugflush", "trap", "trap2", "mret", "boot0"}

\* Register file write enable.
WriteBack(i) == ~indebug /\ ~stall(i) /\ ~stall_on_trigger /\ ex.rd_en
                /\ ~trap_request(i)

-----------------------------------------------------------------------------
\* Instruction fetch: the PC, if_id.pc and the output register of the ROM.

NextPc(i) ==
    IF ctl.load_pc THEN csr.dpc
    ELSE IF stall(i) \/ stall_on_trigger THEN ftc.pc
    ELSE CASE ex.pc_op = "hold" -> ftc.pc
           [] ex.pc_op = "offset" -> Target[ex.pc]
           [] ex.pc_op = "branch" -> IF penalty(i) THEN Target[ex.pc] ELSE Inc(ftc.pc)
           [] ex.pc_op = "mtvec" -> Mtvec
           [] ex.pc_op = "mepc" -> csr.mepc
           [] OTHER -> Inc(ftc.pc)

Fetch(i) ==
    LET held == stall(i) \/ stall_on_trigger IN
    [pc  |-> NextPc(i),
     ifpc |-> IF held \/ ex.pc_op = "hold" THEN ftc.ifpc ELSE ftc.pc,
     out  |-> IF held THEN ftc.out ELSE ftc.pc]

\* The access error of a fetch travels with it for two cycles.
AccessError ==
    IF ctl.state = "trap" THEN [e0 |-> FALSE, e1 |-> FALSE]
    ELSE [e0 |-> ftc.pc \in BadPcs, e1 |-> acc.e0]

-----------------------------------------------------------------------------
\* Decode: what the id_ex register holds after the edge.

Bubble(a) == [pc |-> a, kind |-> "bubble", ismem |-> FALSE, md_start |-> FALSE,
              rd_en |-> FALSE, pc_op |-> "incr"]

PcOp(k) ==
    CASE k = "jump" -> "offset"
      [] k = "branch" -> "branch"
      [] k = "mret" -> "mepc"
      [] k \in {"mul", "div", "ecall"} -> "hold"
      [] k = "ebreak" -> IF csr.ebreakm THEN "incr" ELSE "hold"
      [] OTHER -> "incr"

\* While single-stepping a WFI raises no request: it is a no-operation.
Decoded(a, k) ==
    [pc |-> a, kind |-> IF k = "wfi" /\ isstepping THEN "nop" ELSE k,
     ismem |-> k \in {"load", "store"}, md_start |-> k \in {"mul", "div"},
     rd_en |-> k \in {"alu", "load", "jump", "csr"}, pc_op |-> PcOp(k)]

Decode(i) ==
    IF stall_on_trigger THEN Bubble(ex.pc)
    ELSE IF trap_request(i)
    THEN [Bubble(ex.pc) EXCEPT !.pc_op = "mtvec"]
    ELSE IF stall(i)
    THEN [ex EXCEPT !.ismem = FALSE, !.md_start = FALSE,
                    !.rd_en = @ \/ mdready,
                    !.pc_op = IF mdready THEN "incr" ELSE @]
    ELSE IF flush(i) \/ ctl.state \in {"debugflush", "debugflush2"}
    THEN Bubble(ftc.ifpc)
    ELSE Decoded(ftc.ifpc, rom[ftc.out])

-----------------------------------------------------------------------------
\* Multiply/divide unit: only its timing.

MdUnit(i) ==
    LET go == ex.md_start /\ ~trap_request(i)
        start == go /\ ex.kind = "div" /\ ~stall_on_trigger
    IN [mul_running |-> go /\ ex.kind = "mul",
        count |-> IF start THEN 1
                  ELSE IF md.count = 0 \/ md.count = DivCycles THEN 0
                  ELSE md.count + 1,
        div_ready |-> ~start /\ md.count = DivCycles - 1 /\ md.count # 0]

-----------------------------------------------------------------------------
\* Registered memory interface.  req is the access presented to the memories
\* in this cycle, wait the cycles the current access is outstanding.

Outstanding == bus.req # "none" \/ bus.wait > 0

AccessDespiteTrap(i) ==
    [req |-> IF ex.ismem /\ ~indebug /\ ~flush(i) /\ ~stall_on_trigger
             THEN ex.kind ELSE "none",
     wait |-> IF Outstanding /\ ~i.ready /\ ~i.err THEN bus.wait + 1 ELSE 0]

BusInterface(i) ==
    [req |-> IF ex.ismem /\ ~indebug /\ ~flush(i) /\ ~trap_request(i)
                /\ ~stall_on_trigger THEN ex.kind ELSE "none",
     wait |-> IF Outstanding /\ ~i.ready /\ ~i.err THEN bus.wait + 1 ELSE 0]

\* The memories answer within MaxWait cycles, never unasked; an access error
\* is signalled in the cycle of the request.
MemoryAnswers(i) ==
    /\ i.ready => Outstanding
    /\ i.err => bus.req # "none"
    /\ Outstanding /\ bus.wait >= MaxWait => i.ready \/ i.err

-----------------------------------------------------------------------------
\* The CSR process: trap entry and return take priority over a CSR write, the
\* debugger's write over the hardware update of the debug CSRs.

TrapEntryAnyway(i) == trap_request(i)
TrapEntry(i) == trap_request(i) /\ ~stall_on_trigger

\* The address a trap saves in mepc.
SavedNextPc == ftc.ifpc
SavedPc == ex.pc

CsrWrite(i) == ex.kind = "csr" /\ ~trap_request(i) /\ ~indebug /\ ~stall_on_trigger

DebugCsrs(i) ==
    LET c == [csr EXCEPT !.dpc = IF ctl.load_dpc THEN ex.pc ELSE @] IN
    IF ~indebug THEN c
    ELSE CASE i.dbg.reg = "step" -> [c EXCEPT !.step = i.dbg.val]
           [] i.dbg.reg = "ebreakm" -> [c EXCEPT !.ebreakm = i.dbg.val]
           [] i.dbg.reg = "dpc" -> [c EXCEPT !.dpc = i.dbg.val]
           [] i.dbg.reg = "tdata" -> [c EXCEPT !.bp = i.dbg.val]
           [] OTHER -> c

CsrBlock(i) ==
    LET c == DebugCsrs(i) IN
    IF TrapEntry(i)
    THEN [c EXCEPT !.mpie = csr.mie, !.mie = FALSE, !.mcause = trap_mcause(i),
                   !.mepc = SavedPc, !.nmi_lockout = @ \/ i.nmi]
    ELSE IF ctl.state = "mret2"
    THEN [c EXCEPT !.mie = csr.mpie, !.mpie = TRUE, !.nmi_lockout = FALSE]
    ELSE IF CsrWrite(i) THEN [c EXCEPT !.mie = TRUE]
    ELSE c

-----------------------------------------------------------------------------
\* The sequential machine.  An instruction completes when it leaves the
\* execute stage without trapping; a trap is taken when its CSRs are written.

Completes(i) ==
    /\ ctl.state \in {"exec", "mem", "md2"} /\ ex.kind # "bubble"
    /\ ~stall(i) /\ ~stall_on_trigger /\ ~trap_request(i)

Successor(i) ==
    IF ex.kind = "jump" \/ (ex.kind = "branch" /\ i.taken) THEN Target[arch.pc]
    ELSE IF ex.kind = "mret" THEN csr.mepc
    ELSE Inc(arch.pc)

Arch(i) ==
    IF ctl.load_pc THEN [arch EXCEPT !.pc = csr.dpc]
    ELSE IF TrapEntry(i) /\ ctl.state \in {"exec", "mem", "wfi"}
    THEN [pc |-> Mtvec, mie |-> FALSE, mpie |-> arch.mie]
    ELSE IF Completes(i)
    THEN [pc |-> Successor(i),
          mie |-> CASE ex.kind = "mret" -> arch.mpie
                    [] ex.kind = "csr" -> TRUE
                    [] OTHER -> arch.mie,
          mpie |-> arch.mpie \/ ex.kind = "mret"]
    ELSE arch

\* done: instructions completed and traps taken since the last resume (0..2).
\* issued: bus accesses begun since an instruction last completed or was given
\* up for a trap, that of the instruction given up included (0..2).  nmi: depth of the
\* traps nested in an NMI handler, itself included (0..3).
Hist(i) ==
    LET moved == Completes(i) \/ TrapEntry(i)
        inNmi == IF TrapEntry(i) THEN trap_mcause(i) = "nmi" \/ hist.nmi > 0 ELSE FALSE
        before == IF moved \/ ctl.load_pc THEN 0 ELSE hist.issued
    IN [done   |-> IF ctl.load_pc THEN 0
                   ELSE IF moved /\ hist.done < 2 THEN hist.done + 1 ELSE hist.done,
        issued |-> IF BusInterface(i).req # "none" /\ before < 2
                   THEN before + 1 ELSE before,
        nmi    |-> IF inNmi /\ hist.nmi < 3 THEN hist.nmi + 1
                   ELSE IF Completes(i) /\ ex.kind = "mret" /\ hist.nmi > 0
                   THEN hist.nmi - 1 ELSE hist.nmi]

-----------------------------------------------------------------------------
\* The control state machine, one action per state.

NoDbg == [reg |-> "none"]
Inputs == [irq : Irqs, nmi : Nmis, ready : BOOLEAN, err : BusErrs,
           taken : BOOLEAN, ack : BOOLEAN, dbg : {NoDbg} \cup DbgWrites]

\* A branch is the only instruction with a choice; the debug module writes
\* CSRs of a halted hart and acknowledges a reset it has seen.
Sensible(i) ==
    /\ MemoryAnswers(i)
    /\ i.taken => ex.kind = "branch"
    /\ i.ack => ctl.reset_ack
    /\ i.dbg # NoDbg => indebug

\* Everything but the control registers at a clock edge.
Datapath(i) ==
    /\ Sensible(i)
    /\ ftc' = Fetch(i)
    /\ acc' = AccessError
    /\ ex' = Decode(i)
    /\ md' = MdUnit(i)
    /\ csr' = CsrBlock(i)
    /\ bus' = BusInterface(i)
    /\ halt_req' \in HaltReqs
    /\ arch' = Arch(i)
    /\ hist' = Hist(i)
    /\ UNCHANGED rom

\* The control registers with the default assignments of the process.
Default(i) == [ctl EXCEPT !.load_pc = FALSE, !.load_dpc = FALSE,
                          !.reset_ack = @ /\ ~i.ack]

AckLate(c, why) ==
    [c EXCEPT !.state = "debug", !.step = FALSE, !.load_dpc = TRUE, !.dcsr_cause = why]

EnterDebug(c, why) ==
    [c EXCEPT !.state = "debug", !.halt_ack = TRUE, !.step = FALSE,
              !.load_dpc = TRUE, !.dcsr_cause = why]

Boot0(i) ==
    /\ ctl.state = "boot0"
    /\ ctl' = [Default(i) EXCEPT !.state = "boot1", !.skip_match = FALSE,
                  !.step = FALSE, !.halt_ack = FALSE, !.reset_ack = FALSE,
                  !.resume_ack = FALSE, !.dcsr_cause = "none"]
    /\ Datapath(i)

Boot1(i) ==
    /\ ctl.state = "boot1"
    /\ ctl' = [Default(i) EXCEPT !.state = "exec", !.reset_ack = TRUE]
    /\ Datapath(i)

Running(i) == [Default(i) EXCEPT !.resume_ack = TRUE, !.halt_ack = FALSE, !.step = FALSE]

\* A halt request, breakpoint, EBREAK or finished step: enter debug mode.
ExecTrigger(i) ==
    /\ ctl.state = "exec" /\ trigger # "none"
    /\ ctl' = EnterDebug(Running(i), trigger)
    /\ Datapath(i)

ExecNext(i) ==
    IF trap_request(i) THEN "trap"
    ELSE IF ex.kind = "wfi" THEN "wfi"
    ELSE IF ex.kind = "mret" THEN "mret"
    ELSE IF penalty(i) THEN "flush"
    ELSE IF ex.ismem /\ ~i.ready THEN "mem"
    ELSE IF ex.md_start THEN "md"
    ELSE "exec"

Exec(i) ==
    /\ ctl.state = "exec" /\ trigger = "none"
    /\ ctl' = [Running(i) EXCEPT !.state = ExecNext(i)]
    /\ Datapath(i)

Mem(i) ==
    /\ ctl.state = "mem"
    /\ ctl' = [Default(i) EXCEPT !.state = IF trap_request(i) THEN "trap"
                                           ELSE IF i.ready THEN "exec" ELSE "mem"]
    /\ Datapath(i)

Md(i) ==
    /\ ctl.state = "md"
    /\ ctl' = [Default(i) EXCEPT !.state = IF mdready THEN "md2" ELSE "md"]
    /\ Datapath(i)

Wfi(i) ==
    /\ ctl.state = "wfi"
    /\ ctl' = IF halt_req THEN EnterDebug(Default(i), "halt")
              ELSE [Default(i) EXCEPT !.state = IF trap_request(i) THEN "trap" ELSE "wfi"]
    /\ Datapath(i)

\* The states that only pass the time of a pipeline flush.
NoTrap3 ==
    [flush |-> "flush2", flush2 |-> "exec", md2 |-> "exec", trap |-> "trap2",
     trap2 |-> "exec", trap3 |-> "exec",
     mret |-> "mret2", mret2 |-> "exec", debugflush |-> "debugflush2",
     debugflush2 |-> "debugflush3", debugflush3 |-> "exec"]

FlushNext ==
    [flush |-> "flush2", flush2 |-> "exec", md2 |-> "exec", trap |-> "trap2",
     trap2 |-> IF isstepping THEN "trap3" ELSE "exec", trap3 |-> "exec",
     mret |-> "mret2", mret2 |-> "exec", debugflush |-> "debugflush2",
     debugflush2 |-> "debugflush3", debugflush3 |-> "exec"]

Flushing(i) ==
    /\ ctl.state \in DOMAIN FlushNext
    /\ ctl' = [Default(i) EXCEPT !.state = FlushNext[ctl.state]]
    /\ Datapath(i)

\* Halted: debug CSRs may be written; nothing else happens until resume.
Debug(i) ==
    /\ ctl.state = "debug"
    /\ ctl' = [Default(i) EXCEPT !.dcsr_cause = "none", !.halt_ack = TRUE]
    /\ Datapath(i)

ResumeNoStep(i) ==
    /\ ctl.state = "debug" /\ i.dbg = NoDbg
    /\ ctl' = [Default(i) EXCEPT !.state = "debugflush", !.step = FALSE,
                  !.dcsr_cause = "clear", !.load_pc = TRUE, !.halt_ack = FALSE,
                  !.resume_ack = FALSE, !.skip_match = bpmatch]
    /\ Datapath(i)

ResumeKeepsAck(i) ==
    /\ ctl.state = "debug" /\ i.dbg = NoDbg
    /\ ctl' = [Default(i) EXCEPT !.state = "debugflush", !.step = isstepping,
                  !.dcsr_cause = "clear", !.load_pc = TRUE, !.halt_ack = FALSE,
                  !.skip_match = bpmatch]
    /\ Datapath(i)

\* A resume request; a write of the debug module ends before it sends one.
Resume(i) ==
    /\ ctl.state = "debug" /\ i.dbg = NoDbg
    /\ ctl' = [Default(i) EXCEPT !.state = "debugflush", !.step = isstepping,
                  !.dcsr_cause = "clear", !.load_pc = TRUE, !.halt_ack = FALSE,
                  !.resume_ack = FALSE, !.skip_match = bpmatch]
    /\ Datapath(i)

\* Reset.  The ROM output register is not reset.
ctl0 == [state |-> "boot0", step |-> FALSE, skip_match |-> FALSE,
         halt_ack |-> FALSE, reset_ack |-> FALSE, resume_ack |-> FALSE,
         load_pc |-> FALSE, load_dpc |-> FALSE, dcsr_cause |-> "none"]
ftc0 == [pc |-> 0, ifpc |-> 0]
acc0 == [e0 |-> FALSE, e1 |-> FALSE]
ex0  == [Bubble(0) EXCEPT !.rd_en = TRUE]
md0  == [mul_running |-> FALSE, count |-> 0, div_ready |-> FALSE]
csr0 == [mie |-> FALSE, mpie |-> FALSE, mepc |-> 0, mcause |-> "none",
         nmi_lockout |-> FALSE, step |-> FALSE, ebreakm |-> FALSE,
         dpc |-> 0, bp |-> NoBp]
bus0 == [req |-> "none", wait |-> 0]
arch0 == [pc |-> 0, mie |-> FALSE, mpie |-> FALSE]
hist0 == [done |-> 0, issued |-> 0, nmi |-> 0]

Init ==
    /\ ctl = ctl0 /\ acc = acc0 /\ ex = ex0 /\ md = md0 /\ csr = csr0 /\ bus = bus0
    /\ ftc = [pc |-> 0, ifpc |-> 0, out |-> 0]
    /\ halt_req \in HaltReqs
    /\ rom \in Programs
    /\ arch = arch0 /\ hist = hist0

\* The synchronous reset: watchdog, UART break, ndmreset or the reset button.
SReset ==
    /\ TRUE \in Resets
    /\ ctl' = ctl0 /\ acc' = acc0 /\ ex' = ex0 /\ md' = md0 /\ csr' = csr0 /\ bus' = bus0
    /\ ftc' = [ftc EXCEPT !.pc = 0, !.ifpc = 0]
    /\ halt_req' \in HaltReqs
    /\ arch' = arch0 /\ hist' = hist0
    /\ UNCHANGED rom

Clock(i) ==
    \/ Boot0(i) \/ Boot1(i) \/ ExecTrigger(i) \/ Exec(i) \/ Mem(i) \/ Md(i)
    \/ Wfi(i) \/ Flushing(i) \/ Debug(i) \/ Resume(i)

Next == SReset \/ \E i \in Inputs : Clock(i)

\* The clock does not stop: an edge that changes a register of the hart comes.
regs == <<ctl, ftc, acc, ex, md, csr, bus>>

Spec == Init /\ [][Next]_vars /\ WF_regs(Next)

-----------------------------------------------------------------------------
States == {"boot0", "boot1", "exec", "mem", "flush", "flush2", "md", "md2",
           "trap", "trap2", "trap3", "mret", "mret2", "wfi", "debug",
           "debugflush", "debugflush2", "debugflush3"}
Causes == {"none", "clear", "halt", "bp", "ebreak", "step"}
Traps == {"none", "nmi", "irq", "instraccess", "illegal", "ecall", "ebreak", "busaccess"}

CtlType == [state : States, step : BOOLEAN, skip_match : BOOLEAN,
            halt_ack : BOOLEAN, reset_ack : BOOLEAN, resume_ack : BOOLEAN,
            load_pc : BOOLEAN, load_dpc : BOOLEAN, dcsr_cause : Causes]
FtcType == [pc : Pcs, ifpc : Pcs, out : Pcs]
AccType == [e0 : BOOLEAN, e1 : BOOLEAN]
ExType == [pc : Pcs, kind : Kinds \cup {"bubble", "nop"}, ismem : BOOLEAN,
           md_start : BOOLEAN, rd_en : BOOLEAN,
           pc_op : {"incr", "hold", "offset", "branch", "mtvec", "mepc"}]
MdType == [mul_running : BOOLEAN, count : 0..DivCycles, div_ready : BOOLEAN]
CsrType == [mie : BOOLEAN, mpie : BOOLEAN, mepc : Pcs, mcause : Traps,
            nmi_lockout : BOOLEAN, step : BOOLEAN, ebreakm : BOOLEAN,
            dpc : Pcs, bp : Pcs \cup {NoBp}]
BusType == [req : {"none"} \cup Kinds \cup {"bubble", "nop"}, wait : Nat]
ArchType == [pc : Pcs, mie : BOOLEAN, mpie : BOOLEAN]
HistType == [done : 0..2, issued : 0..2, nmi : 0..3]

\* Every register stays within its type: no counter or address runs out of range.
TypeOK ==
    /\ ctl \in CtlType /\ ftc \in FtcType /\ acc \in AccType /\ ex \in ExType
    /\ md \in MdType /\ csr \in CsrType /\ bus \in BusType
    /\ halt_req \in BOOLEAN /\ rom \in [Pcs -> Kinds]
    /\ arch \in ArchType /\ hist \in HistType

\* What the execute stage works on is the instruction the sequential machine
\* is at, with the interrupt enable stack that machine has: flushes after
\* jumps, traps, returns, resumes and resets neither skip nor repeat one.
ExecutesArch ==
    ctl.state = "exec" /\ ex.kind # "bubble" =>
        /\ ex.pc = arch.pc
        /\ ex.kind \in {rom[arch.pc], "nop"}
        /\ csr.mie = arch.mie /\ csr.mpie = arch.mpie

\* A trap saves the address of the instruction that did not complete, and the
\* interrupt enable of the interrupted program (core.vhd, trap entry).
TrapSavesArch ==
    [][ctl.state # "trap" /\ ctl'.state = "trap" =>
         csr'.mepc = arch.pc /\ csr'.mpie = arch.mie]_vars

\* A load or store puts exactly one access on the bus, and no other
\* instruction puts any: not when interrupted, halted, stepped or waiting.
AccessOnce == hist.issued = IF ctl.state = "mem" THEN 1 ELSE 0

\* Only an instruction with a destination writes the register file: no result
\* of the multiply/divide unit is written by another instruction.
WritersWrite ==
    (\E i \in Inputs : Sensible(i) /\ WriteBack(i)) =>
        \/ ex.kind \in {"alu", "load", "jump", "csr", "mul", "div"}
        \/ ctl.state \in {"boot0", "boot1"}

\* A step executes one instruction, or takes one trap, and then halts.
StepExactlyOne ==
    [][ctl.state # "debug" /\ ctl'.state = "debug" /\ ctl'.dcsr_cause = "step" =>
         hist.done = 1]_vars

\* Entering debug mode, DPC receives the address of the instruction to be
\* executed next, except when a halt request or a breakpoint meets the bubble
\* that follows a trap (load_dpc copies id_ex.pc one cycle later).
DpcExact ==
    [][ctl.state # "debug" /\ ctl'.state = "debug" =>
         \/ ex'.pc = arch'.pc
         \/ ex.kind = "bubble" /\ ctl'.dcsr_cause \in {"halt", "bp"}]_vars

\* DPC always receives the address of the instruction to be executed next
\* (docs/doc.adoc, the debug registers).
DpcIsNext ==
    [][ctl.state # "debug" /\ ctl'.state = "debug" => ex'.pc = arch'.pc]_vars

\* The hart acknowledges a halt exactly while it is in debug mode.
HaltAckInDebug == ctl.halt_ack <=> ctl.state = "debug"

\* What the debug module sees of the hart is the run control of module Hart.
phase ==
    CASE ctl.state \in {"boot0", "boot1"} -> "boot"
      [] ctl.state \in {"debugflush", "debugflush2", "debugflush3"} -> "resume"
      [] ctl.state = "debug" -> "halted"
      [] OTHER -> "run"

H == INSTANCE Hart WITH phase <- phase, halted <- ctl.halt_ack,
                        resumeack <- ctl.resume_ack, havereset <- ctl.reset_ack

ImplementsHart == H!Spec

\* Other than by MRET, MIE goes down only when the control unit goes to the trap
\* state, from where the handler is fetched (docs/doc.adoc, Trap handling): a
\* trap is not lost to a halt request, a breakpoint or a step of the same cycle.
MieClearedByTrap ==
    [][csr.mie /\ ~csr'.mie /\ ctl.state # "mret2" =>
         ctl'.state \in {"trap", "boot0"}]_vars

\* A trap is initiated in the exec state; an exception also in mem, an interrupt
\* also in wfi; in all other states a trap is never initiated (docs/doc.adoc,
\* Control Unit).  A trap initiation makes the decoder load the PC with mtvec.
TrapInitiation ==
    [][ex'.pc_op = "mtvec" =>
         \/ ctl.state = "exec"
         \/ ctl.state = "mem" /\ csr'.mcause \notin {"irq", "nmi"}
         \/ ctl.state = "wfi" /\ csr'.mcause \in {"irq", "nmi"}]_vars

\* An NMI handler is not interrupted by an NMI.
NmiNotNested ==
    [][hist.nmi > 0 /\ hist'.nmi > hist.nmi => csr'.mcause # "nmi"]_vars

\* Reaching the armed breakpoint, other than by resuming on it, halts.
BreakpointHit ==
    [][ctl.state = "exec" /\ ex.kind # "bubble" /\ ex.pc = csr.bp /\ hist.done > 0 =>
         ctl'.state \in {"debug", "boot0"}]_vars

\* A halt request that is kept up is eventually answered, whatever the hart is
\* doing: no state waits on something that does not come.
HaltHonoured == <>[]halt_req => []<>(ctl.state = "debug")
=============================================================================
