----------------------------- MODULE CoreProofs -----------------------------
(***************************************************************************)
(* Theorems about Core, for every program, every address space and every   *)
(* behaviour of the input wires: type correctness, the halt acknowledge,   *)
(* and that the hart implements the run control of module Hart.            *)
(*                                                                         *)
(* The second part is about the pipeline, which executes the program of    *)
(* the sequential machine: what the execute stage works on, what it puts   *)
(* on the bus and writes to the register file, what a trap saves, what a   *)
(* step executes and where the debugger finds the hart.  Three things are  *)
(* known to go wrong (README, section 4) and are assumed away there, each  *)
(* by a condition on the constants named where the part begins.            *)
(***************************************************************************)
EXTENDS Core, TLAPS

\* The alternatives of a clock edge without reset, for a case split.
LEMMA ClockCases ==
    ASSUME NEW i \in Inputs, Clock(i)
    PROVE  Datapath(i) /\ Sensible(i)
  BY DEF Clock, Boot0, Boot1, ExecTrigger, Exec, Mem, Md, Wfi, Flushing, Debug,
         Resume, Datapath

\* The input wires are Boolean but for the debugger's write.
LEMMA InputTypes ==
    ASSUME NEW i \in Inputs
    PROVE  /\ i.irq \in BOOLEAN /\ i.nmi \in BOOLEAN /\ i.ready \in BOOLEAN
           /\ i.err \in BOOLEAN /\ i.taken \in BOOLEAN /\ i.ack \in BOOLEAN
           /\ i.dbg = NoDbg \/ i.dbg \in DbgWrites
  BY CoreAssumption DEF Inputs, CoreAssumption

\* The address after the last one is address 0 (the program counter wraps).
LEMMA IncType == ASSUME NEW a \in Pcs PROVE Inc(a) \in Pcs
  BY CoreAssumption DEF CoreAssumption, Inc, Pcs

\* Every register is of its type when the hart comes out of reset.
LEMMA InitType == Init => TypeOK
  <1> SUFFICES ASSUME Init PROVE TypeOK
    OBVIOUS
  <1>1. 0 \in Pcs /\ NoBp \in Pcs \cup {NoBp}
    BY CoreAssumption DEF CoreAssumption, Pcs
  <1>2. ctl \in CtlType /\ acc \in AccType /\ md \in MdType /\ bus \in BusType
    BY CoreAssumption DEF CoreAssumption, Init, ctl0, acc0, md0, bus0, CtlType, AccType, MdType,
       BusType, States, Causes
  <1>3. ftc \in FtcType /\ ex \in ExType /\ csr \in CsrType
    BY <1>1 DEF Init, ex0, csr0, Bubble, FtcType, ExType, CsrType, Traps
  <1>4. halt_req \in BOOLEAN /\ rom \in [Pcs -> Kinds]
    BY CoreAssumption DEF CoreAssumption, Init
  <1>5. arch \in ArchType /\ hist \in HistType
    BY <1>1 DEF Init, arch0, hist0, ArchType, HistType
  <1> QED
    BY <1>2, <1>3, <1>4, <1>5 DEF TypeOK

\* Each block of the hart yields a value of its register's type.
LEMMA FetchType ==
    ASSUME TypeOK, NEW i \in Inputs
    PROVE  Fetch(i) \in FtcType
  <1>1. ftc.pc \in Pcs /\ ftc.ifpc \in Pcs /\ ftc.out \in Pcs /\ Inc(ftc.pc) \in Pcs
    BY IncType DEF TypeOK, FtcType
  <1>2. Target[ex.pc] \in Pcs /\ Mtvec \in Pcs /\ csr.mepc \in Pcs /\ csr.dpc \in Pcs
    BY CoreAssumption DEF CoreAssumption, TypeOK, ExType, CsrType
  <1>3. NextPc(i) \in Pcs
    BY <1>1, <1>2 DEF NextPc
  <1> QED
    BY <1>1, <1>3 DEF Fetch, FtcType

\* The shifted access errors (core.vhd, instr_access_error) are bits.
LEMMA AccessErrorType ==
    ASSUME TypeOK
    PROVE  AccessError \in AccType
  BY DEF AccessError, AccType, TypeOK

\* The id_ex register holds a decoded instruction or a bubble (core.vhd, decode).
LEMMA DecodeType ==
    ASSUME TypeOK, NEW i \in Inputs
    PROVE  Decode(i) \in ExType
  <1> DEFINE k == rom[ftc.out]
  <1>1. k \in Kinds /\ ftc.ifpc \in Pcs /\ ex \in ExType /\ ex.pc \in Pcs
    BY DEF TypeOK, FtcType, ExType
  <1>2. \A a \in Pcs : Bubble(a) \in ExType
    BY DEF Bubble, ExType
  <1>3. [Bubble(ex.pc) EXCEPT !.pc_op = "mtvec"] \in ExType
    BY <1>1 DEF Bubble, ExType
  <1>4. PcOp(k) \in {"incr", "hold", "offset", "branch", "mtvec", "mepc"}
    BY DEF PcOp
  <1>5. Decoded(ftc.ifpc, k) \in ExType
    <2>1. (IF k = "wfi" /\ isstepping THEN "nop" ELSE k) \in Kinds \cup {"bubble", "nop"}
      BY <1>1
    <2>2. /\ (k \in {"load", "store"}) \in BOOLEAN /\ (k \in {"mul", "div"}) \in BOOLEAN
          /\ (k \in {"alu", "load", "jump", "csr"}) \in BOOLEAN
      OBVIOUS
    <2> QED
      BY <1>1, <1>4, <2>1, <2>2 DEF Decoded, ExType
  <1>6. [ex EXCEPT !.ismem = FALSE, !.md_start = FALSE, !.rd_en = @ \/ mdready,
                   !.pc_op = IF mdready THEN "incr" ELSE @] \in ExType
    BY <1>1 DEF ExType
  <1> QED
    BY <1>1, <1>2, <1>3, <1>5, <1>6 DEF Decode

\* The division counter does not pass the number of cycles of a division.
LEMMA MdUnitType ==
    ASSUME TypeOK, NEW i \in Inputs
    PROVE  MdUnit(i) \in MdType
  <1>1. md.count \in 0..DivCycles /\ DivCycles \in Nat \ {0, 1}
    BY CoreAssumption DEF CoreAssumption, TypeOK, MdType
  <1>2. md.count # DivCycles => md.count + 1 \in 0..DivCycles
    BY <1>1
  <1>3. 0 \in 0..DivCycles /\ 1 \in 0..DivCycles
    BY <1>1
  <1> QED
    BY <1>1, <1>2, <1>3 DEF MdUnit, MdType

\* The bus request is one of the classes of instruction, or none.
LEMMA BusInterfaceType ==
    ASSUME TypeOK, NEW i \in Inputs
    PROVE  BusInterface(i) \in BusType
  BY DEF BusInterface, BusType, TypeOK, ExType

\* The debug CSRs keep their type when the debugger writes them.
LEMMA DebugCsrsType ==
    ASSUME TypeOK, NEW i \in Inputs
    PROVE  DebugCsrs(i) \in CsrType
  <1> DEFINE c == [csr EXCEPT !.dpc = IF ctl.load_dpc THEN ex.pc ELSE @]
  <1>1. c \in CsrType
    BY DEF TypeOK, ExType, CsrType
  <1>2. CASE i.dbg = NoDbg
    BY <1>1, <1>2 DEF DebugCsrs, NoDbg
  <1>3. CASE i.dbg \in DbgWrites
    <2>1. /\ i.dbg.reg \in {"step", "ebreakm"} => i.dbg.val \in BOOLEAN
          /\ i.dbg.reg = "dpc" => i.dbg.val \in Pcs
          /\ i.dbg.reg = "tdata" => i.dbg.val \in Pcs \cup {NoBp}
      BY <1>3, CoreAssumption DEF CoreAssumption
    <2> QED
      BY <1>1, <2>1 DEF DebugCsrs, CsrType
  <1> QED
    BY <1>2, <1>3, InputTypes

\* The CSRs keep their type through traps, returns and debugger writes.
LEMMA CsrBlockType ==
    ASSUME TypeOK, NEW i \in Inputs
    PROVE  CsrBlock(i) \in CsrType
  <1>1. csr \in CsrType /\ ex.pc \in Pcs
    BY DEF TypeOK, ExType
  <1>2. DebugCsrs(i) \in CsrType
    BY DebugCsrsType
  <1>3. trap_mcause(i) \in Traps
    BY DEF trap_mcause, Traps
  <1>4. i.nmi \in BOOLEAN /\ csr.mie \in BOOLEAN /\ csr.mpie \in BOOLEAN
    BY <1>1, InputTypes DEF CsrType
  <1> QED
    BY <1>1, <1>2, <1>3, <1>4 DEF CsrBlock, CsrType, SavedPc

\* The sequential machine keeps its type.
LEMMA ArchTypeStep ==
    ASSUME TypeOK, NEW i \in Inputs
    PROVE  Arch(i) \in ArchType
  <1>1. arch \in ArchType /\ arch.pc \in Pcs /\ csr.dpc \in Pcs /\ csr.mepc \in Pcs
    BY DEF TypeOK, ArchType, CsrType
  <1>2. Inc(arch.pc) \in Pcs /\ Target[arch.pc] \in Pcs /\ Mtvec \in Pcs
    BY <1>1, IncType, CoreAssumption DEF CoreAssumption
  <1>3. Successor(i) \in Pcs
    BY <1>1, <1>2 DEF Successor
  <1> QED
    BY <1>1, <1>2, <1>3 DEF Arch, ArchType

\* The saturating history counters keep their range.
LEMMA HistTypeStep ==
    ASSUME TypeOK, NEW i \in Inputs
    PROVE  Hist(i) \in HistType
  <1>1. hist.done \in 0..2 /\ hist.issued \in 0..2 /\ hist.nmi \in 0..3
    BY DEF TypeOK, HistType
  <1>2. /\ hist.done < 2 => hist.done + 1 \in 0..2
        /\ hist.issued < 2 => hist.issued + 1 \in 0..2
        /\ hist.nmi < 3 => hist.nmi + 1 \in 0..3
        /\ hist.nmi > 0 => hist.nmi - 1 \in 0..3
    BY <1>1
  <1> QED
    BY <1>1, <1>2 DEF Hist, HistType

\* The default assignments and those of the running states keep the type of ctl.
LEMMA DefaultType ==
    ASSUME TypeOK, NEW i \in Inputs
    PROVE  /\ Default(i) \in CtlType /\ Running(i) \in CtlType
           /\ isstepping \in BOOLEAN /\ bpmatch \in BOOLEAN
           /\ trigger \in Causes
  <1>1. ctl \in CtlType /\ isstepping \in BOOLEAN
    BY DEF TypeOK, isstepping, CsrType
  <1>2. Default(i) \in CtlType
    BY <1>1, InputTypes DEF Default, CtlType
  <1>3. Running(i) \in CtlType
    BY <1>2 DEF Running, CtlType
  <1> QED
    BY <1>1, <1>2, <1>3 DEF bpmatch, trigger, Causes

\* Entering debug mode keeps the type of ctl and the resume and reset handshakes.
LEMMA EnterDebugType ==
    ASSUME NEW c \in CtlType, NEW why \in Causes
    PROVE  /\ EnterDebug(c, why) \in CtlType
           /\ EnterDebug(c, why).state = "debug" /\ EnterDebug(c, why).halt_ack
           /\ EnterDebug(c, why).resume_ack = c.resume_ack
           /\ EnterDebug(c, why).reset_ack = c.reset_ack
  BY DEF EnterDebug, CtlType, States

\* Leaving debug mode keeps the type of ctl.
LEMMA ResumedType ==
    ASSUME NEW c \in CtlType, NEW step \in BOOLEAN, NEW skip \in BOOLEAN
    PROVE  [c EXCEPT !.state = "debugflush", !.step = step, !.dcsr_cause = "clear",
                     !.load_pc = TRUE, !.halt_ack = FALSE, !.resume_ack = FALSE,
                     !.skip_match = skip] \in CtlType
  BY DEF CtlType, States, Causes

\* Each state of the control unit (core.vhd, control process) keeps the type of ctl.
LEMMA CtlStep ==
    ASSUME TypeOK, NEW i \in Inputs, Clock(i)
    PROVE  ctl' \in CtlType
  <1> DEFINE d == Default(i)
             r == Running(i)
  <1>1. d \in CtlType /\ r \in CtlType /\ trigger \in Causes
        /\ isstepping \in BOOLEAN /\ bpmatch \in BOOLEAN
    BY DefaultType
  <1>2. \A s \in States : [d EXCEPT !.state = s] \in CtlType
                           /\ [r EXCEPT !.state = s] \in CtlType
    BY <1>1 DEF CtlType
  <1> HIDE DEF d, r
  <1>3. CASE Boot0(i)
    BY <1>1, <1>3 DEF Boot0, CtlType, States, Causes, d
  <1>4. CASE Boot1(i)
    BY <1>1, <1>4 DEF Boot1, CtlType, States, d
  <1>5. CASE ExecTrigger(i)
    BY <1>1, <1>5, EnterDebugType DEF ExecTrigger, r
  <1>6. CASE Exec(i)
    <2>1. ExecNext(i) \in States
      BY DEF ExecNext, States
    <2> QED
      BY <1>2, <1>6, <2>1 DEF Exec, r
  <1>7. CASE Mem(i)
    BY <1>2, <1>7 DEF Mem, States, d
  <1>8. CASE Md(i)
    BY <1>2, <1>8 DEF Md, States, d
  <1>9. CASE Wfi(i)
    <2>1. EnterDebug(d, "halt") \in CtlType
      BY <1>1, EnterDebugType DEF Causes
    <2> QED
      BY <1>2, <1>9, <2>1 DEF Wfi, States, d
  <1>10. CASE Flushing(i)
    <2>1. FlushNext[ctl.state] \in States
      BY <1>10 DEF Flushing, FlushNext, States
    <2> QED
      BY <1>2, <1>10, <2>1 DEF Flushing, d
  <1>11. CASE Debug(i)
    BY <1>1, <1>11 DEF Debug, CtlType, Causes, d
  <1>12. CASE Resume(i)
    BY <1>1, <1>12, ResumedType DEF Resume, d
  <1> QED
    BY <1>3, <1>4, <1>5, <1>6, <1>7, <1>8, <1>9, <1>10, <1>11, <1>12 DEF Clock

\* A clock edge without reset keeps every register's type.
LEMMA ClockType ==
    ASSUME TypeOK, NEW i \in Inputs, Clock(i)
    PROVE  TypeOK'
  <1>1. Datapath(i)
    BY ClockCases
  <1>2. ctl' \in CtlType
    BY CtlStep
  <1>3. ftc' \in FtcType /\ acc' \in AccType /\ ex' \in ExType
    BY <1>1, FetchType, AccessErrorType, DecodeType DEF Datapath
  <1>4. md' \in MdType /\ csr' \in CsrType /\ bus' \in BusType
    BY <1>1, MdUnitType, CsrBlockType, BusInterfaceType DEF Datapath
  <1>5. halt_req' \in BOOLEAN /\ rom' \in [Pcs -> Kinds]
    BY <1>1, CoreAssumption DEF CoreAssumption, Datapath, TypeOK
  <1>6. arch' \in ArchType /\ hist' \in HistType
    BY <1>1, ArchTypeStep, HistTypeStep DEF Datapath
  <1> QED
    BY <1>2, <1>3, <1>4, <1>5, <1>6 DEF TypeOK

\* The synchronous reset (riscv.vhd, sreset_sys_int) keeps every register's type.
LEMMA ResetType == TypeOK /\ SReset => TypeOK'
  <1> SUFFICES ASSUME TypeOK, SReset PROVE TypeOK'
    OBVIOUS
  <1>1. 0 \in Pcs
    BY CoreAssumption DEF CoreAssumption, Pcs
  <1>2. ctl' \in CtlType /\ acc' \in AccType /\ md' \in MdType /\ bus' \in BusType
    BY CoreAssumption DEF CoreAssumption, SReset, ctl0, acc0, md0, bus0, CtlType, AccType,
       MdType, BusType, States, Causes
  <1>3. ftc' \in FtcType /\ ex' \in ExType /\ csr' \in CsrType
    BY <1>1 DEF SReset, TypeOK, ex0, csr0, Bubble, FtcType, ExType, CsrType, Traps
  <1>4. halt_req' \in BOOLEAN /\ rom' \in [Pcs -> Kinds]
    BY CoreAssumption DEF CoreAssumption, SReset, TypeOK
  <1>5. arch' \in ArchType /\ hist' \in HistType
    BY <1>1 DEF SReset, arch0, hist0, ArchType, HistType
  <1> QED
    BY <1>2, <1>3, <1>4, <1>5 DEF TypeOK

\* TypeOK is inductive.
LEMMA NextType == TypeOK /\ [Next]_vars => TypeOK'
  <1>1. ASSUME TypeOK, UNCHANGED vars PROVE TypeOK'
    BY <1>1 DEF TypeOK, vars
  <1> QED
    BY <1>1, ClockType, ResetType DEF Next

\* Type correctness of the whole pipeline (core.vhd): whatever the program and
\* the wires do, every register stays in its range.
THEOREM TypeCorrect == Spec => []TypeOK
  BY InitType, NextType, PTL DEF Spec

-----------------------------------------------------------------------------
(* Run control.  HaltAckInDebug is inductive; the refinement also needs that *)
(* no resume acknowledge is pending while the hart boots.                    *)

BootInv == ctl.state \in {"boot0", "boot1"} => ~ctl.resume_ack

HartInv == HaltAckInDebug /\ BootInv

\* The handshake bits after the default assignments of the control process.
LEMMA DefaultFields ==
    ASSUME TypeOK, NEW i \in Inputs
    PROVE  /\ Default(i).state = ctl.state
           /\ Default(i).halt_ack = ctl.halt_ack
           /\ Default(i).resume_ack = ctl.resume_ack
           /\ Default(i).reset_ack = (ctl.reset_ack /\ ~i.ack)
           /\ Running(i).state = ctl.state
           /\ Running(i).halt_ack = FALSE
           /\ Running(i).resume_ack = TRUE
           /\ Running(i).reset_ack = (ctl.reset_ack /\ ~i.ack)
  BY DEF TypeOK, Default, Running, CtlType

\* Assigning the next state leaves the handshake bits alone.
LEMMA SetState ==
    ASSUME NEW c \in CtlType, NEW s
    PROVE  LET e == [c EXCEPT !.state = s] IN
           /\ e.state = s /\ e.halt_ack = c.halt_ack
           /\ e.resume_ack = c.resume_ack /\ e.reset_ack = c.reset_ack
  BY DEF CtlType

\* The run control part of a clock edge, action by action.
LEMMA ControlStep ==
    ASSUME TypeOK, NEW i \in Inputs, Clock(i)
    PROVE  LET acked == ctl'.reset_ack = (ctl.reset_ack /\ ~i.ack)
               kept == ctl'.resume_ack = ctl.resume_ack
               samehalt == ctl'.halt_ack = ctl.halt_ack
           IN
           \/ /\ ctl.state = "boot0" /\ ctl'.state = "boot1"
              /\ ~ctl'.halt_ack /\ ~ctl'.resume_ack /\ ~ctl'.reset_ack
           \/ /\ ctl.state = "boot1" /\ ctl'.state = "exec"
              /\ samehalt /\ kept /\ ctl'.reset_ack
           \/ /\ ctl.state = "exec" /\ ctl'.state = "debug"
              /\ ctl'.halt_ack /\ ctl'.resume_ack /\ acked
           \/ /\ ctl.state = "exec"
              /\ ctl'.state \in {"trap", "wfi", "mret", "flush", "mem", "md", "exec"}
              /\ ~ctl'.halt_ack /\ ctl'.resume_ack /\ acked
           \/ /\ ctl.state \in {"mem", "md", "wfi", "flush", "flush2", "md2", "trap", "trap2",
                                "trap3", "mret", "mret2"}
              /\ ctl'.state \in {"mem", "md", "wfi", "exec", "flush2", "md2", "trap", "trap2",
                                 "trap3", "mret2"}
              /\ samehalt /\ kept /\ acked
           \/ /\ ctl.state = "wfi" /\ ctl'.state = "debug"
              /\ ctl'.halt_ack /\ kept /\ acked
           \/ /\ ctl.state = "debug" /\ ctl'.state = "debug"
              /\ ctl'.halt_ack /\ kept /\ acked
           \/ /\ ctl.state = "debug" /\ ctl'.state = "debugflush"
              /\ ~ctl'.halt_ack /\ ~ctl'.resume_ack /\ acked
           \/ /\ ctl.state \in {"debugflush", "debugflush2", "debugflush3"}
              /\ ctl'.state \in {"debugflush2", "debugflush3", "exec"}
              /\ samehalt /\ kept /\ acked
  <1> DEFINE d == Default(i)
             r == Running(i)
  <1>1. /\ d \in CtlType /\ r \in CtlType /\ trigger \in Causes
        /\ isstepping \in BOOLEAN /\ bpmatch \in BOOLEAN
    BY DefaultType
  <1>2. /\ d.state = ctl.state /\ d.halt_ack = ctl.halt_ack /\ d.resume_ack = ctl.resume_ack
        /\ d.reset_ack = (ctl.reset_ack /\ ~i.ack)
        /\ r.halt_ack = FALSE /\ r.resume_ack = TRUE
        /\ r.reset_ack = (ctl.reset_ack /\ ~i.ack)
    BY DefaultFields
  <1> HIDE DEF d, r
  <1>3. CASE Boot0(i)
    BY <1>1, <1>3 DEF Boot0, CtlType, d
  <1>4. CASE Boot1(i)
    BY <1>1, <1>2, <1>4 DEF Boot1, CtlType, d
  <1>5. CASE ExecTrigger(i)
    BY <1>1, <1>2, <1>5, EnterDebugType DEF ExecTrigger, r
  <1>6. CASE Exec(i)
    <2>1. ExecNext(i) \in {"trap", "wfi", "mret", "flush", "mem", "md", "exec"}
      BY DEF ExecNext
    <2> QED
      BY <1>1, <1>2, <1>6, <2>1, SetState DEF Exec, r
  <1>7. CASE Mem(i)
    BY <1>1, <1>2, <1>7, SetState DEF Mem, d
  <1>8. CASE Md(i)
    BY <1>1, <1>2, <1>8, SetState DEF Md, d
  <1>9. CASE Wfi(i)
    <2>1. "halt" \in Causes
      BY DEF Causes
    <2> QED
      BY <1>1, <1>2, <1>9, <2>1, SetState, EnterDebugType DEF Wfi, d
  <1>10. CASE Flushing(i)
    <2>1. ctl' = [d EXCEPT !.state = FlushNext[ctl.state]]
      BY <1>10 DEF Flushing, d
    <2>2. /\ ctl'.state = FlushNext[ctl.state] /\ ctl'.halt_ack = ctl.halt_ack
          /\ ctl'.resume_ack = ctl.resume_ack
          /\ ctl'.reset_ack = (ctl.reset_ack /\ ~i.ack)
      BY <1>1, <1>2, <2>1, SetState
    <2>3. \/ /\ ctl.state \in {"debugflush", "debugflush2", "debugflush3"}
             /\ FlushNext[ctl.state] \in {"debugflush2", "debugflush3", "exec"}
          \/ /\ ctl.state \in {"flush", "flush2", "md2", "trap", "trap2", "trap3", "mret", "mret2"}
             /\ FlushNext[ctl.state] \in {"exec", "flush2", "trap2", "trap3", "mret2"}
      BY <1>10 DEF Flushing, FlushNext
    <2> QED
      BY <2>2, <2>3
  <1>11. CASE Debug(i)
    BY <1>1, <1>2, <1>11 DEF Debug, CtlType, d
  <1>12. CASE Resume(i)
    <2> DEFINE e(step, skip) ==
          [d EXCEPT !.state = "debugflush", !.step = step, !.dcsr_cause = "clear",
                    !.load_pc = TRUE, !.halt_ack = FALSE, !.resume_ack = FALSE,
                    !.skip_match = skip]
    <2>1. ctl.state = "debug" /\ ctl' = e(isstepping, bpmatch)
      BY <1>12 DEF Resume, d
    <2>2. \A step, skip : /\ e(step, skip).state = "debugflush"
                          /\ ~e(step, skip).halt_ack /\ ~e(step, skip).resume_ack
                          /\ e(step, skip).reset_ack = d.reset_ack
      BY <1>1 DEF CtlType
    <2> QED
      BY <1>2, <2>1, <2>2
  <1> QED
    BY <1>3, <1>4, <1>5, <1>6, <1>7, <1>8, <1>9, <1>10, <1>11, <1>12 DEF Clock

\* A hart out of reset satisfies the invariant and is an initial state of Hart.
LEMMA HartInvInit == Init => HartInv /\ H!Init
  <1>1. Init => /\ ctl.state = "boot0" /\ ~ctl.halt_ack /\ ~ctl.resume_ack /\ ~ctl.reset_ack
                /\ ctl.halt_ack = FALSE /\ ctl.resume_ack = FALSE /\ ctl.reset_ack = FALSE
    BY DEF Init, ctl0
  <1>2. Init => halt_req \in BOOLEAN
    BY CoreAssumption DEF CoreAssumption, Init
  <1> QED
    BY <1>1, <1>2 DEF HartInv, HaltAckInDebug, BootInv, H!Init, phase

\* HartInv is inductive, given the types.
LEMMA HartInvStep == TypeOK /\ HartInv /\ [Next]_vars => HartInv'
  <1> SUFFICES ASSUME TypeOK, HartInv, [Next]_vars PROVE HartInv'
    OBVIOUS
  <1> USE DEF HartInv, HaltAckInDebug, BootInv
  <1>1. CASE UNCHANGED vars
    BY <1>1 DEF vars
  <1>2. CASE SReset
    <2>1. ctl'.state = "boot0" /\ ctl'.halt_ack = FALSE /\ ctl'.resume_ack = FALSE
      BY <1>2 DEF SReset, ctl0
    <2> QED
      BY <2>1
  <1>3. ASSUME NEW i \in Inputs, Clock(i) PROVE HartInv'
    BY <1>3, ControlStep
  <1> QED
    BY <1>1, <1>2, <1>3 DEF Next

\* The acknowledge the debugger polls as allhalted says halted exactly while the
\* control unit is in the debug state (core.vhd, O_halt_ack).
THEOREM HaltAckCorrect == Spec => []HaltAckInDebug
  <1>1. HartInv => HaltAckInDebug
    BY DEF HartInv
  <1> QED
    BY <1>1, InitType, NextType, HartInvInit, HartInvStep, PTL DEF Spec

\* Every clock edge of the pipeline is an edge of Hart, or changes nothing that
\* Hart shows.
LEMMA HartStep == TypeOK /\ HartInv /\ [Next]_vars => [H!Next]_(H!hartvars)
  <1> SUFFICES ASSUME TypeOK, HartInv, [Next]_vars PROVE [H!Next]_(H!hartvars)
    OBVIOUS
  <1>1. CASE UNCHANGED vars
    BY <1>1 DEF vars, phase, H!hartvars, H!outputs
  <1>2. CASE SReset
    <2>1. /\ ctl'.state = "boot0" /\ ctl'.halt_ack = FALSE
          /\ ctl'.resume_ack = FALSE /\ ctl'.reset_ack = FALSE
      BY <1>2 DEF SReset, ctl0
    <2>2. halt_req' \in BOOLEAN
      BY <1>2, CoreAssumption DEF CoreAssumption, SReset
    <2> QED
      BY <2>1, <2>2 DEF phase, H!Next, H!Reset
  <1>3. ASSUME NEW i \in Inputs, Clock(i) PROVE [H!Next]_(H!hartvars)
    <2>1. halt_req' \in BOOLEAN
      BY <1>3, ClockCases, CoreAssumption DEF CoreAssumption, Datapath
    <2>2. i.ack \in BOOLEAN
      BY InputTypes
    <2>3. /\ ctl.halt_ack \in BOOLEAN /\ ctl.resume_ack \in BOOLEAN /\ ctl.reset_ack \in BOOLEAN
          /\ ctl'.halt_ack \in BOOLEAN /\ ctl'.resume_ack \in BOOLEAN
          /\ ctl'.reset_ack \in BOOLEAN
      BY <1>3, CtlStep DEF TypeOK, CtlType
    <2>4. \E resume \in BOOLEAN : H!Cycle(resume, i.ack)
      <3>1. CASE ctl.state \in {"boot0", "boot1"}
        <4>1. H!Boot
          BY <1>3, <2>3, <3>1, ControlStep DEF HartInv, HaltAckInDebug, BootInv, phase, H!Boot
        <4> QED
          BY <4>1 DEF H!Cycle
      <3>2. CASE ctl.state = "debug"
        <4>1. H!Stay(FALSE, i.ack) \/ H!Resume(TRUE, i.ack)
          BY <1>3, <2>3, <3>2, ControlStep
          DEF HartInv, HaltAckInDebug, phase, H!Stay, H!Resume, H!Acked
        <4> QED
          BY <4>1 DEF H!Cycle
      <3>3. CASE ctl.state \in {"debugflush", "debugflush2", "debugflush3"}
        <4>1. H!Resuming(i.ack)
          BY <1>3, <2>3, <3>3, ControlStep
          DEF HartInv, HaltAckInDebug, phase, H!Resuming, H!Acked
        <4> QED
          BY <4>1 DEF H!Cycle
      <3>4. CASE ctl.state \notin {"boot0", "boot1", "debug", "debugflush", "debugflush2",
                                  "debugflush3"}
        <4>1. H!Run(i.ack) \/ H!Halt(i.ack)
          BY <1>3, <2>3, <3>4, ControlStep
          DEF HartInv, HaltAckInDebug, phase, H!Run, H!Halt, H!Acked
        <4> QED
          BY <4>1 DEF H!Cycle
      <3> QED
        BY <3>1, <3>2, <3>3, <3>4
    <2> QED
      BY <2>1, <2>2, <2>4 DEF H!Next
  <1> QED
    BY <1>1, <1>2, <1>3 DEF Next

\* The pipeline, with its traps, flushes, waits and steps, implements the run
\* control that the debug module relies on (core.vhd, the acknowledges).
THEOREM CoreImplementsHart == Spec => ImplementsHart
  BY InitType, NextType, HartInvInit, HartInvStep, HartStep, PTL
  DEF Spec, ImplementsHart, H!Spec

-----------------------------------------------------------------------------
(* The pipeline. *)

\* What may stand behind a WFI: the hart stalls one cycle after it, when the next
\* instruction is in the execute stage already, and these do nothing there.
Quiet == {"alu", "jump", "branch", "mret", "wfi"}

\* Every instruction address is backed by memory, and no instruction with an
\* effect of its own stands behind a WFI.
Sheltered ==
    /\ BadPcs = {}
    /\ \A p \in Programs : \A a \in Pcs : p[a] = "wfi" => p[Inc(a)] \in Quiet

\* No NMI: one that comes in the cycle after a trap saves a wrong address.
NoNmi == TRUE \notin Nmis

\* No halt request comes in the cycle in which an interrupt wakes the hart.
NoRace ==
    \/ TRUE \notin HaltReqs
    \/ TRUE \notin Irqs /\ NoNmi
    \/ \A p \in Programs : \A a \in Pcs : p[a] # "wfi"

-----------------------------------------------------------------------------
(* The invariant of the pipeline.                                          *)

\* The instruction in the execute stage is the one at arch.pc, with the control
\* signals decode gave it and what a stall has left of them.
Instruction ==
    /\ ex.pc = arch.pc
    /\ ex.kind = rom[arch.pc] \/ (ex.kind = "nop" /\ rom[arch.pc] = "wfi")
    /\ ex.ismem <=> (ex.kind \in {"load", "store"} /\ ctl.state = "exec")
    /\ ex.md_start <=> (ex.kind \in {"mul", "div"} /\ ctl.state = "exec")
    /\ ex.rd_en => \/ ex.kind \in {"alu", "load", "jump", "csr"}
                   \/ ex.kind \in {"mul", "div"} /\ ctl.state = "md2"
    /\ ex.kind = "jump" => ex.pc_op = "offset"
    /\ ex.kind = "branch" => ex.pc_op = "branch"
    /\ ex.kind = "mret" => ex.pc_op = "mepc"
    /\ ex.kind \notin {"jump", "branch", "mret", "mul", "div", "ecall", "ebreak"}
         => ex.pc_op = "incr"
    /\ ex.kind \in {"mul", "div"} =>
         ex.pc_op = IF ctl.state = "md2" THEN "incr" ELSE "hold"

\* The instruction at a is in decode and the next one is being fetched.
InDecode(a) == ftc.ifpc = a /\ ftc.out = a /\ ftc.pc = Inc(a)

\* A bubble, and one that does nothing but let the fetch go on.
IsBubble == ex.kind = "bubble" /\ ~ex.ismem /\ ~ex.md_start
Vacant == IsBubble /\ ~ex.rd_en /\ ex.pc_op = "incr"

\* Instructions follow each other through the stages: at, behind or before the
\* execute stage is the instruction the sequential machine is at.
Working == Instruction /\ InDecode(Inc(arch.pc))
AfterTrap == Vacant /\ InDecode(arch.pc) /\ ~csr.mie /\ ~csr.step
Asleep == /\ ex.pc = arch.pc /\ ex.kind \in Quiet /\ ~ex.ismem /\ ~ex.md_start
          /\ ex.pc_op # "mtvec" /\ ~csr.step /\ \E a \in Pcs : rom[a] = "wfi"

Flow ==
    /\ ctl.state = "exec" => \/ Working /\ (ex.kind = "wfi" => ~csr.step)
                             \/ AfterTrap
    /\ ctl.state = "mem" => Working /\ ex.kind \in {"load", "store"}
    /\ ctl.state \in {"md", "md2"} => Working /\ ex.kind \in {"mul", "div"}
    /\ ctl.state = "wfi" => Asleep
    /\ ctl.state = "trap" =>
         IsBubble /\ ~ex.rd_en /\ ex.pc_op = "mtvec" /\ arch.pc = Mtvec
    /\ ctl.state \in {"trap", "trap2"} => ~csr.mie
    /\ ctl.state = "boot0" => IsBubble /\ ex.pc_op = "incr" /\ ftc.ifpc = arch.pc
    /\ ctl.state \in {"flush", "mret", "trap2", "debugflush2"} => Vacant
    /\ ctl.state \in {"boot0", "flush", "mret", "trap2", "debugflush2"} =>
         ftc.pc = arch.pc
    /\ ctl.state \in {"boot1", "flush2", "mret2", "trap3", "debugflush3"} =>
         Vacant /\ InDecode(arch.pc)
    /\ ctl.state = "debugflush" => Vacant
    /\ ctl.state = "debug" => ~ex.md_start

\* The interrupt enable stack is that of the sequential machine, but for the two
\* cycles in which an MRET is completed and not yet in mstatus.
Stack ==
    /\ ctl.state \in {"mret", "mret2"} => csr.mpie = arch.mie /\ arch.mpie
    /\ ctl.state \notin {"mret", "mret2"} =>
         csr.mie = arch.mie /\ csr.mpie = arch.mpie

\* The multiply/divide unit works for the instruction in the md state only.
Unit ==
    /\ ctl.state = "md" =>
         /\ ex.kind = "mul" => md.mul_running /\ md.count = 0
         /\ ex.kind = "div" => ~md.mul_running /\ md.count > 0
         /\ md.div_ready <=> md.count = DivCycles
    /\ ctl.state # "md" =>
         md.count = 0 /\ ~md.div_ready /\ (md.mul_running => ctl.state = "debug")

\* An access is outstanding in the mem state only, and it is the only one.
Access ==
    /\ AccessOnce
    /\ ctl.state # "mem" => bus.req = "none" /\ bus.wait = 0

\* No fetch fails, and the PC is loaded from dpc when the hart leaves debug mode.
Fetching == acc = acc0 /\ (ctl.load_pc <=> ctl.state = "debugflush")

\* While the hart is stepped: how far the one instruction has got.
Stepping ==
    csr.step =>
      /\ ctl.state \notin {"wfi", "boot0", "boot1"}
      /\ ctl.state \in {"debugflush", "debugflush2", "debugflush3"} => ctl.step
      /\ ctl.state \in {"debugflush2", "debugflush3"} => hist.done = 0
      /\ ctl.state = "exec" => hist.done = IF ctl.step THEN 0 ELSE 1
      /\ ctl.state \in {"mem", "md", "md2"} => hist.done = 0 /\ ~ctl.step
      /\ ctl.state \in {"flush", "flush2", "trap", "trap2", "trap3", "mret", "mret2"}
           => hist.done = 1 /\ ~ctl.step

PipeInv ==
    /\ Flow /\ Stack /\ Unit /\ Access /\ Fetching /\ Stepping
    /\ rom \in Programs /\ halt_req \in HaltReqs

-----------------------------------------------------------------------------
(* The control state machine, as the proofs below use it.                  *)

\* What a clock edge does to the control registers.
Moves(i) ==
    /\ ctl.state = "boot0" => ctl'.state = "boot1"
    /\ ctl.state = "boot1" => ctl'.state = "exec"
    /\ ctl.state = "exec" => ~ctl'.step
    /\ ctl.state = "exec" /\ trigger # "none" =>
         ctl'.state = "debug" /\ ctl'.dcsr_cause = trigger
    /\ ctl.state = "exec" /\ trigger = "none" => ctl'.state = ExecNext(i)
    /\ ctl.state = "mem" =>
         ctl'.state = IF trap_request(i) THEN "trap"
                      ELSE IF i.ready THEN "exec" ELSE "mem"
    /\ ctl.state = "md" => ctl'.state = IF mdready THEN "md2" ELSE "md"
    /\ ctl.state = "wfi" =>
         /\ halt_req => ctl'.state = "debug" /\ ctl'.dcsr_cause = "halt"
         /\ ~halt_req => ctl'.state = IF trap_request(i) THEN "trap" ELSE "wfi"
    /\ ctl.state = "flush" => ctl'.state = "flush2"
    /\ ctl.state \in {"flush2", "md2", "trap3", "mret2", "debugflush3"} =>
         ctl'.state = "exec"
    /\ ctl.state = "trap" => ctl'.state = "trap2"
    /\ ctl.state = "trap2" => ctl'.state = IF csr.step THEN "trap3" ELSE "exec"
    /\ ctl.state = "mret" => ctl'.state = "mret2"
    /\ ctl.state = "debugflush" => ctl'.state = "debugflush2"
    /\ ctl.state = "debugflush2" => ctl'.state = "debugflush3"
    /\ ctl.state = "debug" =>
         \/ ctl'.state = "debug"
         \/ ctl'.state = "debugflush" /\ ctl'.step = csr.step /\ i.dbg = NoDbg
    /\ ctl.state \notin {"exec", "debug", "boot0", "wfi"} => ctl'.step = ctl.step
    /\ ctl'.load_pc <=> ctl'.state = "debugflush"

\* One action of the control state machine at a time (core.vhd, control).
LEMMA EdgeMoves ==
    ASSUME TypeOK, NEW i \in Inputs, Clock(i)
    PROVE  Moves(i)
  <1>1. ctl \in CtlType
    BY DEF TypeOK
  <1>2. CASE Boot0(i)
    BY <1>1, <1>2 DEF Boot0, Default, Moves, CtlType
  <1>3. CASE Boot1(i)
    BY <1>1, <1>3 DEF Boot1, Default, Moves, CtlType
  <1>4. CASE ExecTrigger(i)
    BY <1>1, <1>4 DEF ExecTrigger, EnterDebug, Running, Default, Moves, CtlType
  <1>5. CASE Exec(i)
    <2>1. ExecNext(i) \in States /\ ExecNext(i) # "debugflush"
      BY DEF ExecNext, States
    <2> QED
      BY <1>1, <1>5, <2>1 DEF Exec, Running, Default, Moves, CtlType
  <1>6. CASE Mem(i)
    BY <1>1, <1>6 DEF Mem, Default, Moves, CtlType
  <1>7. CASE Md(i)
    BY <1>1, <1>7 DEF Md, Default, Moves, CtlType
  <1>8. CASE Wfi(i)
    BY <1>1, <1>8 DEF Wfi, EnterDebug, Default, Moves, CtlType
  <1>9. CASE Flushing(i)
    BY <1>1, <1>9 DEF Flushing, FlushNext, Default, Moves, CtlType, isstepping
  <1>10. CASE Debug(i)
    BY <1>1, <1>10 DEF Debug, Default, Moves, CtlType
  <1>11. CASE Resume(i)
    BY <1>1, <1>11 DEF Resume, Default, Moves, CtlType, isstepping
  <1> QED
    BY <1>2, <1>3, <1>4, <1>5, <1>6, <1>7, <1>8, <1>9, <1>10, <1>11 DEF Clock

\* The memory holds instructions; none of them is a bubble.
LEMMA RomType ==
    ASSUME TypeOK
    PROVE  /\ rom \in [Pcs -> Kinds] /\ arch.pc \in Pcs /\ rom[arch.pc] \in Kinds
           /\ ctl.state \in States
  BY DEF TypeOK, ArchType, CtlType

-----------------------------------------------------------------------------
(* The combinational signals in the states of the invariant.               *)

\* The bus answers in the mem state only, no fetch fails, and a trap is requested
\* only where it is taken, or in debug mode, where it is not.
Signals(i) ==
    /\ ctl.state # "mem" => ~i.ready /\ ~i.err
    /\ ~acc.e1
    /\ trap_request(i) => ctl.state \in {"exec", "mem", "wfi", "debug"}
    /\ ctl.state = "mem" /\ trap_request(i) => trap_mcause(i) = "busaccess"
    /\ ctl.state = "wfi" /\ trap_request(i) => trap_mcause(i) \in {"irq", "nmi"}
    /\ ctl.state \notin {"md", "debug"} => ~mdready
    /\ penalty(i) => ctl.state \in {"exec", "wfi", "debug"}

\* An answer, an error and a fetch error each need an access the invariant
\* excludes (core.vhd, the local interrupt controller, penalty, md ready).
LEMMA SignalsHold ==
    ASSUME TypeOK, PipeInv, NEW i \in Inputs, Sensible(i)
    PROVE  Signals(i)
  <1>1. ctl.state # "mem" => ~i.ready /\ ~i.err
    <2>1. MemoryAnswers(i)
      BY DEF Sensible
    <2>2. ctl.state # "mem" => ~Outstanding /\ bus.req = "none"
      BY DEF PipeInv, Access, Outstanding
    <2> QED
      BY <2>1, <2>2 DEF MemoryAnswers
  <1>2. ~acc.e1
    BY DEF PipeInv, Fetching, acc0
  <1>3. ctl.state \notin {"md", "debug"} => ~mdready
    BY DEF PipeInv, Unit, mdready
  <1>4. ctl.state \in States
    BY DEF TypeOK, CtlType
  <1>5. ctl.state \notin {"exec", "wfi", "debug"} =>
          ex.kind \in {"load", "store", "mul", "div", "bubble"}
    BY <1>4 DEF PipeInv, Flow, States, Working, Vacant, IsBubble
  <1>6. ctl.state = "mem" => ex.kind \in {"load", "store"}
    BY DEF PipeInv, Flow
  <1>7. ctl.state = "wfi" => ex.kind \in Quiet
    BY DEF PipeInv, Flow, Asleep
  <1>8. trap_request(i) => ctl.state \in {"exec", "mem", "wfi", "debug"}
    BY <1>1, <1>2, <1>5 DEF trap_request, trap_mcause, may_interrupt
  <1>9. ctl.state = "mem" /\ trap_request(i) => trap_mcause(i) = "busaccess"
    BY <1>2, <1>6 DEF trap_request, trap_mcause, may_interrupt
  <1>10. ctl.state = "wfi" /\ trap_request(i) => trap_mcause(i) \in {"irq", "nmi"}
    BY <1>1, <1>2, <1>7 DEF trap_request, trap_mcause, may_interrupt, Quiet
  <1>11. penalty(i) => ctl.state \in {"exec", "wfi", "debug"}
    BY <1>5 DEF penalty
  <1> QED
    BY <1>1, <1>2, <1>3, <1>8, <1>9, <1>10, <1>11 DEF Signals

\* A trap is taken in the exec, mem and wfi states only, where the sequential
\* machine takes it too.
LEMMA TrapTaken ==
    ASSUME TypeOK, PipeInv, NEW i \in Inputs, Sensible(i), TrapEntry(i)
    PROVE  ctl.state \in {"exec", "mem", "wfi"} /\ ~ctl.load_pc
  <1>1. Signals(i)
    BY SignalsHold
  <1> QED
    BY <1>1 DEF Signals, TrapEntry, stall_on_trigger, PipeInv, Fetching

-----------------------------------------------------------------------------
(* One part of the invariant after another.                                *)

\* Fetches do not fail where all addresses have memory; load_pc is a pulse.
LEMMA FetchingStep ==
    ASSUME Sheltered, TypeOK, PipeInv, NEW i \in Inputs, Clock(i)
    PROVE  Fetching'
  <1>1. Datapath(i) /\ Moves(i)
    BY ClockCases, EdgeMoves
  <1>2. acc' = AccessError
    BY <1>1 DEF Datapath
  <1>3. AccessError = acc0
    <2>1. acc.e0 = FALSE /\ (ftc.pc \in BadPcs) = FALSE
      BY DEF PipeInv, Fetching, acc0, Sheltered
    <2> QED
      BY <2>1 DEF AccessError, acc0
  <1> QED
    BY <1>1, <1>2, <1>3 DEF Moves, Fetching, acc0

\* The CSRs in the terms of the proofs: what an edge does to mstatus.
LEMMA StackMoves ==
    ASSUME TypeOK, PipeInv, NEW i \in Inputs, Clock(i)
    PROVE  /\ TrapEntry(i) => csr'.mie = FALSE /\ csr'.mpie = csr.mie
           /\ ~TrapEntry(i) /\ ctl.state = "mret2" =>
                csr'.mie = csr.mpie /\ csr'.mpie = TRUE
           /\ ~TrapEntry(i) /\ ctl.state # "mret2" =>
                /\ csr'.mie = IF CsrWrite(i) THEN TRUE ELSE csr.mie
                /\ csr'.mpie = csr.mpie
           /\ ctl.state # "debug" => csr'.step = csr.step
           /\ ctl.state = "debug" /\ i.dbg = NoDbg => csr'.step = csr.step
  <1> DEFINE d == DebugCsrs(i)
  <1>1. csr' = CsrBlock(i) /\ csr \in CsrType /\ d \in CsrType
    BY ClockCases, DebugCsrsType DEF Datapath, TypeOK
  <1>2. d.mie = csr.mie /\ d.mpie = csr.mpie
    BY <1>1 DEF DebugCsrs, CsrType
  <1>3. ctl.state # "debug" \/ i.dbg = NoDbg => d.step = csr.step
    BY <1>1 DEF DebugCsrs, CsrType, indebug, NoDbg
  <1> HIDE DEF d
  <1>4. csr'.step = d.step
    BY <1>1 DEF CsrBlock, CsrType, d
  <1>5. TrapEntry(i) => csr'.mie = FALSE /\ csr'.mpie = csr.mie
    BY <1>1 DEF CsrBlock, CsrType, d
  <1>6. ~TrapEntry(i) /\ ctl.state = "mret2" => csr'.mie = csr.mpie /\ csr'.mpie = TRUE
    BY <1>1 DEF CsrBlock, CsrType, d
  <1>7. ~TrapEntry(i) /\ ctl.state # "mret2" =>
          /\ csr'.mie = IF CsrWrite(i) THEN TRUE ELSE d.mie
          /\ csr'.mpie = d.mpie
    BY <1>1 DEF CsrBlock, CsrType, d
  <1> QED
    BY <1>2, <1>3, <1>4, <1>5, <1>6, <1>7

\* The sequential machine: what an edge does to it.
LEMMA ArchMoves ==
    ASSUME TypeOK, PipeInv, NEW i \in Inputs, Clock(i)
    PROVE  /\ ctl.state = "debugflush" =>
                arch'.pc = csr.dpc /\ arch'.mie = arch.mie /\ arch'.mpie = arch.mpie
           /\ TrapEntry(i) =>
                arch'.pc = Mtvec /\ arch'.mie = FALSE /\ arch'.mpie = arch.mie
           /\ Completes(i) =>
                /\ arch'.pc = Successor(i)
                /\ arch'.mie = IF ex.kind = "mret" THEN arch.mpie
                               ELSE IF ex.kind = "csr" THEN TRUE ELSE arch.mie
                /\ arch'.mpie = IF ex.kind = "mret" THEN TRUE ELSE arch.mpie
           /\ ctl.state # "debugflush" /\ ~TrapEntry(i) /\ ~Completes(i) =>
                arch' = arch
  <1>1. arch' = Arch(i) /\ arch \in ArchType /\ Sensible(i)
    BY ClockCases DEF Datapath, TypeOK
  <1>2. ctl.load_pc <=> ctl.state = "debugflush"
    BY DEF PipeInv, Fetching
  <1>3. TrapEntry(i) => ctl.state \in {"exec", "mem", "wfi"} /\ ~Completes(i)
    BY <1>1, TrapTaken DEF Completes, TrapEntry
  <1>4. Completes(i) => ctl.state \in {"exec", "mem", "md2"}
    BY DEF Completes
  <1>5. CASE ctl.state = "debugflush"
    BY <1>1, <1>2, <1>3, <1>4, <1>5 DEF Arch, ArchType
  <1>6. CASE ctl.state # "debugflush" /\ TrapEntry(i)
    BY <1>1, <1>2, <1>3, <1>6 DEF Arch
  <1>7. CASE ctl.state # "debugflush" /\ ~TrapEntry(i) /\ Completes(i)
    <2>1. arch' = [pc |-> Successor(i),
                   mie |-> CASE ex.kind = "mret" -> arch.mpie
                             [] ex.kind = "csr" -> TRUE
                             [] OTHER -> arch.mie,
                   mpie |-> arch.mpie \/ ex.kind = "mret"]
      BY <1>1, <1>2, <1>7 DEF Arch
    <2>2. arch.mie \in BOOLEAN /\ arch.mpie \in BOOLEAN
      BY <1>1 DEF ArchType
    <2> QED
      BY <2>1, <2>2, <1>7
  <1>8. CASE ctl.state # "debugflush" /\ ~TrapEntry(i) /\ ~Completes(i)
    BY <1>1, <1>2, <1>3, <1>8 DEF Arch
  <1> QED
    BY <1>5, <1>6, <1>7, <1>8

\* In the exec state loads, stores and the multiply/divide instructions stall; the
\* other instructions complete, unless they trap or the hart enters debug mode.
LEMMA ExecSignals ==
    ASSUME TypeOK, PipeInv, NEW i \in Inputs, Sensible(i), ctl.state = "exec"
    PROVE  /\ stall(i) <=> ex.kind \in {"load", "store", "mul", "div"}
           /\ stall_on_trigger <=> trigger # "none"
           /\ flush(i) <=> penalty(i)
           /\ Completes(i) <=> /\ trigger = "none" /\ ~trap_request(i)
                               /\ ex.kind \notin {"bubble", "load", "store", "mul", "div"}
  <1>1. Signals(i)
    BY SignalsHold
  <1>2. /\ ex.ismem <=> ex.kind \in {"load", "store"}
        /\ ex.md_start <=> ex.kind \in {"mul", "div"}
    BY DEF PipeInv, Flow, Working, Instruction, AfterTrap, Vacant, IsBubble
  <1>3. stall(i) <=> ex.kind \in {"load", "store", "mul", "div"}
    BY <1>1, <1>2 DEF Signals, stall
  <1> QED
    BY <1>3 DEF stall_on_trigger, flush, Completes

\* The CSRs are written by instructions that complete.
LEMMA CsrWriteCompletes ==
    ASSUME TypeOK, PipeInv, NEW i \in Inputs, Sensible(i), CsrWrite(i)
    PROVE  Completes(i) /\ ctl.state = "exec" /\ ex.kind = "csr"
  <1>1. ex.kind = "csr" /\ ctl.state # "debug"
    BY DEF CsrWrite, indebug
  <1>2. ctl.state = "exec"
    BY <1>1 DEF TypeOK, CtlType, States, PipeInv, Flow, Asleep, Quiet, Vacant, IsBubble
  <1> QED
    BY <1>1, <1>2, ExecSignals DEF CsrWrite

\* The interrupt enable stack follows the sequential machine through traps, MRET
\* and CSR instructions.
LEMMA StackStep ==
    ASSUME TypeOK, PipeInv, NEW i \in Inputs, Clock(i)
    PROVE  Stack'
  <1>1. Sensible(i) /\ Moves(i) /\ Signals(i)
    BY ClockCases, EdgeMoves, SignalsHold
  <1>2. Stack /\ csr \in CsrType /\ arch \in ArchType
    BY DEF PipeInv, TypeOK
  <1>3. CASE TrapEntry(i)
    <2>1. ctl.state \in {"exec", "mem", "wfi"}
      BY <1>1, <1>3, TrapTaken
    <2>2. ctl'.state \in {"trap", "debug"}
      BY <1>1, <1>3, <2>1 DEF Moves, TrapEntry, stall_on_trigger, ExecNext
    <2> QED
      BY <1>2, <1>3, <2>1, <2>2, StackMoves, ArchMoves DEF Stack
  <1>4. CASE ~TrapEntry(i) /\ Completes(i)
    <2>1. ctl.state \in {"exec", "mem", "md2"} /\ ctl.state # "mret2"
      BY <1>4 DEF Completes
    <2>2. ctl.state # "exec" => ex.kind \in {"load", "store", "mul", "div"}
      BY <2>1 DEF PipeInv, Flow
    <2>3. ctl.state # "exec" => ctl'.state \notin {"mret", "mret2"}
      BY <1>1, <2>1 DEF Moves
    <2>4. ctl.state = "exec" => ctl'.state = ExecNext(i) /\ ~trap_request(i)
      BY <1>1, <1>4, ExecSignals DEF Moves
    <2>5. ctl'.state \in {"mret", "mret2"} <=> ex.kind = "mret"
      BY <2>2, <2>3, <2>4 DEF ExecNext
    <2>6. ctl'.state # "mret2"
      BY <2>2, <2>3, <2>4 DEF ExecNext
    <2>7. CsrWrite(i) <=> ex.kind = "csr"
      BY <1>1, <1>4, <2>1, <2>2, CsrWriteCompletes DEF CsrWrite, Completes, indebug
    <2>8. csr.mie = arch.mie /\ csr.mpie = arch.mpie
      BY <1>2, <2>1 DEF Stack
    <2> QED
      BY <1>4, <2>1, <2>5, <2>6, <2>7, <2>8, StackMoves, ArchMoves DEF Stack
  <1>5. CASE ~TrapEntry(i) /\ ~Completes(i)
    <2>1. ~CsrWrite(i)
      BY <1>1, <1>5, CsrWriteCompletes
    <2>2. arch'.mie = arch.mie /\ arch'.mpie = arch.mpie
      BY <1>5, ArchMoves
    <2>3. ctl.state = "exec" => ctl'.state \notin {"mret", "mret2"}
      BY <1>1, <1>5, ExecSignals DEF Moves, ExecNext, TrapEntry
    <2>4. /\ ctl'.state = "mret2" <=> ctl.state = "mret"
          /\ ctl'.state # "mret"
      BY <1>1, <2>3 DEF Moves, TypeOK, CtlType, States
    <2> QED
      BY <1>2, <1>5, <2>1, <2>2, <2>4, StackMoves DEF Stack
  <1> QED
    BY <1>3, <1>4, <1>5

\* The multiply/divide unit is started in the exec state, ends in the md state and
\* leaves nothing behind for the instruction after it.
LEMMA UnitStep ==
    ASSUME TypeOK, PipeInv, NEW i \in Inputs, Clock(i)
    PROVE  Unit'
  <1>1. Sensible(i) /\ Moves(i) /\ Signals(i) /\ md' = MdUnit(i)
    BY ClockCases, EdgeMoves, SignalsHold DEF Datapath
  <1>2. md.count \in 0..DivCycles /\ DivCycles \in Nat \ {0, 1}
    BY CoreAssumption DEF CoreAssumption, TypeOK, MdType
  <1>3. ex.md_start = FALSE \/ ex.md_start = TRUE
    BY DEF TypeOK, ExType
  <1>4. ctl.state \in States
    BY DEF TypeOK, CtlType
  <1>5. CASE ctl.state = "md"
    <2>1. ~ex.md_start /\ ex.kind \in {"mul", "div"}
      BY <1>5 DEF PipeInv, Flow, Working, Instruction
    <2>2. ctl'.state = IF mdready THEN "md2" ELSE "md"
      BY <1>1, <1>5 DEF Moves
    <2>3. ex'.kind = ex.kind
      <3>1. ex' = Decode(i) /\ ex \in ExType
        BY ClockCases DEF Datapath, TypeOK
      <3>2. ~stall_on_trigger /\ ~trap_request(i) /\ stall(i)
        BY <1>1, <1>5 DEF stall_on_trigger, stall, Signals
      <3> QED
        BY <3>1, <3>2 DEF Decode, ExType
    <2>4. /\ ex.kind = "mul" => md.mul_running /\ md.count = 0
          /\ ex.kind = "div" => ~md.mul_running /\ md.count > 0
          /\ md.div_ready <=> md.count = DivCycles
      BY <1>5 DEF PipeInv, Unit
    <2>5. /\ ~md'.mul_running
          /\ md'.count = IF md.count = 0 \/ md.count = DivCycles THEN 0
                         ELSE md.count + 1
          /\ md'.div_ready <=> md.count = DivCycles - 1 /\ md.count # 0
      BY <1>1, <2>1 DEF MdUnit
    <2>6. CASE ex.kind = "mul"
      BY <1>2, <2>2, <2>4, <2>5, <2>6 DEF Unit, mdready
    <2>7. CASE ex.kind = "div" /\ ~mdready
      <3>1. md.count < DivCycles /\ md.count > 0
        BY <1>2, <2>4, <2>7 DEF mdready
      <3> QED
        BY <1>2, <2>2, <2>3, <2>4, <2>5, <2>7, <3>1 DEF Unit
    <2>8. CASE ex.kind = "div" /\ mdready
      BY <1>2, <2>2, <2>4, <2>5, <2>8 DEF Unit, mdready
    <2> QED
      BY <2>1, <2>6, <2>7, <2>8
  <1>6. CASE ctl.state # "md"
    <2>1. md.count = 0 /\ ~md.div_ready
      BY <1>6 DEF PipeInv, Unit
    <2>2. CASE ctl.state = "exec" /\ trigger = "none" /\ ~trap_request(i) /\ ex.md_start
      <3>1. ex.kind \in {"mul", "div"} /\ ~ex.ismem
        BY <1>1, <2>2 DEF PipeInv, Flow, Working, Instruction, AfterTrap, Vacant, IsBubble
      <3>2. ctl'.state = "md"
        BY <1>1, <2>2, <3>1 DEF Moves, ExecNext, penalty
      <3>3. ex'.kind = ex.kind
        <4>1. ex' = Decode(i) /\ ex \in ExType
          BY ClockCases DEF Datapath, TypeOK
        <4>2. ~stall_on_trigger /\ stall(i)
          BY <2>2 DEF stall_on_trigger, stall
        <4> QED
          BY <2>2, <4>1, <4>2 DEF Decode, ExType
      <3>4. ~stall_on_trigger
        BY <2>2 DEF stall_on_trigger
      <3>5. /\ md'.mul_running <=> ex.kind = "mul"
            /\ md'.count = IF ex.kind = "div" THEN 1 ELSE 0
            /\ ~md'.div_ready
        BY <1>1, <2>1, <2>2, <3>4 DEF MdUnit
      <3> QED
        BY <1>2, <3>1, <3>2, <3>3, <3>5 DEF Unit
    <2>3. CASE ctl.state = "exec" /\ trigger # "none"
      <3>1. ctl'.state = "debug" /\ stall_on_trigger
        BY <1>1, <2>3 DEF Moves, stall_on_trigger
      <3> QED
        BY <1>1, <2>1, <3>1 DEF MdUnit, Unit
    <2>4. CASE ~(ctl.state = "exec" /\ ~trap_request(i) /\ ex.md_start)
               /\ ~(ctl.state = "exec" /\ trigger # "none")
      <3>1. ctl'.state # "md"
        BY <1>1, <1>4, <1>6, <2>4 DEF Moves, ExecNext, States
      <3>2. ctl'.state # "debug" => ~(ex.md_start /\ ~trap_request(i))
        <4>1. ctl.state # "exec" => ~ex.md_start
          BY <1>4, <1>6 DEF PipeInv, Flow, Working, Instruction, Asleep, Vacant, IsBubble, States
        <4> QED
          BY <2>4, <4>1
      <3>3. ~(ex.md_start /\ ~trap_request(i) /\ ~stall_on_trigger)
        BY <1>6, <2>4, <1>4 DEF PipeInv, Flow, Working, Instruction, Asleep, Vacant, IsBubble,
           States, stall_on_trigger
      <3>4. md'.count = 0 /\ ~md'.div_ready
        BY <1>1, <2>1, <3>3 DEF MdUnit
      <3>5. md'.mul_running => ex.md_start /\ ~trap_request(i)
        BY <1>1 DEF MdUnit
      <3> QED
        BY <3>1, <3>2, <3>4, <3>5 DEF Unit
    <2> QED
      BY <2>2, <2>3, <2>4
  <1> QED
    BY <1>5, <1>6

\* A load or store that stalls in the exec state begins one access; in the mem
\* state it is answered, or refused and given up for a trap.
LEMMA AccessStep ==
    ASSUME TypeOK, PipeInv, NEW i \in Inputs, Clock(i)
    PROVE  Access'
  <1>1. Sensible(i) /\ Moves(i) /\ Signals(i)
    BY ClockCases, EdgeMoves, SignalsHold
  <1>2. bus' = BusInterface(i) /\ hist' = Hist(i)
    BY ClockCases DEF Datapath
  <1>3. ctl.state \in States
    BY DEF TypeOK, CtlType
  <1> DEFINE asks == ex.ismem /\ ~indebug /\ ~flush(i) /\ ~trap_request(i) /\ ~stall_on_trigger
             before == IF Completes(i) \/ TrapEntry(i) \/ ctl.load_pc THEN 0 ELSE hist.issued
  <1>4. /\ bus'.req = IF asks THEN ex.kind ELSE "none"
        /\ bus'.wait = IF Outstanding /\ ~i.ready /\ ~i.err THEN bus.wait + 1 ELSE 0
        /\ BusInterface(i).req = bus'.req
    BY <1>2 DEF BusInterface
  <1>5. hist'.issued = IF bus'.req # "none" /\ before < 2 THEN before + 1 ELSE before
    BY <1>2, <1>4 DEF Hist
  <1> HIDE DEF asks, before
  <1>6. CASE ctl.state = "mem"
    <2>1. ~asks
      BY <1>6 DEF asks, PipeInv, Flow, Working, Instruction
    <2>2. hist.issued = 1 /\ ~ctl.load_pc
      BY <1>6 DEF PipeInv, Access, AccessOnce, Fetching
    <2>3. ctl'.state = IF trap_request(i) THEN "trap" ELSE IF i.ready THEN "exec" ELSE "mem"
      BY <1>1, <1>6 DEF Moves
    <2>4. /\ TrapEntry(i) <=> trap_request(i)
          /\ Completes(i) <=> i.ready /\ ~trap_request(i)
      BY <1>6 DEF TrapEntry, Completes, stall_on_trigger, stall, PipeInv, Flow
    <2>5. i.err => trap_request(i)
      BY DEF trap_request, trap_mcause
    <2>6. trap_request(i) => i.err
      BY <1>1, <1>6 DEF Signals, trap_mcause, trap_request
    <2>7. bus'.req = "none"
      BY <1>4, <2>1
    <2>8. ctl'.state # "mem" => bus'.wait = 0
      BY <1>4, <2>3, <2>6
    <2>9. hist'.issued = IF ctl'.state = "mem" THEN 1 ELSE 0
      BY <1>5, <2>2, <2>3, <2>4, <2>7 DEF before
    <2> QED
      BY <2>7, <2>8, <2>9 DEF Access, AccessOnce
  <1>7. CASE ctl.state # "mem"
    <2>1. hist.issued = 0 /\ ~Outstanding
      BY <1>7 DEF PipeInv, Access, AccessOnce, Outstanding
    <2>2. before = 0 /\ bus'.wait = 0
      BY <1>4, <2>1 DEF before
    <2>3. CASE asks
      <3>1. ctl.state = "exec" /\ ex.ismem /\ ~stall_on_trigger /\ ~trap_request(i)
        BY <1>3, <1>7, <2>3 DEF asks, indebug, flush, stall_on_trigger, PipeInv, Flow, Working,
           Instruction, Vacant, IsBubble, Asleep, States
      <3>2. ex.kind \in {"load", "store"}
        BY <3>1 DEF PipeInv, Flow, Working, Instruction, AfterTrap, Vacant, IsBubble
      <3>3. ctl'.state = "mem"
        BY <1>1, <3>1, <3>2 DEF Moves, Signals, ExecNext, penalty, stall_on_trigger
      <3>4. bus'.req = ex.kind
        BY <1>4, <2>3
      <3> QED
        BY <1>5, <2>2, <3>2, <3>3, <3>4 DEF Access, AccessOnce
    <2>4. CASE ~asks
      <3>1. ctl.state = "exec" /\ ex.ismem => flush(i) \/ trap_request(i) \/ stall_on_trigger
        BY <2>4 DEF asks, indebug
      <3>2. ctl.state = "exec" /\ ex.ismem => ~flush(i)
        BY <1>1, ExecSignals DEF penalty, PipeInv, Flow, Working, Instruction, AfterTrap,
           Vacant, IsBubble
      <3>3. ctl'.state # "mem"
        BY <1>1, <1>3, <1>7, <3>1, <3>2 DEF Moves, ExecNext, stall_on_trigger, States
      <3>4. bus'.req = "none"
        BY <1>4, <2>4
      <3> QED
        BY <1>5, <2>2, <3>3, <3>4 DEF Access, AccessOnce
    <2> QED
      BY <2>3, <2>4
  <1> QED
    BY <1>6, <1>7

\* The instructions counted while the hart is stepped: one in the execute stage at
\* most, and none twice.
LEMMA SteppingStep ==
    ASSUME TypeOK, PipeInv, NEW i \in Inputs, Clock(i)
    PROVE  Stepping'
  <1> SUFFICES ASSUME csr'.step PROVE Stepping'
    BY DEF Stepping
  <1>1. Sensible(i) /\ Moves(i) /\ Signals(i)
    BY ClockCases, EdgeMoves, SignalsHold
  <1>2. ctl.state \in States
    BY DEF TypeOK, CtlType
  <1>3. CASE ctl.state = "debug"
    <2>1. \/ ctl'.state = "debug"
          \/ ctl'.state = "debugflush" /\ ctl'.step = csr.step /\ i.dbg = NoDbg
      BY <1>1, <1>3 DEF Moves
    <2>2. i.dbg = NoDbg => csr'.step = csr.step
      BY <1>3, StackMoves
    <2> QED
      BY <2>1, <2>2 DEF Stepping
  <1>4. CASE ctl.state # "debug"
    <2>1. csr.step
      BY <1>4, StackMoves
    <2>2. /\ ctl.state \notin {"wfi", "boot0", "boot1"}
          /\ ctl.state \in {"debugflush", "debugflush2", "debugflush3"} => ctl.step
          /\ ctl.state \in {"debugflush2", "debugflush3"} => hist.done = 0
          /\ ctl.state = "exec" => hist.done = IF ctl.step THEN 0 ELSE 1
          /\ ctl.state \in {"mem", "md", "md2"} => hist.done = 0 /\ ~ctl.step
          /\ ctl.state \in {"flush", "flush2", "trap", "trap2", "trap3", "mret", "mret2"}
               => hist.done = 1 /\ ~ctl.step
      BY <2>1 DEF PipeInv, Stepping
    <2>3. /\ ctl.state = "debugflush" => hist'.done = 0
          /\ ctl.state # "debugflush" /\ (Completes(i) \/ TrapEntry(i)) /\ hist.done = 0 =>
               hist'.done = 1
          /\ ctl.state # "debugflush" /\ ~Completes(i) /\ ~TrapEntry(i) =>
               hist'.done = hist.done
      <3>1. hist' = Hist(i) /\ (ctl.load_pc <=> ctl.state = "debugflush")
        BY ClockCases DEF Datapath, PipeInv, Fetching
      <3> QED
        BY <3>1 DEF Hist
    <2>4. CASE ctl.state = "exec"
      <3>1. Working /\ ex.kind # "wfi"
        BY <2>1, <2>4 DEF PipeInv, Flow, AfterTrap
      <3>2. CASE trigger # "none"
        BY <1>1, <2>4, <3>2 DEF Moves, Stepping
      <3>3. CASE trigger = "none"
        <4>1. ctl.step /\ hist.done = 0 /\ ~ctl'.step
          BY <1>1, <2>1, <2>2, <2>4, <3>3 DEF trigger, isstepping, Moves
        <4>2. ctl'.state = ExecNext(i)
          BY <1>1, <2>4, <3>3 DEF Moves
        <4>3. ex.kind # "bubble"
          BY <3>1, RomType DEF Working, Instruction, Kinds
        <4>4. TrapEntry(i) <=> trap_request(i)
          BY <2>4, <3>3 DEF TrapEntry, stall_on_trigger
        <4>5. CASE trap_request(i)
          BY <2>3, <2>4, <4>1, <4>2, <4>4, <4>5 DEF ExecNext, Stepping
        <4>6. CASE ~trap_request(i) /\ ex.kind \in {"load", "store", "mul", "div"}
          <5>1. ~Completes(i)
            BY <1>1, <2>4, <4>6, ExecSignals
          <5>2. ctl'.state \in {"mem", "md"}
            BY <1>1, <2>4, <3>1, <4>2, <4>6 DEF ExecNext, Working, Instruction, penalty, Signals
          <5> QED
            BY <2>3, <2>4, <4>1, <4>4, <4>6, <5>1, <5>2 DEF Stepping
        <4>7. CASE ~trap_request(i) /\ ex.kind \notin {"load", "store", "mul", "div"}
          <5>1. Completes(i)
            BY <1>1, <2>4, <3>3, <4>3, <4>7, ExecSignals
          <5>2. ctl'.state \in {"exec", "mret", "flush"}
            BY <2>4, <3>1, <4>2, <4>7 DEF ExecNext, Working, Instruction
          <5> QED
            BY <2>3, <2>4, <4>1, <5>1, <5>2 DEF Stepping
        <4> QED
          BY <4>5, <4>6, <4>7
      <3> QED
        BY <3>2, <3>3
    <2>5. CASE ctl.state = "mem"
      <3>1. /\ TrapEntry(i) <=> trap_request(i)
            /\ Completes(i) <=> i.ready /\ ~trap_request(i)
        BY <2>5 DEF TrapEntry, Completes, stall_on_trigger, stall, PipeInv, Flow
      <3> QED
        BY <1>1, <2>2, <2>3, <2>5, <3>1 DEF Moves, Stepping
    <2>6. CASE ctl.state = "md2"
      <3>1. Completes(i)
        BY <1>1, <2>6 DEF Signals, Completes, stall, stall_on_trigger, PipeInv, Flow
      <3> QED
        BY <1>1, <2>2, <2>3, <2>6, <3>1 DEF Moves, Stepping
    <2>7. CASE ctl.state \notin {"exec", "mem", "md2"}
      <3>1. ~Completes(i)
        BY <2>7 DEF Completes
      <3>2. ~TrapEntry(i)
        BY <1>1, <2>2, <2>7, TrapTaken
      <3> QED
        BY <1>1, <1>2, <1>4, <2>2, <2>3, <2>7, <3>1, <3>2 DEF Moves, Stepping, States
    <2> QED
      BY <2>4, <2>5, <2>6, <2>7
  <1> QED
    BY <1>3, <1>4

-----------------------------------------------------------------------------
(* The flow of instructions.                                               *)

\* A bubble keeps nothing of the instruction it replaces (core.vhd, decode).
LEMMA Bubbles ==
    ASSUME NEW i \in Inputs, Datapath(i)
    PROVE  /\ stall_on_trigger => Vacant'
           /\ ~stall_on_trigger /\ trap_request(i) =>
                IsBubble' /\ ~ex'.rd_en /\ ex'.pc_op = "mtvec"
           /\ /\ ~stall_on_trigger /\ ~trap_request(i) /\ ~stall(i)
              /\ flush(i) \/ ctl.state \in {"debugflush", "debugflush2"}
              => Vacant'
  <1>1. ex' = Decode(i)
    BY DEF Datapath
  <1>2. CASE stall_on_trigger
    BY <1>1, <1>2 DEF Decode, Bubble, Vacant, IsBubble
  <1>3. CASE ~stall_on_trigger /\ trap_request(i)
    BY <1>1, <1>3 DEF Decode, Bubble, IsBubble
  <1>4. CASE ~stall_on_trigger /\ ~trap_request(i)
    BY <1>1, <1>4 DEF Decode, Bubble, Vacant, IsBubble
  <1> QED
    BY <1>2, <1>3, <1>4

\* The fetch stage holds still, goes on or goes to the address of ex.pc_op.
LEMMA FetchMoves ==
    ASSUME PipeInv, NEW i \in Inputs, Datapath(i)
    PROVE  /\ ctl.state = "debugflush" => ftc'.pc = csr.dpc
           /\ (stall(i) \/ stall_on_trigger) /\ ctl.state # "debugflush" =>
                ftc'.pc = ftc.pc /\ ftc'.ifpc = ftc.ifpc /\ ftc'.out = ftc.out
           /\ ~stall(i) /\ ~stall_on_trigger /\ ctl.state # "debugflush" =>
                /\ ex.pc_op # "hold" => ftc'.ifpc = ftc.pc
                /\ ftc'.out = ftc.pc
                /\ ex.pc_op = "incr" \/ (ex.pc_op = "branch" /\ ~penalty(i)) =>
                     ftc'.pc = Inc(ftc.pc)
                /\ ex.pc_op = "offset" \/ (ex.pc_op = "branch" /\ penalty(i)) =>
                     ftc'.pc = Target[ex.pc]
                /\ ex.pc_op = "mtvec" => ftc'.pc = Mtvec
                /\ ex.pc_op = "mepc" => ftc'.pc = csr.mepc
  <1>1. ftc' = Fetch(i) /\ (ctl.load_pc <=> ctl.state = "debugflush")
    BY DEF Datapath, PipeInv, Fetching
  <1> QED
    BY <1>1 DEF Fetch, NextPc

\* An instruction in decode becomes the one executed, and its successor follows.
LEMMA Issue ==
    ASSUME TypeOK, NEW i \in Inputs, Datapath(i),
           ~stall_on_trigger, ~trap_request(i), ~stall(i), ~flush(i),
           ctl.state \notin {"debugflush", "debugflush2"},
           NEW a \in Pcs, InDecode(a), ftc'.pc = Inc(ftc.pc), ftc'.ifpc = ftc.pc,
           ftc'.out = ftc.pc, arch'.pc = a, ctl'.state = "exec"
    PROVE  Working' /\ (ex'.kind = "wfi" => ~csr.step)
  <1>1. ex' = Decoded(a, rom[a]) /\ rom' = rom
    BY DEF Datapath, Decode, InDecode
  <1>2. InDecode(Inc(arch.pc))'
    BY DEF InDecode
  <1>3. rom[a] \in Kinds
    BY RomType
  <1>4. /\ ex'.pc = a
        /\ ex'.kind = IF rom[a] = "wfi" /\ isstepping THEN "nop" ELSE rom[a]
        /\ ex'.ismem <=> rom[a] \in {"load", "store"}
        /\ ex'.md_start <=> rom[a] \in {"mul", "div"}
        /\ ex'.rd_en <=> rom[a] \in {"alu", "load", "jump", "csr"}
        /\ ex'.pc_op = PcOp(rom[a])
    BY <1>1 DEF Decoded
  <1>5. Instruction'
    <2>1. CASE rom[a] = "wfi"
      BY <1>1, <1>4, <2>1 DEF Instruction, PcOp
    <2>2. CASE rom[a] # "wfi"
      <3>1. ex'.kind = rom[a]
        BY <1>4, <2>2
      <3> QED
        BY <1>1, <1>3, <1>4, <3>1 DEF Instruction, PcOp, Kinds
    <2> QED
      BY <2>1, <2>2
  <1> QED
    BY <1>2, <1>4, <1>5 DEF Working, isstepping

\* The states in which the next instruction is being fetched (core.vhd, flush).
LEMMA FlowRefill ==
    ASSUME TypeOK, PipeInv, NEW i \in Inputs, Clock(i),
           ctl.state \in {"boot0", "flush", "mret", "trap2", "debugflush2"}
    PROVE  Flow'
  <1>1. Datapath(i) /\ Sensible(i) /\ Moves(i) /\ Signals(i)
    BY ClockCases, EdgeMoves, SignalsHold
  <1>2. IsBubble /\ ex.pc_op = "incr" /\ ftc.pc = arch.pc
    BY DEF PipeInv, Flow, Vacant
  <1>3. ~stall_on_trigger /\ ~stall(i) /\ ~trap_request(i)
    BY <1>1 DEF stall_on_trigger, stall, Signals
  <1>4. Vacant'
    BY <1>1, <1>3, Bubbles DEF flush
  <1>5. ftc'.pc = Inc(arch.pc) /\ ftc'.ifpc = arch.pc /\ ftc'.out = arch.pc
    BY <1>1, <1>2, <1>3, FetchMoves
  <1>6. arch' = arch /\ ~TrapEntry(i)
    BY <1>3, ArchMoves DEF TrapEntry, Completes
  <1>7. InDecode(arch.pc)'
    BY <1>5, <1>6 DEF InDecode
  <1>8. ctl.state = "trap2" => ~csr'.mie /\ csr'.step = csr.step
    <2>1. ctl.state = "trap2" => ~csr.mie /\ ~CsrWrite(i)
      BY <1>2 DEF PipeInv, Flow, CsrWrite, IsBubble
    <2> QED
      BY <1>6, <2>1, StackMoves
  <1>9. /\ ctl'.state \in {"boot1", "flush2", "mret2", "trap3", "debugflush3", "exec"}
        /\ ctl'.state = "exec" => ctl.state = "trap2" /\ ~csr.step
    BY <1>1 DEF Moves
  <1> QED
    BY <1>4, <1>7, <1>8, <1>9 DEF Flow, AfterTrap

\* The states in which the next instruction is in decode.
LEMMA FlowRefilled ==
    ASSUME TypeOK, PipeInv, NEW i \in Inputs, Clock(i),
           ctl.state \in {"boot1", "flush2", "mret2", "trap3", "debugflush3"}
    PROVE  Flow'
  <1>1. Datapath(i) /\ Sensible(i) /\ Moves(i) /\ Signals(i)
    BY ClockCases, EdgeMoves, SignalsHold
  <1>2. Vacant /\ InDecode(arch.pc) /\ arch.pc \in Pcs
    BY RomType DEF PipeInv, Flow
  <1>3. ~stall_on_trigger /\ ~stall(i) /\ ~trap_request(i) /\ ~flush(i)
    BY <1>1 DEF stall_on_trigger, stall, Signals, flush
  <1>4. ftc'.pc = Inc(ftc.pc) /\ ftc'.ifpc = ftc.pc /\ ftc'.out = ftc.pc
    BY <1>1, <1>2, <1>3, FetchMoves DEF Vacant
  <1>5. arch' = arch /\ csr'.step = csr.step
    BY <1>3, ArchMoves, StackMoves DEF TrapEntry, Completes
  <1>6. ctl'.state = "exec"
    BY <1>1 DEF Moves
  <1>7. Working' /\ (ex'.kind = "wfi" => ~csr.step)
    BY <1>1, <1>2, <1>3, <1>4, <1>5, <1>6, Issue
  <1> QED
    BY <1>5, <1>6, <1>7 DEF Flow

\* The trap state, in which the fetch is sent to the handler, and debug mode.
LEMMA FlowAway ==
    ASSUME TypeOK, PipeInv, NEW i \in Inputs, Clock(i),
           ctl.state \in {"trap", "debug", "debugflush"}
    PROVE  Flow'
  <1>1. Datapath(i) /\ Sensible(i) /\ Moves(i) /\ Signals(i)
    BY ClockCases, EdgeMoves, SignalsHold
  <1>2. CASE ctl.state = "trap"
    <2>1. IsBubble /\ ex.pc_op = "mtvec" /\ arch.pc = Mtvec /\ ~csr.mie
      BY <1>2 DEF PipeInv, Flow
    <2>2. ~stall_on_trigger /\ ~stall(i) /\ ~trap_request(i) /\ flush(i)
      BY <1>1, <1>2 DEF stall_on_trigger, stall, Signals, flush
    <2>3. Vacant' /\ ftc'.pc = Mtvec
      BY <1>1, <1>2, <2>1, <2>2, Bubbles, FetchMoves
    <2>4. arch' = arch /\ ~csr'.mie
      BY <1>2, <2>1, <2>2, ArchMoves, StackMoves
      DEF TrapEntry, Completes, CsrWrite, IsBubble
    <2>5. ctl'.state = "trap2"
      BY <1>1, <1>2 DEF Moves
    <2> QED
      BY <2>1, <2>3, <2>4, <2>5 DEF Flow
  <1>3. CASE ctl.state = "debug"
    <2>1. Vacant'
      BY <1>1, <1>3, Bubbles DEF stall_on_trigger
    <2>2. ctl'.state \in {"debug", "debugflush"}
      BY <1>1, <1>3 DEF Moves
    <2> QED
      BY <2>1, <2>2 DEF Flow, Vacant, IsBubble
  <1>4. CASE ctl.state = "debugflush"
    <2>1. ~stall_on_trigger /\ ~stall(i) /\ ~trap_request(i)
      BY <1>1, <1>4 DEF stall_on_trigger, stall, Signals
    <2>2. Vacant' /\ ftc'.pc = arch'.pc
      BY <1>1, <1>4, <2>1, Bubbles, FetchMoves, ArchMoves
    <2>3. ctl'.state = "debugflush2"
      BY <1>1, <1>4 DEF Moves
    <2> QED
      BY <2>2, <2>3 DEF Flow
  <1> QED
    BY <1>2, <1>3, <1>4

\* A trap leaves a bubble that sends the fetch to the handler.
LEMMA FlowTrap ==
    ASSUME TypeOK, PipeInv, NEW i \in Inputs, Clock(i), TrapEntry(i)
    PROVE  Flow'
  <1>1. Datapath(i) /\ Sensible(i) /\ Moves(i)
    BY ClockCases, EdgeMoves
  <1>2. ctl.state \in {"exec", "mem", "wfi"}
    BY <1>1, TrapTaken
  <1>3. IsBubble' /\ ~ex'.rd_en /\ ex'.pc_op = "mtvec"
    BY <1>1, Bubbles DEF TrapEntry
  <1>4. arch'.pc = Mtvec /\ csr'.mie = FALSE
    BY ArchMoves, StackMoves
  <1>5. ctl'.state \in {"trap", "debug"}
    BY <1>1, <1>2 DEF Moves, TrapEntry, stall_on_trigger, ExecNext
  <1> QED
    BY <1>3, <1>4, <1>5 DEF Flow, IsBubble

\* A stalled instruction stays in the execute stage (core.vhd, decode).
LEMMA Stalls ==
    ASSUME TypeOK, PipeInv, NEW i \in Inputs, Datapath(i), stall(i),
           ~stall_on_trigger, ~trap_request(i)
    PROVE  /\ ex'.pc = ex.pc /\ ex'.kind = ex.kind
           /\ ~ex'.ismem /\ ~ex'.md_start
           /\ ex'.rd_en <=> ex.rd_en \/ mdready
           /\ ex'.pc_op = IF mdready THEN "incr" ELSE ex.pc_op
  <1>1. ex' = Decode(i) /\ ex \in ExType
    BY DEF Datapath, TypeOK
  <1>2. mdready \in BOOLEAN /\ ex.rd_en \in BOOLEAN
    BY DEF mdready, TypeOK, MdType, ExType
  <1> QED
    BY <1>1, <1>2 DEF Decode, ExType

\* Loads and stores wait in the mem state, multiplications and divisions in md.
LEMMA FlowWait ==
    ASSUME TypeOK, PipeInv, NEW i \in Inputs, Clock(i),
           ctl.state \in {"exec", "mem", "md"}, stall(i), ~stall_on_trigger,
           ~trap_request(i)
    PROVE  Flow'
  <1>1. Datapath(i) /\ Sensible(i) /\ Moves(i) /\ Signals(i)
    BY ClockCases, EdgeMoves, SignalsHold
  <1>2. Working /\ ex.kind \in {"load", "store", "mul", "div"}
    BY <1>1, ExecSignals DEF PipeInv, Flow, AfterTrap, Vacant, IsBubble
  <1>3. /\ ctl.state = "mem" => ex.kind \in {"load", "store"} /\ ~i.ready
        /\ ctl.state = "md" => ex.kind \in {"mul", "div"}
    BY DEF PipeInv, Flow, stall
  <1>4. ctl'.state = IF ex.kind \in {"load", "store"} THEN "mem"
                     ELSE IF ctl.state = "md" /\ mdready THEN "md2" ELSE "md"
    BY <1>1, <1>2, <1>3 DEF Moves, Signals, ExecNext, Working, Instruction, penalty,
       stall_on_trigger
  <1>5. ctl.state # "md" => ~mdready
    BY <1>1 DEF Signals
  <1>6. arch' = arch /\ rom' = rom
    BY <1>1, ArchMoves DEF Completes, TrapEntry, Datapath
  <1>7. ftc'.pc = ftc.pc /\ ftc'.ifpc = ftc.ifpc /\ ftc'.out = ftc.out
    BY <1>1, FetchMoves
  <1>8. InDecode(Inc(arch.pc))'
    BY <1>2, <1>6, <1>7 DEF Working, InDecode
  <1>9. Instruction'
    <2>1. Instruction
      BY <1>2 DEF Working
    <2>2. ctl'.state \in {"mem", "md", "md2"} /\ ctl'.state # "exec"
      BY <1>4
    <2>3. /\ ex'.pc = ex.pc /\ ex'.kind = ex.kind
          /\ ~ex'.ismem /\ ~ex'.md_start
          /\ ex'.rd_en <=> ex.rd_en \/ mdready
          /\ ex'.pc_op = IF mdready THEN "incr" ELSE ex.pc_op
      BY <1>1, Stalls
    <2>4. ctl'.state = "md2" <=> mdready
      BY <1>2, <1>3, <1>4, <1>5
    <2>5. ctl.state # "md2" /\ (mdready => ex.kind \in {"mul", "div"})
      BY <1>3, <1>5
    <2>6. ex.kind \in {"load", "store"} => ex.pc_op = "incr"
      BY <2>1 DEF Instruction
    <2>7. ex.kind \in {"mul", "div"} => ex.pc_op = "hold"
      BY <2>1, <2>5 DEF Instruction
    <2>8. ex.rd_en => ex.kind = "load"
      BY <1>2, <2>1, <2>5 DEF Instruction
    <2>9. ex'.rd_en => ex.kind = "load" \/ (mdready /\ ex.kind \in {"mul", "div"})
      BY <2>3, <2>5, <2>8
    <2> QED
      BY <1>2, <1>6, <2>1, <2>2, <2>3, <2>4, <2>5, <2>6, <2>7, <2>9 DEF Instruction
  <1>10. ex'.kind = ex.kind
    BY <1>1, Stalls
  <1> QED
    BY <1>2, <1>4, <1>8, <1>9, <1>10 DEF Flow, Working

\* A jump, a taken branch or a return: the fetch starts again at the target.
LEMMA FlowPenalty ==
    ASSUME TypeOK, PipeInv, NEW i \in Inputs, Clock(i), ctl.state = "exec",
           Completes(i), penalty(i)
    PROVE  Flow'
  <1>1. Datapath(i) /\ Sensible(i) /\ Moves(i)
    BY ClockCases, EdgeMoves
  <1>2. /\ trigger = "none" /\ ~trap_request(i) /\ ~stall_on_trigger
        /\ ~stall(i) /\ ex.kind # "bubble"
    BY <1>1, ExecSignals
  <1>3. Instruction
    BY <1>2 DEF PipeInv, Flow, Working, AfterTrap, Vacant, IsBubble
  <1>4. ctl'.state = IF ex.kind = "mret" THEN "mret" ELSE "flush"
    BY <1>1, <1>2 DEF Moves, ExecNext, penalty
  <1>5. Vacant'
    BY <1>1, <1>2, Bubbles DEF flush
  <1>6. ex.kind = "branch" => i.taken
    BY DEF penalty
  <1>7. arch'.pc = IF ex.kind = "mret" THEN csr.mepc ELSE Target[ex.pc]
    BY <1>3, <1>6, ArchMoves DEF Successor, penalty, Instruction
  <1>8. ftc'.pc = arch'.pc
    BY <1>1, <1>2, <1>3, <1>7, FetchMoves DEF penalty, Instruction
  <1> QED
    BY <1>4, <1>5, <1>8 DEF Flow

\* Any other instruction completes and the one after it is executed; a bubble
\* behind a trap is followed by the handler.
LEMMA FlowOn ==
    ASSUME TypeOK, PipeInv, NEW i \in Inputs, Clock(i), ~penalty(i),
           ~stall_on_trigger, ~trap_request(i), ~stall(i), ctl'.state = "exec",
           \/ Completes(i) /\ ex.kind # "wfi"
           \/ ctl.state = "exec" /\ ex.kind = "bubble"
    PROVE  Flow'
  <1>1. Datapath(i) /\ Sensible(i)
    BY ClockCases
  <1>2. ctl.state \in {"exec", "mem", "md2"}
    BY DEF Completes
  <1>3. ~flush(i)
    BY <1>2 DEF flush
  <1>4. arch.pc \in Pcs /\ Inc(arch.pc) \in Pcs
    BY RomType, IncType
  <1>5. csr'.step = csr.step
    BY <1>2, StackMoves
  <1>6. CASE ctl.state = "exec" /\ ex.kind = "bubble"
    <2>1. Vacant /\ InDecode(arch.pc)
      BY <1>6, RomType DEF PipeInv, Flow, Working, Instruction, AfterTrap, Kinds
    <2>2. ftc'.pc = Inc(ftc.pc) /\ ftc'.ifpc = ftc.pc /\ ftc'.out = ftc.pc
      BY <1>1, <1>6, <2>1, FetchMoves DEF Vacant
    <2>3. arch' = arch
      BY <1>6, ArchMoves DEF TrapEntry, Completes
    <2>4. Working' /\ (ex'.kind = "wfi" => ~csr.step)
      BY <1>1, <1>2, <1>3, <1>4, <2>1, <2>2, <2>3, Issue
    <2> QED
      BY <1>5, <2>4 DEF Flow
  <1>7. CASE Completes(i) /\ ex.kind # "wfi"
    <2>1. ex.kind # "bubble"
      BY <1>7 DEF Completes
    <2>2. Working
      BY <1>2, <2>1 DEF PipeInv, Flow, AfterTrap, Vacant, IsBubble
    <2>3. ex.kind \notin {"jump", "mret", "ecall", "illegal"}
      BY <1>2 DEF penalty, trap_request, trap_mcause, PipeInv, Flow
    <2>4. ex.kind = "ebreak" => FALSE
      <3>1. ex.kind = "ebreak" => ctl.state = "exec"
        BY <1>2 DEF PipeInv, Flow
      <3>2. ex.kind = "ebreak" => csr.ebreakm
        BY DEF trap_request, trap_mcause
      <3> QED
        BY <3>1, <3>2 DEF stall_on_trigger, trigger
    <2>5. ctl.state # "md2" => ex.kind \notin {"mul", "div"}
      BY <1>1, <1>2, ExecSignals DEF PipeInv, Flow
    <2>6. ex.pc_op = IF ex.kind = "branch" THEN "branch" ELSE "incr"
      BY <2>2, <2>3, <2>4, <2>5 DEF Working, Instruction
    <2>7. ftc'.pc = Inc(ftc.pc) /\ ftc'.ifpc = ftc.pc /\ ftc'.out = ftc.pc
      BY <1>1, <1>2, <2>6, FetchMoves
    <2>8. arch'.pc = Inc(arch.pc)
      BY <1>7, <2>3, ArchMoves DEF Successor, penalty
    <2>9. Working' /\ (ex'.kind = "wfi" => ~csr.step)
      BY <1>1, <1>2, <1>3, <1>4, <2>2, <2>7, <2>8, Issue DEF Working
    <2> QED
      BY <1>5, <2>9 DEF Flow
  <1> QED
    BY <1>6, <1>7

\* A WFI completes; the instruction after it is in the execute stage from then on.
LEMMA FlowSleep ==
    ASSUME Sheltered, TypeOK, PipeInv, NEW i \in Inputs, Clock(i), ctl.state = "exec",
           Completes(i), ex.kind = "wfi"
    PROVE  Flow'
  <1>1. Datapath(i) /\ Sensible(i) /\ Moves(i)
    BY ClockCases, EdgeMoves
  <1>2. /\ trigger = "none" /\ ~trap_request(i) /\ ~stall_on_trigger
        /\ ~stall(i) /\ ~penalty(i) /\ ~flush(i)
    BY <1>1, ExecSignals DEF penalty
  <1>3. Working /\ ~csr.step
    BY DEF PipeInv, Flow, AfterTrap, Vacant, IsBubble
  <1>4. rom[arch.pc] = "wfi" /\ arch.pc \in Pcs /\ rom' = rom
    BY <1>1, <1>3, RomType DEF Working, Instruction, Datapath
  <1>5. rom \in Programs
    BY DEF PipeInv
  <1>6. rom[Inc(arch.pc)] \in Quiet
    BY <1>4, <1>5 DEF Sheltered
  <1>7. arch'.pc = Inc(arch.pc)
    BY ArchMoves DEF Successor
  <1>8. ex' = Decoded(Inc(arch.pc), rom[Inc(arch.pc)])
    BY <1>1, <1>2, <1>3 DEF Datapath, Decode, Working, InDecode
  <1>9. /\ ex'.pc = Inc(arch.pc) /\ ex'.kind = rom[Inc(arch.pc)]
        /\ ~ex'.ismem /\ ~ex'.md_start /\ ex'.pc_op # "mtvec"
    BY <1>3, <1>6, <1>8 DEF Decoded, PcOp, isstepping, Quiet
  <1>10. csr'.step = csr.step
    BY StackMoves
  <1>11. ctl'.state = "wfi"
    BY <1>1, <1>2 DEF Moves, ExecNext
  <1> QED
    BY <1>3, <1>4, <1>6, <1>7, <1>9, <1>10, <1>11 DEF Flow, Asleep

\* While the hart sleeps nothing moves, until an interrupt or a halt request.
LEMMA FlowAsleep ==
    ASSUME TypeOK, PipeInv, NEW i \in Inputs, Clock(i), ctl.state = "wfi", ~TrapEntry(i)
    PROVE  Flow'
  <1>1. Datapath(i) /\ Sensible(i) /\ Moves(i)
    BY ClockCases, EdgeMoves
  <1>2. ~stall_on_trigger /\ stall(i) /\ ~trap_request(i)
    BY DEF stall_on_trigger, stall, TrapEntry
  <1>3. Asleep
    BY DEF PipeInv, Flow
  <1>4. arch' = arch /\ rom' = rom /\ csr'.step = csr.step
    BY <1>1, ArchMoves, StackMoves DEF Completes, Datapath
  <1>5. /\ ex'.pc = ex.pc /\ ex'.kind = ex.kind /\ ~ex'.ismem /\ ~ex'.md_start
        /\ ex'.pc_op \in {"incr", ex.pc_op}
    BY <1>1, <1>2, Stalls
  <1>6. Asleep'
    BY <1>3, <1>4, <1>5 DEF Asleep
  <1>7. ctl'.state \in {"wfi", "debug"}
    BY <1>1, <1>2 DEF Moves
  <1> QED
    BY <1>5, <1>6, <1>7 DEF Flow

\* Every edge keeps the order of the instructions.
LEMMA FlowStep ==
    ASSUME Sheltered, TypeOK, PipeInv, NEW i \in Inputs, Clock(i)
    PROVE  Flow'
  <1>1. Datapath(i) /\ Sensible(i) /\ Moves(i) /\ Signals(i)
    BY ClockCases, EdgeMoves, SignalsHold
  <1>2. CASE TrapEntry(i)
    BY <1>2, FlowTrap
  <1>3. CASE ~TrapEntry(i) /\ ctl.state = "exec"
    <2>1. CASE trigger # "none"
      <3>1. Vacant' /\ ctl'.state = "debug"
        BY <1>1, <1>3, <2>1, Bubbles DEF Moves, stall_on_trigger
      <3> QED
        BY <3>1 DEF Flow, Vacant, IsBubble
    <2>2. CASE trigger = "none" /\ stall(i)
      BY <1>3, <2>2, FlowWait DEF TrapEntry, stall_on_trigger
    <2>3. CASE trigger = "none" /\ ~stall(i)
      <3>1. ~stall_on_trigger /\ ~trap_request(i)
        BY <1>3, <2>3 DEF TrapEntry, stall_on_trigger
      <3>2. Completes(i) \/ ex.kind = "bubble"
        BY <1>1, <1>3, <2>3, <3>1, ExecSignals
      <3>3. CASE penalty(i)
        BY <1>3, <3>2, <3>3, FlowPenalty DEF penalty
      <3>4. CASE ex.kind = "wfi"
        BY <1>3, <3>2, <3>4, FlowSleep
      <3>5. CASE ~penalty(i) /\ ex.kind # "wfi"
        <4>1. ~ex.ismem /\ ~ex.md_start
          BY <1>1, <1>3, <2>3 DEF stall, Signals
        <4>2. ctl'.state = "exec"
          BY <1>1, <1>3, <2>3, <3>1, <3>5, <4>1 DEF Moves, ExecNext, penalty
        <4> QED
          BY <1>3, <2>3, <3>1, <3>2, <3>5, <4>2, FlowOn
      <3> QED
        BY <3>3, <3>4, <3>5
    <2> QED
      BY <2>1, <2>2, <2>3
  <1>4. CASE ~TrapEntry(i) /\ ctl.state \in {"mem", "md", "md2"}
    <2>1. ~stall_on_trigger /\ ~trap_request(i)
      BY <1>4 DEF TrapEntry, stall_on_trigger
    <2>2. CASE stall(i)
      BY <1>4, <2>1, <2>2, FlowWait DEF stall
    <2>3. CASE ~stall(i)
      <3>1. ex.kind \in {"load", "store", "mul", "div"} /\ ~penalty(i)
        BY <1>4 DEF PipeInv, Flow, penalty
      <3>2. ctl.state # "md" /\ Completes(i)
        BY <1>4, <2>1, <2>3, <3>1 DEF stall, Completes
      <3>3. ctl'.state = "exec"
        BY <1>1, <1>4, <2>1, <2>3, <3>2 DEF Moves, stall
      <3> QED
        BY <2>1, <2>3, <3>1, <3>2, <3>3, FlowOn
    <2> QED
      BY <2>2, <2>3
  <1>5. CASE ~TrapEntry(i) /\ ctl.state = "wfi"
    BY <1>5, FlowAsleep
  <1>6. CASE ctl.state \notin {"exec", "mem", "md", "md2", "wfi"}
    BY <1>6, RomType, FlowRefill, FlowRefilled, FlowAway DEF States
  <1> QED
    BY <1>2, <1>3, <1>4, <1>5, <1>6

-----------------------------------------------------------------------------
(* The theorems.                                                           *)

\* Out of reset the first instruction is being fetched and nothing is on the way.
LEMMA PipeReset ==
    ASSUME ctl = ctl0, acc = acc0, ex = ex0, md = md0, csr = csr0, bus = bus0,
           ftc.pc = 0, ftc.ifpc = 0, arch = arch0, hist = hist0,
           rom \in Programs, halt_req \in HaltReqs
    PROVE  PipeInv
  <1>1. ctl.state = "boot0" /\ ~ctl.load_pc /\ ~csr.step
    BY DEF ctl0, csr0
  <1>2. Flow
    BY <1>1 DEF Flow, ex0, Bubble, IsBubble, arch0
  <1>3. Stack /\ Fetching /\ Stepping
    BY <1>1 DEF Stack, Fetching, Stepping, csr0, arch0
  <1>4. Unit /\ Access
    BY <1>1 DEF Unit, Access, AccessOnce, md0, bus0, hist0
  <1> QED
    BY <1>2, <1>3, <1>4 DEF PipeInv

\* The invariant holds at first.
LEMMA PipeInit == Init => PipeInv
  BY PipeReset DEF Init

\* Every edge keeps the invariant.
LEMMA PipeStep == ASSUME Sheltered PROVE TypeOK /\ PipeInv /\ [Next]_vars => PipeInv'
  <1> SUFFICES ASSUME TypeOK, PipeInv, [Next]_vars PROVE PipeInv'
    OBVIOUS
  <1>1. CASE UNCHANGED vars
    BY <1>1 DEF vars, PipeInv, Flow, Working, Instruction, AfterTrap, Asleep, Vacant,
       IsBubble, InDecode, Stack, Unit, Access, AccessOnce, Fetching, Stepping
  <1>2. CASE SReset
    <2>1. rom' \in Programs /\ halt_req' \in HaltReqs
      BY <1>2 DEF SReset, PipeInv
    <2>2. ftc'.pc = 0 /\ ftc'.ifpc = 0
      BY <1>2 DEF SReset, TypeOK, FtcType
    <2>3. /\ ctl' = ctl0 /\ acc' = acc0 /\ ex' = ex0 /\ md' = md0 /\ csr' = csr0
          /\ bus' = bus0 /\ arch' = arch0 /\ hist' = hist0
      BY <1>2 DEF SReset
    <2>4. ctl'.state = "boot0" /\ ~ctl'.load_pc /\ ~csr'.step
      BY <2>3 DEF ctl0, csr0
    <2>5. Flow'
      BY <2>2, <2>3, <2>4 DEF Flow, ex0, Bubble, IsBubble, arch0
    <2>6. Stack' /\ Fetching' /\ Stepping'
      BY <2>3, <2>4 DEF Stack, Fetching, Stepping, csr0, arch0
    <2>7. Unit' /\ Access'
      BY <2>3, <2>4 DEF Unit, Access, AccessOnce, md0, bus0, hist0
    <2> QED
      BY <2>1, <2>5, <2>6, <2>7 DEF PipeInv
  <1>3. ASSUME NEW i \in Inputs, Clock(i) PROVE PipeInv'
    <2>1. rom' \in Programs /\ halt_req' \in HaltReqs
      BY <1>3, ClockCases DEF Datapath, PipeInv
    <2> QED
      BY <1>3, <2>1, FlowStep, StackStep, UnitStep, AccessStep, FetchingStep, SteppingStep
      DEF PipeInv
  <1> QED
    BY <1>1, <1>2, <1>3 DEF Next

\* The pipeline invariant holds in every behaviour.
THEOREM PipelineHolds == ASSUME Sheltered PROVE Spec => [](TypeOK /\ PipeInv)
  BY InitType, NextType, PipeInit, PipeStep, PTL DEF Spec

\* The execute stage works on the instruction the sequential machine is at: no
\* flush, trap, return, resume or reset skips an instruction or repeats one.
THEOREM ExecutesProgram == ASSUME Sheltered PROVE Spec => []ExecutesArch
  <1>1. TypeOK /\ PipeInv => ExecutesArch
    BY DEF PipeInv, Flow, Working, Instruction, AfterTrap, Vacant, IsBubble, Stack, ExecutesArch
  <1> QED
    BY <1>1, PipelineHolds, PTL

\* A load or store makes one bus access, and nothing else makes any.
THEOREM AccessesOnce == ASSUME Sheltered PROVE Spec => []AccessOnce
  <1>1. TypeOK /\ PipeInv => AccessOnce
    BY DEF PipeInv, Access
  <1> QED
    BY <1>1, PipelineHolds, PTL

\* Only instructions with a destination write the register file.
THEOREM OnlyWritersWrite == ASSUME Sheltered PROVE Spec => []WritersWrite
  <1>1. ASSUME TypeOK, PipeInv, NEW i \in Inputs, Sensible(i), WriteBack(i),
               ctl.state \notin {"boot0", "boot1"}
        PROVE  ex.kind \in {"alu", "load", "jump", "csr", "mul", "div"}
    <2>1. ex.rd_en /\ ~stall(i) /\ ctl.state # "debug"
      BY <1>1 DEF WriteBack, indebug
    <2>2. ctl.state # "wfi"
      BY <2>1 DEF stall
    <2> QED
      BY <1>1, <2>1, <2>2, RomType DEF PipeInv, Flow, Working, Instruction, AfterTrap, Vacant,
         States
  <1>2. TypeOK /\ PipeInv => WritersWrite
    BY <1>1 DEF WritersWrite
  <1> QED
    BY <1>2, PipelineHolds, PTL

\* What a trap leaves in mepc and mcause.
LEMMA TrapCsrs ==
    ASSUME TypeOK, NEW i \in Inputs, Clock(i), TrapEntry(i)
    PROVE  csr'.mepc = ex.pc /\ csr'.mcause = trap_mcause(i)
  <1>1. csr' = CsrBlock(i) /\ DebugCsrs(i) \in CsrType
    BY ClockCases, DebugCsrsType DEF Datapath
  <1> DEFINE d == DebugCsrs(i)
  <1> HIDE DEF d
  <1>2. csr' = [d EXCEPT !.mpie = csr.mie, !.mie = FALSE, !.mcause = trap_mcause(i),
                         !.mepc = SavedPc, !.nmi_lockout = @ \/ i.nmi]
    BY <1>1 DEF CsrBlock, d
  <1> QED
    BY <1>1, <1>2 DEF CsrType, d, SavedPc

\* A trap is initiated in the exec, mem and wfi states only, in mem by an
\* exception and in wfi by an interrupt.
THEOREM TrapsInPlace == ASSUME Sheltered PROVE Spec => TrapInitiation
  <1>1. ASSUME TypeOK, PipeInv, [Next]_vars, ex'.pc_op = "mtvec", vars' # vars
        PROVE  \/ ctl.state = "exec"
               \/ ctl.state = "mem" /\ csr'.mcause \notin {"irq", "nmi"}
               \/ ctl.state = "wfi" /\ csr'.mcause \in {"irq", "nmi"}
    <2>1. ~SReset
      BY <1>1 DEF SReset, ex0, Bubble
    <2>2. PICK i \in Inputs : Clock(i)
      BY <1>1, <2>1 DEF Next
    <2>3. Datapath(i) /\ Sensible(i) /\ Signals(i)
      BY <1>1, <2>2, ClockCases, SignalsHold
    <2>4. ~stall_on_trigger
      BY <1>1, <2>3, Bubbles DEF Vacant
    <2>5. CASE trap_request(i)
      <3>1. TrapEntry(i)
        BY <2>4, <2>5 DEF TrapEntry
      <3>2. csr'.mcause = trap_mcause(i)
        BY <1>1, <2>2, <3>1, TrapCsrs
      <3>3. ctl.state \in {"exec", "mem", "wfi"}
        BY <1>1, <2>3, <3>1, TrapTaken
      <3> QED
        BY <2>3, <2>5, <3>2, <3>3 DEF Signals
    <2>6. CASE ~trap_request(i) /\ stall(i)
      <3>1. ctl.state \in {"exec", "mem", "md", "wfi"}
        BY <2>6 DEF stall
      <3>2. ctl.state = "exec" => ex.kind \in {"load", "store", "mul", "div"}
        BY <1>1, <2>3, <2>6, ExecSignals
      <3>3. ex.pc_op # "mtvec"
        BY <1>1, <3>1, <3>2 DEF PipeInv, Flow, Working, Instruction, AfterTrap, Vacant, Asleep
      <3> QED
        BY <1>1, <2>3, <2>4, <2>6, <3>3, Stalls
    <2>7. CASE ~trap_request(i) /\ ~stall(i)
      <3>1. ex' = Decode(i)
        BY <2>3 DEF Datapath
      <3>2. ex'.pc_op # "mtvec"
        BY <2>4, <2>7, <3>1 DEF Decode, Bubble, Decoded, PcOp
      <3> QED
        BY <1>1, <3>2
    <2> QED
      BY <2>5, <2>6, <2>7
  <1>2. TypeOK /\ PipeInv /\ [Next]_vars =>
          [ex'.pc_op = "mtvec" =>
             \/ ctl.state = "exec"
             \/ ctl.state = "mem" /\ csr'.mcause \notin {"irq", "nmi"}
             \/ ctl.state = "wfi" /\ csr'.mcause \in {"irq", "nmi"}]_vars
    BY <1>1
  <1> QED
    BY <1>2, PipelineHolds, PTL DEF Spec, TrapInitiation

\* Where an interrupt can wake the hart no halt request comes in the same cycle.
LEMMA NotBoth ==
    ASSUME NoRace, TypeOK, PipeInv, NEW i \in Inputs, Sensible(i), ctl.state = "wfi",
           TrapEntry(i)
    PROVE  ~halt_req
  <1>1. Signals(i) /\ trap_request(i)
    BY SignalsHold DEF TrapEntry
  <1>2. trap_mcause(i) \in {"irq", "nmi"}
    BY <1>1 DEF Signals
  <1>3. i.irq \/ i.nmi
    BY <1>2 DEF trap_mcause
  <1>4. i.irq \in Irqs /\ i.nmi \in Nmis /\ i.irq \in BOOLEAN /\ i.nmi \in BOOLEAN
    BY InputTypes DEF Inputs
  <1>5. TRUE \in Irqs \/ TRUE \in Nmis
    BY <1>3, <1>4
  <1>6. \E a \in Pcs : rom[a] = "wfi"
    BY DEF PipeInv, Flow, Asleep
  <1>7. rom \in Programs /\ halt_req \in HaltReqs
    BY DEF PipeInv
  <1> QED
    BY <1>5, <1>6, <1>7 DEF NoRace, NoNmi

\* After a reset the hart starts again.
LEMMA ResetState == SReset => ctl'.state = "boot0"
  BY DEF SReset, ctl0

\* A trap saves the address and the interrupt enable of the program it interrupts.
THEOREM TrapsSave == ASSUME Sheltered, NoNmi PROVE Spec => TrapSavesArch
  <1>1. ASSUME TypeOK, PipeInv, [Next]_vars, ctl.state # "trap", ctl'.state = "trap",
               vars' # vars
        PROVE  csr'.mepc = arch.pc /\ csr'.mpie = arch.mie
    <2>1. ~SReset
      BY <1>1, ResetState
    <2>2. PICK i \in Inputs : Clock(i)
      BY <1>1, <2>1 DEF Next
    <2>3. Datapath(i) /\ Sensible(i) /\ Moves(i) /\ Signals(i)
      BY <1>1, <2>2, ClockCases, EdgeMoves, SignalsHold
    <2>4. ctl.state \in {"exec", "mem", "wfi"} /\ trap_request(i) /\ ~stall_on_trigger
      <3>1. ctl.state \in {"exec", "mem", "wfi"}
        BY <1>1, <2>3, RomType DEF Moves, States
      <3>2. ctl.state = "exec" => trigger = "none" /\ ExecNext(i) = "trap"
        BY <1>1, <2>3 DEF Moves
      <3>3. trap_request(i)
        BY <1>1, <2>3, <3>1, <3>2 DEF Moves, ExecNext
      <3> QED
        BY <3>1, <3>2, <3>3 DEF stall_on_trigger
    <2>5. TrapEntry(i)
      BY <2>4 DEF TrapEntry
    <2>6. csr.mie = arch.mie
      BY <1>1, <2>4 DEF PipeInv, Stack
    <2>7. ex.pc = arch.pc
      <3>1. CASE Working \/ Asleep
        BY <3>1 DEF Working, Instruction, Asleep
      <3>2. CASE AfterTrap
        <4>1. i.nmi \in Nmis /\ i.nmi \in BOOLEAN
          BY InputTypes DEF Inputs
        <4>2. ctl.state # "wfi" \/ Asleep
          BY <1>1 DEF PipeInv, Flow
        <4>3. ctl.state # "mem" \/ Working
          BY <1>1 DEF PipeInv, Flow
        <4>4. CASE ctl.state = "exec"
          <5>1. trap_mcause(i) = "none"
            BY <2>3, <3>2, <4>1, <4>4 DEF AfterTrap, Vacant, IsBubble, Signals, trap_mcause, NoNmi
          <5> QED
            BY <2>4, <5>1 DEF trap_request
        <4> QED
          BY <2>4, <3>1, <4>2, <4>3, <4>4
      <3> QED
        BY <1>1, <2>4, <3>1, <3>2 DEF PipeInv, Flow
    <2> QED
      BY <1>1, <2>2, <2>5, <2>6, <2>7, TrapCsrs, StackMoves
  <1>2. TypeOK /\ PipeInv /\ [Next]_vars =>
          [ctl.state # "trap" /\ ctl'.state = "trap" =>
             csr'.mepc = arch.pc /\ csr'.mpie = arch.mie]_vars
    BY <1>1
  <1> QED
    BY <1>2, PipelineHolds, PTL DEF Spec, TrapSavesArch

\* How the hart gets into debug mode: from the exec state by a trigger, or from a
\* WFI by a halt request.
LEMMA DebugEntry ==
    ASSUME TypeOK, PipeInv, [Next]_vars, ctl.state # "debug", ctl'.state = "debug"
    PROVE  \E i \in Inputs :
             /\ Clock(i) /\ Datapath(i) /\ Sensible(i)
             /\ \/ ctl.state = "exec" /\ trigger # "none" /\ ctl'.dcsr_cause = trigger
                \/ ctl.state = "wfi" /\ halt_req /\ ctl'.dcsr_cause = "halt"
  <1>1. ~SReset /\ ctl' # ctl
    BY ResetState
  <1>2. PICK i \in Inputs : Clock(i)
    BY <1>1 DEF Next, vars
  <1>3. Datapath(i) /\ Sensible(i) /\ Moves(i)
    BY <1>2, ClockCases, EdgeMoves
  <1>4. ctl.state \in {"exec", "wfi"}
    BY <1>3, RomType DEF Moves, States
  <1>5. ctl.state = "exec" => trigger # "none" /\ ctl'.dcsr_cause = trigger
    BY <1>3 DEF Moves, ExecNext
  <1>6. ctl.state = "wfi" => halt_req /\ ctl'.dcsr_cause = "halt"
    BY <1>3 DEF Moves
  <1> QED
    BY <1>2, <1>3, <1>4, <1>5, <1>6

\* A single step executes one instruction or takes one trap.
THEOREM StepsOne == ASSUME Sheltered PROVE Spec => StepExactlyOne
  <1>1. ASSUME TypeOK, PipeInv, [Next]_vars, ctl.state # "debug", ctl'.state = "debug",
               ctl'.dcsr_cause = "step"
        PROVE  hist.done = 1
    <2>1. ctl.state = "exec" /\ trigger = "step"
      BY <1>1, DebugEntry
    <2>2. csr.step /\ ~ctl.step
      BY <2>1 DEF trigger, isstepping
    <2> QED
      BY <1>1, <2>1, <2>2 DEF PipeInv, Stepping
  <1>2. TypeOK /\ PipeInv /\ [Next]_vars =>
          [ctl.state # "debug" /\ ctl'.state = "debug" /\ ctl'.dcsr_cause = "step" =>
             hist.done = 1]_vars
    BY <1>1
  <1> QED
    BY <1>2, PipelineHolds, PTL DEF Spec, StepExactlyOne

\* Entering debug mode, the hart is at the instruction the sequential machine is at;
\* only the bubble behind a trap does not have its address.
THEOREM DpcIsExact == ASSUME Sheltered, NoRace PROVE Spec => DpcExact
  <1>1. ASSUME TypeOK, PipeInv, [Next]_vars, ctl.state # "debug", ctl'.state = "debug"
        PROVE  \/ ex'.pc = arch'.pc
               \/ ex.kind = "bubble" /\ ctl'.dcsr_cause \in {"halt", "bp"}
    <2>1. PICK i \in Inputs :
             /\ Clock(i) /\ Datapath(i) /\ Sensible(i)
             /\ \/ ctl.state = "exec" /\ trigger # "none" /\ ctl'.dcsr_cause = trigger
                \/ ctl.state = "wfi" /\ halt_req /\ ctl'.dcsr_cause = "halt"
      BY <1>1, DebugEntry
    <2>2. CASE ctl.state = "exec"
      <3>1. trigger # "none" /\ stall_on_trigger /\ ctl'.dcsr_cause = trigger
        BY <2>1, <2>2 DEF stall_on_trigger
      <3>2. arch' = arch
        BY <1>1, <2>1, <2>2, <3>1, ArchMoves DEF TrapEntry, Completes
      <3>3. ex'.pc = ex.pc
        BY <2>1, <3>1 DEF Datapath, Decode, Bubble
      <3>4. CASE Working
        BY <3>2, <3>3, <3>4 DEF Working, Instruction
      <3>5. CASE AfterTrap
        <4>1. ex.kind = "bubble" /\ ~csr.step
          BY <3>5 DEF AfterTrap, Vacant, IsBubble
        <4>2. trigger \in {"halt", "bp"}
          BY <3>1, <4>1 DEF trigger, isstepping
        <4> QED
          BY <3>1, <4>1, <4>2
      <3> QED
        BY <1>1, <2>2, <3>4, <3>5 DEF PipeInv, Flow
    <2>3. CASE ctl.state = "wfi"
      <3>1. ~TrapEntry(i)
        BY <1>1, <2>1, <2>3, NotBoth
      <3>2. arch' = arch
        BY <1>1, <2>1, <2>3, <3>1, ArchMoves DEF Completes
      <3>3. ~stall_on_trigger /\ stall(i) /\ ~trap_request(i)
        BY <2>3, <3>1 DEF stall_on_trigger, stall, TrapEntry
      <3>4. ex'.pc = ex.pc
        BY <1>1, <2>1, <3>3, Stalls
      <3> QED
        BY <1>1, <2>3, <3>2, <3>4 DEF PipeInv, Flow, Asleep
    <2> QED
      BY <2>1, <2>2, <2>3
  <1>2. TypeOK /\ PipeInv /\ [Next]_vars =>
          [ctl.state # "debug" /\ ctl'.state = "debug" =>
             \/ ex'.pc = arch'.pc
             \/ ex.kind = "bubble" /\ ctl'.dcsr_cause \in {"halt", "bp"}]_vars
    BY <1>1
  <1> QED
    BY <1>2, PipelineHolds, PTL DEF Spec, DpcExact

\* MIE goes down by MRET or on the way to the handler only: no trap is lost to a
\* halt request, a breakpoint or a step of the same cycle.
THEOREM MieStays == ASSUME Sheltered, NoRace PROVE Spec => MieClearedByTrap
  <1>1. ASSUME TypeOK, PipeInv, [Next]_vars, csr.mie, ~csr'.mie, ctl.state # "mret2",
               vars' # vars
        PROVE  ctl'.state \in {"trap", "boot0"}
    <2>1. CASE SReset
      BY <2>1, ResetState
    <2>2. ASSUME NEW i \in Inputs, Clock(i) PROVE ctl'.state = "trap"
      <3>1. Sensible(i) /\ Moves(i)
        BY <1>1, <2>2, ClockCases, EdgeMoves
      <3>2. TrapEntry(i)
        BY <1>1, <2>2, StackMoves
      <3>3. ctl.state \in {"exec", "mem", "wfi"}
        BY <1>1, <3>1, <3>2, TrapTaken
      <3>4. ctl.state = "wfi" => ~halt_req
        BY <1>1, <3>1, <3>2, NotBoth
      <3> QED
        BY <3>1, <3>2, <3>3, <3>4 DEF Moves, TrapEntry, stall_on_trigger, ExecNext
    <2> QED
      BY <1>1, <2>1, <2>2 DEF Next
  <1>2. TypeOK /\ PipeInv /\ [Next]_vars =>
          [csr.mie /\ ~csr'.mie /\ ctl.state # "mret2" =>
             ctl'.state \in {"trap", "boot0"}]_vars
    BY <1>1
  <1> QED
    BY <1>2, PipelineHolds, PTL DEF Spec, MieClearedByTrap
===============================================================================
