--------------------------------- MODULE Dm ---------------------------------
(***************************************************************************)
(* The debug module of rtl/thuas-riscv/dm.vhd: its DMI registers, the      *)
(* state machine of the abstract commands and the command error, composed  *)
(* with the hart's run control (Hart) and the debug port of core.vhd       *)
(* through which the commands reach registers and memory.                  *)
(*                                                                         *)
(* One step is one rising edge of the clock; i holds the inputs of the     *)
(* cycle.  A word is a member of Words and also an address, one general    *)
(* register and one CSR stand for all, and a command is its operation,     *)
(* whether the CSR it names exists and whether it increments data1.        *)
(***************************************************************************)
EXTENDS Naturals

CONSTANTS
    NumWords,     \* data words and memory addresses are 0..NumWords-1
    Commands,     \* the abstract commands the debugger issues
    Controls,     \* the values the debugger writes to dmcontrol
    BadAddrs,     \* addresses no memory answers to
    MaxWait,      \* cycles after which a memory has answered
    Timeout,      \* dm_memory_timeout_c, 256 in the code
    Gap,          \* least number of cycles between two requests of the DTM
    Resets        \* resets of the hart while it is debugged: WDT, UART break

Words == 0..(NumWords - 1)
MemOps == {"readmem", "writemem"}
RegOps == {"readgpr", "writegpr", "readcsr", "writecsr"}
Reads == {"readgpr", "readcsr", "readmem"}

ASSUME DmAssumption ==
    /\ NumWords \in Nat \ {0}
    /\ Commands \subseteq [op : MemOps \cup RegOps \cup {"bad"}, known : BOOLEAN, inc : BOOLEAN]
    /\ Commands # {}
    /\ Controls \subseteq [active : BOOLEAN, ndmreset : BOOLEAN, haltreq : BOOLEAN,
                           resumereq : BOOLEAN, ackhavereset : BOOLEAN]
    /\ BadAddrs \subseteq Words
    /\ MaxWait \in Nat /\ Gap \in Nat
    /\ Timeout \in Nat /\ Timeout > MaxWait + 2
    /\ Resets \subseteq BOOLEAN

VARIABLES
    dmw,      \* registers of the write process: dmcontrol, data0, data1, command
    dms,      \* registers of the command state machine and the command error
    req,      \* request from the DM to the core
    bus,      \* the core's registered bus request, and the cycles it is owed
    store,    \* what the hart holds: a GPR, a CSR and the memory
    phase, halted, resumeack, havereset,    \* the hart, see Hart
    gap,      \* cycles until the DTM may send its next request
    hist      \* history: see Hist

vars == <<dmw, dms, req, bus, store, phase, halted, resumeack, havereset, gap, hist>>

O_halt_req == dmw.halt_req /\ dmw.active
O_resume_req == dmw.resume_req /\ dmw.active
O_reset_req == dmw.ndmreset /\ dmw.active
O_ackhavereset == dmw.reset_ack /\ dmw.active

H == INSTANCE Hart WITH halt_req <- O_halt_req

busy == dms.state # "idle"

-----------------------------------------------------------------------------
\* Requests of the DTM.

NoDmi == [op |-> "none", addr |-> "none"]
Dmi == {NoDmi}
       \cup [op : {"rd"}, addr : {"dmstatus", "data0"}]
       \cup [op : {"wr"}, addr : {"dmcontrol"}, arg : Controls]
       \cup [op : {"wr"}, addr : {"command"}, arg : Commands]
       \cup [op : {"wr"}, addr : {"data0", "data1"}, arg : Words]
       \cup [op : {"wr"}, addr : {"clear"}]

Writes(i, a) == i.dmi.op = "wr" /\ i.dmi.addr = a
ReadsReg(i, a) == i.dmi.op = "rd" /\ i.dmi.addr = a

\* A debugger lets a command end before it clears an error or writes dmcontrol,
\* unless it shuts the debug module down.
Debugger(i) ==
    /\ i.dmi # NoDmi => gap = 0
    /\ Writes(i, "clear") => ~busy
    /\ Writes(i, "dmcontrol") /\ i.dmi.arg.active => ~busy

-----------------------------------------------------------------------------
\* The debug port of the core.  A request reaches the bus one cycle later and
\* only a halted hart lets it through; a running hart uses the bus itself.

Owed == (bus.stb /\ bus.acc # "none" /\ bus.addr \notin BadAddrs) \/ bus.wait > 0
buserr == halted /\ bus.stb /\ bus.acc # "none" /\ bus.addr \in BadAddrs
excep == halted /\ req.op \in {"readcsr", "writecsr"} /\ ~req.known
ack(i) == i.ready \/ buserr

PortSensible(i) ==
    /\ i.ready => Owed \/ phase = "run"
    /\ Owed /\ bus.wait >= MaxWait => i.ready
    /\ halted => i.data = 0

PortData(i) ==
    IF ~halted THEN i.data
    ELSE CASE req.op = "readcsr" -> IF req.known THEN store.csr ELSE 0
           [] req.op = "readgpr" -> store.gpr
           [] req.op = "readmem" -> IF buserr THEN 0 ELSE store.mem[bus.addr]
           [] OTHER -> 0

Bus(i) ==
    [stb |-> req.stb,
     acc |-> IF halted /\ req.op \in MemOps THEN req.op ELSE "none",
     addr |-> req.addr, data |-> req.data,
     wait |-> IF Owed /\ ~i.ready THEN bus.wait + 1 ELSE 0]

Store ==
    [gpr |-> IF halted /\ req.op = "writegpr" /\ req.isgpr THEN req.data ELSE store.gpr,
     csr |-> IF halted /\ req.op = "writecsr" /\ req.known THEN req.data ELSE store.csr,
     mem |-> IF bus.stb /\ bus.acc = "writemem" /\ bus.addr \notin BadAddrs
             THEN [store.mem EXCEPT ![bus.addr] = bus.data] ELSE store.mem]

-----------------------------------------------------------------------------
\* The write process.  data0 and data1 are loaded by the debugger when idle,
\* by the port when a command reads or increments.

data0mustread(i) == dms.state = "readreg2" \/ (dms.state = "readmem1" /\ ack(i))
data1mustincrement(i) ==
    dmw.command.inc /\ dms.state \in {"readmem1", "writemem1"} /\ ack(i)

Control(i) ==
    IF ~Writes(i, "dmcontrol") THEN [dmw EXCEPT !.resume_req = FALSE]
    ELSE [dmw EXCEPT !.active = i.dmi.arg.active, !.ndmreset = i.dmi.arg.ndmreset,
             !.halt_req = i.dmi.arg.haltreq,
             !.resume_req = i.dmi.arg.resumereq /\ ~i.dmi.arg.haltreq,
             !.reset_ack = i.dmi.arg.ackhavereset]

WriteDespiteBusy(i) ==
    [Control(i) EXCEPT
        !.clrerr = Writes(i, "clear"),
        !.wfault = busy /\ i.dmi.op = "wr" /\ i.dmi.addr # "dmcontrol",
        !.command = IF Writes(i, "command") /\ ~busy /\ dms.cmderr = "none"
                    THEN i.dmi.arg ELSE @,
        !.data0 = IF data0mustread(i) THEN PortData(i)
                  ELSE IF Writes(i, "data0") THEN i.dmi.arg ELSE @,
        !.data1 = IF data1mustincrement(i) THEN (@ + 1) % NumWords
                  ELSE IF Writes(i, "data1") THEN i.dmi.arg ELSE @]

WriteProcess(i) ==
    [Control(i) EXCEPT
        !.clrerr = Writes(i, "clear"),
        !.wfault = busy /\ i.dmi.op = "wr" /\ i.dmi.addr # "dmcontrol",
        !.command = IF Writes(i, "command") /\ ~busy /\ dms.cmderr = "none"
                    THEN i.dmi.arg ELSE @,
        !.data0 = IF data0mustread(i) THEN PortData(i)
                  ELSE IF Writes(i, "data0") /\ ~busy THEN i.dmi.arg ELSE @,
        !.data1 = IF data1mustincrement(i) THEN (@ + 1) % NumWords
                  ELSE IF Writes(i, "data1") /\ ~busy THEN i.dmi.arg ELSE @]

NoBusErr ==
    IF dms.cmderr = "none"
    THEN IF dms.illegal_state THEN "haltresume"
         ELSE IF dms.illegal_cmd THEN "notsupported"
         ELSE IF dms.timeout THEN "bus"
         ELSE IF excep THEN "exception"
         ELSE IF dms.rfault \/ dmw.wfault THEN "busy"
         ELSE "none"
    ELSE IF dmw.clrerr THEN "none" ELSE dms.cmderr

\* The first error is kept until the debugger clears it.
CmdErr ==
    IF dms.cmderr = "none"
    THEN IF dms.illegal_state THEN "haltresume"
         ELSE IF dms.illegal_cmd THEN "notsupported"
         ELSE IF dms.timeout THEN "bus"
         ELSE IF excep THEN "exception"
         ELSE IF buserr THEN "bus"
         ELSE IF dms.rfault \/ dmw.wfault THEN "busy"
         ELSE "none"
    ELSE IF dmw.clrerr THEN "none" ELSE dms.cmderr

-----------------------------------------------------------------------------
\* The command state machine, one action per state.  To and Fail give the
\* registers of the machine after the edge.

To(i, s) ==
    [dms EXCEPT !.state = s, !.illegal_state = FALSE, !.illegal_cmd = FALSE,
                !.timeout = FALSE, !.cmderr = CmdErr,
                !.rfault = busy /\ ReadsReg(i, "data0")]

NoReq == [stb |-> FALSE, op |-> "none", addr |-> 0, data |-> 0, known |-> TRUE, isgpr |-> TRUE]

Inactive(i) ==
    /\ ~dmw.active
    /\ dms' = [To(i, "idle") EXCEPT !.counter = 0]
    /\ req' = NoReq

Idle(i) ==
    /\ dmw.active /\ dms.state = "idle"
    /\ dms' = To(i, IF Writes(i, "command") /\ dms.cmderr = "none" THEN "check" ELSE "idle")
    /\ req' = NoReq

Check(i) ==
    /\ dmw.active /\ dms.state = "check"
    /\ dms' = IF dmw.command.op = "bad" THEN [To(i, "error") EXCEPT !.illegal_cmd = TRUE]
              ELSE IF ~halted THEN [To(i, "error") EXCEPT !.illegal_state = TRUE]
              ELSE To(i, IF dmw.command.op \in RegOps THEN "preparegprcsr" ELSE "preparemem")
    /\ UNCHANGED req

PrepareGprCsr(i) ==
    /\ dmw.active /\ dms.state = "preparegprcsr"
    /\ dms' = To(i, IF dmw.command.op \in Reads THEN "readreg1" ELSE "writereg1")
    /\ req' = [NoReq EXCEPT !.op = dmw.command.op, !.known = dmw.command.known,
                  !.data = IF dmw.command.op \in Reads THEN 0 ELSE dmw.data0]

ReadReg1(i) ==
    /\ dmw.active /\ dms.state = "readreg1"
    /\ dms' = To(i, "readreg2")
    /\ UNCHANGED req

ReadReg2(i) ==
    /\ dmw.active /\ dms.state = "readreg2"
    /\ dms' = To(i, "idle")
    /\ UNCHANGED req

\* The request to write a GPR stays up for a second cycle, with register x0.
WriteReg1(i) ==
    /\ dmw.active /\ dms.state = "writereg1"
    /\ dms' = To(i, "idle")
    /\ req' = [req EXCEPT !.op = IF @ = "writecsr" THEN "none" ELSE @,
                          !.data = 0, !.isgpr = FALSE]

PrepareMem(i) ==
    /\ dmw.active /\ dms.state = "preparemem"
    /\ dms' = [To(i, IF dmw.command.op = "readmem" THEN "readmem1" ELSE "writemem1")
                  EXCEPT !.counter = Timeout - 1]
    /\ req' = [NoReq EXCEPT !.stb = TRUE, !.op = dmw.command.op,
                            !.addr = dmw.data1, !.data = dmw.data0]

NeverTimesOut(i) ==
    [To(i, IF ack(i) THEN "idle" ELSE dms.state)
        EXCEPT !.counter = IF @ > 0 THEN @ - 1 ELSE @]

\* Waiting for the memory: the timeout comes last and wins.
Await(i) ==
    IF dms.counter > 0
    THEN [To(i, IF ack(i) THEN "idle" ELSE dms.state) EXCEPT !.counter = @ - 1]
    ELSE [To(i, "error") EXCEPT !.timeout = TRUE]

ReadMem1(i) ==
    /\ dmw.active /\ dms.state = "readmem1"
    /\ dms' = Await(i)
    /\ req' = [req EXCEPT !.stb = FALSE]

WriteMem1(i) ==
    /\ dmw.active /\ dms.state = "writemem1"
    /\ dms' = Await(i)
    /\ req' = [req EXCEPT !.stb = FALSE, !.op = "none"]

\* An extra cycle to get cmderr in place.
Error(i) ==
    /\ dmw.active /\ dms.state = "error"
    /\ dms' = To(i, "idle")
    /\ UNCHANGED req

-----------------------------------------------------------------------------
\* Resets of the hart come from the debug module or, if Resets allows, from the
\* watchdog or a UART break; they reset the core and its bus, not the DM.

\* History.  halted: the hart was halted in each cycle since the command was
\* accepted; failed: the command met an error; loc: the address it works on;
\* resumed: the hart has run since the last resume request; seen: dmstatus was read
\* since with allresumeack set; acked: the last reset was acknowledged.
Flagged == dms.illegal_state \/ dms.illegal_cmd \/ dms.timeout
Failed == Flagged \/ excep \/ buserr

\* A request to halt, or to shut the module down, overrides one to resume.
AsksResume(i) ==
    /\ Writes(i, "dmcontrol")
    /\ i.dmi.arg.resumereq /\ ~i.dmi.arg.haltreq /\ i.dmi.arg.active

Hist(i, reset) ==
    LET starts == dms.state = "check" IN
    [halted |-> IF starts THEN halted ELSE hist.halted /\ halted,
     failed |-> IF starts THEN FALSE ELSE hist.failed \/ (busy /\ Failed),
     resumed |-> IF AsksResume(i) THEN ~halted \/ reset
                 ELSE hist.resumed \/ reset \/ phase = "run",
     seen |-> IF AsksResume(i) THEN FALSE
              ELSE hist.seen \/ (ReadsReg(i, "dmstatus") /\ resumeack),
     acked |-> IF Writes(i, "dmcontrol") /\ i.dmi.arg.ackhavereset THEN TRUE
               ELSE hist.acked /\ ~reset]

Inputs == [dmi : Dmi, ready : BOOLEAN, data : Words]

Cycle(i, reset) ==
    /\ Debugger(i) /\ PortSensible(i)
    /\ dmw' = WriteProcess(i)
    /\ gap' = IF i.dmi # NoDmi THEN Gap ELSE IF gap > 0 THEN gap - 1 ELSE 0
    /\ hist' = Hist(i, reset)
    /\ IF reset
       THEN /\ H!Reset
            /\ bus' = [stb |-> FALSE, acc |-> "none", addr |-> 0, data |-> 0, wait |-> 0]
            /\ store' = [Store EXCEPT !.csr = 0]
       ELSE /\ H!Cycle(O_resume_req, O_ackhavereset)
            /\ bus' = Bus(i)
            /\ store' = Store

Machine(i) ==
    \/ Inactive(i) \/ Idle(i) \/ Check(i) \/ PrepareGprCsr(i) \/ ReadReg1(i)
    \/ ReadReg2(i) \/ WriteReg1(i) \/ PrepareMem(i) \/ ReadMem1(i)
    \/ WriteMem1(i) \/ Error(i)

Init ==
    /\ dmw = [active |-> FALSE, ndmreset |-> FALSE, halt_req |-> FALSE,
              resume_req |-> FALSE, reset_ack |-> FALSE, clrerr |-> FALSE,
              wfault |-> FALSE, data0 |-> 0, data1 |-> 0,
              command |-> [op |-> "readcsr", known |-> TRUE, inc |-> FALSE]]
    /\ dms = [state |-> "idle", counter |-> 0, illegal_state |-> FALSE,
              illegal_cmd |-> FALSE, timeout |-> FALSE, cmderr |-> "none",
              rfault |-> FALSE]
    /\ req = NoReq
    /\ bus = [stb |-> FALSE, acc |-> "none", addr |-> 0, data |-> 0, wait |-> 0]
    /\ store = [gpr |-> 0, csr |-> 0, mem |-> [a \in Words |-> 0]]
    /\ H!Init
    /\ gap = 0
    /\ hist = [halted |-> TRUE, failed |-> FALSE, resumed |-> TRUE,
               seen |-> FALSE, acked |-> FALSE]

ClockEdge(i) ==
    \/ O_reset_req /\ Cycle(i, TRUE) /\ Machine(i)
    \/ ~O_reset_req /\ Cycle(i, FALSE) /\ Machine(i)
    \/ TRUE \in Resets /\ Cycle(i, TRUE) /\ Machine(i)

Next == \E i \in Inputs : ClockEdge(i)

\* The clock does not stop.
Spec == Init /\ [][Next]_vars /\ WF_vars(Next)

-----------------------------------------------------------------------------
Flags == {"active", "ndmreset", "halt_req", "resume_req", "reset_ack", "clrerr", "wfault"}
MachineStates == {"idle", "check", "preparegprcsr", "readreg1", "readreg2", "writereg1",
                  "preparemem", "readmem1", "writemem1", "error"}
Errors == {"none", "busy", "notsupported", "exception", "haltresume", "bus"}

\* Every register stays within its type; the timeout counter in its range.
TypeOK ==
    /\ \A f \in Flags : dmw[f] \in BOOLEAN
    /\ dmw.data0 \in Words /\ dmw.data1 \in Words
    /\ dms.state \in MachineStates /\ dms.counter \in 0..(Timeout - 1)
    /\ dms.cmderr \in Errors
    /\ req.op \in {"none"} \cup MemOps \cup RegOps
    /\ bus.wait \in 0..MaxWait
    /\ store.mem \in [Words -> Words]

\* A command ends when the machine returns to idle, without being cut off.
Ends == busy /\ dmw.active /\ dms'.state = "idle"

\* data0 holds what a read addresses, what a write addresses holds data0, and
\* data1 has moved on by one exactly if the command increments.
Done ==
    LET c == dmw.command IN
    /\ c.op = "readgpr" => dmw'.data0 = store.gpr
    /\ c.op = "readcsr" => dmw'.data0 = store.csr
    /\ c.op = "readmem" => dmw'.data0 = store.mem[dmw.data1]
    /\ c.op = "writegpr" => store'.gpr = dmw.data0
    /\ c.op = "writecsr" => store'.csr = dmw.data0
    /\ c.op = "writemem" => store'.mem[dmw.data1] = dmw.data0
    /\ dmw'.data1 = IF c.op \in MemOps /\ c.inc
                    THEN (dmw.data1 + 1) % NumWords ELSE dmw.data1

\* A command that ends without an error has done what it says.
CommandDoesIt == [][Ends /\ dms'.cmderr = "none" => Done]_vars

\* When a failed command is no longer busy its error is in cmderr ("Extra cycle
\* to get cmderr in place").
ErrorInPlace ==
    [][Ends /\ (hist'.failed \/ Flagged') => dms'.cmderr # "none"]_vars

\* Every command ends: the timeout keeps the DM operable.
CommandEnds == busy ~> ~busy

\* When a debugger that asked for a resume reads allresumeack, the hart has run
\* since: the acknowledge of an earlier resume is gone (dm.vhd, dmstatus).
ResumeAckMeansResumed == hist.seen => hist.resumed

\* A command that ends without an error found the hart halted throughout: a
\* running hart's registers and memory cannot be examined (docs/doc.adoc, the debug module).
AccessHalted ==
    [][Ends /\ dms'.cmderr = "none" => hist.halted /\ halted]_vars

\* havereset stays up until the debugger acknowledges that reset ("ackhavereset
\* (-/w1): write 1 to ACK reset; auto-clears").
HaveResetKept ==
    [][havereset /\ ~havereset' => hist.acked \/ phase' = "boot"]_vars

\* While dmactive is low the debug module is reset ("DM reset when low").
ResetWhenInactive == [][~dmw.active => dms'.cmderr = "none"]_vars
=============================================================================
