------------------------------- MODULE DmProofs -------------------------------
(***************************************************************************)
(* Theorems about module Dm: the abstract commands do what they say and    *)
(* keep their errors, and the acknowledge of a resume is a true one, for   *)
(* every size of the data, set of commands and speed of the memories.      *)
(***************************************************************************)
EXTENDS Dm, TLAPS

Ops == {"none"} \cup MemOps \cup RegOps
CommandType == [op : MemOps \cup RegOps \cup {"bad"}, known : BOOLEAN, inc : BOOLEAN]

\* The registers of every process.
DmwType == [active : BOOLEAN, ndmreset : BOOLEAN, halt_req : BOOLEAN, resume_req : BOOLEAN,
            reset_ack : BOOLEAN, clrerr : BOOLEAN, wfault : BOOLEAN,
            data0 : Words, data1 : Words, command : CommandType]
DmsType == [state : MachineStates, counter : 0..(Timeout - 1), illegal_state : BOOLEAN,
            illegal_cmd : BOOLEAN, timeout : BOOLEAN, cmderr : Errors, rfault : BOOLEAN]
ReqType == [stb : BOOLEAN, op : Ops, addr : Words, data : Words, known : BOOLEAN,
            isgpr : BOOLEAN]
BusType == [stb : BOOLEAN, acc : {"none"} \cup MemOps, addr : Words, data : Words,
            wait : 0..MaxWait]
StoreType == [gpr : Words, csr : Words, mem : [Words -> Words]]
HistType == [halted : BOOLEAN, failed : BOOLEAN, resumed : BOOLEAN, seen : BOOLEAN,
             acked : BOOLEAN]

Types ==
    /\ dmw \in DmwType /\ dms \in DmsType /\ req \in ReqType
    /\ bus \in BusType /\ store \in StoreType /\ hist \in HistType
    /\ gap \in Nat /\ phase \in {"boot", "run", "halted", "resume"}
    /\ halted \in BOOLEAN /\ resumeack \in BOOLEAN
    /\ (halted <=> phase = "halted")
-----------------------------------------------------------------------------
(* Types *)

\* Zero is a word, and one more than a word modulo their number is a word.
LEMMA WordsAre ==
    /\ 0 \in Words
    /\ \A w \in Words : (w + 1) % NumWords \in Words
BY DmAssumption DEF Words

\* What the debugger writes.
LEMMA InputsAre ==
    ASSUME NEW i \in Inputs
    PROVE  /\ i.ready \in BOOLEAN /\ i.data \in Words
           /\ Writes(i, "dmcontrol") =>
                  /\ i.dmi.arg \in Controls
                  /\ i.dmi.arg \in [active : BOOLEAN, ndmreset : BOOLEAN, haltreq : BOOLEAN,
                                    resumereq : BOOLEAN, ackhavereset : BOOLEAN]
           /\ Writes(i, "command") => i.dmi.arg \in CommandType
           /\ Writes(i, "data0") \/ Writes(i, "data1") => i.dmi.arg \in Words
<1>1. i.ready \in BOOLEAN /\ i.data \in Words /\ i.dmi \in Dmi
    BY DEF Inputs
<1>2. Writes(i, "dmcontrol") => i.dmi.arg \in Controls
    BY <1>1 DEF Dmi, Writes, NoDmi
<1>3. Writes(i, "command") => i.dmi.arg \in Commands
    BY <1>1 DEF Dmi, Writes, NoDmi
<1>4. Writes(i, "data0") \/ Writes(i, "data1") => i.dmi.arg \in Words
    BY <1>1 DEF Dmi, Writes, NoDmi
<1> QED
    BY <1>1, <1>2, <1>3, <1>4, DmAssumption DEF CommandType

\* The error register holds an error.
LEMMA CmdErrIs == ASSUME Types PROVE CmdErr \in Errors
BY DEF Types, DmsType, CmdErr, Errors

\* A read returns a word.
LEMMA PortDataIs == ASSUME Types, NEW i \in Inputs PROVE PortData(i) \in Words
BY InputsAre, WordsAre DEF Types, StoreType, BusType, PortData

\* Where the machine goes to, it goes with no flag set and the error in place.
LEMMA ToIs ==
    ASSUME Types, NEW i \in Inputs, NEW s \in MachineStates
    PROVE  /\ To(i, s) \in DmsType
           /\ To(i, s).state = s /\ To(i, s).counter = dms.counter
           /\ ~To(i, s).illegal_state /\ ~To(i, s).illegal_cmd /\ ~To(i, s).timeout
           /\ To(i, s).cmderr = CmdErr
<1>1. (busy /\ ReadsReg(i, "data0")) \in BOOLEAN
    BY DEF busy, ReadsReg
<1>2. To(i, s) \in DmsType
    BY <1>1, CmdErrIs, Zenon DEF To, Types, DmsType
<1>3. To(i, s).state = s /\ To(i, s).counter = dms.counter /\ To(i, s).cmderr = CmdErr
    BY DEF To, Types, DmsType
<1>4. ~To(i, s).illegal_state /\ ~To(i, s).illegal_cmd /\ ~To(i, s).timeout
    BY DEF To, Types, DmsType
<1> QED
    BY <1>2, <1>3, <1>4

\* The registers of the write process keep their types.
LEMMA WriteProcessIs ==
    ASSUME Types, NEW i \in Inputs
    PROVE  /\ WriteProcess(i) \in DmwType
           /\ WriteProcess(i).clrerr <=> Writes(i, "clear")
           /\ WriteProcess(i).command =
                 (IF Writes(i, "command") /\ ~busy /\ dms.cmderr = "none"
                  THEN i.dmi.arg ELSE dmw.command)
           /\ WriteProcess(i).data0 =
                 (IF data0mustread(i) THEN PortData(i)
                  ELSE IF Writes(i, "data0") /\ ~busy THEN i.dmi.arg ELSE dmw.data0)
           /\ WriteProcess(i).data1 =
                 (IF data1mustincrement(i) THEN (dmw.data1 + 1) % NumWords
                  ELSE IF Writes(i, "data1") /\ ~busy THEN i.dmi.arg ELSE dmw.data1)
           /\ Writes(i, "dmcontrol") =>
                 /\ WriteProcess(i).active = i.dmi.arg.active
                 /\ WriteProcess(i).ndmreset = i.dmi.arg.ndmreset
                 /\ WriteProcess(i).resume_req <=> i.dmi.arg.resumereq /\ ~i.dmi.arg.haltreq
           /\ ~Writes(i, "dmcontrol") =>
                 /\ WriteProcess(i).active = dmw.active
                 /\ WriteProcess(i).ndmreset = dmw.ndmreset
                 /\ ~WriteProcess(i).resume_req
<1> DEFINE c == Control(i)
<1>1. c \in DmwType
    <2>1. CASE ~Writes(i, "dmcontrol")
        BY <2>1, Zenon DEF Control, Types, DmwType
    <2>2. CASE Writes(i, "dmcontrol")
        <3>1. (i.dmi.arg.resumereq /\ ~i.dmi.arg.haltreq) \in BOOLEAN
            OBVIOUS
        <3>2. /\ i.dmi.arg.active \in BOOLEAN /\ i.dmi.arg.ndmreset \in BOOLEAN
              /\ i.dmi.arg.haltreq \in BOOLEAN /\ i.dmi.arg.ackhavereset \in BOOLEAN
            BY <2>2, InputsAre
        <3> QED
            BY <2>2, <3>1, <3>2, Zenon DEF Control, Types, DmwType
    <2> QED
        BY <2>1, <2>2
<1>2. /\ c.data0 = dmw.data0 /\ c.data1 = dmw.data1 /\ c.command = dmw.command
      /\ Writes(i, "dmcontrol") =>
             c.active = i.dmi.arg.active /\ c.ndmreset = i.dmi.arg.ndmreset
      /\ ~Writes(i, "dmcontrol") => c.active = dmw.active /\ c.ndmreset = dmw.ndmreset
    BY DEF Types, DmwType, Control
<1>3. /\ Writes(i, "dmcontrol") => (c.resume_req <=> i.dmi.arg.resumereq /\ ~i.dmi.arg.haltreq)
      /\ ~Writes(i, "dmcontrol") => ~c.resume_req
    BY DEF Types, DmwType, Control
<1> DEFINE k == IF Writes(i, "command") /\ ~busy /\ dms.cmderr = "none"
                THEN i.dmi.arg ELSE dmw.command
           d0 == IF data0mustread(i) THEN PortData(i)
                 ELSE IF Writes(i, "data0") /\ ~busy THEN i.dmi.arg ELSE dmw.data0
           d1 == IF data1mustincrement(i) THEN (dmw.data1 + 1) % NumWords
                 ELSE IF Writes(i, "data1") /\ ~busy THEN i.dmi.arg ELSE dmw.data1
           e == Writes(i, "clear")
           f == busy /\ i.dmi.op = "wr" /\ i.dmi.addr # "dmcontrol"
<1>4. d0 \in Words /\ d1 \in Words
    BY InputsAre, WordsAre, PortDataIs DEF Types, DmwType
<1>5. k \in CommandType
    BY InputsAre DEF Types, DmwType
<1>6. e \in BOOLEAN /\ f \in BOOLEAN
    BY DEF Writes
<1>7. WriteProcess(i) = [c EXCEPT !.clrerr = e, !.wfault = f, !.command = k,
                                  !.data0 = d0, !.data1 = d1]
    BY <1>1, <1>2 DEF WriteProcess
<1> HIDE DEF c, k, d0, d1, e, f
<1>8. WriteProcess(i) \in DmwType
    BY <1>1, <1>4, <1>5, <1>6, <1>7, Zenon DEF DmwType
<1>9. /\ WriteProcess(i).command = k /\ WriteProcess(i).data0 = d0 /\ WriteProcess(i).data1 = d1
      /\ WriteProcess(i).active = c.active /\ WriteProcess(i).ndmreset = c.ndmreset
    BY <1>1, <1>7 DEF DmwType
<1>10. (WriteProcess(i).clrerr <=> e) /\ (WriteProcess(i).resume_req <=> c.resume_req)
    BY <1>1, <1>6, <1>7 DEF DmwType
<1> QED
    BY <1>2, <1>3, <1>8, <1>9, <1>10 DEF k, d0, d1, e

\* The registered request keeps its type, and a transfer that is owed is counted.
LEMMA BusIs ==
    ASSUME Types, NEW i \in Inputs, PortSensible(i)
    PROVE  /\ Bus(i) \in BusType
           /\ Bus(i).stb = req.stb /\ Bus(i).addr = req.addr /\ Bus(i).data = req.data
           /\ Bus(i).acc = (IF halted /\ req.op \in MemOps THEN req.op ELSE "none")
           /\ Bus(i).wait = (IF Owed /\ ~i.ready THEN bus.wait + 1 ELSE 0)
<1>1. IF Owed /\ ~i.ready THEN bus.wait + 1 \in 0..MaxWait ELSE 0 \in 0..MaxWait
    BY DmAssumption DEF Types, BusType, PortSensible
<1> QED
    BY <1>1 DEF Types, BusType, ReqType, Bus

\* A write changes the register or word it addresses.
LEMMA StoreIs ==
    ASSUME Types
    PROVE  /\ Store \in StoreType
           /\ Store.gpr = (IF halted /\ req.op = "writegpr" /\ req.isgpr THEN req.data ELSE store.gpr)
           /\ Store.csr = (IF halted /\ req.op = "writecsr" /\ req.known THEN req.data ELSE store.csr)
           /\ Store.mem = (IF bus.stb /\ bus.acc = "writemem" /\ bus.addr \notin BadAddrs
                           THEN [store.mem EXCEPT ![bus.addr] = bus.data] ELSE store.mem)
BY DEF Types, StoreType, BusType, ReqType, Store

\* The history is kept in truth values.
LEMMA HistIs ==
    ASSUME Types, NEW i \in Inputs, NEW reset \in BOOLEAN
    PROVE  Hist(i, reset) \in HistType
<1> DEFINE h == IF dms.state = "check" THEN halted ELSE hist.halted /\ halted
           f == IF dms.state = "check" THEN FALSE ELSE hist.failed \/ (busy /\ Failed)
           r == IF AsksResume(i) THEN ~halted \/ reset ELSE hist.resumed \/ reset \/ phase = "run"
           s == IF AsksResume(i) THEN FALSE
                ELSE hist.seen \/ (ReadsReg(i, "dmstatus") /\ resumeack)
           a == IF Writes(i, "dmcontrol") /\ i.dmi.arg.ackhavereset THEN TRUE
                ELSE hist.acked /\ ~reset
<1>1. h \in BOOLEAN /\ f \in BOOLEAN /\ r \in BOOLEAN /\ s \in BOOLEAN /\ a \in BOOLEAN
    BY DEF Types
<1>2. Hist(i, reset) = [halted |-> h, failed |-> f, resumed |-> r, seen |-> s, acked |-> a]
    BY DEF Hist
<1> HIDE DEF h, f, r, s, a
<1> QED
    BY <1>1, <1>2 DEF HistType

\* A step of the clock, in parts.
LEMMA CycleIs ==
    ASSUME NEW i \in Inputs, ClockEdge(i)
    PROVE  \E reset \in BOOLEAN : Cycle(i, reset) /\ Machine(i) /\ (reset \/ ~O_reset_req)
                                  /\ (reset => O_reset_req \/ TRUE \in Resets)
BY Zenon DEF ClockEdge

\* Where a step leaves the hart.
LEMMA HartIs ==
    ASSUME Types, NEW i \in Inputs, NEW reset \in BOOLEAN, Cycle(i, reset)
    PROVE  /\ phase' \in {"boot", "run", "halted", "resume"}
           /\ halted' \in BOOLEAN /\ resumeack' \in BOOLEAN
           /\ halted' <=> phase' = "halted"
<1>1. CASE reset
    BY <1>1 DEF Cycle, H!Reset
<1>2. CASE ~reset
    <2>1. H!Cycle(O_resume_req, O_ackhavereset)
        BY <1>2 DEF Cycle
    <2> DEFINE r == O_resume_req
               k == O_ackhavereset
    <2>2. CASE H!Boot \/ H!Resuming(k)
        BY <2>2 DEF Types, H!Boot, H!Resuming
    <2>3. CASE H!Run(k) \/ H!Halt(k)
        <3>1. resumeack' = resumeack \/ resumeack' = TRUE
            BY <2>3 DEF H!Run, H!Halt
        <3>2. resumeack' \in BOOLEAN
            BY <3>1, Zenon DEF Types
        <3>3. (phase' = "run" /\ halted' = FALSE) \/ (phase' = "halted" /\ halted' = TRUE)
            BY <2>3 DEF Types, H!Run, H!Halt
        <3> QED
            BY <3>2, <3>3
    <2>4. CASE H!Stay(r, k) \/ H!Resume(r, k)
        BY <2>4 DEF Types, H!Stay, H!Resume
    <2> QED
        BY <2>1, <2>2, <2>3, <2>4 DEF H!Cycle
<1> QED
    BY <1>1, <1>2

\* The state of the machine tells what kind of command it executes.
Fits ==
    LET op == dmw.command.op IN
    /\ dms.state = "preparegprcsr" => op \in RegOps
    /\ dms.state \in {"readreg1", "readreg2"} => op \in {"readgpr", "readcsr"}
    /\ dms.state = "writereg1" => op \in {"writegpr", "writecsr"}
    /\ dms.state = "preparemem" => op \in MemOps
    /\ dms.state = "readmem1" => op = "readmem"
    /\ dms.state = "writemem1" => op = "writemem"

\* While it is at work no other command is taken, and no error is cleared.
LEMMA CommandKept ==
    ASSUME Types, NEW i \in Inputs, NEW reset \in BOOLEAN, Cycle(i, reset), busy
    PROVE  dmw'.command = dmw.command /\ ~dmw'.clrerr
BY WriteProcessIs DEF Cycle, Debugger

\* Memory and register requests carry the operation of the command.
LEMMA NoReqIs ==
    /\ NoReq \in ReqType
    /\ ~NoReq.stb /\ NoReq.op = "none"
BY WordsAre DEF NoReq, ReqType, Ops

\* Waiting for a memory: until it answers or the time is up.
LEMMA AwaitIs ==
    ASSUME Types, NEW i \in Inputs
    PROVE  /\ Await(i) \in DmsType
           /\ dms.counter > 0 =>
                /\ Await(i).state = (IF ack(i) THEN "idle" ELSE dms.state)
                /\ Await(i).counter = dms.counter - 1
                /\ ~Await(i).timeout
           /\ dms.counter = 0 => Await(i).state = "error" /\ Await(i).timeout
           /\ ~Await(i).illegal_state /\ ~Await(i).illegal_cmd
           /\ Await(i).cmderr = CmdErr
<1> DEFINE s == IF ack(i) THEN "idle" ELSE dms.state
<1>s. s \in MachineStates /\ "error" \in MachineStates
    BY DEF Types, DmsType, MachineStates
<1>c. dms.counter \in Nat /\ dms.counter < Timeout
    BY DmAssumption DEF Types, DmsType
<1>1. CASE dms.counter > 0
    <2>1. Await(i) = [To(i, s) EXCEPT !.counter = dms.counter - 1]
        BY <1>1, <1>s, ToIs DEF Await
    <2> HIDE DEF s
    <2>2. dms.counter - 1 \in 0..(Timeout - 1)
        BY <1>1, <1>c, DmAssumption
    <2>t. To(i, s) \in DmsType
        BY <1>s, ToIs
    <2>3. Await(i) \in DmsType
        BY <2>1, <2>2, <2>t, Zenon DEF DmsType
    <2>4. Await(i).state = s /\ Await(i).counter = dms.counter - 1 /\ Await(i).cmderr = CmdErr
        BY <2>1, <1>s, ToIs DEF DmsType
    <2>5. ~Await(i).timeout /\ ~Await(i).illegal_state /\ ~Await(i).illegal_cmd
        BY <2>1, <1>s, ToIs DEF DmsType
    <2> QED
        BY <1>1, <2>3, <2>4, <2>5 DEF s
<1>2. CASE dms.counter = 0
    <2>1. Await(i) = [To(i, "error") EXCEPT !.timeout = TRUE]
        BY <1>2 DEF Await
    <2>t. To(i, "error") \in DmsType
        BY <1>s, ToIs
    <2>2. Await(i) \in DmsType
        BY <2>1, <2>t, Zenon DEF DmsType
    <2>3. Await(i).state = "error" /\ Await(i).cmderr = CmdErr
        BY <2>1, <1>s, ToIs DEF DmsType
    <2>4. Await(i).timeout /\ ~Await(i).illegal_state /\ ~Await(i).illegal_cmd
        BY <2>1, <1>s, ToIs DEF DmsType
    <2> QED
        BY <1>2, <2>2, <2>3, <2>4
<1> QED
    BY <1>1, <1>2, <1>c

\* The states of the command machine keep the types of its registers.
LEMMA MachineIs ==
    ASSUME Types, Fits, NEW i \in Inputs, Machine(i)
    PROVE  dms' \in DmsType /\ req' \in ReqType
<1>t. \A s \in MachineStates : To(i, s) \in DmsType
    BY ToIs
<1>s. {"idle", "check", "error", "readreg1", "readreg2", "writereg1", "preparegprcsr",
       "preparemem", "readmem1", "writemem1"} = MachineStates
    BY DEF MachineStates
<1>c. 0 \in 0..(Timeout - 1) /\ Timeout - 1 \in 0..(Timeout - 1)
    BY DmAssumption
<1>1. CASE Inactive(i)
    <2>1. [To(i, "idle") EXCEPT !.counter = 0] \in DmsType
        BY <1>t, <1>s, <1>c, Zenon DEF DmsType
    <2> QED
        BY <1>1, NoReqIs, <2>1 DEF Inactive
<1>2. CASE Idle(i)
    BY <1>2, NoReqIs, <1>t, <1>s DEF Idle
<1>3. CASE Check(i)
    <2>1. /\ [To(i, "error") EXCEPT !.illegal_cmd = TRUE] \in DmsType
          /\ [To(i, "error") EXCEPT !.illegal_state = TRUE] \in DmsType
        BY <1>t, <1>s, Zenon DEF DmsType
    <2>2. req' = req /\ req \in ReqType
        BY <1>3 DEF Check, Types
    <2> QED
        BY <1>3, <1>t, <1>s, <2>1, <2>2 DEF Check
<1>4. CASE PrepareGprCsr(i)
    <2>1. /\ dmw.command.op \in Ops /\ dmw.command.known \in BOOLEAN
          /\ (IF dmw.command.op \in Reads THEN 0 ELSE dmw.data0) \in Words
        BY <1>4, WordsAre DEF PrepareGprCsr, Fits, Ops, Types, DmwType, CommandType
    <2>2. [NoReq EXCEPT !.op = dmw.command.op, !.known = dmw.command.known,
              !.data = IF dmw.command.op \in Reads THEN 0 ELSE dmw.data0] \in ReqType
        BY <2>1, NoReqIs, Zenon DEF ReqType
    <2> QED
        BY <1>4, <1>t, <1>s, <2>2 DEF PrepareGprCsr
<1>5. CASE ReadReg1(i) \/ ReadReg2(i) \/ Error(i)
    BY <1>5, <1>t, <1>s DEF ReadReg1, ReadReg2, Error, Types
<1>6. CASE WriteReg1(i)
    <2>1. IF req.op = "writecsr" THEN "none" \in Ops ELSE req.op \in Ops
        BY DEF Types, ReqType, Ops
    <2>2. [req EXCEPT !.op = IF req.op = "writecsr" THEN "none" ELSE req.op,
                      !.data = 0, !.isgpr = FALSE] \in ReqType
        BY <2>1, WordsAre, Zenon DEF Types, ReqType
    <2>3. req' = [req EXCEPT !.op = IF req.op = "writecsr" THEN "none" ELSE req.op,
                             !.data = 0, !.isgpr = FALSE]
        BY <1>6, Zenon DEF WriteReg1
    <2> QED
        BY <1>6, <1>t, <1>s, <2>2, <2>3 DEF WriteReg1
<1>7. CASE PrepareMem(i)
    <2>1. dmw.command.op \in Ops /\ dmw.data0 \in Words /\ dmw.data1 \in Words
        BY <1>7 DEF PrepareMem, Fits, Ops, Types, DmwType
    <2>2. [NoReq EXCEPT !.stb = TRUE, !.op = dmw.command.op,
                        !.addr = dmw.data1, !.data = dmw.data0] \in ReqType
        BY <2>1, NoReqIs, Zenon DEF ReqType
    <2>3. ASSUME NEW s \in MachineStates
          PROVE  [To(i, s) EXCEPT !.counter = Timeout - 1] \in DmsType
        <3>1. To(i, s) \in DmsType
            BY <1>t
        <3> QED
            BY <1>c, <3>1, Zenon DEF DmsType
    <2> QED
        BY <1>7, <1>s, <2>2, <2>3 DEF PrepareMem
<1>8. CASE ReadMem1(i) \/ WriteMem1(i)
    <2>1. Await(i) \in DmsType
        BY AwaitIs
    <2>2. "none" \in Ops /\ req \in ReqType
        BY DEF Ops, Types
    <2>3. /\ [req EXCEPT !.stb = FALSE] \in ReqType
          /\ [req EXCEPT !.stb = FALSE, !.op = "none"] \in ReqType
        BY <2>2, Zenon DEF ReqType
    <2> QED
        BY <1>8, <2>1, <2>3 DEF ReadMem1, WriteMem1
<1> QED
    BY <1>1, <1>2, <1>3, <1>4, <1>5, <1>6, <1>7, <1>8 DEF Machine

\* The requests the machine makes of the core.
RegRequest ==
    [stb |-> FALSE, op |-> dmw.command.op, addr |-> 0,
     data |-> IF dmw.command.op \in Reads THEN 0 ELSE dmw.data0,
     known |-> dmw.command.known, isgpr |-> TRUE]
MemRequest ==
    [stb |-> TRUE, op |-> dmw.command.op, addr |-> dmw.data1, data |-> dmw.data0,
     known |-> TRUE, isgpr |-> TRUE]

\* From state to state, and the request and the flags that go with it.
Moves(i) ==
    LET From(s) == dmw.active /\ dms.state = s
        Goes(s) == dms'.state = s /\ ~Flagged' IN
    /\ dms'.cmderr = CmdErr
    /\ ~dmw.active => Goes("idle") /\ req' = NoReq
    /\ From("idle") =>
           /\ Goes(IF Writes(i, "command") /\ dms.cmderr = "none" THEN "check" ELSE "idle")
           /\ req' = NoReq
    /\ From("check") =>
           /\ UNCHANGED req
           /\ \/ dms'.state = "error" /\ Flagged'
              \/ halted /\ Goes("preparegprcsr") /\ dmw.command.op \in RegOps
              \/ halted /\ Goes("preparemem") /\ dmw.command.op \in MemOps
    /\ From("preparegprcsr") =>
           /\ Goes(IF dmw.command.op \in Reads THEN "readreg1" ELSE "writereg1")
           /\ req' = RegRequest
    /\ From("readreg1") => Goes("readreg2") /\ UNCHANGED req
    /\ From("readreg2") \/ From("error") => Goes("idle") /\ UNCHANGED req
    /\ From("writereg1") => Goes("idle") /\ req'.stb = req.stb
    /\ From("preparemem") =>
           /\ Goes(IF dmw.command.op = "readmem" THEN "readmem1" ELSE "writemem1")
           /\ dms'.counter = Timeout - 1 /\ req' = MemRequest
    /\ From("readmem1") \/ From("writemem1") =>
           /\ IF dms.counter > 0
                THEN Goes(IF ack(i) THEN "idle" ELSE dms.state) /\ dms'.counter = dms.counter - 1
                ELSE dms'.state = "error" /\ Flagged'
           /\ ~req'.stb /\ req'.addr = req.addr /\ req'.data = req.data
           /\ dms.state = "readmem1" => req'.op = req.op

\* The eleven states make these moves and no other.
LEMMA MovesIs ==
    ASSUME Types, NEW i \in Inputs, Machine(i)
    PROVE  Moves(i)
<1>s. {"idle", "check", "error", "readreg1", "readreg2", "writereg1", "preparegprcsr",
       "preparemem", "readmem1", "writemem1"} = MachineStates
    BY DEF MachineStates
<1>t. \A s \in MachineStates :
          /\ To(i, s) \in DmsType /\ To(i, s).state = s /\ To(i, s).cmderr = CmdErr
          /\ ~To(i, s).illegal_state /\ ~To(i, s).illegal_cmd /\ ~To(i, s).timeout
    BY ToIs
<1>c. dms.counter \in Nat /\ dmw.command.op \in MemOps \cup RegOps \cup {"bad"}
    BY DmAssumption DEF Types, DmsType, DmwType, CommandType
<1>1. CASE Inactive(i)
    <2>1. dms' = [To(i, "idle") EXCEPT !.counter = 0] /\ req' = NoReq /\ ~dmw.active
        BY <1>1 DEF Inactive
    <2>2. dms'.state = "idle" /\ ~Flagged' /\ dms'.cmderr = CmdErr
        BY <1>s, <1>t, <2>1 DEF DmsType, Flagged
    <2> QED
        BY <2>1, <2>2 DEF Moves
<1>2. CASE Idle(i)
    <2> DEFINE s == IF Writes(i, "command") /\ dms.cmderr = "none" THEN "check" ELSE "idle"
    <2>1. dms' = To(i, s) /\ req' = NoReq /\ dmw.active /\ dms.state = "idle"
        BY <1>2 DEF Idle
    <2>2. dms'.state = s /\ ~Flagged' /\ dms'.cmderr = CmdErr
        BY <1>s, <1>t, <2>1 DEF Flagged
    <2> QED
        BY <2>1, <2>2 DEF Moves
<1>3. CASE Check(i)
    <2>1. UNCHANGED req /\ dmw.active /\ dms.state = "check"
        BY <1>3 DEF Check
    <2>2. CASE dmw.command.op = "bad"
        <3>1. dms' = [To(i, "error") EXCEPT !.illegal_cmd = TRUE]
            BY <1>3, <2>2 DEF Check
        <3>2. dms'.state = "error" /\ dms'.illegal_cmd /\ dms'.cmderr = CmdErr
            BY <1>s, <1>t, <3>1 DEF DmsType
        <3> QED
            BY <2>1, <3>2 DEF Moves, Flagged
    <2>3. CASE dmw.command.op # "bad" /\ ~halted
        <3>1. dms' = [To(i, "error") EXCEPT !.illegal_state = TRUE]
            BY <1>3, <2>3 DEF Check
        <3>2. dms'.state = "error" /\ dms'.illegal_state /\ dms'.cmderr = CmdErr
            BY <1>s, <1>t, <3>1 DEF DmsType
        <3> QED
            BY <2>1, <3>2 DEF Moves, Flagged
    <2>4. CASE dmw.command.op # "bad" /\ halted
        <3> DEFINE s == IF dmw.command.op \in RegOps THEN "preparegprcsr" ELSE "preparemem"
        <3>1. dms' = To(i, s)
            BY <1>3, <2>4 DEF Check
        <3>2. dms'.state = s /\ ~Flagged' /\ dms'.cmderr = CmdErr
            BY <1>s, <1>t, <3>1 DEF Flagged
        <3> QED
            BY <1>c, <2>1, <2>4, <3>2 DEF Moves
    <2> QED
        BY <2>2, <2>3, <2>4
<1>4. CASE PrepareGprCsr(i)
    <2> DEFINE s == IF dmw.command.op \in Reads THEN "readreg1" ELSE "writereg1"
    <2>1. dms' = To(i, s) /\ dmw.active /\ dms.state = "preparegprcsr"
        BY <1>4 DEF PrepareGprCsr
    <2>2. dms'.state = s /\ ~Flagged' /\ dms'.cmderr = CmdErr
        BY <1>s, <1>t, <2>1 DEF Flagged
    <2>3. req' = RegRequest
        BY <1>4 DEF PrepareGprCsr, NoReq, RegRequest
    <2> QED
        BY <2>1, <2>2, <2>3 DEF Moves
<1>5. CASE ReadReg1(i)
    <2>1. dms'.state = "readreg2" /\ ~Flagged' /\ dms'.cmderr = CmdErr
        BY <1>5, <1>s, <1>t DEF ReadReg1, Flagged
    <2> QED
        BY <1>5, <2>1 DEF ReadReg1, Moves
<1>6. CASE ReadReg2(i) \/ Error(i)
    <2>1. dms'.state = "idle" /\ ~Flagged' /\ dms'.cmderr = CmdErr
        BY <1>6, <1>s, <1>t DEF ReadReg2, Error, Flagged
    <2> QED
        BY <1>6, <2>1 DEF ReadReg2, Error, Moves
<1>7. CASE WriteReg1(i)
    <2>1. dms'.state = "idle" /\ ~Flagged' /\ dms'.cmderr = CmdErr
        BY <1>7, <1>s, <1>t DEF WriteReg1, Flagged
    <2>2. req'.stb = req.stb
        BY <1>7 DEF WriteReg1, Types, ReqType
    <2> QED
        BY <1>7, <2>1, <2>2 DEF WriteReg1, Moves
<1>8. CASE PrepareMem(i)
    <2> DEFINE s == IF dmw.command.op = "readmem" THEN "readmem1" ELSE "writemem1"
    <2>1. dms' = [To(i, s) EXCEPT !.counter = Timeout - 1] /\ dmw.active /\ dms.state = "preparemem"
        BY <1>8 DEF PrepareMem
    <2>2. /\ dms'.state = s /\ ~Flagged' /\ dms'.cmderr = CmdErr
          /\ dms'.counter = Timeout - 1
        BY <1>s, <1>t, <2>1 DEF DmsType, Flagged
    <2>3. req' = MemRequest
        BY <1>8 DEF PrepareMem, NoReq, MemRequest
    <2> QED
        BY <2>1, <2>2, <2>3 DEF Moves
<1>9. CASE ReadMem1(i) \/ WriteMem1(i)
    <2>1. dms' = Await(i) /\ dmw.active /\ dms.state \in {"readmem1", "writemem1"}
        BY <1>9 DEF ReadMem1, WriteMem1
    <2>2. IF dms.counter > 0
          THEN /\ dms'.state = (IF ack(i) THEN "idle" ELSE dms.state) /\ ~Flagged'
               /\ dms'.counter = dms.counter - 1
          ELSE dms'.state = "error" /\ Flagged'
        BY <1>c, <2>1, AwaitIs DEF Flagged
    <2>3. dms'.cmderr = CmdErr
        BY <2>1, AwaitIs
    <2>4. ~req'.stb /\ req'.addr = req.addr /\ req'.data = req.data
        BY <1>9 DEF ReadMem1, WriteMem1, Types, ReqType
    <2>5. dms.state = "readmem1" => req'.op = req.op
        BY <1>9 DEF ReadMem1, WriteMem1, Types, ReqType
    <2> QED
        BY <2>1, <2>2, <2>3, <2>4, <2>5 DEF Moves
<1> QED
    BY <1>1, <1>2, <1>3, <1>4, <1>5, <1>6, <1>7, <1>8, <1>9 DEF Machine

\* The state the machine enters fits the command.
LEMMA FitsNext ==
    ASSUME Types, Fits, NEW i \in Inputs, NEW reset \in BOOLEAN, Cycle(i, reset), Machine(i)
    PROVE  Fits'
<1>1. CASE ~dmw.active \/ dms.state = "idle"
    BY <1>1, MovesIs DEF Moves, Fits
<1>2. CASE dmw.active /\ busy
    <2>1. dmw'.command = dmw.command
        BY <1>2, CommandKept
    <2>2. dms.state \in MachineStates
        BY DEF Types, DmsType
    <2> QED
        BY <1>2, <2>1, <2>2, MovesIs DEF Moves, Fits, MachineStates, Reads, RegOps, MemOps
<1> QED
    BY <1>1, <1>2 DEF busy

\* Every step keeps the types.
LEMMA TypesNext ==
    ASSUME Types, Fits, NEW i \in Inputs, NEW reset \in BOOLEAN, Cycle(i, reset), Machine(i)
    PROVE  Types'
<1>1. dmw' \in DmwType
    BY WriteProcessIs DEF Cycle
<1>2. dms' \in DmsType /\ req' \in ReqType
    BY MachineIs
<1>3. hist' \in HistType
    BY HistIs DEF Cycle
<1>4. gap' \in Nat
    BY DmAssumption DEF Cycle, Types
<1>5. bus' \in BusType
    <2>1. [stb |-> FALSE, acc |-> "none", addr |-> 0, data |-> 0, wait |-> 0] \in BusType
        BY WordsAre, DmAssumption DEF BusType
    <2> QED
        BY <2>1, BusIs DEF Cycle
<1>6. store' \in StoreType
    <2>1. [Store EXCEPT !.csr = 0] \in StoreType
        BY StoreIs, WordsAre DEF StoreType
    <2> QED
        BY <2>1, StoreIs DEF Cycle
<1> QED
    BY <1>1, <1>2, <1>3, <1>4, <1>5, <1>6, HartIs DEF Types

\* At reset.
LEMMA InitTypes == Init => Types /\ Fits
<1> SUFFICES ASSUME Init PROVE Types /\ Fits
    OBVIOUS
<1>0. 0 \in Words /\ 0 \in 0..MaxWait /\ 0 \in 0..(Timeout - 1)
    BY WordsAre, DmAssumption
<1>1. dmw \in DmwType
    BY <1>0 DEF Init, DmwType, CommandType, RegOps
<1>2. dms \in DmsType
    BY <1>0 DEF Init, DmsType, MachineStates, Errors
<1>3. req \in ReqType /\ bus \in BusType
    BY <1>0, NoReqIs DEF Init, BusType
<1>4. store \in StoreType
    BY <1>0 DEF Init, StoreType
<1>5. hist \in HistType /\ gap \in Nat
    BY DEF Init, HistType
<1>6. phase = "boot" /\ halted = FALSE /\ resumeack = FALSE
    BY DEF Init, H!Init
<1>7. Fits
    BY DEF Init, Fits
<1> QED
    BY <1>1, <1>2, <1>3, <1>4, <1>5, <1>6, <1>7 DEF Types

-----------------------------------------------------------------------------
(* Type correctness *)

\* The types hold in every state; nothing is assumed of the debugger.
LEMMA TypesHold == Spec => [](Types /\ Fits)
<1>1. Types /\ Fits /\ [Next]_vars => (Types /\ Fits)'
    <2> SUFFICES ASSUME Types, Fits, [Next]_vars PROVE (Types /\ Fits)'
        OBVIOUS
    <2>1. CASE Next
        <3>1. PICK i \in Inputs : ClockEdge(i)
            BY <2>1 DEF Next
        <3>2. PICK reset \in BOOLEAN : Cycle(i, reset) /\ Machine(i)
            BY <3>1, CycleIs
        <3> QED
            BY <3>2, TypesNext, FitsNext
    <2>2. CASE UNCHANGED vars
        BY <2>2 DEF vars, Types, Fits
    <2> QED
        BY <2>1, <2>2
<1> QED
    BY <1>1, InitTypes, PTL DEF Spec

\* Every register stays within its type, the timeout counter and the waiting
\* time of a memory within their ranges.
THEOREM TypeCorrect == Spec => []TypeOK
<1>1. Types => TypeOK
    BY DEF Types, DmwType, DmsType, ReqType, BusType, StoreType, TypeOK, Flags, Ops
<1> QED
    BY <1>1, TypesHold, PTL

-----------------------------------------------------------------------------
(* Errors *)

\* An error stays until it is cleared; a new one is taken if there is none.
LEMMA ErrorTaken ==
    ASSUME ~dmw.clrerr, Failed \/ dms.cmderr # "none"
    PROVE  CmdErr # "none"
BY DEF Failed, Flagged, CmdErr

\* While a command executes its error is not cleared, an error it met is in
\* cmderr, and the state error is entered with a flag.
ErrInv ==
    /\ busy => ~dmw.clrerr
    /\ busy /\ dms.state # "check" /\ hist.failed => dms.cmderr # "none"
    /\ dms.state = "error" => Flagged

\* A step of the clock keeps that.
LEMMA ErrNext ==
    ASSUME Types, ErrInv, NEW i \in Inputs, NEW reset \in BOOLEAN, Cycle(i, reset), Machine(i)
    PROVE  ErrInv'
<1>h. /\ dms.state = "check" => ~hist'.failed
      /\ dms.state # "check" => (hist'.failed <=> hist.failed \/ (busy /\ Failed))
    BY DEF Cycle, Hist, Failed, Flagged, Types, HistType
<1>1. CASE ~dmw.active
    BY <1>1, MovesIs DEF Moves, ErrInv, busy
<1>2. CASE dmw.active /\ dms.state = "idle"
    <2>1. CASE dms'.state = "idle"
        BY <2>1 DEF ErrInv, busy
    <2>2. CASE dms'.state # "idle"
        <3>1. Writes(i, "command") /\ dms'.state = "check"
            BY <1>2, <2>2, MovesIs DEF Moves
        <3>2. ~dmw'.clrerr
            BY <3>1, WriteProcessIs DEF Cycle, Writes
        <3> QED
            BY <3>1, <3>2 DEF ErrInv
    <2> QED
        BY <2>1, <2>2
<1>3. CASE dmw.active /\ busy
    <2>1. ~dmw.clrerr /\ ~dmw'.clrerr
        BY <1>3, CommandKept DEF ErrInv
    <2>2. dms'.state # "check"
        BY <1>3, MovesIs DEF Moves, Types, DmsType, MachineStates, busy
    <2>3. hist'.failed => dms'.cmderr # "none"
        BY <1>h, <1>3, <2>1, ErrorTaken, MovesIs DEF Moves, ErrInv
    <2>4. dms'.state = "error" => Flagged'
        BY <1>3, MovesIs DEF Moves, Types, DmsType, MachineStates, busy
    <2> QED
        BY <2>1, <2>2, <2>3, <2>4 DEF ErrInv
<1> QED
    BY <1>1, <1>2, <1>3 DEF busy

\* So it holds in every state; nothing is assumed of the debugger.
LEMMA ErrHolds == Spec => []ErrInv
<1>1. Init => ErrInv
    BY DEF Init, ErrInv, busy
<1>2. Types /\ Fits /\ ErrInv /\ [Next]_vars => ErrInv'
    <2> SUFFICES ASSUME Types, Fits, ErrInv, [Next]_vars PROVE ErrInv'
        OBVIOUS
    <2>1. CASE Next
        <3>1. PICK i \in Inputs : ClockEdge(i)
            BY <2>1 DEF Next
        <3>2. PICK reset \in BOOLEAN : Cycle(i, reset) /\ Machine(i)
            BY <3>1, CycleIs
        <3> QED
            BY <3>2, ErrNext
    <2>2. CASE UNCHANGED vars
        BY <2>2 DEF vars, ErrInv, busy, Flagged
    <2> QED
        BY <2>1, <2>2
<1> QED
    BY <1>1, <1>2, TypesHold, PTL DEF Spec

\* Whatever goes wrong while a command executes - a hart that runs, a command
\* or a register that does not exist, a bus error, a memory that does not
\* answer - is in cmderr when the command is no longer busy.
THEOREM ErrorsKept == Spec => ErrorInPlace
<1>1. ASSUME Types, Fits, ErrInv, [Next]_vars
      PROVE  [Ends /\ (hist'.failed \/ Flagged') => dms'.cmderr # "none"]_vars
    <2> SUFFICES ASSUME Next, Ends, hist'.failed \/ Flagged' PROVE dms'.cmderr # "none"
        BY <1>1
    <2>1. PICK i \in Inputs : ClockEdge(i)
        BY DEF Next
    <2>2. PICK reset \in BOOLEAN : Cycle(i, reset) /\ Machine(i)
        BY <2>1, CycleIs
    <2>3. Moves(i) /\ busy /\ dmw.active /\ dms'.state = "idle" /\ ~dmw.clrerr
        BY <1>1, <2>2, MovesIs DEF Ends, ErrInv
    <2>4. dms.state # "check" /\ ~Flagged'
        BY <1>1, <2>3 DEF Moves, Types, DmsType, MachineStates, busy
    <2>5. hist.failed \/ Failed
        BY <1>1, <2>2, <2>4 DEF Cycle, Hist, Failed, Flagged, Types, HistType
    <2> QED
        BY <1>1, <2>3, <2>4, <2>5, ErrorTaken DEF Moves, ErrInv
<1> QED
    BY <1>1, TypesHold, ErrHolds, PTL DEF Spec, ErrorInPlace

-----------------------------------------------------------------------------
(* The acknowledge of a resume *)

\* From the request until the hart runs: the hart is about to take it, or has
\* cleared the acknowledge and not set it again.
ResumeInv ==
    ~hist.resumed =>
        /\ ~hist.seen
        /\ \/ phase = "halted" /\ dmw.resume_req /\ dmw.active /\ gap > 0
           \/ phase \in {"resume", "run"} /\ ~resumeack

\* A step keeps that: no request follows the one to resume in the next cycle.
LEMMA ResumeNext ==
    ASSUME Gap > 0, Types, ResumeInv, NEW i \in Inputs, NEW reset \in BOOLEAN, Cycle(i, reset)
    PROVE  ResumeInv'
<1>h. /\ AsksResume(i) => (hist'.resumed <=> ~halted \/ reset) /\ ~hist'.seen
      /\ ~AsksResume(i) =>
             /\ hist'.resumed <=> hist.resumed \/ reset \/ phase = "run"
             /\ hist'.seen <=> hist.seen \/ (ReadsReg(i, "dmstatus") /\ resumeack)
    BY DEF Cycle, Hist, Types, HistType
<1>g. AsksResume(i) \/ ReadsReg(i, "dmstatus") => gap = 0 /\ gap' > 0
    BY DEF Cycle, Debugger, AsksResume, Writes, ReadsReg, NoDmi
<1> SUFFICES ASSUME ~hist'.resumed PROVE ResumeInv'
    BY DEF ResumeInv
<1>r. ~reset /\ H!Cycle(O_resume_req, O_ackhavereset)
    BY <1>h DEF Cycle
<1>1. CASE AsksResume(i)
    <2>1. phase = "halted"
        BY <1>1, <1>h DEF Types
    <2>2. dmw'.resume_req /\ dmw'.active
        BY <1>1, WriteProcessIs DEF Cycle, AsksResume
    <2>3. phase' = "halted" \/ (phase' = "resume" /\ resumeack' = FALSE)
        BY <1>r, <2>1 DEF H!Cycle, H!Boot, H!Run, H!Halt, H!Stay, H!Resume, H!Resuming
    <2> QED
        BY <1>1, <1>h, <1>g, <2>2, <2>3 DEF ResumeInv
<1>2. CASE ~AsksResume(i) /\ phase = "halted"
    <2>1. dmw.resume_req /\ dmw.active /\ gap > 0 /\ ~hist.seen
        BY <1>2, <1>h DEF ResumeInv
    <2>2. phase' = "resume" /\ resumeack' = FALSE
        BY <1>r, <1>2, <2>1
           DEF O_resume_req, H!Cycle, H!Boot, H!Run, H!Halt, H!Stay, H!Resume, H!Resuming
    <2> QED
        BY <1>2, <1>h, <1>g, <2>1, <2>2 DEF ResumeInv, Types
<1>3. CASE ~AsksResume(i) /\ phase # "halted"
    <2>1. phase = "resume" /\ ~resumeack /\ ~hist.seen
        BY <1>3, <1>h DEF ResumeInv
    <2>2. phase' \in {"resume", "run"} /\ resumeack' = resumeack
        BY <1>r, <2>1 DEF H!Cycle, H!Boot, H!Run, H!Halt, H!Stay, H!Resume, H!Resuming
    <2> QED
        BY <1>3, <1>h, <2>1, <2>2 DEF ResumeInv
<1> QED
    BY <1>1, <1>2, <1>3

\* When allresumeack is read the hart has run since the last request to resume,
\* as long as the debug transport leaves a cycle between two requests.
THEOREM ResumeAckTrue == ASSUME Gap > 0 PROVE Spec => []ResumeAckMeansResumed
<1>1. Init => ResumeInv
    BY DEF Init, ResumeInv
<1>2. Types /\ Fits /\ ResumeInv /\ [Next]_vars => ResumeInv'
    <2> SUFFICES ASSUME Types, Fits, ResumeInv, [Next]_vars PROVE ResumeInv'
        OBVIOUS
    <2>1. CASE Next
        <3>1. PICK i \in Inputs : ClockEdge(i)
            BY <2>1 DEF Next
        <3>2. PICK reset \in BOOLEAN : Cycle(i, reset) /\ Machine(i)
            BY <3>1, CycleIs
        <3> QED
            BY <3>2, ResumeNext
    <2>2. CASE UNCHANGED vars
        BY <2>2 DEF vars, ResumeInv
    <2> QED
        BY <2>1, <2>2
<1>3. ResumeInv => ResumeAckMeansResumed
    BY DEF ResumeInv, ResumeAckMeansResumed
<1> QED
    BY <1>1, <1>2, <1>3, TypesHold, PTL DEF Spec

-----------------------------------------------------------------------------
(* What a command does *)

\* The debugger does not shut the debug module down.
StaysOn == \A c \in Controls : c.active

\* No transfer of the debug module is under way, nor will be.
Quiet == ~req.stb /\ ~(bus.stb /\ bus.acc # "none") /\ bus.wait = 0

\* The transfer of a memory command: requested; on the bus; waiting for the
\* memory; or given up, because the hart does not let it through any more.
Posted ==
    /\ req.stb /\ req.op = dmw.command.op
    /\ ~(bus.stb /\ bus.acc # "none") /\ bus.wait = 0 /\ dms.counter = Timeout - 1
OnBus ==
    /\ ~req.stb /\ bus.stb /\ bus.acc = dmw.command.op
    /\ bus.addr = dmw.data1 /\ bus.data = dmw.data0
    /\ bus.wait = 0 /\ dms.counter = Timeout - 2
Waiting ==
    /\ ~req.stb /\ ~bus.stb /\ bus.addr = dmw.data1
    /\ bus.wait > 0 /\ dms.counter = Timeout - 2 - bus.wait
    /\ dmw.command.op = "writemem" => store.mem[dmw.data1] = dmw.data0
GivenUp == Quiet /\ ~(hist.halted /\ halted)

\* The request is that of the command, and its transfer gets on.
WorkInv ==
    /\ dmw.active \/ dms.state = "idle"
    /\ dms.state \in {"readreg1", "readreg2", "writereg1"} => req = RegRequest
    /\ dms.state \in {"readmem1", "writemem1"} =>
           /\ req.addr = dmw.data1 /\ req.data = dmw.data0
           /\ dms.state = "readmem1" => req.op = "readmem"
           /\ Posted \/ OnBus \/ Waiting \/ GivenUp
    /\ dms.state \notin {"readmem1", "writemem1"} => Quiet

\* While a command executes nothing else touches what it works with.
LEMMA DataKept ==
    ASSUME Types, NEW i \in Inputs, NEW reset \in BOOLEAN, Cycle(i, reset), busy
    PROVE  /\ dmw'.command = dmw.command
           /\ dmw'.data0 = (IF data0mustread(i) THEN PortData(i) ELSE dmw.data0)
           /\ dmw'.data1 = (IF data1mustincrement(i) THEN (dmw.data1 + 1) % NumWords
                            ELSE dmw.data1)
BY WriteProcessIs DEF Cycle

\* After a reset of the hart its bus is quiet, the hart is not halted.
LEMMA ResetQuiet ==
    ASSUME NEW i \in Inputs, Cycle(i, TRUE)
    PROVE  ~halted' /\ ~bus'.stb /\ bus'.wait = 0
BY DEF Cycle, H!Reset

\* A quiet bus stays quiet.
LEMMA StaysQuiet ==
    ASSUME Types, Quiet, NEW i \in Inputs, NEW reset \in BOOLEAN, Cycle(i, reset)
    PROVE  ~bus'.stb /\ bus'.wait = 0
<1>1. CASE reset
    BY <1>1, ResetQuiet
<1>2. CASE ~reset
    BY <1>2, BusIs DEF Cycle, Quiet, Owed, Types, BusType
<1> QED
    BY <1>1, <1>2

\* What the history says of the hart in the cycles after the check.
LEMMA HaltedIs ==
    ASSUME Types, NEW i \in Inputs, NEW reset \in BOOLEAN, Cycle(i, reset),
           dms.state # "check", hist'.halted
    PROVE  hist.halted /\ halted
BY DEF Cycle, Hist, Types, HistType

\* The transfer of a memory command that has not ended gets on...
LEMMA TransferNext ==
    ASSUME Types, Fits, WorkInv, NEW i \in Inputs, NEW reset \in BOOLEAN,
           Cycle(i, reset), Machine(i), dms.state \in {"readmem1", "writemem1"},
           dms'.state = dms.state
    PROVE  (Posted \/ OnBus \/ Waiting \/ GivenUp)'
<1>a. busy /\ dmw.active /\ dmw.command.op \in MemOps
    BY DEF busy, WorkInv, Fits, MemOps
<1>b. dms.counter > 0 /\ ~ack(i) /\ dms'.counter = dms.counter - 1
    BY <1>a, MovesIs DEF Moves
<1>c. ~data0mustread(i) /\ ~data1mustincrement(i)
    BY <1>b DEF data0mustread, data1mustincrement
<1>d. UNCHANGED <<dmw.command, dmw.data0, dmw.data1>>
    BY <1>a, <1>c, DataKept
<1>e. ~req'.stb /\ req.addr = dmw.data1 /\ req.data = dmw.data0
      /\ (dms.state = "readmem1" => req'.op = "readmem")
    BY <1>a, MovesIs DEF Moves, WorkInv
<1>f. ~i.ready /\ ~buserr /\ Timeout \in Nat /\ dms.counter \in Nat /\ bus.wait \in Nat
    BY <1>b, DmAssumption DEF ack, Types, DmsType, BusType
<1>1. CASE reset
    BY <1>1, <1>e, ResetQuiet DEF GivenUp, Quiet
<1>2. CASE ~reset /\ Posted
    <2>a. bus' = Bus(i) /\ req.stb /\ req.op \in MemOps /\ req.op = dmw.command.op /\ ~Owed
        BY <1>2, <1>a DEF Cycle, Posted, Owed
    <2>b. PortSensible(i)
        BY DEF Cycle
    <2>1. /\ bus'.stb /\ bus'.addr = dmw.data1 /\ bus'.data = dmw.data0 /\ bus'.wait = 0
          /\ bus'.acc = (IF halted THEN dmw.command.op ELSE "none")
        BY <1>e, <2>a, <2>b, BusIs
    <2>2. CASE halted
        <3>1. OnBus'
            BY <1>2, <1>b, <1>d, <1>e, <1>f, <2>1, <2>2 DEF Posted, OnBus
        <3> QED
            BY <3>1
    <2>3. CASE ~halted
        <3>1. ~hist'.halted
            BY <2>3, HaltedIs
        <3> QED
            BY <1>e, <2>1, <2>3, <3>1 DEF GivenUp, Quiet
    <2> QED
        BY <2>2, <2>3
<1>3. CASE ~reset /\ OnBus
    <2>1. ~bus'.stb /\ bus'.addr = dmw.data1
        BY <1>3, <1>e, BusIs DEF Cycle, OnBus
    <2>2. CASE bus.addr \notin BadAddrs
        <3>1. bus'.wait = 1
            BY <1>3, <1>a, <1>f, <2>2, BusIs DEF Cycle, OnBus, Owed, MemOps
        <3>2. dmw.command.op = "writemem" => store'.mem[dmw.data1] = dmw.data0
            BY <1>3, <2>2, StoreIs DEF Cycle, OnBus, Types, StoreType, BusType
        <3>3. Waiting'
            BY <1>3, <1>b, <1>d, <1>e, <1>f, <2>1, <3>1, <3>2 DEF OnBus, Waiting
        <3> QED
            BY <3>3
    <2>3. CASE bus.addr \in BadAddrs
        <3>1. ~halted
            BY <1>3, <1>a, <1>f, <2>3 DEF OnBus, buserr, MemOps
        <3>2. ~hist'.halted
            BY <3>1, HaltedIs
        <3>3. bus'.wait = 0
            BY <1>3, <2>3, BusIs DEF Cycle, OnBus, Owed
        <3> QED
            BY <1>e, <2>1, <3>2, <3>3 DEF GivenUp, Quiet
    <2> QED
        BY <2>2, <2>3
<1>4. CASE ~reset /\ Waiting
    <2>1. ~bus'.stb /\ bus'.addr = dmw.data1 /\ bus'.wait = bus.wait + 1
        BY <1>4, <1>e, <1>f, BusIs DEF Cycle, Waiting, Owed
    <2>2. store'.mem = store.mem
        BY <1>4, StoreIs DEF Cycle, Waiting
    <2>3. Waiting'
        BY <1>4, <1>b, <1>d, <1>e, <1>f, <2>1, <2>2 DEF Waiting
    <2> QED
        BY <2>3
<1>5. CASE GivenUp
    <2>1. ~bus'.stb /\ bus'.wait = 0
        BY <1>5, StaysQuiet DEF GivenUp
    <2>2. ~hist'.halted
        BY <1>5, HaltedIs DEF GivenUp
    <2> QED
        BY <1>e, <2>1, <2>2 DEF GivenUp, Quiet
<1> QED
    BY <1>1, <1>2, <1>3, <1>4, <1>5 DEF WorkInv

\* ...and none is left when the command ends: the timeout is longer than the
\* longest wait.
LEMMA TransferEnds ==
    ASSUME Types, Fits, WorkInv, NEW i \in Inputs, NEW reset \in BOOLEAN,
           Cycle(i, reset), Machine(i), dms.state \in {"readmem1", "writemem1"},
           dms'.state # dms.state
    PROVE  Quiet'
<1>a. busy /\ dmw.active /\ dmw.command.op \in MemOps
    BY DEF busy, WorkInv, Fits, MemOps
<1>b. dms.counter = 0 \/ ack(i)
    BY <1>a, DmAssumption, MovesIs DEF Moves, Types, DmsType
<1>c. ~req'.stb
    BY <1>a, MovesIs DEF Moves
<1>f. /\ Timeout \in Nat /\ MaxWait \in Nat /\ Timeout > MaxWait + 2 /\ dms.counter \in Nat
      /\ bus.wait \in Nat /\ bus.wait <= MaxWait
    BY DmAssumption DEF Types, DmsType, BusType
<1>1. CASE reset
    BY <1>1, <1>c, ResetQuiet DEF Quiet
<1>2. CASE ~reset /\ Posted
    <2>1. i.ready /\ ~Owed
        BY <1>2, <1>b, <1>f DEF Posted, ack, buserr, Owed
    <2>2. ~halted
        BY <2>1 DEF Cycle, PortSensible, Types
    <2> QED
        BY <1>2, <1>c, <2>1, <2>2, BusIs DEF Cycle, Quiet
<1>3. CASE ~reset /\ (OnBus \/ Waiting)
    <2>1. ack(i)
        BY <1>3, <1>b, <1>f DEF OnBus, Waiting
    <2>2. ~(Owed /\ ~i.ready)
        BY <1>3, <2>1 DEF OnBus, Waiting, ack, buserr, Owed
    <2> QED
        BY <1>3, <1>c, <2>2, BusIs DEF Cycle, Quiet, OnBus, Waiting
<1>4. CASE GivenUp
    BY <1>4, <1>c, StaysQuiet DEF GivenUp, Quiet
<1> QED
    BY <1>1, <1>2, <1>3, <1>4 DEF WorkInv

\* The work of a command goes on from state to state.
LEMMA WorkNext ==
    ASSUME StaysOn, Types, Fits, WorkInv, NEW i \in Inputs, NEW reset \in BOOLEAN,
           Cycle(i, reset), Machine(i)
    PROVE  WorkInv'
<1>m. Moves(i)
    BY MovesIs
<1>a. dmw'.active \/ dms'.state = "idle"
    <2>1. CASE Writes(i, "dmcontrol")
        BY <2>1, InputsAre, WriteProcessIs DEF Cycle, StaysOn
    <2>2. CASE ~Writes(i, "dmcontrol")
        BY <1>m, <2>2, WriteProcessIs DEF Cycle, Moves
    <2> QED
        BY <2>1, <2>2
<1>n. ~NoReq.stb /\ ~RegRequest.stb /\ MemRequest.stb
    BY NoReqIs DEF RegRequest, MemRequest
<1>r. UNCHANGED <<dmw.command, dmw.data0>> => RegRequest' = RegRequest
    BY DEF RegRequest
<1>k. busy /\ dms.state \notin {"readreg2", "readmem1", "writemem1"} =>
          UNCHANGED <<dmw.command, dmw.data0, dmw.data1>>
    BY DataKept DEF data0mustread, data1mustincrement
<1>1. CASE ~dmw.active \/ dms.state = "idle"
    <2>1. Quiet /\ req' = NoReq /\ dms'.state \in {"idle", "check"}
        BY <1>1, <1>m DEF Moves, WorkInv
    <2>2. Quiet'
        BY <2>1, <1>n, StaysQuiet DEF Quiet
    <2> QED
        BY <1>a, <2>1, <2>2 DEF WorkInv
<1>2. CASE dmw.active /\ dms.state = "check"
    <2>1. Quiet /\ req' = req /\ dms'.state \in {"error", "preparegprcsr", "preparemem"}
        BY <1>2, <1>m DEF Moves, WorkInv
    <2>2. Quiet'
        BY <2>1, StaysQuiet DEF Quiet
    <2> QED
        BY <1>a, <2>1, <2>2 DEF WorkInv
<1>3. CASE dmw.active /\ dms.state = "preparegprcsr"
    <2>1. Quiet /\ req' = RegRequest /\ dms'.state \in {"readreg1", "writereg1"}
        BY <1>3, <1>m DEF Moves, WorkInv
    <2>2. Quiet'
        BY <2>1, <1>n, StaysQuiet DEF Quiet
    <2>3. RegRequest' = RegRequest
        BY <1>3, <1>k, <1>r DEF busy
    <2> QED
        BY <1>a, <2>1, <2>2, <2>3 DEF WorkInv
<1>4. CASE dmw.active /\ dms.state = "readreg1"
    <2>1. Quiet /\ req' = req /\ req = RegRequest /\ dms'.state = "readreg2"
        BY <1>4, <1>m DEF Moves, WorkInv
    <2>2. Quiet'
        BY <2>1, StaysQuiet DEF Quiet
    <2>3. RegRequest' = RegRequest
        BY <1>4, <1>k, <1>r DEF busy
    <2> QED
        BY <1>a, <2>1, <2>2, <2>3 DEF WorkInv
<1>5. CASE dmw.active /\ dms.state \in {"readreg2", "writereg1", "error"}
    <2>1. Quiet /\ req'.stb = req.stb /\ dms'.state = "idle"
        BY <1>5, <1>m DEF Moves, WorkInv
    <2>2. Quiet'
        BY <2>1, StaysQuiet DEF Quiet
    <2> QED
        BY <1>a, <2>1, <2>2 DEF WorkInv
<1>6. CASE dmw.active /\ dms.state = "preparemem"
    <2>1. /\ Quiet /\ req' = MemRequest /\ dms'.state \in {"readmem1", "writemem1"}
          /\ dms'.counter = Timeout - 1
          /\ (dms'.state = "readmem1" => dmw.command.op = "readmem")
        BY <1>6, <1>m DEF Moves, WorkInv
    <2>2. ~bus'.stb /\ bus'.wait = 0
        BY <2>1, StaysQuiet
    <2>3. UNCHANGED <<dmw.command, dmw.data0, dmw.data1>>
        BY <1>6, <1>k DEF busy
    <2>4. Posted'
        BY <1>n, <2>1, <2>2, <2>3 DEF Posted, MemRequest
    <2> QED
        BY <1>a, <2>1, <2>3, <2>4 DEF WorkInv, MemRequest
<1>7. CASE dmw.active /\ dms.state \in {"readmem1", "writemem1"}
    <2>1. CASE dms'.state = dms.state
        <3>1. ~ack(i) /\ req'.addr = req.addr /\ req'.data = req.data
              /\ (dms.state = "readmem1" => req'.op = req.op)
            BY <1>7, <1>m, <2>1 DEF Moves
        <3>2. UNCHANGED <<dmw.command, dmw.data0, dmw.data1>>
            BY <1>7, <3>1, DataKept DEF data0mustread, data1mustincrement, busy
        <3>3. (Posted \/ OnBus \/ Waiting \/ GivenUp)'
            BY <1>7, <2>1, TransferNext
        <3> QED
            BY <1>7, <1>a, <2>1, <3>1, <3>2, <3>3 DEF WorkInv
    <2>2. CASE dms'.state # dms.state
        <3>1. dms'.state \in {"idle", "error"}
            BY <1>7, <1>m, <2>2, DmAssumption DEF Moves, Types, DmsType
        <3>2. Quiet'
            BY <1>7, <2>2, TransferEnds
        <3> QED
            BY <1>a, <3>1, <3>2 DEF WorkInv
    <2> QED
        BY <2>1, <2>2
<1> QED
    BY <1>1, <1>2, <1>3, <1>4, <1>5, <1>6, <1>7 DEF Types, DmsType, MachineStates

\* A command does its work in every behaviour in which the module stays on.
LEMMA WorkHolds == ASSUME StaysOn PROVE Spec => []WorkInv
<1>1. Init => WorkInv
    BY NoReqIs DEF Init, WorkInv, Quiet
<1>2. Types /\ Fits /\ WorkInv /\ [Next]_vars => WorkInv'
    <2> SUFFICES ASSUME Types, Fits, WorkInv, [Next]_vars PROVE WorkInv'
        OBVIOUS
    <2>1. CASE Next
        <3>1. PICK i \in Inputs : ClockEdge(i)
            BY <2>1 DEF Next
        <3>2. PICK reset \in BOOLEAN : Cycle(i, reset) /\ Machine(i)
            BY <3>1, CycleIs
        <3> QED
            BY <3>2, WorkNext
    <2>2. CASE UNCHANGED vars
        BY <2>2 DEF vars, WorkInv, Quiet, Posted, OnBus, Waiting, GivenUp, RegRequest
    <2> QED
        BY <2>1, <2>2
<1> QED
    BY <1>1, <1>2, TypesHold, PTL DEF Spec

\* The end of a command on a hart that was halted and is not reset.
LEMMA CommandDone ==
    ASSUME Types, Fits, ErrInv, WorkInv, NEW i \in Inputs, Cycle(i, FALSE), Machine(i),
           Ends, dms'.cmderr = "none", hist.halted, halted
    PROVE  Done
<1>m. Moves(i) /\ busy /\ dmw.active /\ dms'.state = "idle" /\ CmdErr = "none"
    BY MovesIs DEF Ends, Moves
<1>e. ~Failed /\ ~buserr /\ ~excep
    BY <1>m, ErrorTaken DEF ErrInv, Failed
<1>d. /\ dmw'.data0 = (IF data0mustread(i) THEN PortData(i) ELSE dmw.data0)
      /\ dmw'.data1 = (IF data1mustincrement(i) THEN (dmw.data1 + 1) % NumWords
                       ELSE dmw.data1)
    BY <1>m, DataKept
<1>s. store' = Store /\ phase = "halted" /\ PortSensible(i)
    BY DEF Cycle, Types
<1>1. CASE dms.state = "readreg2"
    <2>1. req = RegRequest /\ dmw.command.op \in {"readgpr", "readcsr"}
        BY <1>1 DEF WorkInv, Fits
    <2>2. req.op = dmw.command.op /\ (req.op = "readcsr" => req.known)
        BY <1>e, <2>1 DEF RegRequest, excep
    <2>3. /\ dmw.command.op = "readgpr" => dmw'.data0 = store.gpr
          /\ dmw.command.op = "readcsr" => dmw'.data0 = store.csr
        BY <1>1, <1>d, <2>2 DEF data0mustread, PortData
    <2>4. dmw'.data1 = dmw.data1
        BY <1>1, <1>d DEF data1mustincrement
    <2> QED
        BY <2>1, <2>3, <2>4 DEF Done, MemOps
<1>2. CASE dms.state = "writereg1"
    <2>1. req = RegRequest /\ dmw.command.op \in {"writegpr", "writecsr"}
        BY <1>2 DEF WorkInv, Fits
    <2>2. /\ req.op = dmw.command.op /\ req.data = dmw.data0 /\ req.isgpr
          /\ req.op = "writecsr" => req.known
        BY <1>e, <2>1 DEF RegRequest, excep, Reads
    <2>3. /\ dmw.command.op = "writegpr" => store'.gpr = dmw.data0
          /\ dmw.command.op = "writecsr" => store'.csr = dmw.data0
        BY <1>s, <2>2, StoreIs
    <2>4. dmw'.data1 = dmw.data1
        BY <1>2, <1>d DEF data1mustincrement
    <2> QED
        BY <2>1, <2>3, <2>4 DEF Done, MemOps
<1>3. CASE dms.state \in {"readmem1", "writemem1"}
    <2>1. i.ready /\ ack(i) /\ dmw.command.op \in MemOps
        BY <1>3, <1>m, <1>e DEF Moves, Fits, ack, MemOps
    <2>2. Owed
        BY <1>s, <2>1 DEF PortSensible
    <2>3. OnBus \/ Waiting
        BY <1>3, <2>2 DEF WorkInv, Posted, GivenUp, Quiet, Owed
    <2>4. dmw'.data1 = (IF dmw.command.inc THEN (dmw.data1 + 1) % NumWords ELSE dmw.data1)
        BY <1>3, <1>d, <2>1 DEF data1mustincrement
    <2>5. dmw.command.op = "readmem" => dmw'.data0 = store.mem[dmw.data1]
        <3> SUFFICES ASSUME dmw.command.op = "readmem"
                     PROVE  dmw'.data0 = store.mem[dmw.data1]
            OBVIOUS
        <3>1. dms.state = "readmem1" /\ req.op = "readmem"
            BY <1>3 DEF WorkInv, Fits
        <3>2. bus.addr = dmw.data1
            BY <2>3 DEF OnBus, Waiting
        <3> QED
            BY <1>d, <1>e, <2>1, <3>1, <3>2 DEF data0mustread, PortData
    <2>6. dmw.command.op = "writemem" => store'.mem[dmw.data1] = dmw.data0
        <3> SUFFICES ASSUME dmw.command.op = "writemem"
                     PROVE  store'.mem[dmw.data1] = dmw.data0
            OBVIOUS
        <3>1. CASE OnBus
            <4>1. bus.addr \notin BadAddrs
                BY <1>e, <3>1 DEF OnBus, buserr
            <4> QED
                BY <1>s, <3>1, <4>1, StoreIs DEF OnBus, Types, StoreType, BusType
        <3>2. CASE Waiting
            BY <1>s, <3>2, StoreIs DEF Waiting
        <3> QED
            BY <2>3, <3>1, <3>2
    <2> QED
        BY <2>1, <2>4, <2>5, <2>6 DEF Done, MemOps
<1>4. dms.state \in {"readreg2", "writereg1", "readmem1", "writemem1"}
    <2>1. dms.state # "error"
        BY <1>e DEF ErrInv, Failed
    <2> QED
        BY <1>m, <2>1 DEF Moves, Types, DmsType, MachineStates, busy
<1> QED
    BY <1>1, <1>2, <1>3, <1>4

\* A command that ends without an error on a hart that was halted throughout
\* and is not just then reset has done what it says, whatever the debugger did
\* in between, as long as it left the debug module on.
THEOREM HaltedCommandsDoIt ==
    ASSUME StaysOn
    PROVE  Spec => [][Ends /\ dms'.cmderr = "none" /\ hist.halted /\ halted /\ halted' => Done]_vars
<1>1. ASSUME Types, Fits, ErrInv, WorkInv, [Next]_vars
      PROVE  [Ends /\ dms'.cmderr = "none" /\ hist.halted /\ halted /\ halted' => Done]_vars
    <2> SUFFICES ASSUME Next, Ends, dms'.cmderr = "none", hist.halted, halted, halted' PROVE Done
        BY <1>1
    <2>1. PICK i \in Inputs : ClockEdge(i)
        BY DEF Next
    <2>2. PICK reset \in BOOLEAN : Cycle(i, reset) /\ Machine(i)
        BY <2>1, CycleIs
    <2>3. ~reset
        BY <2>2, ResetQuiet
    <2> QED
        BY <1>1, <2>2, <2>3, CommandDone
<1> QED
    BY <1>1, TypesHold, ErrHolds, WorkHolds, PTL DEF Spec

\* A debugger that examines a halted hart: it leaves it halted.
Examines ==
    /\ TRUE \notin Resets
    /\ \A c \in Controls : c.active /\ ~c.ndmreset /\ (c.resumereq => c.haltreq)

\* The hart the command found halted is still halted.
HaltedInv ==
    /\ ~dmw.ndmreset /\ ~dmw.resume_req
    /\ dms.state \notin {"idle", "check", "error"} => hist.halted /\ halted

\* Only a resume or a reset, which this debugger does not ask for, ends a halt.
LEMMA HaltedNext ==
    ASSUME Examines, Types, Fits, HaltedInv, NEW i \in Inputs, NEW reset \in BOOLEAN,
           Cycle(i, reset), Machine(i), ~reset
    PROVE  HaltedInv'
<1>1. ~dmw'.ndmreset /\ ~dmw'.resume_req
    <2>1. CASE Writes(i, "dmcontrol")
        BY <2>1, InputsAre, WriteProcessIs DEF Cycle, Examines
    <2>2. CASE ~Writes(i, "dmcontrol")
        BY <2>2, WriteProcessIs DEF Cycle, HaltedInv
    <2> QED
        BY <2>1, <2>2
<1>2. halted => halted'
    <2>1. H!Cycle(O_resume_req, O_ackhavereset) /\ ~O_resume_req
        BY DEF Cycle, O_resume_req, HaltedInv
    <2> QED
        BY <2>1 DEF Types, H!Cycle, H!Boot, H!Run, H!Halt, H!Stay, H!Resume, H!Resuming
<1>3. dms'.state \notin {"idle", "check", "error"} => halted /\ hist'.halted
    <2>1. dms'.state \notin {"idle", "check", "error"} => halted /\ (dms.state # "check" => hist.halted)
        BY MovesIs DEF Moves, HaltedInv, Types, DmsType, MachineStates
    <2> QED
        BY <2>1 DEF Cycle, Hist
<1> QED
    BY <1>1, <1>2, <1>3 DEF HaltedInv

\* An abstract command that ends without an error has done what it says.
THEOREM CommandsDoIt == ASSUME Examines PROVE Spec => CommandDoesIt
<1>n. ASSUME Next, HaltedInv
      PROVE  \E i \in Inputs : Cycle(i, FALSE) /\ Machine(i)
    <2>1. PICK i \in Inputs : ClockEdge(i)
        BY <1>n DEF Next
    <2>2. PICK reset \in BOOLEAN : Cycle(i, reset) /\ Machine(i) /\ (reset => O_reset_req \/ TRUE \in Resets)
        BY <2>1, CycleIs
    <2>3. reset = FALSE
        BY <1>n, <2>2 DEF HaltedInv, O_reset_req, Examines
    <2> QED
        BY <2>2, <2>3
<1>1. Init => HaltedInv
    BY DEF Init, HaltedInv
<1>2. Types /\ Fits /\ HaltedInv /\ [Next]_vars => HaltedInv'
    <2> SUFFICES ASSUME Types, Fits, HaltedInv, [Next]_vars PROVE HaltedInv'
        OBVIOUS
    <2>1. CASE Next
        BY <1>n, <2>1, HaltedNext
    <2>2. CASE UNCHANGED vars
        BY <2>2 DEF vars, HaltedInv
    <2> QED
        BY <2>1, <2>2
<1>3. ASSUME Types, Fits, ErrInv, WorkInv, HaltedInv, [Next]_vars
      PROVE  [Ends /\ dms'.cmderr = "none" => Done]_vars
    <2> SUFFICES ASSUME Next, Ends, dms'.cmderr = "none" PROVE Done
        BY <1>3
    <2>1. PICK i \in Inputs : Cycle(i, FALSE) /\ Machine(i)
        BY <1>n, <1>3
    <2>2. dms.state \notin {"idle", "check", "error"}
        <3>1. Moves(i) /\ busy /\ dmw.active /\ dms'.state = "idle" /\ CmdErr = "none"
            BY <1>3, <2>1, MovesIs DEF Ends, Moves
        <3>2. ~Failed
            BY <1>3, <3>1, ErrorTaken DEF ErrInv
        <3> QED
            BY <1>3, <3>1, <3>2 DEF Moves, busy, ErrInv, Failed
    <2> QED
        BY <1>3, <2>1, <2>2, CommandDone DEF HaltedInv
<1>4. StaysOn
    BY DEF Examines, StaysOn
<1> QED
    BY <1>1, <1>2, <1>3, <1>4, TypesHold, ErrHolds, WorkHolds, PTL DEF Spec, CommandDoesIt
===============================================================================
