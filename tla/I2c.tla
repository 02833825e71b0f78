---------------------------------- MODULE I2c ----------------------------------
(***************************************************************************)
(* An I2C master (i2c.vhd), the functions that drive it (lib/i2c) and a    *)
(* slave on the bus.                                                       *)
(*                                                                         *)
(* The master's state machine is followed from one condition on the bus to *)
(* the next: START, the nine bits of a byte, STOP.  The program accesses   *)
(* the registers at any time in between; an access to the control register *)
(* with |= or &= is a read and a later write.                              *)
(***************************************************************************)
EXTENDS Naturals, Sequences

CONSTANTS Bytes,        \* the values of a data byte
          Calls,        \* what the program does, see Call
          MaxLen,       \* bytes in a call
          Patient,      \* it lets the master come to rest before the next call
          MayRefuse,    \* the slave may refuse a byte it is sent
          MaxCalls      \* bound

\* A call: the function, whether its slave is there, the number of bytes.
Call == [fn : {"transmit", "receive", "probe"}, there : BOOLEAN, len : 1 .. MaxLen]

ASSUME I2cAssumption ==
  /\ MaxLen \in Nat \ {0} /\ MaxCalls \in Nat
  /\ Calls \subseteq Call
  /\ Patient \in BOOLEAN /\ MayRefuse \in BOOLEAN

None == [value |-> "none"]
AddressOf(c) == [to |-> c.there, read |-> c.fn = "receive"]
Dummy == [value |-> "ff"]
Byte(b) == [value |-> b]

VARIABLES
  \* the master
  ctrl,       \* start, stop, hardstop and mack of CTRL
  tc, af,     \* the flags of STAT
  trans,      \* the master holds the bus: SCL is kept low between bytes
  st,         \* its state: idle, start, byte, stop
  txbuffer,   \* the byte to send and whether the ninth bit is left high
  rxbuffer,   \* the byte received and the ninth bit
  data,       \* DATA as read
  \* the bus and the slave
  slave,      \* its mode: idle, listen (START seen), write, read, off
  got,        \* the bytes it took in this call
  sent,       \* the bytes it sent in this call
  refused,    \* it, or nobody, acknowledged a byte of this call with "no"
  \* the program
  pc, call, i, why, tmp, buf, ret, calls

master == <<ctrl, tc, af, trans, st, txbuffer, rxbuffer, data>>
bus == <<slave, got, sent, refused>>
program == <<pc, call, i, why, tmp, buf, ret, calls>>
vars == <<master, bus, program>>

-----------------------------------------------------------------------------
(* The master *)

Idle == [start |-> FALSE, stop |-> FALSE, hardstop |-> FALSE, mack |-> FALSE]

\* In idle a hard stop is begun in the next clock.
HardStop ==
  /\ st = "idle" /\ ctrl.hardstop
  /\ st' = "stop"
  /\ UNCHANGED <<ctrl, tc, af, trans, txbuffer, rxbuffer, data, bus, program>>

Settled == ~(st = "idle" /\ ctrl.hardstop)

\* Writing DATA starts a transfer if the machine is idle.  In any other state
\* the pulse is gone before the machine looks.
WriteData(byte) ==
  /\ txbuffer' = [byte |-> byte, nack |-> ctrl.start \/ ctrl.stop \/ ~ctrl.mack]
  /\ tc' = FALSE /\ af' = FALSE
  /\ IF st = "idle"
       THEN /\ trans' = TRUE
            /\ ctrl' = [ctrl EXCEPT !.start = FALSE]
            /\ st' = IF ctrl.start THEN IF trans THEN "restart" ELSE "start" ELSE "byte"
       ELSE UNCHANGED <<trans, ctrl, st>>
  /\ UNCHANGED <<rxbuffer, data, bus>>

\* SDA falls.  If the clock was held low it is let go in the same moment, and
\* the slave may well not see a START.
StartBit ==
  /\ st \in {"start", "restart"}
  /\ st' = "byte"
  /\ \/ slave' = "listen"
     \/ st = "restart" /\ UNCHANGED slave
  /\ UNCHANGED <<ctrl, tc, af, trans, txbuffer, rxbuffer, data, got, sent, refused, program>>

\* The flags and the data register at the end of a transfer.
Complete(rx) == tc' = TRUE /\ af' = rx.nack /\ data' = rx.byte

\* Mutant: the ninth bit is never sampled.
EndOfByteLow(byte, ack) ==
  LET rx == [byte |-> byte, nack |-> FALSE] IN
  /\ rxbuffer' = rx
  /\ IF ctrl.stop
       THEN st' = "stop" /\ UNCHANGED <<tc, af, data>>
       ELSE st' = "idle" /\ Complete(rx)
  /\ UNCHANGED <<ctrl, trans, txbuffer, program>>

\* Mutant: the ninth bit is the master's own.
EndOfByteOwn(byte, ack) ==
  LET rx == [byte |-> byte, nack |-> txbuffer.nack] IN
  /\ rxbuffer' = rx
  /\ IF ctrl.stop
       THEN st' = "stop" /\ UNCHANGED <<tc, af, data>>
       ELSE st' = "idle" /\ Complete(rx)
  /\ UNCHANGED <<ctrl, trans, txbuffer, program>>

\* Nine bits have passed: rx is on the bus, the last bit low if either side
\* pulled it down.
EndOfByte(byte, ack) ==
  LET rx == [byte |-> byte, nack |-> txbuffer.nack /\ ~ack] IN
  /\ rxbuffer' = rx
  /\ IF ctrl.stop
       THEN st' = "stop" /\ UNCHANGED <<tc, af, data>>
       ELSE st' = "idle" /\ Complete(rx)
  /\ UNCHANGED <<ctrl, trans, txbuffer, program>>

\* The slave hears its address, takes a byte or sends one.
Address ==
  /\ st = "byte" /\ slave = "listen"
  /\ LET mine == "to" \in DOMAIN txbuffer.byte /\ txbuffer.byte.to IN
       /\ slave' = IF ~mine THEN "off" ELSE IF txbuffer.byte.read THEN "read" ELSE "write"
       /\ refused' = (refused \/ ~mine)
       /\ EndOfByte(txbuffer.byte, mine)
  /\ UNCHANGED <<got, sent>>

Take ==
  /\ st = "byte" /\ slave = "write"
  /\ \/ /\ got' = Append(got, txbuffer.byte)
        /\ EndOfByte(txbuffer.byte, TRUE)
        /\ UNCHANGED <<slave, refused>>
     \/ /\ MayRefuse
        /\ slave' = "off" /\ refused' = TRUE
        /\ EndOfByte(txbuffer.byte, FALSE)
        /\ UNCHANGED got
  /\ UNCHANGED sent

Give ==
  /\ st = "byte" /\ slave = "read"
  /\ \E b \in Bytes :
       /\ sent' = Append(sent, Byte(b))
       /\ EndOfByte(Byte(b), FALSE)
  /\ slave' = IF txbuffer.nack THEN "off" ELSE slave
  /\ UNCHANGED <<got, refused>>

Nobody ==
  /\ st = "byte" /\ slave \in {"idle", "off"}
  /\ EndOfByte(txbuffer.byte, FALSE)
  /\ refused' = TRUE
  /\ UNCHANGED <<slave, got, sent>>

StopBit ==
  /\ st = "stop"
  /\ st' = "idle" /\ trans' = FALSE
  /\ ctrl' = [ctrl EXCEPT !.stop = FALSE, !.hardstop = FALSE]
  /\ Complete(rxbuffer)
  /\ slave' = "idle"
  /\ UNCHANGED <<txbuffer, rxbuffer, got, sent, refused, program>>

Master == HardStop \/ StartBit \/ Address \/ Take \/ Give \/ Nobody \/ StopBit

-----------------------------------------------------------------------------
(* The functions of the library; i is the byte they are at, 0 the address. *)

Begin ==
  /\ pc = "idle" /\ calls < MaxCalls
  /\ Patient => st = "idle" /\ Settled
  /\ call' \in Calls
  /\ calls' = calls + 1
  /\ i' = 0 /\ buf' = <<>> /\ ret' = "none"
  /\ got' = <<>> /\ sent' = <<>> /\ refused' = FALSE
  /\ pc' = "ctrl_read"
  /\ why' = IF call'.fn = "probe" THEN "START|STOP" ELSE "START"
  /\ UNCHANGED <<master, slave, tmp>>

Access(p) == pc = p /\ Settled
Keep == UNCHANGED <<call, calls, bus>>

\* CTRL |= x, CTRL &= ~x
ReadCtrl ==
  /\ Access("ctrl_read")
  /\ tmp' = ctrl
  /\ pc' = "ctrl_write"
  /\ Keep /\ UNCHANGED <<master, i, why, buf, ret>>

Modified == CASE why = "START"      -> [tmp EXCEPT !.start = TRUE]
              [] why = "START|STOP" -> [tmp EXCEPT !.start = TRUE, !.stop = TRUE]
              [] why = "STOP"       -> [tmp EXCEPT !.stop = TRUE]
              [] why = "HARDSTOP"   -> [tmp EXCEPT !.hardstop = TRUE]
              [] why = "MACK"       -> [tmp EXCEPT !.mack = TRUE]
              [] why = "~MACK"      -> [tmp EXCEPT !.mack = FALSE]

\* The loops set STOP for the last byte.
Return(r) == pc' = "idle" /\ ret' = r /\ UNCHANGED <<i, why>>
\* Mutant: no STOP for the last byte.
NextByteNoStop == i' = i + 1 /\ pc' = "data" /\ UNCHANGED <<why, ret>>

NextByte ==
  /\ i' = i + 1
  /\ IF i + 1 = call.len THEN pc' = "ctrl_read" /\ why' = "STOP"
                         ELSE pc' = "data" /\ UNCHANGED why
  /\ UNCHANGED ret

WriteCtrl ==
  /\ Access("ctrl_write")
  /\ ctrl' = Modified
  /\ \/ why = "HARDSTOP" /\ pc' = "stopwait" /\ UNCHANGED <<i, why, ret>>
     \/ why = "MACK" /\ NextByte
     \/ why = "~MACK" /\ Return("ok")
     \/ why \in {"START", "START|STOP", "STOP"} /\ pc' = "data" /\ UNCHANGED <<i, why, ret>>
  /\ tmp' = Idle
  /\ Keep /\ UNCHANGED <<tc, af, trans, st, txbuffer, rxbuffer, data, buf>>

Data ==
  /\ Access("data")
  /\ IF i = 0 THEN WriteData(AddressOf(call))
     ELSE IF call.fn = "receive" THEN WriteData(Dummy) /\ UNCHANGED buf
     ELSE \E b \in Bytes : WriteData(Byte(b)) /\ buf' = Append(buf, Byte(b))
  /\ i = 0 => UNCHANGED buf
  /\ pc' = "wait"
  /\ UNCHANGED <<call, calls, i, why, tmp, ret>>

PollTc ==
  /\ Access("wait") /\ tc
  /\ pc' = "result"
  /\ Keep /\ UNCHANGED <<master, i, why, tmp, buf, ret>>

Then(x) == pc' = "ctrl_read" /\ why' = x /\ UNCHANGED <<i, ret>>

\* STAT & I2C_AF, and what transmit, receive and probe make of it
ReadAf ==
  /\ Access("result") /\ (i = 0 \/ call.fn = "transmit")
  /\ \/ call.fn = "probe" /\ Return(IF af THEN "nack" ELSE "ok")
     \/ call.fn = "receive" /\ af /\ Return("nack")
     \/ call.fn = "receive" /\ ~af /\ Then("MACK")
     \/ call.fn = "transmit" /\ af /\ i < call.len /\ Then("HARDSTOP")
     \/ call.fn = "transmit" /\ af /\ i = call.len /\ Return("nack")
     \/ call.fn = "transmit" /\ ~af /\ i < call.len /\ NextByte
     \/ call.fn = "transmit" /\ ~af /\ i = call.len /\ Return("ok")
  /\ Keep /\ UNCHANGED <<master, tmp, buf>>

\* return DATA: reading it clears the flags
ReadData ==
  /\ Access("result") /\ i > 0 /\ call.fn = "receive"
  /\ buf' = Append(buf, data)
  /\ tc' = FALSE /\ af' = FALSE
  /\ IF i < call.len THEN NextByte ELSE Then("~MACK")
  /\ Keep /\ UNCHANGED <<ctrl, trans, st, txbuffer, rxbuffer, data, tmp>>

\* TC is still set from the byte that was not acknowledged.
PollStop ==
  /\ Access("stopwait") /\ tc
  /\ Return("nack")
  /\ Keep /\ UNCHANGED <<master, tmp, buf>>

Program == ReadCtrl \/ WriteCtrl \/ Data \/ PollTc \/ ReadAf \/ ReadData \/ PollStop

Next == Begin \/ Program \/ Master

Init ==
  /\ ctrl = Idle /\ tc = FALSE /\ af = FALSE /\ trans = FALSE /\ st = "idle"
  /\ txbuffer = [byte |-> None, nack |-> FALSE]
  /\ rxbuffer = [byte |-> None, nack |-> FALSE] /\ data = None
  /\ slave = "idle" /\ got = <<>> /\ sent = <<>> /\ refused = FALSE
  /\ pc = "idle" /\ call = [fn |-> "probe", there |-> TRUE, len |-> 1]
  /\ i = 0 /\ why = "START" /\ tmp = Idle /\ buf = <<>> /\ ret = "none" /\ calls = 0

\* The program runs, the master is clocked and the slave lets the clock go.
Spec == Init /\ [][Next]_vars /\ WF_vars(Program) /\ WF_vars(Master)

-----------------------------------------------------------------------------
(* Properties *)

\* The registers, the bus and the program keep to their values; the loops of
\* i2c1_transmit.c and i2c1_receive.c stop at the last byte.
TypeOK ==
  /\ {ctrl, tmp} \subseteq [start : BOOLEAN, stop : BOOLEAN, hardstop : BOOLEAN, mack : BOOLEAN]
  /\ {tc, af, trans, refused} \subseteq BOOLEAN
  /\ st \in {"idle", "start", "restart", "byte", "stop"}
  /\ txbuffer.nack \in BOOLEAN /\ rxbuffer.nack \in BOOLEAN
  /\ slave \in {"idle", "listen", "write", "read", "off"}
  /\ Len(got) <= MaxLen /\ Len(sent) <= MaxLen /\ Len(buf) <= MaxLen
  /\ pc \in {"idle", "ctrl_read", "ctrl_write", "data", "wait", "result", "stopwait"}
  /\ call \in Call /\ i \in 0 .. MaxLen /\ calls \in 0 .. MaxCalls
  /\ ret \in {"none", "ok", "nack"}

\* When i2c1_transmit returns 0 the slave has taken the buffer, every byte of it
\* once and in order, although STAT is read some time after the ninth bit.
TransmitDelivered ==
  pc = "idle" /\ ret = "ok" /\ call.fn = "transmit" => Len(got) = call.len /\ got = buf

\* When i2c1_receive returns 0 the buffer holds what the slave sent, and the
\* slave sent no byte that was not asked for.
ReceivedSent ==
  pc = "idle" /\ ret = "ok" /\ call.fn = "receive" => Len(sent) = call.len /\ buf = sent

\* When a function returns 0 the bytes have gone over, in either direction.
Delivered == TransmitDelivered /\ ReceivedSent

\* A function returns I2C_AF only when a byte of this very call was not
\* acknowledged: the flag it reads is not that of an earlier transfer.
NackMeansRefused == pc = "idle" /\ ret = "nack" => refused

\* Every call returns (its polling loops end) and the bus is given free, but
\* for a receive that found nobody, which sends no STOP.
BusFreed ==
  pc # "idle" ~> /\ pc = "idle"
                 /\ (~trans /\ slave = "idle") \/ (call.fn = "receive" /\ ret = "nack")

\* A slave that is there and refuses nothing is reached, whatever the call
\* before it met.
Reached == pc = "idle" /\ ret = "nack" => ~call.there
=============================================================================
