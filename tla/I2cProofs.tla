------------------------------ MODULE I2cProofs ------------------------------
(***************************************************************************)
(* Theorems about module I2c: a program that lets the master come to rest  *)
(* before the next call gets every byte across and is told the truth, for  *)
(* every sequence of calls, buffer length and pattern of refused bytes.    *)
(***************************************************************************)
EXTENDS I2c, SequenceTheorems, TLAPS

\* What may be in a buffer or on the bus.
Octets == {None, Dummy} \cup {Byte(b) : b \in Bytes} \cup {AddressOf(c) : c \in Call}

\* CTRL when no hard stop is asked for.
Control(start, stop, mack) ==
  ctrl = [start |-> start, stop |-> stop, hardstop |-> FALSE, mack |-> mack]

Deaf == slave \in {"idle", "off"}
Nothing == buf = <<>> /\ got = <<>> /\ sent = <<>>

Booleans ==
  refused \in BOOLEAN /\ af \in BOOLEAN /\ txbuffer.nack \in BOOLEAN /\ rxbuffer.nack \in BOOLEAN

Contents ==
  /\ buf \in Seq(Octets) /\ got \in Seq(Octets) /\ sent \in Seq(Octets)
  /\ txbuffer.byte \in Octets /\ rxbuffer.byte \in Octets /\ data \in Octets
  /\ call \in Call /\ i \in Nat

-----------------------------------------------------------------------------
(* The stages of a call.  At every moment one of them holds.               *)

\* The master at rest, or still sending the STOP of the call before.
StopAsked == [start |-> FALSE, stop |-> FALSE, hardstop |-> TRUE, mack |-> FALSE]
AtRest ==
  \/ st \in {"idle", "stop"} /\ ctrl = StopAsked
  \/ st = "idle" /\ ctrl = Idle

\* No call, or the last one has returned.
Resting ==
  /\ pc = "idle" /\ AtRest /\ Deaf
  /\ Delivered /\ NackMeansRefused

\* i2c1_transmit and the others set START.
SettingStart ==
  /\ pc \in {"ctrl_read", "ctrl_write"} /\ (pc = "ctrl_write" => tmp = ctrl)
  /\ why = (IF call.fn = "probe" THEN "START|STOP" ELSE "START")
  /\ i = 0 /\ Nothing /\ ~refused
  /\ st = "idle" /\ Control(FALSE, FALSE, FALSE) /\ Deaf

\* The address is about to be written to DATA.
WritingAddress ==
  /\ pc = "data" /\ i = 0 /\ Nothing /\ ~refused
  /\ st = "idle" /\ Control(TRUE, call.fn = "probe", FALSE) /\ Deaf

\* The address is on its way; a probe sends STOP behind it.
SendingAddress ==
  /\ pc = "wait" /\ ~tc /\ i = 0 /\ Nothing
  /\ Control(FALSE, call.fn = "probe", FALSE)
  /\ txbuffer = [byte |-> AddressOf(call), nack |-> TRUE]
  /\ \/ st \in {"start", "restart"} /\ Deaf /\ ~refused
     \/ st = "byte" /\ (Deaf \/ slave = "listen") /\ ~refused
     \/ st = "stop" /\ call.fn = "probe" /\ (rxbuffer.nack <=> refused)

Answered == IF call.fn = "receive" THEN slave = "read" ELSE slave = "write"

\* The address has been answered.
AddressSent ==
  /\ pc \in {"wait", "result"} /\ tc /\ i = 0 /\ Nothing
  /\ st = "idle" /\ Control(FALSE, FALSE, FALSE)
  /\ (af <=> refused)
  /\ IF call.fn = "probe" \/ refused THEN Deaf ELSE Answered

\* A refused byte of i2c1_transmit that is not the last: a hard stop is set...
SettingHardstop ==
  /\ pc \in {"ctrl_read", "ctrl_write"} /\ (pc = "ctrl_write" => tmp = ctrl)
  /\ why = "HARDSTOP" /\ refused
  /\ st = "idle" /\ Control(FALSE, FALSE, FALSE) /\ Deaf

\* ...and waited for, though TC is set already.
Stopping == pc = "stopwait" /\ refused /\ AtRest /\ Deaf

\* i2c1_receive sets MACK after the address.
SettingMack ==
  /\ pc \in {"ctrl_read", "ctrl_write"} /\ (pc = "ctrl_write" => tmp = ctrl)
  /\ why = "MACK" /\ call.fn = "receive" /\ i = 0 /\ Nothing /\ ~refused
  /\ st = "idle" /\ Control(FALSE, FALSE, FALSE) /\ slave = "read"

\* i - 1 bytes have gone over and one more is to go.
Halfway ==
  /\ call.fn # "probe" /\ i > 0 /\ i <= call.len /\ ~refused /\ Answered
  /\ Len(buf) = i - 1
  /\ buf = IF call.fn = "receive" THEN sent ELSE got

\* STOP is set before the last byte.
SettingStop ==
  /\ pc \in {"ctrl_read", "ctrl_write"} /\ (pc = "ctrl_write" => tmp = ctrl)
  /\ why = "STOP" /\ i = call.len /\ Halfway
  /\ st = "idle" /\ Control(FALSE, FALSE, call.fn = "receive")

WritingByte ==
  /\ pc = "data" /\ Halfway
  /\ st = "idle" /\ Control(FALSE, i = call.len, call.fn = "receive")

\* A byte is on its way; behind the last one follows a STOP.
Sending ==
  /\ call.fn = "transmit" /\ Len(buf) = i /\ txbuffer.nack
  /\ \/ st = "byte" /\ slave = "write" /\ ~refused /\ buf = Append(got, txbuffer.byte)
     \/ st = "stop" /\ i = call.len /\ (rxbuffer.nack <=> refused) /\ (~refused => buf = got)

Receiving ==
  /\ call.fn = "receive" /\ Len(buf) = i - 1 /\ (txbuffer.nack <=> i = call.len) /\ ~refused
  /\ \/ st = "byte" /\ slave = "read" /\ buf = sent
     \/ st = "stop" /\ i = call.len /\ sent = Append(buf, rxbuffer.byte)

ByteOnBus ==
  /\ pc = "wait" /\ ~tc /\ i > 0 /\ i <= call.len
  /\ Control(FALSE, i = call.len, call.fn = "receive")
  /\ Sending \/ Receiving

\* The byte has gone over; after the last one the bus is free.
Sent ==
  /\ call.fn = "transmit" /\ Len(buf) = i /\ (af <=> refused)
  /\ ~refused => buf = got
  /\ refused \/ i = call.len => Deaf
  /\ ~refused /\ i < call.len => slave = "write"

Received ==
  /\ call.fn = "receive" /\ Len(buf) = i - 1 /\ sent = Append(buf, data) /\ ~refused
  /\ slave = (IF i = call.len THEN "idle" ELSE "read")

ByteDone ==
  /\ pc \in {"wait", "result"} /\ tc /\ i > 0 /\ i <= call.len
  /\ st = "idle" /\ Control(FALSE, FALSE, call.fn = "receive")
  /\ Sent \/ Received

\* i2c1_receive clears MACK before it returns.
ClearingMack ==
  /\ pc \in {"ctrl_read", "ctrl_write"} /\ (pc = "ctrl_write" => tmp = ctrl)
  /\ why = "~MACK" /\ call.fn = "receive"
  /\ Len(sent) = call.len /\ buf = sent
  /\ st = "idle" /\ Control(FALSE, FALSE, TRUE) /\ Deaf

Stage ==
  \/ Resting \/ SettingStart \/ WritingAddress \/ SendingAddress \/ AddressSent
  \/ SettingHardstop \/ Stopping \/ SettingMack \/ SettingStop \/ WritingByte
  \/ ByteOnBus \/ ByteDone \/ ClearingMack

CallInv == Booleans /\ Contents /\ Stage
-----------------------------------------------------------------------------
(* Values *)

\* The octets are closed under what is sent.
LEMMA OctetsOf ==
  /\ None \in Octets /\ Dummy \in Octets
  /\ \A b \in Bytes : Byte(b) \in Octets
  /\ \A c \in Call : AddressOf(c) \in Octets
BY DEF Octets

\* A call has a function and at least one byte.
LEMMA CallIs ==
  ASSUME NEW c \in Call
  PROVE  /\ c.fn \in {"transmit", "receive", "probe"} /\ c.there \in BOOLEAN
         /\ c.len \in Nat /\ c.len > 0
BY I2cAssumption DEF Call

\* A slave is addressed if it is there.
LEMMA AddressIs ==
  ASSUME NEW c \in Call
  PROVE  /\ ("to" \in DOMAIN AddressOf(c) /\ AddressOf(c).to) = c.there
         /\ AddressOf(c).read = (c.fn = "receive")
BY CallIs DEF AddressOf

\* The read-modify-write of CTRL changes one field, START|STOP two.
LEMMA ModifiedIs ==
  ASSUME NEW a, NEW b, NEW m,
         tmp = [start |-> a, stop |-> b, hardstop |-> FALSE, mack |-> m]
  PROVE  /\ why = "START" =>
              Modified = [start |-> TRUE, stop |-> b, hardstop |-> FALSE, mack |-> m]
         /\ why = "START|STOP" =>
              Modified = [start |-> TRUE, stop |-> TRUE, hardstop |-> FALSE, mack |-> m]
         /\ why = "STOP" =>
              Modified = [start |-> a, stop |-> TRUE, hardstop |-> FALSE, mack |-> m]
         /\ why = "HARDSTOP" =>
              Modified = [start |-> a, stop |-> b, hardstop |-> TRUE, mack |-> m]
         /\ why = "MACK" =>
              Modified = [start |-> a, stop |-> b, hardstop |-> FALSE, mack |-> TRUE]
         /\ why = "~MACK" =>
              Modified = [start |-> a, stop |-> b, hardstop |-> FALSE, mack |-> FALSE]
BY DEF Modified

\* Which action a state allows.
LEMMA Steps ==
  ASSUME Next
  PROVE  \/ pc = "idle" /\ Begin
         \/ pc = "ctrl_read" /\ ReadCtrl
         \/ pc = "ctrl_write" /\ WriteCtrl
         \/ pc = "data" /\ Data
         \/ pc = "wait" /\ tc /\ PollTc
         \/ pc = "result" /\ ReadAf
         \/ pc = "result" /\ ReadData
         \/ pc = "stopwait" /\ PollStop
         \/ st = "idle" /\ ctrl.hardstop /\ HardStop
         \/ st \in {"start", "restart"} /\ StartBit
         \/ st = "byte" /\ slave = "listen" /\ Address
         \/ st = "byte" /\ slave = "write" /\ Take
         \/ st = "byte" /\ slave = "read" /\ Give
         \/ st = "byte" /\ slave \in {"idle", "off"} /\ Nobody
         \/ st = "stop" /\ StopBit
<1>1. CASE Begin
  BY <1>1 DEF Begin
<1>2. CASE Program
  <2>1. ReadCtrl => pc = "ctrl_read"
    BY DEF ReadCtrl, Access
  <2>2. WriteCtrl => pc = "ctrl_write"
    BY DEF WriteCtrl, Access
  <2>3. Data => pc = "data"
    BY DEF Data, Access
  <2>4. PollTc => pc = "wait" /\ tc
    BY DEF PollTc, Access
  <2>5. (ReadAf => pc = "result") /\ (ReadData => pc = "result")
    BY DEF ReadAf, ReadData, Access
  <2>6. PollStop => pc = "stopwait"
    BY DEF PollStop, Access
  <2> QED
    BY <1>2, <2>1, <2>2, <2>3, <2>4, <2>5, <2>6 DEF Program
<1>3. CASE Master
  <2>1. HardStop => st = "idle" /\ ctrl.hardstop
    BY DEF HardStop
  <2>2. (StartBit => st \in {"start", "restart"}) /\ (StopBit => st = "stop")
    BY DEF StartBit, StopBit
  <2>3. /\ Address => st = "byte" /\ slave = "listen"
        /\ Take => st = "byte" /\ slave = "write"
    BY DEF Address, Take
  <2>4. /\ Give => st = "byte" /\ slave = "read"
        /\ Nobody => st = "byte" /\ slave \in {"idle", "off"}
    BY DEF Give, Nobody
  <2> QED
    BY <1>3, <2>1, <2>2, <2>3, <2>4 DEF Master
<1> QED
  BY <1>1, <1>2, <1>3 DEF Next

\* What a write of DATA leaves for the ninth bit and in STAT.
LEMMA WriteDataIs ==
  ASSUME NEW byte, WriteData(byte)
  PROVE  /\ txbuffer'.byte = byte /\ txbuffer'.nack \in BOOLEAN
         /\ txbuffer'.nack <=> ctrl.start \/ ctrl.stop \/ ~ctrl.mack
         /\ ~tc' /\ ~af' /\ af' \in BOOLEAN
         /\ UNCHANGED <<rxbuffer, data, slave, got, sent, refused>>
<1>1. txbuffer' = [byte |-> byte, nack |-> ctrl.start \/ ctrl.stop \/ ~ctrl.mack]
  BY DEF WriteData
<1>2. txbuffer'.byte = byte
  BY <1>1
<1>3. txbuffer'.nack = (ctrl.start \/ ctrl.stop \/ ~ctrl.mack)
  BY <1>1, Zenon
<1>4. txbuffer'.nack \in BOOLEAN
  BY <1>3, Zenon
<1>5. txbuffer'.nack <=> ctrl.start \/ ctrl.stop \/ ~ctrl.mack
  BY <1>3, Zenon
<1>6. ~tc' /\ ~af' /\ af' \in BOOLEAN
  BY DEF WriteData
<1>7. UNCHANGED <<rxbuffer, data, slave, got, sent, refused>>
  BY DEF WriteData, bus
<1> QED
  BY <1>2, <1>4, <1>5, <1>6, <1>7

\* What the ninth bit leaves in the receive buffer and, without a STOP, in STAT.
LEMMA EndOfByteIs ==
  ASSUME Booleans, NEW byte, NEW ack \in BOOLEAN, EndOfByte(byte, ack)
  PROVE  /\ rxbuffer'.byte = byte /\ rxbuffer'.nack \in BOOLEAN
         /\ rxbuffer'.nack <=> txbuffer.nack /\ ~ack
         /\ ctrl.stop => st' = "stop" /\ UNCHANGED <<tc, af, data>>
         /\ ~ctrl.stop => st' = "idle" /\ tc' /\ (af' <=> txbuffer.nack /\ ~ack) /\ af' \in BOOLEAN
                          /\ data' = byte
         /\ UNCHANGED <<ctrl, txbuffer, program>>
<1> DEFINE rx == [byte |-> byte, nack |-> txbuffer.nack /\ ~ack]
<1>1. rx.byte = byte
  OBVIOUS
<1>2. rx.nack = (txbuffer.nack /\ ~ack)
  BY Zenon
<1>3. rx.nack \in BOOLEAN /\ (rx.nack <=> txbuffer.nack /\ ~ack)
  BY <1>2, Zenon
<1> HIDE DEF rx
<1>4. rxbuffer' = rx
  BY DEF EndOfByte, rx
<1>5. ctrl.stop => st' = "stop" /\ UNCHANGED <<tc, af, data>>
  BY DEF EndOfByte
<1>6. ~ctrl.stop => st' = "idle" /\ tc' = TRUE /\ af' = rx.nack /\ data' = rx.byte
  BY DEF EndOfByte, Complete, rx
<1>7. UNCHANGED <<ctrl, txbuffer, program>>
  BY DEF EndOfByte
<1>8. ~ctrl.stop => tc' /\ (af' <=> txbuffer.nack /\ ~ack) /\ af' \in BOOLEAN
  BY <1>3, <1>6, Zenon
<1> QED
  BY <1>1, <1>3, <1>4, <1>5, <1>6, <1>7, <1>8
-----------------------------------------------------------------------------
(* Types *)

\* Every step keeps the types of the answers...
LEMMA NextBooleans == ASSUME Booleans, Next PROVE Booleans'
<1>1. CASE Begin
  BY <1>1 DEF Begin, Booleans, master
<1>2. CASE ReadCtrl \/ PollTc \/ PollStop \/ ReadAf
  BY <1>2 DEF ReadCtrl, PollTc, PollStop, ReadAf, Keep, Booleans, master, bus
<1>3. CASE WriteCtrl \/ ReadData
  BY <1>3 DEF WriteCtrl, ReadData, Keep, Booleans, bus
<1>4. CASE Data
  <2>1. PICK byte : WriteData(byte)
    BY <1>4 DEF Data
  <2> QED
    BY <2>1, WriteDataIs DEF Booleans
<1>5. CASE HardStop \/ StartBit
  BY <1>5 DEF HardStop, StartBit, Booleans, bus
<1>6. CASE Address \/ Take \/ Give \/ Nobody
  <2>a. Address => \E byte : \E ack \in BOOLEAN : EndOfByte(byte, ack)
    BY Zenon DEF Address
  <2>t. Take \/ Nobody => \E byte : \E ack \in BOOLEAN : EndOfByte(byte, ack)
    BY Zenon DEF Take, Nobody
  <2>g. Give => \E byte : \E ack \in BOOLEAN : EndOfByte(byte, ack)
    BY Zenon DEF Give
  <2>1. PICK byte : \E ack \in BOOLEAN : EndOfByte(byte, ack)
    BY <1>6, <2>a, <2>t, <2>g
  <2>2. (rxbuffer'.nack \in BOOLEAN) /\ (af' \in BOOLEAN) /\ txbuffer' = txbuffer
    BY <2>1, EndOfByteIs DEF Booleans
  <2>3. refused' \in BOOLEAN
    <3>1. Address => refused' = (refused \/ ~("to" \in DOMAIN txbuffer.byte /\ txbuffer.byte.to))
      BY DEF Address
    <3>2. Address => refused' \in BOOLEAN
      BY <3>1, Zenon
    <3> QED
      BY <1>6, <3>2 DEF Take, Give, Nobody, Booleans
  <2> QED
    BY <2>2, <2>3 DEF Booleans
<1>7. CASE StopBit
  BY <1>7 DEF StopBit, Complete, Booleans
<1> QED
  BY <1>1, <1>2, <1>3, <1>4, <1>5, <1>6, <1>7 DEF Next, Program, Master

\* ...and of what goes over the bus.
LEMMA NextContents == ASSUME Booleans, Contents, Next PROVE Contents'
<1>1. CASE Begin
  <2>1. call' \in Call
    BY <1>1, I2cAssumption DEF Begin
  <2> QED
    BY <1>1, <2>1 DEF Begin, Contents, master
<1>2. CASE ReadCtrl \/ PollTc \/ PollStop
  BY <1>2 DEF ReadCtrl, PollTc, PollStop, Return, Keep, Contents, master, bus
<1>3. CASE WriteCtrl
  BY <1>3 DEF WriteCtrl, NextByte, Return, Keep, Contents, bus
<1>4. CASE Data
  <2>1. PICK byte \in Octets : /\ WriteData(byte)
                               /\ buf' = buf \/ buf' = Append(buf, byte)
    BY <1>4, OctetsOf, Zenon DEF Data, Contents
  <2>2. txbuffer'.byte = byte /\ UNCHANGED <<rxbuffer, data, got, sent>>
    BY <2>1, WriteDataIs
  <2>3. buf' \in Seq(Octets)
    BY <2>1 DEF Contents
  <2> QED
    BY <1>4, <2>1, <2>2, <2>3 DEF Data, Contents
<1>5. CASE ReadAf
  BY <1>5 DEF ReadAf, NextByte, Return, Then, Keep, Contents, master, bus
<1>6. CASE ReadData
  BY <1>6 DEF ReadData, NextByte, Then, Keep, Contents, bus
<1>7. CASE HardStop \/ StartBit
  BY <1>7 DEF HardStop, StartBit, Contents, bus, program
<1>8. CASE Address \/ Take \/ Nobody
  <2>1. PICK ack \in BOOLEAN : EndOfByte(txbuffer.byte, ack)
    BY <1>8, Zenon DEF Address, Take, Nobody
  <2>2. rxbuffer'.byte = txbuffer.byte /\ (data' = data \/ data' = txbuffer.byte)
        /\ UNCHANGED <<txbuffer, program>>
    BY <2>1, EndOfByteIs
  <2>3. sent' = sent /\ (got' = got \/ got' = Append(got, txbuffer.byte))
    BY <1>8 DEF Address, Take, Nobody
  <2>4. got \in Seq(Octets) /\ txbuffer.byte \in Octets
    BY DEF Contents
  <2>5. got' \in Seq(Octets)
    BY <2>3, <2>4, AppendProperties
  <2> QED
    BY <2>2, <2>3, <2>5 DEF Contents, program
<1>9. CASE Give
  BY <1>9, OctetsOf DEF Give, EndOfByte, Complete, Contents, program
<1>10. CASE StopBit
  BY <1>10 DEF StopBit, Complete, Contents, program
<1> QED
  BY <1>1, <1>2, <1>3, <1>4, <1>5, <1>6, <1>7, <1>8, <1>9, <1>10 DEF Next, Program, Master

-----------------------------------------------------------------------------
(* From stage to stage *)

\* The master comes to rest, or the program begins a call: it waits for that.
LEMMA RestingStep ==
  ASSUME Patient, Resting, Next
  PROVE  Resting' \/ SettingStart'
<1>1. \/ Begin
      \/ st = "idle" /\ ctrl.hardstop /\ HardStop
      \/ st = "stop" /\ StopBit
  BY Steps DEF Resting, AtRest
<1>2. CASE Begin
  <2>1. st = "idle" /\ ~ctrl.hardstop
    BY <1>2 DEF Begin, Settled
  <2>2. ctrl = Idle
    BY <2>1 DEF Resting, AtRest, StopAsked, Idle
  <2> QED
    BY <1>2, <2>1, <2>2
       DEF Begin, Resting, SettingStart, Control, Nothing, Deaf, Idle, master
<1>3. CASE st = "idle" /\ ctrl.hardstop /\ HardStop
  <2>1. ctrl = StopAsked
    BY <1>3 DEF Resting, AtRest, StopAsked, Idle
  <2> QED
    BY <1>3, <2>1 DEF HardStop, Resting, AtRest, Deaf, Delivered, TransmitDelivered,
                      ReceivedSent, NackMeansRefused, bus, program
<1>4. CASE st = "stop" /\ StopBit
  <2>1. ctrl = StopAsked
    BY <1>4 DEF Resting, AtRest
  <2>2. ctrl' = Idle
    BY <1>4, <2>1 DEF StopBit, StopAsked, Idle
  <2> QED
    BY <1>4, <2>2 DEF StopBit, Resting, AtRest, Deaf, Delivered, TransmitDelivered,
                      ReceivedSent, NackMeansRefused, program
<1> QED
  BY <1>1, <1>2, <1>3, <1>4

\* At rest no action of the master is enabled.
LEMMA ProgramOnly ==
  ASSUME Next, st = "idle", pc # "idle", NEW a, NEW b, NEW m, Control(a, b, m)
  PROVE  \/ pc = "ctrl_read" /\ ReadCtrl
         \/ pc = "ctrl_write" /\ WriteCtrl
         \/ pc = "data" /\ Data
         \/ pc = "wait" /\ tc /\ PollTc
         \/ pc = "result" /\ ReadAf
         \/ pc = "result" /\ ReadData
         \/ pc = "stopwait" /\ PollStop
BY Steps DEF Control

\* Reading CTRL.
LEMMA ReadIs ==
  ASSUME ReadCtrl
  PROVE  pc' = "ctrl_write" /\ tmp' = ctrl /\ UNCHANGED <<master, bus, call, i, why, buf, ret>>
BY DEF ReadCtrl, Keep

\* Writing it back.
LEMMA WriteIs ==
  ASSUME WriteCtrl, NEW a, NEW b, NEW m, Control(a, b, m), tmp = ctrl
  PROVE  /\ why = "START" => Control(TRUE, b, m)'
         /\ why = "START|STOP" => Control(TRUE, TRUE, m)'
         /\ why = "STOP" => Control(a, TRUE, m)'
         /\ why = "MACK" => Control(a, b, TRUE)'
         /\ why = "~MACK" => Control(a, b, FALSE)'
         /\ why = "HARDSTOP" =>
              ctrl' = [start |-> a, stop |-> b, hardstop |-> TRUE, mack |-> m]
         /\ UNCHANGED <<tc, af, st, txbuffer, rxbuffer, data, buf, call, slave, got, sent, refused>>
<1>1. ctrl' = Modified
  BY DEF WriteCtrl
<1>2. UNCHANGED <<tc, af, st, txbuffer, rxbuffer, data, buf, call, slave, got, sent, refused>>
  BY DEF WriteCtrl, Keep, bus
<1> QED
  BY <1>1, <1>2, ModifiedIs DEF Control

\* START is set.
LEMMA SettingStartStep ==
  ASSUME SettingStart, Next
  PROVE  SettingStart' \/ WritingAddress'
<1>1. (pc = "ctrl_read" /\ ReadCtrl) \/ (pc = "ctrl_write" /\ WriteCtrl)
  BY ProgramOnly DEF SettingStart
<1>2. CASE pc = "ctrl_read" /\ ReadCtrl
  BY <1>2, ReadIs DEF SettingStart, Control, Nothing, Deaf, master, bus
<1>3. CASE pc = "ctrl_write" /\ WriteCtrl
  <2>1. UNCHANGED <<st, buf, call, slave, got, sent, refused>>
    BY <1>3, WriteIs DEF SettingStart
  <2>2. pc' = "data" /\ i' = i
    BY <1>3 DEF WriteCtrl, SettingStart
  <2>3. CASE call.fn = "probe"
    <3>1. Control(TRUE, TRUE, FALSE)'
      BY <1>3, <2>3, WriteIs DEF SettingStart
    <3> QED
      BY <2>1, <2>2, <2>3, <3>1 DEF SettingStart, WritingAddress, Nothing, Deaf, Control
  <2>4. CASE call.fn # "probe"
    <3>1. Control(TRUE, FALSE, FALSE)'
      BY <1>3, <2>4, WriteIs DEF SettingStart
    <3> QED
      BY <2>1, <2>2, <2>4, <3>1 DEF SettingStart, WritingAddress, Nothing, Deaf, Control
  <2> QED
    BY <2>3, <2>4
<1> QED
  BY <1>1, <1>2, <1>3

\* The address is written to DATA.
LEMMA WritingAddressStep ==
  ASSUME WritingAddress, Next
  PROVE  SendingAddress'
<1>1. Data
  BY ProgramOnly DEF WritingAddress
<1>2. /\ WriteData(AddressOf(call)) /\ pc' = "wait"
      /\ UNCHANGED <<buf, call, i>>
  BY <1>1 DEF Data, WritingAddress
<1>3. /\ ~tc' /\ txbuffer'.byte = AddressOf(call) /\ UNCHANGED <<slave, got, sent, refused>>
  BY <1>2, WriteDataIs
<1>4. txbuffer' = [byte |-> AddressOf(call), nack |-> TRUE]
  BY <1>2 DEF WriteData, WritingAddress, Control
<1>5. st' \in {"start", "restart"}
  BY <1>2 DEF WriteData, WritingAddress, Control
<1>6. Control(FALSE, call.fn = "probe", FALSE)'
  BY <1>2 DEF WriteData, WritingAddress, Control
<1> QED
  BY <1>2, <1>3, <1>4, <1>5, <1>6 DEF WritingAddress, SendingAddress, Nothing, Deaf
\* The address goes over and is acknowledged or not.
LEMMA SendingAddressStep ==
  ASSUME Booleans, Contents, SendingAddress, Next
  PROVE  SendingAddress' \/ AddressSent'
<1>1. \/ st \in {"start", "restart"} /\ StartBit
      \/ st = "byte" /\ slave = "listen" /\ Address
      \/ st = "byte" /\ slave \in {"idle", "off"} /\ Nobody
      \/ st = "stop" /\ StopBit
  BY Steps DEF SendingAddress, Deaf
<1>c. call \in Call
  BY DEF Contents
<1>p. (call.fn = "probe") \in BOOLEAN /\ (ctrl.stop <=> call.fn = "probe")
  <2>1. ctrl.stop = (call.fn = "probe")
    BY DEF SendingAddress, Control
  <2> QED
    BY <2>1
<1>t. txbuffer.byte = AddressOf(call) /\ txbuffer.nack
  BY DEF SendingAddress
<1>2. CASE st \in {"start", "restart"} /\ StartBit
  BY <1>2 DEF StartBit, SendingAddress, Control, Nothing, Deaf, program
<1>3. CASE st = "byte" /\ (\/ slave = "listen" /\ Address
                           \/ slave \in {"idle", "off"} /\ Nobody)
  <2>1. PICK ack \in BOOLEAN :
          /\ EndOfByte(txbuffer.byte, ack)
          /\ refused' <=> ~ack
          /\ IF ack THEN IF call.fn = "receive" THEN slave' = "read" ELSE slave' = "write"
                    ELSE slave' \in {"idle", "off"}
    <3>1. CASE Nobody
      BY <1>3, <3>1 DEF Nobody
    <3>2. CASE Address
      <4>1. ("to" \in DOMAIN txbuffer.byte /\ txbuffer.byte.to) = call.there
            /\ txbuffer.byte.read = (call.fn = "receive") /\ call.there \in BOOLEAN
        BY <1>c, <1>t, AddressIs, CallIs
      <4>2. EndOfByte(txbuffer.byte, call.there)
        BY <3>2, <4>1, Zenon DEF Address
      <4>3. slave' = IF ~call.there THEN "off"
                     ELSE IF call.fn = "receive" THEN "read" ELSE "write"
        BY <3>2, <4>1, Zenon DEF Address
      <4>4. refused' = (refused \/ ~call.there)
        BY <3>2, <4>1, Zenon DEF Address
      <4>5. ~refused
        BY <1>3 DEF SendingAddress
      <4>6. refused' <=> ~call.there
        BY <4>4, <4>5
      <4> QED
        BY <4>1, <4>2, <4>3, <4>6
    <3> QED
      BY <1>3, <3>1, <3>2
  <2>2. /\ rxbuffer'.nack <=> ~ack
        /\ ctrl.stop => st' = "stop" /\ UNCHANGED <<tc, af, data>>
        /\ ~ctrl.stop => st' = "idle" /\ tc' /\ (af' <=> ~ack)
        /\ UNCHANGED <<ctrl, txbuffer, program>>
    BY <2>1, <1>t, EndOfByteIs
  <2>3. UNCHANGED <<got, sent>>
    BY <1>3 DEF Address, Nobody
  <2>4. CASE call.fn = "probe"
    BY <2>1, <2>2, <2>3, <2>4, <1>p DEF SendingAddress, Control, Nothing, program
  <2>5. CASE call.fn # "probe"
    BY <2>1, <2>2, <2>3, <2>5, <1>p
       DEF SendingAddress, AddressSent, Answered, Deaf, Control, Nothing, program
  <2> QED
    BY <2>4, <2>5
<1>4. CASE st = "stop" /\ StopBit
  <2>1. call.fn = "probe" /\ (rxbuffer.nack <=> refused)
    BY <1>4 DEF SendingAddress
  <2>2. /\ st' = "idle" /\ slave' = "idle" /\ tc' /\ af' = rxbuffer.nack
        /\ UNCHANGED <<got, sent, refused, program>>
    BY <1>4 DEF StopBit, Complete
  <2>3. Control(FALSE, FALSE, FALSE)'
    BY <1>4 DEF StopBit, SendingAddress, Control
  <2> QED
    BY <2>1, <2>2, <2>3 DEF SendingAddress, AddressSent, Deaf, Nothing, program
<1> QED
  BY <1>1, <1>2, <1>3, <1>4

\* The function sees the answer: it returns, or goes on to the first byte.
LEMMA AddressSentStep ==
  ASSUME Contents, AddressSent, Next
  PROVE  Resting' \/ AddressSent' \/ SettingHardstop' \/ SettingMack' \/ SettingStop' \/ WritingByte'
<1>1. (pc = "wait" /\ PollTc) \/ (pc = "result" /\ (ReadAf \/ ReadData))
  BY ProgramOnly DEF AddressSent
<1>c. call \in Call /\ call.len \in Nat /\ call.len > 0
      /\ call.fn \in {"transmit", "receive", "probe"}
  BY CallIs DEF Contents
<1>2. CASE pc = "wait" /\ PollTc
  BY <1>2 DEF PollTc, AddressSent, Answered, Deaf, Control, Nothing, Keep, master, bus
<1>3. CASE pc = "result" /\ ReadAf
  <2>1. i = 0 /\ Nothing /\ st = "idle" /\ (af <=> refused) /\ Control(FALSE, FALSE, FALSE)
    BY DEF AddressSent
  <2>2. UNCHANGED <<st, ctrl, slave, got, sent, refused, buf, call, tmp>>
    BY <1>3 DEF ReadAf, Keep, master, bus
  <2>3. CASE call.fn = "probe" \/ (call.fn = "receive" /\ af)
    <3>1. pc' = "idle" /\ (ret' = "ok" => call.fn = "probe") /\ (ret' = "nack" => refused)
      BY <1>3, <2>1, <2>3 DEF ReadAf, Return
    <3>2. Deaf /\ ctrl = Idle
      BY <2>1, <2>3 DEF AddressSent, Control, Idle
    <3> QED
      BY <2>1, <2>2, <2>3, <3>1, <3>2
         DEF Resting, AtRest, Deaf, Delivered, TransmitDelivered, ReceivedSent, NackMeansRefused
  <2>4. CASE call.fn = "receive" /\ ~af
    <3>1. pc' = "ctrl_read" /\ why' = "MACK" /\ i' = i
      BY <1>3, <2>4 DEF ReadAf, Then
    <3>2. slave = "read" /\ ~refused
      BY <2>1, <2>4 DEF AddressSent, Answered
    <3> QED
      BY <2>1, <2>2, <2>4, <3>1, <3>2 DEF SettingMack, Control, Nothing
  <2>5. CASE call.fn = "transmit" /\ af
    <3>1. pc' = "ctrl_read" /\ why' = "HARDSTOP"
      BY <1>3, <2>1, <2>5, <1>c DEF ReadAf, Then
    <3>2. Deaf /\ refused
      BY <2>1, <2>5 DEF AddressSent
    <3> QED
      BY <2>1, <2>2, <3>1, <3>2 DEF SettingHardstop, Control, Deaf
  <2>6. CASE call.fn = "transmit" /\ ~af
    <3>1. NextByte
      BY <1>3, <2>1, <2>6, <1>c DEF ReadAf
    <3>2. slave = "write" /\ ~refused
      BY <2>1, <2>6 DEF AddressSent, Answered
    <3>3. Halfway'
      BY <2>1, <2>2, <2>6, <3>1, <3>2, <1>c DEF Halfway, Answered, NextByte, Nothing
    <3>4. st' = "idle" /\ Control(FALSE, FALSE, FALSE)'
      BY <2>1, <2>2 DEF Control
    <3>5. call.fn # "receive" /\ call.len = call.len' /\ call'.fn # "receive"
      BY <2>6, <2>2
    <3>6. CASE i + 1 = call.len
      BY <3>1, <3>3, <3>4, <3>5, <3>6 DEF NextByte, SettingStop, Control
    <3>7. CASE i + 1 # call.len
      BY <3>1, <3>3, <3>4, <3>5, <3>7 DEF NextByte, WritingByte, Control
    <3> QED
      BY <3>6, <3>7
  <2> QED
    BY <2>3, <2>4, <2>5, <2>6, <1>c
<1>4. ~ReadData
  BY DEF AddressSent, ReadData
<1> QED
  BY <1>1, <1>2, <1>3, <1>4

\* The hard stop is set.
LEMMA SettingHardstopStep ==
  ASSUME SettingHardstop, Next
  PROVE  SettingHardstop' \/ Stopping'
<1>1. (pc = "ctrl_read" /\ ReadCtrl) \/ (pc = "ctrl_write" /\ WriteCtrl)
  BY ProgramOnly DEF SettingHardstop
<1>2. CASE pc = "ctrl_read" /\ ReadCtrl
  BY <1>2, ReadIs DEF SettingHardstop, Control, Deaf, master, bus
<1>3. CASE pc = "ctrl_write" /\ WriteCtrl
  <2>1. UNCHANGED <<st, slave, refused>>
    BY <1>3, WriteIs DEF SettingHardstop
  <2>2. pc' = "stopwait"
    BY <1>3 DEF WriteCtrl, SettingHardstop
  <2>3. ctrl' = [start |-> FALSE, stop |-> FALSE, hardstop |-> TRUE, mack |-> FALSE]
    BY <1>3, WriteIs DEF SettingHardstop
  <2>4. ctrl' = StopAsked
    BY <2>3 DEF StopAsked
  <2> QED
    BY <2>1, <2>2, <2>4 DEF SettingHardstop, Stopping, AtRest, Deaf
<1> QED
  BY <1>1, <1>2, <1>3

\* The STOP is sent, or the function has already returned.
LEMMA StoppingStep ==
  ASSUME Stopping, Next
  PROVE  Stopping' \/ Resting'
<1>1. \/ PollStop
      \/ st = "idle" /\ ctrl.hardstop /\ HardStop
      \/ st = "stop" /\ StopBit
  BY Steps DEF Stopping, AtRest
<1>2. CASE PollStop
  BY <1>2 DEF PollStop, Return, Keep, Stopping, Resting, AtRest, Deaf, Delivered,
              TransmitDelivered, ReceivedSent, NackMeansRefused, master, bus
<1>3. CASE st = "idle" /\ ctrl.hardstop /\ HardStop
  <2>1. ctrl = StopAsked
    BY <1>3 DEF Stopping, AtRest, StopAsked, Idle
  <2> QED
    BY <1>3, <2>1 DEF HardStop, Stopping, AtRest, Deaf, bus, program
<1>4. CASE st = "stop" /\ StopBit
  <2>1. ctrl = StopAsked
    BY <1>4 DEF Stopping, AtRest
  <2>2. ctrl' = Idle
    BY <1>4, <2>1 DEF StopBit, StopAsked, Idle
  <2> QED
    BY <1>4, <2>2 DEF StopBit, Stopping, AtRest, Deaf, program
<1> QED
  BY <1>1, <1>2, <1>3, <1>4
\* With i bytes over, the loop goes on to the next byte, or sets STOP for the last.
LEMMA NextByteStep ==
  ASSUME Contents, NextByte, UNCHANGED call, call.fn # "probe", i < call.len, ~refused', Answered',
         Len(buf') = i, buf' = (IF call.fn = "receive" THEN sent' ELSE got'),
         st' = "idle", Control(FALSE, FALSE, call.fn = "receive")'
  PROVE  SettingStop' \/ WritingByte'
<1>1. i \in Nat /\ call.len \in Nat
  BY CallIs DEF Contents
<1>2. Halfway'
  BY <1>1 DEF Halfway, NextByte
<1>3. CASE i + 1 = call.len
  BY <1>2, <1>3 DEF NextByte, SettingStop
<1>4. CASE i + 1 # call.len
  <2>1. Control(FALSE, i = call.len, call.fn = "receive")'
    BY <1>4 DEF NextByte, Control
  <2> QED
    BY <1>2, <1>4, <2>1 DEF NextByte, WritingByte
<1> QED
  BY <1>3, <1>4

\* MACK is set and the first byte asked for.
LEMMA SettingMackStep ==
  ASSUME Contents, SettingMack, Next
  PROVE  SettingMack' \/ SettingStop' \/ WritingByte'
<1>1. (pc = "ctrl_read" /\ ReadCtrl) \/ (pc = "ctrl_write" /\ WriteCtrl)
  BY ProgramOnly DEF SettingMack
<1>2. CASE pc = "ctrl_read" /\ ReadCtrl
  BY <1>2, ReadIs DEF SettingMack, Control, Nothing, master, bus
<1>3. CASE pc = "ctrl_write" /\ WriteCtrl
  <2>1. UNCHANGED <<st, buf, call, slave, got, sent, refused>>
    BY <1>3, WriteIs DEF SettingMack
  <2>2. NextByte
    BY <1>3 DEF WriteCtrl, SettingMack
  <2>3. Control(FALSE, FALSE, TRUE)'
    BY <1>3, WriteIs DEF SettingMack
  <2>4. Control(FALSE, FALSE, call.fn = "receive")'
    BY <2>1, <2>3 DEF SettingMack, Control
  <2>5. i = 0 /\ i < call.len
    BY CallIs DEF SettingMack, Contents
  <2>6. Len(buf') = i /\ buf' = sent' /\ ~refused' /\ Answered' /\ st' = "idle"
        /\ call.fn = "receive"
    BY <2>1 DEF SettingMack, Nothing, Answered
  <2> QED
    BY <2>1, <2>2, <2>4, <2>5, <2>6, NextByteStep
<1> QED
  BY <1>1, <1>2, <1>3

\* STOP is set.
LEMMA SettingStopStep ==
  ASSUME SettingStop, Next
  PROVE  SettingStop' \/ WritingByte'
<1>1. (pc = "ctrl_read" /\ ReadCtrl) \/ (pc = "ctrl_write" /\ WriteCtrl)
  BY ProgramOnly DEF SettingStop
<1>2. CASE pc = "ctrl_read" /\ ReadCtrl
  BY <1>2, ReadIs DEF SettingStop, Control, Halfway, Answered, master, bus
<1>3. CASE pc = "ctrl_write" /\ WriteCtrl
  <2>1. UNCHANGED <<st, buf, call, slave, got, sent, refused>>
    BY <1>3, WriteIs DEF SettingStop
  <2>2. pc' = "data" /\ i' = i
    BY <1>3 DEF WriteCtrl, SettingStop
  <2>3. Control(FALSE, TRUE, call.fn = "receive")'
    BY <1>3, <2>1, WriteIs DEF SettingStop, Control
  <2> QED
    BY <2>1, <2>2, <2>3 DEF SettingStop, WritingByte, Halfway, Answered, Control
<1> QED
  BY <1>1, <1>2, <1>3

\* A byte, or the 0xff that asks for one, is written to DATA.
LEMMA WritingByteStep ==
  ASSUME Contents, WritingByte, Next
  PROVE  ByteOnBus'
<1>1. Data
  BY ProgramOnly DEF WritingByte
<1>2. i \in Nat /\ i > 0 /\ i <= call.len /\ call.len \in Nat /\ st = "idle"
  BY CallIs DEF WritingByte, Halfway, Contents
<1>3. pc' = "wait" /\ UNCHANGED <<call, i>>
  BY <1>1 DEF Data
<1>4. PICK byte \in Octets :
        /\ WriteData(byte)
        /\ IF call.fn = "receive" THEN UNCHANGED buf ELSE buf' = Append(buf, byte)
  BY <1>1, <1>2, OctetsOf DEF Data
<1>5. /\ ~tc' /\ txbuffer'.byte = byte /\ UNCHANGED <<slave, got, sent, refused>>
      /\ txbuffer'.nack <=> ctrl.start \/ ctrl.stop \/ ~ctrl.mack
  BY <1>4, WriteDataIs
<1>6. (txbuffer'.nack <=> i = call.len \/ call.fn # "receive")
  BY <1>5 DEF WritingByte, Control
<1>7. st' = "byte"
  BY <1>2, <1>4 DEF WriteData, WritingByte, Control
<1>8. Control(FALSE, i = call.len, call.fn = "receive")'
  <2>1. ctrl' = [ctrl EXCEPT !.start = FALSE]
    BY <1>2, <1>4 DEF WriteData
  <2> QED
    BY <2>1, <1>3 DEF WritingByte, Control
<1>9. CASE call.fn = "receive"
  BY <1>2, <1>3, <1>4, <1>5, <1>6, <1>7, <1>8, <1>9
     DEF WritingByte, Halfway, Answered, ByteOnBus, Receiving
<1>10. CASE call.fn # "receive"
  <2>1. call.fn = "transmit" /\ slave = "write" /\ ~refused /\ Len(buf) = i - 1 /\ buf = got
    BY <1>10, CallIs DEF WritingByte, Halfway, Answered, Contents
  <2>2. Len(buf') = i
    BY <1>2, <1>4, <1>10, <2>1, AppendProperties DEF Contents
  <2>3. Sending'
    BY <1>3, <1>4, <1>5, <1>6, <1>7, <1>10, <2>1, <2>2 DEF Sending
  <2> QED
    BY <1>2, <1>3, <1>5, <1>8, <2>3 DEF ByteOnBus
<1> QED
  BY <1>9, <1>10

\* A byte goes over.
LEMMA ByteOnBusStep ==
  ASSUME Booleans, Contents, ByteOnBus, Next
  PROVE  ByteOnBus' \/ ByteDone'
<1>1. \/ st = "byte" /\ call.fn = "transmit" /\ Take
      \/ st = "byte" /\ call.fn = "receive" /\ Give
      \/ st = "stop" /\ StopBit
  BY Steps DEF ByteOnBus, Sending, Receiving
<1>c. i \in Nat /\ i > 0 /\ i <= call.len /\ call.len \in Nat /\ pc = "wait" /\ ~tc
  BY CallIs DEF ByteOnBus, Contents
<1>s. /\ ctrl.stop <=> i = call.len
      /\ Control(FALSE, i = call.len, call.fn = "receive")
  BY DEF ByteOnBus, Control
<1>2. CASE st = "byte" /\ call.fn = "transmit" /\ Take
  <2>0. /\ Len(buf) = i /\ txbuffer.nack /\ slave = "write" /\ ~refused
        /\ buf = Append(got, txbuffer.byte)
    BY <1>2 DEF ByteOnBus, Sending, Receiving
  <2>1. PICK ack \in BOOLEAN :
          /\ EndOfByte(txbuffer.byte, ack)
          /\ refused' <=> ~ack
          /\ IF ack THEN got' = buf /\ slave' = "write" ELSE slave' = "off"
    <3>1. CASE EndOfByte(txbuffer.byte, TRUE) /\ got' = buf /\ UNCHANGED <<slave, refused>>
      BY <2>0, <3>1
    <3>2. CASE EndOfByte(txbuffer.byte, FALSE) /\ slave' = "off" /\ refused'
      BY <3>2
    <3> QED
      BY <1>2, <2>0, <3>1, <3>2 DEF Take
  <2>2. /\ rxbuffer'.nack <=> ~ack
        /\ ctrl.stop => st' = "stop" /\ UNCHANGED <<tc, af, data>>
        /\ ~ctrl.stop => st' = "idle" /\ tc' /\ (af' <=> ~ack)
        /\ UNCHANGED <<ctrl, txbuffer, program>>
    BY <2>0, <2>1, EndOfByteIs
  <2>3. CASE i = call.len
    <3>1. Sending'
      BY <1>2, <1>s, <2>0, <2>1, <2>2, <2>3 DEF Sending, program
    <3> QED
      BY <1>c, <1>s, <2>2, <2>3, <3>1 DEF ByteOnBus, Control, program
  <2>4. CASE i # call.len
    <3>1. Sent'
      BY <1>2, <1>c, <1>s, <2>0, <2>1, <2>2, <2>4 DEF Sent, Deaf, program
    <3> QED
      BY <1>c, <1>s, <2>2, <2>4, <3>1 DEF ByteDone, Control, program
  <2> QED
    BY <2>3, <2>4
<1>3. CASE st = "byte" /\ call.fn = "receive" /\ Give
  <2>0. /\ Len(buf) = i - 1 /\ (txbuffer.nack <=> i = call.len) /\ slave = "read" /\ ~refused
        /\ buf = sent
    BY <1>3 DEF ByteOnBus, Sending, Receiving
  <2>1. PICK byte : sent' = Append(sent, byte) /\ EndOfByte(byte, FALSE)
    BY <1>3 DEF Give
  <2>2. /\ rxbuffer'.byte = byte
        /\ ctrl.stop => st' = "stop" /\ UNCHANGED <<tc, af, data>>
        /\ ~ctrl.stop => st' = "idle" /\ tc' /\ data' = byte
        /\ UNCHANGED <<ctrl, txbuffer, program>>
    BY <2>1, EndOfByteIs
  <2>3. slave' = (IF txbuffer.nack THEN "off" ELSE "read") /\ UNCHANGED refused
    BY <1>3, <2>0 DEF Give
  <2>4. CASE i = call.len
    <3>1. Receiving'
      BY <1>3, <1>s, <2>0, <2>1, <2>2, <2>3, <2>4 DEF Receiving, program
    <3> QED
      BY <1>c, <1>s, <2>2, <2>4, <3>1 DEF ByteOnBus, Control, program
  <2>5. CASE i # call.len
    <3>1. Received'
      BY <1>3, <1>s, <2>0, <2>1, <2>2, <2>3, <2>5 DEF Received, program
    <3> QED
      BY <1>c, <1>s, <2>2, <2>5, <3>1 DEF ByteDone, Control, program
  <2> QED
    BY <2>4, <2>5
<1>4. CASE st = "stop" /\ StopBit
  <2>1. /\ st' = "idle" /\ slave' = "idle" /\ tc' /\ af' = rxbuffer.nack /\ data' = rxbuffer.byte
        /\ UNCHANGED <<got, sent, refused, program>>
    BY <1>4 DEF StopBit, Complete
  <2>2. Control(FALSE, FALSE, call.fn = "receive")'
    <3>1. ctrl' = [ctrl EXCEPT !.stop = FALSE, !.hardstop = FALSE]
      BY <1>4 DEF StopBit
    <3> QED
      BY <1>s, <2>1, <3>1 DEF Control, program
  <2>3. Sent' \/ Received'
    BY <1>4, <2>1 DEF ByteOnBus, Sending, Receiving, Sent, Received, Deaf, program
  <2> QED
    BY <1>c, <2>1, <2>2, <2>3 DEF ByteDone, program
<1> QED
  BY <1>1, <1>2, <1>3, <1>4

\* The function sees that the byte has gone over, and takes one it received.
LEMMA ByteDoneStep ==
  ASSUME Contents, ByteDone, Next
  PROVE  \/ Resting' \/ ByteDone' \/ SettingHardstop' \/ SettingStop' \/ WritingByte'
         \/ ClearingMack'
<1>1. (pc = "wait" /\ PollTc) \/ (pc = "result" /\ (ReadAf \/ ReadData))
  BY ProgramOnly DEF ByteDone
<1>c. i \in Nat /\ i > 0 /\ i <= call.len /\ call.len \in Nat /\ st = "idle" /\ tc
      /\ Control(FALSE, FALSE, call.fn = "receive")
  BY CallIs DEF ByteDone, Contents
<1>2. CASE pc = "wait" /\ PollTc
  BY <1>2 DEF PollTc, ByteDone, Sent, Received, Deaf, Control, Keep, master, bus
<1>3. CASE pc = "result" /\ ReadAf
  <2>1. call.fn = "transmit"
    BY <1>3, <1>c DEF ReadAf
  <2>2. /\ Len(buf) = i /\ (af <=> refused) /\ (~refused => buf = got)
        /\ refused \/ i = call.len => Deaf
        /\ ~refused /\ i < call.len => slave = "write"
    BY <2>1 DEF ByteDone, Sent, Received
  <2>3. UNCHANGED <<st, ctrl, slave, got, sent, refused, buf, call, tmp>>
    BY <1>3 DEF ReadAf, Keep, master, bus
  <2>4. CASE af /\ i < call.len
    <3>1. pc' = "ctrl_read" /\ why' = "HARDSTOP"
      BY <1>3, <2>1, <2>4, <1>c DEF ReadAf, Then
    <3> QED
      BY <2>1, <2>2, <2>3, <2>4, <3>1, <1>c DEF SettingHardstop, Control, Deaf
  <2>5. CASE i = call.len
    <3>1. pc' = "idle" /\ ret' = (IF af THEN "nack" ELSE "ok")
      BY <1>3, <2>1, <2>5, <1>c DEF ReadAf, Return
    <3>2. ctrl = Idle
      BY <2>1, <1>c DEF Control, Idle
    <3> QED
      BY <2>1, <2>2, <2>3, <2>5, <3>1, <3>2, <1>c
         DEF Resting, AtRest, Deaf, Delivered, TransmitDelivered, ReceivedSent, NackMeansRefused
  <2>6. CASE ~af /\ i < call.len
    <3>1. NextByte
      BY <1>3, <2>1, <2>6, <1>c DEF ReadAf
    <3>2. Answered' /\ ~refused' /\ Len(buf') = i /\ buf' = got' /\ st' = "idle"
          /\ Control(FALSE, FALSE, call.fn = "receive")'
      BY <2>1, <2>2, <2>3, <2>6, <1>c DEF Answered, Control
    <3> QED
      BY <2>1, <2>3, <2>6, <3>1, <3>2, NextByteStep
  <2> QED
    BY <2>4, <2>5, <2>6, <1>c
<1>4. CASE pc = "result" /\ ReadData
  <2>1. call.fn = "receive"
    BY <1>4 DEF ReadData
  <2>2. /\ Len(buf) = i - 1 /\ sent = Append(buf, data) /\ ~refused
        /\ slave = (IF i = call.len THEN "idle" ELSE "read")
    BY <2>1 DEF ByteDone, Sent, Received
  <2>3. UNCHANGED <<st, ctrl, slave, got, sent, refused, call>> /\ buf' = sent
    BY <1>4, <2>2 DEF ReadData, Keep, bus
  <2>4. Len(buf') = i
    BY <2>2, <2>3, <1>c, AppendProperties DEF Contents
  <2>5. CASE i = call.len
    <3>1. pc' = "ctrl_read" /\ why' = "~MACK"
      BY <1>4, <2>5, <1>c DEF ReadData, Then
    <3> QED
      BY <2>1, <2>2, <2>3, <2>4, <2>5, <3>1, <1>c DEF ClearingMack, Control, Deaf
  <2>6. CASE i < call.len
    <3>1. NextByte
      BY <1>4, <2>6 DEF ReadData
    <3>2. Answered' /\ ~refused' /\ buf' = sent' /\ st' = "idle"
      BY <2>1, <2>2, <2>3, <2>6, <1>c DEF Answered
    <3>3. Control(FALSE, FALSE, call.fn = "receive")'
      BY <2>3, <1>c DEF Control
    <3> QED
      BY <2>1, <2>3, <2>4, <2>6, <3>1, <3>2, <3>3, NextByteStep
  <2> QED
    BY <2>5, <2>6, <1>c
<1> QED
  BY <1>1, <1>2, <1>3, <1>4

\* MACK is cleared and i2c1_receive returns.
LEMMA ClearingMackStep ==
  ASSUME ClearingMack, Next
  PROVE  ClearingMack' \/ Resting'
<1>1. (pc = "ctrl_read" /\ ReadCtrl) \/ (pc = "ctrl_write" /\ WriteCtrl)
  BY ProgramOnly DEF ClearingMack
<1>2. CASE pc = "ctrl_read" /\ ReadCtrl
  BY <1>2, ReadIs DEF ClearingMack, Control, Deaf, master, bus
<1>3. CASE pc = "ctrl_write" /\ WriteCtrl
  <2>1. UNCHANGED <<st, buf, call, slave, got, sent, refused>>
    BY <1>3, WriteIs DEF ClearingMack
  <2>2. pc' = "idle" /\ ret' = "ok"
    BY <1>3 DEF WriteCtrl, Return, ClearingMack
  <2>3. ctrl' = Idle
    BY <1>3, WriteIs DEF ClearingMack, Control, Idle
  <2> QED
    BY <2>1, <2>2, <2>3 DEF ClearingMack, Resting, AtRest, Deaf, Delivered, TransmitDelivered,
                            ReceivedSent, NackMeansRefused
<1> QED
  BY <1>1, <1>2, <1>3
-----------------------------------------------------------------------------
(* The invariant *)

\* Nothing has happened yet.
LEMMA InitInv == Init => CallInv
<1> SUFFICES ASSUME Init PROVE CallInv
  OBVIOUS
<1>1. Booleans
  BY DEF Init, Booleans
<1>2. Contents
  BY I2cAssumption, OctetsOf DEF Init, Contents, Call
<1>3. Resting
  BY DEF Init, Resting, AtRest, Deaf, Delivered, TransmitDelivered, ReceivedSent, NackMeansRefused
<1> QED
  BY <1>1, <1>2, <1>3 DEF CallInv, Stage

\* Every step leads from a stage to a stage.
LEMMA NextInv == ASSUME Patient, CallInv, [Next]_vars PROVE CallInv'
<1>1. CASE Next
  <2>1. Booleans' /\ Contents'
    BY <1>1, NextBooleans, NextContents DEF CallInv
  <2>2. Stage'
    BY <1>1, RestingStep, SettingStartStep, WritingAddressStep, SendingAddressStep,
       AddressSentStep, SettingHardstopStep, StoppingStep, SettingMackStep, SettingStopStep,
       WritingByteStep, ByteOnBusStep, ByteDoneStep, ClearingMackStep, Zenon
       DEF CallInv, Stage
  <2> QED
    BY <2>1, <2>2 DEF CallInv
<1>2. CASE UNCHANGED vars
  <2>1. UNCHANGED <<master, bus, program>>
    BY <1>2 DEF vars
  <2> USE DEF master, bus, program
  <2>2. Booleans' /\ Contents'
    BY <2>1 DEF CallInv, Booleans, Contents
  <2>3. (Resting => Resting') /\ (Stopping => Stopping')
    BY <2>1 DEF Resting, Stopping, AtRest, Deaf, Delivered, TransmitDelivered, ReceivedSent,
                NackMeansRefused
  <2>4. /\ SettingStart => SettingStart'
        /\ WritingAddress => WritingAddress'
        /\ SettingMack => SettingMack'
    BY <2>1 DEF SettingStart, WritingAddress, SettingMack, Control, Nothing, Deaf
  <2>5. (SendingAddress => SendingAddress') /\ (AddressSent => AddressSent')
    BY <2>1 DEF SendingAddress, AddressSent, Control, Nothing, Deaf, Answered
  <2>6. (SettingHardstop => SettingHardstop') /\ (ClearingMack => ClearingMack')
    BY <2>1 DEF SettingHardstop, ClearingMack, Control, Deaf
  <2>7. (SettingStop => SettingStop') /\ (WritingByte => WritingByte')
    BY <2>1 DEF SettingStop, WritingByte, Halfway, Control, Answered
  <2>8. (ByteOnBus => ByteOnBus') /\ (ByteDone => ByteDone')
    BY <2>1 DEF ByteOnBus, Sending, Receiving, ByteDone, Sent, Received, Control, Deaf
  <2>9. Stage'
    BY <2>3, <2>4, <2>5, <2>6, <2>7, <2>8, Zenon DEF CallInv, Stage
  <2> QED
    BY <2>2, <2>9 DEF CallInv
<1> QED
  BY <1>1, <1>2

\* At every moment a call is at one of its stages.
LEMMA CallInvHolds == ASSUME Patient PROVE Spec => []CallInv
<1>1. CallInv /\ [Next]_vars => CallInv'
  BY NextInv
<1> QED
  BY <1>1, InitInv, PTL DEF Spec

\* i2c1_transmit returns 0 only if the slave took the buffer, every byte once
\* and in order, i2c1_receive only if its buffer is what the slave sent.
THEOREM DataDelivered == ASSUME Patient PROVE Spec => []Delivered
<1>1. CallInv => Delivered
  <2>1. ASSUME Stage, pc = "idle" PROVE Resting
    BY <2>1 DEF Stage, SettingStart, WritingAddress, SendingAddress, AddressSent, SettingHardstop,
       Stopping, SettingMack, SettingStop, WritingByte, ByteOnBus, ByteDone, ClearingMack
  <2>2. pc # "idle" => Delivered
    BY DEF Delivered, TransmitDelivered, ReceivedSent
  <2> QED
    BY <2>1, <2>2 DEF CallInv, Resting
<1> QED
  BY <1>1, CallInvHolds, PTL

\* A function reports a missing acknowledge only if a byte of its own call met one.
THEOREM NackTrue == ASSUME Patient PROVE Spec => []NackMeansRefused
<1>1. CallInv => NackMeansRefused
  <2>1. ASSUME Stage, pc = "idle" PROVE Resting
    BY <2>1 DEF Stage, SettingStart, WritingAddress, SendingAddress, AddressSent, SettingHardstop,
       Stopping, SettingMack, SettingStop, WritingByte, ByteOnBus, ByteDone, ClearingMack
  <2>2. pc # "idle" => NackMeansRefused
    BY DEF NackMeansRefused
  <2> QED
    BY <2>1, <2>2 DEF CallInv, Resting
<1> QED
  BY <1>1, CallInvHolds, PTL
=============================================================================
