------------------------------- MODULE SdCard -------------------------------
(***************************************************************************)
(* The SD card driver (sdcard.c), the glue that offers it to FatFs         *)
(* (diskio.c) and the card on the other end of SPI2.                       *)
(*                                                                         *)
(* Bytes are numbers.  A loop that polls the card does one SPI transfer    *)
(* per step; transfers whose answer the driver does not look at are made   *)
(* together with the step they surround.  The card keeps the bytes it has  *)
(* yet to send: it takes a command or a block only when it has none left,  *)
(* and whatever it is still sending is read by the next transfers, the     *)
(* driver not knowing what they belong to.                                 *)
(***************************************************************************)
EXTENDS Naturals, Sequences, SequencesExt

CONSTANTS Sectors,        \* block addresses: 0 .. n
          Bytes,          \* the values of a data byte
          BlockLen,       \* bytes in a block (512)
          InfoLen,        \* bytes of CSD and CID (16)
          ReadTimeout,    \* SD_READ_TIMEOUT, in transfers
          WriteTimeout,   \* SD_WRITE_TIMEOUT, in transfers
          R1Polls,        \* transfers SD_readR1 makes at most (10)
          InitTries,      \* rounds of CMD55/ACMD41 (100)
          Gaps,           \* how many bytes the card may let pass before answering
          HighCapacity,   \* block addressed card (SDHC) or byte addressed one
          Faults,         \* what may go wrong, see below
          MaxCalls        \* bound: calls of the file system

ASSUME SdCardAssumption ==
  /\ Sectors \subseteq Nat /\ Bytes \subseteq 0 .. 255 /\ Gaps \subseteq Nat
  /\ InfoLen \in Nat /\ MaxCalls \in Nat
  /\ BlockLen \in Nat \ {0} /\ R1Polls \in Nat \ {0} /\ InitTries \in Nat \ {0}
  /\ ReadTimeout \in Nat \ {0} /\ WriteTimeout \in Nat \ {0}
  /\ \A g \in Gaps : g < R1Polls /\ g < ReadTimeout /\ g < WriteTimeout
  /\ Faults \subseteq {"remove",     \* the card is pulled between two commands
                       "address",    \* it refuses the address: R1 = 0x20
                       "reject",     \* it cannot write the block: 0x0d
                       "silent",     \* it never answers CMD17, CMD24 further
                       "deaf",       \* nor CMD9 and CMD10
                       "late",       \* its data comes after the time-out
                       "token",      \* it sends an error token for the data
                       "crc",        \* it finds the block damaged: 0x0b
                       "busy",       \* it stores longer than the time-out
                       "vanish"}     \* it is pulled while it sends

Blocks == [1 .. BlockLen -> Bytes]

VARIABLES pc,        \* where the driver is
          call,      \* the disk_initialize, disk_read or disk_write in progress
          done,      \* its blocks moved so far (i of the loop)
          buf,       \* the caller's buffer, filled by reads
          answer,    \* what the last call returned
          calls,     \* calls made so far (bound)
          cmd,       \* the command in progress
          res,       \* the bytes of its response
          count,     \* transfers left in the present loop
          tries,     \* counter of SD_initialize
          ocr,       \* the driver's record of the card
          cs,        \* GPIOA pin 14, the chip select
          speed,     \* SPI2 clock
          card,      \* the card's interface
          content    \* and the blocks it keeps

driver == <<pc, call, done, buf, answer, calls, cmd, res, count, tries, ocr, cs, speed>>
vars == <<driver, card, content>>

\* What FatFs sees of it.
D == INSTANCE Disk WITH store <- content,
                        call <- IF pc = "idle" THEN [op |-> "none"] ELSE call

-----------------------------------------------------------------------------
(* The card *)

FF(n) == [i \in 1 .. n |-> \hFF]

Fresh == [on |-> "native", idle |-> TRUE, app |-> FALSE, warm |-> FALSE,
          block |-> FALSE, at |-> 0, out |-> <<>>]
Absent == [Fresh EXCEPT !.on = "none"]

\* n bytes pass with the chip select at sel
Clocked(c, sel, n) ==
  IF sel = "low" THEN [c EXCEPT !.out = SubSeq(@, n + 1, Len(@))] ELSE c

\* the byte the driver reads in the next transfer
Drives == IF cs = "low" /\ card.out # <<>> THEN Head(card.out) ELSE \hFF

R1(c) == IF c.idle THEN 1 ELSE 0
Illegal(c) == 4 + R1(c)

\* A data block as sent: gap, start token, bytes and CRC; or what a faulty
\* card sends in its place.
DataSent(bytes) ==
  {FF(g) \o <<\hFE>> \o bytes \o <<0, 0>> : g \in Gaps}
  \cup (IF "late" \in Faults THEN {FF(ReadTimeout) \o <<\hFE>> \o bytes \o <<0, 0>>} ELSE {})
  \cup (IF "token" \in Faults THEN {<<8>>} ELSE {})

Nothing(fault) == IF fault \in Faults THEN {<<>>} ELSE {}

\* The answers to a command of a card in SPI mode: <<its next state, bytes>>.
\* A byte addressed card finds a block boundary at 0 alone of the addresses
\* that occur here.
Served(c, k, arg) ==
  LET plain == [c EXCEPT !.app = FALSE]
      known == arg \in DOMAIN content /\ (HighCapacity \/ arg = 0)
  IN CASE k = "CMD0"  -> {<<[plain EXCEPT !.idle = TRUE], <<1>>>>}
       [] k = "CMD8"  -> {<<plain, <<R1(c), 0, 0, 1, \hAA>>>>}
       [] k = "CMD55" -> {<<[c EXCEPT !.app = TRUE], <<R1(c)>>>>}
       [] k = "ACMD41" /\ c.app ->
            {<<[plain EXCEPT !.idle = i], <<IF i THEN 1 ELSE 0>>>> :
               i \in IF c.idle THEN BOOLEAN ELSE {FALSE}}
       [] k = "CMD58" -> {<<plain, <<R1(c), IF c.idle THEN 0 ELSE IF HighCapacity
                                       THEN \hC0 ELSE \h80, 0, 0, 0>>>>}
       [] k \in {"CMD9", "CMD10"} /\ ~c.idle ->
            {<<plain, <<0>> \o d>> : d \in DataSent([i \in 1 .. InfoLen |-> 0])
                                           \cup Nothing("deaf")}
       [] k = "CMD17" /\ ~c.idle ->
            (IF known THEN {<<plain, <<0>> \o d>> : d \in DataSent(content[arg])
                                                           \cup Nothing("silent")} ELSE {})
            \cup (IF ~known \/ "address" \in Faults THEN {<<plain, <<\h20>>>>} ELSE {})
       [] k = "CMD24" /\ ~c.idle ->
            (IF known THEN {<<[plain EXCEPT !.block = TRUE, !.at = arg], <<0>>>>} ELSE {})
            \cup (IF ~known \/ "address" \in Faults THEN {<<plain, <<\h20>>>>} ELSE {})
       [] OTHER -> {<<plain, <<Illegal(c)>>>>}

\* The card after a command that it answers, and its answers behind their gaps.
Answered(r, g, k) == [r[1] EXCEPT !.on = "spi", !.block = IF k = "CMD24" THEN @ ELSE FALSE,
                                  !.out = FF(g) \o r[2]]
Answers(c, k, arg) == {Answered(r, g, k) : r \in Served(c, k, arg), g \in Gaps}

\* The card after the six bytes of a command.  It overlooks a command sent
\* while it is still sending; in native mode it knows CMD0 alone, and that
\* after the clocks of the power-up.
Takes(c, k, arg) ==
  IF c.on = "none" THEN {c}
  ELSE IF c.out # <<>> THEN {Clocked(c, "low", 6)}
  ELSE IF c.on = "native" /\ ~(k = "CMD0" /\ c.warm) THEN {c}
  ELSE Answers(c, k, arg)

\* The answers to a block written: its data response and the time it stores.
Stored == {<<\hE5>> \o [i \in 1 .. g |-> 0] : g \in
             Gaps \cup (IF "busy" \in Faults THEN {WriteTimeout + R1Polls + 12} ELSE {})}
Refused == {<<b>> : b \in (IF "reject" \in Faults THEN {\hED} ELSE {})
                          \cup (IF "crc" \in Faults THEN {\hEB} ELSE {})}
           \cup Nothing("silent")

\* The block it receives: bytes that are not sent are read off the idle line,
\* and the answer comes once the block is full.
BlockTaken(sent) == [i \in 1 .. BlockLen |-> IF i <= Len(sent) THEN sent[i] ELSE \hFF]
StillMissing(sent) == FF(IF Len(sent) < BlockLen THEN BlockLen - Len(sent) ELSE 0)

-----------------------------------------------------------------------------
(* The driver *)

NoOcr == [sectorsize |-> 0, status |-> 0]

\* Mutant: the sector is not advanced.
ArgStays == IF cmd \in {"CMD17", "CMD24"} THEN call.at ELSE 0
arg == IF cmd \in {"CMD17", "CMD24"} THEN call.at + done ELSE 0

\* disk_status
disk_status == IF ocr.status = 1 THEN "FR_OK" ELSE "STA_NODISK"

Return(r) ==
  /\ pc' = "idle"
  /\ answer' = [res |-> r, data |-> IF r = "ok" THEN buf ELSE <<>>]
  /\ UNCHANGED <<call, done, buf, calls, cmd, res, count, tries>>

\* The next command of the call.
Issue(k) ==
  /\ pc' = "command" /\ cmd' = k
  /\ UNCHANGED <<call, buf, answer, calls, res, count>>

Asked(c) ==
  /\ pc = "idle" /\ calls < MaxCalls
  /\ call' = c /\ calls' = calls + 1
  /\ done' = 0 /\ buf' = <<>>
  /\ answer' = [res |-> "none", data |-> <<>>]
  /\ pc' = "command"
  /\ UNCHANGED <<res, count, content>>

\* Mutant: the record of the card is not cleared.
InitKeepsOcr ==
  /\ Asked([op |-> "init"])
  /\ UNCHANGED ocr
  /\ speed' = "slow"
  /\ cs' = "high"
  /\ card' = IF card.on = "native" THEN [card EXCEPT !.warm = TRUE] ELSE card
  /\ cmd' = "CMD0"
  /\ tries' = InitTries
\* disk_initialize: SD_initialize up to its first command, with SPI2_init and
\* SD_powerup, which clocks the deselected card.
disk_initialize ==
  /\ Asked([op |-> "init"])
  /\ ocr' = NoOcr
  /\ speed' = "slow"
  /\ cs' = "high"
  /\ card' = IF card.on = "native" THEN [card EXCEPT !.warm = TRUE] ELSE card
  /\ cmd' = "CMD0"
  /\ tries' = InitTries

disk_read ==
  /\ \E c \in D!Calls : c.op = "read" /\ Asked(c)
  /\ cmd' = "CMD17"
  /\ UNCHANGED <<tries, ocr, cs, speed, card>>

disk_write ==
  /\ \E c \in D!Calls : c.op = "write" /\ Asked(c)
  /\ cmd' = "CMD24"
  /\ UNCHANGED <<tries, ocr, cs, speed, card>>

\* Select the card between two transfers, then SD_command.
SD_command ==
  /\ pc = "command"
  /\ card' \in Takes(Clocked(Clocked(card, cs, 1), "low", 1), cmd, arg)
  /\ cs' = "low"
  /\ pc' = "r1" /\ count' = R1Polls
  /\ UNCHANGED <<call, done, buf, answer, calls, cmd, res, tries, ocr, speed, content>>

\* One transfer of a polling loop.
Transfer ==
  /\ card' = Clocked(card, cs, 1)
  /\ UNCHANGED <<call, done, buf, answer, calls, cmd, tries, ocr, speed, content>>

\* Mutant: the rest of the answer to CMD8 is not read.
AfterR1NoEcho(r) ==
  CASE cmd = "CMD58" /\ r <= 1            -> "tail"
    [] cmd \in {"CMD9", "CMD10"} /\ r = 0   -> "token"
    [] cmd \in {"CMD9", "CMD10"} /\ r # 0   -> "failed"
    [] cmd = "CMD17" /\ r <= 1              -> "token"
    [] cmd = "CMD24" /\ r <= 1              -> "block"
    [] cmd \in {"CMD17", "CMD24"} /\ r > 1  -> "abort"
    [] OTHER                                -> "close"
AfterR1(r) ==
  CASE cmd \in {"CMD8", "CMD58"} /\ r <= 1  -> "tail"
    [] cmd \in {"CMD9", "CMD10"} /\ r = 0   -> "token"
    [] cmd \in {"CMD9", "CMD10"} /\ r # 0   -> "failed"
    [] cmd = "CMD17" /\ r <= 1              -> "token"
    [] cmd = "CMD24" /\ r <= 1              -> "block"
    [] cmd \in {"CMD17", "CMD24"} /\ r > 1  -> "abort"
    [] OTHER                                -> "close"

\* Mutant: one poll less.
ReadR1OneLess ==
  /\ pc = "r1"
  /\ Transfer
  /\ UNCHANGED cs
  /\ \/ /\ Drives = \hFF /\ count > 2
        /\ count' = count - 1
        /\ UNCHANGED <<pc, res>>
     \/ /\ Drives # \hFF \/ count = 2
        /\ res' = <<Drives>>
        /\ pc' = AfterR1(Drives)
        /\ count' = ReadTimeout
SD_readR1 ==
  /\ pc = "r1"
  /\ Transfer
  /\ UNCHANGED cs
  /\ \/ /\ Drives = \hFF /\ count > 1
        /\ count' = count - 1
        /\ UNCHANGED <<pc, res>>
     \/ /\ Drives # \hFF \/ count = 1
        /\ res' = <<Drives>>
        /\ pc' = AfterR1(Drives)
        /\ count' = ReadTimeout

\* What n transfers bring.
Received(n) ==
  [i \in 1 .. n |-> IF cs = "low" /\ i <= Len(card.out) THEN card.out[i] ELSE \hFF]

\* SD_readR37: the four bytes after R1.
ReadTail ==
  /\ pc = "tail"
  /\ res' = res \o Received(4)
  /\ card' = Clocked(card, cs, 4)
  /\ pc' = "close"
  /\ UNCHANGED <<call, done, buf, answer, calls, cmd, count, tries, ocr, cs, speed, content>>

\* Mutant: the time-out does not end the loop.
WaitTokenOn ==
  /\ pc = "token"
  /\ Transfer
  /\ UNCHANGED res
  /\ \/ /\ Drives = \hFF /\ count # 1
        /\ count' = IF count = 0 THEN 0 ELSE count - 1
        /\ UNCHANGED <<pc, cs>>
     \/ /\ Drives = \hFF /\ count = 1
        /\ count' = 0
        /\ pc' = "token" /\ cs' = "high"
     \/ /\ Drives # \hFF
        /\ pc' = IF cmd # "CMD17" /\ Drives # \hFE THEN "failed" ELSE "data"
        /\ UNCHANGED <<count, cs>>

\* Wait for the start token of a block.  SD_readsector takes any byte for it
\* and leaves at the time-out with the card selected; SD_CMD910 deselects the
\* card at the time-out and goes on waiting.
WaitToken ==
  /\ pc = "token"
  /\ Transfer
  /\ UNCHANGED res
  /\ \/ /\ Drives = \hFF /\ count # 1
        /\ count' = IF count = 0 THEN 0 ELSE count - 1
        /\ UNCHANGED <<pc, cs>>
     \/ /\ Drives = \hFF /\ count = 1
        /\ count' = 0
        /\ IF cmd = "CMD17" THEN pc' = "failed" /\ UNCHANGED cs
                            ELSE pc' = "token" /\ cs' = "high"
     \/ /\ Drives # \hFF
        /\ pc' = IF cmd # "CMD17" /\ Drives # \hFE THEN "failed" ELSE "data"
        /\ UNCHANGED <<count, cs>>

\* The bytes of the block, and its CRC, which is not looked at.
ReadData ==
  LET n == IF cmd = "CMD17" THEN ocr.sectorsize ELSE InfoLen IN
  /\ pc = "data"
  /\ buf' = IF cmd = "CMD17" THEN buf \o Received(n) ELSE buf
  /\ card' = Clocked(card, cs, n + 2)
  /\ pc' = "close"
  /\ UNCHANGED <<call, done, answer, calls, cmd, res, count, tries, ocr, cs, speed, content>>

\* Start token, bytes and two dummies.
SendBlock ==
  LET sent == SubSeq(call.data[done + 1], 1, ocr.sectorsize)
      taken == card.block /\ Clocked(card, cs, 1).out = <<>>
  IN
  /\ pc = "block"
  /\ \/ /\ taken
        /\ \E answered \in Stored :
             card' = [card EXCEPT !.block = FALSE, !.out = StillMissing(sent) \o answered]
        /\ content' = [content EXCEPT ![card.at] = BlockTaken(sent)]
     \/ /\ taken
        /\ \E answered \in Refused :
             card' = [card EXCEPT !.block = FALSE, !.out = StillMissing(sent) \o answered]
        /\ UNCHANGED content
     \/ /\ ~taken
        /\ card' = Clocked(card, cs, ocr.sectorsize + 3)
        /\ UNCHANGED content
  /\ pc' = "response" /\ count' = WriteTimeout
  /\ UNCHANGED <<call, done, buf, answer, calls, cmd, res, tries, ocr, cs, speed>>

\* A response that is neither "accepted" nor "rejected" passes for success.
WaitResponse ==
  /\ pc = "response"
  /\ Transfer
  /\ UNCHANGED <<res, cs>>
  /\ \/ /\ Drives = \hFF /\ count > 1
        /\ count' = count - 1 /\ UNCHANGED pc
     \/ /\ Drives = \hFF /\ count = 1
        /\ count' = 0 /\ pc' = "failed"
     \/ /\ Drives # \hFF
        /\ count' = WriteTimeout
        /\ pc' = CASE Drives % 32 = \h05 -> "busy"
                   [] Drives % 32 = \h0D -> "abort"
                   [] OTHER              -> "close"

WaitBusy ==
  /\ pc = "busy"
  /\ Transfer
  /\ UNCHANGED <<res, cs>>
  /\ count' = IF Drives = 0 THEN count - 1 ELSE count
  /\ pc' = IF Drives # 0 THEN "close" ELSE IF count = 1 THEN "abort" ELSE pc

-----------------------------------------------------------------------------
(* Deselecting the card, between two transfers, and what the callers make  *)
(* of the result.                                                          *)

Deselect ==
  /\ card' = Clocked(card, cs, 1)
  /\ cs' = "high"
  /\ UNCHANGED content

\* The error paths of SD_readsector and SD_writesector that deselect, and
\* those that do not.
Abort == /\ pc = "abort"
         /\ Deselect
         /\ Return("error")
         /\ UNCHANGED <<ocr, speed>>

Failed == /\ pc = "failed"
          /\ Return("error")
          /\ UNCHANGED <<ocr, cs, speed, card, content>>

\* SD_initialize after a command that was answered.
JudgeIdle ==
  /\ pc = "close" /\ cmd \in {"CMD0", "CMD8", "CMD55"}
  /\ Deselect
  /\ IF res[1] > 1
       THEN Return("error")
       ELSE /\ Issue(CASE cmd = "CMD0"  -> "CMD8"
                       [] cmd = "CMD8"  -> "CMD55"
                       [] cmd = "CMD55" -> "ACMD41")
            /\ UNCHANGED <<done, tries>>
  /\ UNCHANGED <<ocr, speed>>

JudgeReady ==
  /\ pc = "close" /\ cmd = "ACMD41"
  /\ Deselect
  /\ \/ /\ res[1] > 1 \/ (res[1] = 1 /\ tries = 1)
        /\ Return("error")
     \/ /\ res[1] = 1 /\ tries > 1
        /\ tries' = tries - 1
        /\ Issue("CMD55") /\ UNCHANGED done
     \/ /\ res[1] = 0
        /\ Issue("CMD58") /\ UNCHANGED <<done, tries>>
  /\ UNCHANGED <<ocr, speed>>

JudgeOcr ==
  /\ pc = "close" /\ cmd = "CMD58"
  /\ Deselect
  /\ IF res[1] > 1
       THEN Return("error") /\ UNCHANGED <<ocr, speed>>
       ELSE /\ ocr' = [ocr EXCEPT !.sectorsize = CASE res[2] \div 64 = 3 -> BlockLen
                                                   [] res[2] \div 64 = 2 -> 1
                                                   [] OTHER              -> @]
            /\ IF res[2] < \h80
                 THEN Return("error") /\ UNCHANGED speed
                 ELSE /\ speed' = "fast"
                      /\ Issue("CMD9")
                      /\ UNCHANGED <<done, tries>>

JudgeInfo ==
  /\ pc = "close" /\ cmd \in {"CMD9", "CMD10"}
  /\ Deselect
  /\ IF cmd = "CMD9"
       THEN Issue("CMD10") /\ UNCHANGED <<done, tries, ocr>>
       ELSE Return("ok") /\ ocr' = [ocr EXCEPT !.status = 1]
  /\ UNCHANGED speed

\* The loops of disk_read and disk_write.
SectorDone ==
  /\ pc = "close" /\ cmd \in {"CMD17", "CMD24"}
  /\ Deselect
  /\ \/ /\ done + 1 < call.n
        /\ done' = done + 1
        /\ Issue(cmd) /\ UNCHANGED tries
     \/ /\ done + 1 = call.n
        /\ Return("ok")
  /\ UNCHANGED <<ocr, speed>>

-----------------------------------------------------------------------------
(* The card is pulled out and put back: it comes up in its native mode.    *)

PullOut == /\ \/ "remove" \in Faults /\ pc \in {"idle", "command"}
              \/ "vanish" \in Faults
           /\ card.on # "none"
           /\ card' = Absent
           /\ UNCHANGED <<driver, content>>

PutBack == /\ pc = "idle" /\ card.on = "none"
           /\ card' = Fresh
           /\ UNCHANGED <<driver, content>>

Driver == \/ SD_command \/ SD_readR1 \/ ReadTail \/ WaitToken \/ ReadData
          \/ SendBlock \/ WaitResponse \/ WaitBusy \/ Abort \/ Failed
          \/ JudgeIdle \/ JudgeReady \/ JudgeOcr \/ JudgeInfo \/ SectorDone

Next == disk_initialize \/ disk_read \/ disk_write \/ Driver \/ PullOut \/ PutBack

\* The chip select is a GPIO pin, low after reset.
Init == /\ pc = "idle"
        /\ call = [op |-> "none"] /\ done = 0 /\ buf = <<>>
        /\ answer = [res |-> "none", data |-> <<>>]
        /\ calls = 0
        /\ cmd = "CMD0" /\ res = <<>> /\ count = 0 /\ tries = 0
        /\ ocr = NoOcr
        /\ cs = "low" /\ speed = "slow"
        /\ card = Fresh
        /\ content \in [Sectors -> Blocks]

Spec == Init /\ [][Next]_vars /\ WF_vars(Driver)

-----------------------------------------------------------------------------
(* Properties *)

\* The variables keep to their types.
TypeOK ==
  /\ pc \in {"idle", "command", "r1", "tail", "token", "data", "block",
             "response", "busy", "close", "abort", "failed"}
  /\ call \in {[op |-> "none"]} \cup D!Calls
  /\ done \in 0 .. 1 /\ (call.op \in {"read", "write"} => done < call.n) /\ calls \in 0 .. MaxCalls
  /\ buf \in Seq(0 .. 255) /\ Len(buf) <= 2 * BlockLen
  /\ cmd \in {"CMD0", "CMD8", "CMD55", "ACMD41", "CMD58", "CMD9", "CMD10", "CMD17", "CMD24"}
  /\ res \in Seq(0 .. 255) /\ Len(res) <= 5
  /\ count \in Nat /\ tries \in 0 .. InitTries
  /\ ocr \in [sectorsize : {0, 1, BlockLen}, status : {0, 1}]
  /\ cs \in {"low", "high"} /\ speed \in {"slow", "fast"}
  /\ card.on \in {"none", "native", "spi"} /\ card.out \in Seq(0 .. 255)
  /\ content \in [Sectors -> Blocks]

\* A command goes out only to a card that has nothing left to send: whatever
\* the last command left behind would be read as the answer to this one.
CommandFramed == pc = "command" => Clocked(Clocked(card, cs, 1), "low", 1).out = <<>>

\* disk_status reports a disk only if the driver brought the card through the
\* whole initialisation: a card that has not been exchanged since is out of
\* idle state and the driver knows its block length.
StatusMeansReady ==
  pc = "idle" /\ disk_status = "FR_OK" =>
    ocr.sectorsize = BlockLen /\ (card.on = "spi" => ~card.idle)

\* As long as a card is in idle state it is clocked at the slow rate alone
\* (an idle card must not be clocked above 400 kHz).
SlowWhileIdle == pc # "idle" /\ card.on = "spi" /\ card.idle => speed = "slow"

\* What the driver takes for granted of a card is true, also of one that was
\* put in since (SD_initialize clears its record and slows the clock down).
CardKnown == StatusMeansReady /\ SlowWhileIdle

\* A call fails only for a reason on the card's side: it is not there or not
\* initialised, it refuses the address or the data, it stays busy through all
\* rounds of CMD55/ACMD41, or it has nothing to say when a time-out ends.  No
\* answer that comes in time is missed (SD_readR1, the time-outs).
Excused ==
  \/ card.on = "none"
  \/ call.op # "init" /\ (card.on = "native" \/ card.idle)
  \/ call.op # "init" /\ res[1] = \h20
  \/ cmd = "CMD24" /\ pc = "abort" /\ "reject" \in Faults
  \/ pc = "failed" /\ count = 0 /\ card.out = <<>> /\ "silent" \in Faults
  \/ cmd = "ACMD41" /\ card.idle /\ tries = 1
FailsForCause == [][pc # "idle" /\ pc' = "idle" /\ answer'.res = "error" => Excused]_vars

\* To the file system it is a disk: a read that succeeds returns the blocks,
\* a write that succeeds has stored them, one that fails has stored a first
\* part and nothing else changes (diskio.c).
ImplementsDisk == D!Spec

\* Every call returns.
CallReturns == (pc # "idle") ~> (pc = "idle")

\* A read that succeeds has filled the caller's buffer with whole blocks
\* ("Read a sector of 512 bytes", sdcard.c).
ReadsSector ==
  pc = "idle" /\ call.op = "read" /\ answer.res = "ok" => Len(buf) = call.n * BlockLen
=============================================================================
