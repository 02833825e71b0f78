---------------------------- MODULE SdCardProofs ----------------------------
(***************************************************************************)
(* Theorems about module SdCard: what the driver takes for granted of the  *)
(* card is true, a command finds the card ready for it, calls fail only    *)
(* for a cause, and to the file system the functions of diskio.c are a     *)
(* disk, for every size of block and disk, every answer time the driver    *)
(* allows for and every moment at which the card is exchanged.             *)
(***************************************************************************)
EXTENDS SdCard, SequenceTheorems, TLAPS

\* A high capacity card without the faults that the driver does not stand: each
\* of the five, and a byte addressed card, breaks a property (README, section 4).
Regular == HighCapacity /\ Faults \cap {"late", "token", "crc", "busy", "vanish"} = {}

InitCmds == {"CMD0", "CMD8", "CMD55", "ACMD41", "CMD58", "CMD9", "CMD10"}
Cards == [on : {"none", "native", "spi"}, idle : BOOLEAN, app : BOOLEAN, warm : BOOLEAN,
          block : BOOLEAN, at : Nat, out : Seq(0 .. 255)]

Types == TypeOK /\ card \in Cards

\* The command belongs to the call.
Calling ==
  pc # "idle" =>
    /\ call.op = "init" => cmd \in InitCmds /\ tries >= 1
    /\ call.op = "read" => cmd = "CMD17"
    /\ call.op = "write" => cmd = "CMD24"
    /\ call.op # "none"

\* How far the card has been brought.
Idling == card.on = "spi" /\ card.idle
Ready == card.on = "spi" /\ ~card.idle
Initialising ==
  /\ ocr.status = 0
  /\ cmd = "CMD0" => speed = "slow"
  /\ cmd \in {"CMD9", "CMD10"} => ocr.sectorsize = BlockLen
  /\ card.on = "native" => cmd = "CMD0" /\ pc = "command" /\ card.warm
  /\ card.on = "spi" =>
       /\ cmd = "CMD0" => card.idle \/ pc = "command"
       /\ cmd \in {"CMD8", "CMD55"} => card.idle
       /\ cmd = "CMD55" /\ pc # "command" => card.app
       /\ cmd = "ACMD41" /\ pc = "command" => card.idle /\ card.app
       /\ cmd \in {"CMD58", "CMD9", "CMD10"} => ~card.idle
Brought ==
  /\ card.on # "spi" => card.out = <<>>
  /\ Idling => speed = "slow"
  /\ ocr.status = 1 => ocr.sectorsize = BlockLen /\ ~Idling
  /\ pc = "idle" \/ call.op # "init" => (Ready => ocr.sectorsize = BlockLen)
  /\ pc # "idle" /\ call.op = "init" => Initialising

\* The bytes of a block, behind a gap of g bytes.
Framed(g, bytes) == FF(g) \o <<\hFE>> \o bytes \o <<0, 0>>
Info == [i \in 1 .. InfoLen |-> 0]
Wanted == IF cmd = "CMD17" THEN content[arg] ELSE Info

\* What may come within n transfers.
Coming(n) == {Framed(g, Wanted) : g \in 0 .. n - 1}
             \cup {d \in {<<>>} : cmd = "CMD17" => "silent" \in Faults}

\* R1 and the bytes behind it.
Reply(r, d) ==
  \/ cmd \in {"CMD0", "CMD55"} /\ r = 1 /\ d = <<>>
  \/ cmd = "CMD8" /\ r = 1 /\ d = <<0, 0, 1, \hAA>>
  \/ cmd = "ACMD41" /\ r = R1(card) /\ d = <<>>
  \/ cmd = "CMD58" /\ r = 0 /\ d = <<\hC0, 0, 0, 0>>
  \/ cmd \in {"CMD9", "CMD10"} /\ r = 0 /\ d \in Coming(ReadTimeout)
  \/ cmd = "CMD17" /\ ~card.idle /\ r = 0 /\ d \in Coming(ReadTimeout)
  \/ cmd = "CMD24" /\ ~card.idle /\ r = 0 /\ d = <<>> /\ card.block /\ card.at = arg
  \/ cmd \in {"CMD17", "CMD24"} /\ d = <<>> /\ (r = \h20 \/ (r = 5 /\ card.idle))

Tails == {<<>>, <<0, 0, 1, \hAA>>, <<\hC0, 0, 0, 0>>} \cup Coming(ReadTimeout)
Answering == \E g \in 0 .. count - 1, r \in {0, 1, 5, \h20}, d \in Tails :
               Reply(r, d) /\ card.out = FF(g) \o (<<r>> \o d)

Zeros(n) == [i \in 1 .. n |-> 0]
IsStored == content[arg] = call.data[done + 1]
Silent == card.out = <<>> /\ "silent" \in Faults

\* What the card has still to send, and what the driver knows of the answer.
\* pc: the loop the driver is in.
InR1 == /\ cs = "low" /\ count \in 1 .. R1Polls
        /\ IF card.on = "spi" THEN Answering ELSE card.out = <<>>
InTail == /\ cs = "low" /\ card.on = "spi"
          /\ \/ cmd = "CMD8" /\ res = <<1>> /\ card.out = <<0, 0, 1, \hAA>>
             \/ cmd = "CMD58" /\ res = <<0>> /\ card.out = <<\hC0, 0, 0, 0>>
InToken == /\ cmd \in {"CMD9", "CMD10", "CMD17"} /\ Ready
           /\ cs = "low" \/ (cmd # "CMD17" /\ card.out = <<>>)
           /\ card.out \in Coming(count) /\ count \in 0 .. ReadTimeout
           /\ cmd = "CMD17" => count > 0
InData == /\ cmd \in {"CMD9", "CMD10", "CMD17"} /\ Ready /\ cs = "low"
          /\ card.out = Wanted \o <<0, 0>>
InBlock == /\ cmd = "CMD24" /\ Ready /\ cs = "low" /\ card.out = <<>>
           /\ card.block /\ card.at = arg
InResponse == /\ cmd = "CMD24" /\ Ready /\ cs = "low" /\ count \in 1 .. WriteTimeout
              /\ \/ IsStored /\ \E g \in 0 .. WriteTimeout - 1 : card.out = <<\hE5>> \o Zeros(g)
                 \/ "reject" \in Faults /\ card.out = <<\hED>>
                 \/ Silent
InBusy == /\ cmd = "CMD24" /\ Ready /\ cs = "low" /\ IsStored
          /\ \E g \in 0 .. count - 1 : card.out = Zeros(g)
Judged == /\ cmd \in {"CMD0", "CMD8", "CMD55"} => res[1] = IF card.on = "spi" THEN 1 ELSE \hFF
          /\ cmd = "ACMD41" => res[1] = IF card.on = "spi" THEN R1(card) ELSE \hFF
          /\ cmd = "CMD58" /\ card.on = "spi" => res[1] = 0 /\ res[2] = \hC0
          /\ cmd = "CMD58" /\ card.on # "spi" => res[1] = \hFF
          /\ cmd \in {"CMD9", "CMD10", "CMD17", "CMD24"} => Ready
          /\ cmd = "CMD24" => IsStored
Aborting == /\ cmd \in {"CMD17", "CMD24"}
            /\ \/ card.on # "spi" \/ card.idle \/ res[1] = \h20
               \/ cmd = "CMD24" /\ "reject" \in Faults
Failing == \/ card.on # "spi" /\ cmd \in {"CMD9", "CMD10"}
           \/ count = 0 /\ "silent" \in Faults /\ cmd \in {"CMD17", "CMD24"}

Talking ==
  /\ pc = "r1"       => InR1
  /\ pc = "tail"     => InTail
  /\ pc = "token"    => InToken
  /\ pc = "data"     => InData
  /\ pc = "block"    => InBlock
  /\ pc = "response" => InResponse
  /\ pc = "busy"     => InBusy
  /\ pc = "close"    => Judged
  /\ pc = "abort"    => Aborting
  /\ pc = "failed"   => Failing
  /\ pc \in {"idle", "command", "close", "abort", "failed"} => card.out = <<>>

\* The blocks moved so far.
Upto(n) == IF n = 0 THEN <<>> ELSE IF n = 1 THEN content[call.at]
           ELSE content[call.at] \o content[call.at + 1]
Moved ==
  pc # "idle" =>
    /\ call.op # "read" => buf = <<>>
    /\ call.op = "read" => buf = Upto(IF pc = "close" THEN done + 1 ELSE done)
    /\ call.op = "write" => \A j \in 1 .. done : content[call.at + j - 1] = call.data[j]

SdInv == Types /\ Calling /\ Brought /\ Talking /\ Moved

-----------------------------------------------------------------------------
(* Bytes on the line *)

\* A gap and what follows it.
LEMMA GapPasses ==
  ASSUME NEW g \in Nat, NEW s \in Seq(0 .. 255)
  PROVE  /\ FF(g) \o s \in Seq(0 .. 255)
         /\ g = 0 => FF(g) \o s = s
BY DEF FF

\* A byte of the gap passes.
LEMMA GapByte ==
  ASSUME NEW g \in Nat, g > 0, NEW s \in Seq(0 .. 255)
  PROVE  /\ FF(g) \o s # <<>> /\ Head(FF(g) \o s) = \hFF
         /\ SubSeq(FF(g) \o s, 2, Len(FF(g) \o s)) = FF(g - 1) \o s
BY DEF FF

\* A byte and what follows it, one transfer later.
LEMMA BytePasses ==
  ASSUME NEW x \in 0 .. 255, NEW s \in Seq(0 .. 255)
  PROVE  /\ <<x>> \o s \in Seq(0 .. 255) /\ <<x>> \o s # <<>>
         /\ Head(<<x>> \o s) = x
         /\ SubSeq(<<x>> \o s, 2, Len(<<x>> \o s)) = s
OBVIOUS

\* What is left of the bytes after n transfers.
LEMMA RestIs ==
  ASSUME NEW s \in Seq(0 .. 255), NEW n \in Nat
  PROVE  SubSeq(s, n + 1, Len(s)) \in Seq(0 .. 255)
<1>1. \A i \in 1 .. Len(s) : s[i] \in 0 .. 255
  BY ElementOfSeq
<1>2. n + 1 \in Int /\ Len(s) \in Int /\ \A i \in n + 1 .. Len(s) : i \in 1 .. Len(s)
  BY LenProperties
<1> QED
  BY <1>1, <1>2, SubSeqProperties

\* Nothing follows.
LEMMA NothingPasses ==
  ASSUME NEW n \in Nat
  PROVE  /\ <<>> \in Seq(0 .. 255)
         /\ SubSeq(<<>>, n + 1, Len(<<>>)) = <<>>
OBVIOUS

\* A block behind its gap.
LEMMA FramedIs ==
  ASSUME NEW g \in Nat, NEW b \in Seq(0 .. 255)
  PROVE  /\ Framed(g, b) = FF(g) \o (<<\hFE>> \o (b \o <<0, 0>>))
         /\ Framed(g, b) \in Seq(0 .. 255) /\ Framed(g, b) # <<>>
         /\ b \o <<0, 0>> \in Seq(0 .. 255)
BY DEF Framed, FF

\* Zeros, one transfer later.
LEMMA ZeroPasses ==
  ASSUME NEW g \in Nat
  PROVE  /\ Zeros(g) \in Seq(0 .. 255)
         /\ g = 0 => Zeros(g) = <<>>
         /\ g > 0 => /\ Zeros(g) # <<>> /\ Head(Zeros(g)) = 0
                     /\ SubSeq(Zeros(g), 2, Len(Zeros(g))) = Zeros(g - 1)
BY DEF Zeros

\* All bytes of a block and its CRC have passed.
LEMMA BlockPasses ==
  ASSUME NEW b \in Seq(0 .. 255)
  PROVE  /\ SubSeq(b \o <<0, 0>>, Len(b) + 3, Len(b \o <<0, 0>>)) = <<>>
         /\ [i \in 1 .. Len(b) |-> IF i <= Len(b \o <<0, 0>>) THEN (b \o <<0, 0>>)[i] ELSE \hFF] = b
OBVIOUS

\* Blocks are sequences; the card stores one as it was sent.
LEMMA BlocksAre ==
  ASSUME NEW b \in Blocks
  PROVE  /\ b \in Seq(0 .. 255) /\ Len(b) = BlockLen
         /\ SubSeq(b, 1, BlockLen) = b /\ BlockTaken(b) = b /\ StillMissing(b) = <<>>
<1>1. b \in [1 .. BlockLen -> 0 .. 255] /\ BlockLen \in Nat
  BY SdCardAssumption DEF Blocks
<1>2. b \in Seq(0 .. 255) /\ Len(b) = BlockLen
  BY <1>1
<1>3. SubSeq(b, 1, BlockLen) = b
  BY <1>1, <1>2
<1>4. BlockTaken(b) = b
  BY <1>1, <1>2 DEF BlockTaken
<1>5. StillMissing(b) = <<>>
  BY <1>2 DEF StillMissing, FF
<1> QED
  BY <1>2, <1>3, <1>4, <1>5

\* A card with nothing to send stays as it is when it is clocked.
LEMMA ClockedQuiet ==
  ASSUME NEW c \in Cards, c.out = <<>>, NEW sel, NEW n \in Nat
  PROVE  Clocked(c, sel, n) = c
BY NothingPasses DEF Clocked, Cards

\* A transfer to a selected card.
LEMMA Passing ==
  ASSUME card \in Cards, cs = "low", Transfer
  PROVE  /\ card' = [card EXCEPT !.out = SubSeq(card.out, 2, Len(card.out))]
         /\ card.out # <<>> => Drives = Head(card.out)
BY DEF Transfer, Clocked, Drives

\* A transfer with nothing to be sent.
LEMMA QuietPasses ==
  ASSUME card \in Cards, card.out = <<>>, Transfer
  PROVE  card' = card /\ Drives = \hFF
BY ClockedQuiet DEF Transfer, Drives

-----------------------------------------------------------------------------
(* Calls *)

\* The calls of the file system name blocks of the disk.
LEMMA CallsAre ==
  ASSUME NEW c \in D!Calls
  PROVE  /\ c.op \in {"init", "read", "write"}
         /\ c.op \in {"read", "write"} =>
              c.at \in Sectors /\ c.n \in 1 .. 2 /\ c.at + c.n - 1 \in Sectors
         /\ c.op = "write" => c.data \in [1 .. c.n -> Blocks]
BY DEF D!Calls, D!Ranges

\* The block the driver is at.
LEMMA ArgIs ==
  ASSUME Types, Calling, pc # "idle", cmd \in {"CMD17", "CMD24"}
  PROVE  /\ arg = call.at + done /\ arg \in Sectors /\ call.at \in Nat
         /\ content[arg] \in Blocks /\ call.n \in 1 .. 2 /\ done \in 0 .. call.n - 1
         /\ cmd = "CMD24" => call.op = "write" /\ call.data[done + 1] \in Blocks
         /\ cmd = "CMD17" => call.op = "read"
<1>1. call \in D!Calls /\ call.op \in {"read", "write"}
  BY CallsAre DEF Types, TypeOK, Calling, InitCmds
<1>2. call.n \in 1 .. 2 /\ call.at \in Sectors /\ call.at + call.n - 1 \in Sectors
  BY <1>1, CallsAre
<1>3. done < call.n /\ done \in 0 .. 1
  BY <1>1 DEF Types, TypeOK
<1>4. call.at + done \in Sectors /\ call.at \in Nat /\ done \in 0 .. call.n - 1
  <2>1. done = 0 \/ (done = 1 /\ call.n = 2)
    BY <1>2, <1>3
  <2>2. call.at \in Nat
    BY <1>2, SdCardAssumption
  <2>3. CASE done = 0
    <3>1. call.at + done = call.at
      BY <2>2, <2>3
    <3> QED
      BY <1>2, <2>2, <2>3, <3>1
  <2>4. CASE done = 1 /\ call.n = 2
    <3>1. call.at + done = call.at + call.n - 1
      BY <2>2, <2>4
    <3> QED
      BY <1>2, <2>2, <2>4, <3>1
  <2> QED
    BY <2>1, <2>3, <2>4
<1>5. cmd = "CMD24" => call.op = "write" /\ call.data \in [1 .. call.n -> Blocks]
  BY <1>1, CallsAre DEF Calling
<1>6. arg = call.at + done
  BY DEF arg
<1>7. content[arg] \in Blocks
  BY <1>4, <1>6 DEF Types, TypeOK
<1>8. cmd = "CMD24" => call.data[done + 1] \in Blocks
  BY <1>2, <1>4, <1>5
<1>9. cmd = "CMD17" => call.op = "read"
  BY <1>1 DEF Calling
<1> QED
  BY <1>2, <1>4, <1>5, <1>6, <1>7, <1>8, <1>9

\* The block that is read.
LEMMA WantedIs ==
  ASSUME Types, Calling, pc # "idle"
  PROVE  /\ Wanted \in Seq(0 .. 255)
         /\ Len(Wanted) = IF cmd = "CMD17" THEN BlockLen ELSE InfoLen
<1>1. CASE cmd = "CMD17"
  BY <1>1, ArgIs, BlocksAre DEF Wanted
<1>2. CASE cmd # "CMD17"
  BY <1>2, SdCardAssumption DEF Wanted, Info
<1> QED
  BY <1>1, <1>2

-----------------------------------------------------------------------------
(* The answers of the card *)

\* Clocking takes bytes from what the card has to send, and nothing else.
LEMMA ClockedIs ==
  ASSUME NEW c \in Cards, NEW sel, NEW n \in Nat
  PROVE  /\ Clocked(c, sel, n) \in Cards
         /\ \E o \in Seq(0 .. 255) : Clocked(c, sel, n) = [c EXCEPT !.out = o]
<1>1. c.out \in Seq(0 .. 255) /\ c = [c EXCEPT !.out = c.out]
  BY DEF Cards
<1>2. SubSeq(c.out, n + 1, Len(c.out)) \in Seq(0 .. 255)
  BY <1>1, RestIs
<1>3. Clocked(c, sel, n) = [c EXCEPT !.out = SubSeq(c.out, n + 1, Len(c.out))] \/ Clocked(c, sel, n) = c
  BY DEF Clocked
<1> QED
  BY <1>1, <1>2, <1>3, ZenonT(40) DEF Cards

\* A regular card sends the block it was asked for.
LEMMA SentIs ==
  ASSUME Regular, NEW b, NEW d \in DataSent(b)
  PROVE  \E g \in Gaps : d = Framed(g, b)
BY DEF Regular, DataSent, Framed

\* A silent card sends nothing.
LEMMA NothingIs ==
  ASSUME NEW f, NEW d \in Nothing(f)
  PROVE  d = <<>> /\ f \in Faults
BY DEF Nothing

\* CSD or CID as sent, or nothing.
SendsInfo(s) == \E d : /\ s = <<0>> \o d
                       /\ d = <<>> \/ \E g \in Gaps : d = Framed(g, Info)

\* The answer of an initialised card to CMD9 and CMD10.
LEMMA InfoServed ==
  ASSUME Regular, NEW c \in Cards, ~c.idle, NEW k \in {"CMD9", "CMD10"}, NEW a,
         NEW p \in Served(c, k, a)
  PROVE  SendsInfo(p[2])
<1>1. PICK d \in DataSent(Info) \cup Nothing("deaf") :
        p = <<[c EXCEPT !.app = FALSE], <<0>> \o d>>
  BY DEF Served, Info
<1>2. d = <<>> \/ \E g \in Gaps : d = Framed(g, Info)
  BY SentIs, NothingIs
<1>3. p[2] = <<0>> \o d
  BY <1>1
<1> QED
  BY <1>2, <1>3 DEF SendsInfo

\* The answer of an initialised card to CMD17.
LEMMA ReadServed ==
  ASSUME Regular, NEW c \in Cards, ~c.idle, NEW k, k = "CMD17", NEW a, a \in DOMAIN content,
         NEW p \in Served(c, k, a)
  PROVE  \/ p[2] = <<\h20>>
         \/ \E d : /\ p[2] = <<0>> \o d
                   /\ \/ d = <<>> /\ "silent" \in Faults
                      \/ \E g \in Gaps : d = Framed(g, content[a])
<1>1. CASE p = <<[c EXCEPT !.app = FALSE], <<\h20>>>>
  BY <1>1
<1>2. CASE p # <<[c EXCEPT !.app = FALSE], <<\h20>>>>
  <2>1. PICK d \in DataSent(content[a]) \cup Nothing("silent") :
          p = <<[c EXCEPT !.app = FALSE], <<0>> \o d>>
    BY <1>2 DEF Served, Regular
  <2>2. (d = <<>> /\ "silent" \in Faults) \/ \E g \in Gaps : d = Framed(g, content[a])
    BY SentIs, NothingIs
  <2>3. p[2] = <<0>> \o d
    BY <2>1
  <2> QED
    BY <2>2, <2>3
<1> QED
  BY <1>1, <1>2

\* The answer to each command of a card in the state the driver expects.
LEMMA ServedIs ==
  ASSUME Regular, NEW c \in Cards, NEW k, NEW a \in Nat, NEW p \in Served(c, k, a),
         \/ k = "CMD0"
         \/ k \in {"CMD8", "CMD55"} /\ c.idle
         \/ k = "ACMD41" /\ c.app
         \/ k \in {"CMD58", "CMD9", "CMD10"} /\ ~c.idle
         \/ k \in {"CMD17", "CMD24"} /\ (~c.idle => a \in DOMAIN content)
  PROVE  /\ p[1] \in Cards /\ p = <<p[1], p[2]>>
         /\ k = "CMD0" => p[1].idle /\ p[2] = <<1>>
         /\ k = "CMD8" => p[1].idle /\ p[2] = <<1, 0, 0, 1, \hAA>>
         /\ k = "CMD55" => p[1].idle /\ p[1].app /\ p[2] = <<1>>
         /\ k = "ACMD41" => p[2] = <<R1(p[1])>> /\ R1(p[1]) \in {0, 1}
         /\ k = "CMD58" => ~p[1].idle /\ p[2] = <<0, \hC0, 0, 0, 0>>
         /\ k \in {"CMD9", "CMD10"} => ~p[1].idle
         /\ k \in {"CMD17", "CMD24"} => p[1].idle = c.idle
         /\ k \in {"CMD17", "CMD24"} /\ c.idle => p[2] = <<5>>
         /\ k = "CMD24" /\ ~c.idle =>
              p[2] = <<\h20>> \/ (p[2] = <<0>> /\ p[1].block /\ p[1].at = a)
<1>0. R1(c) = (IF c.idle THEN 1 ELSE 0) /\ c.idle \in BOOLEAN
  BY DEF R1, Cards
<1>1. CASE k = "CMD0"
  <2>1. p = <<[c EXCEPT !.app = FALSE, !.idle = TRUE], <<1>>>>
    BY <1>1 DEF Served
  <2>2. p[1] \in Cards /\ p = <<p[1], p[2]>> /\ p[2] = <<1>> /\ p[1].idle
    BY <1>0, <1>1, <2>1, ZenonT(40) DEF Cards
  <2> QED
    BY <1>1, <2>2
<1>2. CASE k = "CMD8"
  <2>1. p = <<[c EXCEPT !.app = FALSE], <<1, 0, 0, 1, \hAA>>>>
    BY <1>0, <1>2 DEF Served
  <2>2. p[1] \in Cards /\ p = <<p[1], p[2]>> /\ p[2] = <<1, 0, 0, 1, \hAA>> /\ p[1].idle
    BY <1>0, <1>2, <2>1, ZenonT(40) DEF Cards
  <2> QED
    BY <1>2, <2>2
<1>3. CASE k = "CMD55"
  <2>1. p = <<[c EXCEPT !.app = TRUE], <<1>>>>
    BY <1>0, <1>3 DEF Served
  <2>2. p[1] \in Cards /\ p = <<p[1], p[2]>> /\ p[2] = <<1>> /\ p[1].idle /\ p[1].app
    BY <1>0, <1>3, <2>1 DEF Cards
  <2> QED
    BY <1>3, <2>2
<1>4. CASE k = "ACMD41"
  <2>1. PICK i \in IF c.idle THEN BOOLEAN ELSE {FALSE} :
          p = <<[[c EXCEPT !.app = FALSE] EXCEPT !.idle = i], <<IF i THEN 1 ELSE 0>>>>
    BY <1>4 DEF Served
  <2>2. i \in BOOLEAN
    BY <2>1
  <2>3. p[1] \in Cards /\ p = <<p[1], p[2]>> /\ p[2] = <<IF i THEN 1 ELSE 0>> /\ p[1].idle = i
    BY <2>1, <2>2, ZenonT(40) DEF Cards
  <2>4. R1(p[1]) = IF i THEN 1 ELSE 0
    BY <2>3 DEF R1
  <2> QED
    BY <1>4, <2>3, <2>4
<1>5. CASE k = "CMD58"
  <2>1. p = <<[c EXCEPT !.app = FALSE], <<0, \hC0, 0, 0, 0>>>>
    BY <1>0, <1>5 DEF Served, Regular
  <2>2. p[1] \in Cards /\ p = <<p[1], p[2]>> /\ p[2] = <<0, \hC0, 0, 0, 0>> /\ ~p[1].idle
    BY <1>0, <1>5, <2>1, ZenonT(40) DEF Cards
  <2> QED
    BY <1>5, <2>2
<1>6. CASE k \in {"CMD9", "CMD10"}
  <2>1. PICK d \in DataSent(Info) \cup Nothing("deaf") :
          p = <<[c EXCEPT !.app = FALSE], <<0>> \o d>>
    BY <1>6 DEF Served, Info
  <2>2. p[1] \in Cards /\ p = <<p[1], p[2]>> /\ ~p[1].idle
    BY <1>6, <2>1 DEF Cards
  <2> QED
    BY <1>6, <2>2
<1>7. CASE k \in {"CMD17", "CMD24"} /\ c.idle
  <2>1. Illegal(c) = 5
    BY <1>0, <1>7 DEF Illegal
  <2>2. p = <<[c EXCEPT !.app = FALSE], <<5>>>>
    BY <1>7, <2>1 DEF Served
  <2>3. p[1] \in Cards /\ p = <<p[1], p[2]>> /\ p[2] = <<5>> /\ p[1].idle = c.idle
    BY <2>2, ZenonT(40) DEF Cards
  <2> QED
    BY <1>7, <2>3
<1>8. CASE k = "CMD17" /\ ~c.idle
  <2>1. CASE p = <<[c EXCEPT !.app = FALSE], <<\h20>>>>
    <3>1. p[1] \in Cards /\ p = <<p[1], p[2]>> /\ p[1].idle = c.idle
      BY <2>1, ZenonT(40) DEF Cards
    <3> QED
      BY <1>8, <3>1
  <2>2. CASE p # <<[c EXCEPT !.app = FALSE], <<\h20>>>>
    <3>1. PICK d \in DataSent(content[a]) \cup Nothing("silent") :
            p = <<[c EXCEPT !.app = FALSE], <<0>> \o d>>
      BY <1>8, <2>2 DEF Served, Regular
    <3>2. p[1] \in Cards /\ p = <<p[1], p[2]>> /\ p[1].idle = c.idle
      BY <3>1, ZenonT(40) DEF Cards
    <3> QED
      BY <1>8, <3>2
  <2> QED
    BY <2>1, <2>2
<1>9. CASE k = "CMD24" /\ ~c.idle
  <2>1. CASE p = <<[c EXCEPT !.app = FALSE], <<\h20>>>>
    <3>1. p[1] \in Cards /\ p = <<p[1], p[2]>> /\ p[2] = <<\h20>> /\ p[1].idle = c.idle
      BY <2>1, ZenonT(40) DEF Cards
    <3> QED
      BY <1>9, <3>1
  <2>2. CASE p # <<[c EXCEPT !.app = FALSE], <<\h20>>>>
    <3>1. p = <<[c EXCEPT !.app = FALSE, !.block = TRUE, !.at = a], <<0>>>>
      BY <1>9, <2>2 DEF Served, Regular
    <3>2. /\ p[1] \in Cards /\ p = <<p[1], p[2]>> /\ p[2] = <<0>> /\ p[1].idle = c.idle
          /\ p[1].block /\ p[1].at = a
      BY <3>1, ZenonT(40) DEF Cards
    <3> QED
      BY <1>9, <3>2
  <2> QED
    BY <2>1, <2>2
<1> QED
  BY <1>1, <1>2, <1>3, <1>4, <1>5, <1>6, <1>7, <1>8, <1>9

\* A card that the command reaches answers it within the polls of SD_readR1.
LEMMA TakesIs ==
  ASSUME NEW c \in Cards, c.out = <<>>, NEW k, NEW a, NEW c2 \in Takes(c, k, a)
  PROVE  \/ /\ c2 = c /\ c.on # "spi"
            /\ c.on = "none" \/ ~(k = "CMD0" /\ c.warm)
         \/ /\ c.on = "spi" \/ (c.on # "none" /\ k = "CMD0" /\ c.warm)
            /\ \E g \in Gaps, p \in Served(c, k, a) :
                 c2 = Answered(p, g, k)
<1>1. CASE c.on = "none" \/ (c.on = "native" /\ ~(k = "CMD0" /\ c.warm))
  BY <1>1 DEF Takes, Cards
<1>2. CASE ~(c.on = "none" \/ (c.on = "native" /\ ~(k = "CMD0" /\ c.warm)))
  <2>1. c2 \in Answers(c, k, a)
    BY <1>2 DEF Takes, Cards
  <2>2. \E p \in Served(c, k, a), g \in Gaps : c2 = Answered(p, g, k)
    BY <2>1 DEF Answers
  <2>3. c.on = "spi" \/ (c.on # "none" /\ k = "CMD0" /\ c.warm)
    BY <1>2 DEF Cards
  <2> QED
    BY <2>2, <2>3
<1> QED
  BY <1>1, <1>2

-----------------------------------------------------------------------------
(* A command and its answer *)

\* Every gap is shorter than the polls and time-outs.
LEMMA GapsAre ==
  ASSUME NEW g \in Gaps
  PROVE  /\ g \in Nat /\ g \in 0 .. R1Polls - 1
         /\ g \in 0 .. ReadTimeout - 1 /\ g \in 0 .. WriteTimeout - 1
BY SdCardAssumption

\* The card after a command it answers.
LEMMA AnsweredIs ==
  ASSUME NEW p, p[1] \in Cards, p[2] \in Seq(0 .. 255), NEW g \in Nat, NEW k
  PROVE  /\ Answered(p, g, k) \in Cards
         /\ Answered(p, g, k).on = "spi" /\ Answered(p, g, k).out = FF(g) \o p[2]
         /\ Answered(p, g, k).idle = p[1].idle /\ Answered(p, g, k).app = p[1].app
         /\ Answered(p, g, k).at = p[1].at
         /\ k = "CMD24" => Answered(p, g, k).block = p[1].block
<1>1. FF(g) \o p[2] \in Seq(0 .. 255)
  BY GapPasses
<1>2. PICK o \in Seq(0 .. 255) : o = FF(g) \o p[2]
  BY <1>1
<1>3. PICK b \in BOOLEAN : b = IF k = "CMD24" THEN p[1].block ELSE FALSE
  BY DEF Cards
<1>4. Answered(p, g, k) = [p[1] EXCEPT !.on = "spi", !.block = b, !.out = o]
  BY <1>2, <1>3 DEF Answered
<1>5. Answered(p, g, k) = [on |-> "spi", idle |-> p[1].idle, app |-> p[1].app, warm |-> p[1].warm,
                           block |-> b, at |-> p[1].at, out |-> o]
  BY <1>4 DEF Cards
<1>6. p[1].idle \in BOOLEAN /\ p[1].app \in BOOLEAN /\ p[1].warm \in BOOLEAN /\ p[1].at \in Nat
  BY DEF Cards
<1>7. Answered(p, g, k) \in Cards
  BY <1>5, <1>6 DEF Cards
<1>8. /\ Answered(p, g, k).on = "spi" /\ Answered(p, g, k).out = o /\ Answered(p, g, k).block = b
      /\ Answered(p, g, k).idle = p[1].idle /\ Answered(p, g, k).app = p[1].app
      /\ Answered(p, g, k).at = p[1].at
  BY <1>5
<1>9. k = "CMD24" => b = p[1].block
  BY <1>3
<1> QED
  BY <1>2, <1>7, <1>8, <1>9

\* What a command makes of the card, and what the driver will read.
Answer(r, d, p) ==
  /\ p[1] \in Cards /\ p[2] = <<r>> \o d /\ p = <<p[1], p[2]>>
  /\ r \in {0, 1, 5, \h20} /\ d \in Seq(0 .. 255) /\ d \in Tails
  /\ \/ cmd \in {"CMD0", "CMD8"} /\ p[1].idle
     \/ cmd = "CMD55" /\ p[1].idle /\ p[1].app
     \/ cmd = "ACMD41"
     \/ cmd \in {"CMD58", "CMD9", "CMD10"} /\ ~p[1].idle
     \/ cmd \in {"CMD17", "CMD24"} /\ p[1].idle = card.idle
  /\ \/ cmd \in {"CMD0", "CMD55"} /\ r = 1 /\ d = <<>>
     \/ cmd = "CMD8" /\ r = 1 /\ d = <<0, 0, 1, \hAA>>
     \/ cmd = "ACMD41" /\ r = R1(p[1]) /\ d = <<>>
     \/ cmd = "CMD58" /\ r = 0 /\ d = <<\hC0, 0, 0, 0>>
     \/ cmd \in {"CMD9", "CMD10"} /\ r = 0 /\ d \in Coming(ReadTimeout)
     \/ cmd = "CMD17" /\ ~p[1].idle /\ r = 0 /\ d \in Coming(ReadTimeout)
     \/ cmd = "CMD24" /\ ~p[1].idle /\ r = 0 /\ d = <<>> /\ p[1].block /\ p[1].at = arg
     \/ cmd \in {"CMD17", "CMD24"} /\ d = <<>> /\ (r = \h20 \/ (r = 5 /\ p[1].idle))

\* What comes within the time-out is bytes.
LEMMA ComingIs ==
  ASSUME Types, Calling, pc # "idle", NEW n \in Nat, NEW d \in Coming(n)
  PROVE  d \in Seq(0 .. 255)
<1>1. CASE d = <<>>
  BY <1>1, NothingPasses
<1>2. CASE \E g \in 0 .. n - 1 : d = Framed(g, Wanted)
  BY <1>2, FramedIs, WantedIs
<1> QED
  BY <1>1, <1>2 DEF Coming

\* The answer of a card in the state the driver has brought it to.
LEMMA AnswerIs ==
  ASSUME Regular, Types, Calling, Brought, pc = "command", card.on # "none", NEW p \in Served(card, cmd, arg),
         card.on = "spi" \/ (cmd = "CMD0" /\ card.warm)
  PROVE  \E r, d : Answer(r, d, p)
<1>0. /\ card \in Cards /\ card.idle \in BOOLEAN /\ pc # "idle"
      /\ cmd \in InitCmds \cup {"CMD17", "CMD24"}
  BY DEF Types, TypeOK, Cards, InitCmds
<1>e. <<>> \in Tails /\ <<0, 0, 1, \hAA>> \in Tails /\ <<\hC0, 0, 0, 0>> \in Tails /\ Coming(ReadTimeout) \subseteq Tails
  BY DEF Tails
<1>s. /\ <<>> \in Seq(0 .. 255) /\ <<0, 0, 1, \hAA>> \in Seq(0 .. 255) /\ <<\hC0, 0, 0, 0>> \in Seq(0 .. 255)
      /\ \A x : <<x>> = <<x>> \o <<>>
      /\ <<1, 0, 0, 1, \hAA>> = <<1>> \o <<0, 0, 1, \hAA>>
      /\ <<0, \hC0, 0, 0, 0>> = <<0>> \o <<\hC0, 0, 0, 0>>
  OBVIOUS
<1>i. cmd \in InitCmds => call.op = "init"
  BY <1>0, CallsAre DEF Types, TypeOK, Calling, InitCmds
<1>c. \A q, x : <<q, x>>[1] = q /\ <<q, x>>[2] = x
  OBVIOUS
<1>n. cmd = "CMD17" => Wanted = content[arg]
  BY DEF Wanted
<1>w. cmd # "CMD17" => Wanted = Info
  BY DEF Wanted
<1>g. \A g \in Gaps : Framed(g, Wanted) \in Coming(ReadTimeout)
  BY GapsAre DEF Coming
<1>q. \A d \in Coming(ReadTimeout) : d \in Seq(0 .. 255)
  BY <1>0, ComingIs, SdCardAssumption
<1>m. cmd # "CMD17" \/ "silent" \in Faults => <<>> \in Coming(ReadTimeout)
  BY DEF Coming
<1>a. cmd \in {"CMD17", "CMD24"} => arg \in DOMAIN content
  BY <1>0, ArgIs DEF Types, TypeOK
<1>b. arg \in Nat
  BY <1>0, ArgIs, SdCardAssumption DEF arg
<1>h. \/ cmd = "CMD0"
      \/ cmd \in {"CMD8", "CMD55"} /\ card.idle
      \/ cmd = "ACMD41" /\ card.app
      \/ cmd \in {"CMD58", "CMD9", "CMD10"} /\ ~card.idle
      \/ cmd \in {"CMD17", "CMD24"} /\ (~card.idle => arg \in DOMAIN content)
  BY <1>0, <1>a, <1>i DEF Brought, Initialising, InitCmds
<1>p. p[1] \in Cards /\ p = <<p[1], p[2]>>
  BY <1>0, <1>b, <1>h, ServedIs
<1>1. CASE cmd \in {"CMD0", "CMD55"}
  <2>1. p[1].idle /\ p[2] = <<1>> /\ (cmd = "CMD55" => p[1].app)
    BY <1>0, <1>b, <1>h, <1>1, ServedIs
  <2>2. Answer(1, <<>>, p)
    BY <1>1, <1>e, <1>s, <1>p, <2>1 DEF Answer
  <2> QED
    BY <2>2
<1>2. CASE cmd = "CMD8"
  <2>1. p[1].idle /\ p[2] = <<1, 0, 0, 1, \hAA>>
    BY <1>0, <1>b, <1>h, <1>2, ServedIs
  <2>2. Answer(1, <<0, 0, 1, \hAA>>, p)
    BY <1>2, <1>e, <1>s, <1>p, <2>1 DEF Answer
  <2> QED
    BY <2>2
<1>3. CASE cmd = "ACMD41"
  <2>1. p[2] = <<R1(p[1])>> /\ R1(p[1]) \in {0, 1}
    BY <1>0, <1>b, <1>h, <1>3, ServedIs
  <2>2. Answer(R1(p[1]), <<>>, p)
    BY <1>3, <1>e, <1>s, <1>p, <2>1 DEF Answer
  <2> QED
    BY <2>2
<1>4. CASE cmd = "CMD58"
  <2>1. ~p[1].idle /\ p[2] = <<0, \hC0, 0, 0, 0>>
    BY <1>0, <1>b, <1>h, <1>4, ServedIs
  <2>2. Answer(0, <<\hC0, 0, 0, 0>>, p)
    BY <1>4, <1>e, <1>s, <1>p, <2>1 DEF Answer
  <2> QED
    BY <2>2
<1>5. CASE cmd \in {"CMD9", "CMD10"}
  <2>a. ~card.idle
    BY <1>h, <1>5
  <2>0. ~p[1].idle
    BY <1>0, <1>b, <1>h, <1>5, ServedIs
  <2>1. PICK d : /\ p[2] = <<0>> \o d
                 /\ \/ d = <<>>
                    \/ \E g \in Gaps : d = Framed(g, Info)
    <3>1. SendsInfo(p[2])
      BY <1>0, <1>5, <2>a, InfoServed
    <3> QED
      BY <3>1 DEF SendsInfo
  <2>2. d \in Coming(ReadTimeout)
    BY <1>5, <1>g, <1>m, <1>w, <2>1
  <2>3. Answer(0, d, p)
    BY <1>5, <1>e, <1>q, <1>p, <2>0, <2>1, <2>2 DEF Answer
  <2> QED
    BY <2>3
<1>6. CASE cmd \in {"CMD17", "CMD24"}
  <2>1. p[1].idle = card.idle
    BY <1>0, <1>b, <1>h, <1>6, ServedIs
  <2>2. CASE card.idle
    <3>1. p[2] = <<5>>
      BY <1>0, <1>b, <1>h, <1>6, <2>2, ServedIs
    <3>2. Answer(5, <<>>, p)
      BY <1>6, <1>e, <1>s, <1>p, <2>1, <2>2, <3>1 DEF Answer
    <3> QED
      BY <3>2
  <2>3. CASE ~card.idle /\ p[2] = <<\h20>>
    <3>1. Answer(\h20, <<>>, p)
      BY <1>6, <1>e, <1>s, <1>p, <2>1, <2>3 DEF Answer
    <3> QED
      BY <3>1
  <2>4. CASE ~card.idle /\ p[2] # <<\h20>> /\ cmd = "CMD17"
    <3>0. \/ p[2] = <<\h20>>
          \/ \E d : /\ p[2] = <<0>> \o d
                    /\ \/ d = <<>> /\ "silent" \in Faults
                       \/ \E g \in Gaps : d = Framed(g, content[arg])
      BY <1>0, <1>a, <2>4, ReadServed
    <3>1. PICK d : /\ p[2] = <<0>> \o d
                   /\ \/ d = <<>> /\ "silent" \in Faults
                      \/ \E g \in Gaps : d = Framed(g, content[arg])
      BY <2>4, <3>0
    <3>2. d \in Coming(ReadTimeout)
      BY <1>g, <1>m, <1>n, <2>4, <3>1
    <3>3. Answer(0, d, p)
      BY <1>e, <1>q, <1>p, <2>1, <2>4, <3>1, <3>2 DEF Answer
    <3> QED
      BY <3>3
  <2>5. CASE ~card.idle /\ p[2] # <<\h20>> /\ cmd = "CMD24"
    <3>1. p[2] = <<0>> /\ p[1].block /\ p[1].at = arg
      BY <1>0, <1>b, <1>h, <2>5, ServedIs
    <3>2. Answer(0, <<>>, p)
      BY <1>e, <1>s, <1>p, <2>1, <2>5, <3>1 DEF Answer
    <3> QED
      BY <3>2
  <2> QED
    BY <1>6, <2>2, <2>3, <2>4, <2>5
<1> QED
  BY <1>0, <1>1, <1>2, <1>3, <1>4, <1>5, <1>6 DEF InitCmds

-----------------------------------------------------------------------------
(* The steps of a command *)

\* The block a step of the same command works on.
LEMMA SameCommand ==
  ASSUME cmd' = cmd, call' = call, done' = done, content' = content
  PROVE  /\ arg' = arg /\ Wanted' = Wanted
         /\ \A n : Coming(n)' = Coming(n)
         /\ Tails' = Tails
<1>1. arg' = arg
  BY DEF arg
<1>2. Wanted' = Wanted
  BY <1>1 DEF Wanted
<1>3. \A n : Coming(n)' = Coming(n)
  BY <1>2 DEF Coming
<1> QED
  BY <1>1, <1>2, <1>3 DEF Tails

\* A step within a command: the card has sent some bytes.
OnTheWay ==
  /\ pc \notin {"idle", "command"} /\ pc' \notin {"idle", "command"}
  /\ call' = call /\ done' = done /\ cmd' = cmd /\ tries' = tries /\ ocr' = ocr
  /\ speed' = speed /\ content' = content /\ calls' = calls /\ answer' = answer
  /\ card' \in Cards /\ card'.on = card.on /\ card'.idle = card.idle /\ card'.app = card.app
  /\ card'.warm = card.warm /\ card'.block = card.block /\ card'.at = card.at
  /\ card.on # "spi" => card'.out = <<>>

\* Such a step keeps the command, and how far the card has been brought.
LEMMA WayKept ==
  ASSUME SdInv, OnTheWay
  PROVE  Calling' /\ Brought'
<1>1. Calling'
  BY DEF SdInv, OnTheWay, Calling
<1>2. Brought'
  BY DEF SdInv, OnTheWay, Brought, Initialising, Idling, Ready
<1> QED
  BY <1>1, <1>2

\* The types of the variables that such a step may change.
LEMMA WayTypes ==
  ASSUME SdInv, OnTheWay,
         pc' \in {"r1", "tail", "token", "data", "block", "response", "busy", "close", "abort", "failed"},
         buf' \in Seq(0 .. 255), Len(buf') <= 2 * BlockLen,
         res' \in Seq(0 .. 255), Len(res') <= 5, count' \in Nat, cs' \in {"low", "high"}
  PROVE  Types'
<1>1. card'.on \in {"none", "native", "spi"} /\ card'.out \in Seq(0 .. 255)
  BY DEF OnTheWay, Cards
<1> QED
  BY <1>1 DEF SdInv, OnTheWay, Types, TypeOK

\* A transfer within a command.
LEMMA WayClocked ==
  ASSUME SdInv, NEW sel, NEW n \in Nat, card' = Clocked(card, sel, n),
         pc \notin {"idle", "command"}, pc' \notin {"idle", "command"},
         call' = call, done' = done, cmd' = cmd, tries' = tries, ocr' = ocr, speed' = speed,
         content' = content, calls' = calls, answer' = answer
  PROVE  OnTheWay
<1>1. card \in Cards
  BY DEF SdInv, Types
<1>2. PICK o \in Seq(0 .. 255) : card' = [card EXCEPT !.out = o]
  BY <1>1, ClockedIs
<1>3. card' \in Cards
  BY <1>1, ClockedIs
<1>4. card.on # "spi" => card' = card
  BY <1>1, ClockedQuiet DEF SdInv, Brought
<1> QED
  BY <1>1, <1>2, <1>3, <1>4 DEF OnTheWay, SdInv, Brought, Cards

\* SD_command: the card answers, or is not there.
LEMMA CommandKept ==
  ASSUME Regular, SdInv, SD_command
  PROVE  SdInv'
<1>0. /\ pc = "command" /\ pc' = "r1" /\ cs' = "low" /\ count' = R1Polls
      /\ call' = call /\ done' = done /\ buf' = buf /\ answer' = answer /\ calls' = calls
      /\ cmd' = cmd /\ res' = res /\ tries' = tries /\ ocr' = ocr /\ speed' = speed
      /\ content' = content
  BY DEF SD_command
<1>1. card \in Cards /\ card.out = <<>>
  BY <1>0 DEF SdInv, Types, Talking
<1>2. card' \in Takes(card, cmd, arg)
  BY <1>1, ClockedQuiet DEF SD_command
<1>3. arg' = arg /\ Tails' = Tails /\ \A n : Coming(n)' = Coming(n)
  BY <1>0, SameCommand
<1>c. Calling'
  BY <1>0 DEF SdInv, Calling
<1>m. Moved'
  <2>1. \A n : Upto(n)' = Upto(n)
    BY <1>0 DEF Upto
  <2> QED
    BY <1>0, <2>1 DEF SdInv, Moved
<1>t. card' \in Cards => Types'
  BY <1>0, SdCardAssumption DEF SdInv, Types, TypeOK, Cards
<1>i. cmd \in InitCmds <=> call.op = "init"
  BY <1>0, CallsAre DEF SdInv, Types, TypeOK, Calling, InitCmds
<1>p. R1Polls \in Nat /\ R1Polls > 0
  BY SdCardAssumption
<1>4. CASE card' = card /\ card.on # "spi" /\ (card.on = "none" \/ ~(cmd = "CMD0" /\ card.warm))
  <2>1. Brought'
    BY <1>0, <1>4 DEF SdInv, Brought, Initialising, Idling, Ready
  <2>2. Talking'
    BY <1>0, <1>1, <1>4, <1>p DEF Talking, InR1
  <2> QED
    BY <1>1, <1>4, <1>c, <1>m, <1>t, <2>1, <2>2 DEF SdInv
<1>5. ASSUME card.on # "none", NEW g \in Gaps, NEW p \in Served(card, cmd, arg),
             card' = Answered(p, g, cmd), card.on = "spi" \/ (cmd = "CMD0" /\ card.warm)
      PROVE  SdInv'
  <2>1. PICK r, d : Answer(r, d, p)
    BY <1>0, <1>5, AnswerIs DEF SdInv
  <2>2. /\ p[1] \in Cards /\ p[2] = <<r>> \o d /\ r \in 0 .. 255 /\ r \in {0, 1, 5, \h20}
        /\ d \in Seq(0 .. 255) /\ d \in Tails
    BY <2>1 DEF Answer
  <2>3. p[2] \in Seq(0 .. 255)
    BY <2>2, BytePasses, ZenonT(40)
  <2>4. g \in Nat /\ g \in 0 .. R1Polls - 1
    BY GapsAre
  <2>5. /\ card' \in Cards /\ card'.on = "spi" /\ card'.out = FF(g) \o (<<r>> \o d)
        /\ card'.idle = p[1].idle /\ card'.app = p[1].app /\ card'.at = p[1].at
        /\ cmd = "CMD24" => card'.block = p[1].block
    <3>1. /\ Answered(p, g, cmd) \in Cards /\ Answered(p, g, cmd).on = "spi"
          /\ Answered(p, g, cmd).out = FF(g) \o p[2]
          /\ Answered(p, g, cmd).idle = p[1].idle /\ Answered(p, g, cmd).app = p[1].app
          /\ Answered(p, g, cmd).at = p[1].at
          /\ cmd = "CMD24" => Answered(p, g, cmd).block = p[1].block
      BY <2>2, <2>3, <2>4, AnsweredIs, ZenonT(40)
    <3> QED
      BY <1>5, <2>2, <3>1
  <2>6. R1(card)' = R1(p[1])
    BY <2>5 DEF R1
  <2>7. Reply(r, d)'
    BY <1>0, <1>3, <2>1, <2>5, <2>6 DEF Answer, Reply
  <2>8. Answering'
    BY <1>0, <1>3, <2>2, <2>4, <2>5, <2>7 DEF Answering
  <2>9. Talking'
    BY <1>0, <1>p, <2>5, <2>8 DEF Talking, InR1
  <2>10. Brought'
    <3>1. cmd \in {"CMD0", "CMD8", "CMD55"} => card'.idle
      BY <2>1, <2>5 DEF Answer
    <3>2. cmd = "CMD55" => card'.app
      BY <2>1, <2>5 DEF Answer
    <3>3. cmd \in {"CMD58", "CMD9", "CMD10"} => ~card'.idle
      BY <2>1, <2>5 DEF Answer
    <3>4. cmd \in {"CMD17", "CMD24"} => card'.idle = card.idle /\ card.on = "spi"
      BY <1>5, <2>1, <2>5 DEF Answer
    <3>5. call.op = "init" => Initialising'
      BY <1>0, <1>i, <2>5, <3>1, <3>2, <3>3 DEF SdInv, Brought, Initialising
    <3>k. cmd \in InitCmds \cup {"CMD17", "CMD24"} /\ (call.op = "init" => Initialising)
      BY <1>0, CallsAre DEF SdInv, Types, TypeOK, Brought, InitCmds
    <3>6. card'.idle => cmd = "CMD0" \/ Idling
      BY <1>0, <1>i, <1>5, <3>3, <3>4, <3>k, <2>5 DEF Initialising, Idling, InitCmds
    <3>7. card'.idle => speed' = "slow"
      BY <1>0, <1>i, <3>6, <3>k DEF SdInv, Brought, Initialising, InitCmds
    <3>8. ocr.status = 1 => call.op # "init" /\ cmd \in {"CMD17", "CMD24"}
      BY <1>i, <3>k DEF Initialising
    <3>9. ocr'.status = 1 => ocr'.sectorsize = BlockLen /\ ~Idling'
      BY <1>0, <2>5, <3>4, <3>8 DEF SdInv, Brought, Idling
    <3>10. call.op # "init" => (Ready' => ocr'.sectorsize = BlockLen)
      BY <1>0, <1>i, <2>5, <3>4, <3>k DEF SdInv, Brought, Ready
    <3> QED
      BY <1>0, <2>5, <3>5, <3>7, <3>9, <3>10 DEF Brought, Idling
  <2> QED
    BY <1>c, <1>m, <1>t, <2>5, <2>9, <2>10 DEF SdInv
<1> QED
  BY <1>1, <1>2, <1>4, <1>5, TakesIs

\* No block is moved by it.
LEMMA WayMoved ==
  ASSUME SdInv, OnTheWay, buf' = buf, pc # "close", pc' # "close" \/ cmd # "CMD17"
  PROVE  Moved'
<1>1. \A n : Upto(n)' = Upto(n)
  BY DEF OnTheWay, Upto
<1> QED
  BY <1>1 DEF SdInv, OnTheWay, Moved, Calling

\* Where a command goes on when its first byte is there.
LEMMA AfterR1Is ==
  ASSUME NEW r \in Nat
  PROVE  /\ cmd \in {"CMD0", "CMD55", "ACMD41"} => AfterR1(r) = "close"
         /\ cmd \in {"CMD8", "CMD58"} => AfterR1(r) = IF r <= 1 THEN "tail" ELSE "close"
         /\ cmd \in {"CMD9", "CMD10"} => AfterR1(r) = IF r = 0 THEN "token" ELSE "failed"
         /\ cmd = "CMD17" => AfterR1(r) = IF r <= 1 THEN "token" ELSE "abort"
         /\ cmd = "CMD24" => AfterR1(r) = IF r <= 1 THEN "block" ELSE "abort"
BY DEF AfterR1

\* The commands there are.
LEMMA CmdsAre ==
  ASSUME SdInv
  PROVE  /\ cmd \in InitCmds \cup {"CMD17", "CMD24"}
         /\ pc # "idle" => (call.op = "init" <=> cmd \in InitCmds)
         /\ pc # "idle" => (call.op = "read" <=> cmd = "CMD17")
         /\ pc # "idle" => (call.op = "write" <=> cmd = "CMD24")
BY CallsAre DEF SdInv, Types, TypeOK, Calling, InitCmds

\* SD_readR1: R1 comes while it is looked for, and tells what will follow.
LEMMA R1Kept ==
  ASSUME Regular, SdInv, SD_readR1
  PROVE  SdInv'
<1>0. /\ pc = "r1" /\ cs' = cs /\ Transfer /\ buf' = buf /\ cs = "low"
      /\ call' = call /\ done' = done /\ answer' = answer /\ calls' = calls
      /\ cmd' = cmd /\ tries' = tries /\ ocr' = ocr /\ speed' = speed /\ content' = content
      /\ card' = Clocked(card, cs, 1)
      /\ count \in 1 .. R1Polls
  BY DEF SD_readR1, Transfer, SdInv, Talking, InR1
<1>1. /\ card \in Cards /\ res \in Seq(0 .. 255) /\ Len(res) <= 5
      /\ buf \in Seq(0 .. 255) /\ Len(buf) <= 2 * BlockLen /\ count \in Nat
  BY DEF SdInv, Types, TypeOK
<1>2. arg' = arg /\ Tails' = Tails /\ \A n : Coming(n)' = Coming(n)
  BY <1>0, SameCommand
<1>3. cmd \in InitCmds \cup {"CMD17", "CMD24"}
  BY CmdsAre
<1>p. R1Polls \in Nat /\ ReadTimeout \in Nat /\ ReadTimeout > 0
  BY SdCardAssumption
<1>4. CASE card.on # "spi"
  <2>1. card.out = <<>> /\ card' = card /\ Drives = \hFF
    BY <1>0, <1>1, <1>4, QuietPasses DEF SdInv, Talking, InR1
  <2>2. CASE count > 1
    <3>1. count' = count - 1 /\ pc' = "r1" /\ res' = res
      BY <1>0, <2>1, <2>2 DEF SD_readR1
    <3>2. OnTheWay
      BY <1>0, <1>1, <1>4, <2>1, <3>1 DEF OnTheWay
    <3>3. Talking'
      BY <1>0, <1>4, <2>1, <2>2, <3>1, <1>p DEF Talking, InR1
    <3>4. Types'
      BY <1>0, <1>1, <2>2, <3>1, <3>2, WayTypes
    <3> QED
      BY <1>0, <3>1, <3>2, <3>3, <3>4, WayKept, WayMoved DEF SdInv
  <2>3. CASE count = 1
    <3>1. res' = <<\hFF>> /\ pc' = AfterR1(\hFF) /\ count' = ReadTimeout
      BY <1>0, <2>1, <2>3 DEF SD_readR1
    <3>2. /\ cmd \in {"CMD0", "CMD8", "CMD55", "ACMD41", "CMD58"} => pc' = "close"
          /\ cmd \in {"CMD9", "CMD10"} => pc' = "failed"
          /\ cmd \in {"CMD17", "CMD24"} => pc' = "abort"
      BY <3>1, AfterR1Is
    <3>3. pc' \in {"close", "failed", "abort"} /\ (pc' # "close" \/ cmd # "CMD17")
      BY <1>3, <3>2 DEF InitCmds
    <3>4. OnTheWay
      BY <1>0, <1>1, <1>4, <2>1, <3>3 DEF OnTheWay
    <3>5. Talking'
      BY <1>0, <1>3, <1>4, <2>1, <3>1, <3>2, <3>3 DEF Talking, Judged, Aborting, Failing, InitCmds
    <3>6. Types'
      BY <1>0, <1>1, <3>1, <3>3, <3>4, <1>p, WayTypes
    <3> QED
      BY <1>0, <3>3, <3>4, <3>5, <3>6, WayKept, WayMoved DEF SdInv
  <2> QED
    BY <1>0, <1>1, <2>2, <2>3
<1>5. CASE card.on = "spi"
  <2>0. PICK gap \in 0 .. count - 1, r \in {0, 1, 5, \h20}, d \in Tails :
          Reply(r, d) /\ card.out = FF(gap) \o (<<r>> \o d)
    BY <1>0, <1>5 DEF SdInv, Talking, InR1, Answering
  <2>1. PICK g \in Nat : g \in 0 .. count - 1 /\ card.out = FF(g) \o (<<r>> \o d) /\ Reply(r, d)
    <3>1. gap \in Nat
      OBVIOUS
    <3> QED
      BY <2>0, <3>1
  <2>2. d \in Seq(0 .. 255)
    <3>1. <<>> \in Seq(0 .. 255) /\ <<0, 0, 1, \hAA>> \in Seq(0 .. 255) /\ <<\hC0, 0, 0, 0>> \in Seq(0 .. 255)
      OBVIOUS
    <3> QED
      BY <1>0, <3>1, <1>p, ComingIs, ZenonT(40) DEF SdInv, Tails
  <2>3. /\ <<r>> \o d \in Seq(0 .. 255) /\ <<r>> \o d # <<>> /\ Head(<<r>> \o d) = r
        /\ SubSeq(<<r>> \o d, 2, Len(<<r>> \o d)) = d
    <3>1. r \in 0 .. 255
      BY <2>1
    <3> QED
      BY <2>2, <3>1, BytePasses, ZenonT(40)
  <2>4. card' = [card EXCEPT !.out = SubSeq(card.out, 2, Len(card.out))]
    BY <1>0, <1>1, Passing
  <2>5. card.out # <<>> => Drives = Head(card.out)
    BY <1>0, <1>1, Passing
  <2>6. CASE g > 0
    <3>1. Drives = \hFF /\ card' = [card EXCEPT !.out = FF(g - 1) \o (<<r>> \o d)]
      <4>1. /\ card.out # <<>> /\ Head(card.out) = \hFF
            /\ SubSeq(card.out, 2, Len(card.out)) = FF(g - 1) \o (<<r>> \o d)
        <5>1. PICK s \in Seq(0 .. 255) : s = <<r>> \o d
          BY <2>3
        <5>2. g \in Nat /\ card.out = FF(g) \o s
          BY <2>1, <5>1
        <5>3. /\ FF(g) \o s # <<>> /\ Head(FF(g) \o s) = \hFF
              /\ SubSeq(FF(g) \o s, 2, Len(FF(g) \o s)) = FF(g - 1) \o s
          BY <2>6, GapByte
        <5> QED
          BY <5>1, <5>2, <5>3
      <4> QED
        BY <2>4, <2>5, <4>1
    <3>2. count > 1 /\ count' = count - 1 /\ pc' = "r1" /\ res' = res
      <4>1. count > 1
        BY <1>1, <2>1, <2>6
      <4> QED
        BY <1>0, <3>1, <4>1 DEF SD_readR1
    <3>3. OnTheWay
      BY <1>0, <1>5, <3>2, WayClocked
    <3>4. card'.out = FF(g - 1) \o (<<r>> \o d)
      BY <1>1, <3>1 DEF Cards
    <3>5. Reply(r, d)'
      BY <1>0, <1>2, <2>1, <3>3 DEF Reply, OnTheWay, R1
    <3>6. Answering'
      <4>1. g - 1 \in 0 .. count' - 1
        BY <1>1, <2>1, <2>6, <3>2
      <4> QED
        BY <1>2, <3>4, <3>5, <4>1, <2>1 DEF Answering
    <3>7. Talking'
      BY <1>0, <1>1, <1>5, <3>2, <3>3, <3>6, <1>p DEF Talking, InR1, OnTheWay
    <3>8. Types'
      BY <1>0, <1>1, <3>2, <3>3, WayTypes
    <3> QED
      BY <1>0, <3>2, <3>3, <3>7, <3>8, WayKept, WayMoved DEF SdInv
  <2>7. CASE g = 0
    <3>1. Drives = r /\ card' = [card EXCEPT !.out = d]
      BY <2>1, <2>3, <2>4, <2>5, <2>7, GapPasses, ZenonT(40)
    <3>2. res' = <<r>> /\ pc' = AfterR1(r) /\ count' = ReadTimeout
      BY <1>0, <3>1 DEF SD_readR1
    <3>3. card'.out = d
      BY <1>1, <3>1 DEF Cards
    <3>4. pc' \notin {"idle", "command"} /\ pc' \in {"close", "tail", "token", "failed", "abort", "block"}
      BY <1>3, <3>2, AfterR1Is DEF InitCmds
    <3>5. OnTheWay
      BY <1>0, <3>4, WayClocked
    <3>6. Talking' /\ (pc' = "close" => cmd # "CMD17")
      <4>o. res'[1] = r /\ card'.on = "spi" /\ card'.idle = card.idle
        BY <3>2, <3>5, <1>5 DEF OnTheWay
      <4>1. CASE cmd \in {"CMD0", "CMD55"}
        <5>1. r = 1 /\ d = <<>> /\ pc' = "close"
          BY <4>1, <2>1, <3>2, AfterR1Is DEF Reply
        <5> QED
          BY <1>0, <4>1, <4>o, <3>3, <5>1 DEF Talking, Judged
      <4>2. CASE cmd = "CMD8"
        <5>1. r = 1 /\ d = <<0, 0, 1, \hAA>> /\ pc' = "tail"
          BY <4>2, <2>1, <3>2, AfterR1Is DEF Reply
        <5> QED
          BY <1>0, <4>2, <4>o, <3>2, <3>3, <5>1 DEF Talking, InTail
      <4>3. CASE cmd = "ACMD41"
        <5>1. r = R1(card) /\ d = <<>> /\ pc' = "close"
          BY <4>3, <2>1, <3>2, AfterR1Is DEF Reply
        <5>2. R1(card)' = R1(card)
          BY <4>o DEF R1
        <5> QED
          BY <1>0, <4>3, <4>o, <3>3, <5>1, <5>2 DEF Talking, Judged
      <4>4. CASE cmd = "CMD58"
        <5>1. r = 0 /\ d = <<\hC0, 0, 0, 0>> /\ pc' = "tail"
          BY <4>4, <2>1, <3>2, AfterR1Is DEF Reply
        <5> QED
          BY <1>0, <4>4, <4>o, <3>2, <3>3, <5>1 DEF Talking, InTail
      <4>5. CASE cmd \in {"CMD9", "CMD10"}
        <5>1. r = 0 /\ d \in Coming(ReadTimeout) /\ pc' = "token"
          BY <4>5, <2>1, <3>2, AfterR1Is DEF Reply
        <5>2. ~card.idle
          BY <1>0, <1>5, <4>5, CmdsAre DEF SdInv, Brought, Initialising, InitCmds
        <5> QED
          BY <1>0, <1>2, <1>p, <4>5, <4>o, <3>2, <3>3, <5>1, <5>2 DEF Talking, InToken, Ready
      <4>6. CASE cmd = "CMD17" /\ r = 0
        <5>1. d \in Coming(ReadTimeout) /\ pc' = "token" /\ ~card.idle
          BY <4>6, <2>1, <3>2, AfterR1Is DEF Reply
        <5> QED
          BY <1>0, <1>2, <1>p, <4>6, <4>o, <3>2, <3>3, <5>1 DEF Talking, InToken, Ready
      <4>7. CASE cmd = "CMD24" /\ r = 0
        <5>1. d = <<>> /\ pc' = "block" /\ ~card.idle /\ card.block /\ card.at = arg
          BY <4>7, <2>1, <3>2, AfterR1Is DEF Reply
        <5> QED
          BY <1>0, <1>2, <4>7, <4>o, <3>2, <3>3, <3>5, <5>1 DEF Talking, InBlock, Ready, OnTheWay
      <4>8. CASE cmd \in {"CMD17", "CMD24"} /\ r # 0
        <5>1. d = <<>> /\ pc' = "abort" /\ (r = \h20 \/ card.idle)
          BY <4>8, <2>1, <3>2, AfterR1Is DEF Reply
        <5> QED
          BY <1>0, <4>8, <4>o, <3>2, <3>3, <5>1 DEF Talking, Aborting
      <4> QED
        BY <1>3, <4>1, <4>2, <4>3, <4>4, <4>5, <4>6, <4>7, <4>8 DEF InitCmds
    <3>7. Types'
      BY <1>0, <1>1, <1>p, <3>2, <3>4, <3>5, WayTypes
    <3> QED
      BY <1>0, <3>4, <3>5, <3>6, <3>7, WayKept, WayMoved DEF SdInv
  <2> QED
    BY <2>6, <2>7
<1> QED
  BY <1>4, <1>5

\* The four bytes behind R1 are read at once.
LEMMA FourBytes ==
  ASSUME NEW s \in Seq(0 .. 255), Len(s) = 4
  PROVE  /\ SubSeq(s, 5, Len(s)) = <<>>
         /\ [i \in 1 .. 4 |-> IF i <= Len(s) THEN s[i] ELSE \hFF] = s
<1>1. SubSeq(s, 5, Len(s)) = <<>>
  BY SubSeqEmpty
<1>2. [i \in 1 .. 4 |-> IF i <= Len(s) THEN s[i] ELSE \hFF] = s
  OBVIOUS
<1> QED
  BY <1>1, <1>2

\* R1 and four bytes behind it.
LEMMA FiveBytes ==
  ASSUME NEW s \in Seq(0 .. 255), Len(s) = 4, NEW r \in 0 .. 255
  PROVE  /\ <<r>> \o s \in Seq(0 .. 255) /\ Len(<<r>> \o s) = 5
         /\ (<<r>> \o s)[1] = r /\ (<<r>> \o s)[2] = s[1]
<1>1. PICK t \in Seq(0 .. 255) : t = <<r>> /\ Len(t) = 1 /\ t[1] = r
  <2>1. <<r>> \in Seq(0 .. 255) /\ Len(<<r>>) = 1 /\ <<r>>[1] = r
    OBVIOUS
  <2> QED
    BY <2>1
<1>a. t \o s \in Seq(0 .. 255) /\ Len(t \o s) = Len(t) + Len(s)
  BY <1>1, ConcatProperties, ZenonT(40)
<1>2. t \o s \in Seq(0 .. 255) /\ Len(t \o s) = 5
  BY <1>1, <1>a
<1>3. (t \o s)[1] = t[1]
  BY <1>1, ConcatProperties
<1>4. (t \o s)[2] = s[1]
  BY <1>1, ConcatProperties
<1> QED
  BY <1>1, <1>2, <1>3, <1>4

\* SD_readR37: the four bytes are those of the answer.
LEMMA TailKept ==
  ASSUME Regular, SdInv, ReadTail
  PROVE  SdInv'
<1>0. /\ pc = "tail" /\ pc' = "close" /\ cs' = cs /\ buf' = buf /\ cs = "low"
      /\ call' = call /\ done' = done /\ answer' = answer /\ calls' = calls /\ count' = count
      /\ cmd' = cmd /\ tries' = tries /\ ocr' = ocr /\ speed' = speed /\ content' = content
      /\ card' = Clocked(card, cs, 4) /\ res' = res \o Received(4)
  BY DEF ReadTail, SdInv, Talking, InTail
<1>1. /\ card \in Cards /\ buf \in Seq(0 .. 255) /\ Len(buf) <= 2 * BlockLen /\ count \in Nat
  BY DEF SdInv, Types, TypeOK
<1>2. OnTheWay
  BY <1>0, WayClocked
<1>3. /\ card.on = "spi"
      /\ \/ cmd = "CMD8" /\ res = <<1>> /\ card.out = <<0, 0, 1, \hAA>>
         \/ cmd = "CMD58" /\ res = <<0>> /\ card.out = <<\hC0, 0, 0, 0>>
  BY <1>0 DEF SdInv, Talking, InTail
<1>4. card' = [card EXCEPT !.out = SubSeq(card.out, 5, Len(card.out))]
  BY <1>0 DEF Clocked
<1>5. SubSeq(card.out, 5, Len(card.out)) = <<>> => card'.out = <<>>
  BY <1>1, <1>4 DEF Cards
<1>6. Received(4) = [i \in 1 .. 4 |-> IF i <= Len(card.out) THEN card.out[i] ELSE \hFF]
  BY <1>0 DEF Received
<1>7. /\ card.out \in Seq(0 .. 255) /\ Len(card.out) = 4
      /\ cmd = "CMD58" => card.out[1] = \hC0
  <2>1. /\ <<0, 0, 1, \hAA>> \in Seq(0 .. 255) /\ Len(<<0, 0, 1, \hAA>>) = 4
        /\ <<\hC0, 0, 0, 0>> \in Seq(0 .. 255) /\ Len(<<\hC0, 0, 0, 0>>) = 4
        /\ <<\hC0, 0, 0, 0>>[1] = \hC0
    OBVIOUS
  <2> QED
    BY <1>3, <2>1, ZenonT(40)
<1>8. PICK r \in 0 .. 255 : res = <<r>> /\ (cmd = "CMD8" => r = 1) /\ (cmd = "CMD58" => r = 0)
  BY <1>3
<1>9. card'.out = <<>> /\ Received(4) = card.out
  <2>1. PICK s \in Seq(0 .. 255) : s = card.out /\ Len(s) = 4
    BY <1>7
  <2>2. SubSeq(s, 5, Len(s)) = <<>> /\ [i \in 1 .. 4 |-> IF i <= Len(s) THEN s[i] ELSE \hFF] = s
    BY <2>1, FourBytes
  <2> QED
    BY <1>5, <1>6, <2>1, <2>2
<1>10. PICK s \in Seq(0 .. 255) : s = card.out /\ Len(s) = 4 /\ (cmd = "CMD58" => s[1] = \hC0)
  BY <1>7
<1>11. /\ res' \in Seq(0 .. 255) /\ Len(res') = 5 /\ res'[1] = r
       /\ cmd = "CMD58" => res'[2] = \hC0
  <2>1. res' = <<r>> \o s
    BY <1>0, <1>8, <1>9, <1>10
  <2>2. /\ <<r>> \o s \in Seq(0 .. 255) /\ Len(<<r>> \o s) = 5
        /\ (<<r>> \o s)[1] = r /\ (<<r>> \o s)[2] = s[1]
    BY <1>10, FiveBytes
  <2> QED
    BY <1>10, <2>1, <2>2
<1>12. Types'
  BY <1>0, <1>1, <1>2, <1>11, WayTypes
<1>13. Talking'
  BY <1>0, <1>2, <1>3, <1>8, <1>9, <1>11 DEF Talking, Judged, OnTheWay
<1> QED
  BY <1>0, <1>2, <1>3, <1>12, <1>13, WayKept, WayMoved DEF SdInv

\* WaitToken: the token comes before the time-out, or never.
LEMMA TokenKept ==
  ASSUME Regular, SdInv, WaitToken
  PROVE  SdInv'
<1>0. /\ pc = "token" /\ Transfer /\ buf' = buf /\ res' = res
      /\ call' = call /\ done' = done /\ answer' = answer /\ calls' = calls
      /\ cmd' = cmd /\ tries' = tries /\ ocr' = ocr /\ speed' = speed /\ content' = content
      /\ card' = Clocked(card, cs, 1)
  BY DEF WaitToken, Transfer
<1>1. /\ card \in Cards /\ res \in Seq(0 .. 255) /\ Len(res) <= 5 /\ cs \in {"low", "high"}
      /\ buf \in Seq(0 .. 255) /\ Len(buf) <= 2 * BlockLen /\ count \in Nat
  BY DEF SdInv, Types, TypeOK
<1>2. arg' = arg /\ Wanted' = Wanted /\ \A n : Coming(n)' = Coming(n)
  BY <1>0, SameCommand
<1>3. InToken
  BY <1>0 DEF SdInv, Talking
<1>p. ReadTimeout \in Nat
  BY SdCardAssumption
<1>w. Wanted \in Seq(0 .. 255)
  BY <1>0, WantedIs DEF SdInv
<1>4. CASE card.out = <<>>
  <2>1. card' = card /\ Drives = \hFF
    BY <1>0, <1>1, <1>4, QuietPasses
  <2>2. cmd = "CMD17" => "silent" \in Faults
    <3>1. \A g \in Nat : Framed(g, Wanted) # <<>>
      BY <1>w, FramedIs
    <3> QED
      BY <1>3, <1>4, <3>1 DEF InToken, Coming
  <2>3. CASE count # 1 \/ cmd # "CMD17"
    <3>1. /\ pc' = "token" /\ count' = (IF count = 0 THEN 0 ELSE count - 1)
          /\ cs' = (IF count = 1 THEN "high" ELSE cs)
      BY <1>1, <2>1, <2>3 DEF WaitToken
    <3>2. OnTheWay
      BY <1>0, <3>1, WayClocked
    <3>3. <<>> \in Coming(count)'
      BY <1>0, <2>2 DEF Coming
    <3>4. count' \in 0 .. ReadTimeout /\ (cmd = "CMD17" => count' > 0)
      BY <1>1, <1>3, <1>p, <2>3, <3>1 DEF InToken
    <3>5. InToken'
      BY <1>0, <1>3, <1>4, <2>1, <2>3, <3>1, <3>3, <3>4 DEF InToken, Ready
    <3>6. Talking'
      BY <3>1, <3>5 DEF Talking
    <3>7. Types'
      BY <1>0, <1>1, <3>1, <3>2, <3>4, WayTypes
    <3> QED
      BY <1>0, <3>1, <3>2, <3>6, <3>7, WayKept, WayMoved DEF SdInv
  <2>4. CASE count = 1 /\ cmd = "CMD17"
    <3>1. pc' = "failed" /\ count' = 0 /\ cs' = cs
      BY <2>1, <2>4 DEF WaitToken
    <3>2. OnTheWay
      BY <1>0, <3>1, WayClocked
    <3>3. Talking'
      BY <1>0, <1>4, <2>1, <2>2, <2>4, <3>1 DEF Talking, Failing
    <3>4. Types'
      BY <1>0, <1>1, <3>1, <3>2, WayTypes
    <3> QED
      BY <1>0, <3>1, <3>2, <3>3, <3>4, WayKept, WayMoved DEF SdInv
  <2> QED
    BY <2>3, <2>4
<1>5. CASE card.out # <<>>
  <2>0. PICK gap \in 0 .. count - 1 : card.out = Framed(gap, Wanted)
    BY <1>3, <1>5 DEF InToken, Coming
  <2>1. PICK g \in Nat : g < count /\ card.out = Framed(g, Wanted)
    <3>1. gap \in Nat /\ gap < count
      BY <1>1
    <3> QED
      BY <2>0, <3>1
  <2>2. cs = "low"
    BY <1>3, <1>5 DEF InToken
  <2>3. PICK s \in Seq(0 .. 255) : s = <<\hFE>> \o (Wanted \o <<0, 0>>)
    <3>1. Wanted \o <<0, 0>> \in Seq(0 .. 255)
      BY <1>w, FramedIs
    <3>2. PICK t \in Seq(0 .. 255) : t = Wanted \o <<0, 0>>
      BY <3>1
    <3>3. \hFE \in 0 .. 255
      OBVIOUS
    <3>4. <<\hFE>> \o t \in Seq(0 .. 255)
      BY <3>3, BytePasses, ZenonT(40)
    <3> QED
      BY <3>2, <3>4
  <2>4. card.out = FF(g) \o s
    BY <1>w, <2>1, <2>3, FramedIs, ZenonT(40)
  <2>5. card' = [card EXCEPT !.out = SubSeq(card.out, 2, Len(card.out))] /\ Drives = Head(card.out)
    BY <1>0, <1>1, <1>5, <2>2, Passing
  <2>6. CASE g > 0
    <3>1. /\ Head(card.out) = \hFF
          /\ SubSeq(card.out, 2, Len(card.out)) = FF(g - 1) \o s
      <4>1. /\ Head(FF(g) \o s) = \hFF
            /\ SubSeq(FF(g) \o s, 2, Len(FF(g) \o s)) = FF(g - 1) \o s
        BY <2>6, GapByte, ZenonT(40)
      <4> QED
        BY <2>4, <4>1
    <3>2. g - 1 \in Nat
      BY <2>6
    <3>3. FF(g - 1) \o s = Framed(g - 1, Wanted)
      BY <1>w, <2>3, <3>2, FramedIs, ZenonT(40)
    <3>4. card'.out = Framed(g - 1, Wanted)
      BY <1>1, <2>5, <3>1, <3>3 DEF Cards
    <3>5. count > 1
      BY <1>1, <2>1, <2>6
    <3>6. pc' = "token" /\ count' = count - 1 /\ cs' = cs
      BY <1>1, <2>5, <3>1, <3>5 DEF WaitToken
    <3>7. OnTheWay
      BY <1>0, <3>6, WayClocked
    <3>8. card'.out \in Coming(count)'
      <4>1. g - 1 \in 0 .. count' - 1
        BY <1>1, <2>1, <2>6, <3>6
      <4> QED
        BY <1>2, <3>4, <4>1 DEF Coming
    <3>9. count' \in 0 .. ReadTimeout /\ count' > 0
      BY <1>1, <1>3, <1>p, <3>5, <3>6 DEF InToken
    <3>10. InToken'
      BY <1>0, <1>3, <2>2, <3>6, <3>7, <3>8, <3>9 DEF InToken, Ready, OnTheWay
    <3>11. Talking'
      BY <3>6, <3>10 DEF Talking
    <3>12. Types'
      BY <1>0, <1>1, <3>5, <3>6, <3>7, WayTypes
    <3> QED
      BY <1>0, <3>6, <3>7, <3>11, <3>12, WayKept, WayMoved DEF SdInv
  <2>7. CASE g = 0
    <3>1. card.out = s
      BY <2>4, <2>7, GapPasses
    <3>2. Head(s) = \hFE /\ SubSeq(s, 2, Len(s)) = Wanted \o <<0, 0>>
      <4>1. Wanted \o <<0, 0>> \in Seq(0 .. 255)
        BY <1>w, FramedIs
      <4>2. PICK t \in Seq(0 .. 255) : t = Wanted \o <<0, 0>>
        BY <4>1
      <4>0. \hFE \in 0 .. 255
        OBVIOUS
      <4>3. /\ Head(<<\hFE>> \o t) = \hFE
            /\ SubSeq(<<\hFE>> \o t, 2, Len(<<\hFE>> \o t)) = t
        BY <4>0, BytePasses, ZenonT(40)
      <4> QED
        BY <2>3, <4>2, <4>3
    <3>3. card'.out = Wanted \o <<0, 0>>
      BY <1>1, <2>5, <3>1, <3>2 DEF Cards
    <3>4. pc' = "data" /\ count' = count /\ cs' = cs
      BY <2>5, <3>1, <3>2 DEF WaitToken
    <3>5. OnTheWay
      BY <1>0, <3>4, WayClocked
    <3>6. InData'
      BY <1>0, <1>2, <1>3, <2>2, <3>3, <3>4, <3>5 DEF InToken, InData, Ready, OnTheWay
    <3>7. Talking'
      BY <3>4, <3>6 DEF Talking
    <3>8. Types'
      BY <1>0, <1>1, <3>4, <3>5, WayTypes
    <3> QED
      BY <1>0, <3>4, <3>5, <3>7, <3>8, WayKept, WayMoved DEF SdInv
  <2> QED
    BY <2>6, <2>7
<1> QED
  BY <1>4, <1>5

\* ReadData: the whole block goes to the caller's buffer.
LEMMA DataKept ==
  ASSUME Regular, SdInv, ReadData
  PROVE  SdInv'
<1> DEFINE n == IF cmd = "CMD17" THEN ocr.sectorsize ELSE InfoLen
<1>0. /\ pc = "data" /\ pc' = "close" /\ res' = res /\ count' = count /\ cs' = cs
      /\ call' = call /\ done' = done /\ answer' = answer /\ calls' = calls
      /\ cmd' = cmd /\ tries' = tries /\ ocr' = ocr /\ speed' = speed /\ content' = content
      /\ card' = Clocked(card, cs, n + 2)
      /\ buf' = IF cmd = "CMD17" THEN buf \o Received(n) ELSE buf
  BY DEF ReadData
<1>1. /\ card \in Cards /\ res \in Seq(0 .. 255) /\ Len(res) <= 5 /\ cs \in {"low", "high"}
      /\ buf \in Seq(0 .. 255) /\ Len(buf) <= 2 * BlockLen /\ count \in Nat
  BY DEF SdInv, Types, TypeOK
<1>2. InData /\ cs = "low" /\ Ready
  BY <1>0 DEF SdInv, Talking, InData
<1>w. PICK w \in Seq(0 .. 255) : w = Wanted /\ Len(w) = IF cmd = "CMD17" THEN BlockLen ELSE InfoLen
  BY <1>0, WantedIs DEF SdInv
<1>3. n = Len(w)
  <2>1. cmd = "CMD17" => call.op # "init"
    BY <1>0, CmdsAre DEF InitCmds
  <2>2. cmd = "CMD17" => ocr.sectorsize = BlockLen
    BY <1>2, <2>1 DEF SdInv, Brought
  <2> QED
    BY <1>w, <2>2
<1>p. Len(w) \in Nat /\ BlockLen \in Nat
  BY SdCardAssumption
<1>4. card.out = w \o <<0, 0>>
  BY <1>2, <1>w DEF InData
<1>5. /\ SubSeq(w \o <<0, 0>>, Len(w) + 3, Len(w \o <<0, 0>>)) = <<>>
      /\ [i \in 1 .. Len(w) |-> IF i <= Len(w \o <<0, 0>>) THEN (w \o <<0, 0>>)[i] ELSE \hFF] = w
  BY BlockPasses
<1>6. card'.out = <<>>
  <2>1. Len(w) + 2 + 1 = Len(w) + 3
    BY <1>p
  <2>2. card' = [card EXCEPT !.out = SubSeq(card.out, n + 2 + 1, Len(card.out))]
    BY <1>0, <1>2 DEF Clocked
  <2>3. SubSeq(card.out, n + 2 + 1, Len(card.out)) = <<>>
    BY <1>3, <1>4, <1>5, <2>1
  <2> QED
    BY <1>1, <2>2, <2>3 DEF Cards
<1>7. Received(n) = w
  <2>1. Received(n) = [i \in 1 .. n |-> IF i <= Len(card.out) THEN card.out[i] ELSE \hFF]
    BY <1>2 DEF Received
  <2> QED
    BY <1>3, <1>4, <1>5, <2>1, ZenonT(40)
<1>8. OnTheWay
  <2>1. n + 2 \in Nat
    BY <1>3, <1>p
  <2> QED
    BY <1>0, <2>1, WayClocked
<1>9. cmd # "CMD17" => buf' = buf
  BY <1>0
<1>10. CASE cmd # "CMD17"
  <2>1. Types'
    BY <1>0, <1>1, <1>8, <1>9, <1>10, WayTypes
  <2>2. Talking'
    BY <1>0, <1>2, <1>6, <1>8, <1>10 DEF InData, Talking, Judged, OnTheWay, Ready
  <2> QED
    BY <1>0, <1>8, <1>9, <1>10, <2>1, <2>2, WayKept, WayMoved DEF SdInv
<1>11. CASE cmd = "CMD17"
  <2>1. /\ arg = call.at + done /\ call.at \in Nat /\ call.op = "read" /\ done \in 0 .. 1
        /\ w = content[call.at + done]
    BY <1>0, <1>w, <1>11, ArgIs DEF SdInv, Types, TypeOK, Wanted
  <2>2. buf = Upto(done) /\ buf' = buf \o w
    BY <1>0, <1>7, <1>11, <2>1 DEF SdInv, Moved
  <2>3. buf' = Upto(done + 1) /\ buf' \in Seq(0 .. 255) /\ Len(buf') <= 2 * BlockLen
    <3>1. CASE done = 0
      <4>1. buf = <<>> /\ <<>> \o w = w
        BY <2>2, <3>1 DEF Upto
      <4>2. buf' = w /\ w = content[call.at]
        BY <2>1, <2>2, <3>1, <4>1, SMTT(30)
      <4>3. Upto(done + 1) = content[call.at]
        BY <3>1 DEF Upto
      <4> QED
        BY <1>p, <1>w, <1>11, <4>2, <4>3
    <3>2. CASE done = 1
      <4>1. PICK u \in Seq(0 .. 255) : u = buf /\ u = content[call.at]
        BY <1>1, <2>2, <3>2 DEF Upto
      <4>2. u = content[call.at] /\ Len(u) = BlockLen
        <5>1. call.at \in Sectors
          BY <1>0, <1>11, CallsAre, CmdsAre, <2>1 DEF SdInv, Types, TypeOK, Calling
        <5>2. content[call.at] \in Blocks
          BY <5>1 DEF SdInv, Types, TypeOK
        <5> QED
          BY <4>1, <5>2, BlocksAre
      <4>3. buf' = u \o w /\ Upto(done + 1) = u \o w
        <5>1. w = content[call.at + 1] /\ done + 1 = 2
          BY <2>1, <3>2
        <5>2. Upto(2) = content[call.at] \o content[call.at + 1]
          BY DEF Upto
        <5> QED
          BY <2>2, <4>1, <5>1, <5>2
      <4>4. u \o w \in Seq(0 .. 255) /\ Len(u \o w) = Len(u) + Len(w)
        BY ConcatProperties
      <4> QED
        BY <1>p, <1>w, <1>11, <4>2, <4>3, <4>4
    <3> QED
      BY <2>1, <3>1, <3>2
  <2>4. Types'
    BY <1>0, <1>1, <1>8, <2>3, WayTypes
  <2>5. Talking'
    BY <1>0, <1>2, <1>6, <1>8, <1>11 DEF InData, Talking, Judged, OnTheWay, Ready
  <2>6. Moved'
    <3>1. \A m : Upto(m)' = Upto(m)
      BY <1>0 DEF Upto
    <3> QED
      BY <1>0, <2>1, <2>3, <3>1 DEF Moved
  <2> QED
    BY <1>8, <2>4, <2>5, <2>6, WayKept DEF SdInv
<1> QED
  BY <1>10, <1>11

\* The card takes the block that is sent: it stores it, or refuses it.
LEMMA BlockSent ==
  ASSUME SdInv, SendBlock
  PROVE  /\ cmd = "CMD24" /\ Ready /\ cs = "low" /\ ocr.sectorsize = BlockLen
         /\ arg \in Sectors /\ call.at \in Nat /\ done \in 0 .. 1 /\ arg = call.at + done
         /\ call.op = "write" /\ call.data[done + 1] \in Blocks
         /\ \/ /\ \E a \in Stored : card' = [card EXCEPT !.block = FALSE, !.out = <<>> \o a]
               /\ content' = [content EXCEPT ![arg] = call.data[done + 1]]
            \/ /\ \E a \in Refused : card' = [card EXCEPT !.block = FALSE, !.out = <<>> \o a]
               /\ content' = content
<1> DEFINE b == call.data[done + 1]
<1>1. pc = "block" /\ card \in Cards
  BY DEF SendBlock, SdInv, Types
<1>2. cmd = "CMD24" /\ Ready /\ cs = "low" /\ card.out = <<>> /\ card.block /\ card.at = arg
  BY <1>1 DEF SdInv, Talking, InBlock
<1>3. /\ arg \in Sectors /\ call.at \in Nat /\ done \in 0 .. 1 /\ arg = call.at + done
      /\ call.op = "write" /\ b \in Blocks
  BY <1>1, <1>2, ArgIs DEF SdInv, Types, TypeOK
<1>4. ocr.sectorsize = BlockLen
  BY <1>2, <1>3 DEF SdInv, Brought
<1>5. SubSeq(b, 1, ocr.sectorsize) = b /\ BlockTaken(b) = b /\ StillMissing(b) = <<>>
  BY <1>3, <1>4, BlocksAre
<1>6. card.block /\ Clocked(card, cs, 1).out = <<>>
  BY <1>1, <1>2, ClockedQuiet
<1>7. \/ /\ \E a \in Stored : card' = [card EXCEPT !.block = FALSE, !.out = <<>> \o a]
         /\ content' = [content EXCEPT ![arg] = b]
      \/ /\ \E a \in Refused : card' = [card EXCEPT !.block = FALSE, !.out = <<>> \o a]
         /\ content' = content
  BY <1>2, <1>5, <1>6 DEF SendBlock
<1> QED
  BY <1>2, <1>3, <1>4, <1>7

\* SendBlock: what the card answers is its data response and its busy time.
LEMMA BlockKept ==
  ASSUME Regular, SdInv, SendBlock
  PROVE  SdInv'
<1> DEFINE b == call.data[done + 1]
<1>0. /\ pc = "block" /\ pc' = "response" /\ count' = WriteTimeout /\ res' = res /\ cs' = cs
      /\ call' = call /\ done' = done /\ answer' = answer /\ calls' = calls /\ buf' = buf
      /\ cmd' = cmd /\ tries' = tries /\ ocr' = ocr /\ speed' = speed
  BY DEF SendBlock
<1>1. card \in Cards /\ content \in [Sectors -> Blocks]
  BY DEF SdInv, Types, TypeOK
<1>2. cmd = "CMD24" /\ Ready /\ cs = "low"
  BY BlockSent
<1>3. /\ arg \in Sectors /\ call.at \in Nat /\ done \in 0 .. 1 /\ arg = call.at + done
      /\ call.op = "write" /\ b \in Blocks
  BY BlockSent
<1>7. \/ /\ \E a \in Stored : card' = [card EXCEPT !.block = FALSE, !.out = <<>> \o a]
         /\ content' = [content EXCEPT ![arg] = b]
      \/ /\ \E a \in Refused : card' = [card EXCEPT !.block = FALSE, !.out = <<>> \o a]
         /\ content' = content
  BY BlockSent
<1>8. PICK a : /\ card' = [card EXCEPT !.block = FALSE, !.out = <<>> \o a]
               /\ \/ a \in Stored /\ content' = [content EXCEPT ![arg] = b]
                  \/ a \in Refused /\ content' = content
  BY <1>7
<1>p. WriteTimeout \in Nat /\ WriteTimeout > 0
  BY SdCardAssumption
<1>9. a \in Stored => \E g \in Nat : g \in 0 .. WriteTimeout - 1 /\ a = <<\hE5>> \o Zeros(g)
  BY GapsAre DEF Stored, Zeros, Regular
<1>10. a \in Refused => (a = <<\hED>> /\ "reject" \in Faults) \/ (a = <<>> /\ "silent" \in Faults)
  BY NothingIs DEF Refused, Regular
<1>11. a \in Seq(0 .. 255)
  <2>1. CASE a \in Stored
    <3>1. PICK g \in Nat : a = <<\hE5>> \o Zeros(g)
      BY <1>9, <2>1
    <3>2. \hE5 \in 0 .. 255 /\ Zeros(g) \in Seq(0 .. 255)
      BY ZeroPasses
    <3> QED
      BY <3>1, <3>2, BytePasses, ZenonT(40)
  <2>2. CASE a \in Refused
    <3>1. \hED \in 0 .. 255
      OBVIOUS
    <3>2. <<\hED>> \in Seq(0 .. 255) /\ <<>> \in Seq(0 .. 255)
      BY <3>1
    <3> QED
      BY <1>10, <2>2, <3>2
  <2> QED
    BY <1>8, <2>1, <2>2
<1>12. <<>> \o a = a
  BY <1>11, ConcatEmptySeq
<1>13. /\ card' \in Cards /\ card'.out = a /\ card'.on = card.on /\ card'.idle = card.idle
       /\ card'.app = card.app /\ card'.warm = card.warm
  <2>1. card' = [on |-> card.on, idle |-> card.idle, app |-> card.app, warm |-> card.warm,
                 block |-> FALSE, at |-> card.at, out |-> a]
    BY <1>1, <1>8, <1>12 DEF Cards
  <2> QED
    BY <1>1, <1>11, <2>1 DEF Cards
<1>14. arg' = arg
  BY <1>0 DEF arg
<1>15. content' \in [Sectors -> Blocks]
  BY <1>1, <1>3, <1>8
<1>16. Types'
  <2>1. card'.on \in {"none", "native", "spi"} /\ card'.out \in Seq(0 .. 255)
    BY <1>13 DEF Cards
  <2> QED
    BY <1>0, <1>p, <1>13, <1>15, <2>1 DEF SdInv, Types, TypeOK
<1>17. Calling'
  BY <1>0 DEF SdInv, Calling
<1>18. Brought'
  BY <1>0, <1>2, <1>13 DEF SdInv, Brought, Initialising, Idling, Ready
<1>19. Talking'
  <2>1. Ready'
    BY <1>2, <1>13 DEF Ready
  <2>2. CASE a \in Stored /\ content' = [content EXCEPT ![arg] = b]
    <3>1. IsStored'
      BY <1>0, <1>1, <1>3, <1>14, <2>2 DEF IsStored
    <3>2. \E g \in 0 .. WriteTimeout - 1 : card'.out = <<\hE5>> \o Zeros(g)
      BY <1>9, <1>13, <2>2
    <3>3. count' \in 1 .. WriteTimeout
      BY <1>0, <1>p
    <3>4. InResponse'
      BY <1>0, <1>2, <2>1, <3>1, <3>2, <3>3 DEF InResponse
    <3> QED
      BY <1>0, <3>4 DEF Talking
  <2>3. CASE a \in Refused
    <3>1. ("reject" \in Faults /\ card'.out = <<\hED>>) \/ Silent'
      BY <1>10, <1>13, <2>3 DEF Silent
    <3>2. InResponse'
      BY <1>0, <1>2, <1>p, <2>1, <3>1 DEF InResponse
    <3> QED
      BY <1>0, <3>2 DEF Talking
  <2> QED
    BY <1>8, <2>2, <2>3
<1>20. Moved'
  <2>1. buf' = <<>>
    BY <1>0, <1>3 DEF SdInv, Moved
  <2>2. \A j \in 1 .. done : content'[call.at + j - 1] = call.data[j]
    <3> SUFFICES ASSUME NEW j \in 1 .. done
                 PROVE  content'[call.at + j - 1] = call.data[j]
      OBVIOUS
    <3>1. content[call.at + j - 1] = call.data[j]
      BY <1>0, <1>3 DEF SdInv, Moved
    <3>2. call.at + j - 1 # arg
      BY <1>3
    <3>3. call.at + j - 1 = call.at /\ call.at \in Sectors
      <4>1. call \in D!Calls
        BY <1>3 DEF SdInv, Types, TypeOK
      <4>2. call.at \in Sectors
        BY <1>3, <4>1, CallsAre
      <4>3. j = 1
        BY <1>3
      <4> QED
        BY <1>3, <4>2, <4>3
    <3>4. content'[call.at + j - 1] = content[call.at + j - 1]
      BY <1>1, <1>8, <3>2, <3>3
    <3> QED
      BY <3>1, <3>4
  <2> QED
    BY <1>0, <1>3, <2>1, <2>2 DEF Moved
<1> QED
  BY <1>16, <1>17, <1>18, <1>19, <1>20 DEF SdInv

\* WaitResponse: the answer to the block, or none.
LEMMA ResponseKept ==
  ASSUME Regular, SdInv, WaitResponse
  PROVE  SdInv'
<1>0. /\ pc = "response" /\ Transfer /\ buf' = buf /\ res' = res /\ cs' = cs
      /\ call' = call /\ done' = done /\ answer' = answer /\ calls' = calls
      /\ cmd' = cmd /\ tries' = tries /\ ocr' = ocr /\ speed' = speed /\ content' = content
      /\ card' = Clocked(card, cs, 1)
  BY DEF WaitResponse, Transfer
<1>1. /\ card \in Cards /\ res \in Seq(0 .. 255) /\ Len(res) <= 5 /\ cs \in {"low", "high"}
      /\ buf \in Seq(0 .. 255) /\ Len(buf) <= 2 * BlockLen /\ count \in Nat
  BY DEF SdInv, Types, TypeOK
<1>2. /\ cmd = "CMD24" /\ Ready /\ cs = "low" /\ count \in 1 .. WriteTimeout
      /\ \/ IsStored /\ \E g \in 0 .. WriteTimeout - 1 : card.out = <<\hE5>> \o Zeros(g)
         \/ "reject" \in Faults /\ card.out = <<\hED>>
         \/ Silent
  BY <1>0 DEF SdInv, Talking, InResponse
<1>p. WriteTimeout \in Nat /\ WriteTimeout > 0
  BY SdCardAssumption
<1>3. arg' = arg
  BY <1>0 DEF arg
<1>4. IsStored' = IsStored
  BY <1>0, <1>3 DEF IsStored
<1>5. pc' \notin {"idle", "command"} => OnTheWay
  BY <1>0, WayClocked
<1>6. ASSUME pc' \in {"response", "busy", "abort", "failed"}, count' \in Nat, Talking'
      PROVE  SdInv'
  <2>1. OnTheWay
    BY <1>5, <1>6
  <2>2. Types'
    BY <1>0, <1>1, <1>6, <2>1, WayTypes
  <2> QED
    BY <1>0, <1>2, <1>6, <2>1, <2>2, WayKept, WayMoved DEF SdInv
<1>7. CASE IsStored /\ \E g \in 0 .. WriteTimeout - 1 : card.out = <<\hE5>> \o Zeros(g)
  <2>1. PICK g \in Nat : g \in 0 .. WriteTimeout - 1 /\ card.out = <<\hE5>> \o Zeros(g)
    BY <1>7
  <2>2. PICK z \in Seq(0 .. 255) : z = Zeros(g)
    BY ZeroPasses
  <2>3. \hE5 \in 0 .. 255 /\ \hE5 % 32 = 5 /\ \hE5 # \hFF
    OBVIOUS
  <2>4. card.out = <<\hE5>> \o z
    BY <2>1, <2>2
  <2>5. card.out # <<>> /\ Head(card.out) = \hE5 /\ SubSeq(card.out, 2, Len(card.out)) = z
    <3>1. PICK x \in 0 .. 255 : x = \hE5
      OBVIOUS
    <3>2. /\ <<x>> \o z # <<>> /\ Head(<<x>> \o z) = x
          /\ SubSeq(<<x>> \o z, 2, Len(<<x>> \o z)) = z
      BY BytePasses, ZenonT(40)
    <3> QED
      BY <2>4, <3>1, <3>2
  <2>6. Drives = \hE5 /\ card'.out = z
    BY <1>0, <1>1, <1>2, <2>5, Passing DEF Cards
  <2>7. pc' = "busy" /\ count' = WriteTimeout
    BY <2>3, <2>6 DEF WaitResponse
  <2>8. OnTheWay
    BY <1>5, <2>7
  <2>9. \E h \in 0 .. count' - 1 : card'.out = Zeros(h)
    BY <2>1, <2>2, <2>6, <2>7
  <2>10. InBusy'
    BY <1>0, <1>2, <1>4, <1>7, <2>8, <2>9 DEF InBusy, OnTheWay, Ready
  <2>11. Talking'
    BY <2>7, <2>10 DEF Talking
  <2> QED
    BY <1>6, <1>p, <2>7, <2>11
<1>8. CASE "reject" \in Faults /\ card.out = <<\hED>>
  <2>1. \hED \in 0 .. 255 /\ \hED % 32 = 13 /\ \hED # \hFF
    OBVIOUS
  <2>2. <<\hED>> = <<\hED>> \o <<>>
    OBVIOUS
  <2>3. card.out # <<>> /\ Head(card.out) = \hED /\ SubSeq(card.out, 2, Len(card.out)) = <<>>
    BY <1>8
  <2>4. Drives = \hED /\ card'.out = <<>>
    BY <1>0, <1>1, <1>2, <2>3, Passing DEF Cards
  <2>5. pc' = "abort" /\ count' = WriteTimeout
    BY <2>1, <2>4 DEF WaitResponse
  <2>6. Talking'
    BY <1>0, <1>2, <1>8, <2>4, <2>5 DEF Talking, Aborting
  <2> QED
    BY <1>6, <1>p, <2>5, <2>6
<1>9. CASE Silent
  <2>1. card' = card /\ Drives = \hFF /\ card.out = <<>> /\ "silent" \in Faults
    BY <1>0, <1>1, <1>9, QuietPasses DEF Silent
  <2>2. CASE count = 1
    <3>1. pc' = "failed" /\ count' = 0
      BY <2>1, <2>2 DEF WaitResponse
    <3>2. Talking'
      BY <1>0, <1>2, <2>1, <3>1 DEF Talking, Failing
    <3> QED
      BY <1>6, <3>1, <3>2
  <2>3. CASE count > 1
    <3>1. pc' = "response" /\ count' = count - 1
      BY <1>0, <2>1, <2>3 DEF WaitResponse
    <3>2. count' \in 1 .. WriteTimeout
      BY <1>2, <1>p, <2>3, <3>1
    <3>3. InResponse'
      BY <1>0, <1>2, <2>1, <3>2 DEF InResponse, Silent, Ready
    <3>4. Talking'
      BY <3>1, <3>3 DEF Talking
    <3>5. count' \in Nat
      BY <3>2, <1>p
    <3> QED
      BY <1>6, <3>1, <3>4, <3>5
  <2> QED
    BY <1>1, <1>2, <2>2, <2>3
<1> QED
  BY <1>2, <1>7, <1>8, <1>9

\* WaitBusy: the card has stored the block before the time-out.
LEMMA BusyKept ==
  ASSUME Regular, SdInv, WaitBusy
  PROVE  SdInv'
<1>0. /\ pc = "busy" /\ Transfer /\ buf' = buf /\ res' = res /\ cs' = cs
      /\ call' = call /\ done' = done /\ answer' = answer /\ calls' = calls
      /\ cmd' = cmd /\ tries' = tries /\ ocr' = ocr /\ speed' = speed /\ content' = content
      /\ card' = Clocked(card, cs, 1)
      /\ count' = (IF Drives = 0 THEN count - 1 ELSE count)
      /\ pc' = (IF Drives # 0 THEN "close" ELSE IF count = 1 THEN "abort" ELSE pc)
  BY DEF WaitBusy, Transfer
<1>1. /\ card \in Cards /\ res \in Seq(0 .. 255) /\ Len(res) <= 5 /\ cs \in {"low", "high"}
      /\ buf \in Seq(0 .. 255) /\ Len(buf) <= 2 * BlockLen /\ count \in Nat
  BY DEF SdInv, Types, TypeOK
<1>2. InBusy /\ cmd = "CMD24" /\ Ready /\ cs = "low" /\ IsStored
  BY <1>0 DEF SdInv, Talking, InBusy
<1>3. arg' = arg
  BY <1>0 DEF arg
<1>4. IsStored'
  BY <1>0, <1>2, <1>3 DEF IsStored
<1>5. pc' \in {"busy", "close", "abort"} /\ OnTheWay
  <2>1. pc' \in {"busy", "close", "abort"}
    BY <1>0
  <2> QED
    BY <1>0, <2>1, WayClocked
<1>6. ASSUME count' \in Nat, Talking'
      PROVE  SdInv'
  <2>1. Types'
    BY <1>0, <1>1, <1>5, <1>6, WayTypes
  <2> QED
    BY <1>0, <1>2, <1>5, <1>6, <2>1, WayKept, WayMoved DEF SdInv
<1>7. PICK g \in Nat : g < count /\ card.out = Zeros(g)
  <2>1. PICK h \in 0 .. count - 1 : card.out = Zeros(h)
    BY <1>2 DEF InBusy
  <2>2. h \in Nat /\ h < count
    BY <1>1
  <2> QED
    BY <2>1, <2>2
<1>8. CASE g = 0
  <2>1. card.out = <<>>
    BY <1>7, <1>8, ZeroPasses
  <2>2. card' = card /\ Drives = \hFF
    BY <1>0, <1>1, <2>1, QuietPasses
  <2>3. pc' = "close" /\ count' = count
    BY <1>0, <2>2
  <2>4. Talking'
    BY <1>0, <1>2, <1>4, <1>5, <2>1, <2>2, <2>3 DEF Talking, Judged, Ready
  <2> QED
    BY <1>1, <1>6, <2>3, <2>4
<1>9. CASE g > 0
  <2>1. Zeros(g) # <<>> /\ Head(Zeros(g)) = 0 /\ SubSeq(Zeros(g), 2, Len(Zeros(g))) = Zeros(g - 1)
    BY <1>9, ZeroPasses
  <2>2. Drives = 0 /\ card'.out = Zeros(g - 1)
    BY <1>0, <1>1, <1>2, <1>7, <2>1, Passing, ZenonT(40) DEF Cards
  <2>3. pc' = "busy" /\ count' = count - 1 /\ count' \in Nat
    BY <1>0, <1>1, <1>7, <1>9, <2>2
  <2>4. \E h \in 0 .. count' - 1 : card'.out = Zeros(h)
    <3>1. g - 1 \in 0 .. count' - 1
      BY <1>1, <1>7, <1>9, <2>3
    <3> QED
      BY <2>2, <3>1
  <2>5. InBusy'
    BY <1>0, <1>2, <1>4, <1>5, <2>4 DEF InBusy, OnTheWay, Ready
  <2>6. Talking'
    BY <2>3, <2>5 DEF Talking
  <2> QED
    BY <1>6, <2>3, <2>6
<1> QED
  BY <1>8, <1>9

-----------------------------------------------------------------------------
(* The end of a command *)

\* Deselecting a card that has sent everything does not change it.
LEMMA DeselectedIs ==
  ASSUME SdInv, pc \in {"close", "abort"}, Deselect
  PROVE  card' = card /\ card.out = <<>> /\ content' = content /\ cs' = "high"
<1>1. card \in Cards /\ card.out = <<>>
  BY DEF SdInv, Types, Talking
<1> QED
  BY <1>1, ClockedQuiet DEF Deselect

\* A call returns: what the driver knows of the card stays.
LEMMA Returned ==
  ASSUME SdInv, NEW r, Return(r), card' = card, content' = content, cs' \in {"low", "high"},
         speed' = speed, card.out = <<>>,
         ocr' \in [sectorsize : {0, 1, BlockLen}, status : {0, 1}],
         Ready => ocr'.sectorsize = BlockLen,
         ocr'.status = 1 => ocr'.sectorsize = BlockLen /\ ~Idling
  PROVE  SdInv'
<1>0. pc' = "idle" /\ UNCHANGED <<call, done, buf, calls, cmd, res, count, tries>>
  BY DEF Return
<1>1. Types'
  BY <1>0 DEF SdInv, Types, TypeOK
<1>2. Calling' /\ Moved'
  BY <1>0 DEF Calling, Moved
<1>3. Brought'
  BY <1>0 DEF SdInv, Brought, Idling, Ready
<1>4. Talking'
  BY <1>0 DEF Talking
<1> QED
  BY <1>1, <1>2, <1>3, <1>4 DEF SdInv

\* SD_initialize goes on with its next command.
LEMMA Issued ==
  ASSUME SdInv, pc = "close", call.op = "init", NEW k \in InitCmds, Issue(k), card' = card,
         content' = content, done' = done, cs' \in {"low", "high"}, card.out = <<>>,
         tries' \in 1 .. InitTries, speed' \in {"slow", "fast"}, Idling => speed' = "slow",
         ocr' \in [sectorsize : {0, 1, BlockLen}, status : {0, 1}], Initialising'
  PROVE  SdInv'
<1>0. pc' = "command" /\ cmd' = k /\ UNCHANGED <<call, buf, answer, calls, res, count>>
  BY DEF Issue
<1>p. InitTries \in Nat
  BY SdCardAssumption
<1>1. Types'
  <2>1. tries' \in 0 .. InitTries
    BY <1>p
  <2> QED
    BY <1>0, <2>1 DEF SdInv, Types, TypeOK, InitCmds
<1>2. Calling'
  BY <1>0, <1>p DEF Calling
<1>3. Brought'
  BY <1>0 DEF SdInv, Brought, Idling, Initialising
<1>4. Talking'
  BY <1>0 DEF Talking
<1>5. Moved'
  BY <1>0 DEF SdInv, Moved
<1> QED
  BY <1>1, <1>2, <1>3, <1>4, <1>5 DEF SdInv

\* The record of the card.
LEMMA OcrIs ==
  ASSUME SdInv
  PROVE  /\ ocr \in [sectorsize : {0, 1, BlockLen}, status : {0, 1}]
         /\ speed \in {"slow", "fast"} /\ tries \in 0 .. InitTries /\ InitTries \in Nat
         /\ card \in Cards /\ card.idle \in BOOLEAN /\ card.on \in {"none", "native", "spi"}
         /\ pc # "idle" /\ call.op = "init" => tries \in 1 .. InitTries
BY SdCardAssumption DEF SdInv, Types, TypeOK, Calling, Cards

\* Abort: the card is deselected and the call fails.
LEMMA AbortKept ==
  ASSUME SdInv, Abort
  PROVE  SdInv'
<1>1. /\ pc = "abort" /\ Return("error") /\ ocr' = ocr /\ speed' = speed
      /\ card' = card /\ card.out = <<>> /\ content' = content /\ cs' = "high"
  BY DeselectedIs DEF Abort
<1>2. call.op # "init" /\ Aborting
  BY <1>1, CmdsAre DEF SdInv, Talking, Aborting, InitCmds
<1>3. Ready => ocr.sectorsize = BlockLen
  BY <1>2 DEF SdInv, Brought
<1>4. ocr.status = 1 => ocr.sectorsize = BlockLen /\ ~Idling
  BY DEF SdInv, Brought
<1> QED
  BY <1>1, <1>3, <1>4, OcrIs, Returned

\* Failed: the call fails, the card stays selected.
LEMMA FailedKept ==
  ASSUME SdInv, Failed
  PROVE  SdInv'
<1>1. /\ pc = "failed" /\ Return("error") /\ ocr' = ocr /\ speed' = speed
      /\ card' = card /\ content' = content /\ cs' = cs
  BY DEF Failed
<1>2. card.out = <<>> /\ Failing /\ cs \in {"low", "high"}
  BY <1>1 DEF SdInv, Talking, Types, TypeOK
<1>3. Ready => ocr.sectorsize = BlockLen
  <2>1. CASE card.on # "spi"
    BY <2>1 DEF Ready
  <2>2. CASE cmd \in {"CMD17", "CMD24"}
    <3>1. call.op # "init"
      BY <1>1, <2>2, CmdsAre DEF InitCmds
    <3> QED
      BY <3>1 DEF SdInv, Brought
  <2> QED
    BY <1>2, <2>1, <2>2 DEF Failing
<1>4. ocr.status = 1 => ocr.sectorsize = BlockLen /\ ~Idling
  BY DEF SdInv, Brought
<1> QED
  BY <1>1, <1>2, <1>3, <1>4, OcrIs, Returned

\* JudgeIdle: the commands sent to a card in idle state.
LEMMA IdleKept ==
  ASSUME SdInv, JudgeIdle
  PROVE  SdInv'
<1>1. /\ pc = "close" /\ cmd \in {"CMD0", "CMD8", "CMD55"} /\ ocr' = ocr /\ speed' = speed
      /\ card' = card /\ card.out = <<>> /\ content' = content /\ cs' = "high"
  BY DeselectedIs DEF JudgeIdle
<1>2. call.op = "init" /\ Initialising /\ Judged
  BY <1>1, CmdsAre DEF SdInv, Brought, Talking, InitCmds
<1>3. ocr.status = 1 => ocr.sectorsize = BlockLen /\ ~Idling
  BY DEF SdInv, Brought
<1>4. CASE res[1] > 1
  <2>1. card.on # "spi"
    BY <1>1, <1>2, <1>4 DEF Judged
  <2>2. Return("error")
    BY <1>4 DEF JudgeIdle
  <2> QED
    BY <1>1, <1>3, <2>1, <2>2, OcrIs, Returned DEF Ready
<1>5. CASE ~(res[1] > 1)
  <2>1. card.on = "spi" /\ card.idle
    BY <1>1, <1>2, <1>5 DEF Judged, Initialising
  <2>2. PICK k \in {"CMD8", "CMD55", "ACMD41"} :
          /\ Issue(k) /\ done' = done /\ tries' = tries
          /\ k = "ACMD41" => cmd = "CMD55"
    BY <1>1, <1>5 DEF JudgeIdle
  <2>3. cmd' = k /\ pc' = "command"
    BY <2>2 DEF Issue
  <2>4. Initialising'
    BY <1>1, <1>2, <2>1, <2>2, <2>3 DEF Initialising
  <2>5. Idling => speed' = "slow"
    BY <1>1 DEF SdInv, Brought
  <2>6. k \in InitCmds
    BY DEF InitCmds
  <2> QED
    BY <1>1, <1>2, <2>2, <2>4, <2>5, <2>6, OcrIs, Issued
<1> QED
  BY <1>4, <1>5

\* JudgeReady: the card leaves idle state, or is asked again.
LEMMA ReadyKept ==
  ASSUME SdInv, JudgeReady
  PROVE  SdInv'
<1>1. /\ pc = "close" /\ cmd = "ACMD41" /\ ocr' = ocr /\ speed' = speed
      /\ card' = card /\ card.out = <<>> /\ content' = content /\ cs' = "high"
  BY DeselectedIs DEF JudgeReady
<1>2. call.op = "init" /\ Initialising /\ Judged
  BY <1>1, CmdsAre DEF SdInv, Brought, Talking, InitCmds
<1>3. ocr.status = 1 => ocr.sectorsize = BlockLen /\ ~Idling
  BY DEF SdInv, Brought
<1>4. res[1] = IF card.on = "spi" THEN (IF card.idle THEN 1 ELSE 0) ELSE \hFF
  BY <1>1, <1>2 DEF Judged, R1
<1>s. Idling => speed' = "slow"
  BY <1>1 DEF SdInv, Brought
<1>5. CASE Return("error") /\ (res[1] > 1 \/ res[1] = 1)
  <2>1. ~Ready
    BY <1>4, <1>5 DEF Ready
  <2> QED
    BY <1>1, <1>3, <1>5, <2>1, OcrIs, Returned
<1>6. CASE res[1] = 1 /\ tries > 1 /\ tries' = tries - 1 /\ Issue("CMD55") /\ done' = done
  <2>1. card.on = "spi" /\ card.idle
    BY <1>4, <1>6, OcrIs
  <2>2. cmd' = "CMD55" /\ pc' = "command"
    BY <1>6 DEF Issue
  <2>3. Initialising'
    BY <1>1, <1>2, <2>1, <2>2 DEF Initialising
  <2>4. tries' \in 1 .. InitTries
    BY <1>6, OcrIs
  <2>5. "CMD55" \in InitCmds
    BY DEF InitCmds
  <2> QED
    BY <1>1, <1>2, <1>6, <1>s, <2>3, <2>4, <2>5, OcrIs, Issued
<1>7. CASE res[1] = 0 /\ Issue("CMD58") /\ done' = done /\ tries' = tries
  <2>1. card.on = "spi" /\ ~card.idle
    BY <1>4, <1>7, OcrIs
  <2>2. cmd' = "CMD58" /\ pc' = "command"
    BY <1>7 DEF Issue
  <2>3. Initialising'
    BY <1>1, <1>2, <2>1, <2>2 DEF Initialising
  <2>4. tries' \in 1 .. InitTries
    BY <1>1, <1>2, <1>7, OcrIs
  <2>5. "CMD58" \in InitCmds
    BY DEF InitCmds
  <2> QED
    BY <1>1, <1>2, <1>7, <1>s, <2>3, <2>4, <2>5, OcrIs, Issued
<1> QED
  BY <1>5, <1>6, <1>7 DEF JudgeReady

\* JudgeOcr: the block length is recorded and the clock raised.
LEMMA OcrKept ==
  ASSUME SdInv, JudgeOcr
  PROVE  SdInv'
<1>1. /\ pc = "close" /\ cmd = "CMD58"
      /\ card' = card /\ card.out = <<>> /\ content' = content /\ cs' = "high"
  BY DeselectedIs DEF JudgeOcr
<1>2. call.op = "init" /\ Initialising /\ Judged
  BY <1>1, CmdsAre DEF SdInv, Brought, Talking, InitCmds
<1>3. ocr.status = 1 => ocr.sectorsize = BlockLen /\ ~Idling
  BY DEF SdInv, Brought
<1>4. CASE card.on # "spi"
  <2>1. res[1] = \hFF
    BY <1>1, <1>2, <1>4 DEF Judged
  <2>2. Return("error") /\ ocr' = ocr /\ speed' = speed
    BY <2>1 DEF JudgeOcr
  <2> QED
    BY <1>1, <1>3, <1>4, <2>2, OcrIs, Returned DEF Ready
<1>5. CASE card.on = "spi"
  <2>1. res[1] = 0 /\ res[2] = \hC0
    BY <1>1, <1>2, <1>5 DEF Judged
  <2>2. \hC0 \div 64 = 3 /\ ~(\hC0 < \h80) /\ ~(0 > 1)
    OBVIOUS
  <2>3. /\ ocr' = [ocr EXCEPT !.sectorsize = BlockLen] /\ speed' = "fast"
        /\ Issue("CMD9") /\ done' = done /\ tries' = tries
    BY <2>1, <2>2 DEF JudgeOcr
  <2>4. cmd' = "CMD9" /\ pc' = "command"
    BY <2>3 DEF Issue
  <2>5. /\ ocr' \in [sectorsize : {0, 1, BlockLen}, status : {0, 1}]
        /\ ocr'.sectorsize = BlockLen /\ ocr'.status = ocr.status
    BY <2>3, OcrIs
  <2>6. ~card.idle
    BY <1>1, <1>2, <1>5 DEF Initialising
  <2>7. Initialising'
    BY <1>1, <1>2, <1>5, <2>3, <2>4, <2>5, <2>6 DEF Initialising
  <2>8. "CMD9" \in InitCmds /\ ~Idling
    BY <2>6 DEF InitCmds, Idling
  <2>9. tries' \in 1 .. InitTries /\ speed' \in {"slow", "fast"}
    BY <1>1, <1>2, <2>3, OcrIs
  <2> QED
    BY <1>1, <1>2, <2>3, <2>5, <2>7, <2>8, <2>9, Issued
<1> QED
  BY <1>4, <1>5

\* JudgeInfo: CSD and CID are read and the disk is there.
LEMMA InfoKept ==
  ASSUME SdInv, JudgeInfo
  PROVE  SdInv'
<1>1. /\ pc = "close" /\ cmd \in {"CMD9", "CMD10"} /\ speed' = speed
      /\ card' = card /\ card.out = <<>> /\ content' = content /\ cs' = "high"
  BY DeselectedIs DEF JudgeInfo
<1>2. call.op = "init" /\ Initialising /\ Judged
  BY <1>1, CmdsAre DEF SdInv, Brought, Talking, InitCmds
<1>3. Ready /\ ~Idling /\ ocr.sectorsize = BlockLen
  BY <1>1, <1>2 DEF Judged, Initialising, Ready, Idling
<1>4. CASE cmd = "CMD9"
  <2>1. Issue("CMD10") /\ done' = done /\ tries' = tries /\ ocr' = ocr
    BY <1>4 DEF JudgeInfo
  <2>2. cmd' = "CMD10" /\ pc' = "command"
    BY <2>1 DEF Issue
  <2>3. Initialising'
    BY <1>1, <1>2, <1>3, <2>1, <2>2 DEF Initialising, Ready
  <2>4. "CMD10" \in InitCmds
    BY DEF InitCmds
  <2>5. tries' \in 1 .. InitTries
    BY <1>1, <1>2, <2>1, OcrIs
  <2> QED
    BY <1>1, <1>2, <1>3, <2>1, <2>3, <2>4, <2>5, OcrIs, Issued
<1>5. CASE cmd # "CMD9"
  <2>1. Return("ok") /\ ocr' = [ocr EXCEPT !.status = 1]
    BY <1>5 DEF JudgeInfo
  <2>2. /\ ocr' \in [sectorsize : {0, 1, BlockLen}, status : {0, 1}]
        /\ ocr'.sectorsize = BlockLen
    BY <1>3, <2>1, OcrIs
  <2> QED
    BY <1>1, <1>3, <2>1, <2>2, Returned
<1> QED
  BY <1>4, <1>5

\* SectorDone: the loops of disk_read and disk_write.
LEMMA SectorKept ==
  ASSUME SdInv, SectorDone
  PROVE  SdInv'
<1>1. /\ pc = "close" /\ cmd \in {"CMD17", "CMD24"} /\ ocr' = ocr /\ speed' = speed
      /\ card' = card /\ card.out = <<>> /\ content' = content /\ cs' = "high"
  BY DeselectedIs DEF SectorDone
<1>2. call.op # "init" /\ Judged /\ Ready
  BY <1>1, CmdsAre DEF SdInv, Talking, Judged, InitCmds
<1>3. ocr.sectorsize = BlockLen /\ ~Idling
  BY <1>2 DEF SdInv, Brought, Ready, Idling
<1>4. /\ arg = call.at + done /\ call.at \in Nat /\ call.n \in 1 .. 2 /\ done \in 0 .. 1
      /\ cmd = "CMD24" => call.op = "write"
      /\ cmd = "CMD17" => call.op = "read"
  BY <1>1, ArgIs DEF SdInv, Types, TypeOK
<1>5. CASE Return("ok")
  BY <1>1, <1>3, <1>5, OcrIs, Returned
<1>6. CASE done + 1 < call.n /\ done' = done + 1 /\ Issue(cmd) /\ tries' = tries
  <2>1. /\ pc' = "command" /\ cmd' = cmd /\ call' = call /\ buf' = buf /\ answer' = answer
        /\ calls' = calls /\ res' = res /\ count' = count
    BY <1>6 DEF Issue
  <2>2. done' \in 0 .. 1 /\ done' < call.n
    BY <1>4, <1>6
  <2>3. Types'
    BY <1>1, <1>6, <2>1, <2>2 DEF SdInv, Types, TypeOK
  <2>4. Calling'
    BY <1>1, <1>6, <2>1 DEF SdInv, Calling
  <2>5. Brought'
    BY <1>1, <1>2, <1>3, <2>1 DEF Brought, Ready, Idling
  <2>6. Talking'
    BY <1>1, <2>1 DEF Talking
  <2>7. Moved'
    <3>1. \A m : Upto(m)' = Upto(m)
      BY <1>1, <2>1 DEF Upto
    <3>2. CASE cmd = "CMD17"
      BY <1>1, <1>4, <1>6, <2>1, <3>1, <3>2 DEF SdInv, Moved
    <3>3. CASE cmd = "CMD24"
      <4>1. content[call.at + done] = call.data[done + 1]
        BY <1>2, <1>4, <3>3 DEF Judged, IsStored
      <4>2. \A j \in 1 .. done : content[call.at + j - 1] = call.data[j]
        BY <1>1, <1>4, <3>3 DEF SdInv, Moved
      <4>3. \A j \in 1 .. done + 1 : content[call.at + j - 1] = call.data[j]
        <5> SUFFICES ASSUME NEW j \in 1 .. done + 1
                     PROVE  content[call.at + j - 1] = call.data[j]
          OBVIOUS
        <5>1. CASE j = done + 1
          <6>1. call.at + j - 1 = call.at + done
            BY <1>4, <5>1
          <6> QED
            BY <4>1, <5>1, <6>1
        <5>2. CASE j # done + 1
          <6>1. j \in 1 .. done
            BY <1>4, <5>2
          <6> QED
            BY <4>2, <6>1
        <5> QED
          BY <5>1, <5>2
      <4>4. buf' = <<>>
        BY <1>1, <1>4, <2>1, <3>3 DEF SdInv, Moved
      <4> QED
        BY <1>1, <1>4, <1>6, <2>1, <3>3, <4>3, <4>4 DEF Moved
    <3> QED
      BY <1>1, <3>2, <3>3
  <2> QED
    BY <2>3, <2>4, <2>5, <2>6, <2>7 DEF SdInv
<1> QED
  BY <1>5, <1>6 DEF SectorDone

-----------------------------------------------------------------------------
(* The calls, and the card that is exchanged *)

\* disk_initialize: the record of the card is cleared and the clock slow.
LEMMA InitKept ==
  ASSUME SdInv, disk_initialize
  PROVE  SdInv'
<1>1. /\ pc = "idle" /\ pc' = "command" /\ call' = [op |-> "init"] /\ calls' = calls + 1
      /\ calls < MaxCalls /\ done' = 0 /\ buf' = <<>> /\ UNCHANGED <<res, count, content>>
      /\ ocr' = NoOcr /\ speed' = "slow" /\ cs' = "high" /\ cmd' = "CMD0" /\ tries' = InitTries
      /\ card' = IF card.on = "native" THEN [card EXCEPT !.warm = TRUE] ELSE card
  BY DEF disk_initialize, Asked
<1>2. /\ card' \in Cards /\ card'.on = card.on /\ card'.out = card.out
      /\ card.on = "native" => card'.warm
      /\ card.out = <<>> /\ card'.on \in {"none", "native", "spi"} /\ card'.out \in Seq(0 .. 255)
  BY <1>1 DEF SdInv, Types, Talking, Cards
<1>3. Types'
  <2>c. calls \in 0 .. MaxCalls
    BY DEF SdInv, Types, TypeOK
  <2>1. calls' \in 0 .. MaxCalls /\ InitTries \in 0 .. InitTries /\ InitTries \in Nat /\ BlockLen \in Nat
    BY <1>1, <2>c, SdCardAssumption
  <2>2. call' \in {[op |-> "none"]} \cup D!Calls /\ call'.op = "init"
    BY <1>1 DEF D!Calls
  <2>3. buf' \in Seq(0 .. 255) /\ Len(buf') <= 2 * BlockLen
    BY <1>1, <2>1
  <2>4. ocr' \in [sectorsize : {0, 1, BlockLen}, status : {0, 1}]
    BY <1>1 DEF NoOcr
  <2> QED
    BY <1>1, <1>2, <2>1, <2>2, <2>3, <2>4 DEF SdInv, Types, TypeOK
<1>4. Calling'
  BY <1>1, SdCardAssumption DEF Calling, InitCmds
<1>5. Brought'
  BY <1>1, <1>2 DEF Brought, Initialising, Idling, NoOcr
<1>6. Talking'
  BY <1>1, <1>2 DEF Talking
<1>7. Moved'
  BY <1>1 DEF Moved
<1> QED
  BY <1>3, <1>4, <1>5, <1>6, <1>7 DEF SdInv

\* disk_read and disk_write start with the first block.
LEMMA AskedKept ==
  ASSUME SdInv, NEW c \in D!Calls, c.op \in {"read", "write"}, Asked(c),
         cmd' = IF c.op = "read" THEN "CMD17" ELSE "CMD24",
         UNCHANGED <<tries, ocr, cs, speed, card>>
  PROVE  SdInv'
<1>1. /\ pc = "idle" /\ pc' = "command" /\ call' = c /\ calls' = calls + 1
      /\ calls < MaxCalls /\ done' = 0 /\ buf' = <<>> /\ UNCHANGED <<res, count, content>>
  BY DEF Asked
<1>2. c.n \in 1 .. 2 /\ card.out = <<>>
  BY <1>1, CallsAre DEF SdInv, Talking
<1>3. Types'
  <2>c. calls \in 0 .. MaxCalls
    BY DEF SdInv, Types, TypeOK
  <2>1. calls' \in 0 .. MaxCalls
    BY <1>1, <2>c, SdCardAssumption
  <2>2. buf' \in Seq(0 .. 255) /\ Len(buf') <= 2 * BlockLen
    BY <1>1, SdCardAssumption
  <2> QED
    BY <1>1, <1>2, <2>1, <2>2 DEF SdInv, Types, TypeOK
<1>4. Calling'
  BY <1>1 DEF Calling
<1>5. Brought'
  BY <1>1 DEF SdInv, Brought, Idling, Ready
<1>6. Talking'
  BY <1>1, <1>2 DEF Talking
<1>7. Moved'
  BY <1>1 DEF Moved, Upto
<1> QED
  BY <1>3, <1>4, <1>5, <1>6, <1>7 DEF SdInv

\* PullOut and PutBack: a card that is gone, or new, has nothing to send.
LEMMA ExchangeKept ==
  ASSUME SdInv, pc \in {"idle", "command"}, UNCHANGED <<driver, content>>,
         card' = Absent \/ (card' = Fresh /\ pc = "idle")
  PROVE  SdInv'
<1>0. /\ pc' = pc /\ call' = call /\ done' = done /\ buf' = buf /\ calls' = calls /\ cmd' = cmd
      /\ res' = res /\ count' = count /\ tries' = tries /\ ocr' = ocr /\ cs' = cs
      /\ speed' = speed /\ content' = content
  BY DEF driver
<1>1. /\ card' \in Cards /\ card'.out = <<>> /\ card'.on # "spi"
      /\ card'.on = "native" => pc = "idle"
      /\ card'.on \in {"none", "native", "spi"} /\ card'.out \in Seq(0 .. 255)
  <2>1. Fresh \in Cards /\ Fresh.out = <<>> /\ Fresh.on = "native"
    BY DEF Fresh, Cards
  <2>2. PICK c \in Cards : c = Fresh /\ c.out = <<>>
    BY <2>1
  <2>3. Absent \in Cards /\ Absent.out = <<>> /\ Absent.on = "none"
    BY <2>2 DEF Cards, Absent
  <2> QED
    BY <2>1, <2>3, NothingPasses, ZenonT(40)
<1>2. Types' /\ Calling'
  BY <1>0, <1>1 DEF SdInv, Types, TypeOK, Calling
<1>3. Brought'
  BY <1>0, <1>1 DEF SdInv, Brought, Initialising, Idling, Ready
<1>4. Talking'
  BY <1>0, <1>1 DEF Talking
<1>5. Moved'
  <2>1. \A m : Upto(m)' = Upto(m)
    BY <1>0 DEF Upto
  <2> QED
    BY <1>0, <2>1 DEF SdInv, Moved
<1> QED
  BY <1>2, <1>3, <1>4, <1>5 DEF SdInv

\* A step that changes nothing.
LEMMA StutterKept ==
  ASSUME SdInv, UNCHANGED vars
  PROVE  SdInv'
<1>0. /\ pc' = pc /\ call' = call /\ done' = done /\ buf' = buf /\ calls' = calls /\ cmd' = cmd
      /\ res' = res /\ count' = count /\ tries' = tries /\ ocr' = ocr /\ cs' = cs
      /\ speed' = speed /\ content' = content /\ card' = card
  BY DEF vars, driver
<1>1. arg' = arg /\ Wanted' = Wanted /\ Tails' = Tails /\ \A n : Coming(n)' = Coming(n)
  BY <1>0, SameCommand
<1>2. Types' /\ Calling' /\ Brought'
  BY <1>0 DEF SdInv, Types, TypeOK, Calling, Brought, Initialising, Idling, Ready
<1>3. Answering' = Answering
  <2>1. \A r, d : Reply(r, d)' = Reply(r, d)
    BY <1>0, <1>1 DEF Reply, R1
  <2> QED
    BY <1>0, <1>1, <2>1 DEF Answering
<1>4. Talking'
  <2>1. InToken' = InToken /\ InData' = InData
    BY <1>0, <1>1 DEF InToken, InData, Ready
  <2>2. InBusy' = InBusy /\ InResponse' = InResponse /\ InBlock' = InBlock /\ InTail' = InTail
    BY <1>0, <1>1 DEF InBusy, InResponse, InBlock, InTail, IsStored, Silent, Ready
  <2>3. InR1' = InR1 /\ Judged' = Judged /\ Aborting' = Aborting /\ Failing' = Failing
    BY <1>0, <1>1, <1>3 DEF InR1, Judged, Aborting, Failing, IsStored, Ready, R1
  <2> QED
    BY <1>0, <2>1, <2>2, <2>3 DEF SdInv, Talking
<1>5. Moved'
  <2>1. \A m : Upto(m)' = Upto(m)
    BY <1>0 DEF Upto
  <2> QED
    BY <1>0, <2>1 DEF SdInv, Moved
<1> QED
  BY <1>2, <1>4, <1>5 DEF SdInv

\* Out of reset the driver knows no card.
LEMMA SdInit ==
  ASSUME Init
  PROVE  SdInv
<1>1. /\ card \in Cards /\ card.out = <<>> /\ card.on = "native"
  BY DEF Init, Fresh, Cards
<1>2. Types
  <2>1. <<>> \in Seq(0 .. 255) /\ Len(<<>>) = 0 /\ 0 <= 2 * BlockLen
    BY SdCardAssumption
  <2>2. 0 \in 0 .. MaxCalls /\ 0 \in 0 .. InitTries
    BY SdCardAssumption
  <2> QED
    BY <1>1, <2>1, <2>2 DEF Init, Types, TypeOK, NoOcr, Cards
<1>3. Brought
  BY <1>1 DEF Init, NoOcr, Brought, Idling, Ready
<1>4. Calling /\ Talking /\ Moved
  BY <1>1 DEF Init, Calling, Talking, Moved
<1> QED
  BY <1>2, <1>3, <1>4 DEF SdInv

\* Every step keeps the invariant.
LEMMA SdNext ==
  ASSUME Regular, SdInv, [Next]_vars
  PROVE  SdInv'
<1>1. CASE disk_initialize
  BY <1>1, InitKept
<1>2. CASE disk_read
  <2>1. PICK c \in D!Calls : c.op = "read" /\ Asked(c)
    BY <1>2 DEF disk_read
  <2>2. cmd' = "CMD17" /\ UNCHANGED <<tries, ocr, cs, speed, card>>
    BY <1>2 DEF disk_read
  <2> QED
    BY <2>1, <2>2, AskedKept
<1>3. CASE disk_write
  <2>1. PICK c \in D!Calls : c.op = "write" /\ Asked(c)
    BY <1>3 DEF disk_write
  <2>2. cmd' = "CMD24" /\ UNCHANGED <<tries, ocr, cs, speed, card>>
    BY <1>3 DEF disk_write
  <2> QED
    BY <2>1, <2>2, AskedKept
<1>4. CASE Driver
  BY <1>4, CommandKept, R1Kept, TailKept, TokenKept, DataKept, BlockKept, ResponseKept,
     BusyKept, AbortKept, FailedKept, IdleKept, ReadyKept, OcrKept, InfoKept, SectorKept
     DEF Driver
<1>5. CASE PullOut
  BY <1>5, ExchangeKept DEF PullOut, Regular
<1>6. CASE PutBack
  BY <1>6, ExchangeKept DEF PutBack
<1>7. CASE UNCHANGED vars
  BY <1>7, StutterKept
<1> QED
  BY <1>1, <1>2, <1>3, <1>4, <1>5, <1>6, <1>7 DEF Next

-----------------------------------------------------------------------------
(* Theorems *)

\* The invariant holds throughout.
LEMMA Invariance ==
  ASSUME Regular
  PROVE  Spec => []SdInv
<1>1. Init => SdInv
  BY SdInit
<1>2. SdInv /\ [Next]_vars => SdInv'
  BY SdNext
<1> QED
  BY <1>1, <1>2, PTL DEF Spec

\* The variables keep to their types (sdcard.c).
THEOREM TypeCorrect ==
  ASSUME Regular
  PROVE  Spec => []TypeOK
<1>1. SdInv => TypeOK
  BY DEF SdInv, Types
<1> QED
  BY <1>1, Invariance, PTL

\* SD_command never sends a command to a card that still has to send something:
\* each response, data block, data response and busy time is read to its end,
\* on the error paths too, and neither SD_readR1 nor a time-out gives up early.
THEOREM CommandsAreFramed ==
  ASSUME Regular
  PROVE  Spec => []CommandFramed
<1>1. SdInv => CommandFramed
  <2> SUFFICES ASSUME SdInv, pc = "command"
               PROVE  Clocked(Clocked(card, cs, 1), "low", 1).out = <<>>
    BY DEF CommandFramed
  <2>1. card \in Cards /\ card.out = <<>>
    BY DEF SdInv, Types, Talking
  <2> QED
    BY <2>1, ClockedQuiet
<1> QED
  BY <1>1, Invariance, PTL

\* What the driver takes for granted of a card is true, whenever it is
\* exchanged: SD_initialize clears its record and slows the clock down, and
\* reports a disk after the last command alone.
THEOREM KnowsItsCard ==
  ASSUME Regular
  PROVE  Spec => []CardKnown
<1>1. SdInv => CardKnown
  BY DEF SdInv, Brought, Idling, CardKnown, StatusMeansReady, SlowWhileIdle, disk_status
<1> QED
  BY <1>1, Invariance, PTL

\* A call fails only for a reason on the card's side, and no answer that comes
\* in time is missed (SD_readR1, the time-outs of SD_readsector and
\* SD_writesector, and the returns of SD_initialize).
THEOREM FailuresHaveCauses ==
  ASSUME Regular
  PROVE  Spec => FailsForCause
<1>1. SdInv /\ [Next]_vars => [pc # "idle" /\ pc' = "idle" /\ answer'.res = "error" => Excused]_vars
  <2> SUFFICES ASSUME SdInv, Next, pc # "idle", pc' = "idle", answer'.res = "error"
               PROVE  Excused
    BY DEF vars
  <2>0. card.on \in {"none", "native", "spi"}
    BY OcrIs
  <2>1. CASE disk_initialize \/ disk_read \/ disk_write \/ PutBack
    BY <2>1 DEF disk_initialize, disk_read, disk_write, Asked, PutBack
  <2>2. CASE PullOut
    BY <2>2 DEF PullOut, driver
  <2>3. CASE SD_command \/ SendBlock \/ ReadTail \/ ReadData
    BY <2>3 DEF SD_command, SendBlock, ReadTail, ReadData
  <2>4. CASE SD_readR1
    <3>1. cmd \in InitCmds \cup {"CMD17", "CMD24"}
      BY CmdsAre
    <3>2. pc' = pc \/ pc' = AfterR1(Drives)
      BY <2>4 DEF SD_readR1
    <3>3. AfterR1(Drives) # "idle"
      BY <3>1 DEF AfterR1, InitCmds
    <3> QED
      BY <3>2, <3>3
  <2>5. CASE WaitToken \/ WaitResponse \/ WaitBusy
    BY <2>5 DEF WaitToken, WaitResponse, WaitBusy
  <2>6. CASE Abort
    <3>1. pc = "abort" /\ Aborting
      BY <2>6 DEF Abort, SdInv, Talking
    <3>2. call.op # "init"
      BY <3>1, CmdsAre DEF Aborting, InitCmds
    <3> QED
      BY <2>0, <3>1, <3>2 DEF Aborting, Excused
  <2>7. CASE Failed
    <3>1. pc = "failed" /\ Failing /\ card.out = <<>>
      BY <2>7 DEF Failed, SdInv, Talking
    <3>2. cmd \in {"CMD9", "CMD10"} => card.on # "native"
      BY <3>1, CmdsAre DEF SdInv, Brought, Initialising, InitCmds
    <3> QED
      BY <2>0, <3>1, <3>2 DEF Failing, Excused
  <2>8. CASE JudgeIdle \/ JudgeReady \/ JudgeOcr \/ JudgeInfo
    <3>1. pc = "close" /\ cmd \in InitCmds
      BY <2>8 DEF JudgeIdle, JudgeReady, JudgeOcr, JudgeInfo, InitCmds
    <3>2. Initialising /\ Judged
      BY <3>1, CmdsAre DEF SdInv, Brought, Talking
    <3>3. card.on # "native"
      BY <3>1, <3>2 DEF Initialising
    <3>4. CASE card.on # "spi"
      BY <2>0, <3>3, <3>4 DEF Excused
    <3>5. CASE card.on = "spi"
      <4>1. CASE JudgeIdle
        BY <2>0, <3>1, <3>2, <3>5, <4>1 DEF JudgeIdle, Judged, Issue
      <4>2. CASE JudgeReady
        <5>1. cmd = "ACMD41" /\ (res[1] > 1 \/ (res[1] = 1 /\ tries = 1))
          BY <4>2 DEF JudgeReady, Issue
        <5>2. res[1] = IF card.idle THEN 1 ELSE 0
          BY <3>2, <3>5, <5>1 DEF Judged, R1
        <5> QED
          BY <5>1, <5>2 DEF Excused
      <4>3. CASE JudgeOcr
        <5>1. cmd = "CMD58" /\ res[1] = 0 /\ res[2] = \hC0
          BY <3>2, <3>5, <4>3 DEF JudgeOcr, Judged
        <5>2. ~(\hC0 < \h80) /\ ~(0 > 1)
          OBVIOUS
        <5> QED
          BY <4>3, <5>1, <5>2 DEF JudgeOcr, Issue
      <4>4. CASE JudgeInfo
        BY <4>4 DEF JudgeInfo, Issue, Return
      <4> QED
        BY <2>8, <4>1, <4>2, <4>3, <4>4
    <3> QED
      BY <3>4, <3>5
  <2>9. CASE SectorDone
    BY <2>9 DEF SectorDone, Issue, Return
  <2> QED
    BY <2>1, <2>2, <2>3, <2>4, <2>5, <2>6, <2>7, <2>8, <2>9 DEF Next, Driver
<1> QED
  BY <1>1, Invariance, PTL DEF Spec, FailsForCause

-----------------------------------------------------------------------------
(* The disk *)

\* One block, as the file system reads it.
LEMMA OneFlat ==
  ASSUME NEW b
  PROVE  D!FlattenSeq(<<b>>) = b
BY DEF D!FlattenSeq

\* Two blocks, one behind the other.
LEMMA TwoFlat ==
  ASSUME NEW a, NEW b
  PROVE  D!FlattenSeq(<<a, b>>) = a \o b
<1> DEFINE s == <<a, b>>
           Is(h) == h = [i \in 1 .. Len(s) |-> IF i = 1 THEN s[i] ELSE h[i - 1] \o s[i]]
<1>1. Len(s) = 2 /\ s[1] = a /\ s[2] = b
  OBVIOUS
<1>2. PICK g : g = [i \in 1 .. 2 |-> IF i = 1 THEN a ELSE a \o b]
  OBVIOUS
<1>3. g = [i \in 1 .. 2 |-> IF i = 1 THEN s[i] ELSE g[i - 1] \o s[i]]
  BY <1>1, <1>2
<1> HIDE DEF s
<1>4. Is(g)
  BY <1>1, <1>3
<1>5. D!FlattenSeq(s) = (CHOOSE h : Is(h))[2]
  BY <1>1 DEF D!FlattenSeq
<1>6. PICK h : h = CHOOSE x : Is(x)
  OBVIOUS
<1>7. Is(h)
  BY <1>4, <1>6
<1>8. h[1] = a /\ h[2] = h[1] \o b
  <2> DEFINE At(i) == IF i = 1 THEN s[i] ELSE h[i - 1] \o s[i]
  <2>1. h = [i \in 1 .. 2 |-> At(i)]
    BY <1>1, <1>7
  <2>2. At(1) = s[1] /\ At(2) = h[2 - 1] \o s[2] /\ 2 - 1 = 1
    OBVIOUS
  <2> HIDE DEF Is, At
  <2>3. h[1] = At(1) /\ h[2] = At(2)
    BY <2>1
  <2>4. h[2] = h[1] \o s[2]
    <3>1. h[2] = h[2 - 1] \o s[2]
      BY <2>2, <2>3
    <3>2. h[2 - 1] = h[1]
      BY <2>2
    <3> QED
      BY <3>1, <3>2
  <2> QED
    BY <1>1, <2>2, <2>3, <2>4
<1> HIDE DEF Is
<1> QED
  BY <1>5, <1>6, <1>8 DEF s

\* The blocks a read has brought are those of the disk.
LEMMA FlatIs ==
  ASSUME NEW n \in 1 .. 2, n = call.n, call.at \in Nat
  PROVE  D!FlattenSeq([k \in 1 .. call.n |-> content[call.at + k - 1]]) = Upto(n)
<1>1. CASE n = 1
  <2>1. [k \in 1 .. call.n |-> content[call.at + k - 1]] = <<content[call.at]>>
    BY <1>1
  <2> QED
    BY <1>1, <2>1, OneFlat DEF Upto
<1>2. CASE n = 2
  <2>1. [k \in 1 .. call.n |-> content[call.at + k - 1]] = <<content[call.at], content[call.at + 1]>>
    <3>1. call.at + 1 - 1 = call.at /\ call.at + 2 - 1 = call.at + 1
      OBVIOUS
    <3> QED
      BY <1>2, <3>1
  <2>2. Upto(2) = content[call.at] \o content[call.at + 1]
    BY DEF Upto
  <2> QED
    BY <1>2, <2>1, <2>2, TwoFlat
<1> QED
  BY <1>1, <1>2

\* A step of the driver that neither ends a call nor changes the disk.
LEMMA Unseen ==
  ASSUME pc # "idle" <=> pc' # "idle", call' = call, answer' = answer, content' = content
  PROVE  UNCHANGED D!vars
BY DEF D!vars

\* A call that ends.
LEMMA Ends ==
  ASSUME SdInv, pc # "idle", NEW r, Return(r), content' = content
  PROVE  /\ r = "error" => D!Next
         /\ r = "ok" /\ call.op = "init" => D!Next
         /\ r = "ok" /\ pc = "close" /\ cmd \in {"CMD17", "CMD24"} /\ done + 1 = call.n => D!Next
<1>1. /\ pc' = "idle" /\ answer' = [res |-> r, data |-> IF r = "ok" THEN buf ELSE <<>>]
      /\ call.op # "none"
  BY DEF Return, SdInv, Calling
<1>2. r = "error" => D!Fail
  BY <1>1 DEF D!Fail, D!Answer, D!NoCall
<1>3. r = "ok" /\ call.op = "init" => D!Succeed
  BY <1>1 DEF D!Succeed, D!Answer, D!NoCall, SdInv, Moved
<1>4. ASSUME r = "ok", pc = "close", cmd \in {"CMD17", "CMD24"}, done + 1 = call.n
      PROVE  D!Succeed
  <2>1. /\ call.at \in Nat /\ call.n \in 1 .. 2 /\ arg = call.at + done
        /\ cmd = "CMD24" => call.op = "write"
        /\ cmd = "CMD17" => call.op = "read"
    BY <1>4, ArgIs DEF SdInv
  <2>2. CASE cmd = "CMD17"
    <3>1. buf = Upto(call.n)
      BY <1>4, <2>1, <2>2 DEF SdInv, Moved
    <3>2. answer' = [res |-> "ok", data |-> D!FlattenSeq([k \in 1 .. call.n |-> content[call.at + k - 1]])]
      BY <1>1, <1>4, <2>1, <3>1, FlatIs
    <3> DEFINE asked == IF pc = "idle" THEN [op |-> "none"] ELSE call
    <3>3. asked = call
      BY <1>4
    <3>4. [k \in 1 .. asked.n |-> content[asked.at + k - 1]] = [k \in 1 .. call.n |-> content[call.at + k - 1]]
      BY <3>3
    <3>5. D!Answer("ok", D!FlattenSeq([k \in 1 .. asked.n |-> content[asked.at + k - 1]]))
      BY <1>1, <3>2, <3>4 DEF D!Answer, D!NoCall
    <3> QED
      BY <2>1, <2>2, <3>3, <3>5 DEF D!Succeed
  <2>3. CASE cmd = "CMD24"
    <3>1. content[call.at + done] = call.data[done + 1]
      BY <1>4, <2>1, <2>3 DEF SdInv, Talking, Judged, IsStored
    <3>2. \A j \in 1 .. done : content[call.at + j - 1] = call.data[j]
      BY <1>4, <2>1, <2>3 DEF SdInv, Moved
    <3>3. \A k \in 1 .. call.n : content[call.at + k - 1] = call.data[k]
      <4> SUFFICES ASSUME NEW k \in 1 .. call.n
                   PROVE  content[call.at + k - 1] = call.data[k]
        OBVIOUS
      <4>0. done \in 0 .. 1
        BY DEF SdInv, Types, TypeOK
      <4>1. CASE k = done + 1
        <5>1. call.at + k - 1 = call.at + done
          BY <2>1, <4>0, <4>1
        <5> QED
          BY <3>1, <4>1, <5>1
      <4>2. CASE k # done + 1
        <5>1. k \in 1 .. done
          BY <1>4, <2>1, <4>0, <4>2
        <5> QED
          BY <3>2, <5>1
      <4> QED
        BY <4>1, <4>2
    <3>4. buf = <<>>
      BY <1>4, <2>1, <2>3 DEF SdInv, Moved
    <3> QED
      BY <1>1, <1>4, <2>1, <2>3, <3>3, <3>4 DEF D!Succeed, D!Answer, D!NoCall
  <2> QED
    BY <1>4, <2>2, <2>3
<1> QED
  BY <1>2, <1>3, <1>4 DEF D!Next

\* SendBlock stores the next block of the call, or none.
LEMMA Stores ==
  ASSUME SdInv, SendBlock
  PROVE  D!Next \/ UNCHANGED D!vars
<1>0. pc = "block" /\ pc' = "response" /\ call' = call /\ answer' = answer
  BY DEF SendBlock
<1>1. /\ arg \in Sectors /\ call.at \in Nat /\ done \in 0 .. 1 /\ arg = call.at + done
      /\ call.op = "write" /\ cmd = "CMD24"
      /\ content' = [content EXCEPT ![arg] = call.data[done + 1]] \/ content' = content
  BY BlockSent
<1>2. CASE content' = content
  BY <1>0, <1>2, Unseen
<1>3. CASE content' = [content EXCEPT ![arg] = call.data[done + 1]]
  <2>1. PICK k \in 1 .. call.n : k = done + 1
    <3>1. done \in 0 .. call.n - 1 /\ call.n \in 1 .. 2
      BY <1>0, <1>1, ArgIs DEF SdInv
    <3> QED
      BY <3>1
  <2>2. call.at + k - 1 = arg
    BY <1>1, <2>1
  <2>3. \A j \in 1 .. k - 1 : content[call.at + j - 1] = call.data[j]
    <3>1. k - 1 = done
      BY <1>1, <2>1
    <3> QED
      BY <1>0, <1>1, <3>1 DEF SdInv, Moved
  <2>4. content' = [content EXCEPT ![call.at + k - 1] = call.data[k]]
    BY <1>3, <2>1, <2>2
  <2>5. D!Store
    BY <1>0, <1>1, <2>3, <2>4 DEF D!Store
  <2> QED
    BY <2>5 DEF D!Next
<1> QED
  BY <1>1, <1>2, <1>3

\* Every step of the driver is one of the disk, or none.
LEMMA DiskStep ==
  ASSUME Regular, SdInv, [Next]_vars
  PROVE  D!Next \/ UNCHANGED D!vars
<1>1. CASE disk_initialize \/ disk_read \/ disk_write
  <2>1. PICK c \in D!Calls : Asked(c)
    BY <1>1 DEF disk_initialize, disk_read, disk_write, D!Calls
  <2>2. D!Ask
    BY <2>1 DEF Asked, D!Ask, D!NoCall
  <2> QED
    BY <2>2 DEF D!Next
<1>2. CASE SD_command \/ ReadTail \/ ReadData
  BY <1>2, Unseen DEF SD_command, ReadTail, ReadData
<1>3. CASE SD_readR1
  <2>1. cmd \in InitCmds \cup {"CMD17", "CMD24"}
    BY CmdsAre
  <2>2. AfterR1(Drives) # "idle"
    BY <2>1 DEF AfterR1, InitCmds
  <2> QED
    BY <1>3, <2>2, Unseen DEF SD_readR1, Transfer
<1>4. CASE WaitToken \/ WaitResponse \/ WaitBusy
  BY <1>4, Unseen DEF WaitToken, WaitResponse, WaitBusy, Transfer
<1>5. CASE SendBlock
  BY <1>5, Stores
<1>6. CASE Abort \/ Failed
  BY <1>6, Ends DEF Abort, Failed, Deselect
<1>7. CASE JudgeIdle \/ JudgeReady \/ JudgeOcr \/ JudgeInfo
  <2>1. pc = "close" /\ call.op = "init" /\ content' = content
    BY <1>7, CmdsAre DEF JudgeIdle, JudgeReady, JudgeOcr, JudgeInfo, InitCmds, Deselect
  <2>2. Return("error") \/ Return("ok") \/ \E k : Issue(k)
    BY <1>7 DEF JudgeIdle, JudgeReady, JudgeOcr, JudgeInfo
  <2>3. CASE \E k : Issue(k)
    BY <2>1, <2>3, Unseen DEF Issue
  <2> QED
    BY <2>1, <2>2, <2>3, Ends
<1>8. CASE SectorDone
  <2>1. pc = "close" /\ cmd \in {"CMD17", "CMD24"} /\ content' = content
    BY <1>8 DEF SectorDone, Deselect
  <2>2. CASE Issue(cmd)
    BY <2>1, <2>2, Unseen DEF Issue
  <2>3. CASE done + 1 = call.n /\ Return("ok")
    BY <2>1, <2>3, Ends
  <2> QED
    BY <1>8, <2>2, <2>3 DEF SectorDone
<1>9. CASE PullOut \/ PutBack \/ UNCHANGED vars
  BY <1>9, Unseen DEF PullOut, PutBack, driver, vars
<1> QED
  BY <1>1, <1>2, <1>3, <1>4, <1>5, <1>6, <1>7, <1>8, <1>9 DEF Next, Driver

\* To the file system the functions of diskio.c are a disk: a read that
\* succeeds returns the blocks of the disk, a write that succeeds has stored
\* all of its own, one that fails a first part of them, and nothing else
\* changes the disk.
THEOREM IsADisk ==
  ASSUME Regular
  PROVE  Spec => ImplementsDisk
<1>1. Init => D!Init
  BY DEF Init, D!Init, D!NoCall
<1>2. SdInv /\ [Next]_vars => [D!Next]_(D!vars)
  BY DiskStep
<1> QED
  BY <1>1, <1>2, Invariance, PTL DEF Spec, ImplementsDisk, D!Spec
===============================================================================
