------------------------------- MODULE Upload -------------------------------
(***************************************************************************)
(* The upload of a program over the serial line: the tool on the host      *)
(* (sw/upload/upload.c), the line, and the bootloader on the target        *)
(* (sw/bootloader/bootloader.c) with its S-record parser and monitor.      *)
(*                                                                         *)
(* A symbol is a character or a whole hexadecimal field (count, address or *)
(* byte); characters that no program treats differently are one symbol.    *)
(* The receiver of the target holds one symbol and has no buffer; both     *)
(* directions run at one baud rate, so that at most one symbol arrives     *)
(* while one is sent.  When the target is not sending it takes a symbol    *)
(* before the next one has arrived (a character is 4340 clock cycles).     *)
(***************************************************************************)
EXTENDS Naturals, Sequences, FiniteSets

CONSTANTS
    Uploads,       \* for each use of the tool the possible command lines: an
                   \* S-record file (a sequence of lines of symbols), options
    TypedLines,    \* what a user types at the monitor
    Addr,          \* the addresses that have memory
    Window,        \* stars in the prompt window; BOOTWAIT in the code
    Greeting,      \* what the bootloader prints first
    BreakResets,   \* UART1_BREAK_RESETS of the board
    LineCap,       \* bound: symbols on their way to the target
    MaxLine,       \* BUFLEN - 1 in the code
    MaxSessions,   \* bound: uses of the tool, the keyboard or the reset button
    MaxChat        \* bound: symbols that the application prints

Ch(c) == [ch |-> c, val |-> 0]
Hex(v) == [ch |-> "hex", val |-> v]
nl == Ch("nl")
None == Ch("none")

\* The characters that a program treats in a way of its own or prints, the
\* types of records, and one for all others.
Character ==
    {"S", "J", "#", "!", "$", "nl", "cr", "bs", "r", "w", "hex", "none",
     "0", "1", "2", "3", "4", "5", "6", "7", "8", "9", "?", ">", "*", ".", "del",
     "ctrlU", "esc", "x"}
Symbol == [ch : Character, val : Nat]
Options == [brk : BOOLEAN, nowait : BOOLEAN, jump : BOOLEAN, patient : BOOLEAN]

\* The parameters have their types; no line of a file is empty.
Typed ==
    /\ \A u \in UNION {Uploads[i] : i \in 1..MaxSessions} :
           u.file \in Seq(Seq(Symbol) \ {<<>>}) /\ u.opt \in Options
    /\ TypedLines \subseteq Seq(Symbol) /\ Greeting \in Seq(Symbol)
    /\ Addr \subseteq Nat /\ BreakResets \in BOOLEAN
    /\ {Window, LineCap, MaxLine, MaxSessions, MaxChat} \subseteq Nat
ASSUME UploadAssumption == Typed

VARIABLES
    \* the tool
    file,      \* the lines of the file
    opt,       \* its options
    hpc,       \* where main is; "off" when the tool does not run
    pos,       \* the line and the symbol in it that is written next
    code,      \* the exit code of the last session
    \* the line
    toTarget,  \* symbols written by the host
    toHost,    \* symbols in the input queue of the host's device
    held,      \* the receive register of the target
    arrived,   \* a symbol arrived while the present one is sent
    \* the target
    tpc,       \* where the bootloader is
    tout,      \* what uart1_puts still has to send
    par,       \* the S-record being read: type, bytes left, address
    mem,       \* the memory
    entry,     \* app_start
    noresponse,
    window,    \* stars left
    buffer,    \* the line buffer of the monitor
    \* bounds and history
    sessions, chat,
    calm       \* nothing was under way when the tool wrote its key, and the
               \* target has not been reset or printed anything but answers since

host == <<file, opt, hpc, pos, code>>
line == <<toTarget, toHost, held, arrived>>
state == <<par, mem, entry, noresponse, buffer>>
target == <<tpc, tout, window, state>>
bounds == <<sessions, chat, calm>>
uploadvars == <<host, line, target, bounds>>

-----------------------------------------------------------------------------
\* The tool.

Open == hpc # "off"
NoOptions == [brk |-> FALSE, nowait |-> FALSE, jump |-> FALSE, patient |-> TRUE]

\* A read times out when nothing comes; with a time of zero at any moment.
Silent ==
    /\ toTarget = <<>> /\ tout = <<>> /\ held = None
    /\ tpc \notin {"greet", "prompt", "start"}
\* Mutant: the device is opened with reads that block.
MayTimeOutNever == toHost = <<>> /\ ~opt.patient
MayTimeOut == toHost = <<>> /\ (opt.patient => Silent)

\* Close the device: what arrives afterwards is not kept.
Exit(c) ==
    /\ hpc' = "off" /\ code' = c /\ toHost' = <<>> /\ pos' = <<1, 1>>
    /\ IF c = "ok" THEN UNCHANGED <<file, opt>> ELSE file' = <<>> /\ opt' = NoOptions

HostOpen ==
    /\ ~Open /\ sessions < MaxSessions
    /\ sessions' = sessions + 1
    /\ \E u \in Uploads[sessions'] :
           /\ file' = u.file /\ opt' = u.opt
           /\ hpc' = IF u.opt.brk THEN "break" ELSE "key"
    /\ code' = "none" /\ calm' = FALSE /\ UNCHANGED pos
    /\ UNCHANGED <<line, target, chat>>

\* The target starts again: local variables are new, the memory is kept.
Restart ==
    /\ tpc' = "greet" /\ tout' = Greeting /\ window' = Window
    /\ held' = None /\ arrived' = FALSE
    /\ entry' = 0 /\ noresponse' = FALSE /\ buffer' = <<>>
    /\ par' = [type |-> "none", left |-> 0, addr |-> 0]
    /\ calm' = FALSE
    /\ UNCHANGED mem

\* send_break_to_device; the receiver does not report a break as a character.
\* The bootloader disables the UART before the application runs: unless that
\* enables it again, nothing hears the break.
HostBreak ==
    /\ hpc = "break"
    /\ hpc' = "key"
    /\ \/ BreakResets /\ Restart
       \/ /\ BreakResets => tpc = "app"
          /\ UNCHANGED <<target, held, arrived, calm>>
    /\ UNCHANGED <<file, opt, pos, code, toTarget, toHost, sessions, chat>>

HostKey ==
    /\ hpc = "key"
    /\ Len(toTarget) < LineCap
    /\ toTarget' = Append(toTarget, IF opt.nowait THEN Ch("$") ELSE Ch("!"))
    /\ hpc' = IF opt.nowait THEN "residue" ELSE "contact"
    /\ calm' = (/\ toHost = <<>> /\ toTarget = <<>> /\ held = None /\ tout = <<>>
                /\ \/ tpc = "prompt"
                   \/ tpc = "cmd" /\ ~opt.nowait /\ ~noresponse)
    /\ UNCHANGED <<file, opt, pos, code, toHost, held, arrived, target,
                   sessions, chat>>

\* The first character, whichever it is, counts as contact.
HostContact ==
    /\ hpc = "contact"
    /\ \/ /\ toHost # <<>>
          /\ toHost' = Tail(toHost)
          /\ hpc' = "residue"
          /\ UNCHANGED <<file, opt, pos, code>>
       \/ MayTimeOut /\ Exit("6")
    /\ UNCHANGED <<toTarget, held, arrived, target, bounds>>

\* Mutant: the residue is not read.
HostResidueSkipped ==
    /\ hpc = "residue"
    /\ hpc' = "send"
    /\ UNCHANGED <<file, opt, pos, code, line, target, bounds>>
\* One read of at most five characters: what is there, or nothing.
HostResidue ==
    /\ hpc = "residue"
    /\ toHost # <<>> \/ MayTimeOut
    /\ toHost' = SubSeq(toHost, 6, Len(toHost))
    /\ hpc' = "send"
    /\ UNCHANGED <<file, opt, pos, code, toTarget, held, arrived, target, bounds>>

AtEnd == pos[1] > Len(file)
NextLine == <<pos[1] + 1, 1>>

\* The characters of a line, one write each.
HostSend ==
    /\ hpc = "send" /\ ~AtEnd
    /\ Len(toTarget) < LineCap
    /\ toTarget' = Append(toTarget, file[pos[1]][pos[2]])
    /\ IF pos[2] < Len(file[pos[1]])
       THEN pos' = <<pos[1], pos[2] + 1>> /\ UNCHANGED hpc
       ELSE IF opt.nowait
       THEN pos' = NextLine /\ UNCHANGED hpc
       ELSE hpc' = "answer" /\ UNCHANGED pos
    /\ UNCHANGED <<file, opt, code, toHost, held, arrived, target, bounds>>

\* Read until a newline comes.
HostAnswer ==
    /\ hpc = "answer"
    /\ \/ /\ toHost # <<>>
          /\ toHost' = Tail(toHost)
          /\ IF Head(toHost) = nl
             THEN hpc' = "send" /\ pos' = NextLine
             ELSE UNCHANGED <<hpc, pos>>
          /\ UNCHANGED <<file, opt, code>>
       \/ MayTimeOut /\ Exit("8")
    /\ UNCHANGED <<toTarget, held, arrived, target, bounds>>

\* Write J to start the application or # to leave for the monitor.
HostMarker ==
    /\ hpc = "send" /\ AtEnd
    /\ Len(toTarget) < LineCap
    /\ toTarget' = Append(toTarget, IF opt.jump THEN Ch("J") ELSE Ch("#"))
    /\ IF opt.nowait THEN Exit("ok")
       ELSE hpc' = "final" /\ UNCHANGED <<file, opt, pos, code, toHost>>
    /\ UNCHANGED <<held, arrived, target, bounds>>

HostFinal ==
    /\ hpc = "final"
    /\ \/ /\ toHost # <<>>
          /\ IF Head(toHost) = nl THEN Exit("ok")
             ELSE toHost' = Tail(toHost) /\ UNCHANGED host
       \/ MayTimeOut /\ Exit("9")
    /\ UNCHANGED <<toTarget, held, arrived, target, bounds>>

\* The user stops the tool.
HostKill ==
    /\ Open
    /\ Exit("killed")
    /\ UNCHANGED <<toTarget, held, arrived, target, bounds>>

\* A user at a terminal program.
Type ==
    /\ ~Open /\ sessions < MaxSessions
    /\ toTarget = <<>> /\ tpc = "monitor"
    /\ sessions' = sessions + 1 /\ calm' = FALSE
    /\ \E typed \in TypedLines : toTarget' = typed
    /\ UNCHANGED <<host, toHost, held, arrived, target, chat>>

HostStep ==
    \/ HostBreak \/ HostKey \/ HostContact \/ HostResidue \/ HostSend
    \/ HostAnswer \/ HostMarker \/ HostFinal

-----------------------------------------------------------------------------
\* The line.

\* A symbol that arrives while the register is full replaces what is in it.
Arrive ==
    /\ toTarget # <<>>
    /\ IF tout = <<>> THEN held = None ELSE ~arrived
    /\ toTarget' = Tail(toTarget)
    /\ held' = IF tpc \in {"app", "hung"} THEN None ELSE Head(toTarget)
    /\ arrived' = (tout # <<>>)
    /\ UNCHANGED <<host, toHost, target, bounds>>

\* uart1_putc has sent a symbol.
Sent ==
    /\ tout # <<>>
    /\ tout' = Tail(tout)
    /\ toHost' = IF Open THEN Append(toHost, Head(tout)) ELSE toHost
    /\ arrived' = FALSE
    /\ UNCHANGED <<host, toTarget, held, tpc, state, window, bounds>>
-----------------------------------------------------------------------------
\* The bootloader.

\* Mutant: the sense of the flag is inverted.
AnswerInverted == IF noresponse THEN <<Ch("?"), nl>> ELSE <<>>
Answer == IF noresponse THEN <<>> ELSE <<Ch("?"), nl>>
Prompt == <<Ch(">")>>

\* uart1_getc: only when nothing is being sent is a symbol looked for.
Take(pc) ==
    /\ tout = <<>> /\ held # None /\ tpc = pc
    /\ held' = None /\ arrived' = FALSE
    /\ UNCHANGED <<host, toTarget, toHost, sessions, chat, calm>>

\* gethex: characters that are no hexadecimal digits count as zero.
gethex == IF held.ch = "hex" THEN held.val ELSE 0

\* A star; then, as after every pass of the loop, a look at the receiver.
Star ==
    /\ tpc = "prompt" /\ tout = <<>> /\ held = None /\ window > 0
    /\ window' = window - 1
    /\ tout' = <<Ch("*")>>
    /\ calm' = FALSE
    /\ UNCHANGED <<host, line, tpc, state, sessions, chat>>

GreetingDone ==
    /\ tpc = "greet" /\ tout = <<>>
    /\ tpc' = "prompt"
    /\ UNCHANGED <<host, line, tout, window, state, bounds>>

\* No key in time, or the end of an upload: UART off, start the application.
StartApp ==
    /\ tout = <<>>
    /\ \/ (tpc = "prompt" /\ window = 0 /\ held = None)
       \/ tpc = "start"
    /\ tpc' = "app" /\ held' = None
    /\ UNCHANGED <<host, toTarget, toHost, arrived, tout, window, state, bounds>>

Key ==
    /\ Take("prompt")
    /\ IF held \in {Ch("!"), Ch("$")}
       THEN /\ tpc' = "cmd"
            /\ noresponse' = (held = Ch("$"))
            /\ tout' = IF held = Ch("$") THEN <<>> ELSE Answer
       ELSE tpc' = "monitor" /\ tout' = <<nl>> \o Prompt /\ UNCHANGED noresponse
    /\ UNCHANGED <<par, mem, entry, buffer, window>>

\* The top of the upload loop; what is no command is answered all the same.
Command ==
    /\ Take("cmd")
    /\ LET next == CASE held = Ch("S") -> "type"
                     [] held = Ch("J") -> "start"
                     [] held = Ch("#") -> "monitor"
                     [] OTHER -> "cmd"
       IN /\ tpc' = next
          /\ tout' = CASE next = "type" -> <<>>
                       [] next = "monitor" -> <<nl>> \o Prompt
                       [] OTHER -> Answer
    /\ UNCHANGED <<state, window>>

\* Address and checksum bytes that the count of a data record includes.
Overhead == [t \in {"1", "2", "3"} |-> IF t = "1" THEN 3 ELSE IF t = "2" THEN 4 ELSE 5]
Data == DOMAIN Overhead
Start == {"7", "8", "9"}

RecordType ==
    /\ Take("type")
    /\ par' = [par EXCEPT !.type = held.ch]
    /\ tpc' = IF held.ch \in Data \cup Start THEN "count" ELSE "eat"
    /\ UNCHANGED <<tout, mem, entry, noresponse, buffer, window>>

\* A count below the overhead wraps: four thousand million bytes.
Forever == 999
Count ==
    /\ Take("count")
    /\ par' = [par EXCEPT !.left =
           IF par.type \in Start THEN 0
           ELSE IF gethex < Overhead[par.type] THEN Forever
           ELSE gethex - Overhead[par.type]]
    /\ tpc' = "addr"
    /\ UNCHANGED <<tout, mem, entry, noresponse, buffer, window>>

Address ==
    /\ Take("addr")
    /\ par' = [par EXCEPT !.addr = gethex]
    /\ tpc' = IF par.type \in Data /\ par.left > 0 THEN "data" ELSE "eat"
    /\ UNCHANGED <<tout, mem, entry, noresponse, buffer, window>>

\* The byte is patched into its word; a word that is not there traps, and
\* the only trap handler at this time is a loop.
Byte ==
    /\ Take("data")
    /\ par' = [par EXCEPT !.left = IF @ = Forever THEN @ ELSE @ - 1, !.addr = @ + 1]
    /\ IF par.addr \in Addr
       THEN /\ mem' = [mem EXCEPT ![par.addr] = gethex]
            /\ tpc' = IF par'.left = 0 THEN "eat" ELSE "data"
       ELSE tpc' = "hung" /\ UNCHANGED mem
    /\ UNCHANGED <<tout, entry, noresponse, buffer, window>>

\* Mutant: the start address is read and forgotten.
EatLineNoEntry ==
    /\ Take("eat")
    /\ IF held = nl
       THEN tpc' = "cmd" /\ tout' = Answer
       ELSE UNCHANGED <<tpc, tout>>
    /\ UNCHANGED <<par, mem, entry, noresponse, buffer, window>>
\* The rest of the line, the checksum with it; then the answer.
EatLine ==
    /\ Take("eat")
    /\ IF held = nl
       THEN /\ tpc' = "cmd" /\ tout' = Answer
            /\ entry' = IF par.type \in Start THEN par.addr ELSE entry
       ELSE UNCHANGED <<tpc, tout, entry>>
    /\ UNCHANGED <<par, mem, noresponse, buffer, window>>

\* What the monitor prints and where it goes on when a line is complete.
Run(l) == l = <<Ch("r")>>
IsWrite(l) == Len(l) = 3 /\ l[1] = Ch("w")

Room == Len(buffer) < MaxLine
Printable(c) == c.ch \notin {"nl", "cr", "bs", "del", "ctrlU", "esc"}

\* getline takes a character: it is echoed if it is kept; control-U takes the
\* line back.
Monitor ==
    /\ Take("monitor")
    /\ CASE held \in {nl, Ch("cr")} ->
              /\ buffer' = <<>>
              /\ mem' = IF IsWrite(buffer) /\ buffer[2].val \in Addr
                        THEN [mem EXCEPT ![buffer[2].val] = buffer[3].val] ELSE mem
              /\ tpc' = IF Run(buffer) THEN "start" ELSE "monitor"
              /\ tout' = IF Run(buffer) THEN <<nl>>
                         ELSE IF buffer = <<>> THEN <<nl>> \o Prompt
                         ELSE <<nl, Ch("?"), nl>> \o Prompt
         [] held \in {Ch("bs"), Ch("del")} /\ buffer # <<>> ->
              /\ buffer' = SubSeq(buffer, 1, Len(buffer) - 1)
              /\ tout' = <<Ch("del")>>
              /\ UNCHANGED <<tpc, mem>>
         [] held = Ch("ctrlU") ->
              /\ buffer' = <<>>
              /\ tout' = [i \in 1..Len(buffer) |-> Ch("del")]
              /\ UNCHANGED <<tpc, mem>>
         [] Printable(held) /\ Room ->
              /\ buffer' = Append(buffer, held)
              /\ tout' = <<held>>
              /\ UNCHANGED <<tpc, mem>>
         [] OTHER -> UNCHANGED <<buffer, tout, tpc, mem>>
    /\ UNCHANGED <<par, entry, noresponse, window>>

\* The application prints.
Chat ==
    /\ tpc = "app" /\ tout = <<>> /\ chat < MaxChat
    /\ chat' = chat + 1 /\ calm' = FALSE
    /\ \E c \in {Ch("."), nl} : tout' = <<c>>
    /\ UNCHANGED <<host, line, tpc, window, state, sessions>>

\* The reset button.
Reset ==
    /\ sessions < MaxSessions
    /\ sessions' = sessions + 1
    /\ Restart
    /\ UNCHANGED <<host, toTarget, toHost, chat>>

TargetStep ==
    \/ Star \/ GreetingDone \/ StartApp \/ Key \/ Command \/ RecordType \/ Count
    \/ Address \/ Byte \/ EatLine \/ Monitor

UploadInit ==
    /\ file = <<>> /\ opt = NoOptions /\ hpc = "off" /\ pos = <<1, 1>> /\ code = "none"
    /\ toTarget = <<>> /\ toHost = <<>> /\ held = None /\ arrived = FALSE
    /\ tpc = "greet" /\ tout = Greeting /\ window = Window
    /\ par = [type |-> "none", left |-> 0, addr |-> 0]
    /\ mem = [a \in Addr |-> 0] /\ entry = 0 /\ noresponse = FALSE /\ buffer = <<>>
    /\ sessions = 0 /\ chat = 0 /\ calm = FALSE

UploadNext ==
    \/ HostOpen \/ HostStep \/ HostKill \/ Type
    \/ Arrive \/ Sent
    \/ TargetStep \/ Chat \/ Reset

\* The tool, the line and the bootloader do not stop by themselves.
UploadSpec ==
    /\ UploadInit /\ [][UploadNext]_uploadvars
    /\ WF_uploadvars(HostStep) /\ WF_uploadvars(TargetStep)
    /\ WF_uploadvars(Arrive) /\ WF_uploadvars(Sent)

-----------------------------------------------------------------------------
\* Types; the line buffer stays within its bound, a byte is read only where
\* one is due, and an address only of a record that has one.
UploadTypeOK ==
    /\ file \in Seq(Seq(Symbol) \ {<<>>}) /\ opt \in Options
    /\ hpc \in {"off", "break", "key", "contact", "residue", "send", "answer", "final"}
    /\ pos \in (Nat \ {0}) \X (Nat \ {0})
    /\ code \in {"none", "ok", "6", "8", "9", "killed"}
    /\ {toTarget, toHost, tout} \subseteq Seq(Symbol)
    /\ held \in Symbol /\ arrived \in BOOLEAN
    /\ tpc \in {"greet", "prompt", "cmd", "type", "count", "addr", "data", "eat",
               "start", "app", "monitor", "hung"}
    /\ par \in [type : Character, left : Nat, addr : Nat]
    /\ tpc = "data" => par.left > 0
    /\ tpc = "count" => par.type \in Data \cup Start
    /\ mem \in [Addr -> Nat] /\ entry \in Nat /\ noresponse \in BOOLEAN
    /\ window \in 0..Window
    /\ buffer \in Seq(Symbol) /\ Len(buffer) <= MaxLine
    /\ sessions \in 0..MaxSessions /\ chat \in 0..MaxChat /\ calm \in BOOLEAN

\* What a line of the file puts into memory, or into app_start.
IsRecord(l, types) == Len(l) >= 4 /\ l[1] = Ch("S") /\ l[2].ch \in types
IsStored(l) ==
    /\ IsRecord(l, Data) =>
          \A k \in 1..(l[3].val - Overhead[l[2].ch]) : mem[l[4].val + k - 1] = l[4 + k].val
    /\ IsRecord(l, Start) => entry = l[4].val
Loaded(n) == \A i \in 1..n : IsStored(file[i])

\* A file as objcopy writes it: every line is answered once.
RegularFile(f) == \A i \in DOMAIN f :
    (f[i][1] = Ch("S") /\ f[i][Len(f[i])] = nl) \/ f[i] = <<nl>>
Regular == RegularFile(file)
Clean == calm /\ Regular /\ opt.patient
Ends(c) == Open /\ hpc' = "off" /\ code' = c

\* Exit code 0 of an undisturbed upload with handshake: the whole file is in
\* memory, the start address is the file's, and the target goes where the
\* tool has sent it.
OkMeansLoaded ==
    [][Ends("ok") /\ Clean /\ ~opt.nowait =>
           /\ Loaded(Len(file))
           /\ tpc \in IF opt.jump THEN {"start", "app"} ELSE {"monitor"}]_uploadvars

\* The receive register of the target, which has no buffer, is never
\* overwritten in an undisturbed session.
NothingLost ==
    [][Arrive /\ Clean /\ Open => held = None]_uploadvars

\* An undisturbed patient tool fails only in one way: the window closed
\* before its key arrived, and it says so at the first read.
FailsOnlyAtWindow ==
    [][\A c \in {"6", "8", "9"} :
           Ends(c) /\ Clean => c = "6" /\ tpc = "app"]_uploadvars

\* However the target behaves, the tool comes to an end.
ToolEnds == Open ~> ~Open

\* upload/README.md: start the tool within the window "and the S-record file
\* will be transferred".
TransferredWhenOk ==
    [][Ends("ok") /\ Regular /\ ~opt.nowait => Loaded(Len(file))]_uploadvars
=============================================================================
