# A TLA+ development of the THUAS RISC-V system on chip

THUAS RISC-V is a 32-bit RISC-V microcontroller in VHDL
(`src/rtl/thuas-riscv`) with a C library, a bootloader and tools (`src/sw`).
This directory holds TLA+ models of its core logic, TLC configurations that
check them on small instances, and TLAPS proofs that hold for every value of
the constants. All references to lines are in `PROJECT.json`.

## 1. The system

| Component | State | Operations | Talks to | Hard because |
|---|---|---|---|---|
| hart (`core.vhd`) | control state, PC, if_id, id_ex, ex_wb, registers, CSRs, divider, bus request | one clock edge in each of 18 control states: execute, wait for memory / divider / interrupt, flush, trap, return, debug | instruction router, data bus, debug module, interrupt lines | three stages, each acts on registers of the cycle before; traps, halts, jumps and waits meet in one cycle |
| debug module (`dm.vhd`) | DMI registers, command state, timeout counter, cmderr | register access over the DMI, abstract commands, run control | DTM; the hart's debug port and handshakes | a command takes many cycles while the debugger may write and the hart may be reset; the memory may answer as the timeout expires |
| debug transport (`dtm.vhd`) | TAP state, shift registers, sticky error | JTAG scans, one DMI access per update | debugger, debug module | three clock domains, captures of results not there yet |
| bus (`address_decode`, `io_bus_switch`, `instr_router`) | registered request of the I/O switch | route, answer or signal an access error | hart, memories, peripherals | one answer per request, in time |
| memories (`mem`, `stub`, ROM images) | arrays, output registers | read, write | bus, instruction router | latency |
| system (`riscv.vhd`) | reset synchroniser | wiring, resets from watchdog, UART break and debug module | everything | a reset at any cycle |
| SPI (`spi.vhd`, `sw/lib/spi`) | control, shift registers, bit timer, TC | register access, transfer | bus, slave, driver | four clock modes, last bit, TC against the driver's poll |
| UART (`uart.vhd`, `sw/lib/uart`) | transmitter and receiver machines, flags | register access, send, receive, break | bus, line, driver | flags set by the line and cleared by software in the same cycle |
| I2C (`i2c.vhd`, `sw/lib/i2c`) | bit machine, flags | start, byte, acknowledge, stop, stretch | bus, slaves | a byte written while the master works is lost; flags of one transfer read as those of another |
| timers (`timera`, `timerb`) | counter, compare and shadow registers, flags | count, match, capture, PWM | bus, pins | software writes as the counter matches |
| system timer (`mtime`, `msi`) | two 64-bit registers | count, compare | bus, hart | 64-bit values written in halves |
| watchdog (`wdt.vhd`) | counter, lock, NMI | control, restart by password, expire | bus, reset, hart | a pulse of one cycle; enable and restart a cycle apart |
| CRC (`crc.vhd`) | shift register, bit counter, TC | load, shift | bus, driver | counts, TC against the poll |
| GPIO (`gpio.vhd`) | pins, edge detector | read, write, edge | bus, pins | edges against clears; pins flipped by programs and handlers |
| bootloader and upload tool (`sw/bootloader`, `sw/upload`) | S-record parser, prompt window, monitor; file position, last answer | upload, run, monitor commands | the serial line | two programs, time-outs and answers, a receiver without a buffer, resets |
| SD card driver and FatFs glue (`sw/fatfs/sdcard.c`, `diskio.c`) | what is known of the card, chip select, SPI speed | initialise, read and write sectors | FatFs above, SPI2 and the card below | every wait can fail; a failed command leaves data behind; cards are pulled and exchanged |
| trap handlers (`sw/interrupt_direct`) | trap frame, time compare, output pins | save, dispatch, system calls, peripheral handlers, restore | hart, peripherals, the program interrupted | a trap at every instruction; 64-bit values in halves; handler and program on one register |
| library, start-up code | few variables | sequential | peripherals | little |

What makes each of them correct, in a sentence: the **hart** behaves as the
sequential machine of the ISA, whatever interrupts it, and halts, steps and
resumes without gaining or losing an instruction; a **debug command** does what
it says or reports an error, and ends; a **peripheral** delivers to its driver
and to its pins the same data, exactly once, and signals completion when it is
complete; a **reset** leaves nothing of the old state that matters.

`PROJECT.json` lists the hazards of the code, each at its line. Those
that no property covers carry a note: most of these do go wrong, and the note names the
configuration that shows it.

## 2. The modules

| Module | Models | Used by |
|---|---|---|
| `Core` | `core.vhd`: the pipelined hart | `MCCore`, `CoreProofs` |
| `Hart` | the abstract specification: the run control a debug module sees of a hart | `Core` (refinement), `Dm` (composition) |
| `Dm` | `dm.vhd`, with the debug port of `core.vhd` and a bus that answers within `MaxWait` cycles, over `Hart` | `MCDm`, `DmProofs` |
| `Spi` | `spi.vhd`, the polling driver and a slave | `MCSpi`, `SpiProofs` |
| `Crc` | `crc.vhd` with `crc_init` and `crc_write` | `MCCrc`, `CrcProofs` |
| `Channel` | the abstract specification: what a serial line promises to the programs at its ends | `Uart` (refinement) |
| `Uart` | the transmitter and the receiver of `uart.vhd`, `uart1_putc`, `uart1_getc` and the line | `MCUart`, `SerialProofs` |
| `I2c` | the master of `i2c.vhd`, the I2C1 functions of the library and a slave | `MCI2c`, `I2cProofs` |
| `Upload` | `upload.c`, the serial line and `bootloader.c` | `MCUpload`, `SerialProofs` |
| `Disk` | the abstract specification: the disk FatFs is promised | `SdCard` (refinement) |
| `SdCard` | `diskio.c` and `sdcard.c` over SPI2, and a card | `MCSdCard`, `SdCardProofs` |
| `Traps` | `trap_handler_direct.c`, `handlers_direct.c`, `csr_get_time`, `uart1_putc` and the program they interrupt | `MCTraps`, `TrapsProofs` |
| `CoreProofs` | theorems about `Core`: types, debug handshake and refinement; what the pipeline executes | |
| `DmProofs`, `SpiProofs`, `SerialProofs`, `CrcProofs`, `I2cProofs` | theorems about `Dm`, `Spi`, `Uart` and `Upload`, `Crc` and `I2c` | |
| `TrapsProofs`, `SdCardProofs` | theorems about `Traps` and `SdCard` | |

In `Core`, `Dm`, `Spi`, `Crc` and `Uart` one step is one rising edge of the system clock. A clocked VHDL
process reads the registers as they were before the edge and its last
assignment wins, so a process is an operator of the unprimed registers and the
inputs of the cycle, and the actions differ in the state of the state machine.
In the modules of the software a step is an access to something another party
sees: a register of a device, a byte or character on a line, a CSR, the trap frame.

**Core.** `ctl`, `ftc`, `acc`, `ex`, `md`, `csr` and `bus` are the registers of
the control process, instruction fetch, `instr_access_error`, `id_ex`, the
multiply/divide unit, the CSRs and the memory interface. Each action is one
control state (`Boot0`, `Exec`, `Mem`, `Md`, `Wfi`, ...; `Flushing` is the table
of the states that only pass the time) and computes all registers
with the operator of each block (`Datapath`). Data is abstracted to the class
of an instruction and its address; a branch is taken or not by choice; the wires
(interrupts, bus answer and error, halt request, reset) are inputs.
`arch` is a history variable, the PC and the interrupt-enable stack of a machine
that executes one instruction after another; it moves when an instruction
completes or a trap is taken, and the properties compare the pipeline with it.
`hist` counts instructions since a resume, bus accesses per instruction
and NMI nesting.

**Dm.** `dmw` is the state of the write process, `dms` of the state machine,
`req` the request to the core, `bus` the request the core has
registered, `store` one GPR, one CSR and the memory. The debugger is
modelled from the way the module is used: it writes `dmcontrol` or clears an error only
when no command is in progress, save to switch the module off, and pauses `Gap` cycles between
accesses (a scan takes many); all other accesses may come at any time.

**Spi.** `spi` is the register file; `Access` is the first half of the process
(the bus access), `Idle`, `First`, `Second`, `Leadout` the second half. The
driver writes DATA, polls TC and reads DATA as `spi1_transfer` does. The slave is
a shift register in the same mode, from the SPI convention.

**Crc.** `Access` is the register access of a cycle, `Clocked` adds the shift,
which reads the old registers and wins. The driver is one action per bus access.
The reference, `CrcOf`, is not the shift register again but the remainder of a long
division of the extended message; `fed` and `written` are the bits shifted in
and the bits the driver has written.

**Uart.** `tx` and `rx` are the two halves of the peripheral, one at each end of
a line, each with one operator per state of its state machine (`TxIdle`, ...,
`RxIdle`, ...); `Frame` loads the transmit buffer. `Sender` and
`Receiver` actions are the bus accesses of the two drivers and the cycles between
them, `Disturb` pulls the line low between characters. `queue` and `got` are history, what
`Channel` sees. `TypeOK` has the ranges that `uart.vhd` declares, `Registers(counts)` another one for the transmitter's
bit counter (section 4).

**I2c.** The state machine of the master goes from one condition on the bus to the
next (`StartBit`, the nine bits of a byte in `Address`, `Take`, `Give` or `Nobody`
according to what the slave does with it, `StopBit`, `HardStop`). The
program is one action per register access, `pc` is the access it comes to;
`ReadCtrl` and `WriteCtrl` are the two halves of a `|=` or `&=`, and the master
may change the register in between. `WriteData` keeps the detail that matters
most: DATA makes a pulse, and only the idle state looks at it. Ghost state: `refused` (a byte
of this call was not acknowledged), `got` and `sent`.

**Upload.** `hpc` is the place of `upload.c`'s `main`, one action per read or write
of the device; `tpc` that of the bootloader. A character is a symbol, a
hexadecimal field is one symbol with its value, as `gethex` treats the
digits alike. `Arrive` moves a symbol into the receive register: while the target
sends one symbol at most one arrives, and a second one overwrites the first, which
is what `NothingLost` looks at. `MayTimeOut` says when a blocking read of the host can
come back empty: at any time with the tool's short time-out, and when nothing is under way
that would answer with its long one. `HostKill`, `Reset`,
`Type` and `Chat` are the disturbances: the tool is stopped, the reset button, a user at
the monitor, an application that prints. A break restarts the target, but in the application,
for which the bootloader has disabled the UART, it may as well go unheard. `calm` is history: no disturbance
since the tool began. The specification is `UploadSpec`,
its receive register `held`: no name is one of `Uart`, so that `SerialProofs` extends both.

**SdCard.** `pc` is the loop or command the driver is in, one step per polled
transfer; `Clocked` is what a number of transfers does to the card, whose unsent bytes are in
`card.out`. Failing exits are two, as in the code: `Abort` deselects the
card, `Failed` leaves it selected. `Faults` names what the
card may do wrong in a run. `content` is what the card stores; `Disk` sees `content`, the call
and its answer.

**Traps.** `pc` names the instruction, `ctx` (history) the traps being served, with
what the program had when they came. A trap may come before any instruction
(`Interrupted`), in the priority order of the hart. The system calls are one
action each where they do something (`Read`, `Write`) and a result
where they do not (`SysResult`). A peripheral handler is one action, though `STAT &= ~flag`, `POUT ^= pin` and, in
`uart1_handler`, the read of DATA are several accesses. Between them the handler has the hart to itself:
interrupts are off, and only the hart writes POUT. A second event that comes between its accesses is one with the
event being served, as it is when it comes just before the handler.

Definitions such as `FlushOneShort` or `WriteDespiteBusy` are variants of the
definition that follows them with a plausible mistake. No specification uses
them; each property is shown to fail when one of them takes the place of the
original.

## 3. The runs

| Run | Question | Result |
|---|---|---|
| `core_trap` | Do interrupts, exceptions, bus errors and resets at any cycle leave the pipeline doing what the sequential machine does, each memory access once, each trap resumable? | holds |
| `core_debug` | Do halt, breakpoint instruction, step and resume at any cycle preserve the program, is a lasting halt request answered, and does the hart implement `Hart`? | holds |
| `dm_command` | Does a command that reports no error do what it says, does a failed one report its error? | holds |
| `dm_run` | Does every command end, and does an acknowledged resume mean a resume, with resets at any time? | holds |
| `spi` | In each mode: does the slave get the driver's word and (but in mode 1) the driver the slave's, is TC at rest, does each call return? | holds |
| `crc` | Is SREG the remainder of the bits fed, for every polynomial, start value and width, and settled when `crc_write` returns? | holds |
| `uart` | With a receiver that polls promptly: are two UARTs and their drivers a `Channel`, in every format, with noise and breaks between the characters; is no error reported falsely and every break reported? | holds |
| `upload` | Does exit code 0 mean that the program is in memory and running, does the receiver keep up, does the tool always end, and does it fail (if nobody disturbs it) only because the window was over? | holds |
| `sdcard` | With a card that is pulled, refuses an address or a block or stays silent: are the functions of `diskio.c` a `Disk`, do calls return, fail only for a cause, and leave the card ready for the next command? | holds |
| `traps` | Interrupts and exceptions at every instruction: does the program see nothing of them, are times true, ticks apart and events served? | holds |
| `i2c` | Calls made when the master is at rest: is every byte delivered once and in order, are results about this call, does every call return and give the bus free? | holds |
| `i2c_stale` | Are results about this call also when it is made at once? | violated |

The positive runs of `Core` keep away from the causes of the violated ones by
their programs (no instruction with an effect behind WFI, no jump without a
target) and wires (no NMI, no hardware breakpoint), and `DpcExact` names the bubble it
excepts; within that everything is interleaved. `ServedButMode1`, half of
`WordsExchanged`, names the mode it excepts. `sdcard` leaves out the faults of section 4, `traps` the jump to an
address without memory, `i2c` the
impatient program; `upload`'s `calm` says when the promises of the handshake are
made. In `traps`, `EventServed` and `PutcReturns` except the read system call, which waits in the
handler for a character that may never come.

Every module also states a `TypeOK`. It documents the state and is where the
proofs of section 5 begin; the runs spend their time on the other properties.

### Bounds

* `Core`: programs of at most eight words, `DivCycles` 2 instead of 32,
  memories that answer in 0 to `MaxWait` cycles with `MaxWait` 1 or 2. The
  pipeline holds three instructions and a flush takes at most four cycles;
  the programs put every class of instruction next to every kind of
  neighbour a flush, stall or trap treats differently, and loop for ever. A
  longer division or memory only repeats the wait state.
* `Dm`: two data words (one in `dm_run`), `Timeout` 4 instead of 256, above
  the longest answer. A command works on one register or address.
* `Spi`: shift registers of three bits, frames of two and three bits (one
  shorter than the register, one of its length), SCK at half and at a quarter of
  the clock. Every value of every word is tried.
* `Crc`: registers of three bits, CRCs of two and three bits, bytes of three
  bits, messages of two bytes; every value of each. A register of three bits
  has every tap position; the counter is a byte's bits minus one, as in the code.
* `Uart`: two and three data bits (three plays the part of nine, where
  `uart1_putc` leaves the last bit zero), ten cycles a bit, a glitch of
  one cycle, a break of 60, longer than any frame. `GetDelay` bounds how late the receiver's program
  polls: two idle cycles, which with ten cycles a bit is inside the half stop bit the
  hardware leaves it; `uart_late` shows that the limit is real. The instance satisfies `Timely` and
  `Distinct`, the hypotheses of the theorems of `SerialProofs` about the UART.
* History counters saturate (`Hist`).
* `I2c`: calls of one to three bytes (first, middle and last byte are treated
  differently), two byte values, four calls in a row. The state left by a call
  is what the next one meets, and there are few such states.
* `Upload`: two sessions, files with data, start and other records of
  at most two data bytes, a window of one star, a monitor line of four characters, one symbol
  under way to the target beside the one in its register. A session leaves
  the target in the application, the monitor or a record: the second begins from each.
* `SdCard`: two sectors of one byte, calls of one or two sectors, the values
  0 and 255 (255 is what an idle line reads as), gaps of 0 and 2 bytes before an answer, five calls, so
  that initialise, read, write, initialise, read is among them; time-outs and polls are longer than the gaps.
* `Traps`: a low half of the time of two values, so that every read of the halves can see
  a carry, two sources beside the UART and the timer (`I2C1` and `I2C2`; the pin of `I2C2` is the one that is followed, `Leds`), two events; `Delta` 2 in a
  time up to 3. The program does everything it can, `gpioa_togglepin` included; only the property about
  that, `TogglesKept`, is left to `MCTrapsToggle.cfg`.

### Fairness

The system clock does not stop: `WF_vars(Next)` in `Dm` and `Uart`, and
`WF_regs(Next)` in `Core`, where `regs` are the registers of the hart (a debugger
that toggles its request does not make the clock tick). Nothing is
assumed of interrupts, halt requests or debugger accesses, which may never
come. That memories answer in `MaxWait` cycles is a guard
(`MemoryAnswers`, `PortSensible`): the memories count clock cycles and
cannot delay; an address without memory gives an error at once. In `Spi` the clock and
the driver's polling loop run on (`WF` of `NoBus`, `Poll`, `Return`); that the
driver starts another transfer is not assumed. In the software
modules the processor executes and the device works, each of them for ever: `Program` and
`Master` in `I2c` (the slave lets the clock go), `Driver` in
`SdCard`, `Hart` and `Transmitted` in `Traps`; in `Upload` the tool, the line and
the bootloader run, and none of the disturbances has to come. A time-out of the
tool is part of its run: a read that may come back empty does so if nothing else comes.

## 4. Where the code departs from its documentation

The run `i2c_stale` of `PROJECT.json` (the sentence contradicted is in its finding): after
an address that nobody acknowledged `i2c1_transmit` sets HARDSTOP and waits for TC, which is still
set; it returns while the STOP is being made. The DATA pulse of a call made at once finds
the machine busy and is lost, the wait ends with the TC of the STOP, and the call
returns the AF of the one before. A program that does something else for a bit time
first, as run `i2c` has it, does not see this. Not only the result goes wrong: `Delivered` is false
for an impatient program as well, whose next call may lose bytes and report none lost.

The following configurations are kept beside the runs; each reproduces one more
departure (`tlc -config <file> MC<Module>`); where a row tells of several, TLC stops at
one, and keeping one program, property or member of `Faults` shows each:

| Configuration | Property | What happens |
|---|---|---|
| `MCCoreHalt.cfg` | `DpcIsNext` | after a halt in the cycle behind a trap, `dpc` is the address of a flushed instruction (`id_ex.pc` of a bubble); `doc.adoc:223` has it hold "the PC value of the instruction to be executed" |
| the same | `MieClearedByTrap` | a halt and an interrupt reach a sleeping hart together: the trap CSRs are written, the hart enters debug mode |
| `MCCoreWfi.cfg` | `AccessOnce`, `WritersWrite`, `TrapInitiation` | WFI begins to stall one cycle late. A store behind it reaches the bus while the hart sleeps, and again afterwards; a division behind it ends in the handler and makes a waiting store write a register; an ECALL behind it traps while the hart sleeps, although `doc.adoc:258` has WFI halt before it. One program each: `SleepStore`, `SleepDiv`, `SleepEcall`. In the same way a CSR write behind it takes effect before the hart sleeps and again afterwards (`ExecutesArch`, with `csr` behind the WFI) |
| `MCCoreBreak.cfg` | `BreakpointHit` | `skip_match` stays set after a resume from the breakpoint: in a loop it is missed from then on |
| `MCCoreBadPc.cfg` | `TrapInitiation` | a fetch error is not flushed with its fetch and traps again in the first cycles of the handler |
| `MCCoreNmi.cfg` | `NmiNotNested` | the MRET of an exception inside the NMI handler opens the lockout; `doc.adoc:334`: "An NMI cannot be interrupted by another NMI" |
| the same | `TrapSavesArch` | an NMI in the cycle after a trap saves the address of a flushed instruction |
| `MCDmReset.cfg` | `AccessHalted` | the hart is reset while a command uses it, and runs |
| the same | `HaveResetKept` | an acknowledge written earlier answers the next reset |
| the same | `ResetWhenInactive` | `dmactive` = 0 leaves `cmderr` and the command registers |
| `MCSpiMode1.cfg` | `ReturnsServed` | the word received in mode 1 lacks its last bit: the leadout tests `cpol` where `spi.vhd:282` says "CPHA = 1, half SPI clock leadout" |
| `MCCrcBytes.cfg` | `CrcOfBytes` | the last bit of each byte is not fed: the counter is loaded with 7 and compared with 0; `sw/crc/README.md:9` promises "the CRC32/BZIP2 CRC" |
| `MCUartLate.cfg` | `DataIsReceived` | a character read after the next start bit is lost: DATA returns the shift buffer, and the register `uart.vhd:429` copies it to is never read |
| `MCUart.cfg` with `INVARIANT TypeOK` | `TypeOK` | `uart.vhd:92` declares `txshiftcounter` as 0 to 10; lines 287 to 301 load it with the data bits, one, the parity bit and the second stop bit: 11 or 12 for nine data bits with a parity bit or a second stop bit, 11 for eight with both. A simulation stops there. Synthesis takes four bits, which hold 12, and the frame is right: runs and theorems on every format are about that register |
| `MCUploadStar.cfg` | `TransferredWhenOk` | a star of the prompt window that is under way when the tool sends its key is taken for the answer to it; the tool then fails although it was started within the window, from which `sw/upload/README.md:7` has the file "transferred" |
| `MCSdCardDeaf.cfg` | `CallReturns` | a card that does not answer CMD9 or CMD10: at the time-out `SD_CMD910` deselects it and goes on waiting, for ever |
| `MCSdCardStandard.cfg` | `ReadsSector` | a card that is not high capacity never has its sector size set to 512: a successful read fills one byte of the buffer; `sdcard.c` announces "Read a sector of 512 bytes" |
| `MCSdCardLate.cfg` | `CommandFramed` | late data: `SD_readsector` leaves at its time-out with the card selected, and its data are read as the answer to the next command. A busy card: one that stores longer than the time-out is selected for the next command while it is busy |
| `MCSdCardDamage.cfg` | `ImplementsDisk` | any byte but 0xff is taken for the start token, an error token as well: a read of a damaged block succeeds. A block the card refuses as damaged (`crc`) is reported as written. A card pulled in the middle of a block (`vanish`): 0xff is read to the end, the CRC is not looked at, the read succeeds |
| `MCTrapsJump.cfg` | `TrapTransparent` | after a jump to an address without memory the handler itself loads from `mepc` and traps in the handler |
| `MCTrapsToggle.cfg` | `TogglesKept` | a handler's flip between the read and the write of `gpioa_togglepin` is lost |
| `MCI2cAbsent.cfg` | `Reached` | a receive that found nobody returns without a STOP; the START of the next call, in which SCL is let go and SDA falls in the same moment, may be missed by a slave that is there |

## 5. What is proved

Eight modules hold the theorems. An assumption on the constants is either an `ASSUME` of the model,
which TLC evaluates in every run, or the named hypothesis of a theorem; each hypothesis
excludes something that section 4 shows to go wrong, or says how the debugger or the program behaves.
Every instance the runs check satisfies the hypotheses of the theorems about its properties, save
where said otherwise.

`CoreProofs` assumes only `CoreAssumption` (the address count is positive,
targets and the handler are addresses, a division takes at least two cycles; the
wires are subsets of the Booleans). No program, memory latency or
behaviour of the wires is excluded, those of the violated runs included.

* `TypeCorrect`: `Spec => []TypeOK`. `TypeOK` is inductive as it stands. One
  lemma per block gives the type of its value (`FetchType`, `DecodeType`,
  `MdUnitType`, `CsrBlockType`, ...), `CtlStep` has one step per action.
  The division counter needs its own argument: it leaves its range unless the test for the
  last cycle precedes the increment.
* `HaltAckCorrect`: `Spec => []HaltAckInDebug`: the halt acknowledge is high
  exactly in debug mode, so a debug module never works on a running hart
  through a stale acknowledge.
* `CoreImplementsHart`: `Spec => ImplementsHart`: the pipeline implements
  `Hart` under the mapping `phase`. `Dm` uses `Hart` in place of the pipeline, so what
  the `dm_*` runs show carries over to the pipelined hart.

The inductive invariant of the last two is `HartInv`, `HaltAckInDebug` and
`BootInv`: `Hart` leaves the resume acknowledge unchanged while booting, the
code assigns it zero in `state_boot0`, and these agree only because it is
already low whenever the control unit boots. `ControlStep` describes each action of
`Core` by the handshake bits it changes; `HartStep` matches its
cases with the actions of `Hart`.

`CoreProofs` goes on to prove what the two `Core` runs check, but for liveness. It assumes `Sheltered`: every
address is backed by memory, and behind a WFI stands an instruction without an effect of its own, since
the WFI stalls a cycle late. `TrapsSave` assumes `NoNmi` besides, `DpcIsExact` and
`MieStays` assume `NoRace` (a halt request cannot meet an interrupt that wakes the
hart): section 4 has the counterexample to each without its assumption.

* `ExecutesProgram`: `Spec => []ExecutesArch`, the hart executes the program of the sequential machine.
* `AccessesOnce`, `OnlyWritersWrite`: `AccessOnce` and `WritersWrite`, what instructions put on the bus and
  into the register file.
* `TrapsInPlace`, `TrapsSave`, `MieStays`: `TrapInitiation`, `TrapSavesArch` and `MieClearedByTrap`, when traps are taken
  and that they are resumable.
* `StepsOne`, `DpcIsExact`: `StepExactlyOne` and `DpcExact`, what the debugger is promised.

`PipelineHolds` is their inductive invariant, `PipeInv`. `ExecutesArch` says where the pipeline is in
the `exec` state only; to keep it, one must know in every other state what fills the stages:
in `exec`, `mem`, `md` and `md2` the instruction at `arch.pc` is in execute and the next
in decode (`Working`); behind a trap a bubble is in execute and the
interrupts are off (`AfterTrap`), which is why that bubble cannot be interrupted;
a flush ends with the successor in decode (`InDecode`). `Stack` names the two cycles of an MRET in which `mstatus` is
behind the sequential machine, `Unit` where the divider is, `Access` that an access is
outstanding in `mem` only, `Fetching` which PC is being fetched, and `Stepping` how many
instructions were completed in each state of a step. `Moves` describes the
control machine and `EdgeMoves` proves it once; each part of the invariant then has a lemma of its own, `Flow`
one for each kind of state.

`DmProofs` assumes `DmAssumption` (the memories answer within the timeout).

* `ErrorsKept`: `Spec => ErrorInPlace`, with no hypothesis: resets, a debugger that writes at any time
  and a module that is switched off are included. `ErrInv` says that no command is accepted while the error
  register is about to be cleared and that a failure is flagged or in `cmderr` in each state.
* `CommandsDoIt`: `Spec => CommandDoesIt` for a debugger that `Examines` a halted hart. It follows
  from `HaltedCommandsDoIt`, which supposes only that the debug module stays on and the hart happens to
  stay halted. `WorkInv` follows the transfer of a memory command through the two machines: posted, on the
  bus, waiting or given up, with the timeout counter as far as the memory has used it up, so that the answer never comes
  after the timeout.
* `ResumeAckTrue`: `Spec => []ResumeAckMeansResumed`, where two DMI accesses are at least
  a cycle apart (`Gap > 0`), as those of a JTAG scan are: a resume and a read in the next
  cycle would see the acknowledge of the resume before.
* `TypeCorrect`.

`I2cProofs` assumes `I2cAssumption` (calls have at least one byte, sets of values are finite) and, in its
theorems, a `Patient` program: one that lets the master come to rest between calls.

* `DataDelivered` and `NackTrue`: `Delivered` and `NackMeansRefused`. The inductive invariant is that a call is always in one of
  the thirteen stages of `Stage`. A stage says where the program, the master and the slave are and
  what CTRL holds: the program writes CTRL by reading, changing and writing it, the master clears
  bits of it in between, and it is only because of the stages that no write puts back a bit the master has cleared.

`SpiProofs` assumes `SpiAssumption`: the register has at least one bit, the frames fit
in it, a prescaler is at most the 127 of the table in `spi.vhd`, a mode is a pair of
bits. The slave of the model, which keeps to its mode, is the environment.

* `ExchangesWords`: `Spec => []WordsExchanged`: the slave takes exactly the word
  `spi1_transfer` sends, which then returns exactly the word the slave offers, except
  in the mode CPOL=0, CPHA=1 (section 4).
* `RestWhenComplete`: `Spec => []CompleteAtRest`, and `TypeCorrect`.

All follow from `ExchangeHolds`, the inductive invariant `ExchangeInv`. `WordsExchanged` speaks only of
the end of a transfer; the invariant says at every clock cycle which bits are where. With
`Complete` bits behind it, the slave has taken and the master received a first part of the
words, and the transmit buffer and the slave's offer hold the rest. Between the two
edges of a bit one side of each pair is a bit ahead, and `CTRL.cpha` says which
(`Moving`); before the first edge nothing has moved (`Pending`), after the last
edge everything has (`Over`). `ControlInv` adds what the pins and flags do meanwhile. There is one lemma
per state of the transfer machine and per access of the driver, and four for one more bit taken,
received, sent or offered.

`CrcProofs` assumes `CrcAssumption` (widths are positive, a CRC is no wider than its register).
`TypeCorrect` is inductive as it stands. `ReturnedSettled`, `Spec => []ReturnedIsSettled`, is the race
of `crc_write`: TC of the byte before is still set when DATA is written. `SettledInv` adds why
the poll cannot see it: TC is set with bits outstanding only in the one cycle in which the bus still
holds the write.

* `Remainder`: `Spec => []SregIsRemainder`. The reference, `CrcOf`, divides the message with
  the start value in front of it, as one does with pencil and paper; the hardware works in a register as wide as the CRC and
  takes the message a bit at a time. That the two agree for a message of every length is an induction
  over its length. The library's induction theorems take an operator as a parameter and cannot be used here; instead the set of
  lengths at which the claim fails is a set of numbers, and a set of numbers that is not
  empty has a least element (`NatMin`, from `NatLessThanWellFounded` and `WFMin`), at which the step is contradicted.

`SerialProofs`, in its first part, assumes `UartAssumption` and, in the two theorems below, `Timely` and `Distinct`. `Timely` says that the reader's two delays
(the poll that sees RC and the read behind it) fit in what is left of a bit after its
middle, where the receiver is ready: `uart_late` shows what happens otherwise. `Distinct`
says that the line is pulled low for at most half a bit, or for longer than a frame, when no character is on its way: in
between, a pulse is a frame, and `uart.vhd` cannot know better.

* `NoFalseErrors`: `Spec => []NoFalseError`.
* `InOrder`: `Spec => Channel!Safety`, the part of `ImplementsChannel` that is not fairness: every character
  `uart1_putc` writes is what `uart1_getc` returns, once and in order.
* `TypeCorrect`: with the hypothesis `CountersFit` instead of those, `Spec => []TypeOK`. `CountersFit` says that data bits, parity bit and second stop
  bit are `MaxBits` at most: other formats do not fit in `txshiftcounter` as declared (section 4). It rests on two facts:
  the registers as synthesised (`Synthesised`, a counter of four bits) keep their types in every format, and the counter
  never exceeds what it was loaded with (`CountStep`).

The first two hold for every set of formats, of the register as synthesised, and all three for every divider, every phase of the two programs and every moment of a disturbance.
None is inductive; for the first two `IInv` is. It says first that the sender is silent, has a character on its
way, or ends (`LineSilent`, `Busy`, `FrameEnds`), and for each what the other end can be at: ten
places in what it may take for a start bit or a break (`Lull`), eight of a character (`Busy`). The
transmit buffer holds the bits of the frame from the place `BitsSent` on, and `Into` counts the cycles of the bit; the
synchronised pin is two cycles behind. `Aligned` relates the two timers: their sum says
that the receiver samples a place of the frame at least two cycles after it began and at most half a bit and four cycles, so that the pin shows that bit
(`AlignedSample`), and counting a bit at both ends keeps it so (`AlignedDown`, `AlignedNext`). `Content` is the
part of the character that has been shifted in; `ParityAgrees`, that the parity over the padded
receive buffer is the one the transmitter computed over a shorter word, is counted with `Cardinality`. `Fresh` is the
deadline of the reader: RC has been set for at least so many cycles as the reader has let
pass (`Slack`), and it has been read before the receiver leaves idle again. There is one lemma for each step of each
machine (`TransmitSending`, `ReceiveIter`, ...) and one for each place of the two together (`InIterStep`, `BreakWaitStep`, ...).

The second part of `SerialProofs` is about `Upload`, assumes `UploadAssumption` (the parameters have their types) and, in its
theorems on sessions, `FromObjcopy`: a file of which every line is answered once
(`Regular`; the properties are about no other) consists of records as objcopy writes them. A record has the data bytes its count says, at addresses that have memory; the bytes
of two records go to different addresses; there is one start address. The files of `MCUpload` satisfy it.

* `UploadOkMeansLoaded`, `UploadNothingLost`, `UploadFailsOnlyAtWindow`: `UploadSpec` implies `OkMeansLoaded`, `NothingLost` and `FailsOnlyAtWindow`: for every
  such file, length of the window and of the lines, number of sessions and interleaving, with whatever disturbs the sessions before. As in the model, a target that does not
  send takes a symbol before the next has come.
* `UploadTypeCorrect`: `UploadSpec => []UploadTypeOK`, without that hypothesis.

None is inductive: that the file is in memory at the end rests on every answer before having been the answer to its own line. `UploadInv`
names the stages of a session with handshake. The key is on its way (`Calling`), it has been answered (`Met`, `Meeting`),
a line is being written (`Writing`), has been written (`LineOut`), is answered (`Answered`), the mark is on its way
(`Marking`) and the target leaves (`Leaving`). Each says what the two queues and the register hold. Within a line, `Flying(l, k, w)` says that these are its symbols from `k + 1`
to `w`, of which the tool has written the last and the bootloader takes the first next; `Place(l, k)` where the bootloader's parser is when it has taken `k` of
them, and `Patched(l, k)` which bytes it has stored. When the line is used up the whole record is in
memory, and no record before it has been touched (`BytesApart`). Without handshake (`Streaming`) the bootloader has been told not to answer before the
first symbol it could answer, so it never sends while the line is busy. TLC has checked `UploadInv` on the instance of `MCUpload`.

`TrapsProofs` assumes `TrapsAssumption` and, in its theorems, `StaysInMemory`: the program does not jump to
an address without memory, since the handler that loads from `mepc` would trap in the handler (`MCTrapsJump.cfg`).

* `TrapsLeaveNoTrace`: `Spec => TrapTransparent`, for every set of sources and system calls.
* `TimesAreTrue` and `TicksAreApart`: `TimeIsTrue` and `TicksApart`, for every width of the halves of a time,
  `Delta`, and time the handler is held up.
* `TypeCorrect`.

`TrapInv` says first who has the processor: the program with no frame on the stack (`Running`), the entry of the
handler (`Saving`), or the handler with one frame that equals what the program had (`Serving`, which also says
which of its paths belongs to which cause, and that the arguments of a system call are still in their registers).
`Reading` follows a time on its way through the three loads, also across a trap: the high half
read first is not above that of now, so that if it is read again unchanged the low half in between belongs
to it. `Ticking` does the same for the handler that computes the next compare value
from such a time and writes it in halves. `HalvesOf`, `HighGrows` and `HighFits` are the facts on quotient and remainder these
need; they hold for every width, so the carries of a 64-bit time are included.

`SdCardProofs` assumes `SdCardAssumption` (lengths and loops are positive, a card that answers does so within the
polls and time-outs) and, in its theorems, `Regular`: a high capacity card with none of the five faults
section 4 shows the driver not to stand. It may still be pulled and exchanged between commands, refuse addresses or blocks,
never send or acknowledge a block, or never answer CMD9 and CMD10.

* `IsADisk`: `Spec => ImplementsDisk`, every step of driver and card is a step of `Disk` or none.
* `CommandsAreFramed`, `KnowsItsCard`, `FailuresHaveCauses`: `CommandFramed`, `CardKnown` and `FailsForCause`.
* `TypeCorrect`.

None of these is inductive, since the driver never looks at the card but at the next byte. `SdInv` says for each
loop of the driver which bytes the card has still to send (`Talking`): in `SD_readR1` a gap shorter than the polls that
are left, R1, and behind it exactly the bytes that the next loops read; in the wait for a block a gap
shorter than the transfers left and the whole block, or nothing from a card that stays silent; in the busy loop fewer zeros
than transfers. When a command ends nothing is left, so the next one is framed. `Brought` is how far
the initialisation has brought the card that is in the slot now, `Moved` that the caller's buffer and the disk hold the first `done`
blocks. There is one lemma per action, and one (`WayKept`) for what every step within a command leaves alone. The refinement
follows from `SdInv` at the two steps `Disk` sees: the block the card takes is the next one of the call (`Stores`), and a call
that returns has moved all of its blocks (`Ends`).

Only model-checked: liveness (`HaltHonoured`, `CommandEnds`,
`TransferReturns`, `BreakReported`, `ToolEnds`, `CallReturns`, `EventServed`, `PutcReturns`,
`BusFreed`, the fairness of `Channel`), which together with ENABLED is beyond the prover.

## 6. Not modelled, and the plan

Not modelled in the hart: results of the ALU, register contents and forwarding,
counters, the read-modify-write of CSRs, misaligned accesses, the vectored
mode, and the configuration FAST_MEM. In the UART: the interrupt
driver, and writes of STAT while the receiver works.

In the software: the formatting functions of the library, start-up code,
the converters and the reading commands of the monitor, which are sequential text
handling; the vectored variant of the trap handler, which differs from the direct one
in the dispatch alone; the example programs.

Third-party code is not modelled: FatFs (`ff.c`, and the code page tables of `ffunicode.c`),
CoreMark (twice, with `ee_printf.c`), Dhrystone, Whetstone and FreeRTOS are used unchanged, run
without interference on one processor, and are by far the larger part of the C
lines in the repository. What the SoC's own code promises FatFs is module `Disk`. The copies of the RTL for
other boards and the IDE files repeat `src/rtl` and `src/sw`.

What remains, in order:

1. `Wdt`, alone and composed with the hart's trap request: is an NMI pulse
   seen; lock and password against an abstract watchdog.
2. `Uart` extended by the interrupt driver of the example programs, whose
   handler writes STAT while the receiver works, and by resets on a break.
3. `Timera`, `Timerb` with shadow registers and capture; `Gpio` edges.
4. `Dtm` composed with the interface of `Dm`: each update one access.
5. `Bus`: I/O switch and decoder: each request is answered once, and with
   that a proof of `MemoryAnswers`.

Theorems in order: an invariant of the watchdog with the hart's NMI request, when it is modelled; that of the UART with its
interrupt handler, for which `Fresh` has to speak of the handler in place of the poll.
