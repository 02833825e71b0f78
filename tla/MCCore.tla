------------------------------- MODULE MCCore -------------------------------
(***************************************************************************)
(* Instances of Core for TLC: short programs with the trap handler at 5.   *)
(***************************************************************************)
EXTENDS Core

\* A program of the words w at 0, 1, ..., padded with jumps.
Prog(w) == [a \in 0..7 |-> IF a + 1 \in DOMAIN w THEN w[a + 1] ELSE "jump"]

\* The branch at 1 skips one instruction; every other jump leads to 0.
MCTarget == [a \in 0..7 |-> IF a = 1 THEN 3 ELSE 0]

\* Every class of instruction but WFI, in the program and in the handler.
Control == Prog(<<"csr", "branch", "ecall", "store", "alu", "mret">>)
MulDiv  == Prog(<<"load", "mul", "csr", "div", "illegal", "store", "mret">>)
Break   == Prog(<<"csr", "branch", "load", "ebreak", "alu", "alu", "mret">>)
Sleep   == Prog(<<"csr", "alu", "wfi", "alu", "wfi", "branch", "mret">>)

TrapPrograms == {Control, MulDiv, Break, Sleep}
\* The same with EBREAK, which traps or halts as ebreakm says.
MulBreak == Prog(<<"load", "mul", "csr", "div", "ebreak", "store", "mret">>)
DebugPrograms == {Control, MulBreak}

\* WFI before an instruction with an effect.
SleepStore == {Prog(<<"csr", "wfi", "store", "alu", "alu", "mret">>)}
SleepDiv   == {Prog(<<"csr", "wfi", "div", "alu", "alu", "store", "store", "mret">>)}
SleepEcall == {Prog(<<"csr", "wfi", "ecall", "alu", "alu", "mret">>)}
SleepEffect == SleepStore \cup SleepDiv \cup SleepEcall

\* EBREAK, WFI and interrupts, for a hart that is halted.
HaltPrograms == DebugPrograms \cup {Sleep}

\* A jump to 6, which no instruction memory answers to; the handler is at 2.
JumpBad == {Prog(<<"csr", "jump", "mret">>)}
BadTarget == [a \in 0..7 |-> IF a = 1 THEN 6 ELSE 0]

\* A handler that may itself execute ECALL.
NmiPrograms == {Prog(<<"csr", "alu", "alu", "alu", "alu", "branch", "ecall", "mret">>)}
NmiTarget == [a \in 0..7 |-> IF a = 5 THEN 7 ELSE 0]

\* A loop around a breakpoint at 1.
Loop == {Prog(<<"alu", "alu", "alu", "alu">>)}

StepWrites  == [reg : {"step", "ebreakm"}, val : BOOLEAN] \cup [reg : {"dpc"}, val : {0}]
BreakWrites == [reg : {"tdata"}, val : {1, 8}]
=============================================================================
