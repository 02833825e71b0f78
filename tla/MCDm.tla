-------------------------------- MODULE MCDm --------------------------------
(***************************************************************************)
(* Instances of Dm for TLC: two words, two addresses.                      *)
(***************************************************************************)
EXTENDS Dm

Cmd(op) == [op |-> op, known |-> TRUE, inc |-> FALSE]

\* Every kind of command, on a CSR that exists or not, with post-increment or
\* without.
AllCommands == {Cmd("readgpr"), Cmd("writegpr"), Cmd("readcsr"), Cmd("writecsr"), Cmd("bad"),
                [Cmd("readcsr") EXCEPT !.known = FALSE], [Cmd("writecsr") EXCEPT !.known = FALSE],
                Cmd("readmem"), [Cmd("readmem") EXCEPT !.inc = TRUE],
                Cmd("writemem"), [Cmd("writemem") EXCEPT !.inc = TRUE]}
ReadCommands == {Cmd("readmem")}

On == [active |-> TRUE, ndmreset |-> FALSE, haltreq |-> FALSE,
       resumereq |-> FALSE, ackhavereset |-> FALSE]
\* A hart that runs until it is halted; commands do not tell a resumed hart
\* from one that was never halted.
HaltOnly == {[On EXCEPT !.haltreq = TRUE]}
HaltRun == HaltOnly \cup {[On EXCEPT !.resumereq = TRUE]}
AllControls == HaltRun \cup {On, [On EXCEPT !.active = FALSE], [On EXCEPT !.ndmreset = TRUE],
                             [On EXCEPT !.ackhavereset = TRUE]}
=============================================================================
