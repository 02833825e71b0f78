------------------------------- MODULE MCUart -------------------------------
(* TLC instance of Uart: two and three data bits of a receive buffer of    *)
(* three, every parity setting, one and two stop bits, ten cycles a bit.   *)
EXTENDS Uart

Format(bits, paron, odd, sp2) ==
    [bits |-> bits, paron |-> paron, odd |-> odd, sp2 |-> sp2, baud |-> 9]
\* Every branch on size, parity and stop bits.
Formats == {Format(2, FALSE, 0, FALSE), Format(2, TRUE, 0, TRUE),
            Format(2, TRUE, 1, FALSE), Format(3, TRUE, 1, FALSE)}
\* The setting of the example programs: no parity, one stop bit.
Plain == {Format(2, FALSE, 0, FALSE)}
\* A glitch shorter than half a bit, and a break longer than any frame.
GlitchAndBreak == {1, 60}
=============================================================================
