------------------------------- MODULE MCSpi --------------------------------
(* TLC instance of Spi: three-bit shift registers, frames of two and three *)
(* bits, SCK at half and at a quarter of the system clock.                 *)
EXTENDS Spi

AllModes == {0, 1} \X {0, 1}
\* The mode in which the transfer ends before the last bit is received.
Mode1 == {<<0, 1>>}
=============================================================================
