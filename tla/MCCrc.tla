------------------------------- MODULE MCCrc --------------------------------
(* TLC instance of Crc: registers of three bits, CRCs of two and of three  *)
(* bits, bytes of three bits; every polynomial, start value and message.   *)
EXTENDS Crc
=============================================================================
