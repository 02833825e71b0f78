-------------------------------- MODULE MCI2c --------------------------------
(* Instances of I2c: which calls the program makes. *)
EXTENDS I2c

\* Every function, to a slave that is there and to one that is not.
AllCalls == Call

\* Slaves that are there, and one absent slave that is written or read.
MissWrite == {c \in Call : c.there \/ c.fn = "transmit"}
MissRead == {c \in Call : c.there \/ c.fn = "receive"}
=============================================================================
