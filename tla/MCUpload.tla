------------------------------ MODULE MCUpload ------------------------------
(***************************************************************************)
(* Instances of Upload for TLC.                                            *)
(***************************************************************************)
EXTENDS Upload

Record(type, count, addr, bytes) ==
    <<Ch("S"), Ch(type), Hex(count), Hex(addr)>> \o bytes \o <<Hex(7), nl>>

\* A data record of two bytes and the start address.
Whole == <<Record("1", 5, 0, <<Hex(1), Hex(2)>>), Record("7", 5, 1, <<>>)>>
\* An empty line between records; one that ends in CR LF; no newline at the end.
Blank == <<<<nl>>, Record("3", 6, 1, <<Hex(1)>>)>>
BlankCrLf == <<<<Ch("cr"), nl>>, Record("1", 4, 0, <<Hex(1)>>)>>
NoNewline == <<<<Ch("S"), Ch("9"), Hex(3), Hex(2), Hex(7)>>>>

Opt(b, n, j, p) == [brk |-> b, nowait |-> n, jump |-> j, patient |-> p]
Handshake == Opt(FALSE, FALSE, TRUE, TRUE)
First == {[file |-> Whole, opt |-> Opt(FALSE, TRUE, TRUE, TRUE)],
          [file |-> Blank, opt |-> Opt(TRUE, FALSE, FALSE, TRUE)],
          [file |-> BlankCrLf, opt |-> Handshake],
          [file |-> NoNewline, opt |-> Opt(FALSE, FALSE, FALSE, FALSE)]}
Again == {[file |-> Whole, opt |-> Handshake]}
MCUploads == <<First, Again>>
OneUpload == <<Again>>

\* Corrections, a character that is not printed, and two commands.
MCTyped == {<<Ch("x"), Ch("bs"), Ch("x"), Ch("del"), Ch("x"), Ch("ctrlU"), Ch("esc"), Ch("r"), nl>>,
            <<Ch("w"), Hex(2), Hex(3), nl>>}
MCGreeting == <<Ch("."), nl>>
MCAddr == 0..2
=============================================================================
