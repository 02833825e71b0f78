------------------------------- MODULE Channel -------------------------------
(***************************************************************************)
(* What a serial connection promises to the programs at its ends: the      *)
(* characters put in by one (uart1_putc) are got by the other (uart1_getc) *)
(* in order, none lost, none changed, none added.  Both may act in one     *)
(* clock cycle.                                                            *)
(***************************************************************************)
EXTENDS Naturals, Sequences

CONSTANT Chars    \* the characters

VARIABLES
    queue,        \* put and not yet got
    got           \* the character last got, and the parity of their number

Idle == [char |-> <<>>, odd |-> FALSE]
GotNext(c) == [char |-> c, odd |-> ~got.odd]

Init == queue = <<>> /\ got = Idle

Put(c) == queue' = Append(queue, c) /\ UNCHANGED got
Get == /\ queue # <<>>
       /\ got' = GotNext(Head(queue))
       /\ queue' = Tail(queue)
PutAndGet(c) == /\ queue # <<>>
                /\ got' = GotNext(Head(queue))
                /\ queue' = Append(Tail(queue), c)

Next == Get \/ \E c \in Chars : Put(c) \/ PutAndGet(c)

Safety == Init /\ [][Next]_<<queue, got>>
Spec == Safety /\ WF_<<queue, got>>(Next /\ Len(queue') <= Len(queue))
=============================================================================
