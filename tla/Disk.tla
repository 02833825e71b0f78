-------------------------------- MODULE Disk --------------------------------
(***************************************************************************)
(* What the file system expects of the functions of diskio.c: a disk that  *)
(* keeps the blocks written to it.  A call that succeeds has moved every   *)
(* block it names.  A write that fails has stored a first part of them;    *)
(* nothing else ever changes the disk.                                     *)
(***************************************************************************)
EXTENDS Naturals, Sequences, SequencesExt

CONSTANTS Sectors,      \* the block addresses
          Blocks        \* the contents of a block: sequences of bytes

NoCall == [op |-> "none"]

\* One or two blocks in a row.
Ranges == {r \in Sectors \X (1 .. 2) : r[1] + r[2] - 1 \in Sectors}

Calls ==
  {[op |-> "init"]}
  \cup {[op |-> "read", at |-> r[1], n |-> r[2]] : r \in Ranges}
  \cup UNION {[op : {"write"}, at : {r[1]}, n : {r[2]}, data : [1 .. r[2] -> Blocks]] : r \in Ranges}

VARIABLES store,        \* the disk: a block for every address
          call,         \* the call being served
          answer        \* what the last call returned
vars == <<store, call, answer>>

Init == /\ store \in [Sectors -> Blocks]
        /\ call = NoCall
        /\ answer = [res |-> "none", data |-> <<>>]

Ask == /\ call = NoCall
       /\ call' \in Calls
       /\ answer' = [res |-> "none", data |-> <<>>]
       /\ UNCHANGED store

\* Blocks of a write are stored one by one, in order.
Store == /\ call.op = "write"
         /\ \E k \in 1 .. call.n :
              /\ \A j \in 1 .. k - 1 : store[call.at + j - 1] = call.data[j]
              /\ store' = [store EXCEPT ![call.at + k - 1] = call.data[k]]
         /\ UNCHANGED <<call, answer>>

Answer(res, data) == /\ answer' = [res |-> res, data |-> data]
                     /\ call' = NoCall
                     /\ UNCHANGED store

Succeed ==
  \/ /\ call.op = "init"
     /\ Answer("ok", <<>>)
  \/ /\ call.op = "read"
     /\ Answer("ok", FlattenSeq([k \in 1 .. call.n |-> store[call.at + k - 1]]))
  \/ /\ call.op = "write"
     /\ \A k \in 1 .. call.n : store[call.at + k - 1] = call.data[k]
     /\ Answer("ok", <<>>)

Fail == call # NoCall /\ Answer("error", <<>>)

Next == Ask \/ Store \/ Succeed \/ Fail

Spec == Init /\ [][Next]_vars
=============================================================================
