----------------------------- MODULE ByteStream -----------------------------
(***************************************************************************)
(* What socket.c promises of a TCP socket: two queues of bytes. The peer's *)
(* bytes come out of recv in their order, none twice and none left out;    *)
(* the bytes given to send leave in theirs. SocketStream implements it.    *)
(***************************************************************************)
EXTENDS Integers, Sequences

CONSTANTS Mod,      \* bytes are numbered modulo Mod
          Capacity  \* the most one send takes

VARIABLES arrived,  \* number of the peer's next byte
          in,       \* bytes that have arrived and no recv has taken
          got,      \* the bytes the last recv or peek has handed out
          given,    \* number of the program's next byte
          out,      \* bytes taken by send that have not left
          wire      \* the byte that left last

receiver == <<arrived, in, got>>
sender == <<given, out, wire>>
vars == <<receiver, sender>>

Init ==
  /\ arrived \in 0 .. Mod - 1 /\ given \in 0 .. Mod - 1
  /\ in = <<>> /\ out = <<>> /\ got = <<>> /\ wire = <<>>

Arrive ==
  /\ in' = Append(in, arrived) /\ arrived' = (arrived + 1) % Mod
  /\ UNCHANGED <<got, sender>>

Recv ==
  /\ \E n \in 1 .. Len(in) :
       got' = SubSeq(in, 1, n) /\ in' = SubSeq(in, n + 1, Len(in))
  /\ UNCHANGED <<arrived, sender>>

Peek == in # <<>> /\ got' = <<Head(in)>> /\ UNCHANGED <<arrived, in, sender>>

\* A call begins, or ends without data.
Nothing == got' = <<>> /\ UNCHANGED <<arrived, in, sender>>

Send ==
  /\ \E n \in 1 .. Capacity :
       /\ out' = out \o [k \in 1 .. n |-> (given + k - 1) % Mod]
       /\ given' = (given + n) % Mod
  /\ UNCHANGED <<receiver, wire>>

Leave ==
  /\ out # <<>> /\ wire' = <<Head(out)>> /\ out' = Tail(out)
  /\ UNCHANGED <<receiver, given>>

\* The connection is reset: what has not left never will.
Reset == out' = <<>> /\ UNCHANGED <<receiver, given, wire>>

Next == Arrive \/ Recv \/ Peek \/ Nothing \/ Send \/ Leave \/ Reset

Spec == Init /\ [][Next]_vars
=============================================================================
