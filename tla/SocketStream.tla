---------------------------- MODULE SocketStream ----------------------------
(***************************************************************************)
(* The data path of one open TCP socket: recv, peek and send of socket.c   *)
(* over the register accesses of w5500.c.                                  *)
(*                                                                         *)
(* A 16-bit register is read in two SPI frames, high byte first, and the   *)
(* chip goes on working between them: RX_RSR grows when bytes arrive and   *)
(* TX_FSR when the peer acknowledges some. A low byte has Digit values     *)
(* here instead of 256. The pointers RX_RD and TX_WR are the program's     *)
(* own: the chip looks at them when a command comes and changes neither,   *)
(* so reading a pointer, copying, writing it back and the command are one  *)
(* step.                                                                   *)
(*                                                                         *)
(* Byte number n of either direction is the value n modulo Mod.            *)
(***************************************************************************)
EXTENDS Integers, Sequences, FiniteSetsExt

CONSTANTS Digit,     \* 256: the values of the low byte of a register
          Mod,       \* 2^16: the values of a register
          BufSize,   \* W5500_SSIZE and W5500_RSIZE
          Lengths,   \* lengths the program passes to recv and send
          Start,     \* where the chip's pointers stand after OPEN
          MaxIn,     \* bound: bytes the peer sends
          MaxOut     \* bound: bytes the program sends

ASSUME StreamAssumption ==
  /\ Digit \in Nat \ {0} /\ Mod \in Nat \ {0} /\ Mod % Digit = 0
  /\ BufSize \in 1 .. Mod - 1 /\ Mod % BufSize = 0
  /\ Lengths \subseteq Nat \ {0}
  /\ Start \in 0 .. Mod - 1 /\ MaxIn \in Nat /\ MaxOut \in Nat

VARIABLES
  sr,           \* Sn_SR: "ESTABLISHED", "CLOSE_WAIT" or "CLOSED"
  RX_RSR, RX_RD, rxMem,         \* receive buffer: unread bytes, read pointer, cells
  TX_FSR, TX_RD, TX_WR, txMem,  \* transmit buffer: free cells, pointers, cells
  ir,           \* 1 when SnIR_SEND_OK is set
  wire,         \* the byte that left last
  came, given,  \* bytes the peer has sent, bytes the program has given to send
  call, pc, len,        \* the running call, where it is, and its length
  val, val1, high,      \* locals of the getXXSize functions
  held,                 \* RX_RSR or TX_FSR when the running getXXSize began
  got, result           \* bytes handed out and value returned by the last call

rxVars == <<RX_RSR, RX_RD, rxMem, came>>
txVars == <<TX_FSR, TX_RD, TX_WR, txMem, ir, wire, given>>
sizeVars == <<val, val1, high, held>>
vars == <<sr, rxVars, txVars, call, pc, len, sizeVars, got, result>>

\* What _read of a 16-bit register concerns: the size the running call asks for.
Register == IF call = "send" THEN TX_FSR ELSE RX_RSR

Cell(ptr) == ptr % BufSize

Init ==
  /\ sr = "ESTABLISHED"
  /\ RX_RSR = 0 /\ RX_RD = Start /\ rxMem = [c \in 0 .. BufSize - 1 |-> 0]
  /\ TX_FSR = BufSize /\ TX_RD = Start /\ TX_WR = Start
  /\ txMem = [c \in 0 .. BufSize - 1 |-> 0]
  /\ ir = 0 /\ wire = <<>> /\ came = 0 /\ given = 0
  /\ call = "none" /\ pc = "idle" /\ len = 0
  /\ val = 0 /\ val1 = 0 /\ high = 0 /\ held = 0
  /\ got = <<>> /\ result = 0

TypeOK ==
  /\ sr \in {"ESTABLISHED", "CLOSE_WAIT", "CLOSED"}
  /\ RX_RSR \in 0 .. BufSize /\ TX_FSR \in 0 .. BufSize
  /\ RX_RD \in 0 .. Mod - 1 /\ TX_RD \in 0 .. Mod - 1 /\ TX_WR \in 0 .. Mod - 1
  /\ rxMem \in [0 .. BufSize - 1 -> 0 .. Mod - 1]
  /\ txMem \in [0 .. BufSize - 1 -> 0 .. Mod - 1]
  /\ ir \in {0, 1} /\ came \in 0 .. MaxIn /\ given \in 0 .. MaxOut
  /\ wire \in Seq(0 .. Mod - 1) /\ Len(wire) <= 1
  /\ call \in {"none", "available", "recv", "peek", "send"}
  /\ pc \in {"idle", "first", "first_low", "second", "second_low", "sized",
             "status", "wait", "wait_status"}
  /\ len \in Lengths \cup {0}
  /\ val \in 0 .. Mod - 1 /\ val1 \in 0 .. Mod - 1
  /\ high \in 0 .. Mod \div Digit /\ held \in 0 .. BufSize
  /\ got \in Seq(0 .. Mod - 1) /\ Len(got) <= BufSize
  /\ result \in -1 .. BufSize

-----------------------------------------------------------------------------
(* Calls begin and end. *)

Return(n, bytes) ==
  /\ pc' = "idle" /\ call' = "none" /\ result' = n /\ got' = bytes /\ len' = 0
  /\ val' = 0 /\ val1' = 0 /\ high' = 0 /\ held' = 0

\* W5500_getTXFreeSize and W5500_getRXReceivedSize begin: both locals are 0.
SizeLoop == pc' = "first" /\ val' = 0 /\ val1' = 0 /\ high' = 0

Begin(c, n) ==
  /\ pc = "idle"
  /\ call' = c /\ len' = n /\ got' = <<>> /\ result' = 0
  /\ held' = (IF c = "send" THEN TX_FSR ELSE RX_RSR)
  /\ SizeLoop
  /\ UNCHANGED <<sr, rxVars, txVars>>

\* EthernetClient_available, EthernetClient_read_buf, EthernetClient_peek, which asks
\* for the size first, and EthernetClient_write.
EthernetClient_available == Begin("available", 0)
EthernetClient_read_buf == \E n \in Lengths : Begin("recv", n)
EthernetClient_peek == Begin("peek", 0)
EthernetClient_write ==
  \E n \in Lengths : given + Min({n, BufSize}) <= MaxOut /\ Begin("send", n)

-----------------------------------------------------------------------------
(* The loop that reads a size until two readings agree. *)

ReadHigh(from, to) ==
  /\ pc = from /\ pc' = to /\ high' = Register \div Digit
  /\ UNCHANGED <<sr, rxVars, txVars, call, len, val, val1, held, got, result>>

Word == high * Digit + (Register % Digit)

\* Mutant of FirstRead: one reading is believed.
FirstReadBelieved ==
  /\ pc = "first_low" /\ val1' = Word /\ val' = Word /\ high' = 0
  /\ pc' = "sized"

\* val1 = read(); a zero is not read again but compared with the last val.
FirstRead ==
  /\ pc = "first_low" /\ val1' = Word /\ high' = 0 /\ UNCHANGED val
  /\ pc' = IF Word # 0 THEN "second" ELSE IF val = 0 THEN "sized" ELSE "first"

SecondRead ==
  /\ pc = "second_low" /\ val' = Word /\ high' = 0 /\ UNCHANGED val1
  /\ pc' = IF Word = val1 THEN "sized" ELSE "first"

getSize ==
  \/ ReadHigh("first", "first_low") \/ ReadHigh("second", "second_low")
  \/ /\ FirstRead \/ SecondRead
     /\ UNCHANGED <<sr, rxVars, txVars, call, len, held, got, result>>

-----------------------------------------------------------------------------
(* Receiving. *)

Unread(ptr, n) == [k \in 1 .. n |-> rxMem[Cell(ptr + k - 1)]]

\* Mutant of Commit: the carry into the high byte of RX_RD is lost.
CommitLowByte(n) ==
  /\ RX_RD' = (RX_RD \div Digit) * Digit + ((RX_RD + n) % Digit)
  /\ RX_RSR' = ((RX_RD + RX_RSR) - RX_RD') % Mod
  /\ UNCHANGED <<rxMem, came>>

\* RX_RD is written back and RECV issued: the chip computes the size anew.
Commit(n) ==
  /\ RX_RD' = (RX_RD + n) % Mod
  /\ RX_RSR' = ((RX_RD + RX_RSR) - RX_RD') % Mod
  /\ UNCHANGED <<rxMem, came>>

\* EthernetClient_available returns the size.
AvailableReturns ==
  /\ call = "available" /\ pc = "sized" /\ Return(val, <<>>)
  /\ UNCHANGED <<sr, rxVars, txVars>>

\* recv with data: at most len bytes of it.
recv ==
  /\ call = "recv" /\ pc = "sized" /\ val > 0
  /\ LET n == Min({val, len}) IN Return(n, Unread(RX_RD, n)) /\ Commit(n)
  /\ UNCHANGED <<sr, txVars>>

\* recv without: it looks at the status next, to tell an end from a pause.
recvNoData ==
  /\ call = "recv" /\ pc = "sized" /\ val = 0 /\ pc' = "status"
  /\ UNCHANGED <<sr, rxVars, txVars, call, len, sizeVars, got, result>>

recvStatus ==
  /\ call = "recv" /\ pc = "status"
  /\ Return(IF sr = "ESTABLISHED" THEN -1 ELSE 0, <<>>)
  /\ UNCHANGED <<sr, rxVars, txVars>>

\* peek moves nothing.
peek ==
  /\ call = "peek" /\ pc = "sized"
  /\ IF val = 0 THEN Return(-1, <<>>) ELSE Return(1, Unread(RX_RD, 1))
  /\ UNCHANGED <<sr, rxVars, txVars>>

-----------------------------------------------------------------------------
(* Sending. *)

ret == Min({len, BufSize})

\* Mutants of Fits: a byte too many is believed to fit; a full-size packet never is.
FitsAlmost == val + 1 >= ret
FitsWithRoom == val > ret

\* The loop of send goes on while freesize < ret.
Fits == val >= ret

\* send: the status is read after the size, and a dead connection ends the loop with
\* nothing to copy; SEND is given all the same.
sendStatus ==
  /\ call = "send" /\ pc = "sized"
  /\ \/ /\ sr = "CLOSED" /\ pc' = "wait" /\ UNCHANGED <<txVars, sizeVars>>
     \/ /\ sr # "CLOSED" /\ ~Fits /\ SizeLoop /\ held' = TX_FSR /\ UNCHANGED txVars
     \/ /\ sr # "CLOSED" /\ Fits /\ pc' = "status" /\ UNCHANGED <<txVars, sizeVars>>
  /\ UNCHANGED <<sr, rxVars, call, len, got, result>>

\* W5500_send_data_processing_offset, and the SEND command, which a closed socket
\* ignores.
sendData ==
  LET At(c) == {k \in 1 .. ret : Cell(TX_WR + k - 1) = c} IN
  /\ call = "send" /\ pc = "status" /\ pc' = "wait"
  /\ txMem' = [c \in DOMAIN txMem |->
                 IF At(c) = {} THEN txMem[c] ELSE (Start + given + Max(At(c)) - 1) % Mod]
  /\ TX_WR' = (TX_WR + ret) % Mod
  /\ IF sr = "CLOSED" THEN UNCHANGED <<TX_FSR, given>>
     ELSE TX_FSR' = TX_FSR - ret /\ given' = given + ret
  /\ UNCHANGED <<sr, rxVars, TX_RD, ir, wire, call, len, sizeVars, got, result>>

\* SEND_OK has come: it is cleared and send returns what it has sent.
sendDone ==
  /\ call = "send" /\ pc = "wait" /\ ir = 1
  /\ ir' = 0 /\ Return(ret, <<>>)
  /\ UNCHANGED <<sr, rxVars, TX_FSR, TX_RD, TX_WR, txMem, wire, given>>

sendNotYet ==
  /\ call = "send" /\ pc = "wait" /\ ir = 0 /\ pc' = "wait_status"
  /\ UNCHANGED <<sr, rxVars, txVars, call, len, sizeVars, got, result>>

\* The status decides: close and return 0, or look at SnIR again.
sendWaitStatus ==
  /\ call = "send" /\ pc = "wait_status"
  /\ IF sr = "CLOSED" THEN ir' = 0 /\ Return(0, <<>>)
     ELSE /\ pc' = "wait"
          /\ UNCHANGED <<ir, call, len, sizeVars, got, result>>
  /\ UNCHANGED <<sr, rxVars, TX_FSR, TX_RD, TX_WR, txMem, wire, given>>

-----------------------------------------------------------------------------
(* The chip, the network and the peer. *)

\* A byte of the peer goes into the cell behind the unread ones.
PeerByte ==
  /\ sr = "ESTABLISHED" /\ came < MaxIn /\ RX_RSR < BufSize
  /\ rxMem' = [rxMem EXCEPT ![Cell(RX_RD + RX_RSR)] = (Start + came) % Mod]
  /\ RX_RSR' = RX_RSR + 1 /\ came' = came + 1
  /\ UNCHANGED <<sr, RX_RD, txVars, call, pc, len, sizeVars, got, result>>

PeerFin ==
  /\ sr = "ESTABLISHED" /\ sr' = "CLOSE_WAIT"
  /\ UNCHANGED <<rxVars, txVars, call, pc, len, sizeVars, got, result>>

\* An RST, or the chip giving up.
Reset ==
  /\ sr # "CLOSED" /\ sr' = "CLOSED"
  /\ UNCHANGED <<rxVars, txVars, call, pc, len, sizeVars, got, result>>

\* Bytes behind a SEND that have not left, and bytes that left without an answer.
Queued == (TX_WR - TX_RD) % Mod
Unanswered == BufSize - TX_FSR - Queued

Leave ==
  /\ sr # "CLOSED" /\ Queued > 0
  /\ wire' = <<txMem[Cell(TX_RD)]>> /\ TX_RD' = (TX_RD + 1) % Mod
  /\ ir' = IF Queued = 1 THEN 1 ELSE ir
  /\ UNCHANGED <<sr, rxVars, TX_FSR, TX_WR, txMem, given,
                 call, pc, len, sizeVars, got, result>>

Acknowledge ==
  /\ sr # "CLOSED"
  /\ \E n \in 1 .. Unanswered : TX_FSR' = TX_FSR + n
  /\ UNCHANGED <<sr, rxVars, TX_RD, TX_WR, txMem, ir, wire, given,
                 call, pc, len, sizeVars, got, result>>

-----------------------------------------------------------------------------
Call == \/ EthernetClient_available \/ EthernetClient_read_buf
        \/ EthernetClient_peek \/ EthernetClient_write
Continue == \/ getSize \/ AvailableReturns \/ recv \/ recvNoData \/ recvStatus \/ peek
            \/ sendStatus \/ sendData \/ sendDone \/ sendNotYet \/ sendWaitStatus
Next == \/ Call \/ Continue
        \/ PeerByte \/ PeerFin \/ Reset \/ Leave \/ Acknowledge

\* The chip retransmits what the peer has not acknowledged until it does, or gives
\* up and closes the socket.
Delivery == Leave \/ Acknowledge \/ (Queued + Unanswered > 0 /\ Reset)

Spec == Init /\ [][Next]_vars /\ WF_vars(Continue) /\ WF_vars(Delivery)

-----------------------------------------------------------------------------
(* W5500_getXXSize answers 0 or a size the register really had since the call
   began, never one made of the halves of two different sizes; and the exact
   one when the chip changed nothing meanwhile, which is what accept relies on
   for a socket in CLOSE_WAIT. (A 0 can be wrong: 255 becoming 256 between the
   frames reads as 0 and is not read again.) *)
SizeIsGenuine ==
  pc = "sized" => /\ val = 0 \/ (held <= val /\ val <= Register)
                  /\ Register = held => val = held

(* The bytes of either direction arrive as they were sent, whatever happens
   between two register accesses and wherever the pointers wrap. *)
Service == INSTANCE ByteStream WITH
  Mod <- Mod, Capacity <- BufSize,
  arrived <- (Start + came) % Mod, in <- Unread(RX_RD, RX_RSR),
  given <- (Start + given) % Mod, wire <- wire, got <- got,
  out <- IF sr = "CLOSED" THEN <<>>
         ELSE [k \in 1 .. Queued |-> txMem[Cell(TX_RD + k - 1)]]
ImplementsByteStream == Service!Spec

(* Every call returns: the size loops see at most as many sizes as the buffer
   has cells, and send leaves both of its loops when the peer acknowledges or
   the connection is gone. *)
TransfersEnd == pc # "idle" ~> pc = "idle"
=============================================================================
