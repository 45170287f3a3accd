------------------------------ MODULE W5500Udp ------------------------------
(***************************************************************************)
(* One UDP socket of the W5500: its buffers as the memory they are.  The   *)
(* pointers Sn_RX_RD, Sn_RX_WR, Sn_TX_RD and Sn_TX_WR count modulo PtrMod  *)
(* (2^16 on the chip) and a buffer cell is addressed by its pointer modulo *)
(* the buffer size, so that data wraps around the end of a buffer and      *)
(* pointers wrap around the end of their range.                            *)
(*                                                                         *)
(* A received datagram lies in the buffer as a header (eight bytes on the  *)
(* chip, one cell here) that tells its source and size, and its payload.   *)
(* Like W5500 this is hardware, taken from how socket.c uses it.           *)
(***************************************************************************)
EXTENDS Integers, Sequences

CONSTANTS
  PtrMod,        \* range of a buffer pointer
  RxSize,        \* cells of the receive buffer
  TxSize,        \* cells of the transmit buffer
  Start,         \* where OPEN sets the pointers
  Sources,       \* bound: addresses datagrams come from, and 0 is none of them
  MaxSize,       \* bound: the largest payload
  MaxDatagrams   \* bound: datagrams that reach the socket

ASSUME UdpChipAssumption ==
  /\ PtrMod \in Nat /\ RxSize \in Nat \ {0} /\ TxSize \in Nat \ {0}
  /\ RxSize < PtrMod /\ PtrMod % RxSize = 0
  /\ TxSize < PtrMod /\ PtrMod % TxSize = 0
  /\ Start \in 0..PtrMod - 1
  /\ Sources \subseteq Nat \ {0}
  /\ MaxSize \in Nat /\ MaxDatagrams \in Nat

VARIABLES
  sr, cr, ir,   \* status, command and interrupt registers
  multi,        \* Sn_MR has the multicast bit
  joined,       \* the group joined by OPEN, 0 if none
  dst,          \* Sn_DIPR and Sn_DPORT
  rxMem,        \* the receive buffer
  rxWr,         \* where the chip writes next
  rxRd,         \* Sn_RX_RD, moved by the driver
  rxRel,        \* Sn_RX_RD as of the last RECV: cells before it are free
  txMem,        \* the transmit buffer
  txRd, txWr,   \* Sn_TX_RD, moved by the chip, and Sn_TX_WR, by the driver
  busy,         \* a SEND is under way (ARP, then the datagram)
  arrived,      \* history: source and size of the datagrams received
  out           \* history: destination and payload of those that left
                \* (but for datagrams of its own the application numbers 0)

rxVars == <<rxMem, rxWr, rxRel>>
udpChipVars == <<sr, cr, ir, multi, joined, dst, rxVars, rxRd, txMem, txRd,
                 txWr, busy, arrived, out>>

Empty == <<"empty", 0, 0>>
Header(from, size) == <<"header", from, size>>
Payload(d, k) == <<"data", d, k>>   \* cell k of datagram d
Datagram(d, from, size) ==
  <<Header(from, size)>> \o [k \in 1..size |-> Payload(d, k)]

Pointer == 0..PtrMod - 1
Forward(ptr, n) == (ptr + n) % PtrMod

\* The n cells from ptr on, as the buffer holds them.
Cells(mem, size, ptr, n) == [k \in 1..n |-> mem[(ptr + k - 1) % size]]
\* The buffer after cells were written from ptr on.
Written(mem, size, ptr, cells) ==
  [a \in 0..size - 1 |->
     LET k == ((a - ptr) % size) + 1
     IN  IF k <= Len(cells) THEN cells[k] ELSE mem[a]]

RX_RSR == (rxWr - rxRel) % PtrMod
TX_FSR == TxSize - ((txWr - txRd) % PtrMod)
Unread == Cells(rxMem, RxSize, rxRd, (rxWr - rxRd) % PtrMod)
Staged == Cells(txMem, TxSize, txRd, (txWr - txRd) % PtrMod)

UdpChipInit ==
  /\ sr = "CLOSED" /\ cr = "NONE" /\ ir = {} /\ multi = FALSE /\ joined = 0
  /\ dst = 0
  /\ rxMem = [a \in 0..RxSize - 1 |-> Empty] /\ rxWr = 0 /\ rxRd = 0 /\ rxRel = 0
  /\ txMem = [a \in 0..TxSize - 1 |-> Empty] /\ txRd = 0 /\ txWr = 0
  /\ busy = FALSE /\ arrived = <<>> /\ out = <<>>

-----------------------------------------------------------------------------
\* OPEN sets the pointers of a buffer equal.
UdpChipOpen ==
  /\ cr = "OPEN" /\ cr' = "NONE"
  /\ sr' = "UDP"
  /\ joined' = IF multi THEN dst ELSE 0
  /\ rxWr' = Start /\ rxRd' = Start /\ rxRel' = Start
  /\ txWr' = Start /\ txRd' = Start
  /\ UNCHANGED <<ir, multi, dst, rxMem, txMem, busy, arrived, out>>

UdpChipClose ==
  /\ cr = "CLOSE" /\ cr' = "NONE"
  /\ sr' = "CLOSED" /\ joined' = 0 /\ busy' = FALSE
  /\ UNCHANGED <<ir, multi, dst, rxVars, rxRd, txMem, txRd, txWr, arrived, out>>

UdpChipSend ==
  /\ cr = "SEND" /\ cr' = "NONE"
  /\ busy' = TRUE
  /\ UNCHANGED <<sr, ir, multi, joined, dst, rxVars, rxRd, txMem, txRd, txWr,
                 arrived, out>>

UdpChipRecv ==
  /\ cr = "RECV" /\ cr' = "NONE"
  /\ rxRel' = rxRd
  /\ UNCHANGED <<sr, ir, multi, joined, dst, rxMem, rxWr, rxRd, txMem, txRd,
                 txWr, busy, arrived, out>>

\* The datagram leaves for its destination.
UdpChipSent ==
  /\ busy
  /\ busy' = FALSE
  /\ ir' = ir \cup {"SENDOK"}
  /\ out' = IF Staged[1][2] = 0 THEN out ELSE Append(out, <<dst, Staged>>)
  /\ txRd' = txWr
  /\ UNCHANGED <<sr, cr, multi, joined, dst, rxVars, rxRd, txMem, txWr, arrived>>

\* Nobody answers the ARP request; the chip drops the datagram.
UdpChipArpTimeout ==
  /\ busy
  /\ busy' = FALSE
  /\ ir' = ir \cup {"TIMEOUT"}
  /\ txRd' = txWr
  /\ UNCHANGED <<sr, cr, multi, joined, dst, rxVars, rxRd, txMem, txWr, arrived,
                 out>>

UdpChip ==
  \/ UdpChipOpen \/ UdpChipClose \/ UdpChipSend \/ UdpChipRecv
  \/ UdpChipSent \/ UdpChipArpTimeout

\* A datagram arrives.  One that does not fit is lost, as one on the wire is:
\* neither leaves a trace.
Arrive ==
  /\ sr = "UDP"
  /\ Len(arrived) < MaxDatagrams
  /\ \E from \in Sources, size \in 0..MaxSize :
       /\ 1 + size <= RxSize - RX_RSR
       /\ arrived' = Append(arrived, <<from, size>>)
       /\ rxMem' = Written(rxMem, RxSize, rxWr,
                           Datagram(Len(arrived'), from, size))
       /\ rxWr' = Forward(rxWr, 1 + size)
  /\ UNCHANGED <<sr, cr, ir, multi, joined, dst, rxRd, rxRel, txMem, txRd, txWr,
                 busy, out>>
=============================================================================
