------------------------------ MODULE W5500Eth ------------------------------
(***************************************************************************)
(* The W5500 as a plain Ethernet MAC and PHY (socket 0 in MAC-RAW mode),   *)
(* as far as esp_eth_mac_w5500.c and esp_eth_phy_w5500.c rely on it.       *)
(*                                                                         *)
(* The chip stores a received frame as a header cell (two bytes), which    *)
(* holds the length, and its payload cells.  The driver finds a frame      *)
(* through RX_RD and frees the memory before RX_RD with the RECV command.  *)
(* Nothing marks a cell as a header: where no frame starts, the driver     *)
(* takes whatever lies there for a length.  SEND sends what was written    *)
(* since the SEND before as ONE frame.  A command is accepted before the   *)
(* next register access (the chip needs less than the time of one frame    *)
(* on the SPI bus).                                                        *)
(***************************************************************************)
EXTENDS Integers, Sequences

CONSTANTS
  MinPacket,     \* payload cells the driver expects at least (60 bytes)
  MaxPacket,     \* payload cells the driver accepts (ETH_MAX_PACKET_SIZE)
  FrameSizes,    \* payload cells of the frames the chip stores: no runts
  RxSize,        \* cells of socket 0's receive memory
  Span           \* lengths and sizes are uint16_t: they wrap at Span

ASSUME EthChipAssumption ==
  /\ MinPacket \in Nat \ {0} /\ MaxPacket \in Nat /\ MinPacket <= MaxPacket
  /\ RxSize \in Nat \ {0} /\ Span \in Nat /\ RxSize < Span /\ MaxPacket + 1 < Span
  /\ FrameSizes \subseteq MinPacket..(Span - 2) /\ FrameSizes # {}

VARIABLES
  sock,      \* socket 0: status, interrupt bits, receive and send memory
  simr,      \* SIMR: socket 0 may assert the INT pin
  mr,        \* Sn_MR: IPv4 multicast blocked, MAC filter on
  phy,       \* PHYCFGR: the link, reset and operation mode bits
  wire       \* history: the frames the chip has sent

ethChipVars == <<sock, simr, mr, phy, wire>>

(* astray: RX_RD has been moved to where no frame starts; the ring it is   *)
(* in is not followed any further, and OPEN starts anew.  lost, a history: *)
(* a RECV has not reached the chip, and none since has put it in step.     *)
EmptySock == [sr |-> "CLOSED", recv |-> FALSE, sent |-> FALSE, rxMem |-> <<>>,
              rxRd |-> 0, rxBase |-> 0, astray |-> FALSE, lost |-> FALSE,
              txMem |-> <<>>, sendQ |-> <<>>]
ModeBits == [block : BOOLEAN, filter : BOOLEAN]

Cell == [frame : Nat, part : Nat, len : Nat]
FrameCells(i, n) == [k \in 1..(n + 1) |-> [frame |-> i, part |-> k - 1, len |-> n + 1]]
Payload(i, n) == Tail(FrameCells(i, n))

ChipTypeOK ==
  /\ sock \in [sr : {"CLOSED", "MACRAW"}, recv : BOOLEAN, sent : BOOLEAN,
               rxMem : Seq(Cell), rxRd : Nat, rxBase : Nat,
               astray : BOOLEAN, lost : BOOLEAN, txMem : Seq(Nat), sendQ : Seq(Seq(Nat))]
  /\ simr \in BOOLEAN /\ mr \in ModeBits
  /\ phy \in [link : BOOLEAN, reset : BOOLEAN, opmode : {"all", "forced"}]
  /\ wire \in Seq(Seq(Nat))

(* Sn_RX_RSR, and the INT pin: only the RECV bit is in Sn_IMR.             *)
Word     == 0..(Span - 1)
Received == Len(sock.rxMem) - sock.rxBase
Sizes    == IF sock.astray THEN Word ELSE {Received}
IntLow   == simr /\ sock.recv

(* What the driver may find as a header at an offset: the length of the    *)
(* frame that starts there, or anything (what frames before have left).    *)
FrameAt(o) == o < Len(sock.rxMem) /\ sock.rxMem[o + 1].part = 0
HeadersAt(o) == IF FrameAt(o) /\ ~sock.astray THEN {sock.rxMem[o + 1].len} ELSE Word
Stale == [frame |-> 0, part |-> 0, len |-> 0]
MemoryAt(o, n) ==
  [k \in 1..n |-> IF o + k <= Len(sock.rxMem) /\ ~sock.astray THEN sock.rxMem[o + k]
                  ELSE Stale]

(* RX_RD is written. *)
MovedTo(o) ==
  IF ~sock.astray /\ (FrameAt(o) \/ o = Len(sock.rxMem)) THEN [sock EXCEPT !.rxRd = o]
  ELSE [sock EXCEPT !.astray = TRUE]

(* What a command does.  OPEN starts socket 0 with empty memories. *)
AfterOpen  == [EmptySock EXCEPT !.sr = "MACRAW", !.recv = sock.recv, !.sent = sock.sent]
AfterClose == [sock EXCEPT !.sr = "CLOSED", !.sendQ = <<>>]
AfterRecv  == [sock EXCEPT !.rxBase = sock.rxRd, !.lost = @ /\ sock.astray]
RecvLost   == [sock EXCEPT !.lost = TRUE]
AfterSend  == [sock EXCEPT !.sendQ = Append(@, sock.txMem), !.txMem = <<>>]

(* A frame arrives, if it fits, and sets the RECV bit. *)
FrameArrives(i, n) ==
  /\ sock.sr = "MACRAW" /\ phy.link
  /\ sock.astray \/ Received + n + 1 <= RxSize
  /\ sock' = [sock EXCEPT !.rxMem = @ \o FrameCells(i, n), !.recv = TRUE]
  /\ UNCHANGED <<simr, mr, phy, wire>>

(* The oldest SEND has left the chip. *)
FrameSent ==
  /\ sock.sendQ # <<>> /\ phy.link
  /\ wire' = Append(wire, Head(sock.sendQ))
  /\ sock' = [sock EXCEPT !.sendQ = Tail(@), !.sent = TRUE]
  /\ UNCHANGED <<simr, mr, phy>>

(* The PHY negotiates when it is out of reset; the cable may be pulled. *)
LinkUp ==
  /\ ~phy.link /\ ~phy.reset
  /\ phy' = [phy EXCEPT !.link = TRUE]
  /\ UNCHANGED <<sock, simr, mr, wire>>
LinkDown ==
  /\ phy.link
  /\ phy' = [phy EXCEPT !.link = FALSE]
  /\ UNCHANGED <<sock, simr, mr, wire>>
=============================================================================
