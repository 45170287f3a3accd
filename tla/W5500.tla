------------------------------- MODULE W5500 -------------------------------
(***************************************************************************)
(* One TCP socket of the W5500, seen through the registers the driver      *)
(* reads and writes (Ethernet/W5500/w5500.h, w5500.c), together with the   *)
(* TCP peer on the wire.  The chip is hardware and not in the repository:  *)
(* what it does is taken from how socket.c uses it and from the register   *)
(* descriptions in w5500.h.  The peer is the environment: at any moment it *)
(* may connect, send, half-close, reset, acknowledge or fall silent.       *)
(*                                                                         *)
(* A byte of data is the pair <<connection, index>>: index 1, 2, ... for   *)
(* the bytes the client sends, 0 for the banner of the server.             *)
(***************************************************************************)
EXTENDS Integers, Sequences

CONSTANTS
  MaxConn,   \* bound: connections the peer opens in one behaviour
  MaxBytes,  \* bound: bytes the peer sends on one connection
  TxMax,     \* size of the socket's transmit buffer (getSn_TxMAX)
  RxMax      \* size of the socket's receive buffer (getSn_RxMAX)

ASSUME ChipAssumption ==
  /\ MaxConn \in Nat
  /\ MaxBytes \in Nat
  /\ TxMax \in Nat \ {0}
  /\ RxMax \in Nat \ {0}

VARIABLES
  sipr,    \* the source IP register holds a non-zero address
  sr,      \* Sn_SR, the status of the socket
  cr,      \* Sn_CR, the command register: "NONE" once the command is accepted
  ir,      \* Sn_IR, the interrupt bits send() and disconnect() look at
  rx,      \* bytes in the receive buffer that RECV has not released
  rd,      \* bytes of rx the driver moved Sn_RX_RD past, released by RECV
  staged,  \* bytes between Sn_TX_RD and Sn_TX_WR that no SEND covers yet
  tx,      \* bytes under way: covered by a SEND, not acknowledged by the peer
  okDue,   \* a SEND was accepted and its SENDOK is not raised yet
  conn,    \* number of the latest connection
  sent,    \* how many bytes the peer has sent on it
  got      \* the bytes the peer has received on it

chipVars == <<sipr, sr, cr, ir, rx, rd, staged, tx, okDue, conn, sent, got>>

Status == {"CLOSED", "INIT", "LISTEN", "SYNSENT", "SYNRECV", "ESTABLISHED",
           "CLOSE_WAIT", "FIN_WAIT", "LAST_ACK"}
Command == {"OPEN", "LISTEN", "CONNECT", "DISCON", "CLOSE", "SEND", "RECV"}
Interrupt == {"SENDOK", "TIMEOUT"}
Byte == Nat \X Nat

\* The statuses in which send() and wiztoe_close see a live connection.
Connected == {"ESTABLISHED", "CLOSE_WAIT"}

\* Sn_RX_RSR and Sn_TX_FSR as the driver reads them.
RX_RSR == Len(rx) - rd
TX_FSR == TxMax - Len(tx) - Len(staged)

ChipTypeOK ==
  /\ sipr \in BOOLEAN
  /\ sr \in Status
  /\ cr \in Command \cup {"NONE"}
  /\ ir \in SUBSET Interrupt
  /\ rx \in Seq(Byte)
  /\ rd \in 0..Len(rx)
  /\ staged \in Seq(Byte)
  /\ tx \in Seq(Byte)
  /\ okDue \in BOOLEAN
  /\ conn \in Nat
  /\ sent \in Nat
  /\ got \in Seq(Byte)

\* Power-on; sipr tells whether network initialisation wrote an address.
ChipInit ==
  /\ sipr \in BOOLEAN
  /\ sr = "CLOSED" /\ cr = "NONE" /\ ir = {}
  /\ rx = <<>> /\ rd = 0 /\ staged = <<>> /\ tx = <<>> /\ okDue = FALSE
  /\ conn = 0 /\ sent = 0 /\ got = <<>>

-----------------------------------------------------------------------------
(* The command processor: each action accepts the command in Sn_CR.        *)

Accept(command) == cr = command /\ cr' = "NONE"

\* OPEN starts a TCP socket with empty buffers.
ChipOpen ==
  /\ Accept("OPEN")
  /\ sr' = "INIT"
  /\ rx' = <<>> /\ rd' = 0 /\ staged' = <<>> /\ tx' = <<>>
  /\ okDue' = FALSE
  /\ UNCHANGED <<sipr, ir, conn, sent, got>>

ChipListen ==
  /\ Accept("LISTEN")
  /\ sr' = IF sr = "INIT" THEN "LISTEN" ELSE sr
  /\ UNCHANGED <<sipr, ir, rx, rd, staged, tx, okDue, conn, sent, got>>

\* CLOSE drops the connection whatever its state.
ChipClose ==
  /\ Accept("CLOSE")
  /\ sr' = "CLOSED"
  /\ UNCHANGED <<sipr, ir, rx, rd, staged, tx, okDue, conn, sent, got>>

\* DISCON sends a FIN: the active close of a connection or the passive one.
ChipDiscon ==
  /\ Accept("DISCON")
  /\ sr' = IF sr = "ESTABLISHED" THEN "FIN_WAIT"
           ELSE IF sr = "CLOSE_WAIT" THEN "LAST_ACK" ELSE sr
  /\ UNCHANGED <<sipr, ir, rx, rd, staged, tx, okDue, conn, sent, got>>

\* SEND puts what was staged on the wire; a closed socket sends nothing.
ChipSend ==
  /\ Accept("SEND")
  /\ IF sr \in Connected
       THEN tx' = tx \o staged /\ staged' = <<>> /\ okDue' = TRUE
       ELSE UNCHANGED <<tx, staged, okDue>>
  /\ UNCHANGED <<sipr, sr, ir, rx, rd, conn, sent, got>>

\* RECV gives the bytes before Sn_RX_RD back to the receive window.
ChipRecv ==
  /\ Accept("RECV")
  /\ rx' = SubSeq(rx, rd + 1, Len(rx))
  /\ rd' = 0
  /\ UNCHANGED <<sipr, sr, ir, staged, tx, okDue, conn, sent, got>>

\* A SEND is complete.  The data may still wait for its acknowledgement, so
\* that Sn_TX_FSR frees up before or after the interrupt.
ChipSendOk ==
  /\ okDue
  /\ sr \in Connected \cup {"FIN_WAIT", "LAST_ACK"}
  /\ okDue' = FALSE
  /\ ir' = ir \cup {"SENDOK"}
  /\ UNCHANGED <<sipr, sr, cr, rx, rd, staged, tx, conn, sent, got>>

Chip == \/ ChipOpen \/ ChipListen \/ ChipClose
        \/ ChipDiscon \/ ChipSend \/ ChipRecv \/ ChipSendOk

-----------------------------------------------------------------------------
(* The network and the peer.                                               *)

PeerConnect ==
  /\ sr = "LISTEN"
  /\ conn < MaxConn
  /\ sr' = "SYNRECV"
  /\ conn' = conn + 1 /\ sent' = 0 /\ got' = <<>>
  /\ UNCHANGED <<sipr, cr, ir, rx, rd, staged, tx, okDue>>

PeerHandshake ==
  /\ sr = "SYNRECV"
  /\ sr' = "ESTABLISHED"
  /\ UNCHANGED <<sipr, cr, ir, rx, rd, staged, tx, okDue, conn, sent, got>>

PeerData ==
  /\ sr = "ESTABLISHED"
  /\ sent < MaxBytes
  /\ Len(rx) < RxMax
  /\ sent' = sent + 1
  /\ rx' = Append(rx, <<conn, sent + 1>>)
  /\ UNCHANGED <<sipr, sr, cr, ir, rd, staged, tx, okDue, conn, got>>

\* The peer has no more to send.  It still receives in CLOSE_WAIT.
PeerFin ==
  /\ sr = "ESTABLISHED"
  /\ sr' = "CLOSE_WAIT"
  /\ UNCHANGED <<sipr, cr, ir, rx, rd, staged, tx, okDue, conn, sent, got>>

\* The peer receives and acknowledges what is under way.
PeerAck ==
  /\ sr \in Connected \cup {"FIN_WAIT", "LAST_ACK"}
  /\ tx # <<>>
  /\ got' = got \o tx
  /\ tx' = <<>>
  /\ UNCHANGED <<sipr, sr, cr, ir, rx, rd, staged, okDue, conn, sent>>

\* The peer's last ACK (after its own FIN when the server closed first).
PeerFinAck ==
  /\ sr \in {"FIN_WAIT", "LAST_ACK"}
  /\ tx = <<>>
  /\ sr' = "CLOSED"
  /\ UNCHANGED <<sipr, cr, ir, rx, rd, staged, tx, okDue, conn, sent, got>>

PeerReset ==
  /\ sr \in Connected \cup {"SYNRECV", "FIN_WAIT", "LAST_ACK"}
  /\ sr' = "CLOSED"
  /\ UNCHANGED <<sipr, cr, ir, rx, rd, staged, tx, okDue, conn, sent, got>>

\* Retransmission gives up on a SYN/ACK, on data or on a FIN (TCPTO).
TcpTimeout ==
  /\ \/ sr \in {"SYNRECV", "FIN_WAIT", "LAST_ACK"}
     \/ sr \in Connected /\ tx # <<>>
  /\ sr' = "CLOSED"
  /\ ir' = ir \cup {"TIMEOUT"}
  /\ UNCHANGED <<sipr, cr, rx, rd, staged, tx, okDue, conn, sent, got>>

\* What TCP resolves in bounded time: an open handshake, data or a FIN under
\* way is acknowledged or times out.
NetworkResolves == PeerHandshake \/ PeerAck \/ PeerFinAck \/ TcpTimeout

Peer == NetworkResolves \/ PeerConnect \/ PeerData \/ PeerFin \/ PeerReset
=============================================================================
