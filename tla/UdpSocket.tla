----------------------------- MODULE UdpSocket -----------------------------
(***************************************************************************)
(* The datagram functions of ioLibrary_Driver/Ethernet/socket.c on one     *)
(* blocking UDP socket: socket, close, sendto and recvfrom, with the       *)
(* buffer transfers of w5500.c they are built from.  As in IoLibrary, a    *)
(* function is running while io # "idle", and waiting for Sn_CR is a guard *)
(* on cr.  wiz_send_data, wiz_recv_data and the command after them are one *)
(* step: the chip looks at their pointers only when it gets the command.   *)
(***************************************************************************)
EXTENDS W5500Udp

VARIABLES
  io,        \* where the running function is
  ioRet,     \* what the last function returned
  remained,  \* sock_remained_size: payload of a datagram not yet handed out
  packInfo,  \* sock_pack_info, as a set of flags
  head,      \* recvfrom: the header
  buf,       \* sendto: the caller's data; recvfrom: the data copied to it
  len,       \* the length argument
  peer,      \* sendto: the address argument; recvfrom: the address returned
  port       \* the same for the port, told apart only as 0 or not

udpIoVars == <<io, ioRet, remained, packInfo, head, buf, len, peer, port>>

sn == 0
SOCK_OK == 1
SOCKERR_SOCKCLOSED == -4
SOCKERR_SOCKSTATUS == -7
SOCKERR_PORTZERO == -11
SOCKERR_IPINVALID == -12
SOCKERR_TIMEOUT == -13
SOCKERR_DATALEN == -14

Least(a, b) == IF a <= b THEN a ELSE b

UdpIoInit ==
  /\ io = "idle" /\ ioRet = SOCK_OK /\ remained = 0 /\ packInfo = {}
  /\ head = Empty /\ buf = <<>> /\ len = 0 /\ peer = 0 /\ port = 0

-----------------------------------------------------------------------------
UdpGoto(label) == io' = label /\ UNCHANGED ioRet
UdpReturn(v) == io' = "idle" /\ ioRet' = v

\* Mutant: Sn_TX_WR is not moved.
WizSendDataAgain(cells) ==
  /\ txMem' = Written(txMem, TxSize, txWr, cells)
  /\ UNCHANGED txWr

\* wiz_send_data(sn, cells, n)
WizSendData(cells) ==
  /\ txMem' = Written(txMem, TxSize, txWr, cells)
  /\ txWr' = Forward(txWr, Len(cells))

\* Mutant: the pointer is not taken modulo its range.
ReadToUnwrapped(n) == rxRd' = rxRd + n

\* wiz_recv_data(sn, .., n) moves Sn_RX_RD behind what it has read.
ReadTo(n) == rxRd' = Forward(rxRd, n)

-----------------------------------------------------------------------------
(* close(sn)                                                               *)

UdpClose ==
  /\ io \in {"close", "socket"}
  /\ cr' = "CLOSE"
  /\ UdpGoto(IF io = "close" THEN "close.wait" ELSE "socket.closed")
  /\ UNCHANGED <<sr, ir, multi, joined, dst, rxVars, rxRd, txMem, txRd, txWr,
                 busy, arrived, out>>
  /\ UNCHANGED <<remained, packInfo, head, buf, len, peer, port>>

UdpClosed ==
  /\ io \in {"close.wait", "socket.closed"} /\ cr = "NONE" /\ sr = "CLOSED"
  /\ ir' = {} /\ remained' = 0 /\ packInfo' = {}
  /\ IF io = "close.wait" THEN UdpReturn(SOCK_OK) ELSE UdpGoto("socket.open")
  /\ UNCHANGED <<sr, cr, multi, joined, dst, rxVars, rxRd, txMem, txRd, txWr,
                 busy, arrived, out>>
  /\ UNCHANGED <<head, buf, len, peer, port>>

(* socket(sn, Sn_MR_UDP [| SF_MULTI_ENABLE], port, 0): after its close(sn) *)

\* Sn_MR is written here too; the caller chose it when it made the call.
UdpOpen ==
  /\ io = "socket.open"
  /\ cr' = "OPEN"
  /\ UdpGoto("socket.wait")
  /\ UNCHANGED <<sr, ir, multi, joined, dst, rxVars, rxRd, txMem, txRd, txWr,
                 busy, arrived, out>>
  /\ UNCHANGED <<remained, packInfo, head, buf, len, peer, port>>

UdpOpened ==
  /\ io = "socket.wait" /\ cr = "NONE" /\ sr # "CLOSED"
  /\ remained' = 0 /\ packInfo' = {}
  /\ UdpReturn(sn)
  /\ UNCHANGED udpChipVars
  /\ UNCHANGED <<head, buf, len, peer, port>>

-----------------------------------------------------------------------------
(* sendto(sn, buf, len, addr, port)                                        *)

\* The checks, in their order.  The address is in Sn_DIPR before the port is
\* looked at.
SendtoBegin ==
  /\ io = "sendto"
  /\ dst' = peer
  /\ len' = Least(len, TxSize)
  /\ IF port = 0 THEN UdpReturn(SOCKERR_PORTZERO)
     ELSE IF len = 0 THEN UdpReturn(SOCKERR_DATALEN)
     ELSE IF peer = 0 THEN UdpReturn(SOCKERR_IPINVALID)
     ELSE IF sr # "UDP" THEN UdpReturn(SOCKERR_SOCKSTATUS)
     ELSE UdpGoto("sendto.data")
  /\ UNCHANGED <<sr, cr, ir, multi, joined, rxVars, rxRd, txMem, txRd, txWr,
                 busy, arrived, out>>
  /\ UNCHANGED <<remained, packInfo, head, buf, peer, port>>

\* The loop over Sn_TX_FSR and Sn_SR, wiz_send_data and SEND.
SendtoData ==
  /\ io = "sendto.data"
  /\ \/ sr = "CLOSED" /\ UdpReturn(SOCKERR_SOCKCLOSED)
        /\ UNCHANGED <<cr, txMem, txWr>>
     \/ /\ sr # "CLOSED" /\ len <= TX_FSR
        /\ WizSendData(SubSeq(buf, 1, len))
        /\ cr' = "SEND"
        /\ UdpGoto("sendto.wait")
  /\ UNCHANGED <<sr, ir, multi, joined, dst, rxVars, rxRd, txRd, busy, arrived,
                 out>>
  /\ UNCHANGED <<remained, packInfo, head, buf, len, peer, port>>

\* Mutant: only SENDOK ends the wait.
SendtoAnswerOkOnly ==
  /\ io = "sendto.wait" /\ cr = "NONE"
  /\ "SENDOK" \in ir /\ ir' = ir \ {"SENDOK"} /\ UdpReturn(len)
  /\ UNCHANGED <<sr, cr, multi, joined, dst, rxVars, rxRd, txMem, txRd, txWr,
                 busy, arrived, out>>
  /\ UNCHANGED <<remained, packInfo, head, buf, len, peer, port>>

\* Mutant: the ARP timeout is reported but not cleared.
SendtoAnswerKept ==
  /\ io = "sendto.wait" /\ cr = "NONE"
  /\ \/ "SENDOK" \in ir /\ ir' = ir \ {"SENDOK"} /\ UdpReturn(len)
     \/ /\ "SENDOK" \notin ir /\ "TIMEOUT" \in ir
        /\ UNCHANGED ir /\ UdpReturn(SOCKERR_TIMEOUT)
  /\ UNCHANGED <<sr, cr, multi, joined, dst, rxVars, rxRd, txMem, txRd, txWr,
                 busy, arrived, out>>
  /\ UNCHANGED <<remained, packInfo, head, buf, len, peer, port>>

\* The answer to this datagram: sent, or no one there.
SendtoAnswer ==
  /\ io = "sendto.wait" /\ cr = "NONE"
  /\ \/ "SENDOK" \in ir /\ ir' = ir \ {"SENDOK"} /\ UdpReturn(len)
     \/ /\ "SENDOK" \notin ir /\ "TIMEOUT" \in ir
        /\ ir' = ir \ {"TIMEOUT"} /\ UdpReturn(SOCKERR_TIMEOUT)
  /\ UNCHANGED <<sr, cr, multi, joined, dst, rxVars, rxRd, txMem, txRd, txWr,
                 busy, arrived, out>>
  /\ UNCHANGED <<remained, packInfo, head, buf, len, peer, port>>

-----------------------------------------------------------------------------
(* recvfrom(sn, buf, len, addr, port)                                      *)

\* With the rest of a datagram at hand the header is skipped, and addr and
\* port are not written.
RecvfromBegin ==
  /\ io = "recvfrom"
  /\ \/ len = 0 /\ UdpReturn(SOCKERR_DATALEN)
     \/ len # 0 /\ remained # 0 /\ UdpGoto("recvfrom.data")
     \/ len # 0 /\ remained = 0 /\ sr = "CLOSED" /\ UdpReturn(SOCKERR_SOCKCLOSED)
     \/ len # 0 /\ remained = 0 /\ sr # "CLOSED" /\ RX_RSR # 0
        /\ UdpGoto("recvfrom.head")
  /\ UNCHANGED udpChipVars
  /\ UNCHANGED <<remained, packInfo, head, buf, len, peer, port>>

RecvfromHead ==
  /\ io = "recvfrom.head"
  /\ head' = Cells(rxMem, RxSize, rxRd, 1)[1]
  /\ ReadTo(1)
  /\ cr' = "RECV"
  /\ UdpGoto("recvfrom.size")
  /\ UNCHANGED <<sr, ir, multi, joined, dst, rxVars, txMem, txRd, txWr, busy,
                 arrived, out>>
  /\ UNCHANGED <<remained, packInfo, buf, len, peer, port>>

RecvfromSize ==
  /\ io = "recvfrom.size" /\ cr = "NONE"
  /\ peer' = head[2] /\ port' = 1
  /\ remained' = head[3]
  /\ packInfo' = {"FIRST"}
  /\ head' = Empty
  /\ UdpGoto("recvfrom.data")
  /\ UNCHANGED udpChipVars
  /\ UNCHANGED <<buf, len>>

RecvfromData ==
  /\ io = "recvfrom.data"
  /\ buf' = Cells(rxMem, RxSize, rxRd, Least(len, remained))
  /\ ReadTo(Len(buf'))
  /\ cr' = "RECV"
  /\ UdpGoto("recvfrom.done")
  /\ UNCHANGED <<sr, ir, multi, joined, dst, rxVars, txMem, txRd, txWr, busy,
                 arrived, out>>
  /\ UNCHANGED <<remained, packInfo, head, len, peer, port>>

\* Mutant: what does not fit the caller's buffer is forgotten.
RecvfromDoneForgets ==
  /\ io = "recvfrom.done" /\ cr = "NONE"
  /\ remained' = 0
  /\ packInfo' = {}
  /\ UdpReturn(Len(buf))
  /\ UNCHANGED udpChipVars
  /\ UNCHANGED <<head, buf, len, peer, port>>

\* PACK_REMAINED is added to what is there, PACK_COMPLETED (0) replaces it.
RecvfromDone ==
  /\ io = "recvfrom.done" /\ cr = "NONE"
  /\ remained' = remained - Len(buf)
  /\ packInfo' = IF remained' # 0 THEN packInfo \cup {"REMAINED"} ELSE {}
  /\ UdpReturn(Len(buf))
  /\ UNCHANGED udpChipVars
  /\ UNCHANGED <<head, buf, len, peer, port>>

UdpSocketC ==
  \/ UdpClose \/ UdpClosed \/ UdpOpen \/ UdpOpened
  \/ SendtoBegin \/ SendtoData \/ SendtoAnswer
  \/ RecvfromBegin \/ RecvfromHead \/ RecvfromSize \/ RecvfromData
  \/ RecvfromDone
=============================================================================
