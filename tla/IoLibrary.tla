----------------------------- MODULE IoLibrary -----------------------------
(***************************************************************************)
(* The TCP functions of ioLibrary_Driver/Ethernet/socket.c on one socket,  *)
(* in blocking mode: socket, listen, disconnect, send, recv and close.     *)
(* One step is one register access (or one pass over registers nothing     *)
(* changes in between), so the chip and the peer act between any two reads *)
(* and writes.  A function is running while io # "idle"; io names the line *)
(* it has reached.  close() is also called from inside the others, and cl  *)
(* is its own place.  A wait `while (getSn_CR(sn))` is a guard on cr.      *)
(***************************************************************************)
EXTENDS W5500

VARIABLES
  io,       \* where the running socket.c function is
  cl,       \* where close() is
  ioRet,    \* what the last function returned, or will return once closed
  sending,  \* the socket's bit of sock_is_sending
  data,     \* send: the caller's buffer; recv: the bytes copied to it
  len,      \* the length argument of send and recv, capped by the buffer size
  size      \* the local freesize of send and recvsize of recv

ioVars == <<io, cl, ioRet, sending, data, len, size>>

SOCK_OK == 1
SOCK_BUSY == 0
SOCKERR_SOCKINIT == -3
SOCKERR_SOCKCLOSED == -4
SOCKERR_SOCKSTATUS == -7
SOCKERR_TIMEOUT == -13
sn == 0   \* the socket number, which is also the descriptor

MinOf(a, b) == IF a <= b THEN a ELSE b

IoTypeOK ==
  /\ io \in {"idle", "closing", "socket", "socket.open", "socket.flags",
             "socket.sr", "listen", "listen.sr", "disconnect",
             "disconnect.flag", "disconnect.sr", "disconnect.ir",
             "send", "send.ir", "send.fsr", "send.sr", "send.data", "send.cr",
             "recv", "recv.sr", "recv.data", "recv.cr"}
  /\ cl \in {"idle", "cmd", "ir", "sr"}
  /\ ioRet \in Int
  /\ sending \in BOOLEAN
  /\ data \in Seq(Byte)
  /\ len \in Nat
  /\ size \in Nat

IoInit ==
  /\ io = "idle" /\ cl = "idle" /\ ioRet = SOCK_OK /\ sending = FALSE
  /\ data = <<>> /\ len = 0 /\ size = 0

-----------------------------------------------------------------------------
(* Calls, steps and returns.                                               *)

\* Functions without a data argument.
Call(function) ==
  /\ io' = function
  /\ UNCHANGED <<cl, ioRet, sending, data, len, size>>

CallSend(bytes) ==
  /\ io' = "send" /\ data' = bytes /\ len' = Len(bytes)
  /\ UNCHANGED <<cl, ioRet, sending, size>>

CallRecv(n) ==
  /\ io' = "recv" /\ len' = n
  /\ UNCHANGED <<cl, ioRet, sending, data, size>>

CallClose ==
  /\ io' = "closing" /\ cl' = "cmd" /\ ioRet' = SOCK_OK
  /\ UNCHANGED <<sending, data, len, size>>

Goto(label) == io' = label /\ UNCHANGED <<cl, ioRet>>
Return(v) == io' = "idle" /\ ioRet' = v /\ UNCHANGED cl
CloseThenReturn(v) == io' = "closing" /\ cl' = "cmd" /\ ioRet' = v

\* At `label` with no call of close() running.
At(label) == io = label /\ cl = "idle"

-----------------------------------------------------------------------------
(* close()                                                                 *)

CloseCommand ==
  /\ cl = "cmd"
  /\ cr' = "CLOSE"
  /\ cl' = "ir"
  /\ UNCHANGED <<sipr, sr, ir, rx, rd, staged, tx, okDue, conn, sent, got>>
  /\ UNCHANGED <<io, ioRet, sending, data, len, size>>

\* Mutant: the interrupts are not cleared.
CloseClearFlags ==
  /\ cl = "ir" /\ cr = "NONE"
  /\ sending' = FALSE
  /\ cl' = "sr"
  /\ UNCHANGED chipVars
  /\ UNCHANGED <<io, ioRet, data, len, size>>

CloseClear ==
  /\ cl = "ir" /\ cr = "NONE"
  /\ ir' = {}
  /\ sending' = FALSE
  /\ cl' = "sr"
  /\ UNCHANGED <<sipr, sr, cr, rx, rd, staged, tx, okDue, conn, sent, got>>
  /\ UNCHANGED <<io, ioRet, data, len, size>>

CloseWait ==
  /\ cl = "sr" /\ sr = "CLOSED"
  /\ cl' = "idle"
  /\ UNCHANGED chipVars
  /\ UNCHANGED <<io, ioRet, sending, data, len, size>>

\* The caller of close() returns, with the result it chose before the call.
CloseReturn ==
  /\ At("closing")
  /\ Return(ioRet)
  /\ UNCHANGED chipVars
  /\ UNCHANGED <<sending, data, len, size>>

-----------------------------------------------------------------------------
(* socket(sn, Sn_MR_TCP, port, flag)                                       *)

SocketBegin ==
  /\ At("socket")
  /\ IF sipr THEN io' = "socket.open" /\ cl' = "cmd" /\ UNCHANGED ioRet
             ELSE Return(SOCKERR_SOCKINIT)
  /\ UNCHANGED chipVars
  /\ UNCHANGED <<sending, data, len, size>>

SocketOpen ==
  /\ At("socket.open")
  /\ cr' = "OPEN"
  /\ Goto("socket.flags")
  /\ UNCHANGED <<sipr, sr, ir, rx, rd, staged, tx, okDue, conn, sent, got>>
  /\ UNCHANGED <<sending, data, len, size>>

SocketFlags ==
  /\ At("socket.flags") /\ cr = "NONE"
  /\ sending' = FALSE
  /\ Goto("socket.sr")
  /\ UNCHANGED chipVars
  /\ UNCHANGED <<data, len, size>>

SocketWait ==
  /\ At("socket.sr") /\ sr # "CLOSED"
  /\ Return(sn)
  /\ UNCHANGED chipVars
  /\ UNCHANGED <<sending, data, len, size>>

-----------------------------------------------------------------------------
(* listen(sn)                                                              *)

ListenBegin ==
  /\ At("listen")
  /\ IF sr = "INIT" THEN cr' = "LISTEN" /\ Goto("listen.sr")
                    ELSE UNCHANGED cr /\ Return(SOCKERR_SOCKINIT)
  /\ UNCHANGED <<sipr, sr, ir, rx, rd, staged, tx, okDue, conn, sent, got>>
  /\ UNCHANGED <<sending, data, len, size>>

\* Any status but LISTEN is a failure, SYNRECV and ESTABLISHED included.
ListenCheck ==
  /\ At("listen.sr") /\ cr = "NONE"
  /\ IF sr = "LISTEN" THEN Return(SOCK_OK)
                      ELSE CloseThenReturn(SOCKERR_SOCKCLOSED)
  /\ UNCHANGED chipVars
  /\ UNCHANGED <<sending, data, len, size>>

-----------------------------------------------------------------------------
(* disconnect(sn): the last two steps are its wait for SOCK_CLOSED.        *)

DisconnectBegin ==
  /\ At("disconnect")
  /\ IF sr = "CLOSED" THEN UNCHANGED cr /\ Return(SOCK_OK)
                      ELSE cr' = "DISCON" /\ Goto("disconnect.flag")
  /\ UNCHANGED <<sipr, sr, ir, rx, rd, staged, tx, okDue, conn, sent, got>>
  /\ UNCHANGED <<sending, data, len, size>>

DisconnectFlag ==
  /\ At("disconnect.flag") /\ cr = "NONE"
  /\ sending' = FALSE
  /\ Goto("disconnect.sr")
  /\ UNCHANGED chipVars
  /\ UNCHANGED <<data, len, size>>

DisconnectStatus ==
  /\ At("disconnect.sr")
  /\ IF sr = "CLOSED" THEN Return(SOCK_OK) ELSE Goto("disconnect.ir")
  /\ UNCHANGED chipVars
  /\ UNCHANGED <<sending, data, len, size>>

DisconnectTimeout ==
  /\ At("disconnect.ir")
  /\ IF "TIMEOUT" \in ir THEN CloseThenReturn(SOCKERR_TIMEOUT)
                         ELSE Goto("disconnect.sr")
  /\ UNCHANGED chipVars
  /\ UNCHANGED <<sending, data, len, size>>

-----------------------------------------------------------------------------
(* send(sn, buf, len)                                                      *)

SendBegin ==
  /\ At("send")
  /\ IF sr \notin Connected THEN Return(SOCKERR_SOCKSTATUS)
     ELSE Goto(IF sending THEN "send.ir" ELSE "send.fsr")
  /\ UNCHANGED chipVars
  /\ UNCHANGED <<sending, data, len, size>>

\* The previous SEND must be complete before the next.
SendPrevious ==
  /\ At("send.ir")
  /\ \/ /\ "SENDOK" \in ir
        /\ ir' = ir \ {"SENDOK"}
        /\ sending' = FALSE
        /\ Goto("send.fsr")
     \/ /\ "SENDOK" \notin ir /\ "TIMEOUT" \in ir
        /\ CloseThenReturn(SOCKERR_TIMEOUT)
        /\ UNCHANGED <<ir, sending>>
     \/ /\ ir \cap {"SENDOK", "TIMEOUT"} = {}
        /\ Return(SOCK_BUSY)
        /\ UNCHANGED <<ir, sending>>
  /\ UNCHANGED <<sipr, sr, cr, rx, rd, staged, tx, okDue, conn, sent, got>>
  /\ UNCHANGED <<data, len, size>>

SendFreeSize ==
  /\ At("send.fsr")
  /\ len' = MinOf(len, TxMax)
  /\ size' = TX_FSR
  /\ Goto("send.sr")
  /\ UNCHANGED chipVars
  /\ UNCHANGED <<sending, data>>

\* Mutant: the free size is not looked at.
SendStatusUnchecked ==
  /\ At("send.sr")
  /\ IF sr \in Connected THEN Goto("send.data")
     ELSE IF sr = "CLOSED" THEN CloseThenReturn(SOCKERR_SOCKSTATUS)
     ELSE Return(SOCKERR_SOCKSTATUS)
  /\ UNCHANGED chipVars
  /\ UNCHANGED <<sending, data, len, size>>

\* Mutant: the loop does not read the free size again.
SendStatusStale ==
  /\ At("send.sr")
  /\ IF sr \in Connected THEN Goto(IF len <= size THEN "send.data" ELSE "send.sr")
     ELSE IF sr = "CLOSED" THEN CloseThenReturn(SOCKERR_SOCKSTATUS)
     ELSE Return(SOCKERR_SOCKSTATUS)
  /\ UNCHANGED chipVars
  /\ UNCHANGED <<sending, data, len, size>>

SendStatus ==
  /\ At("send.sr")
  /\ IF sr \in Connected THEN Goto(IF len <= size THEN "send.data" ELSE "send.fsr")
     ELSE IF sr = "CLOSED" THEN CloseThenReturn(SOCKERR_SOCKSTATUS)
     ELSE Return(SOCKERR_SOCKSTATUS)
  /\ UNCHANGED chipVars
  /\ UNCHANGED <<sending, data, len, size>>

\* wiz_send_data, then the SEND command: nobody looks at the buffer between.
SendData ==
  /\ At("send.data")
  /\ staged' = staged \o SubSeq(data, 1, len)
  /\ cr' = "SEND"
  /\ Goto("send.cr")
  /\ UNCHANGED <<sipr, sr, ir, rx, rd, tx, okDue, conn, sent, got>>
  /\ UNCHANGED <<sending, data, len, size>>

\* Mutant: sock_is_sending is not set.
SendAcceptedUnmarked ==
  /\ At("send.cr") /\ cr = "NONE"
  /\ Return(len)
  /\ UNCHANGED chipVars
  /\ UNCHANGED <<sending, data, len, size>>

\* Mutant: the command is not waited for.
SendAcceptedEarly ==
  /\ At("send.cr")
  /\ sending' = TRUE
  /\ Return(len)
  /\ UNCHANGED chipVars
  /\ UNCHANGED <<data, len, size>>

SendAccepted ==
  /\ At("send.cr") /\ cr = "NONE"
  /\ sending' = TRUE
  /\ Return(len)
  /\ UNCHANGED chipVars
  /\ UNCHANGED <<data, len, size>>

-----------------------------------------------------------------------------
(* recv(sn, buf, len)                                                      *)

RecvSize ==
  /\ At("recv")
  /\ len' = MinOf(len, RxMax)
  /\ size' = RX_RSR
  /\ Goto("recv.sr")
  /\ UNCHANGED chipVars
  /\ UNCHANGED <<sending, data>>

\* Without data the loop goes on, unless the peer has closed and all that was
\* sent is acknowledged.
RecvStatus ==
  /\ At("recv.sr")
  /\ IF sr \in Connected /\ size # 0 THEN Goto("recv.data")
     ELSE IF sr = "ESTABLISHED" \/ (sr = "CLOSE_WAIT" /\ TX_FSR # TxMax)
       THEN Goto("recv")
     ELSE CloseThenReturn(SOCKERR_SOCKSTATUS)
  /\ UNCHANGED chipVars
  /\ UNCHANGED <<sending, data, len, size>>

\* Mutant: the length is not capped by what was received.
RecvDataUncapped ==
  /\ At("recv.data")
  /\ data' = SubSeq(rx, rd + 1, MinOf(Len(rx), rd + len))
  /\ rd' = rd + len
  /\ cr' = "RECV"
  /\ Goto("recv.cr")
  /\ UNCHANGED <<sipr, sr, ir, rx, staged, tx, okDue, conn, sent, got>>
  /\ UNCHANGED <<sending, len, size>>

\* Mutant: Sn_RX_RD is not moved.
RecvDataAgain ==
  /\ At("recv.data")
  /\ len' = MinOf(len, size)
  /\ data' = SubSeq(rx, rd + 1, rd + len')
  /\ cr' = "RECV"
  /\ Goto("recv.cr")
  /\ UNCHANGED <<sipr, sr, ir, rx, rd, staged, tx, okDue, conn, sent, got>>
  /\ UNCHANGED <<sending, size>>

\* wiz_recv_data, then the RECV command.
RecvData ==
  /\ At("recv.data")
  /\ len' = MinOf(len, size)
  /\ data' = SubSeq(rx, rd + 1, rd + len')
  /\ rd' = rd + len'
  /\ cr' = "RECV"
  /\ Goto("recv.cr")
  /\ UNCHANGED <<sipr, sr, ir, rx, staged, tx, okDue, conn, sent, got>>
  /\ UNCHANGED <<sending, size>>

RecvAccepted ==
  /\ At("recv.cr") /\ cr = "NONE"
  /\ Return(len)
  /\ UNCHANGED chipVars
  /\ UNCHANGED <<sending, data, len, size>>

-----------------------------------------------------------------------------
SocketC ==
  \/ CloseCommand \/ CloseClear \/ CloseWait \/ CloseReturn
  \/ SocketBegin \/ SocketOpen \/ SocketFlags \/ SocketWait
  \/ ListenBegin \/ ListenCheck
  \/ DisconnectBegin \/ DisconnectFlag \/ DisconnectStatus \/ DisconnectTimeout
  \/ SendBegin \/ SendPrevious \/ SendFreeSize \/ SendStatus
  \/ SendData \/ SendAccepted
  \/ RecvSize \/ RecvStatus \/ RecvData \/ RecvAccepted
=============================================================================
