----------------------------- MODULE TcpClient -----------------------------
(***************************************************************************)
(* The TCP client of examples/loopback (loopback_tcp_client) on            *)
(* wiztoe_connect and connect() of socket.c: it opens a socket, connects   *)
(* to the server, echoes what the server sends until the connection ends,  *)
(* closes, and tries again for ever.  The peer of W5500 is now the server: *)
(* it answers, refuses or ignores the SYN, and may close at any moment.    *)
(*                                                                         *)
(* The echo loop, the buffers and the echo stream are those of TcpServer   *)
(* with Application = "loopback"; what is new is the active open.          *)
(***************************************************************************)
EXTENDS TcpServer

ASSUME ClientAssumption == Application = "loopback"

-----------------------------------------------------------------------------
(* The chip and the server, during the active open.                        *)

ChipConnect ==
  /\ Accept("CONNECT")
  /\ sr' = IF sr = "INIT" THEN "SYNSENT" ELSE sr
  /\ UNCHANGED <<sipr, ir, rx, rd, staged, tx, okDue, conn, sent, got>>

\* The SYN/ACK arrives.
PeerAnswers ==
  /\ sr = "SYNSENT"
  /\ conn < MaxConn
  /\ sr' = "ESTABLISHED"
  /\ conn' = conn + 1 /\ sent' = 0 /\ got' = <<>>
  /\ UNCHANGED <<sipr, cr, ir, rx, rd, staged, tx, okDue>>

\* A RST instead of the SYN/ACK.
PeerRefuses ==
  /\ sr = "SYNSENT"
  /\ sr' = "CLOSED"
  /\ UNCHANGED <<sipr, cr, ir, rx, rd, staged, tx, okDue, conn, sent, got>>

\* No answer to the ARP request or to the SYN.
SynTimeout ==
  /\ sr = "SYNSENT"
  /\ sr' = "CLOSED"
  /\ ir' = ir \cup {"TIMEOUT"}
  /\ UNCHANGED <<sipr, cr, rx, rd, staged, tx, okDue, conn, sent, got>>

-----------------------------------------------------------------------------
(* connect(sn, addr, port), for an address and a port that are not 0.      *)

ConnectBegin ==
  /\ At("connect")
  /\ IF sr = "INIT" THEN cr' = "CONNECT" /\ Goto("connect.sr")
                    ELSE UNCHANGED cr /\ Return(SOCKERR_SOCKINIT)
  /\ UNCHANGED <<sipr, sr, ir, rx, rd, staged, tx, okDue, conn, sent, got>>
  /\ UNCHANGED <<sending, data, len, size>>

\* The wait loop: three register reads, and ESTABLISHED, TIMEOUT and CLOSED
\* are all it knows.
ConnectStatus ==
  /\ At("connect.sr") /\ cr = "NONE"
  /\ IF sr = "ESTABLISHED" THEN Return(SOCK_OK) ELSE Goto("connect.ir")
  /\ UNCHANGED chipVars
  /\ UNCHANGED <<sending, data, len, size>>

\* The socket is not closed here: the caller has to.
ConnectTimeout ==
  /\ At("connect.ir")
  /\ IF "TIMEOUT" \in ir THEN ir' = ir \ {"TIMEOUT"} /\ Return(SOCKERR_TIMEOUT)
                         ELSE UNCHANGED ir /\ Goto("connect.closed")
  /\ UNCHANGED <<sipr, sr, cr, rx, rd, staged, tx, okDue, conn, sent, got>>
  /\ UNCHANGED <<sending, data, len, size>>

\* Mutant: a refused connection is not noticed.
ConnectClosedMissed ==
  /\ At("connect.closed")
  /\ Goto("connect.sr")
  /\ UNCHANGED chipVars
  /\ UNCHANGED <<sending, data, len, size>>

ConnectClosed ==
  /\ At("connect.closed")
  /\ IF sr = "CLOSED" THEN Return(SOCKERR_SOCKCLOSED) ELSE Goto("connect.sr")
  /\ UNCHANGED chipVars
  /\ UNCHANGED <<sending, data, len, size>>

-----------------------------------------------------------------------------
(* wiztoe_connect(fd, ip, port): socket() on an ephemeral port, connect(). *)

ToeConnect ==
  /\ ToeAt("connect")
  /\ Call("socket") /\ ToeGoto("connect.connect")
  /\ UNCHANGED slot

\* Mutant: the descriptor is not marked as opened.
ToeConnectUnmarked ==
  /\ ToeAt("connect.connect")
  /\ IF ioRet = sn
       THEN Call("connect") /\ ToeGoto("connect.done")
       ELSE ToeReturn(-1) /\ UNCHANGED ioVars
  /\ UNCHANGED slot

ToeConnectConnect ==
  /\ ToeAt("connect.connect")
  /\ IF ioRet = sn
       THEN opened' = TRUE /\ Call("connect") /\ ToeGoto("connect.done")
       ELSE ToeReturn(-1) /\ UNCHANGED <<opened, ioVars>>
  /\ UNCHANGED <<used, listening, accepted>>

ToeConnectDone ==
  /\ ToeAt("connect.done")
  /\ ToeReturn(IF ioRet = SOCK_OK THEN 0 ELSE -1)
  /\ UNCHANGED <<slot, ioVars>>

-----------------------------------------------------------------------------
(* loopback_tcp_client                                                     *)

\* socket(), then connect().
ClientConnect ==
  /\ AppAt("start")
  /\ used' = TRUE
  /\ toe' = "connect" /\ app' = "connecting"
  /\ UNCHANGED <<toeRet, opened, listening, accepted>>
  /\ UNCHANGED <<buf, off, ioVars, chipVars>>

ClientConnected ==
  /\ AppAt("connecting")
  /\ AppGoto(IF toeRet = 0 THEN "recv" ELSE "close")
  /\ buf' = <<>> /\ off' = 0

\* close() has freed the descriptor; after a second the loop starts over.
ClientRetry ==
  /\ AppAt("closing")
  /\ AppGoto("start")
  /\ UNCHANGED <<buf, off>>

ClientApp ==
  \/ ClientConnect \/ ClientConnected \/ ClientRetry
  \/ Receive \/ Received \/ SendEcho \/ EchoSent \/ CloseClient

ConnectC == ConnectBegin \/ ConnectStatus \/ ConnectTimeout \/ ConnectClosed
ConnectToe == ToeConnect \/ ToeConnectConnect \/ ToeConnectDone

ClientSoftware ==
  \/ ClientApp
  \/ (ConnectToe \/ WiznetToe(BufSize)) /\ UNCHANGED appVars
  \/ (ConnectC \/ SocketC) /\ UNCHANGED <<toeVars, appVars>>

ClientHardware ==
  (Chip \/ ChipConnect) /\ UNCHANGED <<ioVars, toeVars, appVars>>

ClientResolves ==
  (NetworkResolves \/ SynTimeout) /\ UNCHANGED <<ioVars, toeVars, appVars>>

ClientNetwork ==
  (Peer \/ PeerAnswers \/ PeerRefuses \/ SynTimeout)
    /\ UNCHANGED <<ioVars, toeVars, appVars>>

ClientNext == ClientSoftware \/ ClientHardware \/ ClientNetwork

ClientSpec == Init /\ [][ClientNext]_vars

\* As for the server: the task runs, the chip executes commands, and TCP
\* resolves what is under way.
ClientFairSpec ==
  /\ ClientSpec
  /\ WF_vars(ClientSoftware) /\ WF_vars(ClientHardware)
  /\ WF_vars(ClientResolves)

-----------------------------------------------------------------------------
ClientTypeOK ==
  /\ ChipTypeOK
  /\ io \in {"idle", "closing", "socket", "socket.open", "socket.flags",
             "socket.sr", "connect", "connect.sr", "connect.ir",
             "connect.closed", "disconnect", "disconnect.flag",
             "disconnect.sr", "disconnect.ir", "send", "send.ir", "send.fsr",
             "send.sr", "send.data", "send.cr", "recv", "recv.sr",
             "recv.data", "recv.cr"}
  /\ cl \in {"idle", "cmd", "ir", "sr"}
  /\ toe \in {"idle", "connect", "connect.connect", "connect.done", "send",
              "recv", "recv.sr", "recv.done", "close", "close.final",
              "close.freed"}
  /\ app \in {"start", "connecting", "recv", "receiving", "send", "sending",
              "close", "closing"}
  /\ used \in BOOLEAN /\ opened \in BOOLEAN /\ ~listening /\ ~accepted

\* Every attempt starts clean.  connect() does not close the socket when it
\* fails, and may leave TIMEOUT raised (when it expires between the reads of
\* Sn_IR and Sn_SR); only the caller's close() keeps the next attempt from
\* taking an old interrupt, connection or byte for its own.
FreshAttempt ==
  /\ app = "start" => sr = "CLOSED" /\ ~used
  /\ sr \in {"INIT", "SYNSENT"} =>
       ir = {} /\ ~sending /\ rx = <<>> /\ tx = <<>> /\ staged = <<>>

\* connect() waits for ESTABLISHED: a server that accepts and closes at once
\* leaves it polling on CLOSE_WAIT.
StuckInConnect ==
  io \in {"connect.sr", "connect.ir", "connect.closed"} /\ sr = "CLOSE_WAIT"

\* Whatever ends an attempt or a connection, another SYN is sent.
Reconnects ==
  sipr /\ sr \in {"CLOSED", "CLOSE_WAIT"} ~> (sr = "SYNSENT" \/ StuckInConnect)

\* On a connection that stays up every byte the server sends comes back to it.
EchoReturns ==
  \A c \in 1..MaxConn, k \in 1..MaxBytes :
    (conn = c /\ sent = k /\ sr \in Connected) ~>
      (\/ conn # c \/ sr \notin Connected \/ StuckInConnect
       \/ <<c, k>> \in {got[i] : i \in 1..Len(got)})
=============================================================================
