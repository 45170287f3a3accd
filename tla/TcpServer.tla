----------------------------- MODULE TcpServer -----------------------------
(***************************************************************************)
(* The two TCP servers of examples/ on the W5500: the application task     *)
(* (loopback_tcp_server of loopback.c, tcp_server_run of tcp_server.c) on  *)
(* top of WizToe, IoLibrary and the chip.  One task runs all the software, *)
(* so exactly one layer moves at a time; the chip and the peer move at any *)
(* moment.  The link check before the loop and the task's end are not      *)
(* modelled, and the socket of the other interface is not shared.          *)
(***************************************************************************)
EXTENDS WizToe

CONSTANTS
  Application,  \* "loopback" or "tcp_server"
  BufSize       \* size of the echo buffer

ASSUME ServerAssumption ==
  /\ Application \in {"loopback", "tcp_server"}
  /\ BufSize \in Nat \ {0}

VARIABLES
  app,  \* where the server is in its loop
  buf,  \* what it is echoing (or the banner)
  off   \* how much of buf send has taken

appVars == <<app, buf, off>>
vars == <<chipVars, ioVars, toeVars, appVars>>

AppTypeOK ==
  /\ app \in {"start", "listen", "accept", "accepting", "banner", "bannering",
              "recv", "receiving", "send", "sending", "close", "closing",
              "giveup", "giving up", "exit"}
  /\ buf \in Seq(Byte)
  /\ off \in Nat

Init ==
  /\ ChipInit /\ IoInit /\ ToeInit
  /\ app = "start" /\ buf = <<>> /\ off = 0

-----------------------------------------------------------------------------
\* A step of the application at `label`, no call of wiznet_toe.c running.
AppAt(label) == app = label /\ toe = "idle"

\* Call the wiznet_toe.c function; the application goes on at `next`.
CallToe(function, next) ==
  /\ toe' = function /\ app' = next
  /\ UNCHANGED <<toeRet, slot, ioVars, chipVars>>

\* A local step of the application.
AppGoto(next) ==
  app' = next /\ UNCHANGED <<toeVars, ioVars, chipVars>>

\* socket() and bind() only touch the descriptor.
Start ==
  /\ AppAt("start")
  /\ used' = TRUE
  /\ toe' = "listen" /\ app' = "listen"
  /\ UNCHANGED <<toeRet, opened, listening, accepted>>
  /\ UNCHANGED <<buf, off, ioVars, chipVars>>

\* A failed listen ends the server for good.
Listened ==
  /\ AppAt("listen")
  /\ AppGoto(IF toeRet < 0 THEN "giveup" ELSE "accept")
  /\ UNCHANGED <<buf, off>>

GiveUp ==
  /\ AppAt("giveup")
  /\ CallToe("close", "giving up")
  /\ UNCHANGED <<buf, off>>

Exit ==
  /\ AppAt("giving up")
  /\ AppGoto("exit")
  /\ UNCHANGED <<buf, off>>

AcceptClient ==
  /\ AppAt("accept")
  /\ CallToe("accept", "accepting")
  /\ UNCHANGED <<buf, off>>

Accepted ==
  /\ AppAt("accepting")
  /\ AppGoto(IF toeRet < 0 THEN "accept"
             ELSE IF Application = "tcp_server" THEN "banner" ELSE "recv")
  /\ buf' = IF toeRet >= 0 /\ Application = "tcp_server" THEN <<<<conn, 0>>>>
            ELSE <<>>
  /\ off' = 0

\* Mutant: a short send is repeated from the start.
SendRestWhole(next) ==
  /\ toe' = "send" /\ app' = next
  /\ CallSend(buf)
  /\ UNCHANGED <<toeRet, slot, chipVars, buf, off>>

\* The wrapped send() of the part of buf that is left.
SendRest(next) ==
  /\ toe' = "send" /\ app' = next
  /\ CallSend(SubSeq(buf, off + 1, Len(buf)))
  /\ UNCHANGED <<toeRet, slot, chipVars, buf, off>>

SendBanner == AppAt("banner") /\ SendRest("bannering")

\* Mutant: what was sent is not counted.
BannerSentAgain ==
  /\ AppAt("bannering")
  /\ UNCHANGED off
  /\ AppGoto(IF toeRet >= 0 THEN "banner" ELSE "recv")
  /\ UNCHANGED buf

\* tcp_server goes on to the echo loop even when the banner fails.
BannerSent ==
  /\ AppAt("bannering")
  /\ off' = IF toeRet < 0 THEN off ELSE off + toeRet
  /\ AppGoto(IF toeRet >= 0 /\ off' < Len(buf) THEN "banner" ELSE "recv")
  /\ UNCHANGED buf

Receive ==
  /\ AppAt("recv")
  /\ CallToe("recv", "receiving")
  /\ UNCHANGED <<buf, off>>

Received ==
  /\ AppAt("receiving")
  /\ AppGoto(IF toeRet <= 0 THEN "close" ELSE "send")
  /\ buf' = IF toeRet <= 0 THEN <<>> ELSE data
  /\ off' = 0

SendEcho == AppAt("send") /\ SendRest("sending")

\* Mutant: a short send counts as a full one.
EchoSentOnce ==
  /\ AppAt("sending")
  /\ off' = IF toeRet < 0 THEN off ELSE off + toeRet
  /\ AppGoto(IF toeRet < 0 /\ Application = "tcp_server" THEN "close" ELSE "recv")
  /\ UNCHANGED buf

\* Mutant: a short send ends the session.
EchoSentCloses ==
  /\ AppAt("sending")
  /\ off' = IF toeRet < 0 THEN off ELSE off + toeRet
  /\ AppGoto(IF toeRet < 0 \/ off' < Len(buf) THEN "close" ELSE "recv")
  /\ UNCHANGED buf

\* On an error loopback leaves the send loop and reads on; tcp_server closes.
EchoSent ==
  /\ AppAt("sending")
  /\ off' = IF toeRet < 0 THEN off ELSE off + toeRet
  /\ AppGoto(IF toeRet < 0 /\ Application = "tcp_server" THEN "close"
             ELSE IF toeRet >= 0 /\ off' < Len(buf) THEN "send" ELSE "recv")
  /\ UNCHANGED buf

CloseClient ==
  /\ AppAt("close")
  /\ CallToe("close", "closing")
  /\ UNCHANGED <<buf, off>>

\* The result of close is not looked at.
ClientClosed ==
  /\ AppAt("closing")
  /\ AppGoto("accept")
  /\ UNCHANGED <<buf, off>>

App ==
  \/ Start \/ Listened \/ GiveUp \/ Exit
  \/ AcceptClient \/ Accepted \/ SendBanner \/ BannerSent
  \/ Receive \/ Received \/ SendEcho \/ EchoSent
  \/ CloseClient \/ ClientClosed

-----------------------------------------------------------------------------
Software ==
  \/ App
  \/ WiznetToe(BufSize) /\ UNCHANGED appVars
  \/ SocketC /\ UNCHANGED <<toeVars, appVars>>

Hardware == Chip /\ UNCHANGED <<ioVars, toeVars, appVars>>
Network == Peer /\ UNCHANGED <<ioVars, toeVars, appVars>>
Resolves == NetworkResolves /\ UNCHANGED <<ioVars, toeVars, appVars>>

Next == Software \/ Hardware \/ Network

\* The task is scheduled, the chip executes commands, and TCP gives every
\* handshake, segment and FIN an answer or a timeout.  The peer need not
\* connect, send or close.
Fairness ==
  /\ WF_vars(Software)
  /\ WF_vars(Hardware)
  /\ WF_vars(Resolves)

Spec == Init /\ [][Next]_vars
FairSpec == Spec /\ Fairness

-----------------------------------------------------------------------------
(* Safety.                                                                 *)

TypeOK == ChipTypeOK /\ IoTypeOK /\ ToeTypeOK /\ AppTypeOK

\* The driver stays inside the socket's buffers: send() never stages more
\* than Sn_TX_FSR leaves free, and recv() reads and releases only bytes that
\* were received.
BufferBounds ==
  /\ Len(staged) + Len(tx) <= TxMax
  /\ rd <= Len(rx)

\* A connection starts from a clean socket: no SENDOK or TIMEOUT of an earlier
\* client is pending and sock_is_sending is clear, or send() would take the
\* old client's interrupt for its own.
FreshSocket ==
  sr \in {"INIT", "LISTEN", "SYNRECV"} =>
    /\ ir = {} /\ ~sending
    /\ rx = <<>> /\ tx = <<>> /\ staged = <<>>

\* A SEND is issued only when the previous one is complete and its SENDOK is
\* consumed: this is what sock_is_sending is for.
OneSendAtATime ==
  cr = "SEND" => ~okDue /\ "SENDOK" \notin ir

\* Sn_CR is written only when the chip has accepted the previous command.
CommandProtocol ==
  [][cr' # cr /\ cr' # "NONE" => cr = "NONE"]_vars

-----------------------------------------------------------------------------
(* The echo stream.                                                        *)

\* The application works on the current connection.
InSession ==
  \/ app \in {"banner", "bannering", "recv", "receiving", "send", "sending",
              "close"}
  \/ app = "closing" /\ toe \in {"close", "close.socket"}

\* What the peer is to receive: the banner once the server has accepted, and
\* what it sent, in its order.
Stream ==
  (IF Application = "tcp_server" /\ InSession THEN <<<<conn, 0>>>> ELSE <<>>)
    \o [k \in 1..sent |-> <<conn, k>>]

\* How many bytes the running or finished send took that off does not count.
Handed ==
  CASE io = "send.cr" -> len
    [] toe = "send" /\ io = "idle" /\ ioRet > 0 -> ioRet
    [] toe = "idle" /\ toeRet > 0 -> toeRet
    [] OTHER -> 0

Unsent ==
  CASE app \in {"banner", "send"} -> SubSeq(buf, off + 1, Len(buf))
    [] app \in {"bannering", "sending"} ->
         SubSeq(buf, off + Handed + 1, Len(buf))
    [] OTHER -> <<>>

\* Bytes recv() has copied out of the chip that are not the echo buffer yet.
Taken ==
  IF /\ app = "receiving"
     /\ \/ io = "recv.cr"
        \/ toe = "recv.done" /\ io = "idle" /\ ioRet > 0
        \/ toe = "idle" /\ toeRet > 0
    THEN data ELSE <<>>

Unread == SubSeq(rx, rd + 1, Len(rx))

\* While a connection is up no byte is lost, doubled, reordered or taken from
\* another client: what the peer has back, what is under way, what the
\* software holds and what is unread make up the stream, in this order.
EchoConserved ==
  sr \in Connected \cup {"FIN_WAIT", "LAST_ACK"} =>
    got \o tx \o staged \o Unsent \o Taken \o Unread = Stream

\* When the server closes, everything it has read is on its way back.
EchoedBeforeFin ==
  sr \in {"FIN_WAIT", "LAST_ACK"} => got \o tx \o Unread = Stream

\* The client's view: an echo service.
Echo == INSTANCE EchoService WITH Greeting <- Application = "tcp_server"
EchoServiceSpec == Echo!Spec

-----------------------------------------------------------------------------
(* Liveness, under FairSpec.                                               *)

\* wiztoe_accept polls on a client that has already closed its side: a status
\* it neither accepts nor re-arms.
Missed == toe = "accept" /\ io = "idle" /\ sr = "CLOSE_WAIT"

\* The client has hung up, was lost or never came about.
Over == sipr /\ sr \in {"CLOSED", "CLOSE_WAIT"}

\* After every client, however the connection ends, the socket listens again
\* (unless the server gave up or missed the client).
ListensAgain == Over ~> (sr = "LISTEN" \/ app = "exit" \/ Missed)

\* On a connection that stays up every byte the client sends comes back.
EchoArrives ==
  \A c \in 1..MaxConn, k \in 1..MaxBytes :
    (conn = c /\ sent = k /\ sr \in Connected) ~>
      (\/ conn # c \/ sr \notin Connected \/ Missed
       \/ <<c, k>> \in {got[i] : i \in 1..Len(got)})
=============================================================================
