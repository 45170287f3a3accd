--------------------------- MODULE TcpClientProofs ---------------------------
(***************************************************************************)
(* Proofs about the TCP client of TcpClient: every attempt starts clean    *)
(* (FreshAttempt), no byte of the echo is lost (EchoConserved), and what   *)
(* the server it talks to gets back is what EchoService promises           *)
(* (EchoServiceSpec).  They hold for every size of the buffers, every      *)
(* number of connections and bytes, and with or without a receive timeout. *)
(*                                                                         *)
(* Only the active open is new.  Once the client is connected it runs the  *)
(* code of the server, and the invariants and lemmas of TcpServerProofs    *)
(* and TcpSessionProofs apply: ClientServes says so.                       *)
(***************************************************************************)
EXTENDS TcpClient, TcpSessionProofs

-----------------------------------------------------------------------------
(* The places of connect().                                                *)
ConnectPlaces == {"connect", "connect.sr", "connect.ir", "connect.closed"}

(* The control half of IInv, with CONNECT as one more command.             *)
ClientCtl ==
  /\ CtlTypeOK /\ CloseNested /\ CloseWipes /\ FreshFlags /\ SendingFlag
  /\ cr # "CONNECT" => PendingCommand
  /\ cr = "CONNECT" => io = "connect.sr" /\ cl = "idle" /\ sr = "INIT"

(* The data half, without the places.                                      *)
ClientData ==
  /\ ChipTypeOK /\ BufferBounds /\ FreshBuffers /\ SizesHold
  /\ ioRet \in Int /\ sending \in BOOLEAN
  /\ data \in Seq(Byte) /\ len \in Nat /\ size \in Nat

ClientUpper ==
  /\ ClientTypeOK
  /\ toeRet \in Int /\ buf \in Seq(Byte) /\ off \in Nat
  /\ listening = FALSE /\ accepted = FALSE
  /\ IdleBelow

(* The active open: nothing but a SYN is under way, and only its failure   *)
(* raises an interrupt.                                                    *)
Connecting ==
  /\ io \in ConnectPlaces =>
       /\ cl = "idle"
       /\ sr \in {"INIT", "SYNSENT", "CLOSED"} \cup Connected
       /\ ~sending /\ ~okDue /\ tx = <<>> /\ staged = <<>>
       /\ "SENDOK" \notin ir
       /\ "TIMEOUT" \in ir => sr = "CLOSED"
       /\ io = "connect" => sr = "INIT"
       /\ sr = "INIT" => io = "connect" \/ cr = "CONNECT"
  /\ sr = "SYNSENT" => io \in ConnectPlaces /\ rx = <<>>
  /\ sr \notin {"LISTEN", "SYNRECV"}

(* Which function of socket.c runs inside which one of wiznet_toe.c.       *)
ClientRunning ==
  io # "idle" =>
    \/ toe = "connect.connect" /\ io \in SocketPlaces
    \/ toe = "connect.done" /\ io \in ConnectPlaces
    \/ toe = "send" /\ io \in SendPlaces \cup {"closing"}
    \/ toe = "recv.done" /\ io \in RecvPlaces \cup {"closing"}
    \/ toe = "close.final" /\ io \in DisconnectPlaces
    \/ toe = "close.freed" /\ io = "closing"

(* Which of these the application waits for.                               *)
ClientWaiting ==
  toe # "idle" =>
    \/ app = "connecting" /\ toe \in {"connect", "connect.connect", "connect.done"}
    \/ app = "sending" /\ toe = "send"
    \/ app = "receiving" /\ toe \in Receiving
    \/ app = "closing" /\ toe \in {"close", "close.final", "close.freed"}

(* The descriptor.                                                         *)
ClientDescriptor ==
  /\ app = "start" \/ toe \in {"connect", "connect.connect"} => ~opened
  /\ app = "start" \/ (app = "closing" /\ toe = "idle") => ~opened /\ ~used
  /\ \/ app \in {"recv", "receiving", "send", "sending"}
     \/ toe \in {"connect.done", "close.final"}
     \/ app = "connecting" /\ toe = "idle" /\ toeRet = 0
     => opened

(* What the status of the socket can be where the client has seen it.      *)
ClientStatus ==
  /\ ~opened /\ toe # "connect.connect" => sr = "CLOSED"
  /\ toe = "connect.connect" => sr \in {"CLOSED", "INIT"}
  /\ toe = "connect.connect" /\ io = "socket" => sr = "CLOSED"
  /\ toe = "connect.connect" /\ io = "idle" => (ioRet = sn <=> sr = "INIT")
  /\ toe = "connect.done" /\ io = "idle" =>
       sr = "CLOSED" \/ (ioRet = SOCK_OK /\ sr \in Connected)
  /\ app = "connecting" /\ toe = "idle" =>
       sr = "CLOSED" \/ (toeRet = 0 /\ sr \in Connected)
  /\ sr = "INIT" => toe \in {"connect.connect", "connect.done"}
  /\ toe \in {"close.final", "close.freed"} /\ io = "idle" => sr = "CLOSED"
  /\ sr \in Fins => io \in DisconnectPlaces /\ toe = "close.final"
  /\ Closed

ClientControl == ClientRunning /\ ClientWaiting /\ ClientDescriptor /\ ClientStatus

(* The inductive invariant of the client's control.                        *)
ClientInv == ClientCtl /\ ClientData /\ ClientUpper /\ Connecting /\ ClientControl

(* What it holds of the stream.                                            *)
ClientStream ==
  /\ sr \in Live => conn > 0
  /\ Covered /\ Working /\ EchoConserved

ClientEchoInv == ClientInv /\ ClientStream

-----------------------------------------------------------------------------
(* The client outside connect() is the server.                             *)

(* Outside connect() the control and data halves are those of the server.  *)
LEMMA ClientHalves ==
  ASSUME ClientInv, io \notin ConnectPlaces
  PROVE  CtlInv /\ DataInv /\ cr # "CONNECT"
<1>1. cr # "CONNECT"
  BY DEF ClientInv, ClientCtl, ConnectPlaces
<1>2. CtlInv
  BY <1>1 DEF ClientInv, ClientCtl, CtlInv
<1>3. IoTypeOK
  BY DEF ClientInv, ClientData, ClientUpper, ClientTypeOK, ConnectPlaces, IoTypeOK
<1>4. DataInv
  BY <1>3 DEF ClientInv, ClientData, DataInv
<1> QED
  BY <1>1, <1>2, <1>4

(* And the server's halves are the client's.                               *)
LEMMA HalvesClient ==
  ASSUME CtlInv', DataInv'
  PROVE  ClientCtl' /\ ClientData' /\ io' \notin ConnectPlaces
<1>1. cr' # "CONNECT"
  BY DEF CtlInv, PendingCommand
<1>2. ClientCtl'
  BY <1>1 DEF CtlInv, ClientCtl
<1>3. ClientData' /\ io' \notin ConnectPlaces
  BY DEF DataInv, IoTypeOK, ClientData, ConnectPlaces
<1> QED
  BY <1>2, <1>3

(* When it is not connecting, the client is in a state of the server's     *)
(* invariant, and its lines are those of the echo loop.                    *)
LEMMA ClientServes ==
  ASSUME ClientInv, app # "connecting"
  PROVE  IInv /\ Lines
<1> USE DEF ClientInv, ClientUpper, ClientTypeOK, ClientControl, ClientWaiting, Receiving
<1>1. toe \notin {"connect", "connect.connect", "connect.done"}
  OBVIOUS
<1>2. io \notin ConnectPlaces
  BY <1>1 DEF ClientRunning, ConnectPlaces, SocketPlaces, DisconnectPlaces, SendPlaces, RecvPlaces
<1>3. CtlInv /\ DataInv
  BY <1>2, ClientHalves
<1>4. ToeTypeOK
  <2>1. listening \in BOOLEAN /\ accepted \in BOOLEAN /\ used \in BOOLEAN /\ opened \in BOOLEAN
    OBVIOUS
  <2>2. toe \in {"idle", "send", "recv", "recv.sr", "recv.done", "close", "close.final", "close.freed"}
    BY <1>1
  <2>3. toeRet \in Int
    OBVIOUS
  <2> QED
    BY <2>1, <2>2, <2>3 DEF ToeTypeOK
<1>5. AppTypeOK
  BY DEF AppTypeOK
<1>6. IInv
  BY <1>3, <1>4, <1>5 DEF DataInv, TypeOK, IInv
<1>7. Lines
  <2> USE <1>1 DEF ClientRunning, Receiving, IdleBelow, SocketPlaces, ConnectPlaces, DisconnectPlaces,
      SendPlaces, RecvPlaces
  <2>1. app \in {"bannering", "sending"} => toe \in {"idle", "send"}
    OBVIOUS
  <2>2. app = "receiving" => toe \in Receiving \cup {"idle"}
    OBVIOUS
  <2>3. toe = "send" => app \in {"bannering", "sending"} /\ io \in SendPlaces \cup {"closing", "idle"}
    OBVIOUS
  <2>4. toe \in Receiving => app = "receiving" /\ io \in RecvPlaces \cup {"closing", "idle"}
    OBVIOUS
  <2>5. toe \in {"recv", "recv.sr"} => io = "idle"
    OBVIOUS
  <2>6. (io \in SendPlaces => toe = "send") /\ (io \in RecvPlaces => toe = "recv.done")
    OBVIOUS
  <2> QED
    BY <2>1, <2>2, <2>3, <2>4, <2>5, <2>6 DEF Lines, ClientStatus
<1> QED
  BY <1>6, <1>7

-----------------------------------------------------------------------------
(* Steps of the application and of wiznet_toe.c.                           *)

(* The steps above socket.c find it idle and leave the registers alone.    *)
LEMMA ClientAbove ==
  ASSUME ClientInv, ClientApp \/ ConnectToe \/ WiznetToe(BufSize)
  PROVE  io = "idle" /\ UNCHANGED <<chipVars, sending, size>>
<1>1. CASE ClientApp
  <2>1. toe = "idle" /\ UNCHANGED <<chipVars, sending, size>>
    BY <1>1, Zenon DEF ClientApp, ClientConnect, ClientConnected, ClientRetry, Receive, Received,
       SendEcho, EchoSent, CloseClient, AppAt, AppGoto, CallToe, SendRest, CallSend, ioVars
  <2> QED
    BY <2>1 DEF ClientInv, ClientUpper, IdleBelow
<1>2. CASE ConnectToe
  BY <1>2, Zenon DEF ConnectToe, ToeConnect, ToeConnectConnect, ToeConnectDone, ToeAt, ToeGoto, ToeReturn,
     Call, ioVars
<1>3. CASE WiznetToe(BufSize)
  BY <1>3, Zenon DEF WiznetToe, ListenSocket, ListenListen, ListenDone, AcceptTimeout, AcceptEstablished,
     AcceptClosed, AcceptListen, AcceptDone, SendDone, RecvPoll, RecvEof, RecvWait, RecvTimeout,
     RecvDone, CloseBegin, RearmSocket, RearmListen, RearmDone, CloseFinal, CloseFreed,
     DisconnectIfConnected, ToeAt, ToeGoto, ToeReturn, Call, CallRecv, CallClose, ioVars
<1> QED
  BY <1>1, <1>2, <1>3

(* A step above that calls nothing new, or calls as the server does, keeps *)
(* both halves.                                                            *)
LEMMA ClientCalls ==
  ASSUME ClientInv, io = "idle", UpperStep
  PROVE  ClientCtl' /\ ClientData' /\ Connecting'
<1>1. io \notin ConnectPlaces
  BY DEF ConnectPlaces
<1>2. CtlInv /\ DataInv
  BY <1>1, ClientHalves
<1>3. CtlInv' /\ DataInv'
  BY <1>2, CtlUpper, DataUpper
<1>4. ClientCtl' /\ ClientData' /\ io' \notin ConnectPlaces
  BY <1>3, HalvesClient
<1>5. Connecting'
  BY <1>1, <1>4 DEF ClientInv, Connecting, UpperStep, chipVars
<1> QED
  BY <1>4, <1>5

(* A step of the application keeps the invariant.                          *)
LEMMA InvClientApp ==
  ASSUME ClientInv, ClientApp
  PROVE  ClientInv'
<1>a. io = "idle" /\ UNCHANGED <<chipVars, sending, size>>
  BY ClientAbove
<1>b. toeRet \in Int /\ off \in Nat /\ buf \in Seq(Byte) /\ data \in Seq(Byte) /\ IdleBelow
  BY DEF ClientInv, ClientUpper, ClientData
<1>0. /\ toeRet \in Int /\ off \in Nat /\ buf \in Seq(Byte) /\ data \in Seq(Byte) /\ io = "idle"
      /\ UNCHANGED <<chipVars, sending, size>> /\ IdleBelow
  BY <1>a, <1>b
<1>r. SubSeq(buf, off + 1, Len(buf)) \in Seq(Byte)
  BY <1>0, RestIs DEF Rest
<1>e. <<>> \in Seq(Byte)
  BY EmptySeq
<1>1. UpperStep
  <2>1. CASE SendEcho
    BY <1>0, <1>r, <2>1 DEF SendEcho, SendRest, CallSend, AppAt, UpperStep, Calls
  <2>2. CASE ~SendEcho
    BY <1>0, <2>2 DEF ClientApp, ClientConnect, ClientConnected, ClientRetry, Receive, Received,
       EchoSent, CloseClient, AppGoto, CallToe, UpperStep, ioVars
  <2> QED
    BY <2>1, <2>2
<1>2. ClientCtl' /\ ClientData' /\ Connecting'
  BY <1>0, <1>1, ClientCalls
<1>3. toeRet' \in Int /\ buf' \in Seq(Byte) /\ off' \in Nat
  <2>1. CASE EchoSent
    <3>1. toeRet' = toeRet /\ buf' = buf /\ off' = IF toeRet < 0 THEN off ELSE off + toeRet
      BY <2>1 DEF EchoSent, AppGoto, toeVars
    <3> QED
      BY <1>0, <3>1
  <2>2. CASE ClientConnected \/ Received
    <3>1. toeRet' = toeRet /\ off' = 0 /\ buf' \in {<<>>, data}
      BY <2>2 DEF ClientConnected, Received, AppGoto, toeVars
    <3> QED
      BY <1>0, <1>e, <3>1
  <2>3. CASE ClientConnect \/ ClientRetry \/ Receive \/ SendEcho \/ CloseClient
    <3>1. toeRet' = toeRet /\ off' = off /\ buf' = buf
      BY <2>3 DEF ClientConnect, ClientRetry, Receive, SendEcho, CloseClient, AppGoto, CallToe,
         SendRest, toeVars
    <3> QED
      BY <1>0, <3>1
  <2> QED
    BY <2>1, <2>2, <2>3 DEF ClientApp
<1>4. ClientUpper' /\ ClientControl'
  <2> USE <1>0, <1>2, <1>3, ClientAssumption DEF ClientInv, ClientData, ClientUpper, ClientTypeOK, IdleBelow, ClientControl,
      ClientRunning, ClientWaiting, ClientDescriptor, ClientStatus, Closed, Receiving, SendPlaces,
      Fins, Connected, AppAt, AppGoto, CallToe, ioVars, toeVars, slot, chipVars
  <2>1. CASE ClientConnect
    BY <2>1 DEF ClientConnect
  <2>2. CASE ClientConnected
    BY <2>2 DEF ClientConnected
  <2>3. CASE ClientRetry
    BY <2>3 DEF ClientRetry
  <2>4. CASE Receive
    BY <2>4 DEF Receive
  <2>5. CASE Received
    BY <2>5 DEF Received
  <2>6. CASE SendEcho
    <3>1. /\ app = "send" /\ app' = "sending" /\ toe = "idle" /\ toe' = "send" /\ io' = "send"
          /\ UNCHANGED <<toeRet, used, opened, listening, accepted, cl, ioRet, sr>>
      BY <2>6 DEF SendEcho, SendRest, CallSend
    <3> QED
      BY <3>1
  <2>7. CASE EchoSent
    BY <2>7 DEF EchoSent
  <2>8. CASE CloseClient
    BY <2>8 DEF CloseClient
  <2> QED
    BY <2>1, <2>2, <2>3, <2>4, <2>5, <2>6, <2>7, <2>8 DEF ClientApp
<1> QED
  BY <1>2, <1>4 DEF ClientInv

(* A step of wiznet_toe.c keeps the invariant.                             *)
LEMMA InvClientToe ==
  ASSUME ClientInv, ConnectToe \/ WiznetToe(BufSize), UNCHANGED appVars
  PROVE  ClientInv'
<1>a. io = "idle" /\ UNCHANGED <<chipVars, sending, size>>
  BY ClientAbove
<1>b. /\ toeRet \in Int /\ ioRet \in Int /\ IdleBelow /\ UNCHANGED <<app, buf, off>>
  BY DEF ClientInv, ClientUpper, ClientData, appVars
<1>0. /\ toeRet \in Int /\ ioRet \in Int /\ IdleBelow /\ UNCHANGED <<app, buf, off>>
      /\ io = "idle" /\ UNCHANGED <<chipVars, sending, size>>
  BY <1>a, <1>b
<1>h. io \notin ConnectPlaces
  BY <1>0 DEF ConnectPlaces
<1>k. CtlInv /\ DataInv /\ cr # "CONNECT"
  BY <1>h, ClientHalves
<1> DEFINE Places == ClientUpper' /\ ClientControl'
<1>c. ASSUME UpperStep, Places PROVE ClientInv'
  BY <1>0, <1>c, ClientCalls DEF ClientInv
<1>1. CASE ToeConnect
  <2> USE <1>0, <1>1 DEF ToeConnect, ToeAt, ToeGoto, Call, ClientInv, ClientUpper, ClientTypeOK, IdleBelow, slot, chipVars
  <2>1. UpperStep
    BY DEF UpperStep, Calls
  <2>2. ChipTypeOK'
    BY <2>1, ClientCalls DEF ClientData
  <2>3. Places
    BY <2>2 DEF ClientControl, ClientRunning, ClientWaiting, ClientDescriptor, ClientStatus, Closed, Receiving,
       SocketPlaces, DisconnectPlaces, Fins, Connected
  <2> QED
    BY <1>c, <2>1, <2>3
<1>2. CASE ToeConnectConnect /\ ioRet = sn
  <2> USE <1>0, <1>2 DEF ToeConnectConnect, ToeAt, ToeGoto, Call, ClientInv, ClientUpper, ClientTypeOK, IdleBelow, chipVars
  <2>1. /\ toe = "connect.connect" /\ toe' = "connect.done" /\ io' = "connect" /\ opened' = TRUE
        /\ UNCHANGED <<toeRet, used, listening, accepted, cl, ioRet, sending, data, len, size, chipVars>>
    OBVIOUS
  <2>2. sr = "INIT" /\ cr = "NONE" /\ cl = "idle"
    BY <1>k DEF ClientControl, ClientStatus, CtlInv, PendingCommand, CloseNested
  <2>3. CtlInv'
    BY <1>k, <2>1, <2>2 DEF CtlInv, CtlTypeOK, CloseNested, PendingCommand, CloseWipes, FreshFlags,
       SendingFlag, SendClean, Connected
  <2>4. ClientCtl'
    BY <2>1, <2>2, <2>3 DEF CtlInv, ClientCtl
  <2>5. ClientData'
    BY <2>1 DEF ClientData, BufferBounds, FreshBuffers, SizesHold, ChipTypeOK
  <2>6. Connecting'
    BY <1>k, <2>1, <2>2 DEF Connecting, CtlInv, FreshFlags, ClientData, FreshBuffers, ConnectPlaces
  <2>7. ClientUpper'
    BY <2>1, <2>5 DEF ClientData
  <2>8. ClientControl'
    BY <2>1, <2>2 DEF ClientControl, ClientRunning, ClientWaiting, ClientDescriptor, ClientStatus, Closed, Receiving,
       ConnectPlaces, DisconnectPlaces, Fins, Connected
  <2> QED
    BY <2>4, <2>5, <2>6, <2>7, <2>8
<1>3. CASE \/ ToeConnectConnect /\ ioRet # sn
           \/ ToeConnectDone
  <2> USE <1>0, <1>3 DEF ToeConnectConnect, ToeConnectDone, ToeAt, ToeReturn, ClientInv, ClientUpper, ClientTypeOK, IdleBelow,
      slot, ioVars, chipVars
  <2>1. /\ \/ toe = "connect.connect" /\ ioRet # sn /\ toeRet' = -1
           \/ toe = "connect.done" /\ ioRet = SOCK_OK /\ toeRet' = 0
           \/ toe = "connect.done" /\ ioRet # SOCK_OK /\ toeRet' = -1
        /\ toe' = "idle"
        /\ UNCHANGED <<used, opened, listening, accepted, io, cl, ioRet, sending, data, len, size, chipVars>>
    OBVIOUS
  <2>2. UpperStep
    BY <2>1 DEF UpperStep
  <2>3. ChipTypeOK'
    BY <2>2, ClientCalls DEF ClientData
  <2>4. ClientUpper'
    BY <2>1, <2>3
  <2>5. app = "connecting"
    BY <2>1 DEF ClientControl, ClientWaiting, Receiving
  <2>6. ClientControl'
    BY <2>1, <2>5 DEF ClientControl, ClientRunning, ClientWaiting, ClientDescriptor, ClientStatus, Closed, Receiving,
       DisconnectPlaces, Fins, Connected
  <2> QED
    BY <1>c, <2>2, <2>4, <2>6
<1>4. CASE WiznetToe(BufSize)
  <2>t. toe \in {"send", "recv", "recv.sr", "recv.done", "close", "close.final", "close.freed"}
    <3>1. toe \in {"idle", "connect", "connect.connect", "connect.done", "send",
              "recv", "recv.sr", "recv.done", "close", "close.final", "close.freed"}
      BY DEF ClientInv, ClientUpper, ClientTypeOK
    <3> QED
      BY <1>4, <3>1, Zenon DEF WiznetToe, ListenSocket, ListenListen, ListenDone, AcceptTimeout, AcceptEstablished,
         AcceptClosed, AcceptListen, AcceptDone, SendDone, RecvPoll, RecvEof, RecvWait, RecvTimeout,
         RecvDone, CloseBegin, RearmSocket, RearmListen, RearmDone, CloseFinal, CloseFreed, ToeAt
  <2>a. app \in {"sending", "receiving", "closing"}
    BY <2>t DEF ClientInv, ClientControl, ClientWaiting
  <2>i. TypeOK
    BY <2>a, ClientServes DEF IInv
  <2>1. UpperStep /\ ToeTypeOK' /\ IdleBelow'
    BY <1>4, <2>i, UpperToe
  <2>2. ClientData'
    BY <1>0, <2>1, ClientCalls
  <2> USE <1>0, <2>a DEF ToeAt, ToeGoto, ToeReturn, Call, CallRecv, CallClose, ClientInv, ClientUpper, ClientTypeOK,
      ClientControl, ClientRunning, ClientWaiting, ClientDescriptor, ClientStatus, Closed, Receiving,
      SendPlaces, RecvPlaces, DisconnectPlaces, Fins, Connected, slot, ioVars, chipVars
  <2>3. CASE SendDone
    BY <2>1, <2>2, <2>3, <1>c DEF SendDone, ClientData, ToeTypeOK
  <2>4. CASE RecvPoll(BufSize)
    BY <2>1, <2>2, <2>4, <1>c DEF RecvPoll, ClientData, ToeTypeOK
  <2>5. CASE RecvEof \/ RecvWait \/ RecvTimeout
    BY <2>1, <2>2, <2>5, <1>c DEF RecvEof, RecvWait, RecvTimeout, ClientData, ToeTypeOK
  <2>6. CASE RecvDone
    BY <2>1, <2>2, <2>6, <1>c DEF RecvDone, ClientData, ToeTypeOK
  <2>7. CASE CloseBegin
    <3>1. /\ toe = "close" /\ app = "closing"
          /\ \/ opened /\ sr \in Connected /\ toe' = "close.final" /\ io' = "disconnect"
             \/ opened /\ sr \notin Connected /\ toe' = "close.final" /\ io' = "idle"
             \/ ~opened /\ toe' = "close.freed" /\ io' = "idle"
          /\ UNCHANGED <<toeRet, used, opened, listening, accepted, cl, ioRet, chipVars>>
      BY <2>7 DEF CloseBegin, DisconnectIfConnected
    <3>2. sr \in Status \ Fins /\ sr # "INIT"
      BY <3>1 DEF ClientData, ChipTypeOK, Status
    <3>3. sr \notin {"SYNSENT", "LISTEN", "SYNRECV"}
      BY <1>h DEF Connecting
    <3>4. sr \in Connected \cup {"CLOSED"}
      BY <3>2, <3>3 DEF Status
    <3>5. ClientUpper'
      BY <2>1, <2>2, <3>1 DEF ClientData, ToeTypeOK
    <3>6. ClientRunning' /\ ClientWaiting' /\ ClientDescriptor'
      BY <3>1
    <3>7. ClientStatus'
      BY <3>1, <3>4
    <3> QED
      BY <2>1, <3>5, <3>6, <3>7, <1>c
  <2>8. CASE CloseFinal
    BY <2>1, <2>2, <2>8, <1>c DEF CloseFinal, ClientData, ToeTypeOK
  <2>9. CASE CloseFreed
    BY <2>1, <2>2, <2>9, <1>c DEF CloseFreed, ClientData, ToeTypeOK
  <2> QED
    BY <1>4, <2>t, <2>3, <2>4, <2>5, <2>6, <2>7, <2>8, <2>9, Zenon DEF WiznetToe, ListenSocket, ListenListen, ListenDone,
       AcceptTimeout, AcceptEstablished, AcceptClosed, AcceptListen, AcceptDone, RearmSocket, RearmListen, RearmDone
<1> QED
  BY <1>1, <1>2, <1>3, <1>4 DEF ConnectToe

-----------------------------------------------------------------------------
(* Steps of socket.c.                                                      *)

(* The functions of the server are not connect(), and leave the status of  *)
(* the socket to the chip.                                                 *)
LEMMA ClientSocketC ==
  ASSUME ClientInv, SocketC
  PROVE  io \notin ConnectPlaces /\ io # "idle" /\ UNCHANGED <<sr, conn>>
<1>1. cl # "idle" => io \in {"closing", "socket.open"}
  BY DEF ClientInv, ClientCtl, CloseNested
<1> USE DEF At, ConnectPlaces, chipVars
<1>2. CASE CloseCommand \/ CloseClear \/ CloseWait
  BY <1>1, <1>2 DEF CloseCommand, CloseClear, CloseWait
<1>3. CASE \/ CloseReturn \/ SocketBegin \/ SocketOpen \/ SocketFlags \/ SocketWait
           \/ ListenBegin \/ ListenCheck
           \/ DisconnectBegin \/ DisconnectFlag \/ DisconnectStatus \/ DisconnectTimeout
  BY <1>3 DEF CloseReturn, SocketBegin, SocketOpen, SocketFlags, SocketWait, ListenBegin, ListenCheck,
     DisconnectBegin, DisconnectFlag, DisconnectStatus, DisconnectTimeout
<1>4. CASE SendPrevious
  BY <1>4 DEF SendPrevious
<1>5. CASE \/ SendBegin \/ SendFreeSize \/ SendStatus \/ SendData \/ SendAccepted
           \/ RecvSize \/ RecvStatus \/ RecvData \/ RecvAccepted
  BY <1>5 DEF SendBegin, SendFreeSize, SendStatus, SendData, SendAccepted,
     RecvSize, RecvStatus, RecvData, RecvAccepted
<1> QED
  BY <1>2, <1>3, <1>4, <1>5 DEF SocketC

(* A step of them leaves the client where it may be.                       *)
LEMMA ControlClientSocketC ==
  ASSUME ClientInv, SocketC, UNCHANGED <<toeVars, appVars>>
  PROVE  ClientControl'
<1>0. /\ io \notin ConnectPlaces /\ io # "idle" /\ sr' = sr
      /\ ioRet \in Int /\ len \in Nat
  BY ClientSocketC DEF ClientInv, ClientData
<1>00. CtlInv
  BY <1>0, ClientHalves
<1>t. io \notin {"listen", "listen.sr"}
  BY DEF ClientInv, ClientUpper, ClientTypeOK
<1>n. ~(len < 0) /\ ~(0 < 0)
  BY <1>0
<1>i. io = "socket.sr" => sr = "INIT"
  BY <1>00 DEF CtlInv, CloseWipes
<1>f. /\ sn = 0 /\ SOCK_OK = 1 /\ SOCKERR_SOCKINIT # 0
  BY DEF sn, SOCK_OK, SOCKERR_SOCKINIT
<1> USE <1>0, <1>t, <1>n, <1>f DEF ClientInv, ClientControl, ClientRunning, ClientWaiting, ClientDescriptor, ClientStatus,
    Closed, Fins, Connected, SocketPlaces, ConnectPlaces, DisconnectPlaces, SendPlaces, RecvPlaces, Receiving,
    At, Goto, Return, CloseThenReturn, toeVars, slot, chipVars, appVars
<1>1. CASE CloseCommand
  BY <1>1, <1>00 DEF CloseCommand, CtlInv, CloseNested
<1>2. CASE CloseClear
  BY <1>2, <1>00 DEF CloseClear, CtlInv, CloseNested
<1>3. CASE CloseWait
  BY <1>3, <1>00 DEF CloseWait, CtlInv, CloseNested
<1>4. CASE CloseReturn
  BY <1>4 DEF CloseReturn
<1>5. CASE SocketBegin
  BY <1>5 DEF SocketBegin
<1>6. CASE SocketOpen
  BY <1>6 DEF SocketOpen
<1>7. CASE SocketFlags
  BY <1>7 DEF SocketFlags
<1>8. CASE SocketWait
  BY <1>8, <1>i DEF SocketWait
<1>9. CASE ListenBegin \/ ListenCheck
  BY <1>9 DEF ListenBegin, ListenCheck
<1>10. CASE DisconnectBegin \/ DisconnectFlag \/ DisconnectStatus \/ DisconnectTimeout
  BY <1>10 DEF DisconnectBegin, DisconnectFlag, DisconnectStatus, DisconnectTimeout
<1>11. CASE SendBegin
  <2>1. toe = "send" /\ sr \in Status
    BY <1>11, <1>00 DEF SendBegin, CtlInv, CtlTypeOK
  <2>2. sr \notin {"INIT", "SYNSENT", "LISTEN", "SYNRECV"} \cup Fins
    BY <2>1 DEF Connecting
  <2>3. sr \in Connected \cup {"CLOSED"}
    BY <2>1, <2>2 DEF Status
  <2> QED
    BY <1>11, <2>1, <2>3 DEF SendBegin
<1>12. CASE SendPrevious
  <2>1. /\ io = "send.ir" /\ cl = "idle"
        /\ \/ io' = "send.fsr" /\ UNCHANGED <<cl, ioRet>>
           \/ io' = "closing" /\ cl' = "cmd"
           \/ io' = "idle" /\ ioRet' = 0 /\ UNCHANGED cl
        /\ UNCHANGED <<toe, toeRet, used, opened, listening, accepted, app>>
    BY <1>12 DEF SendPrevious, SOCK_BUSY
  <2> QED
    BY <2>1
<1>13. CASE SendFreeSize
  BY <1>13 DEF SendFreeSize
<1>14. CASE SendStatus
  BY <1>14, <1>00 DEF SendStatus, CtlInv, SendingFlag
<1>15. CASE SendData
  BY <1>15 DEF SendData
<1>16. CASE SendAccepted
  <2>1. /\ io = "send.cr" /\ cl = "idle"
        /\ io' = "idle" /\ ioRet' = len /\ cl' = cl
        /\ UNCHANGED <<toe, toeRet, used, opened, listening, accepted, app>>
    BY <1>16 DEF SendAccepted
  <2> QED
    BY <2>1
<1>17. CASE RecvSize
  BY <1>17 DEF RecvSize
<1>18. CASE RecvStatus
  BY <1>18 DEF RecvStatus
<1>19. CASE RecvData
  BY <1>19 DEF RecvData
<1>20. CASE RecvAccepted
  BY <1>20 DEF RecvAccepted
<1> QED
  BY <1>1, <1>2, <1>3, <1>4, <1>5, <1>6, <1>7, <1>8, <1>9, <1>10, <1>11, <1>12, <1>13, <1>14, <1>15, <1>16, <1>17, <1>18, <1>19, <1>20 DEF SocketC

(* The type of the client follows from where its functions are.            *)
LEMMA ClientUpperIs ==
  ASSUME ClientInv, UNCHANGED <<toeVars, appVars>>, ChipTypeOK', ClientRunning', io # "idle",
         cl' \in {"idle", "cmd", "ir", "sr"}
  PROVE  ClientUpper'
<1>1. io' \in {"idle", "closing"} \cup SocketPlaces \cup ConnectPlaces \cup SendPlaces \cup RecvPlaces
                 \cup DisconnectPlaces
  BY DEF ClientRunning
<1>2. ClientTypeOK'
  BY <1>1 DEF ClientInv, ClientUpper, ClientTypeOK, SocketPlaces, ConnectPlaces, SendPlaces, RecvPlaces,
     DisconnectPlaces, toeVars, appVars, slot
<1>3. toe' # "idle"
  BY DEF ClientInv, ClientUpper, IdleBelow, toeVars
<1> QED
  BY <1>2, <1>3 DEF ClientInv, ClientUpper, IdleBelow, toeVars, appVars, slot

(* A step of these functions keeps the invariant.                          *)
LEMMA InvClientSocketC ==
  ASSUME ClientInv, SocketC, UNCHANGED <<toeVars, appVars>>
  PROVE  ClientInv'
<1>1. io \notin ConnectPlaces /\ io # "idle" /\ sr' = sr
  BY ClientSocketC
<1>2. CtlInv /\ DataInv
  BY <1>1, ClientHalves
<1>3. CtlInv' /\ DataInv'
  BY <1>2, CtlSocketC, DataSocketC
<1>4. ClientCtl' /\ ClientData' /\ io' \notin ConnectPlaces
  BY <1>3, HalvesClient
<1>5. Connecting'
  BY <1>1, <1>4 DEF ClientInv, Connecting
<1>6. ClientControl'
  BY ControlClientSocketC
<1>7. ClientUpper'
  BY <1>1, <1>3, <1>6, ClientUpperIs DEF ClientControl, DataInv, IoTypeOK
<1> QED
  BY <1>4, <1>5, <1>6, <1>7 DEF ClientInv

(* A step of connect() keeps the invariant.                                *)
LEMMA InvConnectC ==
  ASSUME ClientInv, ConnectC, UNCHANGED <<toeVars, appVars>>
  PROVE  ClientInv'
<1> USE DEF At, Goto, Return
<1>1. /\ io \in ConnectPlaces /\ cl = "idle" /\ cl' = "idle"
      /\ UNCHANGED <<sipr, sr, rx, rd, staged, tx, okDue, conn, sent, got, sending, data, len, size>>
  BY DEF ConnectC, ConnectBegin, ConnectStatus, ConnectTimeout, ConnectClosed, chipVars, ConnectPlaces
<1>2. \/ io = "connect" /\ sr = "INIT" /\ cr' = "CONNECT" /\ ir' = ir /\ io' = "connect.sr" /\ ioRet' = ioRet
      \/ io = "connect.sr" /\ cr = "NONE" /\ cr' = "NONE" /\ ir' = ir /\ sr = "ESTABLISHED" /\ io' = "idle" /\ ioRet' = SOCK_OK
      \/ io = "connect.sr" /\ cr = "NONE" /\ cr' = "NONE" /\ ir' = ir /\ sr # "ESTABLISHED" /\ io' = "connect.ir" /\ ioRet' = ioRet
      \/ /\ io = "connect.ir" /\ cr' = cr /\ "TIMEOUT" \in ir /\ ir' = ir \ {"TIMEOUT"}
         /\ io' = "idle" /\ ioRet' = SOCKERR_TIMEOUT
      \/ io = "connect.ir" /\ cr' = cr /\ ir' = ir /\ io' = "connect.closed" /\ ioRet' = ioRet
      \/ io = "connect.closed" /\ cr' = cr /\ ir' = ir /\ sr = "CLOSED" /\ io' = "idle" /\ ioRet' = SOCKERR_SOCKCLOSED
      \/ io = "connect.closed" /\ cr' = cr /\ ir' = ir /\ sr # "CLOSED" /\ io' = "connect.sr" /\ ioRet' = ioRet
  <2>1. CASE ConnectBegin
    BY <2>1 DEF ConnectBegin, ClientInv, Connecting, ConnectPlaces
  <2>2. CASE ConnectStatus
    BY <2>2 DEF ConnectStatus, chipVars
  <2>3. CASE ConnectTimeout
    BY <2>3 DEF ConnectTimeout
  <2>4. CASE ConnectClosed
    BY <2>4 DEF ConnectClosed, chipVars
  <2> QED
    BY <2>1, <2>2, <2>3, <2>4 DEF ConnectC
<1>3. /\ sr \in {"INIT", "SYNSENT", "CLOSED"} \cup Connected
      /\ ~sending /\ ~okDue /\ tx = <<>> /\ staged = <<>>
      /\ "SENDOK" \notin ir
      /\ "TIMEOUT" \in ir => sr = "CLOSED"
      /\ io = "connect" => sr = "INIT"
      /\ sr = "INIT" => io = "connect" \/ cr = "CONNECT"
      /\ sr = "SYNSENT" => rx = <<>>
  BY <1>1 DEF ClientInv, Connecting
<1>4. cr \in {"NONE", "CONNECT"} /\ (cr = "CONNECT" => io = "connect.sr" /\ sr = "INIT")
  BY <1>1 DEF ClientInv, ClientCtl, PendingCommand, ConnectPlaces
<1>5. ir' \in SUBSET Interrupt /\ "SENDOK" \notin ir' /\ ("TIMEOUT" \in ir' => sr = "CLOSED") /\ (ir = {} => ir' = {})
  BY <1>2, <1>3 DEF ClientInv, ClientCtl, CtlTypeOK
<1>6. ClientCtl'
  <2>1. CtlTypeOK'
    BY <1>1, <1>2, <1>5 DEF ClientInv, ClientCtl, CtlTypeOK, Command
  <2>2. CloseNested' /\ CloseWipes'
    BY <1>1, <1>2 DEF CloseNested, CloseWipes
  <2>3. FreshFlags'
    BY <1>1, <1>3, <1>5 DEF ClientInv, ClientCtl, FreshFlags
  <2>4. SendingFlag'
    BY <1>1, <1>2, <1>3, <1>5 DEF SendingFlag, SendClean
  <2>5. /\ cr' # "CONNECT" => PendingCommand'
        /\ cr' = "CONNECT" => io' = "connect.sr" /\ cl' = "idle" /\ sr' = "INIT"
    BY <1>1, <1>2, <1>4 DEF PendingCommand
  <2> QED
    BY <2>1, <2>2, <2>3, <2>4, <2>5 DEF ClientCtl
<1>7. ClientData'
  <2>1. ioRet' \in Int
    BY <1>2 DEF ClientInv, ClientData, SOCK_OK, SOCKERR_SOCKCLOSED, SOCKERR_TIMEOUT
  <2>2. ChipTypeOK'
    BY <1>1, <1>5, <1>6 DEF ClientInv, ClientData, ClientCtl, CtlTypeOK, ChipTypeOK
  <2>3. BufferBounds' /\ FreshBuffers'
    BY <1>1 DEF ClientInv, ClientData, BufferBounds, FreshBuffers
  <2>4. SizesHold'
    BY <1>2 DEF SizesHold
  <2> QED
    BY <1>1, <2>1, <2>2, <2>3, <2>4 DEF ClientInv, ClientData
<1>8. toe = "connect.done" /\ UNCHANGED <<toe, toeRet, used, opened, listening, accepted, app>>
  BY <1>1 DEF ClientInv, ClientControl, ClientRunning, ConnectPlaces, SocketPlaces, SendPlaces, RecvPlaces,
     DisconnectPlaces, toeVars, slot, appVars
<1>9. Connecting'
  BY <1>1, <1>2, <1>3, <1>4, <1>5 DEF ClientInv, Connecting, ConnectPlaces
<1>10. ClientControl'
  <2>1. ClientRunning'
    BY <1>2, <1>8 DEF ClientRunning, ConnectPlaces
  <2>2. ClientWaiting' /\ ClientDescriptor'
    BY <1>8 DEF ClientInv, ClientControl, ClientWaiting, ClientDescriptor
  <2>3. ClientStatus'
    <3>1. io' = "idle" => sr = "CLOSED" \/ (ioRet' = SOCK_OK /\ sr \in Connected)
      BY <1>2, <1>3, <1>4 DEF Connected
    <3> QED
      BY <1>1, <1>2, <1>3, <1>8, <3>1 DEF ClientInv, ClientControl, ClientStatus, ClientDescriptor, Closed, Fins, Connected
  <2> QED
    BY <2>1, <2>2, <2>3 DEF ClientControl
<1>11. ClientUpper'
  BY <1>1, <1>7, <1>10, ClientUpperIs DEF ClientControl, ClientData, ConnectPlaces
<1> QED
  BY <1>6, <1>7, <1>9, <1>10, <1>11 DEF ClientInv

-----------------------------------------------------------------------------
(* Steps of the chip and of the network.                                   *)

(* How they change the status of the client's socket.                      *)
Moves ==
  \/ sr' = sr
  \/ sr' = "CLOSED" /\ (sr # "INIT" \/ cl = "ir")
  \/ sr' = "INIT" /\ io = "socket.flags"
  \/ sr \in Connected /\ sr' \in Fins /\ io = "disconnect.flag"
  \/ sr = "ESTABLISHED" /\ sr' = "CLOSE_WAIT"
  \/ sr = "INIT" /\ sr' = "SYNSENT" /\ io = "connect.sr"
  \/ sr = "SYNSENT" /\ sr' = "ESTABLISHED"

(* Whichever way it moves, the client is where it may be.                  *)
LEMMA ControlMoves ==
  ASSUME ClientInv, Moves, UNCHANGED <<ioVars, toeVars, appVars>>
  PROVE  ClientControl'
<1>1. UNCHANGED <<io, cl, ioRet, toe, toeRet, used, opened, listening, accepted, app>>
  BY DEF ioVars, toeVars, slot, appVars
<1>2. ClientRunning' /\ ClientWaiting' /\ ClientDescriptor'
  BY <1>1 DEF ClientInv, ClientControl, ClientRunning, ClientWaiting, ClientDescriptor
<1>3. /\ io = "socket.flags" => toe = "connect.connect"
      /\ io = "disconnect.flag" => toe = "close.final"
      /\ io \in ConnectPlaces => toe = "connect.done"
  BY DEF ClientInv, ClientControl, ClientRunning, SocketPlaces, ConnectPlaces, SendPlaces, RecvPlaces,
     DisconnectPlaces
<1>4. /\ toe \in {"connect.done", "close.final"} => opened
      /\ sr = "SYNSENT" => io \in ConnectPlaces
      /\ cl = "ir" => io \in {"closing", "socket.open"}
  BY DEF ClientInv, ClientControl, ClientDescriptor, Connecting, ClientCtl, CloseNested
<1>p. ConnectPlaces = {"connect", "connect.sr", "connect.ir", "connect.closed"}
  BY DEF ConnectPlaces
<1>5. ClientStatus'
  <2> USE <1>1, <1>3, <1>4, <1>p DEF ClientInv, ClientControl, ClientStatus, ClientUpper, IdleBelow, Closed, Fins, Connected,
      DisconnectPlaces
  <2>1. CASE sr' = sr
    BY <2>1
  <2>2. CASE sr' = "CLOSED" /\ (sr # "INIT" \/ cl = "ir")
    BY <2>2
  <2>3. CASE sr' = "INIT" /\ io = "socket.flags"
    BY <2>3
  <2>4. CASE sr \in Connected /\ sr' \in Fins /\ io = "disconnect.flag"
    BY <2>4
  <2>5. CASE sr = "ESTABLISHED" /\ sr' = "CLOSE_WAIT"
    BY <2>5
  <2>6. CASE sr = "INIT" /\ sr' = "SYNSENT" /\ io = "connect.sr"
    BY <2>6
  <2>7. CASE sr = "SYNSENT" /\ sr' = "ESTABLISHED"
    BY <2>7
  <2> QED
    BY <2>1, <2>2, <2>3, <2>4, <2>5, <2>6, <2>7 DEF Moves
<1> QED
  BY <1>2, <1>5 DEF ClientControl

(* The types above the chip are not its business.                          *)
LEMMA UpperKept ==
  ASSUME ClientInv, ChipTypeOK', UNCHANGED <<ioVars, toeVars, appVars>>
  PROVE  ClientUpper'
  BY DEF ClientInv, ClientUpper, ClientTypeOK, IdleBelow, ioVars, toeVars, slot, appVars

(* A command of the functions of the server, or the end of a SEND.         *)
LEMMA InvClientChip ==
  ASSUME ClientInv, Chip, UNCHANGED <<ioVars, toeVars, appVars>>
  PROVE  ClientInv'
<1> USE DEF Accept
<1>1. io \notin ConnectPlaces
  <2> SUFFICES ASSUME io \in ConnectPlaces PROVE FALSE
    OBVIOUS
  <2>1. ~okDue /\ cr \in {"NONE", "CONNECT"}
    BY DEF ClientInv, Connecting, ClientCtl, PendingCommand, ConnectPlaces
  <2> QED
    BY <2>1 DEF Chip, ChipOpen, ChipListen, ChipClose, ChipDiscon, ChipSend, ChipRecv, ChipSendOk
<1>2. CtlInv /\ DataInv
  BY <1>1, ClientHalves
<1>3. CtlInv' /\ DataInv'
  BY <1>2, CtlChip, DataChip
<1>4. ClientCtl' /\ ClientData'
  BY <1>3, HalvesClient
<1>5. Moves
  <2>1. cr # "LISTEN"
    BY <1>2 DEF CtlInv, PendingCommand, ClientInv, ClientUpper, ClientTypeOK
  <2>2. /\ cr = "OPEN" => io = "socket.flags"
        /\ cr = "DISCON" => io = "disconnect.flag"
        /\ cr = "CLOSE" => cl = "ir"
    BY <1>2 DEF CtlInv, PendingCommand
  <2> QED
    BY <2>1, <2>2 DEF Moves, Connected, Fins, Chip, ChipOpen, ChipListen, ChipClose, ChipDiscon, ChipSend,
       ChipRecv, ChipSendOk
<1>6. Connecting'
  BY <1>1, <1>5 DEF Moves, ClientInv, Connecting, ioVars, Connected, Fins, ConnectPlaces
<1>7. ClientControl'
  BY <1>5, ControlMoves
<1>8. ClientUpper'
  BY <1>4, UpperKept DEF ClientData
<1> QED
  BY <1>4, <1>6, <1>7, <1>8 DEF ClientInv

(* The chip sends the SYN.                                                 *)
LEMMA InvChipConnect ==
  ASSUME ClientInv, ChipConnect, UNCHANGED <<ioVars, toeVars, appVars>>
  PROVE  ClientInv'
<1>1. /\ cr = "CONNECT" /\ cr' = "NONE"
      /\ io = "connect.sr" /\ cl = "idle" /\ sr = "INIT" /\ sr' = "SYNSENT"
      /\ UNCHANGED <<sipr, ir, rx, rd, staged, tx, okDue, conn, sent, got>>
      /\ UNCHANGED <<io, cl, ioRet, sending, data, len, size>>
  BY DEF ChipConnect, Accept, ClientInv, ClientCtl, ioVars
<1>2. ir = {} /\ ~sending /\ ~okDue /\ rx = <<>> /\ tx = <<>> /\ staged = <<>>
  BY <1>1 DEF ClientInv, ClientCtl, FreshFlags, ClientData, FreshBuffers
<1>3. ClientCtl'
  BY <1>1, <1>2 DEF ClientInv, ClientCtl, CtlTypeOK, CloseNested, CloseWipes, FreshFlags, SendingFlag,
     SendClean, PendingCommand, Connected, Status
<1>4. ChipTypeOK'
  BY <1>1 DEF ClientInv, ClientData, ChipTypeOK, Status
<1>5. ClientData'
  BY <1>1, <1>4 DEF ClientInv, ClientData, BufferBounds, FreshBuffers, SizesHold
<1>6. Connecting'
  BY <1>1, <1>2 DEF Connecting, ConnectPlaces
<1>7. ClientControl'
  BY <1>1, ControlMoves DEF Moves
<1>8. ClientUpper'
  BY <1>4, UpperKept
<1> QED
  BY <1>3, <1>5, <1>6, <1>7, <1>8 DEF ClientInv

(* The answer to the SYN, a refusal, or none.                              *)
LEMMA InvAnswer ==
  ASSUME ClientInv, PeerAnswers \/ PeerRefuses \/ SynTimeout, UNCHANGED <<ioVars, toeVars, appVars>>
  PROVE  ClientInv'
<1>1. /\ sr = "SYNSENT" /\ sr' \in {"ESTABLISHED", "CLOSED"}
      /\ \/ ir' = ir
         \/ ir' = ir \cup {"TIMEOUT"} /\ sr' = "CLOSED"
      /\ \/ UNCHANGED <<conn, sent, got>>
         \/ conn' = conn + 1 /\ sent' = 0 /\ got' = <<>>
      /\ UNCHANGED <<sipr, cr, rx, rd, staged, tx, okDue>>
      /\ UNCHANGED <<io, cl, ioRet, sending, data, len, size>>
  BY DEF PeerAnswers, PeerRefuses, SynTimeout, ioVars
<1>2. /\ io \in ConnectPlaces /\ cl = "idle" /\ rx = <<>> /\ io # "connect" /\ cr # "CONNECT"
      /\ ~sending /\ ~okDue /\ tx = <<>> /\ staged = <<>>
      /\ ir = {}
  BY <1>1 DEF ClientInv, Connecting, ClientCtl, CtlTypeOK, Interrupt
<1>i. ir' \subseteq {"TIMEOUT"} /\ (sr' # "CLOSED" => ir' = {})
  BY <1>1, <1>2
<1>3. ClientCtl'
  BY <1>1, <1>2, <1>i DEF ClientInv, ClientCtl, CtlTypeOK, CloseNested, CloseWipes, FreshFlags, SendingFlag,
     SendClean, PendingCommand, Connected, Status, Interrupt, ConnectPlaces
<1>4. ChipTypeOK'
  <2>1. ir' \in SUBSET Interrupt /\ okDue' \in BOOLEAN /\ cr' \in Command \cup {"NONE"}
    BY <1>3 DEF ClientCtl, CtlTypeOK
  <2>2. <<>> \in Seq(Byte)
    BY EmptySeq
  <2>3. conn' \in Nat /\ sent' \in Nat /\ got' \in Seq(Byte)
    <3>1. conn \in Nat /\ sent \in Nat /\ got \in Seq(Byte)
      BY DEF ClientInv, ClientData, ChipTypeOK
    <3>2. CASE UNCHANGED <<conn, sent, got>>
      BY <3>1, <3>2
    <3>3. CASE conn' = conn + 1 /\ sent' = 0 /\ got' = <<>>
      BY <2>2, <3>1, <3>3
    <3> QED
      BY <1>1, <3>2, <3>3
  <2>4. sipr' \in BOOLEAN /\ sr' \in Status /\ rd' \in 0..Len(rx')
    BY <1>1 DEF ClientInv, ClientData, ChipTypeOK, Status
  <2>5. rx' \in Seq(Byte) /\ staged' \in Seq(Byte) /\ tx' \in Seq(Byte)
    BY <1>1 DEF ClientInv, ClientData, ChipTypeOK
  <2> QED
    BY <2>1, <2>3, <2>4, <2>5 DEF ChipTypeOK
<1>5. ClientData'
  BY <1>1, <1>2, <1>4 DEF ClientInv, ClientData, BufferBounds, FreshBuffers, SizesHold, ConnectPlaces
<1>6. Connecting'
  BY <1>1, <1>2, <1>i DEF Connecting, ConnectPlaces, Connected
<1>7. ClientControl'
  BY <1>1, ControlMoves DEF Moves
<1>8. ClientUpper'
  BY <1>4, UpperKept
<1> QED
  BY <1>3, <1>5, <1>6, <1>7, <1>8 DEF ClientInv

(* The peer acts on a connection only, and never while it is asked for one.*)
LEMMA ClientPeer ==
  ASSUME ClientInv, Peer
  PROVE  sr \in Live /\ cr # "CONNECT" /\ ~PeerHandshake /\ ~PeerConnect
<1>1. sr \notin {"LISTEN", "SYNRECV"}
  BY DEF ClientInv, Connecting
<1>2. sr \in Live
  BY <1>1 DEF Peer, NetworkResolves, PeerHandshake, PeerAck, PeerFinAck, TcpTimeout, PeerConnect, PeerData,
     PeerFin, PeerReset, Live, Connected, Fins
<1> QED
  BY <1>1, <1>2 DEF ClientInv, ClientCtl, Live, Connected, Fins, PeerHandshake, PeerConnect

(* A step of the peer on a connection.                                     *)
LEMMA InvClientPeer ==
  ASSUME ClientInv, Peer, UNCHANGED <<ioVars, toeVars, appVars>>
  PROVE  ClientInv'
<1>1. sr \in Live /\ cr # "CONNECT" /\ ~PeerHandshake /\ ~PeerConnect
  BY ClientPeer
<1>2. CtlInv
  BY <1>1 DEF ClientInv, ClientCtl, CtlInv
<1>3. CtlInv'
  BY <1>2, CtlPeer
<1>4. ClientCtl'
  BY <1>3 DEF CtlInv, PendingCommand, ClientCtl
<1>5. /\ Moves /\ sr' \in {sr, "CLOSED", "CLOSE_WAIT"}
      /\ io' = io /\ cl' = cl /\ UNCHANGED <<cr, staged, okDue, sending>>
  BY <1>1 DEF Peer, NetworkResolves, PeerAck, PeerFinAck, TcpTimeout, PeerData, PeerFin, PeerReset,
     Moves, Live, Connected, Fins, ioVars
<1>6. ClientData' /\ Connecting'
  <2>1. CASE io \notin ConnectPlaces
    <3>1. DataInv'
      BY <1>2, <2>1, ClientHalves, DataPeer
    <3>2. ClientData' /\ io' \notin ConnectPlaces
      BY <1>3, <3>1, HalvesClient
    <3> QED
      BY <1>1, <1>5, <3>2 DEF Connecting, Live, Connected, Fins
  <2>2. CASE io \in ConnectPlaces
    <3>1. sr \in Connected /\ tx = <<>>
      BY <1>1, <2>2 DEF ClientInv, Connecting, Live, Connected, Fins
    <3>2. \/ PeerData
          \/ sr' \in {"CLOSED", "CLOSE_WAIT"} /\ UNCHANGED <<sipr, ir, rx, rd, tx, conn, sent, got>>
      BY <1>1, <3>1 DEF Peer, NetworkResolves, PeerAck, PeerFinAck, TcpTimeout, PeerFin, PeerReset, Connected
    <3>3. ir' = ir /\ tx' = tx
      BY <3>2 DEF PeerData
    <3>4. Connecting'
      BY <1>1, <1>5, <2>2, <3>1, <3>3 DEF ClientInv, Connecting, Live, Connected, Fins
    <3>5. ChipTypeOK' /\ rd' = rd /\ rd <= Len(rx')
      <4>1. CASE PeerData
        <5>1. <<conn, sent + 1>> \in Byte
          BY DEF ClientInv, ClientData, ChipTypeOK, Byte
        <5>2. rx' \in Seq(Byte) /\ Len(rx') = Len(rx) + 1
          BY <4>1, <5>1, AppendProperties DEF PeerData, ClientInv, ClientData, ChipTypeOK
        <5> QED
          BY <1>4, <1>5, <4>1, <5>2, LenProperties DEF PeerData, ClientInv, ClientData, ChipTypeOK
      <4>2. CASE sr' \in {"CLOSED", "CLOSE_WAIT"} /\ UNCHANGED <<sipr, ir, rx, rd, tx, conn, sent, got>>
        BY <1>5, <4>2, LenProperties DEF ClientInv, ClientData, ChipTypeOK, Status
      <4> QED
        BY <3>2, <4>1, <4>2
    <3>6. BufferBounds'
      BY <1>5, <3>3, <3>5 DEF ClientInv, ClientData, BufferBounds
    <3>7. FreshBuffers' /\ SizesHold'
      BY <1>1, <1>5, <2>2 DEF FreshBuffers, SizesHold, ConnectPlaces, Live, Connected, Fins
    <3> QED
      BY <3>4, <3>5, <3>6, <3>7 DEF ClientInv, ClientData, ioVars
  <2> QED
    BY <2>1, <2>2
<1>7. ClientControl'
  BY <1>5, ControlMoves
<1>8. ClientUpper'
  BY <1>6, UpperKept DEF ClientData
<1> QED
  BY <1>4, <1>6, <1>7, <1>8 DEF ClientInv

-----------------------------------------------------------------------------
(* The invariant holds.                                                    *)

(* It holds before the first attempt.                                      *)
LEMMA InitClient == Init => ClientInv
<1> SUFFICES ASSUME Init PROVE ClientInv
  OBVIOUS
<1>0. IInv
  BY InitInv
<1> USE DEF Init, ChipInit, IoInit, ToeInit
<1>1. ClientCtl
  BY <1>0 DEF IInv, CtlInv, ClientCtl
<1>2. ChipTypeOK /\ IoTypeOK /\ ToeTypeOK /\ AppTypeOK
  BY <1>0 DEF IInv, TypeOK
<1>3. ClientData
  BY <1>0, <1>2 DEF IInv, IoTypeOK, ClientData
<1>4. ClientUpper
  <2>1. used \in BOOLEAN /\ opened \in BOOLEAN /\ toeRet \in Int /\ buf \in Seq(Byte) /\ off \in Nat
    BY <1>2 DEF ToeTypeOK, AppTypeOK
  <2>2. IdleBelow
    BY DEF IdleBelow
  <2> QED
    BY <1>2, <2>1, <2>2 DEF ClientUpper, ClientTypeOK
<1>5. Connecting
  BY DEF Connecting, ConnectPlaces
<1>6. ClientControl
  BY DEF ClientControl, ClientRunning, ClientWaiting, ClientDescriptor, ClientStatus, Closed, Fins
<1> QED
  BY <1>1, <1>3, <1>4, <1>5, <1>6 DEF ClientInv

(* Every step of the client, the chip and the network keeps it.            *)
LEMMA StepClient == ClientInv /\ [ClientNext]_vars => ClientInv'
<1> SUFFICES ASSUME ClientInv, [ClientNext]_vars PROVE ClientInv'
  OBVIOUS
<1>1. CASE ClientApp
  BY <1>1, InvClientApp
<1>2. CASE (ConnectToe \/ WiznetToe(BufSize)) /\ UNCHANGED appVars
  BY <1>2, InvClientToe
<1>3. CASE (ConnectC \/ SocketC) /\ UNCHANGED <<toeVars, appVars>>
  BY <1>3, InvConnectC, InvClientSocketC
<1>4. CASE ClientHardware
  BY <1>4, InvClientChip, InvChipConnect DEF ClientHardware
<1>5. CASE ClientNetwork
  BY <1>5, InvClientPeer, InvAnswer DEF ClientNetwork
<1>6. CASE UNCHANGED vars
  <2>1. /\ UNCHANGED <<sipr, sr, cr, ir, rx, rd, staged, tx, okDue, conn, sent, got>>
        /\ UNCHANGED <<io, cl, ioRet, sending, data, len, size>>
        /\ UNCHANGED <<toe, toeRet, used, opened, listening, accepted, app, buf, off>>
    BY <1>6 DEF vars, chipVars, ioVars, toeVars, slot, appVars
  <2>2. ClientCtl'
    BY <2>1 DEF ClientInv, ClientCtl, CtlTypeOK, CloseNested, CloseWipes, FreshFlags, SendingFlag, PendingCommand,
       SendClean
  <2>3. ClientData'
    BY <2>1 DEF ClientInv, ClientData, ChipTypeOK, BufferBounds, FreshBuffers, SizesHold, RX_RSR, TX_FSR
  <2>4. ClientUpper'
    BY <2>1, <2>3 DEF ClientInv, ClientData, ClientUpper, ClientTypeOK, IdleBelow
  <2>5. Connecting' /\ ClientControl'
    BY <2>1 DEF ClientInv, Connecting, ClientControl, ClientRunning, ClientWaiting, ClientDescriptor, ClientStatus, Closed
  <2> QED
    BY <2>2, <2>3, <2>4, <2>5 DEF ClientInv
<1> QED
  BY <1>1, <1>2, <1>3, <1>4, <1>5, <1>6 DEF ClientNext, ClientSoftware

(* Which function of socket.c runs in which one of wiznet_toe.c, and what  *)
(* the status of the client's socket is there (loopback_tcp_client,        *)
(* wiztoe_connect, connect()).                                             *)
THEOREM ClientInvariant == ClientSpec => []ClientInv
<1>1. Init => ClientInv
  BY InitClient
<1>2. ClientInv /\ [ClientNext]_vars => ClientInv'
  BY StepClient
<1> QED
  BY <1>1, <1>2, PTL DEF ClientSpec

(* Every variable of the client stays in its range, and its descriptor     *)
(* never becomes a listener.                                               *)
THEOREM ClientTypesHold == ClientSpec => []ClientTypeOK
<1>1. ClientInv => ClientTypeOK
  BY DEF ClientInv, ClientUpper
<1> QED
  BY <1>1, ClientInvariant, PTL

(* Every attempt of loopback_tcp_client to connect starts with a socket    *)
(* that is closed and a descriptor that is free, and its SYN is sent with  *)
(* no interrupt, flag or byte of an earlier attempt left, although         *)
(* connect() closes nothing when it fails.                                 *)
THEOREM AttemptsAreFresh == ClientSpec => []FreshAttempt
<1>1. ClientInv => FreshAttempt
  <2> SUFFICES ASSUME ClientInv PROVE FreshAttempt
    OBVIOUS
  <2>1. app = "start" => sr = "CLOSED" /\ ~used
    BY DEF ClientInv, ClientControl, ClientWaiting, ClientDescriptor, ClientStatus, Receiving
  <2>2. sr = "INIT" => ir = {} /\ ~sending /\ rx = <<>> /\ tx = <<>> /\ staged = <<>>
    BY DEF ClientInv, ClientCtl, FreshFlags, ClientData, FreshBuffers
  <2>3. sr = "SYNSENT" => ir = {} /\ ~sending /\ rx = <<>> /\ tx = <<>> /\ staged = <<>>
    BY DEF ClientInv, Connecting, ClientCtl, CtlTypeOK, Interrupt
  <2> QED
    BY <2>1, <2>2, <2>3 DEF FreshAttempt
<1> QED
  BY <1>1, ClientInvariant, PTL

-----------------------------------------------------------------------------
(* The stream                                                              *)

(* Loopback sends no greeting.                                             *)
LEMMA NoGreeting == Hello = <<>> /\ Hello' = <<>>
  BY ClientAssumption DEF Hello

(* While it connects the client holds no byte.                             *)
LEMMA NothingInHand ==
  /\ app \notin Resting \cup {"receiving"} => Unsent = <<>> /\ Taken = <<>>
  /\ app' \notin Resting \cup {"receiving"} => Unsent' = <<>> /\ Taken' = <<>>
<1>1. app \notin Resting \cup {"receiving"} => Unsent = <<>> /\ Taken = <<>>
  BY NothingToSend DEF Taken
<1>2. app' \notin Resting \cup {"receiving"} => Unsent' = <<>> /\ Taken' = <<>>
  BY NothingToSend DEF Taken
<1> QED
  BY <1>1, <1>2

(* The pieces of the client's stream are sequences of bytes.               *)
LEMMA ClientFlowTypes ==
  ASSUME ClientInv
  PROVE  FlowTyped
<1>1. CASE app = "connecting"
  <2>1. Unsent = <<>> /\ Taken = <<>>
    BY <1>1, NothingInHand DEF Resting
  <2> QED
    BY <2>1, ChipFlowTypes DEF ClientInv, ClientData, FlowTyped
<1>2. CASE app # "connecting"
  BY <1>2, ClientServes, FlowTypes
<1> QED
  BY <1>1, <1>2

(* The application of the client keeps the stream together.                *)
LEMMA StreamClientApp ==
  ASSUME ClientInv, ClientStream, ClientApp
  PROVE  ClientStream'
<1>0. (sr \in Live => conn > 0) /\ Covered /\ Working /\ EchoConserved
  BY DEF ClientStream
<1>1. io = "idle" /\ UNCHANGED chipVars
  BY ClientAbove
<1>2. /\ UNCHANGED <<sr, cr, conn, sent, got, tx, staged, rx, rd>>
      /\ Unread' = Unread
  BY <1>1 DEF chipVars, Unread
<1>3. sr' \in Live => conn' > 0
  BY <1>0, <1>2
<1>4. Covered'
  BY <1>0, <1>1, <1>2 DEF Covered
<1>5. Working'
  <2>1. CASE SendEcho
    BY <2>1 DEF SendEcho, SendRest, CallSend, Working
  <2>2. CASE ~SendEcho
    <3>1. io' = io
      BY <2>2, Zenon DEF ClientApp, ClientConnect, ClientConnected, ClientRetry, Receive, Received, EchoSent,
         CloseClient, AppGoto, CallToe, ioVars
    <3> QED
      BY <1>1, <3>1 DEF Working, SendPlaces
  <2> QED
    BY <2>1, <2>2
<1>6. ASSUME sr \in Live PROVE FlowNow' = FlowNow
  <2>1. CASE Loop
    <3>1. app # "connecting"
      BY <2>1, Zenon DEF Loop, Receive, Received, SendBanner, BannerSent, SendEcho, EchoSent, CloseClient, AppAt
    <3>2. IInv /\ Lines
      BY <3>1, ClientServes
    <3>3. FlowTyped
      BY ClientFlowTypes
    <3>4. CASE UNCHANGED <<Unsent, Taken, Hello>>
      BY <1>2, <3>4 DEF FlowNow
    <3>5. CASE Unsent = <<>> /\ Unsent' = Taken /\ Taken' = <<>>
      BY <1>2, <3>3, <3>5, EchoTurned
    <3> QED
      BY <1>6, <2>1, <3>2, <3>4, <3>5, LoopFlow
  <2>2. CASE ClientConnect \/ ClientConnected \/ ClientRetry
    <3>1. app \notin Resting \cup {"receiving"} /\ app' \notin Resting \cup {"receiving"}
      BY <2>2 DEF ClientConnect, ClientConnected, ClientRetry, AppAt, AppGoto, Resting
    <3>2. UNCHANGED <<Unsent, Taken>>
      BY <3>1, NothingInHand
    <3> QED
      BY <1>2, <3>2 DEF FlowNow
  <2> QED
    BY <2>1, <2>2 DEF ClientApp, Loop
<1>7. EchoConserved'
  BY <1>0, <1>2, <1>6, NoGreeting, EchoKept
<1> QED
  BY <1>3, <1>4, <1>5, <1>7 DEF ClientStream

(* So does wiznet_toe.c.                                                   *)
LEMMA StreamClientToe ==
  ASSUME ClientInv, ClientStream, ConnectToe \/ WiznetToe(BufSize), UNCHANGED appVars
  PROVE  ClientStream'
<1>0. (sr \in Live => conn > 0) /\ Covered /\ Working /\ EchoConserved
  BY DEF ClientStream
<1>1. io = "idle" /\ UNCHANGED chipVars
  BY ClientAbove
<1>2. /\ UNCHANGED <<sr, cr, conn, sent, got, tx, staged, rx, rd>>
      /\ Unread' = Unread /\ app' = app
  BY <1>1 DEF chipVars, Unread, appVars
<1>3. (sr' \in Live => conn' > 0) /\ Covered'
  BY <1>0, <1>1, <1>2 DEF Covered
<1>4. Working'
  <2>1. io' \in {"idle", "socket", "listen", "connect", "disconnect", "recv", "closing"}
    BY <1>1, Zenon DEF WiznetToe, ListenSocket, ListenListen, ListenDone, AcceptTimeout, AcceptEstablished,
       AcceptClosed, AcceptListen, AcceptDone, SendDone, RecvPoll, RecvEof, RecvWait, RecvTimeout,
       RecvDone, CloseBegin, RearmSocket, RearmListen, RearmDone, CloseFinal, CloseFreed,
       DisconnectIfConnected, Call, CallRecv, CallClose, ioVars,
       ConnectToe, ToeConnect, ToeConnectConnect, ToeConnectDone
  <2> QED
    BY <2>1 DEF Working, SendPlaces
<1>5. FlowNow' = FlowNow
  <2>1. CASE app \notin Resting \cup {"receiving"}
    <3>1. UNCHANGED <<Unsent, Taken>>
      BY <1>2, <2>1, NothingInHand
    <3> QED
      BY <1>2, <3>1 DEF FlowNow
  <2>2. CASE app \in Resting \cup {"receiving"}
    <3>1. toe # "idle"
      BY Zenon DEF WiznetToe, ListenSocket, ListenListen, ListenDone, AcceptTimeout, AcceptEstablished,
         AcceptClosed, AcceptListen, AcceptDone, SendDone, RecvPoll, RecvEof, RecvWait, RecvTimeout,
         RecvDone, CloseBegin, RearmSocket, RearmListen, RearmDone, CloseFinal, CloseFreed, ToeAt,
         ConnectToe, ToeConnect, ToeConnectConnect, ToeConnectDone
    <3>2. toe \in {"send", "recv", "recv.sr", "recv.done"} /\ app # "connecting"
      BY <2>2, <3>1 DEF ClientInv, ClientControl, ClientWaiting, Receiving, Resting
    <3>3. Transfer
      BY <3>2, Zenon DEF Transfer, WiznetToe, ListenSocket, ListenListen, ListenDone, AcceptTimeout, AcceptEstablished,
         AcceptClosed, AcceptListen, AcceptDone, CloseBegin, RearmSocket, RearmListen, RearmDone,
         CloseFinal, CloseFreed, ToeAt, ConnectToe, ToeConnect, ToeConnectConnect, ToeConnectDone
    <3>4. UNCHANGED <<Unsent, Taken>>
      BY <3>2, <3>3, ClientServes, TransferFlow
    <3> QED
      BY <1>2, <3>4 DEF FlowNow
  <2> QED
    BY <2>1, <2>2
<1>6. EchoConserved'
  BY <1>0, <1>2, <1>5, NoGreeting, EchoKept
<1> QED
  BY <1>3, <1>4, <1>6 DEF ClientStream

(* So does socket.c.                                                       *)
LEMMA StreamClientSocketC ==
  ASSUME ClientInv, ClientStream, ConnectC \/ SocketC, UNCHANGED <<toeVars, appVars>>
  PROVE  ClientStream'
<1>0. (sr \in Live => conn > 0) /\ Covered /\ Working /\ EchoConserved
  BY DEF ClientStream
<1>1. CASE SocketC /\ app # "connecting"
  <2>1. IInv /\ Lines
    BY <1>1, ClientServes
  <2>2. Working' /\ Covered' /\ UNCHANGED <<sr, conn>>
    BY <1>0, <1>1, <2>1, WorkingSocketC
  <2>3. sr \in Live => FlowNow' = FlowNow /\ UNCHANGED <<Hello, conn, sent>>
    BY <1>0, <1>1, <2>1, SocketCFlow
  <2>4. EchoConserved'
    BY <1>0, <2>2, <2>3, EchoKept
  <2> QED
    BY <1>0, <2>2, <2>4 DEF ClientStream
<1>2. CASE SocketC /\ app = "connecting"
  <2>1. io \notin ConnectPlaces /\ io # "idle" /\ sr' = sr
    BY <1>2, ClientSocketC
  <2>2. toe = "connect.connect"
    BY <1>2, <2>1 DEF ClientInv, ClientUpper, IdleBelow, ClientControl, ClientWaiting, ClientRunning
  <2>3. sr' \notin Live
    BY <2>1, <2>2 DEF ClientInv, ClientControl, ClientStatus, Live, Connected, Fins
  <2>4. ClientRunning' /\ toe' = "connect.connect"
    BY <1>2, <2>2, ControlClientSocketC DEF ClientControl, toeVars
  <2>5. io' \in SocketPlaces \cup {"idle"}
    BY <2>4 DEF ClientRunning
  <2>6. Working' /\ Covered'
    BY <2>3, <2>5 DEF Working, Covered, SocketPlaces, SendPlaces
  <2> QED
    BY <2>3, <2>6, StreamIsNext DEF ClientStream
<1>3. CASE ConnectC
  <2>1. /\ io \in ConnectPlaces /\ io' \in ConnectPlaces \cup {"idle"}
        /\ UNCHANGED <<sr, rx, rd, staged, tx, conn, sent, got>>
    BY <1>3 DEF ConnectC, ConnectBegin, ConnectStatus, ConnectTimeout, ConnectClosed, At, Goto, Return, chipVars,
       ConnectPlaces
  <2>2. staged = <<>>
    BY <2>1 DEF ClientInv, Connecting
  <2>3. toe = "connect.done"
    BY <2>1 DEF ClientInv, ClientControl, ClientRunning, ConnectPlaces, SocketPlaces, SendPlaces, RecvPlaces,
       DisconnectPlaces
  <2>4. app = "connecting" /\ app' = "connecting"
    BY <2>3 DEF ClientInv, ClientControl, ClientWaiting, Receiving, appVars
  <2>5. Working' /\ Covered'
    BY <2>1, <2>2 DEF Working, Covered, ConnectPlaces, SendPlaces
  <2>6. UNCHANGED <<Unsent, Taken, Unread>>
    BY <2>1, <2>4, NothingInHand DEF Resting, Unread
  <2>7. EchoConserved'
    BY <1>0, <2>1, <2>6, NoGreeting, EchoKept DEF FlowNow
  <2> QED
    BY <1>0, <2>1, <2>5, <2>7 DEF ClientStream
<1> QED
  BY <1>1, <1>2, <1>3

(* So do the chip and the peer, and a connection that is opened begins     *)
(* with an empty stream.                                                   *)
LEMMA StreamClientHardware ==
  ASSUME ClientInv, ClientStream, ClientHardware \/ ClientNetwork
  PROVE  ClientStream'
<1>0. /\ (sr \in Live => conn > 0) /\ Covered /\ Working /\ EchoConserved
      /\ ChipTypeOK /\ FlowTyped
      /\ UNCHANGED <<ioVars, toeVars, appVars>>
  BY ClientFlowTypes DEF ClientStream, ClientInv, ClientData, ClientHardware, ClientNetwork
<1>i. io' = io /\ app' = app
  BY <1>0 DEF ioVars, appVars
<1>w. Working'
  BY <1>0 DEF Working, ioVars, appVars
<1>1. CASE Chip
  <2>1. ~PeerHandshake
    BY <1>1 DEF PeerHandshake, Chip, ChipOpen, ChipListen, ChipClose, ChipDiscon, ChipSend, ChipRecv, ChipSendOk, Accept,
       ClientInv, Connecting
  <2>2. EchoConserved'
    BY <1>0, <1>1, <2>1, EchoWire
  <2>3. sr \in Fins => staged = <<>>
    BY <1>0 DEF Covered, ClientInv, ClientControl, ClientStatus, DisconnectPlaces, Live
  <2>4. (sr' \in Live => conn' > 0) /\ Covered'
    <3> USE <1>0, <1>i, <2>3 DEF Live, Fins, Connected, Covered, Accept
    <3>1. CASE ChipSend
      BY <3>1 DEF ChipSend
    <3>2. CASE ChipOpen \/ ChipListen \/ ChipClose \/ ChipDiscon \/ ChipRecv
      BY <3>2 DEF ChipOpen, ChipListen, ChipClose, ChipDiscon, ChipRecv
    <3>3. CASE ChipSendOk
      BY <3>3 DEF ChipSendOk
    <3> QED
      BY <1>1, <3>1, <3>2, <3>3 DEF Chip
  <2> QED
    BY <1>w, <2>2, <2>4 DEF ClientStream
<1>2. CASE Peer
  <2>1. sr \in Live /\ ~PeerHandshake /\ ~PeerConnect
    BY <1>2, ClientPeer
  <2>2. EchoConserved'
    BY <1>0, <1>2, <2>1, EchoWire
  <2>3. UNCHANGED <<conn, staged, cr>>
    BY <1>2, <2>1 DEF Peer, NetworkResolves, PeerAck, PeerFinAck, TcpTimeout, PeerData, PeerFin, PeerReset
  <2>4. Covered'
    BY <1>0, <1>i, <2>1, <2>3 DEF Covered
  <2> QED
    BY <1>0, <1>w, <2>1, <2>2, <2>3, <2>4 DEF ClientStream
<1>3. CASE ChipConnect \/ PeerRefuses \/ SynTimeout
  <2>1. sr' \notin Live
    BY <1>3 DEF ChipConnect, Accept, PeerRefuses, SynTimeout, ClientInv, ClientCtl, Live, Connected, Fins
  <2> QED
    BY <1>w, <2>1, StreamIsNext DEF ClientStream, Covered
<1>4. CASE PeerAnswers
  <2>1. /\ sr = "SYNSENT" /\ conn' = conn + 1 /\ sent' = 0 /\ got' = <<>>
        /\ UNCHANGED <<tx, staged, rx, rd, cr>>
    BY <1>4 DEF PeerAnswers
  <2>2. io \in ConnectPlaces /\ rx = <<>> /\ tx = <<>> /\ staged = <<>>
    BY <2>1 DEF ClientInv, Connecting
  <2>3. toe = "connect.done"
    BY <2>2 DEF ClientInv, ClientControl, ClientRunning, ConnectPlaces, SocketPlaces, SendPlaces, RecvPlaces,
       DisconnectPlaces
  <2>4. app = "connecting"
    BY <2>3 DEF ClientInv, ClientControl, ClientWaiting, Receiving
  <2>5. Unsent = <<>> /\ Taken = <<>>
    BY <2>4, NothingInHand DEF Resting
  <2>6. conn' \in Nat /\ conn' > 0
    BY <1>0, <2>1 DEF ChipTypeOK
  <2>7. EchoConserved'
    BY <1>0, <2>1, <2>2, <2>5, <2>6, NoGreeting, EchoBegins
  <2> QED
    BY <1>w, <2>1, <2>2, <2>6, <2>7 DEF ClientStream, Covered
<1> QED
  BY <1>1, <1>2, <1>3, <1>4 DEF ClientHardware, ClientNetwork

(* Every step of the client, the chip and the network keeps the stream.    *)
LEMMA StepClientStream == ClientInv /\ ClientStream /\ [ClientNext]_vars => ClientStream'
<1> SUFFICES ASSUME ClientInv, ClientStream, [ClientNext]_vars PROVE ClientStream'
  OBVIOUS
<1>1. CASE ClientApp
  BY <1>1, StreamClientApp
<1>2. CASE (ConnectToe \/ WiznetToe(BufSize)) /\ UNCHANGED appVars
  BY <1>2, StreamClientToe
<1>3. CASE (ConnectC \/ SocketC) /\ UNCHANGED <<toeVars, appVars>>
  BY <1>3, StreamClientSocketC
<1>4. CASE ClientHardware \/ ClientNetwork
  BY <1>4, StreamClientHardware
<1>5. CASE UNCHANGED vars
  <2>1. UNCHANGED <<chipVars, ioVars, toeVars, appVars>>
    BY <1>5 DEF vars
  <2>2. UNCHANGED <<sr, cr, rx, rd, staged, tx, conn, sent, got, io, len, data, buf, off>>
    BY <2>1 DEF chipVars, ioVars, appVars
  <2>3. UNCHANGED <<Unsent, Taken>> /\ Unread' = Unread
    BY <2>1, <2>2, SoftwareHolds DEF Unread
  <2>4. EchoConserved'
    BY <2>2, <2>3, NoGreeting, EchoKept DEF ClientStream, FlowNow
  <2> QED
    BY <2>2, <2>4 DEF ClientStream, Covered, Working
<1> QED
  BY <1>1, <1>2, <1>3, <1>4, <1>5 DEF ClientNext, ClientSoftware

(* The whole invariant of the client: its control and its stream.          *)
THEOREM ClientEchoInvariant == ClientSpec => []ClientEchoInv
<1>1. Init => ClientEchoInv
  <2>1. Init => ClientStream
    BY DEF Init, ChipInit, IoInit, ClientStream, Covered, Working, EchoConserved, Live, Fins, Connected, SendPlaces
  <2> QED
    BY <2>1, InitClient DEF ClientEchoInv
<1>2. ClientEchoInv /\ [ClientNext]_vars => ClientEchoInv'
  BY StepClient, StepClientStream DEF ClientEchoInv
<1> QED
  BY <1>1, <1>2, PTL DEF ClientSpec

(* No byte the server sends to loopback_tcp_client is lost, doubled,       *)
(* reordered or mixed with one of an earlier connection on its way back.   *)
THEOREM ClientEchoIsConserved == ClientSpec => []EchoConserved
<1>1. ClientEchoInv => EchoConserved
  BY DEF ClientEchoInv, ClientStream
<1> QED
  BY <1>1, ClientEchoInvariant, PTL

(* When the client closes, everything it has read is on its way back.      *)
THEOREM ClientEchoedFirst == ClientSpec => []EchoedBeforeFin
<1>1. ClientEchoInv => EchoedBeforeFin
  <2> SUFFICES ASSUME ClientInv, ClientStream, sr \in Fins PROVE got \o tx \o Unread = Stream
    BY DEF ClientEchoInv, EchoedBeforeFin, Fins
  <2>1. io \in DisconnectPlaces /\ toe = "close.final"
    BY DEF ClientInv, ClientControl, ClientStatus
  <2>2. app = "closing"
    BY <2>1 DEF ClientInv, ClientControl, ClientWaiting, Receiving
  <2>3. Unsent = <<>> /\ Taken = <<>>
    BY <2>2, NothingInHand DEF Resting
  <2> QED
    BY <2>1, <2>3, NothingHeld DEF ClientStream, DisconnectPlaces, ClientInv, ClientData
<1> QED
  BY <1>1, ClientEchoInvariant, PTL

(* What the server sees of a step of the client: a connection, a byte it   *)
(* sends, more of what it was promised, or nothing.                        *)
LEMMA ClientEchoStep ==
  ASSUME ClientInv, ClientStream, [ClientNext]_vars
  PROVE  [Echo!Next]_(Echo!vars)
<1>1. UNCHANGED <<conn, sent, got>> => [Echo!Next]_(Echo!vars)
  BY DEF Echo!vars
<1>2. CASE ClientApp \/ ConnectToe \/ WiznetToe(BufSize)
  BY <1>1, <1>2, ClientAbove DEF chipVars
<1>3. CASE ConnectC
  <2>1. UNCHANGED <<conn, sent, got>>
    BY <1>3 DEF ConnectC, ConnectBegin, ConnectStatus, ConnectTimeout, ConnectClosed, chipVars
  <2> QED
    BY <1>1, <2>1
<1>4. CASE SocketC
  <2>1. UNCHANGED <<conn, sent, got>>
    BY <1>4, Zenon DEF SocketC, CloseCommand, CloseClear, CloseWait, CloseReturn, SocketBegin, SocketOpen,
       SocketFlags, SocketWait, ListenBegin, ListenCheck, DisconnectBegin, DisconnectFlag,
       DisconnectStatus, DisconnectTimeout, SendBegin, SendPrevious, SendFreeSize, SendStatus,
       SendData, SendAccepted, RecvSize, RecvStatus, RecvData, RecvAccepted, chipVars
  <2> QED
    BY <1>1, <2>1
<1>5. CASE Chip \/ ChipConnect
  <2>1. UNCHANGED <<conn, sent, got>>
    BY <1>5 DEF Chip, ChipOpen, ChipListen, ChipClose, ChipDiscon, ChipSend, ChipRecv, ChipSendOk, ChipConnect
  <2> QED
    BY <1>1, <2>1
<1>6. CASE PeerAnswers
  BY <1>6 DEF PeerAnswers, Echo!Connect, Echo!Next
<1>7. CASE PeerRefuses \/ SynTimeout
  BY <1>1, <1>7 DEF PeerRefuses, SynTimeout
<1>8. CASE PeerData
  <2>1. conn > 0
    BY <1>8 DEF PeerData, ClientStream, Live, Connected
  <2>2. Echo!Send
    BY <1>8, <2>1 DEF PeerData, Echo!Send
  <2> QED
    BY <2>2 DEF Echo!Next
<1>9. CASE PeerAck
  <2>1. Echo!Promised(conn, sent) = Stream
    BY ClientAssumption DEF Echo!Promised, Echo!Greeted, Stream
  <2>2. Echo!Reply
    BY <1>9, <2>1, ClientFlowTypes, EchoAnswers DEF ClientStream, ClientInv, ClientData
  <2> QED
    BY <2>2 DEF Echo!Next
<1>10. CASE Peer /\ ~PeerData /\ ~PeerAck
  <2>1. ~PeerConnect
    BY <1>10, ClientPeer
  <2>2. UNCHANGED <<conn, sent, got>>
    BY <1>10, <2>1 DEF Peer, NetworkResolves, PeerHandshake, PeerFinAck, TcpTimeout, PeerFin, PeerReset
  <2> QED
    BY <1>1, <2>2
<1>11. CASE UNCHANGED vars
  BY <1>1, <1>11 DEF vars, chipVars
<1> QED
  BY <1>2, <1>3, <1>4, <1>5, <1>6, <1>7, <1>8, <1>9, <1>10, <1>11
     DEF ClientNext, ClientSoftware, ClientHardware, ClientNetwork

(* The client implements the echo service for the server it is connected   *)
(* to: the server gets its own bytes back, in order, and nothing else.     *)
THEOREM ClientEchoServiceImplemented == ClientSpec => EchoServiceSpec
<1>1. Init => Echo!Init
  BY DEF Init, ChipInit, Echo!Init
<1>2. ClientEchoInv /\ [ClientNext]_vars => [Echo!Next]_(Echo!vars)
  BY ClientEchoStep DEF ClientEchoInv
<1> QED
  BY <1>1, <1>2, ClientEchoInvariant, PTL DEF ClientSpec, EchoServiceSpec, Echo!Spec
=============================================================================
