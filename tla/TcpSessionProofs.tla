-------------------------- MODULE TcpSessionProofs --------------------------
(***************************************************************************)
(* Proofs of what the layers of the echo servers do together: no byte of   *)
(* the echo is lost while the connection is up (EchoConserved), the server *)
(* sends its FIN only when all it has read is on its way back              *)
(* (EchoedBeforeFin), and a client sees the echo service of EchoService    *)
(* (EchoServiceSpec).  They hold for every size of the buffers, every      *)
(* number of connections and bytes, both applications, and with or without *)
(* a receive timeout.                                                      *)
(*                                                                         *)
(* The inductive invariant is SessionInv, beside IInv of TcpServerProofs.  *)
(* Its part Control says which function of socket.c runs inside which      *)
(* function of wiznet_toe.c, which of these inside which line of the       *)
(* application, and what the status of the socket can then be.  That is    *)
(* what the conservation of the stream rests on: a byte changes hands at   *)
(* a step of one layer, and every other layer must be where it neither     *)
(* counts that byte twice nor forgets it.                                  *)
(***************************************************************************)
EXTENDS TcpServerProofs

-----------------------------------------------------------------------------
(* Where the functions of socket.c are while one of wiznet_toe.c waits.    *)
SocketPlaces == {"socket", "socket.open", "socket.flags", "socket.sr"}
ListenPlaces == {"listen", "listen.sr", "closing"}
DisconnectPlaces == {"disconnect", "disconnect.flag", "disconnect.sr", "disconnect.ir", "closing"}
SendPlaces == {"send", "send.ir", "send.fsr", "send.sr", "send.data", "send.cr"}
RecvPlaces == {"recv", "recv.sr", "recv.data", "recv.cr"}

Running ==
  io # "idle" =>
    \/ toe \in {"listen.listen", "accept.listen", "close.listen"} /\ io \in SocketPlaces
    \/ toe \in {"listen.done", "accept.done", "close.done"} /\ io \in ListenPlaces
    \/ toe = "send" /\ io \in SendPlaces \cup {"closing"}
    \/ toe = "recv.done" /\ io \in RecvPlaces \cup {"closing"}
    \/ toe \in {"close.socket", "close.final"} /\ io \in DisconnectPlaces
    \/ toe = "close.freed" /\ io = "closing"

(* The server closes its listener for good.                                *)
GivingUp == app = "giving up"

(* Which function of wiznet_toe.c the application waits for.               *)
Serving ==
  toe # "idle" =>
    \/ app = "listen" /\ toe \in {"listen", "listen.listen", "listen.done"}
    \/ app = "accepting" /\ toe \in {"accept", "accept.listen", "accept.done"}
    \/ app \in {"bannering", "sending"} /\ toe = "send"
    \/ app = "receiving" /\ toe \in {"recv", "recv.sr", "recv.done"}
    \/ app = "closing" /\ toe \in {"close", "close.socket", "close.listen", "close.done"}
    \/ GivingUp /\ toe \in {"close", "close.final", "close.freed"}

(* The descriptor: whether it listens, and whether it has a client.        *)
Descriptor ==
  /\ app \in {"accept", "accepting", "closing"} \/ InSession => listening
  /\ InSession => accepted
  /\ app = "listen" /\ toe = "idle" => (listening <=> toeRet >= 0)
  /\ app = "accepting" /\ toe = "idle" /\ toeRet >= 0 => accepted
  /\ app \in {"start", "giveup"} \/ GivingUp \/ (app = "listen" /\ toe # "idle") => ~listening

Fins == {"FIN_WAIT", "LAST_ACK"}
Live == Connected \cup Fins

(* What the status of the socket can be where the software has seen it.    *)
Finishing == sr \in Fins => io \in DisconnectPlaces /\ toe \in {"close.socket", "close.final"}
Closed ==
  \/ io = "closing" /\ cl = "idle"
  \/ toe = "close.socket" /\ io = "idle"
  \/ toe = "send" /\ io = "idle" /\ ioRet < 0
  \/ app \in {"bannering", "sending"} /\ toe = "idle" /\ toeRet < 0
  => sr = "CLOSED"
InUse ==
  /\ InSession => sr \in Live \cup {"CLOSED"}
  /\ app = "accepting" /\ toe = "idle" /\ toeRet >= 0 => sr \in Connected \cup {"CLOSED"}

(* What is staged is covered by a SEND.                                    *)
Covered == sr \in Live /\ staged # <<>> => io = "send.cr" /\ cr = "SEND"

Untouched ==
  /\ sr \in Live \cup {"SYNRECV"} => conn > 0
  /\ sr \in Live \cup {"SYNRECV"} /\ ~InSession => got = <<>> /\ tx = <<>> /\ staged = <<>>
  /\ sr = "SYNRECV" => sent = 0
  /\ Covered

Working ==
  /\ io \in SendPlaces => data = SubSeq(buf, off + 1, Len(buf))
  /\ io = "recv.cr" => len = Len(data)

Control == Running /\ Serving /\ Descriptor /\ Finishing /\ Closed /\ InUse

(* What the stream needs of that: who sends and who receives.              *)
Receiving == {"recv", "recv.sr", "recv.done"}
Lines ==
  /\ app \in {"bannering", "sending"} => toe \in {"idle", "send"}
  /\ app = "receiving" => toe \in Receiving \cup {"idle"}
  /\ toe = "send" => app \in {"bannering", "sending"} /\ io \in SendPlaces \cup {"closing", "idle"}
  /\ toe \in Receiving => app = "receiving" /\ io \in RecvPlaces \cup {"closing", "idle"}
  /\ toe \in {"recv", "recv.sr"} => io = "idle"
  /\ io \in SendPlaces => toe = "send"
  /\ io \in RecvPlaces => toe = "recv.done"
  /\ Closed

SessionInv == Control /\ Untouched /\ Working /\ EchoConserved

-----------------------------------------------------------------------------
(* Control: the layers stand where they may stand.                         *)

(* A step of the application leaves the layers where they may stand.       *)
LEMMA ControlApp ==
  ASSUME IInv, Control, App
  PROVE  Control'
<1>0. IdleBelow /\ toeRet \in Int /\ ioRet \in Int
  BY DEF IInv, TypeOK, IoTypeOK, ToeTypeOK
<1>s. toeRet < 0 \/ toeRet >= 0
  BY <1>0
<1> USE <1>0 DEF Control, GivingUp, Running, SendPlaces, Serving, Descriptor, Finishing, Closed, InUse, InSession, Fins, Live, Connected,
    IdleBelow, AppAt, AppGoto, CallToe, CallSend, SendRest, ioVars, toeVars, slot, chipVars
<1>1. CASE Start
  BY <1>1 DEF Start
<1>2. CASE Listened
  BY <1>2 DEF Listened
<1>3. CASE GiveUp
  BY <1>3 DEF GiveUp
<1>4. CASE Exit
  BY <1>4 DEF Exit
<1>5. CASE AcceptClient
  BY <1>5 DEF AcceptClient
<1>6. CASE Accepted
  <2>1. /\ app = "accepting" /\ toe = "idle"
        /\ UNCHANGED <<toe, toeRet, listening, accepted, io, ioRet, cl, sr>>
    BY <1>6 DEF Accepted
  <2>2. CASE toeRet < 0
    <3>1. app' = "accept"
      BY <1>6, <2>2 DEF Accepted
    <3> QED
      BY <2>1, <3>1
  <2>3. CASE toeRet >= 0
    <3>1. app' \in {"banner", "recv"}
      BY <1>6, <2>3 DEF Accepted
    <3> QED
      BY <2>1, <2>3, <3>1
  <2> QED
    BY <1>s, <2>2, <2>3, Zenon
<1>7. CASE SendBanner
  <2>1. /\ app = "banner" /\ toe = "idle"
        /\ app' = "bannering" /\ toe' = "send" /\ io' = "send"
        /\ UNCHANGED <<toeRet, listening, accepted, cl, ioRet, sr>>
    BY <1>7 DEF SendBanner
  <2> QED
    BY <2>1
<1>8. CASE BannerSent
  BY <1>8 DEF BannerSent
<1>9. CASE Receive
  BY <1>9 DEF Receive
<1>10. CASE Received
  BY <1>10 DEF Received
<1>11. CASE SendEcho
  <2>1. /\ app = "send" /\ toe = "idle"
        /\ app' = "sending" /\ toe' = "send" /\ io' = "send"
        /\ UNCHANGED <<toeRet, listening, accepted, cl, ioRet, sr>>
    BY <1>11 DEF SendEcho
  <2> QED
    BY <2>1
<1>12. CASE EchoSent
  BY <1>12 DEF EchoSent
<1>13. CASE CloseClient
  BY <1>13 DEF CloseClient
<1>14. CASE ClientClosed
  BY <1>14 DEF ClientClosed
<1> QED
  BY <1>1, <1>2, <1>3, <1>4, <1>5, <1>6, <1>7, <1>8, <1>9, <1>10, <1>11, <1>12, <1>13, <1>14 DEF App

(* A step of wiznet_toe.c leaves the layers where they may stand.          *)
LEMMA ControlToe ==
  ASSUME IInv, Control, WiznetToe(BufSize), UNCHANGED appVars
  PROVE  Control'
<1>0. IdleBelow /\ toeRet \in Int /\ ioRet \in Int
  BY DEF IInv, TypeOK, IoTypeOK, ToeTypeOK
<1>g. GivingUp' = GivingUp
  BY DEF GivingUp, appVars
<1> USE <1>0, <1>g DEF Control, Running, Serving, Descriptor, Finishing, Closed, InUse, InSession, Fins, Live, Connected,
    SocketPlaces, ListenPlaces, DisconnectPlaces, SendPlaces, RecvPlaces,
    IdleBelow, ToeAt, ToeGoto, ToeReturn, Call, CallClose, CallRecv, ioVars, slot, chipVars, appVars,
    sn, SOCK_OK, WIZTOE_ERR_TIMEOUT, DisconnectIfConnected
<1>1. CASE ListenSocket
  BY <1>1 DEF ListenSocket
<1>2. CASE ListenListen
  BY <1>2 DEF ListenListen
<1>3. CASE ListenDone
  <2>1. /\ toe = "listen.done" /\ io = "idle" /\ toe' = "idle"
        /\ \/ listening' /\ toeRet' = 0
           \/ listening' = listening /\ toeRet' = -1
        /\ UNCHANGED <<app, accepted, io, cl, ioRet, sr>>
    BY <1>3 DEF ListenDone
  <2>2. app = "listen" /\ ~listening
    BY <2>1
  <2>3. listening' <=> toeRet' >= 0
    BY <2>1, <2>2
  <2>4. ~GivingUp
    BY <2>2, Zenon DEF GivingUp
  <2>5. Descriptor'
    BY <2>1, <2>2, <2>3, <2>4
  <2> QED
    BY <2>1, <2>2, <2>5
<1>4. CASE AcceptTimeout
  BY <1>4 DEF AcceptTimeout
<1>5. CASE AcceptEstablished
  BY <1>5 DEF AcceptEstablished
<1>6. CASE AcceptClosed
  BY <1>6 DEF AcceptClosed
<1>7. CASE AcceptListen
  BY <1>7 DEF AcceptListen
<1>8. CASE AcceptDone
  BY <1>8 DEF AcceptDone
<1>9. CASE SendDone
  BY <1>9 DEF SendDone
<1>10. CASE RecvPoll(BufSize)
  BY <1>10 DEF RecvPoll
<1>11. CASE RecvEof
  BY <1>11 DEF RecvEof
<1>12. CASE RecvWait
  BY <1>12 DEF RecvWait
<1>13. CASE RecvTimeout
  BY <1>13 DEF RecvTimeout
<1>14. CASE RecvDone
  BY <1>14 DEF RecvDone
<1>15. CASE CloseBegin
  BY <1>15 DEF CloseBegin
<1>16. CASE RearmSocket
  BY <1>16 DEF RearmSocket
<1>17. CASE RearmListen
  BY <1>17 DEF RearmListen
<1>18. CASE RearmDone
  BY <1>18 DEF RearmDone
<1>19. CASE CloseFinal
  BY <1>19 DEF CloseFinal
<1>20. CASE CloseFreed
  <2>1. /\ toe = "close.freed" /\ io = "idle" /\ toe' = "idle" /\ ~listening'
        /\ UNCHANGED <<app, io, cl, ioRet, sr>>
    BY <1>20 DEF CloseFreed
  <2>2. GivingUp /\ app \notin {"accept", "accepting", "listen"} /\ ~InSession
    BY <2>1, Zenon DEF GivingUp
  <2>3. ~InSession' /\ app # "closing"
    BY <2>1, <2>2, Zenon DEF GivingUp
  <2> QED
    BY <2>1, <2>2, <2>3
<1> QED
  BY <1>1, <1>2, <1>3, <1>4, <1>5, <1>6, <1>7, <1>8, <1>9, <1>10, <1>11, <1>12, <1>13, <1>14, <1>15, <1>16, <1>17, <1>18, <1>19, <1>20 DEF WiznetToe

(* A step of socket.c leaves the layers where they may stand.              *)
LEMMA ControlSocketC ==
  ASSUME IInv, Control, SocketC, UNCHANGED <<toeVars, appVars>>
  PROVE  Control'
<1>0. IdleBelow /\ toeRet \in Int /\ ioRet \in Int /\ len \in Nat
  BY DEF IInv, TypeOK, IoTypeOK, ToeTypeOK
<1>00. CtlInv
  BY DEF IInv
<1>n. ~(len < 0) /\ ~(0 < 0)
  BY <1>0
<1>g. GivingUp' = GivingUp
  BY DEF GivingUp, appVars
<1> USE <1>0, <1>g, <1>n DEF Control, Running, Serving, Descriptor, Finishing, Closed, InUse, InSession, Fins, Live, Connected,
    SocketPlaces, ListenPlaces, DisconnectPlaces, SendPlaces, RecvPlaces,
    IdleBelow, At, Goto, Return, CloseThenReturn, toeVars, slot, chipVars, appVars,
    sn, SOCK_OK, SOCK_BUSY, SOCKERR_SOCKINIT, SOCKERR_SOCKCLOSED, SOCKERR_SOCKSTATUS, SOCKERR_TIMEOUT
<1>1. CASE CloseCommand
  BY <1>1 DEF CloseCommand
<1>2. CASE CloseClear
  BY <1>2 DEF CloseClear
<1>3. CASE CloseWait
  BY <1>3 DEF CloseWait
<1>4. CASE CloseReturn
  BY <1>4 DEF CloseReturn
<1>5. CASE SocketBegin
  BY <1>5 DEF SocketBegin
<1>6. CASE SocketOpen
  BY <1>6 DEF SocketOpen
<1>7. CASE SocketFlags
  BY <1>7 DEF SocketFlags
<1>8. CASE SocketWait
  BY <1>8 DEF SocketWait
<1>9. CASE ListenBegin
  BY <1>9 DEF ListenBegin
<1>10. CASE ListenCheck
  BY <1>10 DEF ListenCheck
<1>11. CASE DisconnectBegin
  BY <1>11 DEF DisconnectBegin
<1>12. CASE DisconnectFlag
  BY <1>12 DEF DisconnectFlag
<1>13. CASE DisconnectStatus
  BY <1>13 DEF DisconnectStatus
<1>14. CASE DisconnectTimeout
  BY <1>14 DEF DisconnectTimeout
<1>15. CASE SendBegin
  BY <1>15 DEF SendBegin
<1>16. CASE SendPrevious
  <2>1. /\ io = "send.ir" /\ cl = "idle" /\ sr' = sr
        /\ \/ io' = "send.fsr" /\ UNCHANGED <<cl, ioRet>>
           \/ io' = "closing" /\ cl' = "cmd"
           \/ io' = "idle" /\ ioRet' = 0 /\ UNCHANGED cl
        /\ UNCHANGED <<toe, toeRet, listening, accepted, app>>
    BY <1>16 DEF SendPrevious
  <2> QED
    BY <2>1
<1>17. CASE SendFreeSize
  BY <1>17 DEF SendFreeSize
<1>18. CASE SendStatus
  BY <1>18 DEF SendStatus
<1>19. CASE SendData
  BY <1>19 DEF SendData
<1>20. CASE SendAccepted
  <2>1. /\ io = "send.cr" /\ cl = "idle" /\ sr' = sr
        /\ io' = "idle" /\ ioRet' = len /\ cl' = cl
        /\ UNCHANGED <<toe, toeRet, listening, accepted, app>>
    BY <1>20 DEF SendAccepted
  <2> QED
    BY <2>1
<1>21. CASE RecvSize
  BY <1>21 DEF RecvSize
<1>22. CASE RecvStatus
  BY <1>22 DEF RecvStatus
<1>23. CASE RecvData
  BY <1>23 DEF RecvData
<1>24. CASE RecvAccepted
  BY <1>24 DEF RecvAccepted
<1> QED
  BY <1>1, <1>2, <1>3, <1>4, <1>5, <1>6, <1>7, <1>8, <1>9, <1>10, <1>11, <1>12, <1>13, <1>14, <1>15, <1>16, <1>17, <1>18, <1>19, <1>20, <1>21, <1>22, <1>23, <1>24 DEF SocketC

(* The chip and the peer change the status of the socket only as the       *)
(* software that waits for it allows.                                      *)
LEMMA ControlChip ==
  ASSUME IInv, Control, Chip \/ Peer, UNCHANGED <<ioVars, toeVars, appVars>>
  PROVE  Control'
<1>0. IdleBelow /\ toeRet \in Int /\ ioRet \in Int
  BY DEF IInv, TypeOK, IoTypeOK, ToeTypeOK
<1>00. PendingCommand /\ CloseNested
  BY DEF IInv, CtlInv
<1>g. GivingUp' = GivingUp
  BY DEF GivingUp, appVars
<1> USE <1>0, <1>g, <1>00 DEF Control, Running, Serving, Descriptor, Finishing, Closed, InUse, InSession, Fins, Live, Connected,
    SocketPlaces, ListenPlaces, DisconnectPlaces, SendPlaces, RecvPlaces,
    IdleBelow, Accept, ioVars, toeVars, slot, appVars, PendingCommand, CloseNested
<1>1. CASE ChipOpen
  BY <1>1 DEF ChipOpen
<1>2. CASE ChipListen
  BY <1>2 DEF ChipListen
<1>3. CASE ChipClose
  BY <1>3 DEF ChipClose
<1>4. CASE ChipDiscon
  BY <1>4 DEF ChipDiscon
<1>5. CASE ChipSend
  BY <1>5 DEF ChipSend
<1>6. CASE ChipRecv
  BY <1>6 DEF ChipRecv
<1>7. CASE ChipSendOk
  BY <1>7 DEF ChipSendOk
<1>8. CASE PeerHandshake
  BY <1>8 DEF PeerHandshake
<1>9. CASE PeerAck
  BY <1>9 DEF PeerAck
<1>10. CASE PeerFinAck
  BY <1>10 DEF PeerFinAck
<1>11. CASE TcpTimeout
  BY <1>11 DEF TcpTimeout
<1>12. CASE PeerConnect
  BY <1>12 DEF PeerConnect
<1>13. CASE PeerData
  BY <1>13 DEF PeerData
<1>14. CASE PeerFin
  BY <1>14 DEF PeerFin
<1>15. CASE PeerReset
  BY <1>15 DEF PeerReset
<1> QED
  BY <1>1, <1>2, <1>3, <1>4, <1>5, <1>6, <1>7, <1>8, <1>9, <1>10, <1>11, <1>12, <1>13, <1>14, <1>15 DEF Chip, Peer, NetworkResolves

(* Where the layers stand, the stream has its sender and its receiver.     *)
LEMMA ControlLines ==
  ASSUME IInv, Control
  PROVE  Lines
<1> USE DEF Control, Running, Serving, GivingUp, IInv, IdleBelow, Receiving,
    SocketPlaces, ListenPlaces, DisconnectPlaces, SendPlaces, RecvPlaces
<1>1. app \in {"bannering", "sending"} => toe \in {"idle", "send"}
  OBVIOUS
<1>2. app = "receiving" => toe \in Receiving \cup {"idle"}
  OBVIOUS
<1>3. toe = "send" => app \in {"bannering", "sending"} /\ io \in SendPlaces \cup {"closing", "idle"}
  OBVIOUS
<1>4. toe \in Receiving => app = "receiving" /\ io \in RecvPlaces \cup {"closing", "idle"}
  OBVIOUS
<1>5. toe \in {"recv", "recv.sr"} => io = "idle"
  OBVIOUS
<1>6. (io \in SendPlaces => toe = "send") /\ (io \in RecvPlaces => toe = "recv.done")
  OBVIOUS
<1> QED
  BY <1>1, <1>2, <1>3, <1>4, <1>5, <1>6, Zenon DEF Lines

-----------------------------------------------------------------------------
(* Sequences of bytes                                                      *)

(* All of b but its first o bytes.                                         *)
Rest(b, o) == SubSeq(b, o + 1, Len(b))

(* A rest is a sequence: all of b, or nothing.                             *)
LEMMA RestIs ==
  ASSUME NEW b \in Seq(Byte), NEW o \in Nat
  PROVE  /\ Rest(b, o) \in Seq(Byte)
         /\ Len(Rest(b, o)) = IF o <= Len(b) THEN Len(b) - o ELSE 0
         /\ o = 0 => Rest(b, o) = b
         /\ o >= Len(b) => Rest(b, o) = <<>>
<1>0. Len(b) \in Nat /\ b \in [1..Len(b) -> Byte]
  BY LenProperties
<1>1. \A i \in o + 1 .. Len(b) : b[i] \in Byte
  BY <1>0
<1>2. /\ SubSeq(b, o + 1, Len(b)) \in Seq(Byte)
      /\ Len(SubSeq(b, o + 1, Len(b))) = IF o + 1 <= Len(b) THEN Len(b) - (o + 1) + 1 ELSE 0
  BY <1>0, <1>1, SubSeqProperties
<1>3. o = 0 => Rest(b, o) = b
  <2>1. SubSeq(b, 1, Len(b)) = b
    BY SubSeqFull
  <2> QED
    BY <2>1 DEF Rest
<1>4. o >= Len(b) => Rest(b, o) = <<>>
  BY <1>0, SubSeqEmpty DEF Rest
<1> QED
  BY <1>0, <1>2, <1>3, <1>4 DEF Rest

(* A rest is its first n bytes and a smaller rest.                         *)
LEMMA RestSplit ==
  ASSUME NEW b \in Seq(Byte), NEW o \in Nat, NEW n \in Nat, o + n <= Len(b)
  PROVE  Rest(b, o) = SubSeq(b, o + 1, o + n) \o Rest(b, o + n)
<1>1. Len(b) \in Nat
  BY LenProperties
<1>2. /\ o + 1 \in 1..Len(b) + 1 /\ o + n \in (o + 1) - 1 .. Len(b)
      /\ Len(b) \in o + n .. Len(b)
  BY <1>1
<1>3. SubSeq(b, o + 1, o + n) \o SubSeq(b, (o + n) + 1, Len(b)) = SubSeq(b, o + 1, Len(b))
  BY <1>2, ConcatAdjacentSubSeq
<1> QED
  BY <1>3 DEF Rest

(* What send() stages of the part it was given is the front of that part.  *)
LEMMA RestFront ==
  ASSUME NEW b \in Seq(Byte), NEW o \in Nat, NEW n \in Nat, n <= Len(Rest(b, o))
  PROVE  Rest(b, o) = SubSeq(Rest(b, o), 1, n) \o Rest(b, o + n)
<1>1. Len(b) \in Nat /\ Len(Rest(b, o)) = IF o <= Len(b) THEN Len(b) - o ELSE 0
  BY RestIs, LenProperties
<1>2. CASE n > 0
  <2>1. /\ o + 1 \in 1..Len(b) /\ Len(b) \in 1..Len(b)
        /\ 1 \in 1..Len(b) - (o + 1) + 1 /\ n \in 1..Len(b) - (o + 1) + 1
    BY <1>1, <1>2
  <2>2. SubSeq(SubSeq(b, o + 1, Len(b)), 1, n) = SubSeq(b, (o + 1) + 1 - 1, (o + 1) + n - 1)
    BY <2>1, SubSeqOfSubSeq
  <2>3. (o + 1) + 1 - 1 = o + 1 /\ (o + 1) + n - 1 = o + n /\ o + n <= Len(b)
    BY <1>1, <1>2
  <2>4. SubSeq(Rest(b, o), 1, n) = SubSeq(b, o + 1, o + n)
    BY <2>2, <2>3 DEF Rest
  <2>5. Rest(b, o) = SubSeq(b, o + 1, o + n) \o Rest(b, o + n)
    BY <2>3, RestSplit
  <2> QED
    BY <2>4, <2>5
<1>3. CASE n = 0
  <2>1. SubSeq(Rest(b, o), 1, 0) = <<>>
    BY SubSeqEmpty
  <2>2. <<>> \o Rest(b, o) = Rest(b, o)
    BY RestIs, ConcatEmptySeq
  <2>3. o + n = o
    BY <1>3
  <2> QED
    BY <1>3, <2>1, <2>2, <2>3
<1> QED
  BY <1>2, <1>3

(* A byte that arrives is the last of the rest.                            *)
LEMMA RestAppend ==
  ASSUME NEW b \in Seq(Byte), NEW o \in Nat, NEW e \in Byte, o <= Len(b)
  PROVE  Rest(Append(b, e), o) = Append(Rest(b, o), e)
<1>1. /\ Append(b, e) \in Seq(Byte) /\ Len(Append(b, e)) = Len(b) + 1 /\ Len(b) \in Nat
      /\ \A i \in 1..Len(b) : Append(b, e)[i] = b[i]
      /\ Append(b, e)[Len(b) + 1] = e
  BY AppendProperties, LenProperties
<1>2. o + 1 \in 1..Len(b) + 1
  BY <1>1
<1>3. PICK c \in Seq(Byte) : c = Append(b, e)
  BY <1>1, Zenon
<1>4. o + 1 \in 1..Len(c) /\ Len(c) = Len(b) + 1
  BY <1>1, <1>2, <1>3
<1>5. SubSeq(c, o + 1, Len(c)) = SubSeq(c, o + 1, Len(c) - 1) \o <<c[Len(c)]>>
  <2>1. Len(c) \in o + 1 .. Len(c)
    BY <1>1, <1>4
  <2> QED
    BY <1>4, <2>1, SubSeqRecursiveSecond
<1>6. SubSeq(c, o + 1, Len(c) - 1) = SubSeq(b, o + 1, Len(b))
  <2>1. \A i \in o + 1 .. Len(b) : b[i] \in Byte /\ c[i] = b[i]
    BY <1>1, <1>3, LenProperties
  <2>2. Len(c) - 1 = Len(b)
    BY <1>1, <1>4
  <2>3. PICK s \in Seq(Byte) : /\ s = SubSeq(b, o + 1, Len(b))
                               /\ Len(s) = IF o + 1 <= Len(b) THEN Len(b) - (o + 1) + 1 ELSE 0
                               /\ \A i \in 1 .. Len(b) - (o + 1) + 1 : s[i] = b[(o + 1) + i - 1]
    <3>1. o + 1 \in Int /\ Len(b) \in Int /\ \A i \in o + 1 .. Len(b) : b[i] \in Byte
      BY <1>1, <2>1
    <3>2. /\ SubSeq(b, o + 1, Len(b)) \in Seq(Byte)
          /\ Len(SubSeq(b, o + 1, Len(b))) = IF o + 1 <= Len(b) THEN Len(b) - (o + 1) + 1 ELSE 0
          /\ \A i \in 1 .. Len(b) - (o + 1) + 1 : SubSeq(b, o + 1, Len(b))[i] = b[(o + 1) + i - 1]
      BY <3>1, SubSeqProperties
    <3> QED
      BY <3>2, Zenon
  <2>4. PICK t \in Seq(Byte) : /\ t = SubSeq(c, o + 1, Len(b))
                               /\ Len(t) = IF o + 1 <= Len(b) THEN Len(b) - (o + 1) + 1 ELSE 0
                               /\ \A i \in 1 .. Len(b) - (o + 1) + 1 : t[i] = c[(o + 1) + i - 1]
    <3>1. o + 1 \in Int /\ Len(b) \in Int /\ \A i \in o + 1 .. Len(b) : c[i] \in Byte
      BY <1>1, <2>1
    <3>2. /\ SubSeq(c, o + 1, Len(b)) \in Seq(Byte)
          /\ Len(SubSeq(c, o + 1, Len(b))) = IF o + 1 <= Len(b) THEN Len(b) - (o + 1) + 1 ELSE 0
          /\ \A i \in 1 .. Len(b) - (o + 1) + 1 : SubSeq(c, o + 1, Len(b))[i] = c[(o + 1) + i - 1]
      BY <3>1, SubSeqProperties
    <3> QED
      BY <3>2, Zenon
  <2>5. Len(s) = Len(t) /\ \A i \in 1..Len(s) : s[i] = t[i]
    <3>1. Len(s) = Len(t) /\ \A i \in 1..Len(s) : i \in 1 .. Len(b) - (o + 1) + 1
      BY <1>1, <2>3, <2>4
    <3>2. \A i \in 1 .. Len(b) - (o + 1) + 1 : (o + 1) + i - 1 \in o + 1 .. Len(b)
      BY <1>1
    <3> QED
      BY <2>1, <2>3, <2>4, <3>1, <3>2, Zenon
  <2>6. s = t
    BY <2>5, SeqEqual
  <2> QED
    BY <2>2, <2>3, <2>4, <2>6
<1>7. c[Len(c)] = e
  BY <1>1, <1>3, <1>4
<1>8. SubSeq(b, o + 1, Len(b)) \o <<e>> = Append(SubSeq(b, o + 1, Len(b)), e)
  <2>1. SubSeq(b, o + 1, Len(b)) \in Seq(Byte)
    BY RestIs DEF Rest
  <2> QED
    BY <2>1, AppendIsConcat
<1> QED
  BY <1>3, <1>5, <1>6, <1>7, <1>8 DEF Rest

(* The stream: what the peer has, what is under way, what is staged, what  *)
(* the software has still to send, what recv() has just copied, and what   *)
(* lies unread in the chip.                                                *)
Flow(g, t, s, u, k, r) == g \o t \o s \o u \o k \o r

(* Pieces in a row are one sequence, however they are put together.        *)
Cat(a, b) == a \o b

(* Joining pieces is associative, and the empty piece disappears.          *)
LEMMA Joining ==
  /\ \A a, b \in Seq(Byte) : Cat(a, b) \in Seq(Byte)
  /\ \A a, b, c \in Seq(Byte) : Cat(Cat(a, b), c) = Cat(a, Cat(b, c))
  /\ \A a \in Seq(Byte) : Cat(a, <<>>) = a /\ Cat(<<>>, a) = a
  /\ <<>> \in Seq(Byte)
<1>1. \A a, b \in Seq(Byte) : Cat(a, b) \in Seq(Byte)
  BY ConcatProperties DEF Cat
<1>2. \A a, b, c \in Seq(Byte) : Cat(Cat(a, b), c) = Cat(a, Cat(b, c))
  BY ConcatAssociative DEF Cat
<1>3. \A a \in Seq(Byte) : Cat(a, <<>>) = a /\ Cat(<<>>, a) = a
  BY ConcatEmptySeq DEF Cat
<1> QED
  BY <1>1, <1>2, <1>3, EmptySeq

(* The stream as pieces in a row.                                          *)
LEMMA FlowIs ==
  ASSUME NEW g, NEW t, NEW s, NEW u, NEW k, NEW r
  PROVE  Flow(g, t, s, u, k, r) = Cat(Cat(Cat(Cat(Cat(g, t), s), u), k), r)
  BY DEF Flow, Cat

(* PeerAck: what was under way has arrived.                                *)
LEMMA FlowAck ==
  ASSUME NEW g \in Seq(Byte), NEW t \in Seq(Byte), NEW s, NEW u, NEW k, NEW r
  PROVE  Flow(g \o t, <<>>, s, u, k, r) = Flow(g, t, s, u, k, r)
<1>1. Flow(Cat(g, t), <<>>, s, u, k, r) = Flow(g, t, s, u, k, r)
  BY Joining, FlowIs
<1> QED
  BY <1>1 DEF Cat

(* ChipSend: what was staged is under way.                                 *)
LEMMA FlowSend ==
  ASSUME NEW g \in Seq(Byte), NEW t \in Seq(Byte), NEW s \in Seq(Byte), NEW u, NEW k, NEW r
  PROVE  Flow(g, t \o s, <<>>, u, k, r) = Flow(g, t, s, u, k, r)
<1>1. Flow(g, Cat(t, s), <<>>, u, k, r) = Flow(g, t, s, u, k, r)
  BY Joining, FlowIs
<1> QED
  BY <1>1 DEF Cat

(* SendData: the front of what is to be sent is staged.                    *)
LEMMA FlowStage ==
  ASSUME NEW g \in Seq(Byte), NEW t \in Seq(Byte), NEW s \in Seq(Byte), NEW x \in Seq(Byte),
         NEW u \in Seq(Byte), NEW k, NEW r
  PROVE  Flow(g, t, s \o x, u, k, r) = Flow(g, t, s, x \o u, k, r)
<1>1. Flow(g, t, Cat(s, x), u, k, r) = Flow(g, t, s, Cat(x, u), k, r)
  BY Joining, FlowIs
<1> QED
  BY <1>1 DEF Cat

(* Received: what recv() has copied is what is to be sent next.            *)
LEMMA FlowEcho ==
  ASSUME NEW g \in Seq(Byte), NEW t \in Seq(Byte), NEW s \in Seq(Byte), NEW k \in Seq(Byte), NEW r
  PROVE  Flow(g, t, s, k, <<>>, r) = Flow(g, t, s, <<>>, k, r)
<1>1. PICK p \in Seq(Byte) : p = Cat(Cat(g, t), s)
  BY Joining
<1>2. Cat(Cat(p, k), <<>>) = Cat(Cat(p, <<>>), k)
  BY Joining
<1> QED
  BY <1>1, <1>2, FlowIs

(* RecvData: the front of what is unread is copied.                        *)
LEMMA FlowTake ==
  ASSUME NEW g \in Seq(Byte), NEW t \in Seq(Byte), NEW s \in Seq(Byte), NEW u \in Seq(Byte),
         NEW x \in Seq(Byte), NEW r \in Seq(Byte)
  PROVE  Flow(g, t, s, u, x, r) = Flow(g, t, s, u, <<>>, x \o r)
<1>1. Flow(g, t, s, u, x, r) = Flow(g, t, s, u, <<>>, Cat(x, r))
  <2>1. PICK p \in Seq(Byte) : p = Cat(Cat(Cat(g, t), s), u)
    BY Joining
  <2>2. Cat(Cat(p, x), r) = Cat(Cat(p, <<>>), Cat(x, r))
    BY Joining
  <2> QED
    BY <2>1, <2>2, FlowIs
<1> QED
  BY <1>1 DEF Cat

(* PeerData: a byte arrives at the end.                                    *)
LEMMA CatAppend ==
  ASSUME NEW p \in Seq(Byte), NEW r \in Seq(Byte), NEW e \in Byte
  PROVE  Cat(p, Append(r, e)) = Append(Cat(p, r), e)
<1>1. PICK d \in Seq(Byte) : d = <<e>>
  BY SingletonSeq
<1>2. Append(r, e) = Cat(r, d)
  BY <1>1, AppendIsConcat DEF Cat
<1>3. Cat(p, r) \in Seq(Byte) /\ Cat(p, Cat(r, d)) = Cat(Cat(p, r), d)
  BY Joining
<1>4. Append(Cat(p, r), e) = Cat(Cat(p, r), d)
  BY <1>1, <1>3, AppendIsConcat DEF Cat
<1> QED
  BY <1>2, <1>3, <1>4

(* Accepted: the greeting, if any, goes before all the client has sent.    *)
LEMMA FlowGreeting ==
  ASSUME NEW h \in Seq(Byte), NEW r \in Seq(Byte)
  PROVE  Flow(<<>>, <<>>, <<>>, h, <<>>, r) = h \o r
<1>1. Cat(<<>>, <<>>) = <<>> /\ Cat(<<>>, h) = h /\ Cat(h, <<>>) = h
  BY Joining
<1>2. Flow(<<>>, <<>>, <<>>, h, <<>>, r) = Cat(h, r)
  BY <1>1, FlowIs
<1> QED
  BY <1>2 DEF Cat

(* What has arrived is a beginning of the whole.                           *)
LEMMA FlowBegins ==
  ASSUME NEW g, NEW t, NEW s, NEW u, NEW k, NEW r, {g, t, s, u, k, r} \subseteq Seq(Byte)
  PROVE  /\ Len(g \o t) <= Len(Flow(g, t, s, u, k, r))
         /\ SubSeq(Flow(g, t, s, u, k, r), 1, Len(g \o t)) = g \o t

<1>0. /\ g \in Seq(Byte) /\ t \in Seq(Byte) /\ s \in Seq(Byte)
      /\ u \in Seq(Byte) /\ k \in Seq(Byte) /\ r \in Seq(Byte)
  OBVIOUS
<1>1. PICK p \in Seq(Byte) : p = Cat(g, t)
  BY <1>0, Joining
<1>2. PICK x \in Seq(Byte), y \in Seq(Byte), q \in Seq(Byte) :
        x = Cat(k, r) /\ y = Cat(u, x) /\ q = Cat(s, y)
  BY <1>0, Joining
<1>3. Flow(g, t, s, u, k, r) = p \o q
  <2>1. Flow(g, t, s, u, k, r) = Cat(p, q)
    <3>1. PICK a \in Seq(Byte), b \in Seq(Byte) : a = Cat(p, s) /\ b = Cat(a, u)
      BY <1>0, Joining
    <3>2. Cat(Cat(b, k), r) = Cat(b, x)
      BY <1>0, <1>2, Joining
    <3>3. Cat(b, x) = Cat(a, y)
      BY <1>0, <1>2, <3>1, Joining
    <3>4. Cat(a, y) = Cat(p, q)
      BY <1>0, <1>2, <3>1, Joining
    <3> QED
      BY <1>1, <3>1, <3>2, <3>3, <3>4, FlowIs
  <2> QED
    BY <2>1 DEF Cat
<1>4. /\ Len(p \o q) = Len(p) + Len(q) /\ Len(p) \in Nat /\ Len(q) \in Nat /\ p \o q \in Seq(Byte)
      /\ \A i \in 1..Len(p) : (p \o q)[i] = p[i]
  BY ConcatProperties, LenProperties
<1>5. SubSeq(p \o q, 1, Len(p)) = p
  <2>1. CASE p = <<>>
    <3>1. Len(p) = 0
      BY <2>1, EmptySeq
    <3> QED
      BY <2>1, <3>1, SubSeqEmpty
  <2>2. CASE p # <<>>
    <3>1. 1 \in 1..Len(p) /\ Len(p) \in 1..Len(p)
      BY <1>4, <2>2, EmptySeq
    <3>2. SubSeq(p \o q, 1, Len(p)) = SubSeq(p, 1, Len(p))
      BY <3>1, SubSeqOfConcat1
    <3> QED
      BY <3>2, SubSeqFull
  <2> QED
    BY <2>1, <2>2
<1> QED
  BY <1>1, <1>3, <1>4, <1>5 DEF Cat

-----------------------------------------------------------------------------
(* The stream of a connection                                              *)

(* The greeting the stream begins with.                                    *)
Hello == IF Application = "tcp_server" /\ InSession THEN <<<<conn, 0>>>> ELSE <<>>

(* The definitions of the properties, by places.                           *)
HandedAt ==
  /\ io = "send.cr" => Handed = len
  /\ toe = "send" /\ io = "idle" => Handed = IF ioRet > 0 THEN ioRet ELSE 0
  /\ toe = "idle" => Handed = IF toeRet > 0 THEN toeRet ELSE 0
  /\ toe # "idle" /\ io \notin {"idle", "send.cr"} => Handed = 0
UnsentAt ==
  /\ app \in {"banner", "send"} => Unsent = Rest(buf, off)
  /\ app \in {"bannering", "sending"} => Unsent = Rest(buf, off + Handed)
  /\ app \notin {"banner", "send", "bannering", "sending"} => Unsent = <<>>

(* How many bytes the send has taken, at each of its places.               *)
LEMMA HandedCases == IdleBelow => HandedAt
<1> SUFFICES ASSUME IdleBelow PROVE HandedAt
  OBVIOUS
<1> USE DEF IdleBelow, Handed
<1>1. io = "send.cr" => Handed = len
  OBVIOUS
<1>2. toe = "send" /\ io = "idle" => Handed = IF ioRet > 0 THEN ioRet ELSE 0
  OBVIOUS
<1>3. toe = "idle" => Handed = IF toeRet > 0 THEN toeRet ELSE 0
  OBVIOUS
<1>4. toe # "idle" /\ io \notin {"idle", "send.cr"} => Handed = 0
  OBVIOUS
<1> QED
  BY <1>1, <1>2, <1>3, <1>4 DEF HandedAt

(* The same after a step.                                                  *)
LEMMA HandedCasesNext == IdleBelow' => HandedAt'
<1> SUFFICES ASSUME IdleBelow' PROVE HandedAt'
  OBVIOUS
<1> USE DEF IdleBelow, Handed
<1>1. io' = "send.cr" => Handed' = len'
  OBVIOUS
<1>2. toe' = "send" /\ io' = "idle" => Handed' = IF ioRet' > 0 THEN ioRet' ELSE 0
  OBVIOUS
<1>3. toe' = "idle" => Handed' = IF toeRet' > 0 THEN toeRet' ELSE 0
  OBVIOUS
<1>4. toe' # "idle" /\ io' \notin {"idle", "send.cr"} => Handed' = 0
  OBVIOUS
<1> QED
  BY <1>1, <1>2, <1>3, <1>4 DEF HandedAt

(* What is still to be sent, at each line of the application.              *)
LEMMA UnsentCases == UnsentAt /\ UnsentAt'
<1> USE DEF Unsent, Rest
<1>1. app \in {"banner", "send"} => Unsent = Rest(buf, off)
  OBVIOUS
<1>2. app \in {"bannering", "sending"} => Unsent = Rest(buf, off + Handed)
  OBVIOUS
<1>3. app \notin {"banner", "send", "bannering", "sending"} => Unsent = <<>>
  OBVIOUS
<1>4. app' \in {"banner", "send"} => Unsent' = Rest(buf', off')
  OBVIOUS
<1>5. app' \in {"bannering", "sending"} => Unsent' = Rest(buf', off' + Handed')
  OBVIOUS
<1>6. app' \notin {"banner", "send", "bannering", "sending"} => Unsent' = <<>>
  OBVIOUS
<1> QED
  BY <1>1, <1>2, <1>3, <1>4, <1>5, <1>6 DEF UnsentAt

(* The pieces are sequences of bytes.                                      *)
FlowTyped ==
  /\ got \in Seq(Byte) /\ tx \in Seq(Byte) /\ staged \in Seq(Byte)
  /\ Unsent \in Seq(Byte) /\ Taken \in Seq(Byte)
  /\ Unread = Rest(rx, rd) /\ Unread \in Seq(Byte)
  /\ Hello \in Seq(Byte) /\ <<>> \in Seq(Byte)

(* What is in the chip's buffers and the greeting are, in any case.        *)
LEMMA ChipFlowTypes ==
  ASSUME ChipTypeOK
  PROVE  /\ got \in Seq(Byte) /\ tx \in Seq(Byte) /\ staged \in Seq(Byte)
         /\ Unread = Rest(rx, rd) /\ Unread \in Seq(Byte)
         /\ Hello \in Seq(Byte) /\ <<>> \in Seq(Byte)
<1>1. /\ got \in Seq(Byte) /\ tx \in Seq(Byte) /\ staged \in Seq(Byte) /\ rx \in Seq(Byte)
      /\ rd \in Nat /\ conn \in Nat
  BY DEF ChipTypeOK
<1>2. <<>> \in Seq(Byte)
  BY EmptySeq
<1>3. Unread = Rest(rx, rd) /\ Unread \in Seq(Byte)
  BY <1>1, RestIs DEF Unread, Rest
<1>4. <<<<conn, 0>>>> \in Seq(Byte)
  <2>1. <<conn, 0>> \in Byte
    BY <1>1 DEF Byte
  <2> QED
    BY <2>1, SingletonSeq
<1> QED
  BY <1>1, <1>2, <1>3, <1>4 DEF Hello

(* What the software holds is, while it stands at its lines.               *)
LEMMA FlowTypes ==
  ASSUME IInv, Lines
  PROVE  FlowTyped
<1>1. /\ got \in Seq(Byte) /\ tx \in Seq(Byte) /\ staged \in Seq(Byte)
      /\ Unread = Rest(rx, rd) /\ Unread \in Seq(Byte)
      /\ Hello \in Seq(Byte) /\ <<>> \in Seq(Byte)
  BY ChipFlowTypes DEF IInv, TypeOK
<1>2. data \in Seq(Byte) /\ buf \in Seq(Byte) /\ off \in Nat /\ len \in Nat
      /\ ioRet \in Int /\ toeRet \in Int
  BY DEF IInv, TypeOK, IoTypeOK, ToeTypeOK, AppTypeOK
<1>3. Taken \in Seq(Byte)
  BY <1>1, <1>2 DEF Taken
<1>4. Unsent \in Seq(Byte)
  <2>1. CASE app \in {"banner", "send"}
    <3>1. Unsent = Rest(buf, off)
      BY <2>1, UnsentCases DEF UnsentAt
    <3> QED
      BY <1>2, <3>1, RestIs
  <2>2. CASE app \in {"bannering", "sending"}
    <3>1. toe \in {"idle", "send"}
      BY <2>2 DEF Lines
    <3>2. HandedAt
      BY HandedCases DEF IInv
    <3>3. Handed \in Nat
      BY <1>2, <3>1, <3>2 DEF HandedAt
    <3>4. Unsent = Rest(buf, off + Handed) /\ off + Handed \in Nat
      BY <1>2, <2>2, <3>3, UnsentCases DEF UnsentAt
    <3> QED
      BY <1>2, <3>4, RestIs
  <2>3. CASE app \notin {"banner", "send", "bannering", "sending"}
    <3>1. Unsent = <<>>
      BY <2>3, UnsentCases DEF UnsentAt
    <3> QED
      BY <1>1, <3>1
  <2> QED
    BY <2>1, <2>2, <2>3
<1> QED
  BY <1>1, <1>3, <1>4 DEF FlowTyped

(* The lines of the application at which something is to be sent.          *)
Resting == {"banner", "send", "bannering", "sending"}

(* Outside the sends of the application nothing is to be sent.             *)
LEMMA NothingToSend ==
  /\ app \notin Resting => Unsent = <<>>
  /\ app' \notin Resting => Unsent' = <<>>
  BY UnsentCases DEF UnsentAt, Resting

(* The lines of the echo loop.                                             *)
Loop == Receive \/ Received \/ SendBanner \/ BannerSent \/ SendEcho \/ EchoSent \/ CloseClient

(* What the echo loop does to the stream: nothing, or what recv() has      *)
(* copied becomes what is to be sent.                                      *)
LEMMA LoopFlow ==
  ASSUME IInv, Lines, Loop, sr \in Live
  PROVE  \/ UNCHANGED <<Unsent, Taken, Hello>>
         \/ Unsent = <<>> /\ Unsent' = Taken /\ Taken' = <<>> /\ UNCHANGED Hello
<1>0. /\ toeRet \in Int /\ off \in Nat /\ buf \in Seq(Byte) /\ data \in Seq(Byte)
      /\ IdleBelow /\ Len(buf) \in Nat
  BY LenProperties DEF IInv, TypeOK, IoTypeOK, ToeTypeOK, AppTypeOK
<1>1. CASE CloseClient \/ Receive
  <2>1. /\ app \notin Resting \cup {"receiving"} /\ app' \notin Resting
        /\ InSession /\ InSession' /\ conn' = conn /\ toe' # "idle" /\ io' = "idle"
        /\ toe' # "recv.done" 
    BY <1>0, <1>1, Zenon DEF Resting, InSession, CloseClient, Receive, AppAt, AppGoto, CallToe,
       ioVars, chipVars, IdleBelow
  <2>2. Taken = <<>> /\ Taken' = <<>>
    BY <2>1 DEF Taken
  <2> QED
    BY <2>1, <2>2, NothingToSend DEF Hello
<1>2. CASE SendBanner \/ SendEcho
  <2>1. /\ app \in {"banner", "send"} /\ app' \in {"bannering", "sending"}
        /\ toe' = "send" /\ io' = "send" /\ UNCHANGED <<buf, off, conn>>
    BY <1>2 DEF SendBanner, SendEcho, SendRest, CallSend, AppAt, chipVars
  <2>2. HandedAt'
    BY <2>1, HandedCasesNext DEF IdleBelow
  <2>3. Handed' = 0
    BY <2>1, <2>2 DEF HandedAt
  <2>4. Unsent' = Rest(buf, off) /\ Unsent = Rest(buf, off)
    <3>1. Unsent' = Rest(buf', off' + Handed') /\ Unsent = Rest(buf, off)
      BY <2>1, UnsentCases DEF UnsentAt
    <3>2. off' + Handed' = off
      BY <1>0, <2>1, <2>3
    <3> QED
      BY <2>1, <3>1, <3>2
  <2>5. Taken = <<>> /\ Taken' = <<>> /\ Hello' = Hello
    BY <2>1 DEF Taken, Hello, InSession
  <2> QED
    BY <2>4, <2>5
<1>3. CASE BannerSent \/ EchoSent
  <2>1. /\ app \in {"bannering", "sending"} /\ toe = "idle" /\ io = "idle"
        /\ UNCHANGED <<buf, conn, toe>>
    BY <1>0, <1>3 DEF BannerSent, EchoSent, AppAt, AppGoto, IdleBelow, toeVars, chipVars
  <2>2. toeRet >= 0
    BY <1>0, <2>1 DEF Lines, Closed, Live, Fins, Connected
  <2>3. /\ off' = off + toeRet
        /\ IF off' < Len(buf) THEN app' \in {"banner", "send"} ELSE app' = "recv"
    BY <1>0, <1>3, <2>2 DEF BannerSent, EchoSent, AppGoto
  <2>4. HandedAt
    BY <1>0, HandedCases
  <2>5. Handed = toeRet
    BY <1>0, <2>1, <2>2, <2>4 DEF HandedAt
  <2>6. Unsent = Rest(buf, off')
    <3>1. Unsent = Rest(buf, off + Handed)
      BY <2>1, UnsentCases DEF UnsentAt
    <3> QED
      BY <2>3, <2>5, <3>1
  <2>7. Unsent' = Unsent
    <3>1. CASE off' < Len(buf)
      <4>1. Unsent' = Rest(buf', off')
        BY <2>3, <3>1, UnsentCases DEF UnsentAt
      <4> QED
        BY <2>1, <2>6, <4>1
    <3>2. CASE off' >= Len(buf)
      <4>1. app' = "recv" /\ off' \in Nat
        BY <1>0, <2>2, <2>3, <3>2
      <4>2. Unsent' = <<>>
        BY <4>1, NothingToSend DEF Resting
      <4>3. Rest(buf, off') = <<>>
        BY <1>0, <3>2, <4>1, RestIs
      <4> QED
        BY <2>6, <4>2, <4>3
    <3> QED
      BY <1>0, <2>2, <2>3, <3>1, <3>2
  <2>8. InSession /\ InSession' /\ Taken = <<>> /\ Taken' = <<>>
    BY <2>1, <2>3 DEF InSession, Taken
  <2> QED
    BY <2>1, <2>7, <2>8 DEF Hello
<1>4. CASE Received
  <2>1. /\ app = "receiving" /\ toe = "idle" /\ io = "idle" /\ UNCHANGED <<toe, conn>>
        /\ app' \in {"close", "send"}
    BY <1>0, <1>4 DEF Received, AppAt, AppGoto, IdleBelow, toeVars, chipVars
  <2>2. Unsent = <<>> /\ Taken' = <<>> /\ Hello' = Hello
    BY <2>1, NothingToSend DEF Resting, Taken, Hello, InSession
  <2>3. CASE toeRet <= 0
    <3>1. app' = "close" /\ Taken = <<>>
      BY <1>0, <1>4, <2>1, <2>3 DEF Received, AppGoto, Taken
    <3>2. Unsent' = <<>>
      BY <3>1, NothingToSend DEF Resting
    <3> QED
      BY <2>2, <3>1, <3>2
  <2>4. CASE toeRet > 0
    <3>1. app' = "send" /\ Taken = data /\ buf' = data /\ off' = 0
      BY <1>0, <1>4, <2>1, <2>4 DEF Received, AppGoto, Taken
    <3>2. Unsent' = Rest(buf', off')
      BY <3>1, UnsentCases DEF UnsentAt
    <3>3. Unsent' = data
      BY <1>0, <3>1, <3>2, RestIs
    <3> QED
      BY <2>2, <3>1, <3>3
  <2>5. toeRet <= 0 \/ toeRet > 0
    BY <1>0
  <2> QED
    BY <2>3, <2>4, <2>5
<1> QED
  BY <1>1, <1>2, <1>3, <1>4 DEF Loop

(* What the application's other steps do to it: nothing, or the greeting.  *)
LEMMA AppFlow ==
  ASSUME IInv, Control, App, sr \in Live
  PROVE  \/ UNCHANGED <<Unsent, Taken, Hello>>
         \/ Unsent = <<>> /\ Unsent' = Taken /\ Taken' = <<>> /\ UNCHANGED Hello
         \/ /\ ~InSession /\ Unsent = <<>> /\ Taken = <<>> /\ Hello = <<>>
            /\ Taken' = <<>> /\ Unsent' = Hello'
<1>0. /\ toeRet \in Int /\ off \in Nat /\ buf \in Seq(Byte) /\ data \in Seq(Byte)
      /\ IdleBelow /\ Len(buf) \in Nat
  BY LenProperties DEF IInv, TypeOK, IoTypeOK, ToeTypeOK, AppTypeOK
<1>1. CASE Start \/ Listened \/ GiveUp \/ Exit \/ AcceptClient \/ ClientClosed
  <2>1. /\ app \notin Resting \cup {"receiving"} /\ app' \notin Resting \cup {"receiving"}
        /\ ~InSession /\ ~InSession'
    BY <1>1, Zenon DEF Resting, InSession, Start, Listened, GiveUp, Exit, AcceptClient, ClientClosed,
       AppAt, AppGoto, CallToe, toeVars
  <2>2. Taken = <<>> /\ Taken' = <<>>
    BY <2>1 DEF Taken
  <2> QED
    BY <2>1, <2>2, NothingToSend DEF Hello
<1>2. CASE Accepted
  <2>1. /\ app = "accepting" /\ ~InSession /\ toe' = toe /\ conn' = conn
        /\ app' \in {"accept", "banner", "recv"}
    BY <1>2 DEF Accepted, AppAt, AppGoto, InSession, toeVars, chipVars
  <2>2. Unsent = <<>> /\ Taken = <<>> /\ Taken' = <<>> /\ Hello = <<>>
    BY <2>1, NothingToSend DEF Taken, Resting, Hello
  <2>3. CASE app' = "accept"
    <3>1. ~InSession' /\ Unsent' = <<>>
      BY <2>3, NothingToSend DEF InSession, Resting
    <3> QED
      BY <2>1, <2>2, <3>1 DEF Hello
  <2>4. CASE app' = "recv"
    <3>1. Application # "tcp_server" /\ Unsent' = <<>>
      BY <1>0, <1>2, <2>4, NothingToSend DEF Resting, Accepted, AppGoto
    <3> QED
      BY <2>2, <3>1 DEF Hello
  <2>5. CASE app' = "banner"
    <3>1. Application = "tcp_server" /\ buf' = <<<<conn, 0>>>> /\ off' = 0
      BY <1>0, <1>2, <2>5 DEF Accepted, AppGoto
    <3>2. <<conn, 0>> \in Byte
      BY DEF Byte, IInv, TypeOK, ChipTypeOK
    <3>3. buf' \in Seq(Byte)
      BY <3>1, <3>2, SingletonSeq
    <3>4. Unsent' = Rest(buf', off')
      BY <2>5, UnsentCases DEF UnsentAt
    <3>5. Unsent' = buf'
      BY <3>1, <3>3, <3>4, RestIs
    <3>6. Hello' = <<<<conn, 0>>>>
      BY <2>1, <2>5, <3>1 DEF Hello, InSession
    <3> QED
      BY <2>1, <2>2, <3>1, <3>5, <3>6
  <2> QED
    BY <2>1, <2>3, <2>4, <2>5
<1>3. CASE Loop
  BY <1>3, ControlLines, LoopFlow
<1> QED
  BY <1>1, <1>2, <1>3 DEF App, Loop

(* The steps of wiztoe_send and wiztoe_recv.                               *)
Transfer == SendDone \/ RecvPoll(BufSize) \/ RecvEof \/ RecvWait \/ RecvTimeout \/ RecvDone

(* They leave the stream alone: a result travels up to the application.    *)
LEMMA TransferFlow ==
  ASSUME IInv, Lines, Transfer, UNCHANGED appVars
  PROVE  UNCHANGED <<Unsent, Taken, Hello>>
<1>0. /\ toeRet \in Int /\ ioRet \in Int /\ off \in Nat /\ IdleBelow
      /\ UNCHANGED <<app, buf, off>>
  BY DEF IInv, TypeOK, IoTypeOK, ToeTypeOK, AppTypeOK, appVars
<1>1. CASE SendDone
  <2>1. /\ toe = "send" /\ io = "idle" /\ toe' = "idle" /\ io' = io /\ conn' = conn
        /\ toeRet' = IF ioRet < 0 THEN -1 ELSE ioRet
    BY <1>1 DEF SendDone, ToeAt, ToeReturn, ioVars, chipVars
  <2>2. app \in {"bannering", "sending"}
    BY <2>1 DEF Lines
  <2>3. HandedAt /\ HandedAt'
    BY <1>0, <2>1, HandedCases, HandedCasesNext DEF IdleBelow
  <2>4. Handed' = Handed
    BY <1>0, <2>1, <2>3 DEF HandedAt
  <2>5. Unsent' = Unsent
    BY <1>0, <2>2, <2>4, UnsentCases DEF UnsentAt
  <2>6. Taken' = Taken /\ Hello' = Hello
    BY <1>0, <2>1, <2>2 DEF Taken, Hello, InSession
  <2> QED
    BY <2>5, <2>6
<1>2. CASE RecvPoll(BufSize) \/ RecvEof \/ RecvWait \/ RecvTimeout \/ RecvDone
  <2>1. /\ toe \in {"recv", "recv.sr", "recv.done"} /\ io = "idle" /\ conn' = conn
        /\ io' \in {"idle", "recv"}
    BY <1>2 DEF RecvPoll, RecvEof, RecvWait, RecvTimeout, RecvDone, ToeAt, ToeReturn, ToeGoto,
       CallRecv, ioVars, chipVars
  <2>2. app = "receiving" /\ app' = "receiving"
    BY <1>0, <2>1 DEF Lines, Receiving
  <2>3. Unsent' = <<>> /\ Unsent = <<>> /\ Hello' = Hello
    BY <2>1, <2>2, NothingToSend DEF Resting, Hello, InSession
  <2>4. Taken' = Taken
    <3>1. CASE RecvPoll(BufSize)
      BY <1>0, <2>1, <3>1 DEF RecvPoll, ToeAt, ToeGoto, CallRecv, ioVars, Taken
    <3>2. CASE RecvEof \/ RecvWait \/ RecvTimeout
      BY <1>0, <2>1, <3>2 DEF RecvEof, RecvWait, RecvTimeout, ToeAt, ToeGoto, ToeReturn, ioVars, Taken,
         WIZTOE_ERR_TIMEOUT
    <3>3. CASE RecvDone
      BY <1>0, <2>1, <2>2, <3>3 DEF RecvDone, ToeAt, ToeReturn, ioVars, Taken,
         SOCKERR_SOCKSTATUS, SOCKERR_SOCKCLOSED
    <3> QED
      BY <1>2, <3>1, <3>2, <3>3
  <2> QED
    BY <2>3, <2>4
<1> QED
  BY <1>1, <1>2 DEF Transfer

(* The other steps of wiznet_toe.c do so, too: the greeting is gone only   *)
(* with the connection.                                                    *)
LEMMA ToeFlow ==
  ASSUME IInv, Control, WiznetToe(BufSize), UNCHANGED appVars, sr \in Live
  PROVE  UNCHANGED <<Unsent, Taken, Hello>>
<1>0. /\ toeRet \in Int /\ ioRet \in Int /\ off \in Nat /\ IdleBelow
      /\ UNCHANGED <<app, buf, off>>
  BY DEF IInv, TypeOK, IoTypeOK, ToeTypeOK, AppTypeOK, appVars
<1>1. CASE Transfer
  BY <1>1, ControlLines, TransferFlow
<1>2. CASE CloseBegin
  <2>1. /\ toe = "close" /\ io = "idle" /\ conn' = conn
        /\ listening /\ accepted => toe' = "close.socket"
        /\ ~(listening /\ accepted) => toe' \in {"close.final", "close.freed"}
    BY <1>2, Zenon DEF CloseBegin, ToeAt, ToeGoto, DisconnectIfConnected, chipVars
  <2>2. app = "closing" => listening /\ accepted
    BY <2>1 DEF Control, Descriptor, InSession
  <2>3. app \notin Resting \cup {"receiving"}
    BY <2>1, Zenon DEF Control, Serving, GivingUp, Resting
  <2>4. InSession' <=> InSession
    <3>1. CASE app = "closing"
      BY <1>0, <2>1, <2>2, <3>1 DEF InSession
    <3>2. CASE app # "closing"
      BY <1>0, <3>2 DEF InSession
    <3> QED
      BY <3>1, <3>2
  <2>5. Unsent = <<>> /\ Unsent' = <<>> /\ Taken = <<>> /\ Taken' = <<>>
    BY <1>0, <2>3, NothingToSend DEF Taken
  <2> QED
    BY <2>1, <2>4, <2>5 DEF Hello
<1>3. CASE RearmSocket
  BY <1>3 DEF RearmSocket, ToeAt, Control, Closed, Live, Fins, Connected
<1>4. CASE \/ ListenSocket \/ ListenListen \/ ListenDone \/ AcceptTimeout \/ AcceptEstablished
           \/ AcceptClosed \/ AcceptListen \/ AcceptDone \/ RearmListen \/ RearmDone
           \/ CloseFinal \/ CloseFreed
  <2>1. toe \notin {"idle", "send", "recv", "recv.sr", "recv.done", "close", "close.socket"}
    BY <1>4, Zenon DEF ListenSocket, ListenListen, ListenDone, AcceptTimeout, AcceptEstablished,
       AcceptClosed, AcceptListen, AcceptDone, RearmListen, RearmDone, CloseFinal, CloseFreed, ToeAt
  <2>2. toe' \notin {"close", "close.socket"}
    BY <1>4, Zenon DEF ListenSocket, ListenListen, ListenDone, AcceptTimeout, AcceptEstablished,
       AcceptClosed, AcceptListen, AcceptDone, RearmListen, RearmDone, CloseFinal, CloseFreed,
       ToeGoto, ToeReturn
  <2>3. app \notin {"banner", "bannering", "recv", "receiving", "send", "sending", "close"}
    BY <2>1, Zenon DEF Control, Serving, GivingUp
  <2>4. ~InSession /\ ~InSession'
    BY <1>0, <2>1, <2>2, <2>3 DEF InSession
  <2>5. Unsent = <<>> /\ Unsent' = <<>> /\ Taken = <<>> /\ Taken' = <<>>
    BY <1>0, <2>3, NothingToSend DEF Taken, Resting
  <2> QED
    BY <2>4, <2>5 DEF Hello
<1> QED
  BY <1>1, <1>2, <1>3, <1>4 DEF WiznetToe, Transfer

(* A step of socket.c that copies nothing, or a function that returns with *)
(* nothing done.                                                           *)
Quiet ==
  /\ io \notin {"idle", "send.cr", "recv.cr"}
  /\ \/ io' \notin {"idle", "send.cr", "recv.cr"}
     \/ io' = "idle" /\ (toe \in {"send", "recv.done"} => ~(ioRet' > 0))
  /\ UNCHANGED <<app, buf, off, toe, toeRet, conn, sent, got, tx, staged, rx, rd>>

(* A quiet step leaves every piece of the stream alone.                    *)
LEMMA QuietFlow ==
  ASSUME IInv, Lines, Quiet
  PROVE  UNCHANGED <<Unsent, Taken, Hello, Unread>>
<1>0. IdleBelow /\ IdleBelow' /\ toe # "idle"
  BY DEF IInv, Quiet, IdleBelow
<1>1. Unread' = Unread /\ Hello' = Hello
  BY DEF Quiet, Unread, Hello, InSession
<1>2. Taken' = Taken
  <2>1. CASE app = "receiving"
    <3>1. toe = "recv.done"
      BY <1>0, <2>1 DEF Quiet, Lines, Receiving
    <3> QED
      BY <1>0, <2>1, <3>1 DEF Quiet, Taken
  <2>2. CASE app # "receiving"
    BY <2>2 DEF Quiet, Taken
  <2> QED
    BY <2>1, <2>2
<1>3. Unsent' = Unsent
  <2>1. CASE app \in {"bannering", "sending"}
    <3>1. toe = "send"
      BY <1>0, <2>1 DEF Lines
    <3>2. HandedAt /\ HandedAt'
      BY <1>0, HandedCases, HandedCasesNext
    <3>3. Handed = 0
      BY <1>0, <3>2 DEF Quiet, HandedAt
    <3>4. Handed' = 0
      <4>1. CASE io' = "idle"
        <5>1. Handed' = IF ioRet' > 0 THEN ioRet' ELSE 0
          BY <3>1, <3>2, <4>1 DEF Quiet, HandedAt
        <5>2. ~(ioRet' > 0)
          BY <3>1, <4>1 DEF Quiet
        <5> QED
          BY <5>1, <5>2
      <4>2. CASE io' # "idle"
        BY <1>0, <3>2, <4>2 DEF Quiet, HandedAt
      <4> QED
        BY <4>1, <4>2
    <3> QED
      BY <2>1, <3>3, <3>4, UnsentCases DEF UnsentAt, Quiet
  <2>2. CASE app \in {"banner", "send"}
    BY <2>2, UnsentCases DEF UnsentAt, Quiet
  <2>3. CASE app \notin Resting
    BY <2>3, NothingToSend DEF Quiet
  <2> QED
    BY <2>1, <2>2, <2>3 DEF Resting
<1> QED
  BY <1>1, <1>2, <1>3

(* The steps of socket.c, but those that copy bytes or end a copy, are     *)
(* quiet on a connection that is up.                                       *)
LEMMA SocketCQuiet ==
  ASSUME IInv, Lines, UNCHANGED <<toeVars, appVars>>, sr \in Live,
         SocketC, ~SendData, ~SendAccepted, ~RecvData, ~RecvAccepted
  PROVE  Quiet
<1> USE DEF Quiet, toeVars, appVars, slot, chipVars, At, Goto, Return, CloseThenReturn
<1>1. CASE CloseReturn
  BY <1>1 DEF CloseReturn, Lines, Closed, Live, Fins, Connected
<1>2. CASE CloseCommand \/ CloseClear \/ CloseWait
  <2>1. io \in {"closing", "socket.open"}
    BY <1>2, Zenon DEF IInv, CtlInv, CloseNested, CloseCommand, CloseClear, CloseWait
  <2> QED
    BY <1>2, <2>1 DEF CloseCommand, CloseClear, CloseWait
<1>3. CASE SocketBegin \/ SocketOpen \/ SocketFlags \/ SocketWait
  <2>1. toe \notin {"send", "recv.done"}
    BY <1>3 DEF SocketBegin, SocketOpen, SocketFlags, SocketWait, Lines, Receiving, SendPlaces, RecvPlaces
  <2> QED
    BY <1>3, <2>1 DEF SocketBegin, SocketOpen, SocketFlags, SocketWait
<1>4. CASE ListenBegin \/ ListenCheck
  <2>1. toe \notin {"send", "recv.done"}
    BY <1>4 DEF ListenBegin, ListenCheck, Lines, Receiving, SendPlaces, RecvPlaces
  <2> QED
    BY <1>4, <2>1 DEF ListenBegin, ListenCheck
<1>5. CASE DisconnectBegin \/ DisconnectFlag \/ DisconnectStatus \/ DisconnectTimeout
  <2>1. toe \notin {"send", "recv.done"}
    BY <1>5 DEF DisconnectBegin, DisconnectFlag, DisconnectStatus, DisconnectTimeout, Lines, Receiving, SendPlaces, RecvPlaces
  <2> QED
    BY <1>5, <2>1 DEF DisconnectBegin, DisconnectFlag, DisconnectStatus, DisconnectTimeout
<1>6. CASE SendBegin \/ SendFreeSize \/ SendStatus
  BY <1>6 DEF SendBegin, SendFreeSize, SendStatus, SOCKERR_SOCKSTATUS
<1>7. CASE SendPrevious
  BY <1>7 DEF SendPrevious, SOCK_BUSY
<1>8. CASE RecvSize \/ RecvStatus
  BY <1>8 DEF RecvSize, RecvStatus
<1> QED
  BY <1>1, <1>2, <1>3, <1>4, <1>5, <1>6, <1>7, <1>8 DEF SocketC

(* The stream as it is now.                                                *)
FlowNow == Flow(got, tx, staged, Unsent, Taken, Unread)

(* Every step of socket.c keeps the stream together.                       *)
LEMMA SocketCFlow ==
  ASSUME IInv, Lines, Working, SocketC, UNCHANGED <<toeVars, appVars>>, sr \in Live
  PROVE  FlowNow' = FlowNow /\ UNCHANGED <<Hello, conn, sent>>
<1>i. /\ IdleBelow /\ len \in Nat /\ size \in Nat /\ rx \in Seq(Byte) /\ data \in Seq(Byte)
      /\ buf \in Seq(Byte) /\ off \in Nat /\ rd \in 0..Len(rx)
  BY DEF IInv, TypeOK, IoTypeOK, ChipTypeOK, AppTypeOK
<1>j. Len(rx) \in Nat /\ Len(data) \in Nat
  BY <1>i, LenProperties
<1>k. rd \in Nat /\ rd <= Len(rx)
  BY <1>i, <1>j
<1>l. UNCHANGED <<app, buf, off, toe, toeRet>>
  BY DEF toeVars, appVars
<1>0. /\ IdleBelow /\ len \in Nat /\ size \in Nat /\ rd \in Nat /\ rx \in Seq(Byte) /\ data \in Seq(Byte)
      /\ buf \in Seq(Byte) /\ off \in Nat /\ UNCHANGED <<app, buf, off, toe, toeRet>>
      /\ Len(rx) \in Nat /\ Len(data) \in Nat /\ rd <= Len(rx)
  BY <1>i, <1>j, <1>k, <1>l
<1>t. /\ got \in Seq(Byte) /\ tx \in Seq(Byte) /\ staged \in Seq(Byte)
      /\ Unsent \in Seq(Byte) /\ Taken \in Seq(Byte) /\ Unread \in Seq(Byte)
      /\ Unread = Rest(rx, rd)
  BY FlowTypes DEF FlowTyped
<1>1. CASE SendData
  <2>1. /\ io = "send.data" /\ io' = "send.cr" /\ staged' = staged \o SubSeq(data, 1, len)
        /\ UNCHANGED <<len, data, conn, sent, got, tx, rx, rd>>
    BY <1>1 DEF SendData, At, Goto
  <2>2. toe = "send" /\ toe # "idle"
    BY <2>1 DEF Lines, SendPlaces
  <2>3. app \in {"bannering", "sending"}
    BY <2>2 DEF Lines, Receiving
  <2>4. HandedAt /\ HandedAt'
    BY <1>0, <2>2, HandedCases, HandedCasesNext DEF IdleBelow
  <2>5. Handed = 0 /\ Handed' = len
    BY <2>1, <2>2, <2>4 DEF HandedAt
  <2>6. Unsent = Rest(buf, off) /\ Unsent' = Rest(buf, off + len)
    <3>1. Unsent = Rest(buf, off + Handed) /\ Unsent' = Rest(buf', off' + Handed')
      BY <1>0, <2>3, UnsentCases DEF UnsentAt
    <3>2. off + Handed = off /\ off' + Handed' = off + len
      BY <1>0, <2>5
    <3> QED
      BY <1>0, <3>1, <3>2
  <2>7. data = Rest(buf, off) /\ len <= Len(data)
    BY <2>1 DEF Working, SendPlaces, Rest, IInv, SizesHold
  <2>8. Unsent = SubSeq(data, 1, len) \o Unsent'
    BY <1>0, <2>6, <2>7, RestFront
  <2>9. SubSeq(data, 1, len) \in Seq(Byte) /\ Unsent' \in Seq(Byte)
    <3>1. 0 \in Nat /\ len \in 0..Len(data) /\ 0 + 1 = 1
      BY <1>0, <2>7
    <3>2. SubSeq(data, 0 + 1, len) \in Seq(Byte)
      BY <1>0, <3>1, SubSeqFacts
    <3>3. off + len \in Nat
      BY <1>0
    <3> QED
      BY <1>0, <2>6, <3>1, <3>2, <3>3, RestIs
  <2>10. Taken' = Taken /\ Unread' = Unread /\ Hello' = Hello
    BY <1>0, <2>1, <2>3 DEF Taken, Unread, Hello, InSession
  <2>11. Flow(got, tx, staged \o SubSeq(data, 1, len), Unsent', Taken, Unread)
           = Flow(got, tx, staged, SubSeq(data, 1, len) \o Unsent', Taken, Unread)
    <3>1. PICK g \in Seq(Byte), t \in Seq(Byte), s \in Seq(Byte) : g = got /\ t = tx /\ s = staged
      BY <1>t, Zenon
    <3>2. PICK x \in Seq(Byte), u \in Seq(Byte) : x = SubSeq(data, 1, len) /\ u = Unsent'
      BY <2>9, Zenon
    <3>3. Flow(g, t, s \o x, u, Taken, Unread) = Flow(g, t, s, x \o u, Taken, Unread)
      BY FlowStage
    <3> QED
      BY <3>1, <3>2, <3>3, Zenon
  <2> QED
    BY <2>1, <2>8, <2>10, <2>11 DEF FlowNow
<1>2. CASE RecvData
  <2>0. /\ io = "recv.data" /\ io' = "recv.cr" /\ len' = MinOf(len, size)
        /\ data' = SubSeq(rx, rd + 1, rd + len') /\ rd' = rd + len'
        /\ UNCHANGED <<conn, sent, got, tx, rx, staged>>
    BY <1>2 DEF RecvData, At, Goto
  <2>1. PICK n \in Nat : n = len' /\ n <= size
    BY <1>0, <2>0 DEF MinOf
  <2>2. toe = "recv.done"
    BY <2>0 DEF Lines, RecvPlaces
  <2>3. app = "receiving"
    BY <2>2 DEF Lines, Receiving
  <2>4. rd + n <= Len(rx)
    <3>1. size <= RX_RSR
      BY <2>0 DEF IInv, SizesHold
    <3> QED
      BY <1>0, <2>1, <3>1 DEF RX_RSR
  <2>5. Unread = data' \o Unread'
    <3>1. Rest(rx, rd) = SubSeq(rx, rd + 1, rd + n) \o Rest(rx, rd + n)
      BY <1>0, <2>4, RestSplit
    <3>2. Unread' = Rest(rx, rd + n)
      BY <2>0, <2>1 DEF Unread, Rest
    <3> QED
      BY <1>t, <2>0, <2>1, <3>1, <3>2
  <2>6. data' \in Seq(Byte) /\ Unread' \in Seq(Byte)
    <3>1. rd + n \in rd..Len(rx)
      BY <1>0, <2>4
    <3>2. SubSeq(rx, rd + 1, rd + n) \in Seq(Byte)
      BY <1>0, <3>1, SubSeqFacts
    <3>3. Rest(rx, rd + n) \in Seq(Byte)
      BY <1>0, RestIs
    <3> QED
      BY <2>0, <2>1, <3>2, <3>3 DEF Unread, Rest
  <2>7. Taken = <<>> /\ Taken' = data'
    BY <1>0, <2>0, <2>2, <2>3 DEF Taken
  <2>8. Unsent' = Unsent /\ Hello' = Hello
    BY <1>0, <2>0, <2>3, NothingToSend DEF Resting, Hello, InSession
  <2>9. Flow(got, tx, staged, Unsent, data', Unread')
          = Flow(got, tx, staged, Unsent, <<>>, data' \o Unread')
    <3>1. PICK g \in Seq(Byte), t \in Seq(Byte), s \in Seq(Byte), u \in Seq(Byte) :
            g = got /\ t = tx /\ s = staged /\ u = Unsent
      BY <1>t, Zenon
    <3>2. PICK x \in Seq(Byte), r \in Seq(Byte) : x = data' /\ r = Unread'
      BY <2>6, Zenon
    <3>3. Flow(g, t, s, u, x, r) = Flow(g, t, s, u, <<>>, x \o r)
      BY FlowTake
    <3> QED
      BY <3>1, <3>2, <3>3, Zenon
  <2> QED
    BY <2>0, <2>5, <2>7, <2>8, <2>9 DEF FlowNow
<1>3. CASE SendAccepted
  <2>1. /\ io = "send.cr" /\ io' = "idle" /\ ioRet' = len
        /\ UNCHANGED <<conn, sent, got, tx, staged, rx, rd>>
    BY <1>3 DEF SendAccepted, At, Return, chipVars
  <2>2. toe = "send" /\ toe # "idle"
    BY <2>1 DEF Lines, SendPlaces
  <2>3. app \in {"bannering", "sending"}
    BY <2>2 DEF Lines, Receiving
  <2>4. HandedAt /\ HandedAt'
    BY <1>0, <2>2, HandedCases, HandedCasesNext DEF IdleBelow
  <2>5. Handed = len /\ Handed' = len
    BY <1>0, <2>1, <2>2, <2>4 DEF HandedAt
  <2>6. Unsent' = Unsent
    BY <1>0, <2>3, <2>5, UnsentCases DEF UnsentAt
  <2>7. Taken' = Taken /\ Unread' = Unread /\ Hello' = Hello
    BY <1>0, <2>1, <2>3 DEF Taken, Unread, Hello, InSession
  <2> QED
    BY <2>1, <2>6, <2>7 DEF FlowNow
<1>4. CASE RecvAccepted
  <2>1. /\ io = "recv.cr" /\ io' = "idle" /\ ioRet' = len
        /\ UNCHANGED <<data, conn, sent, got, tx, staged, rx, rd>>
    BY <1>4 DEF RecvAccepted, At, Return, chipVars
  <2>2. toe = "recv.done"
    BY <2>1 DEF Lines, RecvPlaces
  <2>3. app = "receiving"
    BY <2>2 DEF Lines, Receiving
  <2>4. len = 0 => data = <<>>
    <3>1. len = Len(data)
      BY <2>1 DEF Working
    <3> QED
      BY <1>0, <3>1, EmptySeq
  <2>5. Taken = data /\ Taken' = data
    <3>1. Taken = data
      BY <2>1, <2>3 DEF Taken
    <3>2. CASE len > 0
      BY <1>0, <2>1, <2>2, <2>3, <3>1, <3>2 DEF Taken
    <3>3. CASE len = 0
      BY <1>0, <2>1, <2>2, <2>3, <2>4, <3>1, <3>3 DEF Taken
    <3> QED
      BY <1>0, <3>1, <3>2, <3>3
  <2>6. Unsent' = Unsent /\ Unread' = Unread /\ Hello' = Hello
    BY <1>0, <2>1, <2>3, NothingToSend DEF Resting, Unread, Hello, InSession
  <2> QED
    BY <2>1, <2>5, <2>6 DEF FlowNow
<1>5. CASE ~SendData /\ ~SendAccepted /\ ~RecvData /\ ~RecvAccepted
  <2>1. Quiet
    BY <1>5, SocketCQuiet
  <2>2. UNCHANGED <<Unsent, Taken, Hello, Unread>>
    BY <2>1, QuietFlow
  <2> QED
    BY <2>1, <2>2 DEF Quiet, FlowNow
<1> QED
  BY <1>1, <1>2, <1>3, <1>4, <1>5

(* What the client has sent, and the whole stream.                         *)
Posted == [k \in 1..sent |-> <<conn, k>>]

(* The stream is the greeting and what the client has sent.                *)
LEMMA StreamIs ==
  /\ Stream = Hello \o Posted
  /\ sr \in Live => (EchoConserved <=> FlowNow = Stream)
  /\ sr \notin Live => EchoConserved
  BY DEF Stream, Hello, Posted, EchoConserved, FlowNow, Flow, Live, Fins

(* The same in the state after a step.                                     *)
LEMMA StreamIsNext ==
  /\ Stream' = Hello' \o Posted'
  /\ sr' \in Live => (EchoConserved' <=> FlowNow' = Stream')
  /\ sr' \notin Live => EchoConserved'
  BY DEF Stream, Hello, Posted, EchoConserved, FlowNow, Flow, Live, Fins

(* What the client has sent is a sequence of bytes, empty at first, and    *)
(* grows by one byte at a time.                                            *)
LEMMA PostedIs ==
  ASSUME NEW c \in Nat, NEW n \in Nat
  PROVE  /\ [k \in 1..n |-> <<c, k>>] \in Seq(Byte)
         /\ Len([k \in 1..n |-> <<c, k>>]) = n
         /\ n = 0 => [k \in 1..n |-> <<c, k>>] = <<>>
         /\ [k \in 1..n + 1 |-> <<c, k>>] = Append([k \in 1..n |-> <<c, k>>], <<c, n + 1>>)
<1> DEFINE p(m) == [k \in 1..m |-> <<c, k>>]
<1>1. ASSUME NEW m \in Nat PROVE p(m) \in Seq(Byte) /\ Len(p(m)) = m
  <2>1. \A k \in 1..m : <<c, k>> \in Byte
    BY DEF Byte
  <2>2. p(m) \in [1..m -> Byte]
    BY <2>1
  <2>3. p(m) \in Seq(Byte)
    BY <2>2, SeqDef
  <2>4. DOMAIN p(m) = 1..m
    OBVIOUS
  <2>5. DOMAIN p(m) = 1..Len(p(m)) /\ Len(p(m)) \in Nat
    BY <2>3, LenProperties
  <2> QED
    BY <2>3, <2>4, <2>5
<1>2. p(n) \in Seq(Byte) /\ Len(p(n)) = n
  BY <1>1
<1>3. p(n + 1) \in Seq(Byte) /\ Len(p(n + 1)) = n + 1
  <2>1. n + 1 \in Nat
    OBVIOUS
  <2> QED
    BY <1>1, <2>1
<1>4. n = 0 => p(n) = <<>>
  BY <1>2, EmptySeq
<1>5. <<c, n + 1>> \in Byte
  BY DEF Byte
<1>6. PICK a \in Seq(Byte), b \in Seq(Byte), e \in Byte : a = p(n) /\ b = p(n + 1) /\ e = <<c, n + 1>>
  BY <1>2, <1>3, <1>5, Zenon
<1>7. /\ Append(a, e) \in Seq(Byte) /\ Len(Append(a, e)) = n + 1
      /\ \A i \in 1..n : Append(a, e)[i] = a[i]
      /\ Append(a, e)[n + 1] = e
  <2>1. Len(a) = n
    BY <1>2, <1>6
  <2> QED
    BY <2>1, AppendProperties
<1>8. \A i \in 1..n + 1 : b[i] = Append(a, e)[i]
  <2>1. \A i \in 1..n + 1 : b[i] = <<c, i>>
    BY <1>6
  <2>2. \A i \in 1..n : a[i] = <<c, i>>
    BY <1>6
  <2>3. \A i \in 1..n + 1 : i \in 1..n \/ i = n + 1
    OBVIOUS
  <2> QED
    BY <1>6, <1>7, <2>1, <2>2, <2>3, Zenon
<1>9. b = Append(a, e)
  <2>1. Len(b) = n + 1 /\ Len(Append(a, e)) = n + 1
    BY <1>3, <1>6, <1>7
  <2>2. PICK d \in Seq(Byte) : d = Append(a, e)
    BY <1>7, Zenon
  <2>3. Len(b) = Len(d) /\ \A i \in 1..Len(b) : b[i] = d[i]
    BY <1>8, <2>1, <2>2
  <2>4. b = d
    BY <2>3, SeqEqual
  <2> QED
    BY <2>2, <2>4
<1> QED
  BY <1>2, <1>4, <1>6, <1>9, Zenon

(* A step that keeps the stream together keeps the echo whole.             *)
LEMMA EchoKept ==
  ASSUME EchoConserved, sr' = sr,
         sr \in Live => FlowNow' = FlowNow /\ UNCHANGED <<Hello, conn, sent>>
  PROVE  EchoConserved'
<1>1. CASE sr \in Live
  <2>1. FlowNow = Stream
    BY <1>1, StreamIs
  <2>2. Stream' = Stream
    BY <1>1, StreamIs, StreamIsNext DEF Posted
  <2> QED
    BY <1>1, <2>1, <2>2, StreamIsNext
<1>2. CASE sr \notin Live
  BY <1>2, StreamIsNext
<1> QED
  BY <1>1, <1>2

(* What recv() has copied becomes what is to be sent: nothing moves.       *)
LEMMA EchoTurned ==
  ASSUME FlowTyped, UNCHANGED <<got, tx, staged, Unread>>,
         Unsent = <<>>, Unsent' = Taken, Taken' = <<>>
  PROVE  FlowNow' = FlowNow
<1>1. Flow(got, tx, staged, Taken, <<>>, Unread) = Flow(got, tx, staged, <<>>, Taken, Unread)
  BY FlowEcho DEF FlowTyped
<1> QED
  BY <1>1 DEF FlowNow

(* The application's steps keep the echo whole.                            *)
LEMMA EchoApp ==
  ASSUME IInv, SessionInv, App
  PROVE  EchoConserved'
<1>0. Control /\ Untouched /\ EchoConserved
  BY DEF SessionInv
<1>1. UNCHANGED <<sr, conn, sent, got, tx, staged, rx, rd>>
  BY Zenon DEF App, Start, Listened, GiveUp, Exit, AcceptClient, Accepted, SendBanner, BannerSent,
     Receive, Received, SendEcho, EchoSent, CloseClient, ClientClosed, SendRest, AppGoto, CallToe, chipVars
<1>2. CASE sr \in Live
  <2>1. FlowNow = Stream /\ Posted' = Posted /\ Unread' = Unread
    BY <1>0, <1>1, <1>2, StreamIs DEF Posted, Unread
  <2>t. FlowTyped
    BY <1>0, ControlLines, FlowTypes
  <2>2. CASE UNCHANGED <<Unsent, Taken, Hello>>
    <3>1. FlowNow' = FlowNow
      BY <1>1, <2>1, <2>2 DEF FlowNow
    <3> QED
      BY <1>0, <1>1, <2>2, <3>1, EchoKept
  <2>3. CASE Unsent = <<>> /\ Unsent' = Taken /\ Taken' = <<>> /\ UNCHANGED Hello
    <3>1. FlowNow' = FlowNow
      BY <1>1, <2>1, <2>t, <2>3, EchoTurned
    <3> QED
      BY <1>0, <1>1, <2>3, <3>1, EchoKept
  <2>4. CASE /\ ~InSession /\ Unsent = <<>> /\ Taken = <<>> /\ Hello = <<>>
             /\ Taken' = <<>> /\ Unsent' = Hello'
    <3>1. got = <<>> /\ tx = <<>> /\ staged = <<>>
      BY <1>0, <1>2, <2>4 DEF Untouched
    <3>2. PICK h \in Seq(Byte), r \in Seq(Byte) : h = Hello' /\ r = Unread
      <4>1. Hello' \in Seq(Byte)
        <5>1. conn' \in Nat
          BY <1>1 DEF IInv, TypeOK, ChipTypeOK
        <5>2. <<conn', 0>> \in Byte
          BY <5>1 DEF Byte
        <5>3. <<<<conn', 0>>>> \in Seq(Byte) /\ <<>> \in Seq(Byte)
          BY <5>2, SingletonSeq, EmptySeq
        <5> QED
          BY <5>3 DEF Hello
      <4> QED
        BY <2>t, <4>1, Zenon DEF FlowTyped
    <3>3. Flow(<<>>, <<>>, <<>>, <<>>, <<>>, r) = r
      <4>1. <<>> \in Seq(Byte) /\ <<>> \o r = r
        BY EmptySeq, ConcatEmptySeq
      <4>2. Flow(<<>>, <<>>, <<>>, <<>>, <<>>, r) = <<>> \o r
        BY <4>1, FlowGreeting
      <4> QED
        BY <4>1, <4>2
    <3>4. Flow(<<>>, <<>>, <<>>, h, <<>>, r) = h \o r
      BY FlowGreeting
    <3>5. FlowNow = r
      BY <2>4, <3>1, <3>2, <3>3, Zenon DEF FlowNow
    <3>6. Stream = Posted
      <4>1. conn \in Nat /\ sent \in Nat
        BY DEF IInv, TypeOK, ChipTypeOK
      <4>2. Posted \in Seq(Byte)
        BY <4>1, PostedIs DEF Posted
      <4>3. <<>> \o Posted = Posted
        BY <4>2, ConcatEmptySeq
      <4> QED
        BY <2>4, <4>3, StreamIs
    <3>7. r = Posted'
      BY <2>1, <3>5, <3>6, Zenon
    <3>8. FlowNow' = h \o r
      BY <1>1, <2>1, <2>4, <3>1, <3>2, <3>4, Zenon DEF FlowNow
    <3>9. FlowNow' = Stream'
      BY <3>2, <3>7, <3>8, StreamIsNext
    <3> QED
      BY <3>9, StreamIsNext
  <2> QED
    BY <1>0, <1>2, <2>2, <2>3, <2>4, AppFlow
<1>3. CASE sr \notin Live
  BY <1>1, <1>3, StreamIsNext
<1> QED
  BY <1>2, <1>3

(* The steps of wiznet_toe.c keep the echo whole.                          *)
LEMMA EchoToe ==
  ASSUME IInv, SessionInv, WiznetToe(BufSize), UNCHANGED appVars
  PROVE  EchoConserved'
<1>0. Control /\ EchoConserved
  BY DEF SessionInv
<1>1. UNCHANGED <<sr, conn, sent, got, tx, staged, rx, rd>>
  BY Zenon DEF WiznetToe, ListenSocket, ListenListen, ListenDone, AcceptTimeout, AcceptEstablished,
     AcceptClosed, AcceptListen, AcceptDone, SendDone, RecvPoll, RecvEof, RecvWait, RecvTimeout,
     RecvDone, CloseBegin, RearmSocket, RearmListen, RearmDone, CloseFinal, CloseFreed,
     DisconnectIfConnected, ToeGoto, ToeReturn, chipVars
<1>2. ASSUME sr \in Live PROVE FlowNow' = FlowNow /\ UNCHANGED <<Hello, conn, sent>>
  <2>1. UNCHANGED <<Unsent, Taken, Hello>>
    BY <1>0, <1>2, ToeFlow
  <2> QED
    BY <1>1, <2>1 DEF FlowNow, Unread
<1> QED
  BY <1>0, <1>1, <1>2, EchoKept

(* The steps of socket.c keep the echo whole.                              *)
LEMMA EchoSocketC ==
  ASSUME IInv, SessionInv, SocketC, UNCHANGED <<toeVars, appVars>>
  PROVE  EchoConserved'
<1>0. Control /\ Working /\ EchoConserved
  BY DEF SessionInv
<1>1. sr' = sr
  BY Zenon DEF SocketC, CloseCommand, CloseClear, CloseWait, CloseReturn, SocketBegin, SocketOpen,
     SocketFlags, SocketWait, ListenBegin, ListenCheck, DisconnectBegin, DisconnectFlag,
     DisconnectStatus, DisconnectTimeout, SendBegin, SendPrevious, SendFreeSize, SendStatus,
     SendData, SendAccepted, RecvSize, RecvStatus, RecvData, RecvAccepted, chipVars
<1>2. sr \in Live => FlowNow' = FlowNow /\ UNCHANGED <<Hello, conn, sent>>
  BY <1>0, ControlLines, SocketCFlow
<1> QED
  BY <1>0, <1>1, <1>2, EchoKept

(* While only the chip and the peer move, the software holds what it held. *)
LEMMA SoftwareHolds ==
  ASSUME UNCHANGED <<ioVars, toeVars, appVars>>
  PROVE  UNCHANGED <<Unsent, Taken, InSession>>
<1>1. UNCHANGED <<io, ioRet, toe, toeRet, app, data, len, buf, off>>
  BY DEF ioVars, toeVars, appVars
<1>2. Taken' = Taken /\ InSession' = InSession
  BY <1>1 DEF Taken, InSession
<1>3. Handed' = Handed
  BY <1>1 DEF Handed
<1>4. Unsent' = Unsent
  BY <1>1, <1>3 DEF Unsent
<1> QED
  BY <1>2, <1>4

(* The steps of the chip and of the peer keep the echo of a connection     *)
(* whole, whoever has opened it.                                           *)
LEMMA EchoWire ==
  ASSUME ChipTypeOK, FlowTyped, EchoConserved, Chip \/ Peer, ~PeerHandshake,
         UNCHANGED <<ioVars, toeVars, appVars>>
  PROVE  EchoConserved'
<1>t. /\ got \in Seq(Byte) /\ tx \in Seq(Byte) /\ staged \in Seq(Byte)
      /\ Unsent \in Seq(Byte) /\ Taken \in Seq(Byte) /\ Unread \in Seq(Byte)
      /\ Unread = Rest(rx, rd) /\ Hello \in Seq(Byte)
  BY DEF FlowTyped
<1>x. /\ rx \in Seq(Byte) /\ rd \in 0..Len(rx) /\ conn \in Nat /\ sent \in Nat
  BY DEF ChipTypeOK
<1>y. Len(rx) \in Nat /\ rd \in Nat /\ rd <= Len(rx)
  <2>1. Len(rx) \in Nat
    BY <1>x, LenProperties
  <2> QED
    BY <1>x, <2>1
<1>s. UNCHANGED <<Unsent, Taken, InSession>>
  BY SoftwareHolds
<1> USE DEF Accept, Live, Fins, Connected
<1>1. CASE sr' \notin Live
  BY <1>1, StreamIsNext
<1>2. CASE sr' \in Live /\ UNCHANGED <<sr, conn, sent, got, tx, staged, rx, rd>>
  <2>1. FlowNow' = FlowNow
    BY <1>2, <1>s DEF FlowNow, Unread
  <2>2. Stream' = Stream
    <3>1. Hello' = Hello /\ Posted' = Posted
      BY <1>2, <1>s DEF Hello, Posted
    <3> QED
      BY <3>1, StreamIs, StreamIsNext
  <2> QED
    BY <1>2, <2>1, <2>2, StreamIs, StreamIsNext
<1>3. CASE ChipDiscon \/ PeerFin
  <2>1. sr' \in Live => sr \in Live
    BY <1>3 DEF ChipDiscon, PeerFin
  <2>2. UNCHANGED <<conn, sent, got, tx, staged, rx, rd>>
    BY <1>3 DEF ChipDiscon, PeerFin
  <2>3. FlowNow' = FlowNow
    BY <2>2, <1>s DEF FlowNow, Unread
  <2>4. Stream' = Stream
    <3>1. Hello' = Hello /\ Posted' = Posted
      BY <2>2, <1>s DEF Hello, Posted
    <3> QED
      BY <3>1, StreamIs, StreamIsNext
  <2> QED
    BY <2>1, <2>3, <2>4, StreamIs, StreamIsNext
<1>4. CASE ChipSend /\ sr \in Connected
  <2>1. sr' = sr /\ tx' = tx \o staged /\ staged' = <<>> /\ UNCHANGED <<conn, sent, got, rx, rd>>
    BY <1>4 DEF ChipSend
  <2>2. Flow(got, tx \o staged, <<>>, Unsent, Taken, Unread) = Flow(got, tx, staged, Unsent, Taken, Unread)
    BY <1>t, FlowSend
  <2>3. FlowNow' = FlowNow
    BY <2>1, <2>2, <1>s DEF FlowNow, Unread
  <2>4. Stream' = Stream
    <3>1. Hello' = Hello /\ Posted' = Posted
      BY <2>1, <1>s DEF Hello, Posted
    <3> QED
      BY <3>1, StreamIs, StreamIsNext
  <2> QED
    BY <1>4, <2>1, <2>3, <2>4, StreamIs, StreamIsNext
<1>5. CASE ChipRecv
  <2>1. sr' = sr /\ rx' = Rest(rx, rd) /\ rd' = 0 /\ UNCHANGED <<conn, sent, got, tx, staged>>
    BY <1>5 DEF ChipRecv, Rest
  <2>2. Unread' = Unread
    <3>1. Unread' = Rest(rx', rd')
      BY DEF Unread, Rest
    <3>2. PICK r \in Seq(Byte) : r = Rest(rx, rd)
      BY <1>t, Zenon
    <3>3. Rest(r, 0) = r
      BY RestIs
    <3> QED
      BY <1>t, <2>1, <3>1, <3>2, <3>3, Zenon
  <2>3. FlowNow' = FlowNow
    BY <2>1, <2>2, <1>s DEF FlowNow
  <2>4. Stream' = Stream
    <3>1. Hello' = Hello /\ Posted' = Posted
      BY <2>1, <1>s DEF Hello, Posted
    <3> QED
      BY <3>1, StreamIs, StreamIsNext
  <2> QED
    BY <2>1, <2>3, <2>4, StreamIs, StreamIsNext
<1>6. CASE PeerAck
  <2>1. sr' = sr /\ sr \in Live /\ got' = got \o tx /\ tx' = <<>> /\ UNCHANGED <<conn, sent, staged, rx, rd>>
    BY <1>6 DEF PeerAck
  <2>2. Flow(got \o tx, <<>>, staged, Unsent, Taken, Unread) = Flow(got, tx, staged, Unsent, Taken, Unread)
    BY <1>t, FlowAck
  <2>3. FlowNow' = FlowNow
    BY <2>1, <2>2, <1>s DEF FlowNow, Unread
  <2>4. Stream' = Stream
    <3>1. Hello' = Hello /\ Posted' = Posted
      BY <2>1, <1>s DEF Hello, Posted
    <3> QED
      BY <3>1, StreamIs, StreamIsNext
  <2> QED
    BY <2>1, <2>3, <2>4, StreamIs, StreamIsNext
<1>7. CASE PeerData
  <2>1. /\ sr' = sr /\ sr \in Live /\ sent' = sent + 1 /\ rx' = Append(rx, <<conn, sent + 1>>)
        /\ UNCHANGED <<conn, got, tx, staged, rd>>
    BY <1>7 DEF PeerData
  <2>2. PICK e \in Byte : e = <<conn, sent + 1>>
    <3>1. <<conn, sent + 1>> \in Byte
      BY <1>x DEF Byte
    <3> QED
      BY <3>1, Zenon
  <2>3. Unread' = Append(Unread, e)
    <3>1. Unread' = Rest(rx', rd') /\ rx' = Append(rx, e) /\ rd' = rd
      BY <2>1, <2>2 DEF Unread, Rest
    <3>2. Rest(Append(rx, e), rd) = Append(Rest(rx, rd), e)
      BY <1>x, <1>y, RestAppend
    <3> QED
      BY <1>t, <3>1, <3>2, Zenon
  <2>4. FlowNow' = Append(FlowNow, e)
    <3>1. FlowNow' = Flow(got, tx, staged, Unsent, Taken, Append(Unread, e))
      BY <2>1, <2>3, <1>s, Zenon DEF FlowNow
    <3>2. PICK g \in Seq(Byte), t \in Seq(Byte), s \in Seq(Byte), u \in Seq(Byte), k \in Seq(Byte), r \in Seq(Byte) :
            g = got /\ t = tx /\ s = staged /\ u = Unsent /\ k = Taken /\ r = Unread
      BY <1>t, Zenon
    <3>3. PICK p \in Seq(Byte) : p = Cat(Cat(Cat(Cat(g, t), s), u), k)
      BY Joining
    <3>4. /\ Flow(g, t, s, u, k, r) = Cat(p, r)
          /\ Flow(g, t, s, u, k, Append(r, e)) = Cat(p, Append(r, e))
      BY <3>3, FlowIs
    <3>5. Cat(p, Append(r, e)) = Append(Cat(p, r), e)
      BY CatAppend
    <3> QED
      BY <3>1, <3>2, <3>4, <3>5, Zenon DEF FlowNow
  <2>5. Stream' = Append(Stream, e)
    <3>1. Hello' = Hello
      BY <2>1, <1>s DEF Hello
    <3>2. Posted' = Append(Posted, e) /\ Posted \in Seq(Byte)
      <4>1. Posted' = [k \in 1..sent + 1 |-> <<conn, k>>]
        BY <2>1 DEF Posted
      <4>2. /\ [k \in 1..sent |-> <<conn, k>>] \in Seq(Byte)
            /\ [k \in 1..sent + 1 |-> <<conn, k>>] = Append([k \in 1..sent |-> <<conn, k>>], <<conn, sent + 1>>)
        BY <1>x, PostedIs
      <4> QED
        BY <2>2, <4>1, <4>2, Zenon DEF Posted
    <3>3. PICK h \in Seq(Byte), p \in Seq(Byte) : h = Hello /\ p = Posted
      BY <1>t, <3>2, Zenon
    <3>4. Cat(h, Append(p, e)) = Append(Cat(h, p), e)
      BY CatAppend
    <3>5. Stream' = Cat(h, Append(p, e)) /\ Stream = Cat(h, p)
      BY <3>1, <3>2, <3>3, StreamIs, StreamIsNext DEF Cat
    <3> QED
      BY <3>4, <3>5, Zenon
  <2> QED
    BY <2>1, <2>4, <2>5, StreamIs, StreamIsNext, Zenon
<1>8. CASE \/ ChipOpen \/ ChipListen \/ ChipClose \/ ChipSendOk
           \/ (ChipSend /\ sr \notin Connected) \/ PeerConnect \/ PeerFinAck \/ PeerReset \/ TcpTimeout
  <2>1. sr' \in Live => UNCHANGED <<sr, conn, sent, got, tx, staged, rx, rd>>
    BY <1>8 DEF ChipOpen, ChipListen, ChipClose, ChipSendOk, ChipSend, PeerConnect, PeerFinAck,
       PeerReset, TcpTimeout
  <2> QED
    BY <1>1, <1>2, <2>1
<1> QED
  BY <1>3, <1>4, <1>5, <1>6, <1>7, <1>8 DEF Chip, Peer, NetworkResolves

(* A connection begins with an empty stream.                               *)
LEMMA EchoBegins ==
  ASSUME ChipTypeOK, UNCHANGED <<ioVars, toeVars, appVars>>, UNCHANGED <<tx, staged, rx, rd>>,
         rx = <<>>, tx = <<>>, staged = <<>>, Unsent = <<>>, Taken = <<>>,
         got' = <<>>, sent' = 0, conn' \in Nat, Hello' = <<>>
  PROVE  EchoConserved'
<1>x. /\ rx \in Seq(Byte) /\ rd \in Nat /\ rd >= 0
  BY LenProperties DEF ChipTypeOK
<1>s. UNCHANGED <<Unsent, Taken>>
  BY SoftwareHolds
<1>1. Unread' = <<>>
  <2>1. Len(rx) = 0
    BY <1>x, EmptySeq
  <2>2. rd >= Len(rx)
    BY <1>x, <2>1
  <2>3. Rest(rx, rd) = <<>>
    BY <1>x, <2>2, RestIs, Zenon
  <2> QED
    BY <2>3 DEF Unread, Rest
<1>2. FlowNow' = Flow(<<>>, <<>>, <<>>, <<>>, <<>>, <<>>)
  BY <1>1, <1>s DEF FlowNow
<1>3. Posted' = <<>>
  <2>1. Posted' = [k \in 1..0 |-> <<conn', k>>]
    BY DEF Posted
  <2>2. [k \in 1..0 |-> <<conn', k>>] = <<>>
    BY PostedIs
  <2> QED
    BY <2>1, <2>2
<1>4. Flow(<<>>, <<>>, <<>>, <<>>, <<>>, <<>>) = <<>> \o <<>>
  BY EmptySeq, FlowGreeting
<1>5. FlowNow' = Stream'
  BY <1>2, <1>3, <1>4, StreamIsNext
<1> QED
  BY <1>5, StreamIsNext

(* The steps of the chip and of the peer keep the echo whole.              *)
LEMMA EchoHardware ==
  ASSUME IInv, SessionInv, Chip \/ Peer, UNCHANGED <<ioVars, toeVars, appVars>>
  PROVE  EchoConserved'
<1>0. Control /\ Untouched /\ EchoConserved /\ ChipTypeOK
  BY DEF SessionInv, IInv, TypeOK
<1>1. FlowTyped
  BY <1>0, ControlLines, FlowTypes
<1>2. CASE PeerHandshake
  <2>1. sr = "SYNRECV" /\ UNCHANGED <<conn, sent, got, tx, staged, rx, rd>>
    BY <1>2 DEF PeerHandshake
  <2>2. ~InSession
    BY <1>0, <2>1 DEF Control, InUse, Live, Fins, Connected
  <2>3. rx = <<>> /\ tx = <<>> /\ staged = <<>> /\ got = <<>> /\ sent = 0 /\ conn \in Nat
    BY <1>0, <2>1, <2>2 DEF IInv, FreshBuffers, Untouched, ChipTypeOK
  <2>4. app \notin Resting /\ app # "receiving"
    BY <2>2 DEF InSession, Resting
  <2>5. Unsent = <<>> /\ Taken = <<>> /\ Hello' = <<>>
    BY <2>2, <2>4, SoftwareHolds, NothingToSend DEF Taken, Hello
  <2> QED
    BY <1>0, <2>1, <2>3, <2>5, EchoBegins
<1>3. CASE ~PeerHandshake
  BY <1>0, <1>1, <1>3, EchoWire
<1> QED
  BY <1>2, <1>3

(* The application starts a send with what is left of its buffer, and does *)
(* not leave the session while the connection is up.                       *)
LEMMA WorkApp ==
  ASSUME IInv, SessionInv, App
  PROVE  Untouched' /\ Working'
<1>0. Control /\ Untouched /\ Working
  BY DEF SessionInv
<1>1. UNCHANGED chipVars
  BY Zenon DEF App, Start, Listened, GiveUp, Exit, AcceptClient, Accepted, SendBanner, BannerSent,
     Receive, Received, SendEcho, EchoSent, CloseClient, ClientClosed, SendRest, AppGoto, CallToe
<1>2. toe = "idle" /\ io = "idle"
  <2>1. toe = "idle"
    BY Zenon DEF App, Start, Listened, GiveUp, Exit, AcceptClient, Accepted, SendBanner, BannerSent,
       Receive, Received, SendEcho, EchoSent, CloseClient, ClientClosed, AppAt
  <2> QED
    BY <2>1 DEF IInv, IdleBelow
<1>3. InSession => InSession'
  <2>1. CASE \/ Start \/ Listened \/ GiveUp \/ Exit \/ AcceptClient \/ Accepted \/ ClientClosed
    <3>1. app \in {"start", "listen", "giveup", "accept", "accepting", "closing"} \/ GivingUp
      BY <2>1, Zenon DEF Start, Listened, GiveUp, Exit, AcceptClient, Accepted, ClientClosed, AppAt, GivingUp
    <3>2. ~InSession
      BY <1>2, <3>1, Zenon DEF InSession, GivingUp
    <3> QED
      BY <3>2
  <2>2. CASE SendBanner \/ BannerSent \/ Receive \/ Received \/ SendEcho \/ EchoSent
    <3>1. app' \in {"banner", "bannering", "recv", "receiving", "send", "sending", "close"}
      BY <2>2, Zenon DEF SendBanner, BannerSent, Receive, Received, SendEcho, EchoSent, SendRest, AppGoto, CallToe
    <3> QED
      BY <3>1 DEF InSession
  <2>3. CASE CloseClient
    BY <2>3 DEF CloseClient, CallToe, InSession
  <2> QED
    BY <2>1, <2>2, <2>3 DEF App
<1>4. Untouched'
  BY <1>0, <1>1, <1>2, <1>3 DEF Untouched, Covered, chipVars
<1>5. Working'
  <2>1. CASE SendBanner \/ SendEcho
    BY <2>1 DEF SendBanner, SendEcho, SendRest, CallSend, Working
  <2>2. CASE ~(SendBanner \/ SendEcho)
    <3>1. io' = io
      BY <2>2, Zenon DEF App, Start, Listened, GiveUp, Exit, AcceptClient, Accepted, BannerSent,
         Receive, Received, EchoSent, CloseClient, ClientClosed, AppGoto, CallToe, ioVars
    <3> QED
      BY <1>2, <3>1 DEF Working, SendPlaces
  <2> QED
    BY <2>1, <2>2
<1> QED
  BY <1>4, <1>5

(* wiznet_toe.c ends a session only when the connection is down.           *)
LEMMA WorkToe ==
  ASSUME IInv, SessionInv, WiznetToe(BufSize), UNCHANGED appVars
  PROVE  Untouched' /\ Working'
<1>0. Control /\ Untouched /\ Working
  BY DEF SessionInv
<1>1. UNCHANGED chipVars
  BY Zenon DEF WiznetToe, ListenSocket, ListenListen, ListenDone, AcceptTimeout, AcceptEstablished,
     AcceptClosed, AcceptListen, AcceptDone, SendDone, RecvPoll, RecvEof, RecvWait, RecvTimeout,
     RecvDone, CloseBegin, RearmSocket, RearmListen, RearmDone, CloseFinal, CloseFreed,
     DisconnectIfConnected, ToeGoto, ToeReturn
<1>2. io = "idle"
  BY Zenon DEF WiznetToe, ListenSocket, ListenListen, ListenDone, AcceptTimeout, AcceptEstablished,
     AcceptClosed, AcceptListen, AcceptDone, SendDone, RecvPoll, RecvEof, RecvWait, RecvTimeout,
     RecvDone, CloseBegin, RearmSocket, RearmListen, RearmDone, CloseFinal, CloseFreed, ToeAt
<1>3. io' \in {"idle", "socket", "listen", "disconnect", "recv", "closing"}
  BY <1>2, Zenon DEF WiznetToe, ListenSocket, ListenListen, ListenDone, AcceptTimeout, AcceptEstablished,
     AcceptClosed, AcceptListen, AcceptDone, SendDone, RecvPoll, RecvEof, RecvWait, RecvTimeout,
     RecvDone, CloseBegin, RearmSocket, RearmListen, RearmDone, CloseFinal, CloseFreed,
     DisconnectIfConnected, Call, CallRecv, CallClose, ioVars
<1>a. app' = app
  BY DEF appVars
<1>4. sr \in Live \cup {"SYNRECV"} /\ InSession => InSession'
  <2>1. CASE app # "closing"
    BY <1>a, <2>1 DEF InSession
  <2>2. CASE app = "closing" /\ toe \notin {"close", "close.socket"}
    BY <2>2 DEF InSession
  <2>3. CASE CloseBegin /\ app = "closing"
    <3>1. listening /\ accepted
      BY <1>0, <2>3 DEF CloseBegin, ToeAt, Control, Descriptor, InSession
    <3>2. toe' = "close.socket"
      BY <2>3, <3>1, Zenon DEF CloseBegin, DisconnectIfConnected, ToeGoto
    <3> QED
      BY <1>a, <2>3, <3>2 DEF InSession
  <2>4. CASE RearmSocket
    BY <1>0, <2>4 DEF RearmSocket, ToeAt, Control, Closed, Live, Fins, Connected
  <2>5. CASE ~CloseBegin /\ ~RearmSocket
    <3>1. toe \notin {"close", "close.socket"}
      BY <2>5, Zenon DEF WiznetToe, ListenSocket, ListenListen, ListenDone, AcceptTimeout, AcceptEstablished,
         AcceptClosed, AcceptListen, AcceptDone, SendDone, RecvPoll, RecvEof, RecvWait, RecvTimeout,
         RecvDone, RearmListen, RearmDone, CloseFinal, CloseFreed, ToeAt
    <3> QED
      BY <2>1, <2>2, <3>1
  <2> QED
    BY <2>1, <2>3, <2>4, <2>5
<1>5. Untouched'
  BY <1>0, <1>1, <1>2, <1>4 DEF Untouched, Covered, chipVars
<1>6. Working'
  BY <1>3 DEF Working, SendPlaces
<1> QED
  BY <1>5, <1>6

(* socket.c stages bytes only for a SEND it then waits for, and copies as  *)
(* many bytes as it reports.                                               *)
LEMMA WorkingSocketC ==
  ASSUME IInv, Working, Covered, SocketC, UNCHANGED <<toeVars, appVars>>
  PROVE  /\ Working' /\ Covered'
         /\ UNCHANGED <<sr, conn, sent, got, tx>>
         /\ SendData \/ staged' = staged
<1>0. Working /\ Covered /\ CloseNested
  BY DEF IInv, CtlInv
<1>u. UNCHANGED <<app, toe, buf, off>>
  BY DEF toeVars, appVars
<1>1. CASE SendData
  <2>1. /\ io = "send.data" /\ io' = "send.cr" /\ cr' = "SEND"
        /\ UNCHANGED <<sr, conn, sent, got, tx, data>>
    BY <1>1 DEF SendData, At, Goto
  <2>2. Covered'
    BY <2>1 DEF Covered
  <2>3. Working'
    BY <1>0, <1>u, <2>1 DEF Working, SendPlaces
  <2> QED
    BY <1>1, <2>1, <2>2, <2>3
<1>2. CASE RecvData
  <2>1. /\ io = "recv.data" /\ io' = "recv.cr" /\ len' = MinOf(len, size)
        /\ data' = SubSeq(rx, rd + 1, rd + len')
        /\ UNCHANGED <<sr, conn, sent, got, tx, staged>>
    BY <1>2 DEF RecvData, At, Goto
  <2>2. Covered'
    BY <1>0, <2>1 DEF Covered
  <2>3. PICK n \in Nat : n = len' /\ n <= size
    <3>1. len \in Nat /\ size \in Nat
      BY DEF IInv, TypeOK, IoTypeOK
    <3> QED
      BY <2>1, <3>1 DEF MinOf
  <2>4. rx \in Seq(Byte) /\ rd \in Nat /\ Len(rx) \in Nat /\ rd + n <= Len(rx)
    <3>1. rx \in Seq(Byte) /\ rd \in 0..Len(rx) /\ size \in Nat
      BY DEF IInv, TypeOK, ChipTypeOK, IoTypeOK
    <3>2. Len(rx) \in Nat
      BY <3>1, LenProperties
    <3>3. size <= Len(rx) - rd
      BY <2>1 DEF IInv, SizesHold, RX_RSR
    <3> QED
      BY <2>3, <3>1, <3>2, <3>3
  <2>5. Len(SubSeq(rx, rd + 1, rd + n)) = n
    <3>1. rd + n \in rd..Len(rx)
      BY <2>4
    <3>2. Len(SubSeq(rx, rd + 1, rd + n)) = (rd + n) - rd
      BY <2>4, <3>1, SubSeqFacts
    <3> QED
      BY <2>4, <3>2
  <2>6. Working'
    BY <2>1, <2>3, <2>5 DEF Working, SendPlaces
  <2> QED
    BY <2>1, <2>2, <2>6
<1>3. CASE ~SendData /\ ~RecvData
  <2>1. UNCHANGED <<sr, conn, sent, got, tx, staged>>
    BY <1>3, Zenon DEF SocketC, CloseCommand, CloseClear, CloseWait, CloseReturn, SocketBegin, SocketOpen,
       SocketFlags, SocketWait, ListenBegin, ListenCheck, DisconnectBegin, DisconnectFlag,
       DisconnectStatus, DisconnectTimeout, SendBegin, SendPrevious, SendFreeSize, SendStatus,
       SendAccepted, RecvSize, RecvStatus, RecvAccepted, chipVars
  <2>2. ~(io = "send.cr" /\ cr = "SEND")
    BY <1>0, <1>3 DEF CloseNested, SocketC, CloseCommand, CloseClear, CloseWait, CloseReturn, SocketBegin, SocketOpen,
       SocketFlags, SocketWait, ListenBegin, ListenCheck, DisconnectBegin, DisconnectFlag,
       DisconnectStatus, DisconnectTimeout, SendBegin, SendPrevious, SendFreeSize, SendStatus,
       SendAccepted, RecvSize, RecvStatus, RecvAccepted, At
  <2>3. Covered'
    BY <1>0, <2>1, <2>2 DEF Covered
  <2>4. data' = data
    BY <1>3, Zenon DEF SocketC, CloseCommand, CloseClear, CloseWait, CloseReturn, SocketBegin, SocketOpen,
       SocketFlags, SocketWait, ListenBegin, ListenCheck, DisconnectBegin, DisconnectFlag,
       DisconnectStatus, DisconnectTimeout, SendBegin, SendPrevious, SendFreeSize, SendStatus,
       SendAccepted, RecvSize, RecvStatus, RecvAccepted
  <2>5. io' \in SendPlaces => io \in SendPlaces
    BY <1>3, Zenon DEF SendPlaces, SocketC, CloseCommand, CloseClear, CloseWait, CloseReturn, SocketBegin, SocketOpen,
       SocketFlags, SocketWait, ListenBegin, ListenCheck, DisconnectBegin, DisconnectFlag,
       DisconnectStatus, DisconnectTimeout, SendBegin, SendPrevious, SendFreeSize, SendStatus,
       SendAccepted, RecvSize, RecvStatus, RecvAccepted, At, Goto, Return, CloseThenReturn
  <2>6. io' = "recv.cr" => io = "recv.cr" /\ len' = len
    BY <1>3, Zenon DEF SocketC, CloseCommand, CloseClear, CloseWait, CloseReturn, SocketBegin, SocketOpen,
       SocketFlags, SocketWait, ListenBegin, ListenCheck, DisconnectBegin, DisconnectFlag,
       DisconnectStatus, DisconnectTimeout, SendBegin, SendPrevious, SendFreeSize, SendStatus,
       SendAccepted, RecvSize, RecvStatus, RecvAccepted, At, Goto, Return, CloseThenReturn
  <2>7. Working'
    BY <1>0, <1>u, <2>4, <2>5, <2>6 DEF Working
  <2> QED
    BY <2>1, <2>3, <2>7
<1> QED
  BY <1>1, <1>2, <1>3

(* A session stays one while socket.c works for it.                        *)
LEMMA WorkSocketC ==
  ASSUME IInv, SessionInv, SocketC, UNCHANGED <<toeVars, appVars>>
  PROVE  Untouched' /\ Working'
<1>0. Control /\ Untouched /\ Working /\ Covered
  BY DEF SessionInv, Untouched, Covered
<1>s. InSession' = InSession
  BY DEF InSession, toeVars, appVars
<1>1. /\ Working' /\ Covered' /\ UNCHANGED <<sr, conn, sent, got, tx>>
      /\ SendData \/ staged' = staged
  BY <1>0, WorkingSocketC
<1>2. SendData => InSession
  <2> SUFFICES ASSUME SendData PROVE InSession
    OBVIOUS
  <2>1. io \in SendPlaces
    BY DEF SendData, At, SendPlaces
  <2>2. app \in {"bannering", "sending"}
    BY <1>0, <2>1, ControlLines DEF Lines
  <2> QED
    BY <2>2 DEF InSession
<1>3. Untouched'
  BY <1>0, <1>s, <1>1, <1>2 DEF Untouched, Covered
<1> QED
  BY <1>1, <1>3

(* A connection begins with everything empty, and what is staged leaves    *)
(* with its SEND.                                                          *)
LEMMA WorkHardware ==
  ASSUME IInv, SessionInv, Chip \/ Peer, UNCHANGED <<ioVars, toeVars, appVars>>
  PROVE  Untouched' /\ Working'
<1>0. Untouched /\ Working /\ Finishing /\ FreshBuffers
  BY DEF SessionInv, Control, IInv
<1>c. conn \in Nat
  BY DEF IInv, TypeOK, ChipTypeOK
<1>s. InSession' <=> InSession
  BY SoftwareHolds
<1>i. io' = io
  BY DEF ioVars
<1>w. Working'
  BY <1>0 DEF Working, ioVars, appVars
<1> USE <1>0, <1>s, <1>i, <1>w DEF Untouched, Covered, Live, Fins, Connected, Accept, FreshBuffers
<1>1. CASE ChipSend
  <2>1. CASE sr \in Connected
    <3>1. tx' = tx \o staged /\ staged' = <<>> /\ UNCHANGED <<sr, conn, sent, got>>
      BY <1>1, <2>1 DEF ChipSend
    <3>2. tx = <<>> /\ staged = <<>> => tx' = <<>>
      BY <3>1, ConcatEmptySeq, EmptySeq
    <3> QED
      BY <3>1, <3>2
  <2>2. CASE sr \notin Connected
    <3>1. UNCHANGED <<sr, conn, sent, got, tx, staged>>
      BY <1>1, <2>2 DEF ChipSend
    <3>2. sr \in Fins => staged = <<>>
      BY DEF Finishing, DisconnectPlaces
    <3> QED
      BY <2>2, <3>1, <3>2
  <2> QED
    BY <2>1, <2>2
<1>2. CASE ChipOpen \/ ChipListen \/ ChipClose \/ ChipDiscon \/ ChipRecv
  BY <1>2 DEF ChipOpen, ChipListen, ChipClose, ChipDiscon, ChipRecv
<1>3. CASE ChipSendOk
  BY <1>3 DEF ChipSendOk
<1>4. CASE PeerConnect
  BY <1>4, <1>c DEF PeerConnect
<1>5. CASE PeerHandshake
  BY <1>5 DEF PeerHandshake
<1>6. CASE PeerData \/ PeerFin
  BY <1>6 DEF PeerData, PeerFin
<1>7. CASE PeerAck
  BY <1>7 DEF PeerAck
<1>8. CASE PeerFinAck \/ PeerReset \/ TcpTimeout
  BY <1>8 DEF PeerFinAck, PeerReset, TcpTimeout
<1> QED
  BY <1>1, <1>2, <1>3, <1>4, <1>5, <1>6, <1>7, <1>8 DEF Chip, Peer, NetworkResolves

-----------------------------------------------------------------------------
(* The theorems                                                            *)

(* The server starts with no client.                                       *)
LEMMA InitSession == Init => SessionInv
<1> SUFFICES ASSUME Init PROVE SessionInv
  OBVIOUS
<1>1. /\ sr = "CLOSED" /\ io = "idle" /\ cl = "idle" /\ toe = "idle" /\ app = "start"
      /\ listening = FALSE /\ conn = 0 /\ ioRet = 1 /\ toeRet = 0
  BY DEF Init, ChipInit, IoInit, ToeInit, SOCK_OK
<1>2. ~InSession
  BY <1>1 DEF InSession
<1>3. Running /\ Serving /\ Finishing /\ Closed /\ InUse
  BY <1>1, <1>2 DEF Running, Serving, Finishing, Closed, InUse, Fins
<1>4. Descriptor
  BY <1>1, <1>2 DEF Descriptor
<1>5. Untouched /\ Working
  BY <1>1 DEF Untouched, Covered, Working, Live, Fins, Connected, SendPlaces
<1>6. EchoConserved
  BY <1>1 DEF EchoConserved, Connected
<1> QED
  BY <1>3, <1>4, <1>5, <1>6 DEF SessionInv, Control

(* No step, of the software, the chip or the peer, breaks the session's    *)
(* invariant.                                                              *)
LEMMA StepSession == IInv /\ SessionInv /\ [Next]_vars => SessionInv'
<1> SUFFICES ASSUME IInv, SessionInv, [Next]_vars PROVE SessionInv'
  OBVIOUS
<1>0. Control
  BY DEF SessionInv
<1>1. CASE App
  <2>1. Control'
    BY <1>0, <1>1, ControlApp
  <2>2. EchoConserved'
    BY <1>1, EchoApp
  <2>3. Untouched' /\ Working'
    BY <1>1, WorkApp
  <2> QED
    BY <2>1, <2>2, <2>3 DEF SessionInv
<1>2. CASE WiznetToe(BufSize) /\ UNCHANGED appVars
  <2>1. Control'
    BY <1>0, <1>2, ControlToe
  <2>2. EchoConserved'
    BY <1>2, EchoToe
  <2>3. Untouched' /\ Working'
    BY <1>2, WorkToe
  <2> QED
    BY <2>1, <2>2, <2>3 DEF SessionInv
<1>3. CASE SocketC /\ UNCHANGED <<toeVars, appVars>>
  <2>1. Control'
    BY <1>0, <1>3, ControlSocketC
  <2>2. EchoConserved'
    BY <1>3, EchoSocketC
  <2>3. Untouched' /\ Working'
    BY <1>3, WorkSocketC
  <2> QED
    BY <2>1, <2>2, <2>3 DEF SessionInv
<1>4. CASE (Chip \/ Peer) /\ UNCHANGED <<ioVars, toeVars, appVars>>
  <2>1. Control'
    BY <1>0, <1>4, ControlChip
  <2>2. EchoConserved'
    BY <1>4, EchoHardware
  <2>3. Untouched' /\ Working'
    BY <1>4, WorkHardware
  <2> QED
    BY <2>1, <2>2, <2>3 DEF SessionInv
<1>5. CASE UNCHANGED vars
  <2>1. UNCHANGED <<chipVars, ioVars, toeVars, appVars>>
    BY <1>5 DEF vars
  <2>2. /\ UNCHANGED <<sr, cr, rx, rd, staged, tx, conn, sent, got>>
        /\ UNCHANGED <<io, cl, ioRet, data, len>>
        /\ UNCHANGED <<toe, toeRet, listening, accepted, app, buf, off>>
    BY <2>1 DEF chipVars, ioVars, toeVars, slot, appVars
  <2>3. UNCHANGED <<Unsent, Taken, InSession>> /\ GivingUp' = GivingUp
    BY <2>1, <2>2, SoftwareHolds DEF GivingUp
  <2>4. Control'
    <3>1. Running' /\ Serving' /\ Finishing' /\ Closed'
      BY <1>0, <2>2, <2>3 DEF Control, Running, Serving, Finishing, Closed
    <3>2. Descriptor' /\ InUse'
      BY <1>0, <2>2, <2>3 DEF Control, Descriptor, InUse
    <3> QED
      BY <3>1, <3>2 DEF Control
  <2>5. Untouched' /\ Working'
    BY <2>2, <2>3 DEF SessionInv, Untouched, Covered, Working
  <2>6. EchoConserved'
    BY <2>2, <2>3 DEF SessionInv, EchoConserved, Stream, Unread
  <2> QED
    BY <2>4, <2>5, <2>6 DEF SessionInv
<1> QED
  BY <1>1, <1>2, <1>3, <1>4, <1>5 DEF Next, Software, Hardware, Network

(* What each layer may assume of the others at every one of its lines, what *)
(* the status of the socket can be there, and that no byte of the echo is   *)
(* lost: the whole inductive invariant of the two servers.                  *)
EchoInv == IInv /\ SessionInv

(* It holds of every behaviour of both servers.                            *)
THEOREM SessionInvariant == Spec => []EchoInv
<1>1. Init => EchoInv
  BY InitInv, InitSession DEF EchoInv
<1>2. EchoInv /\ [Next]_vars => EchoInv'
  BY StepInv, StepSession DEF EchoInv
<1> QED
  BY <1>1, <1>2, PTL DEF Spec

(* While a connection is up no byte is lost, doubled, reordered or taken   *)
(* from another client, between wiz_recv_data and the last acknowledgement *)
(* of what wiz_send_data has sent.                                         *)
THEOREM EchoIsConserved == Spec => []EchoConserved
<1>1. EchoInv => EchoConserved
  BY DEF EchoInv, SessionInv
<1> QED
  BY <1>1, SessionInvariant, PTL

(* With nothing staged and nothing in the software's hands, the whole      *)
(* stream is with the peer, under way or unread.                           *)
LEMMA NothingHeld ==
  ASSUME ChipTypeOK, Covered, EchoConserved, sr \in Fins,
         io # "send.cr", Unsent = <<>>, Taken = <<>>
  PROVE  got \o tx \o Unread = Stream
<1>1. staged = <<>> /\ sr \in Live
  BY DEF Covered, Live
<1>2. Flow(got, tx, <<>>, <<>>, <<>>, Unread) = Stream
  BY <1>1, StreamIs DEF FlowNow
<1>3. PICK p \in Seq(Byte) : p = Cat(got, tx)
  BY ChipFlowTypes, Joining
<1>4. Cat(p, <<>>) = p
  BY Joining
<1>5. Flow(got, tx, <<>>, <<>>, <<>>, Unread) = Cat(Cat(got, tx), Unread)
  BY <1>3, <1>4, FlowIs
<1> QED
  BY <1>2, <1>5 DEF Cat

(* When wiztoe_close has sent the FIN, everything the server has read is   *)
(* on its way back.                                                        *)
THEOREM EchoedFirst == Spec => []EchoedBeforeFin
<1>1. EchoInv => EchoedBeforeFin
  <2> SUFFICES ASSUME IInv, SessionInv, sr \in Fins PROVE got \o tx \o Unread = Stream
    BY DEF EchoInv, EchoedBeforeFin, Fins
  <2>0. Control /\ Untouched /\ EchoConserved /\ sr \in Live
    BY DEF SessionInv, Live
  <2>1. io \in DisconnectPlaces /\ toe \in {"close.socket", "close.final"}
    BY <2>0 DEF Control, Finishing
  <2>2. app \notin Resting \cup {"receiving"}
    BY <2>0, <2>1, Zenon DEF Control, Serving, GivingUp, Resting
  <2>3. Unsent = <<>> /\ Taken = <<>>
    BY <2>2, NothingToSend DEF Taken
  <2> QED
    BY <2>0, <2>1, <2>3, NothingHeld DEF Untouched, DisconnectPlaces, IInv, TypeOK
<1> QED
  BY <1>1, SessionInvariant, PTL

(* What arrives with an acknowledgement is more of what was promised.      *)
LEMMA EchoAnswers ==
  ASSUME ChipTypeOK, FlowTyped, EchoConserved, PeerAck, Echo!Promised(conn, sent) = Stream
  PROVE  Echo!Reply
<1>1. sr \in Live /\ tx # <<>> /\ got' = got \o tx /\ UNCHANGED <<conn, sent>>
  BY DEF PeerAck, Live, Fins
<1>2. FlowNow = Stream
  BY <1>1, StreamIs
<1>3. /\ got \in Seq(Byte) /\ tx \in Seq(Byte) /\ staged \in Seq(Byte)
      /\ Unsent \in Seq(Byte) /\ Taken \in Seq(Byte) /\ Unread \in Seq(Byte)
      /\ Hello \in Seq(Byte)
  BY DEF FlowTyped
<1>4. /\ Len(got \o tx) <= Len(Stream)
      /\ SubSeq(Stream, 1, Len(got \o tx)) = got \o tx
  <2>1. /\ Len(got \o tx) <= Len(FlowNow)
        /\ SubSeq(FlowNow, 1, Len(got \o tx)) = got \o tx
    <3>1. {got, tx, staged, Unsent, Taken, Unread} \subseteq Seq(Byte)
      BY <1>3
    <3> QED
      BY <3>1, FlowBegins DEF FlowNow
  <2> QED
    BY <1>2, <2>1
<1>5. Len(got \o tx) >= Len(got) + 1 /\ Len(got \o tx) \in Nat /\ Len(got) \in Nat
  <2>1. Len(got \o tx) = Len(got) + Len(tx) /\ Len(got) \in Nat /\ Len(tx) \in Nat
    BY <1>3, ConcatProperties, LenProperties
  <2>2. Len(tx) # 0
    BY <1>1, <1>3, EmptySeq
  <2> QED
    BY <2>1, <2>2
<1>6. Len(Stream) \in Nat
  <2>1. PICK h \in Seq(Byte), p \in Seq(Byte) : h = Hello /\ p = Posted
    <3>1. Posted \in Seq(Byte)
      BY PostedIs DEF Posted, ChipTypeOK
    <3>2. Hello \in Seq(Byte)
      BY <1>3
    <3> QED
      BY <3>1, <3>2, Zenon
  <2>2. Len(h \o p) \in Nat
    BY ConcatProperties, LenProperties
  <2> QED
    BY <2>1, <2>2, StreamIs
<1>7. PICK n \in Nat : n = Len(got \o tx)
  BY <1>5
<1>8. n \in Len(got) + 1 .. Len(Stream) /\ got' = SubSeq(Stream, 1, n)
  BY <1>1, <1>4, <1>5, <1>6, <1>7
<1> QED
  BY <1>1, <1>8 DEF Echo!Reply

(* What the client sees of a step: a connection, a byte it sends, more of  *)
(* what it was promised, or nothing.                                       *)
LEMMA EchoStep ==
  ASSUME IInv, SessionInv, [Next]_vars
  PROVE  [Echo!Next]_(Echo!vars)
<1>0. Control /\ Untouched /\ EchoConserved /\ ChipTypeOK
  BY DEF SessionInv, IInv, TypeOK
<1>1. UNCHANGED <<conn, sent, got>> => [Echo!Next]_(Echo!vars)
  BY DEF Echo!vars
<1>2. CASE PeerConnect
  <2>1. Echo!Connect
    BY <1>2 DEF PeerConnect, Echo!Connect
  <2> QED
    BY <2>1 DEF Echo!Next
<1>3. CASE PeerData
  <2>1. conn > 0
    BY <1>0, <1>3 DEF PeerData, Untouched, Live, Connected
  <2>2. Echo!Send
    BY <1>3, <2>1 DEF PeerData, Echo!Send
  <2> QED
    BY <2>2 DEF Echo!Next
<1>4. CASE PeerAck
  <2>1. sr \in Live /\ tx # <<>>
    BY <1>4 DEF PeerAck, Live, Fins
  <2>2. InSession
    BY <1>0, <2>1 DEF Untouched
  <2>3. Echo!Promised(conn, sent) = Stream
    BY <2>2 DEF Echo!Promised, Echo!Greeted, Stream
  <2>4. FlowTyped
    BY <1>0, ControlLines, FlowTypes
  <2>5. Echo!Reply
    BY <1>0, <1>4, <2>3, <2>4, EchoAnswers
  <2> QED
    BY <2>5 DEF Echo!Next
<1>5. CASE Chip \/ PeerHandshake \/ PeerFinAck \/ TcpTimeout \/ PeerFin \/ PeerReset
  <2>1. UNCHANGED <<conn, sent, got>>
    BY <1>5 DEF Chip, ChipOpen, ChipListen, ChipClose, ChipDiscon, ChipSend, ChipRecv, ChipSendOk,
       PeerHandshake, PeerFinAck, TcpTimeout, PeerFin, PeerReset
  <2> QED
    BY <1>1, <2>1
<1>6. CASE App
  <2>1. UNCHANGED chipVars
    BY <1>6, Zenon DEF App, Start, Listened, GiveUp, Exit, AcceptClient, Accepted, SendBanner, BannerSent,
       Receive, Received, SendEcho, EchoSent, CloseClient, ClientClosed, SendRest, AppGoto, CallToe
  <2> QED
    BY <1>1, <2>1 DEF chipVars
<1>7. CASE WiznetToe(BufSize)
  <2>1. UNCHANGED chipVars
    BY <1>7, Zenon DEF WiznetToe, ListenSocket, ListenListen, ListenDone, AcceptTimeout, AcceptEstablished,
       AcceptClosed, AcceptListen, AcceptDone, SendDone, RecvPoll, RecvEof, RecvWait, RecvTimeout,
       RecvDone, CloseBegin, RearmSocket, RearmListen, RearmDone, CloseFinal, CloseFreed,
       DisconnectIfConnected, ToeGoto, ToeReturn
  <2> QED
    BY <1>1, <2>1 DEF chipVars
<1>8. CASE SocketC
  <2>1. UNCHANGED <<conn, sent, got>>
    BY <1>8, Zenon DEF SocketC, CloseCommand, CloseClear, CloseWait, CloseReturn, SocketBegin, SocketOpen,
       SocketFlags, SocketWait, ListenBegin, ListenCheck, DisconnectBegin, DisconnectFlag,
       DisconnectStatus, DisconnectTimeout, SendBegin, SendPrevious, SendFreeSize, SendStatus,
       SendData, SendAccepted, RecvSize, RecvStatus, RecvData, RecvAccepted, chipVars
  <2> QED
    BY <1>1, <2>1
<1>9. CASE UNCHANGED vars
  BY <1>1, <1>9 DEF vars, chipVars
<1> QED
  BY <1>2, <1>3, <1>4, <1>5, <1>6, <1>7, <1>8, <1>9
     DEF Next, Software, Hardware, Network, Peer, NetworkResolves

(* The servers implement the echo service of EchoService: a client gets    *)
(* the greeting and its own bytes back, in order, and nothing else.        *)
THEOREM EchoServiceImplemented == Spec => EchoServiceSpec
<1>1. Init => Echo!Init
  BY DEF Init, ChipInit, Echo!Init
<1>2. EchoInv /\ [Next]_vars => [Echo!Next]_(Echo!vars)
  BY EchoStep DEF EchoInv
<1> QED
  BY <1>1, <1>2, SessionInvariant, PTL DEF Spec, EchoServiceSpec, Echo!Spec
=============================================================================
