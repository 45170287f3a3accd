-------------------------- MODULE TcpServerProofs --------------------------
(***************************************************************************)
(* Proofs of the safety properties of TcpServer that concern the registers *)
(* and buffers of the socket.  They hold for every size of the buffers,    *)
(* every number of connections and bytes, both applications, and with or   *)
(* without a receive timeout.                                              *)
(*                                                                         *)
(* IInv is the inductive invariant.  It says nothing about the layers      *)
(* above socket.c: they may call any function whenever none is running, so *)
(* the argument is one about socket.c and the chip.                        *)
(***************************************************************************)
EXTENDS TcpServer, SequenceTheorems, TLAPS

\* The previous SEND is complete and its interrupt consumed.
SendClean == ~okDue /\ "SENDOK" \notin ir

\* close() runs only inside the functions that call it.
CloseNested == cl # "idle" => io \in {"closing", "socket.open"}

\* Each command is pending only while the function that wrote it waits for it.
PendingCommand ==
  \/ cr = "NONE"
  \/ cr = "CLOSE" /\ cl = "ir"
  \/ /\ cl = "idle"
     /\ \/ cr = "OPEN" /\ io = "socket.flags"
        \/ cr = "LISTEN" /\ io = "listen.sr"
        \/ cr = "DISCON" /\ io = "disconnect.flag"
        \/ cr = "SEND" /\ io = "send.cr"
        \/ cr = "RECV" /\ io = "recv.cr"

\* From the CLOSE command to the OPEN command the socket is CLOSED, and once
\* close() has cleared Sn_IR nothing raises an interrupt again.
CloseWipes ==
  /\ cl = "ir" /\ cr = "NONE" => sr = "CLOSED"
  /\ \/ cl = "sr"
     \/ io = "socket.open" /\ cl = "idle"
     \/ io = "socket.flags" /\ cr = "OPEN"
     => sr = "CLOSED" /\ ir = {} /\ ~sending
  /\ io = "socket.sr" \/ (io = "socket.flags" /\ cr = "NONE") => sr = "INIT"

\* The two halves of FreshSocket: flags and interrupts, and buffers.
FreshFlags ==
  sr \in {"INIT", "LISTEN", "SYNRECV"} => ir = {} /\ ~sending /\ ~okDue
FreshBuffers ==
  sr \in {"INIT", "LISTEN", "SYNRECV"} =>
    rx = <<>> /\ tx = <<>> /\ staged = <<>>

\* Where sock_is_sending is clear, no SEND is open on a live connection.
SendingFlag ==
  /\ okDue => "SENDOK" \notin ir
  /\ \/ io \in {"send.fsr", "send.sr", "send.data"}
     \/ io = "send.cr" /\ cr = "SEND"
     => SendClean /\ ~sending
  /\ sr \in Connected /\ ~sending /\ ~(io = "send.cr" /\ cr = "NONE")
     => SendClean
  /\ sr \in Connected /\ io = "disconnect.flag" /\ cr = "NONE" => SendClean
  /\ io \in {"send.ir", "send.fsr", "send.sr", "send.data", "send.cr"}
     => sr \in Connected \cup {"CLOSED"}

\* What send() and recv() have read of the buffer sizes still holds.
SizesHold ==
  /\ io \in {"send", "send.ir", "send.fsr", "send.sr", "send.data", "send.cr"}
     => len <= Len(data)
  /\ io \in {"send.sr", "send.data"} => size <= TX_FSR
  /\ io = "send.data" => len <= size
  /\ io \in {"recv.sr", "recv.data"} => size <= RX_RSR
  /\ io = "recv.data" => size # 0

\* The control half needs only the types of registers, flags and places.
CtlTypeOK ==
  /\ sr \in Status
  /\ cr \in Command \cup {"NONE"}
  /\ ir \in SUBSET Interrupt
  /\ okDue \in BOOLEAN /\ sending \in BOOLEAN

CtlInv ==
  /\ CtlTypeOK
  /\ CloseNested
  /\ PendingCommand
  /\ CloseWipes
  /\ FreshFlags
  /\ SendingFlag

\* socket.c runs only inside a function of wiznet_toe.c.
IdleBelow == toe = "idle" => io = "idle"

IInv ==
  /\ CtlInv
  /\ TypeOK /\ BufferBounds /\ FreshBuffers /\ SizesHold
  /\ IdleBelow

-----------------------------------------------------------------------------
(* What the layers above socket.c can do to it.                            *)

\* A call of a function that takes no data, of send, of recv or of close.
Calls ==
  /\ io = "idle"
  /\ \/ /\ io' \in {"socket", "listen", "disconnect"}
        /\ UNCHANGED <<cl, ioRet, data, len>>
     \/ /\ io' = "send" /\ data' \in Seq(Byte) /\ len' = Len(data')
        /\ UNCHANGED <<cl, ioRet>>
     \/ /\ io' = "recv" /\ len' \in Nat
        /\ UNCHANGED <<cl, ioRet, data>>
     \/ /\ io' = "closing" /\ cl' = "cmd" /\ ioRet' = SOCK_OK
        /\ UNCHANGED <<data, len>>

\* They never write a register of the socket.
UpperStep ==
  /\ UNCHANGED <<chipVars, sending, size>>
  /\ Calls \/ UNCHANGED <<io, cl, ioRet, data, len>>
-----------------------------------------------------------------------------
(* The control half: it is preserved by every step.                        *)

\* A step of socket.c preserves the control half of the invariant.
LEMMA CtlSocketC ==
  ASSUME CtlInv, SocketC
  PROVE  CtlInv'
<1> USE DEF CtlInv, CtlTypeOK, CloseNested, PendingCommand, CloseWipes, FreshFlags,
    SendingFlag, SendClean, Status, Command, Interrupt, Connected,
    At, Goto, Return, CloseThenReturn, chipVars
<1>1. CASE CloseCommand
  BY <1>1 DEF CloseCommand
<1>2. CASE CloseClear
  BY <1>2 DEF CloseClear
<1>3. CASE CloseWait
  BY <1>3 DEF CloseWait
<1>4. CASE CloseReturn
  BY <1>4 DEF CloseReturn
<1>5. CASE SocketBegin
  BY <1>5 DEF SocketBegin
<1>6. CASE SocketOpen
  BY <1>6 DEF SocketOpen
<1>7. CASE SocketFlags
  BY <1>7 DEF SocketFlags
<1>8. CASE SocketWait
  BY <1>8 DEF SocketWait
<1>9. CASE ListenBegin
  BY <1>9 DEF ListenBegin
<1>10. CASE ListenCheck
  BY <1>10 DEF ListenCheck
<1>11. CASE DisconnectBegin
  BY <1>11 DEF DisconnectBegin
<1>12. CASE DisconnectFlag
  BY <1>12 DEF DisconnectFlag
<1>13. CASE DisconnectStatus
  BY <1>13 DEF DisconnectStatus
<1>14. CASE DisconnectTimeout
  BY <1>14 DEF DisconnectTimeout
<1>15. CASE SendBegin
  BY <1>15 DEF SendBegin
<1>16. CASE SendPrevious
  BY <1>16 DEF SendPrevious
<1>17. CASE SendFreeSize
  BY <1>17 DEF SendFreeSize
<1>18. CASE SendStatus
  BY <1>18 DEF SendStatus
<1>19. CASE SendData
  BY <1>19 DEF SendData
<1>20. CASE SendAccepted
  BY <1>20 DEF SendAccepted
<1>21. CASE RecvSize
  BY <1>21 DEF RecvSize
<1>22. CASE RecvStatus
  BY <1>22 DEF RecvStatus
<1>23. CASE RecvData
  BY <1>23 DEF RecvData
<1>24. CASE RecvAccepted
  BY <1>24 DEF RecvAccepted
<1> QED
  BY <1>1, <1>2, <1>3, <1>4, <1>5, <1>6, <1>7, <1>8, <1>9, <1>10, <1>11, <1>12, <1>13, <1>14, <1>15, <1>16, <1>17, <1>18, <1>19, <1>20, <1>21, <1>22, <1>23, <1>24 DEF SocketC

\* A step of the chip preserves it.
LEMMA CtlChip ==
  ASSUME CtlInv, Chip, UNCHANGED ioVars
  PROVE  CtlInv'
<1> USE DEF CtlInv, CtlTypeOK, CloseNested, PendingCommand, CloseWipes, FreshFlags,
    SendingFlag, SendClean, Status, Command, Interrupt, Connected,
    ioVars, Accept
<1>1. CASE ChipOpen
  BY <1>1 DEF ChipOpen
<1>2. CASE ChipListen
  BY <1>2 DEF ChipListen
<1>3. CASE ChipClose
  BY <1>3 DEF ChipClose
<1>4. CASE ChipDiscon
  BY <1>4 DEF ChipDiscon
<1>5. CASE ChipSend
  BY <1>5 DEF ChipSend
<1>6. CASE ChipRecv
  BY <1>6 DEF ChipRecv
<1>7. CASE ChipSendOk
  BY <1>7 DEF ChipSendOk
<1> QED
  BY <1>1, <1>2, <1>3, <1>4, <1>5, <1>6, <1>7 DEF Chip

\* A step of the peer preserves it.
LEMMA CtlPeer ==
  ASSUME CtlInv, Peer, UNCHANGED ioVars
  PROVE  CtlInv'
<1> USE DEF CtlInv, CtlTypeOK, CloseNested, PendingCommand, CloseWipes, FreshFlags,
    SendingFlag, SendClean, Status, Command, Interrupt, Connected,
    ioVars
<1>1. CASE PeerHandshake
  BY <1>1 DEF PeerHandshake
<1>2. CASE PeerAck
  BY <1>2 DEF PeerAck
<1>3. CASE PeerFinAck
  BY <1>3 DEF PeerFinAck
<1>4. CASE TcpTimeout
  BY <1>4 DEF TcpTimeout
<1>5. CASE PeerConnect
  BY <1>5 DEF PeerConnect
<1>6. CASE PeerData
  BY <1>6 DEF PeerData
<1>7. CASE PeerFin
  BY <1>7 DEF PeerFin
<1>8. CASE PeerReset
  BY <1>8 DEF PeerReset
<1> QED
  BY <1>1, <1>2, <1>3, <1>4, <1>5, <1>6, <1>7, <1>8 DEF Peer, NetworkResolves

\* A call from above preserves it.
LEMMA CtlUpper ==
  ASSUME CtlInv, UpperStep
  PROVE  CtlInv'
  BY DEF CtlInv, CtlTypeOK, CloseNested, PendingCommand, CloseWipes, FreshFlags,
         SendingFlag, SendClean, Status, Command, Interrupt, Connected, UpperStep, Calls, chipVars

-----------------------------------------------------------------------------
(* The data half: types, and buffers that never overflow.                  *)

DataInv == ChipTypeOK /\ IoTypeOK /\ BufferBounds /\ FreshBuffers /\ SizesHold

\* A part of a sequence that lies inside it.
LEMMA SubSeqFacts ==
  ASSUME NEW S, NEW s \in Seq(S), NEW m \in Nat, NEW n \in m..Len(s)
  PROVE  /\ SubSeq(s, m + 1, n) \in Seq(S)
         /\ Len(SubSeq(s, m + 1, n)) = n - m
<1>1. \A i \in m + 1 .. n : s[i] \in S
  BY LenProperties
<1> QED
  BY <1>1, SubSeqProperties, LenProperties

\* A step of socket.c preserves the data half of the invariant.
LEMMA DataSocketC ==
  ASSUME DataInv, CtlInv, SocketC
  PROVE  DataInv'
<1> USE ChipAssumption DEF DataInv, ChipTypeOK, IoTypeOK, BufferBounds, FreshBuffers, SizesHold,
    RX_RSR, TX_FSR, Status, Command, Interrupt, Connected, MinOf,
    At, Goto, Return, CloseThenReturn, chipVars, SOCK_OK, SOCK_BUSY, sn,
    SOCKERR_SOCKINIT, SOCKERR_SOCKCLOSED, SOCKERR_SOCKSTATUS, SOCKERR_TIMEOUT
<1>0. /\ Len(rx) \in Nat /\ Len(tx) \in Nat /\ Len(staged) \in Nat /\ Len(data) \in Nat
  BY LenProperties
<1>e. <<>> \in Seq(Byte) /\ Len(<<>>) = 0
  BY EmptySeq
<1>1. CASE CloseCommand
  BY <1>1 DEF CloseCommand
<1>2. CASE CloseClear
  <2>1. ir' \in SUBSET Interrupt
    BY <1>2, Zenon DEF CloseClear
  <2>2. okDue' \in BOOLEAN /\ sending' \in BOOLEAN
    BY <1>2, Zenon DEF CloseClear
  <2>3. ChipTypeOK'
    BY <1>2, <2>1, <2>2 DEF CloseClear
  <2>4. IoTypeOK'
    BY <1>2, <2>2 DEF CloseClear
  <2>5. BufferBounds' /\ FreshBuffers' /\ SizesHold'
    BY <1>2 DEF CloseClear
  <2> QED
    BY <2>3, <2>4, <2>5
<1>3. CASE CloseWait
  BY <1>3 DEF CloseWait
<1>4. CASE CloseReturn
  BY <1>4 DEF CloseReturn
<1>5. CASE SocketBegin
  BY <1>5 DEF SocketBegin
<1>6. CASE SocketOpen
  BY <1>6 DEF SocketOpen
<1>7. CASE SocketFlags
  BY <1>7 DEF SocketFlags
<1>8. CASE SocketWait
  BY <1>8 DEF SocketWait
<1>9. CASE ListenBegin
  BY <1>9 DEF ListenBegin
<1>10. CASE ListenCheck
  BY <1>10 DEF ListenCheck
<1>11. CASE DisconnectBegin
  BY <1>11 DEF DisconnectBegin
<1>12. CASE DisconnectFlag
  BY <1>12 DEF DisconnectFlag
<1>13. CASE DisconnectStatus
  BY <1>13 DEF DisconnectStatus
<1>14. CASE DisconnectTimeout
  BY <1>14 DEF DisconnectTimeout
<1>15. CASE SendBegin
  BY <1>15 DEF SendBegin
<1>16. CASE SendPrevious
  <2>1. ir' \in SUBSET Interrupt
    BY <1>16, Zenon DEF SendPrevious
  <2>2. okDue' \in BOOLEAN /\ sending' \in BOOLEAN
    BY <1>16, Zenon DEF SendPrevious
  <2>3. ChipTypeOK'
    BY <1>16, <2>1, <2>2 DEF SendPrevious
  <2>4. IoTypeOK'
    BY <1>16, <2>2 DEF SendPrevious
  <2>5. BufferBounds' /\ FreshBuffers' /\ SizesHold'
    BY <1>16 DEF SendPrevious
  <2> QED
    BY <2>3, <2>4, <2>5
<1>17. CASE SendFreeSize
  BY <1>17 DEF SendFreeSize
<1>18. CASE SendStatus
  BY <1>18 DEF SendStatus
<1>19. CASE SendData
  <2>1. /\ len \in 0..Len(data) /\ len <= size /\ size <= TX_FSR
        /\ sr \in Connected \cup {"CLOSED"}
    BY <1>19 DEF SendData, At, CtlInv, SendingFlag
  <2>2. /\ SubSeq(data, 1, len) \in Seq(Byte)
        /\ Len(SubSeq(data, 1, len)) = len
    BY <2>1, SubSeqFacts
  <2>3. /\ staged' \in Seq(Byte)
        /\ Len(staged') = Len(staged) + len
    BY <1>19, <2>2, ConcatProperties DEF SendData
  <2> QED
    BY <1>19, <2>1, <2>3 DEF SendData
<1>20. CASE SendAccepted
  BY <1>20 DEF SendAccepted
<1>21. CASE RecvSize
  BY <1>21 DEF RecvSize
<1>22. CASE RecvStatus
  BY <1>22 DEF RecvStatus
<1>23. CASE RecvData
  <2> DEFINE n == MinOf(len, size)
  <2>1. /\ n \in Nat /\ rd + n \in rd..Len(rx)
        /\ rx # <<>>
    BY <1>23, EmptySeq DEF RecvData, At
  <2>2. SubSeq(rx, rd + 1, rd + n) \in Seq(Byte)
    BY <2>1, SubSeqFacts
  <2>3. len' = n /\ data' \in Seq(Byte) /\ rd' = rd + n
    BY <1>23, <2>2 DEF RecvData
  <2> QED
    BY <1>23, <2>1, <2>3 DEF RecvData
<1>24. CASE RecvAccepted
  BY <1>24 DEF RecvAccepted
<1> QED
  BY <1>1, <1>2, <1>3, <1>4, <1>5, <1>6, <1>7, <1>8, <1>9, <1>10, <1>11, <1>12, <1>13, <1>14, <1>15, <1>16, <1>17, <1>18, <1>19, <1>20, <1>21, <1>22, <1>23, <1>24 DEF SocketC

\* A step of the chip preserves it.
LEMMA DataChip ==
  ASSUME DataInv, CtlInv, Chip, UNCHANGED ioVars
  PROVE  DataInv'
<1> USE ChipAssumption DEF DataInv, ChipTypeOK, IoTypeOK, BufferBounds, FreshBuffers, SizesHold,
    RX_RSR, TX_FSR, Status, Command, Interrupt, Connected, MinOf,
    ioVars, Accept
<1>0. /\ Len(rx) \in Nat /\ Len(tx) \in Nat /\ Len(staged) \in Nat /\ Len(data) \in Nat
  BY LenProperties
<1>e. <<>> \in Seq(Byte) /\ Len(<<>>) = 0
  BY EmptySeq
<1>1. CASE ChipOpen
  <2>1. io = "socket.flags" /\ okDue' \in BOOLEAN
    BY <1>1, Zenon DEF ChipOpen, CtlInv, PendingCommand
  <2>2. ChipTypeOK'
    BY <1>1, <1>e, <2>1 DEF ChipOpen
  <2>3. IoTypeOK' /\ BufferBounds' /\ FreshBuffers' /\ SizesHold'
    BY <1>1, <1>e, <2>1 DEF ChipOpen
  <2> QED
    BY <2>2, <2>3
<1>2. CASE ChipListen
  BY <1>2 DEF ChipListen
<1>3. CASE ChipClose
  BY <1>3 DEF ChipClose
<1>4. CASE ChipDiscon
  BY <1>4 DEF ChipDiscon
<1>5. CASE ChipSend
  <2>1. /\ tx \o staged \in Seq(Byte)
        /\ Len(tx \o staged) = Len(tx) + Len(staged)
    BY ConcatProperties
  <2>2. okDue' \in BOOLEAN
    BY <1>5, Zenon DEF ChipSend
  <2>3. io = "send.cr"
    BY <1>5 DEF ChipSend, CtlInv, PendingCommand
  <2>4. /\ tx' \in Seq(Byte) /\ staged' \in Seq(Byte)
        /\ Len(tx') + Len(staged') = Len(tx) + Len(staged)
    <3>1. CASE sr \in Connected
      <4>1. tx' = tx \o staged /\ staged' = <<>>
        BY <1>5, <3>1, Zenon DEF ChipSend
      <4> QED
        BY <4>1, <1>e, <2>1
    <3>2. CASE sr \notin Connected
      <4>1. tx' = tx /\ staged' = staged
        BY <1>5, <3>2, Zenon DEF ChipSend
      <4> QED
        BY <4>1
    <3> QED
      BY <3>1, <3>2
  <2>5. ChipTypeOK'
    BY <1>5, <2>2, <2>4 DEF ChipSend
  <2>6. BufferBounds' /\ IoTypeOK' /\ SizesHold'
    BY <1>5, <2>3, <2>4 DEF ChipSend
  <2>7. FreshBuffers'
    BY <1>5 DEF ChipSend
  <2> QED
    BY <2>5, <2>6, <2>7
<1>6. CASE ChipRecv
  <2>1. /\ rx' \in Seq(Byte) /\ Len(rx') = Len(rx) - rd
    BY <1>6, SubSeqFacts DEF ChipRecv
  <2>2. rx = <<>> => rx' = <<>>
    BY <2>1, EmptySeq
  <2> QED
    BY <1>6, <2>1, <2>2 DEF ChipRecv, CtlInv, PendingCommand
<1>7. CASE ChipSendOk
  <2>1. ir' \in SUBSET Interrupt
    BY <1>7, Zenon DEF ChipSendOk
  <2>2. okDue' \in BOOLEAN /\ sending' \in BOOLEAN
    BY <1>7, Zenon DEF ChipSendOk
  <2>3. ChipTypeOK'
    BY <1>7, <2>1, <2>2 DEF ChipSendOk
  <2>4. IoTypeOK'
    BY <1>7, <2>2 DEF ChipSendOk
  <2>5. BufferBounds' /\ FreshBuffers' /\ SizesHold'
    BY <1>7 DEF ChipSendOk
  <2> QED
    BY <2>3, <2>4, <2>5
<1> QED
  BY <1>1, <1>2, <1>3, <1>4, <1>5, <1>6, <1>7 DEF Chip

\* A step of the peer preserves it.
LEMMA DataPeer ==
  ASSUME DataInv, CtlInv, Peer, UNCHANGED ioVars
  PROVE  DataInv'
<1> USE ChipAssumption DEF DataInv, ChipTypeOK, IoTypeOK, BufferBounds, FreshBuffers, SizesHold,
    RX_RSR, TX_FSR, Status, Command, Interrupt, Connected, MinOf,
    ioVars
<1>0. /\ Len(rx) \in Nat /\ Len(tx) \in Nat /\ Len(staged) \in Nat /\ Len(data) \in Nat
  BY LenProperties
<1>e. <<>> \in Seq(Byte) /\ Len(<<>>) = 0
  BY EmptySeq
<1>1. CASE PeerHandshake
  BY <1>1 DEF PeerHandshake
<1>2. CASE PeerAck
  <2>1. got' \in Seq(Byte)
    BY <1>2, ConcatProperties DEF PeerAck
  <2>2. tx' \in Seq(Byte) /\ Len(tx') <= Len(tx) /\ Len(tx') \in Nat
    BY <1>2, EmptySeq DEF PeerAck
  <2> QED
    BY <1>2, <2>1, <2>2 DEF PeerAck
<1>3. CASE PeerFinAck
  BY <1>3 DEF PeerFinAck
<1>4. CASE TcpTimeout
  <2>1. ir' \in SUBSET Interrupt
    BY <1>4, Zenon DEF TcpTimeout
  <2>2. okDue' \in BOOLEAN /\ sending' \in BOOLEAN
    BY <1>4, Zenon DEF TcpTimeout
  <2>3. ChipTypeOK'
    BY <1>4, <2>1, <2>2 DEF TcpTimeout
  <2>4. IoTypeOK'
    BY <1>4, <2>2 DEF TcpTimeout
  <2>5. BufferBounds' /\ FreshBuffers' /\ SizesHold'
    BY <1>4 DEF TcpTimeout
  <2> QED
    BY <2>3, <2>4, <2>5
<1>5. CASE PeerConnect
  BY <1>5, <1>e DEF PeerConnect
<1>6. CASE PeerData
  <2>0. conn \in Nat /\ sent + 1 \in Nat
    OBVIOUS
  <2>1. <<conn, sent + 1>> \in Byte
    BY <2>0 DEF Byte
  <2>2. rx' \in Seq(Byte) /\ Len(rx') = Len(rx) + 1
    BY <1>6, <2>1, AppendProperties DEF PeerData
  <2> QED
    BY <1>6, <2>2 DEF PeerData
<1>7. CASE PeerFin
  BY <1>7 DEF PeerFin
<1>8. CASE PeerReset
  BY <1>8 DEF PeerReset
<1> QED
  BY <1>1, <1>2, <1>3, <1>4, <1>5, <1>6, <1>7, <1>8 DEF Peer, NetworkResolves

\* A call from above preserves it.
LEMMA DataUpper ==
  ASSUME DataInv, UpperStep
  PROVE  DataInv'
<1>1. CASE UNCHANGED <<chipVars, sending, size, io, cl, ioRet, data, len>>
  BY <1>1 DEF DataInv, ChipTypeOK, IoTypeOK, BufferBounds, FreshBuffers, SizesHold,
         RX_RSR, TX_FSR, Status, Command, Interrupt, Connected, MinOf,
         chipVars
<1>2. CASE Calls /\ UNCHANGED <<chipVars, sending, size>>
  BY <1>2, LenProperties
     DEF DataInv, ChipTypeOK, IoTypeOK, BufferBounds, FreshBuffers, SizesHold,
         RX_RSR, TX_FSR, Status, Command, Interrupt, Connected, MinOf,
         Calls, chipVars, SOCK_OK
<1> QED
  BY <1>1, <1>2 DEF UpperStep

-----------------------------------------------------------------------------
(* The layers above socket.c: what they do to it, and their own types.     *)

\* A step of wiznet_toe.c calls socket.c or leaves it alone.
LEMMA UpperToe ==
  ASSUME TypeOK, WiznetToe(BufSize)
  PROVE  UpperStep /\ ToeTypeOK' /\ IdleBelow'
<1> USE ServerAssumption DEF IdleBelow, TypeOK, IoTypeOK, ToeTypeOK, UpperStep, Calls,
    ToeAt, ToeGoto, ToeReturn, Call, CallClose, CallRecv, ioVars, slot, chipVars,
    sn, WIZTOE_ERR_TIMEOUT, DisconnectIfConnected
<1>1. CASE ListenSocket
  BY <1>1 DEF ListenSocket
<1>2. CASE ListenListen
  <2>1. /\ used' \in BOOLEAN /\ opened' \in BOOLEAN
        /\ listening' \in BOOLEAN /\ accepted' \in BOOLEAN
    BY <1>2, Zenon DEF ListenListen
  <2>2. toe' \in {"idle", "listen.done"} /\ toeRet' \in Int
    BY <1>2 DEF ListenListen
  <2>3. UpperStep /\ IdleBelow'
    BY <1>2 DEF ListenListen
  <2> QED
    BY <2>1, <2>2, <2>3
<1>3. CASE ListenDone
  <2>1. /\ used' \in BOOLEAN /\ opened' \in BOOLEAN
        /\ listening' \in BOOLEAN /\ accepted' \in BOOLEAN
    BY <1>3, Zenon DEF ListenDone
  <2>2. toe' \in {"idle", "listen.done"} /\ toeRet' \in Int
    BY <1>3 DEF ListenDone
  <2>3. UpperStep /\ IdleBelow'
    BY <1>3 DEF ListenDone
  <2> QED
    BY <2>1, <2>2, <2>3
<1>4. CASE AcceptTimeout
  BY <1>4 DEF AcceptTimeout
<1>5. CASE AcceptEstablished
  BY <1>5 DEF AcceptEstablished
<1>6. CASE AcceptClosed
  BY <1>6 DEF AcceptClosed
<1>7. CASE AcceptListen
  BY <1>7 DEF AcceptListen
<1>8. CASE AcceptDone
  BY <1>8 DEF AcceptDone
<1>9. CASE SendDone
  BY <1>9 DEF SendDone
<1>10. CASE RecvPoll(BufSize)
  BY <1>10 DEF RecvPoll
<1>11. CASE RecvEof
  BY <1>11 DEF RecvEof
<1>12. CASE RecvWait
  BY <1>12 DEF RecvWait
<1>13. CASE RecvTimeout
  BY <1>13 DEF RecvTimeout
<1>14. CASE RecvDone
  BY <1>14 DEF RecvDone
<1>15. CASE CloseBegin
  BY <1>15 DEF CloseBegin
<1>16. CASE RearmSocket
  BY <1>16 DEF RearmSocket
<1>17. CASE RearmListen
  BY <1>17 DEF RearmListen
<1>18. CASE RearmDone
  <2>1. /\ used' \in BOOLEAN /\ opened' \in BOOLEAN
        /\ listening' \in BOOLEAN /\ accepted' \in BOOLEAN
    BY <1>18, Zenon DEF RearmDone
  <2>2. toe' \in {"idle", "listen.done"} /\ toeRet' \in Int
    BY <1>18 DEF RearmDone
  <2>3. UpperStep /\ IdleBelow'
    BY <1>18 DEF RearmDone
  <2> QED
    BY <2>1, <2>2, <2>3
<1>19. CASE CloseFinal
  BY <1>19 DEF CloseFinal
<1>20. CASE CloseFreed
  <2>1. /\ used' \in BOOLEAN /\ opened' \in BOOLEAN
        /\ listening' \in BOOLEAN /\ accepted' \in BOOLEAN
    BY <1>20, Zenon DEF CloseFreed
  <2>2. toe' \in {"idle", "listen.done"} /\ toeRet' \in Int
    BY <1>20 DEF CloseFreed
  <2>3. UpperStep /\ IdleBelow'
    BY <1>20 DEF CloseFreed
  <2> QED
    BY <2>1, <2>2, <2>3
<1> QED
  BY <1>1, <1>2, <1>3, <1>4, <1>5, <1>6, <1>7, <1>8, <1>9, <1>10, <1>11, <1>12, <1>13, <1>14, <1>15, <1>16, <1>17, <1>18, <1>19, <1>20 DEF WiznetToe

\* A sequence of one element.
LEMMA SingletonSeq ==
  ASSUME NEW S, NEW e \in S
  PROVE  <<e>> \in Seq(S)
  OBVIOUS

\* What send is given is a sequence of bytes.
LEMMA RestOfBuffer ==
  ASSUME AppTypeOK
  PROVE  SubSeq(buf, off + 1, Len(buf)) \in Seq(Byte)
<1>1. buf \in [1..Len(buf) -> Byte] /\ Len(buf) \in Nat /\ off \in Nat
  BY LenProperties DEF AppTypeOK
<1>2. \A i \in off + 1 .. Len(buf) : buf[i] \in Byte
  BY <1>1
<1> QED
  BY <1>1, <1>2, SubSeqProperties

\* A step of the application: likewise, and its buffer stays one of bytes.
LEMMA UpperApp ==
  ASSUME TypeOK, IdleBelow, App
  PROVE  UpperStep /\ ToeTypeOK' /\ AppTypeOK' /\ IdleBelow'
<1> USE DEF IdleBelow, TypeOK, IoTypeOK, ToeTypeOK, AppTypeOK, UpperStep, Calls,
    AppAt, AppGoto, CallToe, CallSend, SendRest, ioVars, toeVars, slot, chipVars
<1>1. CASE Start
  BY <1>1 DEF Start
<1>2. CASE Listened
  BY <1>2 DEF Listened
<1>3. CASE GiveUp
  BY <1>3 DEF GiveUp
<1>4. CASE Exit
  BY <1>4 DEF Exit
<1>5. CASE AcceptClient
  BY <1>5 DEF AcceptClient
<1>6. CASE Accepted
  <2>0. <<conn, 0>> \in Byte
    BY DEF Byte, ChipTypeOK
  <2>1. <<<<conn, 0>>>> \in Seq(Byte) /\ <<>> \in Seq(Byte)
    BY <2>0, SingletonSeq, EmptySeq
  <2>2. buf' \in Seq(Byte)
    BY <1>6, <2>1 DEF Accepted
  <2>3. app' \in {"accept", "banner", "recv"} /\ off' = 0
    BY <1>6 DEF Accepted
  <2> QED
    BY <1>6, <2>2, <2>3 DEF Accepted
<1>7. CASE SendBanner
  <2>1. SubSeq(buf, off + 1, Len(buf)) \in Seq(Byte)
    BY RestOfBuffer
  <2> QED
    BY <1>7, <2>1 DEF SendBanner
<1>8. CASE BannerSent
  BY <1>8 DEF BannerSent
<1>9. CASE Receive
  BY <1>9 DEF Receive
<1>10. CASE Received
  BY <1>10 DEF Received
<1>11. CASE SendEcho
  <2>1. SubSeq(buf, off + 1, Len(buf)) \in Seq(Byte)
    BY RestOfBuffer
  <2> QED
    BY <1>11, <2>1 DEF SendEcho
<1>12. CASE EchoSent
  BY <1>12 DEF EchoSent
<1>13. CASE CloseClient
  BY <1>13 DEF CloseClient
<1>14. CASE ClientClosed
  BY <1>14 DEF ClientClosed
<1> QED
  BY <1>1, <1>2, <1>3, <1>4, <1>5, <1>6, <1>7, <1>8, <1>9, <1>10, <1>11, <1>12, <1>13, <1>14 DEF App

-----------------------------------------------------------------------------
(* The inductive invariant and what follows from it.                       *)

\* Power-on satisfies the invariant.
LEMMA InitInv == Init => IInv
<1> SUFFICES ASSUME Init PROVE IInv
  OBVIOUS
<1> USE DEF Init, ChipInit, IoInit, ToeInit, SOCK_OK
<1>1. CtlInv
  BY DEF CtlInv, CtlTypeOK, CloseNested, PendingCommand, CloseWipes, FreshFlags,
         SendingFlag, SendClean, Status, Command, Interrupt, Connected
<1>2. <<>> \in Seq(Byte) /\ Len(<<>>) = 0
  BY EmptySeq
<1>3. TypeOK
  <2>1. /\ sipr \in BOOLEAN /\ okDue \in BOOLEAN /\ sending \in BOOLEAN
        /\ used \in BOOLEAN /\ opened \in BOOLEAN
        /\ listening \in BOOLEAN /\ accepted \in BOOLEAN
    BY Zenon
  <2>2. ir \in SUBSET Interrupt
    BY Zenon
  <2>3. ChipTypeOK
    <3>1. sr \in Status /\ cr \in Command \cup {"NONE"} /\ conn \in Nat /\ sent \in Nat
      BY DEF Status
    <3>2. rx \in Seq(Byte) /\ rd \in 0..Len(rx) /\ staged \in Seq(Byte)
          /\ tx \in Seq(Byte) /\ got \in Seq(Byte)
      BY <1>2
    <3> QED
      BY <2>1, <2>2, <3>1, <3>2 DEF ChipTypeOK
  <2>4. IoTypeOK
    <3>1. io = "idle" /\ cl = "idle" /\ ioRet \in Int /\ data \in Seq(Byte)
          /\ len \in Nat /\ size \in Nat
      BY <1>2
    <3> QED
      BY <2>1, <3>1 DEF IoTypeOK
  <2>5. ToeTypeOK
    <3>1. toe = "idle" /\ toeRet \in Int
      OBVIOUS
    <3> QED
      BY <2>1, <3>1 DEF ToeTypeOK
  <2>6. AppTypeOK
    BY <1>2 DEF AppTypeOK
  <2> QED
    BY <2>3, <2>4, <2>5, <2>6 DEF TypeOK
<1>4. BufferBounds /\ FreshBuffers /\ SizesHold
  BY <1>2, ChipAssumption DEF BufferBounds, FreshBuffers, SizesHold
<1> QED
  BY <1>1, <1>3, <1>4 DEF IInv, IdleBelow

\* Every step preserves it.  The layers are independent: each lemma above
\* takes one kind of step through one half of the invariant.
LEMMA StepInv == IInv /\ [Next]_vars => IInv'
<1> SUFFICES ASSUME IInv, [Next]_vars PROVE IInv'
  OBVIOUS
<1>0. CtlInv /\ DataInv /\ TypeOK /\ IdleBelow
  BY DEF IInv, DataInv, TypeOK
<1>a. ASSUME DataInv', CtlInv', ToeTypeOK', AppTypeOK', IdleBelow'
      PROVE  IInv'
  BY <1>a DEF IInv, DataInv, TypeOK
<1>1. CASE App
  <2>1. UpperStep /\ ToeTypeOK' /\ AppTypeOK' /\ IdleBelow'
    BY <1>0, <1>1, UpperApp
  <2> QED
    BY <1>0, <1>a, <2>1, CtlUpper, DataUpper
<1>2. CASE WiznetToe(BufSize) /\ UNCHANGED appVars
  <2>1. UpperStep /\ ToeTypeOK' /\ IdleBelow'
    BY <1>0, <1>2, UpperToe
  <2>2. AppTypeOK'
    BY <1>0, <1>2 DEF appVars, TypeOK, AppTypeOK
  <2> QED
    BY <1>0, <1>a, <2>1, <2>2, CtlUpper, DataUpper
<1>3. CASE SocketC /\ UNCHANGED <<toeVars, appVars>>
  <2>1. ToeTypeOK' /\ AppTypeOK'
    <3>1. ToeTypeOK'
      BY <1>0, <1>3 DEF toeVars, slot, TypeOK, ToeTypeOK
    <3>2. AppTypeOK'
      BY <1>0, <1>3 DEF appVars, TypeOK, AppTypeOK
    <3> QED
      BY <3>1, <3>2
  <2>2. io # "idle"
    BY <1>0, <1>3 DEF CtlInv, CloseNested, At, SocketC,
       CloseCommand, CloseClear, CloseWait, CloseReturn,
       SocketBegin, SocketOpen, SocketFlags, SocketWait, ListenBegin, ListenCheck,
       DisconnectBegin, DisconnectFlag, DisconnectStatus, DisconnectTimeout,
       SendBegin, SendPrevious, SendFreeSize, SendStatus, SendData, SendAccepted,
       RecvSize, RecvStatus, RecvData, RecvAccepted
  <2>3. IdleBelow'
    BY <1>0, <1>3, <2>2 DEF IdleBelow, toeVars
  <2> QED
    BY <1>0, <1>3, <1>a, <2>1, <2>3, CtlSocketC, DataSocketC
<1>4. CASE Hardware \/ Network
  <2>1. (Chip \/ Peer) /\ UNCHANGED <<ioVars, toeVars, appVars>>
    BY <1>4 DEF Hardware, Network
  <2>2. ToeTypeOK' /\ AppTypeOK' /\ IdleBelow'
    <3>1. ToeTypeOK'
      BY <1>0, <2>1 DEF toeVars, slot, TypeOK, ToeTypeOK
    <3>2. AppTypeOK'
      BY <1>0, <2>1 DEF appVars, TypeOK, AppTypeOK
    <3>3. IdleBelow'
      BY <1>0, <2>1 DEF ioVars, toeVars, IdleBelow
    <3> QED
      BY <3>1, <3>2, <3>3
  <2> QED
    BY <1>0, <1>a, <2>1, <2>2, CtlChip, CtlPeer, DataChip, DataPeer
<1>5. CASE UNCHANGED vars
  <2>1. UpperStep
    BY <1>5 DEF vars, UpperStep, ioVars
  <2>2. ToeTypeOK' /\ AppTypeOK'
    <3>1. ToeTypeOK'
      BY <1>0, <1>5 DEF vars, toeVars, slot, TypeOK, ToeTypeOK
    <3>2. AppTypeOK'
      BY <1>0, <1>5 DEF vars, appVars, TypeOK, AppTypeOK
    <3> QED
      BY <3>1, <3>2
  <2>3. IdleBelow'
    BY <1>0, <1>5 DEF vars, toeVars, ioVars, IdleBelow
  <2> QED
    BY <1>0, <1>a, <2>1, <2>2, <2>3, CtlUpper, DataUpper
<1> QED
  BY <1>1, <1>2, <1>3, <1>4, <1>5 DEF Next, Software

(* What IInv says of each place of send(), recv(), listen(), disconnect()  *)
(* and close() holds in every reachable state of the echo server.          *)
THEOREM Invariant == Spec => []IInv
  BY InitInv, StepInv, PTL DEF Spec

\* Every variable keeps its type: in particular the size that send() reads
\* from Sn_TX_FSR and recv() from Sn_RX_RSR is never negative.
THEOREM TypeCorrect == Spec => []TypeOK
<1>1. IInv => TypeOK
  BY DEF IInv
<1> QED
  BY <1>1, Invariant, PTL

\* send() and recv() stay inside the socket's buffers (w5500.c trusts the
\* lengths it is given, and a pointer moved too far would corrupt the stream).
THEOREM BuffersRespected == Spec => []BufferBounds
<1>1. IInv => BufferBounds
  BY DEF IInv
<1> QED
  BY <1>1, Invariant, PTL

\* A socket that is opened or listening carries nothing over from an earlier
\* client: close() before OPEN clears Sn_IR and sock_is_sending.
THEOREM NothingCarriedOver == Spec => []FreshSocket
<1>1. IInv => FreshSocket
  BY DEF IInv, CtlInv, FreshFlags, FreshBuffers, FreshSocket
<1> QED
  BY <1>1, Invariant, PTL

\* A SEND never meets an unfinished one.
THEOREM SendsDoNotOverlap == Spec => []OneSendAtATime
<1>1. IInv => OneSendAtATime
  BY DEF IInv, CtlInv, PendingCommand, SendingFlag, SendClean, OneSendAtATime
<1> QED
  BY <1>1, Invariant, PTL

\* socket.c writes Sn_CR only at places where no command is pending.
LEMMA CommandWritten ==
  ASSUME CtlInv, SocketC
  PROVE  cr' # cr /\ cr' # "NONE" => cr = "NONE"
<1> USE DEF CtlInv, CloseNested, PendingCommand, At, Goto, Return,
    CloseThenReturn, chipVars
<1>1. CASE CloseCommand
  BY <1>1 DEF CloseCommand
<1>2. CASE CloseClear
  BY <1>2 DEF CloseClear
<1>3. CASE CloseWait
  BY <1>3 DEF CloseWait
<1>4. CASE CloseReturn
  BY <1>4 DEF CloseReturn
<1>5. CASE SocketBegin
  BY <1>5 DEF SocketBegin
<1>6. CASE SocketOpen
  BY <1>6 DEF SocketOpen
<1>7. CASE SocketFlags
  BY <1>7 DEF SocketFlags
<1>8. CASE SocketWait
  BY <1>8 DEF SocketWait
<1>9. CASE ListenBegin
  BY <1>9 DEF ListenBegin
<1>10. CASE ListenCheck
  BY <1>10 DEF ListenCheck
<1>11. CASE DisconnectBegin
  BY <1>11 DEF DisconnectBegin
<1>12. CASE DisconnectFlag
  BY <1>12 DEF DisconnectFlag
<1>13. CASE DisconnectStatus
  BY <1>13 DEF DisconnectStatus
<1>14. CASE DisconnectTimeout
  BY <1>14 DEF DisconnectTimeout
<1>15. CASE SendBegin
  BY <1>15 DEF SendBegin
<1>16. CASE SendPrevious
  BY <1>16 DEF SendPrevious
<1>17. CASE SendFreeSize
  BY <1>17 DEF SendFreeSize
<1>18. CASE SendStatus
  BY <1>18 DEF SendStatus
<1>19. CASE SendData
  BY <1>19 DEF SendData
<1>20. CASE SendAccepted
  BY <1>20 DEF SendAccepted
<1>21. CASE RecvSize
  BY <1>21 DEF RecvSize
<1>22. CASE RecvStatus
  BY <1>22 DEF RecvStatus
<1>23. CASE RecvData
  BY <1>23 DEF RecvData
<1>24. CASE RecvAccepted
  BY <1>24 DEF RecvAccepted
<1> QED
  BY <1>1, <1>2, <1>3, <1>4, <1>5, <1>6, <1>7, <1>8, <1>9, <1>10, <1>11, <1>12, <1>13, <1>14, <1>15, <1>16, <1>17, <1>18, <1>19, <1>20, <1>21, <1>22, <1>23, <1>24 DEF SocketC

\* The chip and the peer never write a command.
LEMMA CommandKept ==
  ASSUME CtlInv, Chip \/ Peer
  PROVE  cr' \in {cr, "NONE"}
<1>1. CASE Chip
  BY <1>1 DEF Chip, ChipOpen, ChipListen, ChipClose, ChipDiscon, ChipSend,
              ChipRecv, ChipSendOk, Accept
<1>2. CASE Peer
  BY <1>2 DEF Peer, NetworkResolves, PeerHandshake, PeerAck, PeerFinAck,
              TcpTimeout, PeerConnect, PeerData, PeerFin, PeerReset
<1> QED
  BY <1>1, <1>2

\* A command is never overwritten before the chip has accepted it.
THEOREM CommandsAreAccepted == Spec => CommandProtocol
<1>1. IInv /\ [Next]_vars => [cr' # cr /\ cr' # "NONE" => cr = "NONE"]_vars
  <2> SUFFICES ASSUME IInv, Next
               PROVE  cr' # cr /\ cr' # "NONE" => cr = "NONE"
    BY DEF vars
  <2>0. CtlInv /\ TypeOK /\ IdleBelow
    BY DEF IInv
  <2>1. CASE App
    BY <2>0, <2>1, UpperApp DEF UpperStep, chipVars
  <2>2. CASE WiznetToe(BufSize)
    BY <2>0, <2>2, UpperToe DEF UpperStep, chipVars
  <2>3. CASE SocketC
    BY <2>0, <2>3, CommandWritten
  <2>4. CASE Hardware \/ Network
    BY <2>0, <2>4, CommandKept DEF Hardware, Network
  <2> QED
    BY <2>1, <2>2, <2>3, <2>4 DEF Next, Software
<1> QED
  BY <1>1, Invariant, PTL DEF Spec, CommandProtocol
=============================================================================
