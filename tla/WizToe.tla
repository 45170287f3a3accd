------------------------------ MODULE WizToe ------------------------------
(***************************************************************************)
(* port/ioLibrary_Driver/src/wiznet_toe.c for one listening descriptor:    *)
(* wiztoe_socket, bind, listen, accept, send, recv and close, which turn a *)
(* BSD listener into one hardware socket that is re-armed after every      *)
(* client.  A function is running while toe # "idle"; it calls socket.c    *)
(* through IoLibrary and goes on when io is "idle" again.                  *)
(***************************************************************************)
EXTENDS IoLibrary

CONSTANT
  RcvTimeout  \* rcv_timeout_ms is not 0: the loops of accept and recv time out

ASSUME TimeoutAssumption == RcvTimeout \in BOOLEAN

VARIABLES
  toe,        \* where the running wiznet_toe.c function is
  toeRet,     \* what the last one returned
  used,       \* g_toe[fd].used
  opened,     \* g_toe[fd].opened
  listening,  \* g_toe[fd].listening
  accepted    \* g_toe[fd].accepted

slot == <<used, opened, listening, accepted>>
toeVars == <<toe, toeRet, slot>>

WIZTOE_ERR_TIMEOUT == -2

ToeTypeOK ==
  /\ toe \in {"idle", "listen", "listen.listen", "listen.done",
              "accept", "accept.listen", "accept.done", "send",
              "recv", "recv.sr", "recv.done",
              "close", "close.socket", "close.listen", "close.done",
              "close.final", "close.freed"}
  /\ toeRet \in Int
  /\ used \in BOOLEAN /\ opened \in BOOLEAN
  /\ listening \in BOOLEAN /\ accepted \in BOOLEAN

ToeInit ==
  /\ toe = "idle" /\ toeRet = 0
  /\ used = FALSE /\ opened = FALSE /\ listening = FALSE /\ accepted = FALSE

-----------------------------------------------------------------------------
\* A step of the function at `label`, with no socket.c function running.
ToeAt(label) == toe = label /\ io = "idle"

\* Ends: go on at a label, or return v.  The chip is only touched by socket.c
\* (here registers are read, not written).
ToeGoto(label) == toe' = label /\ UNCHANGED <<toeRet, chipVars>>
ToeReturn(v) == toe' = "idle" /\ toeRet' = v /\ UNCHANGED chipVars

-----------------------------------------------------------------------------
(* wiztoe_listen(fd): socket(), then listen().                             *)

ListenSocket ==
  /\ ToeAt("listen")
  /\ Call("socket") /\ ToeGoto("listen.listen")
  /\ UNCHANGED slot

ListenListen ==
  /\ ToeAt("listen.listen")
  /\ IF ioRet = sn
       THEN opened' = TRUE /\ Call("listen") /\ ToeGoto("listen.done")
       ELSE ToeReturn(-1) /\ UNCHANGED <<opened, ioVars>>
  /\ UNCHANGED <<used, listening, accepted>>

ListenDone ==
  /\ ToeAt("listen.done")
  /\ IF ioRet = SOCK_OK THEN listening' = TRUE /\ ToeReturn(0)
                        ELSE UNCHANGED listening /\ ToeReturn(-1)
  /\ UNCHANGED <<used, opened, accepted, ioVars>>

-----------------------------------------------------------------------------
(* wiztoe_accept(fd): polls Sn_SR, re-arming a socket it finds CLOSED.     *)

AcceptTimeout ==
  /\ ToeAt("accept") /\ RcvTimeout
  /\ sr \notin {"ESTABLISHED", "CLOSED"}
  /\ ToeReturn(WIZTOE_ERR_TIMEOUT)
  /\ UNCHANGED <<slot, ioVars>>

AcceptEstablished ==
  /\ ToeAt("accept") /\ sr = "ESTABLISHED"
  /\ accepted' = TRUE
  /\ ToeReturn(sn)
  /\ UNCHANGED <<used, opened, listening, ioVars>>

AcceptClosed ==
  /\ ToeAt("accept") /\ sr = "CLOSED"
  /\ Call("socket") /\ ToeGoto("accept.listen")
  /\ UNCHANGED slot

AcceptListen ==
  /\ ToeAt("accept.listen")
  /\ IF ioRet = sn THEN Call("listen") /\ ToeGoto("accept.done")
                   ELSE ToeReturn(-1) /\ UNCHANGED ioVars
  /\ UNCHANGED slot

\* Armed again: the loop polls on, unless this pass used up the timeout.
AcceptDone ==
  /\ ToeAt("accept.done")
  /\ IF ioRet # SOCK_OK THEN ToeReturn(-1)
     ELSE ToeGoto("accept") \/ (RcvTimeout /\ ToeReturn(WIZTOE_ERR_TIMEOUT))
  /\ UNCHANGED <<slot, ioVars>>

-----------------------------------------------------------------------------
(* wiztoe_send(fd, buf, len): any error of send() becomes -1.              *)

SendDone ==
  /\ ToeAt("send")
  /\ ToeReturn(IF ioRet < 0 THEN -1 ELSE ioRet)
  /\ UNCHANGED <<slot, ioVars>>

-----------------------------------------------------------------------------
(* wiztoe_recv(fd, buf, len): waits for data, then recv().  The two        *)
(* registers of the loop are read one after the other.                     *)

RecvPoll(n) ==
  /\ ToeAt("recv")
  /\ IF RX_RSR > 0 THEN CallRecv(n) /\ ToeGoto("recv.done")
                   ELSE ToeGoto("recv.sr") /\ UNCHANGED ioVars
  /\ UNCHANGED slot

\* Not ESTABLISHED is taken for the end of the stream.
RecvEof ==
  /\ ToeAt("recv.sr") /\ sr # "ESTABLISHED"
  /\ ToeReturn(0)
  /\ UNCHANGED <<slot, ioVars>>

RecvWait ==
  /\ ToeAt("recv.sr") /\ sr = "ESTABLISHED"
  /\ ToeGoto("recv")
  /\ UNCHANGED <<slot, ioVars>>

RecvTimeout ==
  /\ ToeAt("recv.sr") /\ sr = "ESTABLISHED" /\ RcvTimeout
  /\ ToeReturn(WIZTOE_ERR_TIMEOUT)
  /\ UNCHANGED <<slot, ioVars>>

RecvDone ==
  /\ ToeAt("recv.done")
  /\ ToeReturn(IF ioRet \in {SOCKERR_SOCKSTATUS, SOCKERR_SOCKCLOSED} THEN 0
               ELSE IF ioRet < 0 THEN -1 ELSE ioRet)
  /\ UNCHANGED <<slot, ioVars>>

-----------------------------------------------------------------------------
(* wiztoe_close(fd): a listener with an accepted client drops the client   *)
(* and is armed again; any other descriptor is freed.                      *)

\* toe_tcp_disconnect_if_connected(fd), then go on at `next`.
DisconnectIfConnected(next) ==
  IF sr \in Connected THEN Call("disconnect") /\ ToeGoto(next)
                      ELSE UNCHANGED ioVars /\ ToeGoto(next)

CloseBegin ==
  /\ ToeAt("close")
  /\ IF listening /\ accepted THEN DisconnectIfConnected("close.socket")
     ELSE IF opened THEN DisconnectIfConnected("close.final")
     ELSE UNCHANGED ioVars /\ ToeGoto("close.freed")
  /\ UNCHANGED slot

RearmSocket ==
  /\ ToeAt("close.socket")
  /\ Call("socket") /\ ToeGoto("close.listen")
  /\ UNCHANGED slot

\* Mutant: the socket is opened again but does not listen.
RearmListenNot ==
  /\ ToeAt("close.listen")
  /\ ToeReturn(IF ioRet = sn THEN 0 ELSE -1)
  /\ UNCHANGED <<slot, ioVars>>

RearmListen ==
  /\ ToeAt("close.listen")
  /\ IF ioRet = sn THEN Call("listen") /\ ToeGoto("close.done")
                   ELSE ToeReturn(-1) /\ UNCHANGED ioVars
  /\ UNCHANGED slot

\* A failed re-arm leaves accepted set.
RearmDone ==
  /\ ToeAt("close.done")
  /\ IF ioRet = SOCK_OK THEN accepted' = FALSE /\ ToeReturn(0)
                        ELSE UNCHANGED accepted /\ ToeReturn(-1)
  /\ UNCHANGED <<used, opened, listening, ioVars>>

CloseFinal ==
  /\ ToeAt("close.final")
  /\ CallClose /\ ToeGoto("close.freed")
  /\ UNCHANGED slot

CloseFreed ==
  /\ ToeAt("close.freed")
  /\ used' = FALSE /\ opened' = FALSE /\ listening' = FALSE /\ accepted' = FALSE
  /\ ToeReturn(0)
  /\ UNCHANGED ioVars

-----------------------------------------------------------------------------
\* n is the length the application passed to recv.
WiznetToe(n) ==
  \/ ListenSocket \/ ListenListen \/ ListenDone
  \/ AcceptTimeout \/ AcceptEstablished \/ AcceptClosed
  \/ AcceptListen \/ AcceptDone
  \/ SendDone
  \/ RecvPoll(n) \/ RecvEof \/ RecvWait \/ RecvTimeout \/ RecvDone
  \/ CloseBegin \/ RearmSocket \/ RearmListen \/ RearmDone
  \/ CloseFinal \/ CloseFreed
=============================================================================
