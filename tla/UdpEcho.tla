------------------------------ MODULE UdpEcho ------------------------------
(***************************************************************************)
(* UDP through wiznet_toe.c and wiztoe_wrap.c, driven by one of two tasks: *)
(*   "loopback_udp"  the echo server of examples/loopback;                 *)
(*   "any"           an application that makes any sequence of at most     *)
(*                   MaxCalls calls of the datagram functions.             *)
(***************************************************************************)
EXTENDS UdpSocket

CONSTANTS
  BufSize,   \* size of the application's buffer
  MaxCalls   \* bound: calls of the application "any"

ASSUME UdpAppAssumption == BufSize \in Nat \ {0} /\ MaxCalls \in Nat

VARIABLES
  toe,      \* where the running wiznet_toe.c function is
  toeRet,   \* what the last one returned
  opened,   \* g_toe[fd].opened
  rcvTimeout, \* g_toe[fd].rcv_timeout_ms, in whole milliseconds up to 1
  program,  \* which application runs
  app,      \* where it is
  calls     \* calls of "any" so far

udpToeVars == <<toe, toeRet, opened, rcvTimeout>>
udpAppVars == <<program, app, calls>>
udpVars == <<udpChipVars, udpIoVars, udpToeVars, udpAppVars>>

WIZTOE_ERR_TIMEOUT == -2
Group == 9   \* a multicast address

Init ==
  /\ UdpChipInit /\ UdpIoInit
  /\ toe = "idle" /\ toeRet = 0 /\ opened = FALSE /\ rcvTimeout = 0
  /\ program \in {"loopback_udp", "any"}
  /\ app = IF program = "any" THEN "any" ELSE "start"
  /\ calls = 0

-----------------------------------------------------------------------------
(* wiznet_toe.c                                                            *)

ToeAt(label) == toe = label /\ io = "idle"
ToeGoto(label) == toe' = label /\ UNCHANGED toeRet
ToeReturn(v) == toe' = "idle" /\ toeRet' = v

\* A call of socket.c with the arguments it finds in buf, len, peer and port.
CallIo(function) ==
  /\ io' = function
  /\ UNCHANGED <<ioRet, remained, packInfo, head, buf, len, peer, port>>

\* socket(fd, Sn_MR_UDP, ..): without the multicast bit.
CallSocket ==
  /\ CallIo("socket")
  /\ multi' = FALSE
  /\ UNCHANGED <<sr, cr, ir, joined, dst, rxVars, rxRd, txMem, txRd, txWr, busy,
                 arrived, out>>

\* wiztoe_bind opens the socket, wiztoe_sendto one that is not open yet.
OpenSocket ==
  /\ ToeAt("bind") \/ (ToeAt("sendto") /\ ~opened)
  /\ CallSocket
  /\ ToeGoto(IF toe = "bind" THEN "bind.opened" ELSE "sendto.opened")
  /\ UNCHANGED <<opened, rcvTimeout>>

\* socket() failed or not; sendto goes on with the datagram.
SocketOpened ==
  /\ ToeAt("bind.opened") \/ ToeAt("sendto.opened") \/ ToeAt("multicast.opened")
  /\ opened' = (opened \/ ioRet = sn)
  /\ IF ioRet # sn THEN ToeReturn(-1)
     ELSE IF toe = "sendto.opened" THEN ToeGoto("sendto") ELSE ToeReturn(0)
  /\ UNCHANGED <<rcvTimeout, udpIoVars, udpChipVars>>

ToeSendto ==
  /\ ToeAt("sendto") /\ opened
  /\ CallIo("sendto") /\ ToeGoto("sendto.done")
  /\ UNCHANGED <<opened, rcvTimeout, udpChipVars>>

ToeSendtoDone ==
  /\ ToeAt("sendto.done") \/ ToeAt("recvfrom.done")
  /\ ToeReturn(IF ioRet < 0 THEN -1 ELSE ioRet)
  /\ UNCHANGED <<opened, rcvTimeout, udpIoVars, udpChipVars>>

\* The loop over Sn_RX_RSR and Sn_SR, which yields between two passes and
\* counts them when there is a timeout.
ToeRecvfrom ==
  /\ ToeAt("recvfrom")
  /\ \/ ~opened /\ ToeReturn(-1) /\ UNCHANGED udpIoVars
     \/ opened /\ RX_RSR > 0 /\ CallIo("recvfrom") /\ ToeGoto("recvfrom.done")
     \/ opened /\ RX_RSR = 0 /\ sr # "UDP" /\ ToeReturn(-1) /\ UNCHANGED udpIoVars
     \/ /\ opened /\ RX_RSR = 0 /\ sr = "UDP" /\ rcvTimeout > 0
        /\ ToeReturn(WIZTOE_ERR_TIMEOUT) /\ UNCHANGED udpIoVars
  /\ UNCHANGED <<opened, rcvTimeout, udpChipVars>>

\* wiztoe_udp_open_multicast: an open socket is closed first, the group goes
\* into the destination registers, and OPEN joins it.
ToeMulticast ==
  /\ ToeAt("multicast")
  /\ IF opened
       THEN CallIo("close") /\ ToeGoto("multicast.open")
       ELSE UNCHANGED udpIoVars /\ ToeGoto("multicast.open")
  /\ UNCHANGED <<opened, rcvTimeout, udpChipVars>>

ToeMulticastOpen ==
  /\ ToeAt("multicast.open")
  /\ dst' = Group /\ multi' = TRUE
  /\ CallIo("socket") /\ ToeGoto("multicast.opened")
  /\ UNCHANGED <<opened, rcvTimeout, sr, cr, ir, joined, rxVars, rxRd, txMem, txRd, txWr,
                 busy, arrived, out>>

ToeClose ==
  /\ ToeAt("close")
  /\ IF opened THEN CallIo("close") ELSE UNCHANGED udpIoVars
  /\ ToeGoto("close.freed")
  /\ UNCHANGED <<opened, rcvTimeout, udpChipVars>>

\* The descriptor is cleared; a new one gets the same number.
ToeClosed ==
  /\ ToeAt("close.freed")
  /\ opened' = FALSE /\ rcvTimeout' = 0 /\ ToeReturn(0)
  /\ UNCHANGED <<udpIoVars, udpChipVars>>

\* WIZTOE_OPT_RCVTIMEO_MS; the argument is in len.
ToeSetsockopt ==
  /\ ToeAt("setsockopt")
  /\ rcvTimeout' = len /\ ToeReturn(0)
  /\ UNCHANGED <<opened, udpIoVars, udpChipVars>>

WiznetToe ==
  \/ OpenSocket \/ SocketOpened \/ ToeSendto \/ ToeSendtoDone \/ ToeRecvfrom
  \/ ToeMulticast \/ ToeMulticastOpen \/ ToeClose \/ ToeClosed
  \/ ToeSetsockopt

-----------------------------------------------------------------------------
(* wiztoe_wrap.c and the application.                                      *)

AppAt(label) == app = label /\ toe = "idle" /\ io = "idle"

CallToe(function) == toe' = function /\ UNCHANGED <<toeRet, opened, rcvTimeout>>

\* __wrap_lwip_recvfrom: the address is an uninitialised local (none, or some
\* address nothing came from) and the port 0 until recvfrom() writes them.
CallRecvfrom(n) ==
  /\ CallToe("recvfrom")
  /\ buf' = <<>> /\ len' = n /\ port' = 0 /\ peer' \in {0, Group}
  /\ UNCHANGED <<io, ioRet, remained, packInfo, head>>

CallSendto(cells, to, toPort) ==
  /\ CallToe("sendto")
  /\ buf' = cells /\ len' = Len(cells) /\ peer' = to /\ port' = toPort
  /\ UNCHANGED <<io, ioRet, remained, packInfo, head>>

\* __wrap_lwip_setsockopt(SO_RCVTIMEO): seconds and microseconds to
\* milliseconds, rounded down.
Milliseconds(us) == us \div 1000
CallSetTimeout(us) ==
  /\ CallToe("setsockopt")
  /\ len' = Milliseconds(us)
  /\ UNCHANGED <<io, ioRet, remained, packInfo, head, buf, peer, port>>

LoopbackStart ==
  /\ AppAt("start")
  /\ CallToe("bind") /\ app' = "recv"
  /\ UNCHANGED <<program, calls, udpIoVars, udpChipVars>>

LoopbackReceive ==
  /\ AppAt("recv")
  /\ CallRecvfrom(BufSize) /\ app' = "received"
  /\ UNCHANGED <<program, calls, udpChipVars>>

\* Mutant: what was received is echoed until an echo fails.
LoopbackEchoAgain ==
  /\ AppAt("received") /\ toeRet > 0
  /\ CallSendto(buf, peer, port) /\ app' = "received"
  /\ UNCHANGED <<program, calls, udpChipVars>>

LoopbackEcho ==
  /\ AppAt("received") /\ toeRet > 0
  /\ CallSendto(buf, peer, port) /\ app' = "recv"
  /\ UNCHANGED <<program, calls, udpChipVars>>

\* Mutant: a datagram without payload ends the server.
LoopbackNothingStops ==
  /\ AppAt("received") /\ toeRet <= 0
  /\ app' = "stopped"
  /\ UNCHANGED <<program, calls, udpToeVars, udpIoVars, udpChipVars>>

\* Nothing to echo: an error or a datagram without payload.
LoopbackNothing ==
  /\ AppAt("received") /\ toeRet <= 0
  /\ app' = "recv"
  /\ UNCHANGED <<program, calls, udpToeVars, udpIoVars, udpChipVars>>

Loopback == LoopbackStart \/ LoopbackReceive \/ LoopbackEcho \/ LoopbackNothing

\* Any call, with any arguments; what it sends is its own (datagram 0).
AnyCall ==
  /\ AppAt("any") /\ calls < MaxCalls
  /\ calls' = calls + 1 /\ app' = "called"
  /\ \/ \E function \in {"bind", "multicast", "close"} :
          /\ CallToe(function)
          /\ buf' = <<>> /\ len' = 0 /\ peer' = 0 /\ port' = 0
          /\ UNCHANGED <<io, ioRet, remained, packInfo, head>>
     \/ \E n \in {0, BufSize} : CallRecvfrom(n)
     \/ \E us \in {999, 1000} : CallSetTimeout(us)
     \/ \E n \in {0, TxSize + 1}, to \in {0, Group}, p \in {0, 1} :
          CallSendto([k \in 1..n |-> Payload(0, k)], to, p)
  /\ UNCHANGED <<program, udpChipVars>>

\* The results and the arguments are dropped.
AnyReturned ==
  /\ AppAt("called") /\ app' = "any"
  /\ ioRet' = SOCK_OK /\ toeRet' = 0
  /\ buf' = <<>> /\ len' = 0 /\ peer' = 0 /\ port' = 0
  /\ UNCHANGED <<io, remained, packInfo, head>>
  /\ UNCHANGED <<toe, opened, rcvTimeout, program, calls, udpChipVars>>

-----------------------------------------------------------------------------
UdpSoftware ==
  \/ Loopback \/ AnyCall \/ AnyReturned
  \/ WiznetToe /\ UNCHANGED udpAppVars
  \/ UdpSocketC /\ UNCHANGED <<udpToeVars, udpAppVars>>

UdpHardware == UdpChip /\ UNCHANGED <<udpIoVars, udpToeVars, udpAppVars>>
\* Who sends matters to the echo server only: "any" hears one source (bound).
UdpNetwork ==
  /\ Arrive
  /\ program = "any" => arrived'[Len(arrived')][1] = CHOOSE x \in Sources : TRUE
  /\ UNCHANGED <<udpIoVars, udpToeVars, udpAppVars>>

Next == UdpSoftware \/ UdpHardware \/ UdpNetwork

\* The task runs; the chip takes commands and answers a SEND one way or the
\* other.  Nothing is assumed of the senders.
Spec == Init /\ [][Next]_udpVars /\ WF_udpVars(UdpSoftware) /\ WF_udpVars(UdpHardware)

-----------------------------------------------------------------------------
\* Pointers and sizes stay in their ranges, and the buffers never overflow:
\* nothing is written over cells that are not free.
UdpTypeOK ==
  /\ sr \in {"CLOSED", "UDP"}
  /\ cr \in {"NONE", "OPEN", "CLOSE", "SEND", "RECV"}
  /\ ir \in SUBSET {"SENDOK", "TIMEOUT"}
  /\ {rxWr, rxRd, rxRel, txRd, txWr} \subseteq Pointer
  /\ RX_RSR \in 0..RxSize /\ TX_FSR \in 0..TxSize
  /\ remained \in 0..MaxSize
  /\ opened \in BOOLEAN /\ rcvTimeout \in {0, 1} /\ port \in {0, 1} /\ len \in Nat
  /\ packInfo \in SUBSET {"FIRST", "REMAINED"}

\* Between two calls the driver stands where it thinks it stands in the
\* receive buffer: remained cells of one datagram, then headers and payloads.
\* Across reopened sockets, remainders and wrapped pointers, no payload is
\* ever taken for a header.
Framed ==
  io = "idle" /\ sr = "UDP" =>
    /\ remained <= Len(Unread)
    /\ \A k \in 1..Len(Unread) :
         k <= remained => Unread[k][1] = "data" /\ Unread[k][2] = Unread[1][2]
    /\ Len(Unread) > remained => Unread[remained + 1][1] = "header"
    /\ remained > 0 <=> "REMAINED" \in packInfo

\* What a SEND puts on the wire is the caller's datagram, to the caller's
\* address, in one piece.
SendIsWhole ==
  cr = "SEND" => Staged = SubSeq(buf, 1, len) /\ dst = peer

\* A datagram starts with no answer pending, so that the SENDOK or the ARP
\* timeout sendto() waits for is its own.
AnswerIsOwn ==
  cr = "SEND" => ir = {} /\ ~busy

\* The echo server implements the datagram echo.
Service == INSTANCE DatagramEcho WITH Cut <- BufSize
EchoServed ==
  [][program = "loopback_udp" => Service!Next]_<<arrived, out>>

\* The calls return: sendto(), as someone answers the ARP request or it times
\* out; and a receive with a timeout, whatever it was called with before.  A
\* timeout below a millisecond is none (wiztoe_recvfrom, wiztoe_close).
SendtoReturns == io = "sendto" ~> io = "idle"
RecvfromReturns == toe = "recvfrom" /\ rcvTimeout > 0 ~> toe = "idle"
CallsReturn == SendtoReturns /\ RecvfromReturns

\* The echo server reads whatever arrives.
EverythingRead ==
  program = "loopback_udp" /\ RX_RSR > 0 ~> RX_RSR = 0
=============================================================================
