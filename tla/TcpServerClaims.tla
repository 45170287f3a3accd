-------------------------- MODULE TcpServerClaims --------------------------
(***************************************************************************)
(* What documents and comments of the repository say of the TCP servers    *)
(* and the code does not keep.  Each statement is the weakest reading of   *)
(* its text under which the counterexample still counts.                   *)
(***************************************************************************)
EXTENDS TcpServer

\* examples/tcp_server/README.md:22: "when a client disconnects the server
\* goes back to accepting".  A server that gave up at start-up is excepted.
BackToAccepting == Over ~> (sr = "LISTEN" \/ app = "exit")

\* plan.md:383: recv() is to "return 0 on EOF (peer FIN with empty RX
\* buffer)": with an orderly FIN, 0 means that nothing is left to read.
EofMeansDrained ==
  app = "receiving" /\ toe = "idle" /\ toeRet = 0 /\ sr = "CLOSE_WAIT"
    => RX_RSR = 0

\* socket.h:96: SOCK_BUSY is "Valid only Non-block IO Mode", and the servers
\* open their socket in blocking mode.
BusyOnlyNonBlocking ==
  toe = "send" /\ io = "idle" => ioRet # SOCK_BUSY

\* loopback.c:215: loopback_run "only returns on a fatal setup error".  With
\* an address configured the setup of a listener has nothing fatal left.
ReturnsOnlyWhenFatal == app = "exit" => ~sipr
=============================================================================
