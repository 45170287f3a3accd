# Verification of ESP-WIZnet_TOE

TLA+ models of the firmware in this repository: an ESP32-S3 with a WIZnet W5500
Ethernet chip whose hardwired TCP/IP sockets ("TOE") are presented to
applications as BSD sockets. The modules are translated from the C code; the
chip, which is hardware, is modelled from the way the code uses it and from the
register descriptions in `w5500.h`. Configuration: `_WIZCHIP_ == W5500`
(`IPV6_AVAILABLE` undefined); `WIZNET_TOE=1`, and for the `Eth*` modules
`WIZNET_TOE=0`.

## 1. The system

    examples/loopback, examples/tcp_server      one task per network interface
        | net_sock_ops (function pointers)
    port/backend                                 bring-up, link flags
        |
    wiztoe_wrap.c    __wrap_lwip_*               BSD calls, errno
        |
    wiznet_toe.c     wiztoe_*                    descriptor table, polling, re-arm
        |
    socket.c         socket/listen/send/recv...  ioLibrary, busy-waits on Sn_CR, Sn_SR
        |
    w5500.c, wizchip_conf.c                      registers, buffers, configuration
        |
    wizchip_spi_esp.c                            SPI frames, recursive mutex
        |
    W5500 chip  <---- Ethernet ---->  peer

With `WIZNET_TOE=0` the chip runs in MACRAW mode under lwIP instead
(`esp_eth_mac_w5500.c`, `esp_eth_phy_w5500.c`).

Everything above the chip is *polling*: no interrupt carries data. A blocking
call reads registers in a loop, so the chip and the peer act between any two
reads. Where two registers make one decision, the decision can be about a state
that never existed. That is where the bugs of this system live, and the models
take one step per register access for that reason.

| Component | State | Operations | Hard parts | What makes it correct |
|---|---|---|---|---|
| W5500 socket + peer (external) | `Sn_SR`, `Sn_CR`, `Sn_IR`, buffers | commands, segments, FIN, RST, timeouts | acts at any moment | assumed |
| `socket.c`, TCP server functions | `sock_is_sending`, `sock_io_mode`, locals | `socket close listen disconnect send recv` | busy waits, stale sizes, interrupts of an older client, overlapping SENDs | buffer bounds, fresh sockets, one SEND at a time, one command at a time |
| `socket.c`, client and UDP | also `sock_remained_size`, `sock_pack_info`, `sock_any_port` | `connect sendto recvfrom ctlsocket` | loops that miss a status, datagram remainders, ARP timeout against late SENDOK | a result belongs to its datagram, loops end |
| `w5500.c` | none | size reads, `wiz_send_data`, `wiz_recv_data` | torn 16-bit reads, pointer wrap | sizes not torn, pointers modulo 2^16 |
| `wiznet_toe.c` | `g_toe[]` (used, opened, listening, accepted, timeouts) | `wiztoe_*` | the listening socket *is* the connection and is re-armed; two registers read one after the other; the table has no lock | a server serves client after client, end of stream means drained, one owner per socket |
| `wiztoe_wrap.c` | errno | `__wrap_lwip_*` | descriptor offset, conversion of timeouts | conversions keep their meaning |
| example servers | echo buffer, offset | accept, banner, recv, send, close | short and zero sends, results not looked at | the peer gets its own bytes back in order |
| `wizchip_spi_esp.c` | recursive mutex, chip select | SPI frames | frames of several tasks | frames do not mix |
| `wizchip_conf.c` | callback tables | `wizchip_init`, `ctlnetwork`, PHY control | buffer sizes of all sockets, reset that keeps addresses | sizes add up to the chip's memory, the chip is configured as last asked |
| MAC driver (`WIZNET_TOE=0`) | `packets_remain`, `mcast_cnt`, receive task | init, start, stop, transmit, receive, filter | two tasks share `Sn_CR` and `Sn_IR`, any access may fail, memory is parsed for headers on trust, the filter is changed without a lock and counted in a byte | frames reach the stack whole and in order, no interrupt is lost, joined groups are heard |
| PHY driver (`WIZNET_TOE=0`) | `link_status` | link update, negotiation | link change during configuration | link state follows the PHY |
| backends | `s_net_up`, `s_eth_connected`, `s_wifi_up` | event handlers, init | order of events, failed init reported as up | the flag follows the last event |

`PROJECT.json` lists every component with its status and the hazards at their lines.

## 2. The modules

The TCP server is four modules stacked by `EXTENDS`, in the layers of the code.
One task runs all the software, so a layer moves only while the layer below it
is idle.

* **`W5500`** (external): one TCP socket of the chip, and the peer. Actions
  `Chip*` accept the command in `Sn_CR` (or raise SENDOK); actions `Peer*` and
  `TcpTimeout` are the network. A byte is a pair of connection and index, so that
  bytes of different clients cannot be confused in a property.
* **`IoLibrary`**: `socket.c`. `io` is the line the running function has reached;
  `close()` is called from inside the others and has its own place `cl`. One
  action per register access. A wait `while (getSn_CR(sn))` is a guard. `sending`
  is the socket's bit of `sock_is_sending`; `sock_io_mode` is always 0 (blocking),
  as nothing in the repository sets it otherwise for TCP.
* **`WizToe`**: `wiznet_toe.c` for one listening descriptor: `wiztoe_listen`,
  `wiztoe_accept`, `wiztoe_send`, `wiztoe_recv`, `wiztoe_close`. Whether
  `rcv_timeout_ms` is set is the constant `RcvTimeout`; a timeout may then happen
  at any pass of the loops. The 1 ms yield between two polls is a place where
  everything else may move.
* **`TcpServer`**: the loops of `loopback_tcp_server` and `tcp_server_run`
  (constant `Application`), the system's `Next`, fairness, and the properties.
* **`EchoService`**: what a client is promised, as the client sees it: after a
  connection, a greeting if there is one and then its own bytes in order.
  `TcpServer` implements it (`EchoServiceSpec`), with `conn`, `sent` and `got` of
  the peer as the refinement mapping.
* **`TcpServerClaims`**: sentences of the repository's documents that the code
  does not keep, each checked in a run of its own.
* **`Reg16`**: `getSn_TX_FSR` / `getSn_RX_RSR`, which read a 16-bit register byte
  by byte, twice, while it counts up.
* **`TcpServerProofs`**, **`TcpSessionProofs`**, **`TcpClientProofs`**, **`Reg16Proofs`**,
  **`UdpEchoProofs`**, **`EthDriverProofs`**, **`ToeTaskPrograms`**, **`ToeTasksProofs`**:
  theorems and their lemmas (section 5).

* **`TcpClient`** extends `TcpServer` with the active open: `connect()`,
  `wiztoe_connect` and the loop of `loopback_tcp_client`, which connects, echoes what
  the server sends, closes and tries again. The peer of `W5500` is then the server; it
  may answer, refuse, ignore the SYN, or close at once.

UDP is three modules, again in the layers of the code.

* **`W5500Udp`** (external): a UDP socket with its two circular buffers and the
  pointers, modulo `PtrMod` (2^16 in the chip). A datagram is stored as a header cell
  and payload cells; a SEND is answered by SENDOK or by an ARP timeout, after which the
  chip has dropped the datagram.
* **`UdpSocket`**: `socket`, `close`, `sendto`, `recvfrom` with `wiz_send_data` and
  `wiz_recv_data`.
* **`UdpEcho`**: `wiztoe_sendto`, `wiztoe_recvfrom`, multicast open, close, the receive
  timeout, and two applications: `loopback_udp`, and one that makes any sequence of calls.
  **`DatagramEcho`** is what the echo server promises (`EchoServed`).

Several tasks on one chip:

* **`SpiPort`**: a register access as four moves (enter the critical section, select and
  address, transfer and deselect, leave). What a task still has to do is a sequence of
  steps, so that a function of `wizchip_conf.c` is the list of its register accesses.
* **`ChipConf`**: the calls of `wizchip_conf.c` that change the chip, as such lists, and
  the bring-up of `net_backend_toe.c`. `wizchip_init` takes sizes that are bytes, or NULL,
  and adds them as the code does, in an `int8_t` tested after each addition (`Fits`).
* **`ToeTasks`**: the descriptor table `g_toe` and the word `sock_is_sending`, used by
  two tasks. Reading a shared word and writing it back are two steps. Of a connection
  only what concerns those words is left (`owed`: the socket's last SEND is not yet
  accounted for); the connection itself is the subject of `TcpServer`.

The esp_eth driver, one action per access that another task can observe:

* **`W5500Eth`** (external): socket 0 in MACRAW mode, the INT pin, PHYCFGR, the wire.
  Nothing marks a cell of the receive memory as a header: where no frame starts the
  driver may find any length (`HeadersAt`). Lengths and sizes are 16-bit numbers that
  wrap at `Span`. `astray` says that RX_RD has been moved to where no frame starts;
  `lost`, that a RECV has not reached the chip and the driver has not come back in step.
* **`EthMac`**: initialisation, receive task (`Rx*`), transmit (`Tx*`).
* **`EthFilter`**: `add_mac_filter`, `del_mac_filter`, `set_all_multicast` and
  `set_promiscuous`, called by any task of `FilterTasks`. The read of `Sn_MR`, its write,
  the load and the store of `mcast_cnt` and the test of it are steps of their own,
  as nothing but the single SPI access is locked; the counter wraps at `CountSpan` (256).
* **`EthPhy`**: get_link, set_link with start and stop of the MAC, the PHY's modes, the
  end of the installation, the application's link flag.
* **`EthDriver`**: all of them, the network and the cable, and the properties; **`MCEthDriver`** gives the
  workloads. Every access may fail as often as the workload's `faults` says; a command
  may also be done by the chip and reported as failed.

Operators whose comment says *mutant* are broken variants of the definition
below them. They are not part of `Next`; they are kept to show which bug each
property would catch.

## 3. Properties

### TCP server (`TcpServer`)

* `BufferBounds`: `send` never stages more than the free space, `recv` never
  releases what was not received. `w5500.c` trusts the lengths it is given.
* `FreshSocket`: a socket that is opened, listening or in its handshake has no
  pending interrupt, no sending flag and no data. One hardware socket serves all
  clients in turn; this is why an old SENDOK or TIMEOUT is never taken for a new one.
* `OneSendAtATime`: a SEND is pending only if the one before is complete and its
  SENDOK consumed; the purpose of `sock_is_sending`.
* `CommandProtocol` (action): `Sn_CR` is written only when it reads 0.
* `EchoConserved`: while a connection is up, what the peer has received, what is
  under way, what the software holds at its current line, and what is unread are
  together exactly the stream: nothing lost, doubled, reordered or another client's.
* `EchoedBeforeFin`: once the server has sent its FIN, everything it had read is on
  its way back.
* `EchoServiceSpec`: refinement of `EchoService`.
* `ListensAgain` (liveness): however a connection ends, the socket listens again, unless
  the server gave up at start-up or polls on a client it missed (finding 1).
* `EchoArrives` (liveness): on a connection that stays up every byte comes back.

### TCP client (`TcpClient`)

* `FreshAttempt`: `connect()` leaves the socket open and may leave TIMEOUT raised when it
  fails; the caller's `close()` is what keeps the next attempt from seeing them.
* `EchoServiceSpec`: the server, too, gets its own bytes back in order.
* `Reconnects`, `EchoReturns` (liveness): another SYN follows whatever ended the attempt or
  the connection before, and bytes come back; except in `StuckInConnect`, where the
  server accepted and closed at once and `connect()` polls on CLOSE_WAIT.

### UDP (`UdpEcho`)

* `UdpTypeOK`: no pointer leaves its range, no size its buffer.
* `Framed`: between two calls the read pointer stands at the rest of one datagram
  (`sock_remained_size` cells) followed by headers and payloads. It relates
  `sock_remained_size`, `sock_pack_info` and the chip's pointers, which `recvfrom`, `close`
  and `socket` change one at a time.
* `SendIsWhole`, `AnswerIsOwn`: a SEND puts exactly the caller's datagram on the wire, to
  the caller's address, and finds no answer of an earlier one.
* `EchoServed`: refinement of `DatagramEcho`. A datagram longer than the application's
  buffer is echoed as a prefix: for the rest `recvfrom()` writes no address, the port stays
  0, and `sendto()` refuses it. An empty datagram is not echoed.
* `CallsReturn` (liveness): `sendto` returns; a receive with a timeout returns. A timeout
  below a millisecond is rounded to 0, which means none.
* `EverythingRead` (liveness): the echo server goes on reading, whatever it could not echo.

### esp_eth driver (`EthDriver`)

* `EthTypeOK`: types of all three parts; lengths stay 16-bit numbers and what is read as
  a frame fits `rx_buffer`, whatever it is; `mcast_cnt` stays in its byte.
* `InStep`: RX_RD leads to the start of a frame or to the end of what has arrived,
  whichever accesses and mallocs fail, unless it was a RECV. When a RECV fails after RX_RD
  was moved, `Sn_RX_RSR` still counts what RX_RD has left behind, and the task takes old
  memory for a header: a stale 0 minus 2 is 65534, passes the check for runts, and RX_RD
  moves by it (lines 682-686, 741-744).
* `FramesWhole`: while no RECV is lost the stack gets whole frames, in order, each at most
  once, though other accesses fail in the middle of one; after a lost RECV this holds
  again once the driver is in step. What reaches the stack while one is lost may be
  anything: nothing is promised of it.
* `TransmitHonest`: ESP_OK means the frame was sent, unless an earlier transmit failed and
  left its SEND bit; one frame on the wire is one frame of the stack, unless a SEND failed,
  whose frame is then sent glued to the next.
* `LinkAgrees`: between two link checks the socket, the interrupt mask, the poll timer and
  the application's flag say what `link_status` says (as long as no access failed).
* `FilterKept`, of two parts. `GroupsHeard`: between calls, multicast is let through exactly
  while a group is joined. Excepted are the three things the code does not handle, recorded
  in `spoilt`: calls that overlapped (a leave that has seen the count at 0 writes the block
  after another task's join), as many groups as make `mcast_cnt` wrap, and
  `set_all_multicast`, which forgets the count.
  `PromiscuousKept`: the MAC filter is off exactly while promiscuous mode is set, though
  every other call of the filter writes the whole of `Sn_MR`; unless calls overlapped.
* `FrameRead`, `TaskRests` (liveness): a frame in the chip is read, and the receive task,
  which has a high priority, comes back to wait. Without a failed access: after a lost RECV
  the task may take a length that leaves `packets_remain` set for ever, and spin; a size
  read that fails after the interrupt was cleared leaves a frame in the chip until the
  next arrives.
* `LinkServed` (liveness): with a link for good the driver is installed, up, unmasked, and
  the application knows, although an access may fail on the way: a failed installation
  restarts the ESP32, and `link_status`, assigned last, makes the next check repeat a failed
  start. A stop() that fails half-way is the exception (`stopFailed`): it leaves the MAC deaf
  with `link_status` up.

### Several tasks (`ToeTasks`)

* `SpiFramesWhole`: no frame holds bytes of two tasks, from the bring-up on.
* `OwnersApart`: two tasks hold the same hardware socket only if both have been in
  `wiztoe_socket` at once. That this can happen is a hazard of the unlocked table.
* `FlagKept`: as long as two updates of `sock_is_sending` have not overlapped, a socket's
  bit tells, between the calls of its task, whether a SEND is to be accounted for.
* `ConfigurationKept`: after any two configuration calls (in the proof: any number) the chip
  has the identity last set, whatever resets came between, sizes that fit its memory, the PHY
  in the mode last asked for, and the modes, timeouts and masks set since the last reset.
  The sizes are excepted when one of them alone is more than all of the memory: the
  `int8_t` sum of the code lets it pass.

### Registers (`Reg16`)

`NeverTorn` (a non-zero result lies between the register at the call and
at the return), `ZeroIsSmall` (zero is returned only if fewer than 256 bytes were
there at the call), `Returns` (the loop ends).

### Fairness

Weak fairness throughout. TCP: of `Software` (the task is scheduled: the loops of
accept and recv yield, and the busy waits of `socket.c` run on), of `Hardware` (the
chip executes commands and raises SENDOK), and of `Resolves` (TCP answers or times
out every handshake, segment and FIN). Nothing is assumed of the peer's will: it
need not connect, send or close. With a receive timeout the server may close first
and wait in FIN_WAIT, where `disconnect()` spins for as long as the peer keeps its
side open; no liveness is claimed there. UDP: of the task and of the chip, which answers
a SEND one way or the other; nothing of the senders. esp_eth: of the start-up, the
receive task, the link check and its callbacks, the poll timer and the event loop, all
of which FreeRTOS or ESP-IDF schedules; nothing of the cable, the wire or the
stack. Fairness is of the steps without a fault (`NoFault`): no behaviour is ruled out for not
making an access fail. `ToeTasks` has safety properties only.

## 4. Runs

| Run | What it shows | Bounds |
|---|---|---|
| `loopback_server` | all safety and liveness of the server | 3 clients, 3 bytes each, transmit buffer 1, receive buffer 3 |
| `banner_server_timeouts` | the inductive invariant `EchoInv` of the proofs, with banner and receive timeouts | 2 clients, 2 bytes, buffers 2 |
| `register_reads` | the register protocol | bytes of 0..3, that is a 4-bit register |
| `loopback_client` | the client: attempts, echo, reconnection, and the inductive invariant `ClientEchoInv` of the proofs | 3 connections, 3 bytes each, transmit buffer 1 |
| `udp_echo` | datagram functions, echo server, calls in any order | pointers modulo 8 starting at 7, receive buffer 4 cells, transmit buffer 2, 2 datagrams of 0 to 2 cells, application buffer 1, 4 calls |
| `eth_driver` | the esp_eth driver: reception, transmission, link, filter, liveness | 10 workloads: up to 2 frames, 3 sends or link changes, 3 groups, 1 failed access, 1 failed malloc, 1 late answer; frames of 1 and 3 cells, 2 accepted; 16-bit numbers modulo 7; 2 tasks that call the filter, `mcast_cnt` modulo 3 |
| `toe_tasks` | SPI, descriptor table, flags, configuration | 2 tasks, 2 sockets, 8 socket calls or 2 configuration calls; sizes NULL, 1, 4 and 128 |
| `back_to_accepting` | finding 1 | 2 clients, 2 bytes |
| `eof_means_drained` | finding 2 | same |
| `busy_only_nonblocking` | finding 3 | same |
| `returns_only_when_fatal` | finding 4 | same |
| `sending_kept` | finding 5 | 2 tasks, 6 calls |

Why these bounds suffice.

*TCP.* A transmit buffer of one byte makes every echo of two or
more bytes a sequence of short sends, with BUSY and a full buffer in between; a
receive buffer as large as a client's data lets `recv` take one, two or three bytes
at once. Two clients are needed for anything left over from one to the next; the
third adds a re-arm that itself fails in between. `MaxConn` and `MaxBytes` bound the peer
only (the guards of `PeerConnect` and `PeerData`); the software has no bound of its own.

*Registers.* Four values per byte give room for a carry, a torn zero and a
mismatch in two passes.

*UDP.* Pointers start just below the wrap; a datagram may fill the buffer, be cut
by the application's buffer, or be empty; a second one may arrive at any point of the
first. Four calls reach a bind, a partial read, a re-opening as a multicast socket and
the read after it. The application that makes any calls hears one source.

*esp_eth.* The workloads divide the environment, as their product is out of reach:
reception with a failing access and a failing malloc, transmission with a failing access
and a late answer, both together, a second link-up with frames left in the chip, one after a
failed access, the link with a failing access and a stop, the installation, and three of the
filter: groups with a failing access, groups with promiscuous mode and a failing access, groups
with `set_all_multicast`. A frame size above `MaxPacket` is included. `Span` is one more than the
receive memory, so that every stale length, including the 0 that wraps below zero, is
tried. One failed RECV is enough to get astray, and to come back in step with the next. Two
tasks in the filter overlap in every pair of calls; three joins reach the wrap of the counter
at `CountSpan` = 3.

*Tasks.* Two tasks and two sockets are the least with which an owner, a bit or a frame
can be confused. The six other sockets keep the 2 KB each the bring-up gives them.
Configuration calls are made while no other task uses the chip.

Deadlock checking is off: when the environment has used up its bound, or a server has
given up, the tasks poll on registers that no longer change, which shows as no step.

### Findings

1. `wiztoe_accept` handles ESTABLISHED and CLOSED. A client that connects and closes
   its side between two polls leaves CLOSE_WAIT, which it polls on for ever
   (`wiznet_toe.c:144-160`, against `examples/tcp_server/README.md:22`).
2. `wiztoe_recv` reads the size, then the status. Data and FIN in between make it
   return 0 with data unread (`wiznet_toe.c:213-216`, against `plan.md:383`).
3. `send()` returns SOCK_BUSY on a blocking socket (`socket.c:549`, against
   `socket.h:96` and `socket.h:339`); the examples then call it again in a loop
   without a yield.
4. `listen()` treats a handshake that has already begun as a failure
   (`socket.c:403`): a client that is early by a few microseconds makes the server's
   task end (against the comment at `loopback.c:215`).
5. `sock_is_sending` is one word for all sockets, updated without a lock
   (`socket.c:600`): tasks that keep to the documented "one task per hardware socket"
   lose each other's bit, which the mutex of the SPI port does not prevent
   (against `plan.md:536`).

Not stated in any document, and therefore not a finding, but visible in the models:
`connect()` polls for ever on a server that closes at once; `wiznet_net_init` reports
the network up whether or not the chip answered; `wizchip_setnetmode` can add modes and not
remove them; NORM after a power-down of the PHY turns a manual mode into negotiation;
`SO_SNDTIMEO` is stored and has no effect; a RECV of the MAC driver that fails makes the
receive task parse old memory, hand it to the stack, or spin, and a length of 0 or 1 read there
passes the check for runts, which comes after a subtraction in a `uint16_t` (lines 682-686);
`wizchip_init` adds `uint8_t` sizes in an `int8_t`, so that with a size of 128 more memory than
the chip has is accepted and written (`wizchip_conf.c:680-714`); a join and a leave of two
tasks can leave a joined group blocked, and the other way round; the 256th join wraps
`mcast_cnt` to 0, so that the next leave blocks the rest; `set_promiscuous` is undone by a
join that overlaps it; `set_all_multicast` forgets joined groups; the
mask of `is_w5500_sane_for_rxtx` is wider than the byte it is applied to, so that
only the link bit is tested (`esp_eth_mac_w5500.c:616`).

## 5. Proofs

TLAPS proves, for every value of the constants the assumptions allow:

| Module | Theorems | For all |
|---|---|---|
| `TcpServerProofs` | `Invariant`, `TypeCorrect`, `BuffersRespected`, `NothingCarriedOver`, `SendsDoNotOverlap`, `CommandsAreAccepted` | sizes of buffers, clients, bytes, both applications, with and without timeouts |
| `TcpSessionProofs` | `SessionInvariant`, `EchoIsConserved`, `EchoedFirst`, `EchoServiceImplemented` | the same |
| `TcpClientProofs` | `ClientInvariant`, `ClientTypesHold`, `AttemptsAreFresh`, `ClientEchoInvariant`, `ClientEchoIsConserved`, `ClientEchoedFirst`, `ClientEchoServiceImplemented` | sizes of buffers, connections, bytes, with and without a timeout |
| `Reg16Proofs` | `SizesAreNotTorn`, `FullBufferIsSeen` | widths of a byte |
| `UdpEchoProofs` | `UdpInvariant`, `UdpTypesHold`, `StreamIsFramed`, `SendsAreWhole`, `AnswersAreOwn`, `EchoIsServed` | sizes of buffers and pointers, datagrams, sources, sequences of calls |
| `EthDriverProofs` | `EthInvariant`, `TypesHold`, `FramesAreWhole`, `RxInStep`, `TransmitIsHonest`, `LinkIsAgreed`, `FilterIsKept` | workloads: frames, sends, failed accesses, link changes, filter calls of any tasks; frame sizes, widths of lengths and of the counter |
| `ToeTasksProofs` (with `ToeTaskPrograms`) | `ToeInvariant`, `ToeTypesHold`, `FramesAreOneTasks`, `OwnersStayApart`, `FlagIsKept`, `ConfInvariant`, `ConfigurationIsKept`, `AccessesAreAtomic` | tasks, socket and configuration calls, buffer sizes |

The assumptions are the named ones on the constants. `ChipAssumption`, `TimeoutAssumption`,
`ServerAssumption`, `ByteAssumption`, `EthChipAssumption`, `WorkloadAssumption`,
`TasksAssumption` and `UdpAppAssumption` say that sizes and bounds are (positive) naturals;
`ConfAssumption`, that the sizes given to `wizchip_init` are bytes; `FilterAssumption`, that the
counter counts to more than one; `EthChipAssumption` also, that frames and the receive memory
are shorter than a length can say. `ClientAssumption` says that the client is the one of
`examples/loopback`; no other example has one. `UdpChipAssumption` also says that a buffer
divides the range of its pointers, as 1, 2, 4, 8 or 16 KB divide 2^16. `EchoIsServed` has the
hypothesis `BufSize <= TxSize`: `sendto()` cuts what is longer than the transmit buffer
(`socket.c:666`), and the example's buffer of 2048 bytes
(`examples/loopback/inc/net_config.h:42`) fits the 2 KB the port gives each socket
(`wizchip_spi_esp.c:125`).

Every proof has the same frame: an inductive invariant as a conjunction of named parts,
a lemma that it holds at the start, lemmas that each part is kept by each layer's steps,
and the properties as consequences. The parts are what the properties lack to be inductive.

**Registers and buffers of TCP (`IInv`).** `FreshSocket` depends on
`close()` having cleared `Sn_IR` *while the socket was already CLOSED*, so that nothing
could raise an interrupt again before OPEN (`CloseWipes`); this needs to know which
command can be pending where (`PendingCommand`) and where `close()` can be running
(`CloseNested`). `OneSendAtATime` needs the meaning of the flag: where `sending` is clear
on a live connection, no SEND is open (`SendingFlag`), and this must survive
`disconnect()`, which clears the flag while a SEND may still be open and is safe only
because the DISCON has by then taken the socket out of the connected statuses.
`BufferBounds` needs that a size read earlier still holds: free space only grows while
`send` runs, and received data only grows while `recv` runs (`SizesHold`). The
invariant says nothing of the layers above `socket.c`: lemmas `UpperToe` and `UpperApp`
show that every step of them is the same small abstract step (`UpperStep`: no register is
written, and a function is called only while none runs), so the control half
(`Ctl*` lemmas) and the data half (`Data*` lemmas) are each proved once for `socket.c`, the
chip, the peer and the layers above.

**The echo of the TCP servers (`SessionInv`).** `EchoConserved` relates seven pieces of state
in three layers, and is kept only because every layer is where the others assume it to be.
`Control` says where: which function of `socket.c` runs for which of `wiznet_toe.c` (`Running`)
and that for which line of the application (`Serving`), what the descriptor's flags are
meanwhile (`Descriptor`), and what the status of the socket can be there (`Finishing`,
`Closed`, `InUse`). `Closed` is what makes errors harmless: where a send has failed, or a close
goes on to `socket()`, the connection is already down, so that what the buffer still holds is
not owed to anyone. `Untouched` says that a connection the server has not accepted has sent
nothing back, and that bytes are staged only between `wiz_send_data` and its SEND; `Working`,
that a running `send()` has the part of the buffer `off` points at and that `recv()` reports as
many bytes as it copied. The stream is `Flow`, six pieces in a row; `FlowAck` ...
`FlowGreeting` are the ways a byte passes from one piece to the next, each the work of one
action (`PeerAck`, `ChipSend`, `SendData`, `Received`, `RecvData`, and `CatAppend` for
`PeerData`), and every other step is shown to leave all pieces alone (`AppFlow`, `ToeFlow`,
`Quiet`, `SoftwareHolds`). `EchoedBeforeFin` follows because `DISCON` is written only at a
place where nothing is staged or to be sent. The refinement follows from conservation: what the
peer acknowledges is the next part of the stream (`FlowBegins`), which is what `EchoService`
promises. `EchoInv`, the conjunction with `IInv`, is checked by `banner_server_timeouts`.

**The TCP client (`ClientEchoInv`).** Outside `connect()` the client runs the code of the
server, and the proof uses this: `ClientHalves` shows that outside `connect()` its state
satisfies `CtlInv` and `DataInv` of the server, and `ClientServes` that, from the first
`recv` on, it satisfies `IInv` and stands at the lines (`Lines`) the lemmas on the stream ask
for. These lemmas (`LoopFlow`, `TransferFlow`, `SocketCFlow`, `EchoWire`, `EchoBegins`,
`EchoAnswers`) are stated of `Lines` and not of a listener, and serve both proofs. New is
`Connecting`: while `connect()` runs nothing but a SYN is under way, the only interrupt that
can be raised is the TIMEOUT that has closed the socket, and a status of INIT means that
CONNECT is still to be written or accepted. `ClientControl` is the counterpart of `Control`:
`ClientDescriptor` and `ClientStatus` say that a descriptor that is not `opened` has a closed
socket outside `socket()`, which is why a failed `socket()` needs no CLOSE and a failed
`connect()` gets one. `FreshAttempt` rests on that, and on `CloseWipes` of the server's
invariant for the TIMEOUT that `connect()` leaves raised. A connection begins when the
SYN/ACK arrives, with every piece of the stream empty.

**Size registers.** If the first reading is not zero and both readings have the
same high byte, the register, which only grows, had that high byte all the time between
the two reads of it, hence also when the low byte in between was read. The invariant
names that value (`FirstReading`).

**UDP (`UdpInv`).** The pointers run modulo `PtrMod` and index the buffers modulo their
size; the first lemmas (`ModAdd` ... `CellsWritten`) are the arithmetic of that, and from
`Gaps` on the proof speaks of `Ahead`, the cells between read and write pointer, only.
`Calling` says which function of `socket.c` runs for which of `wiznet_toe.c`; `Commands`
and `Answers`, that a command or an answer is pending only where the function waits for
it, so that CLOSE cannot leave a TIMEOUT to the next datagram; `Sending`, that between the two
pointers lies the caller's datagram, or nothing. `Layout` is the inductive form of
`Framed`: the unread cells are the rest of one datagram, then whole ones in order of
arrival. What counts as "the rest" while `recvfrom()` is between its accesses is `Rest`: the
length just read from a header before it is stored, then what is left of it. The
equivalence of `sock_remained_size` and PACK_REMAINED fails only inside `recvfrom()`
(`Reading`). The echo needs in addition that what the server holds at each line up to
the SEND is the beginning of a datagram that came after the one answered last, from the
address in hand (`HeaderRead`, `PayloadNext`, `ReplyNext`), and that nothing up to the one
answered last is unread (`Answered`). This is where a remainder is seen not to be
echoed: its port stays 0.

**esp_eth (`EthInv`).** `Installing` keeps everything else at rest until the driver
is up, through restarts. `LinkInv` is `LinkAgrees` step by step of `set_link`, with what
the application will have been told once the queue is empty (`Said`) for its flag.
`TxInv`: whatever stands before another frame in the memory, in a SEND or on the wire
belongs to a failed transmit, and while none has failed the chip holds nothing but
the transmit in progress. `RxInv` has a part that always holds and one that holds while no
RECV is lost. Always, the memory is a sequence of whole frames in order of arrival with the
last RX_RD that was in step at the start of one (`MemInv`), and every frame the stack has got
lies before it (`Behind`), so that a frame handed up after the driver is back in step
comes after those. While no RECV is lost, the memory before RX_RD is freed unless the task is
about to have that done, and there is a frame where the task reads a header (`Synced`); what
it has read of a frame still describes it (`Reading`). `InStep` is the first conjunct of
`Synced`. `Filter` follows each call of the filter step by step (`Midway`): which of counter,
`Sn_MR` and groups has been changed at which line, and, between calls, that the counter is the
number of groups and the block follows from it. `Alone` says that while no two calls have
overlapped at most one is running, and what its copy of `Sn_MR` is worth; `PromiscuousKept`
rests on it.

**Several tasks (`ToeInv`).** What a task still has to do is its `program`, a sequence of
steps. `ToeTaskPrograms` defines which programs are legal at all (`TaskOK`) and proves that
each call's list is legal and that the tail of a legal program is; this replaces a case
distinction over places. `Bus`: the owner of the critical section is the one task inside an access,
and the frame is its own. `Unready`: before `cris_enter` is installed only the bring-up's first two steps
exist. `Table` and `Flags` hold until two scans, or two updates, overlap; `Due` says
what the bit of a socket will be made by the rest of its task's program.

**The configuration (`ConfInv`).** `ConfigurationKept` speaks of the chip after whole lists of
register accesses, so the proof first says what a list does. `Effect` is what one step makes of
one register and of the task's last reading of it, and `After(p, R, S)` are the registers that
program `p` leaves from registers `R` and readings `S`, by a recursive function along `p`. Its
laws are proved once: the recursion has a solution (`CourseExists`), one program after another
does what the two do in turn (`FinalConcat`), and a first step followed by the rest does what
the program does (`AfterStep`). They need induction over the length of a program; it is used in
the form that a set of naturals has a least element, for which no operator has to be
instantiated (`Induct`). The `...Leaves` lemmas then compute what each function of
`wizchip_conf.c` leaves from *any* registers: `wizchip_sw_reset` the identity it found and the
reset values elsewhere, `wizchip_init` sizes that fit, whatever it is given, NULL or numbers,
unless a number alone is more than 16 (`SetSizes`, `AcceptedFits`). The `...Ready` lemmas say
that this is what its call notes as `asked`: `Ready` is the condition of `ConfigurationKept`
with the types it rests on. The invariant says where the chip is between two calls. Either it is
up, ready, and only socket functions run, whose accesses are commands (`Settled`); or it is not
up and nothing runs (`Unbegun`); or one task alone is in the bring-up or a configuration
function, and what is `Coming`, the registers that the rest of its program will leave, is ready
(`Moving`). A step of the program does not change what is coming, and at the end of the program
nothing is left to come. The registers themselves are wrong almost everywhere in between, after
the reset of `wizchip_sw_reset` or while the PHY is held. `ConfInv` was checked by TLC on the
run `toe_tasks` before it was proved. A behaviour makes either configuration or socket calls
(`workload`), so the theorem says nothing of the two mixed; the call of a configuration function
finds nobody else in a function, as `Call` demands.

**Atomic accesses.** `AccessesAreAtomic` is an action property over the same definitions:
every change of a register or of a reading is one whole step of one task, at the moment
of the transfer, with all other tasks standing still (`StepsWhole`, with `Rest` as the
program that is left). So the four moves of an access, interleaved with those of others, may
be taken for one step, as the modules of one task take them.

**Model-checked only.** All liveness: `EchoArrives`, `ListensAgain`, `Returns`, `Reconnects`,
`EchoReturns`, `CallsReturn`, `EverythingRead`, `FrameRead`, `TaskRests` and `LinkServed`. The
prover has no rules for `ENABLED`, on which fairness rests. Every safety property
of the passing runs is proved.

## 6. Abstractions

* Size registers are read in one step in `IoLibrary`; `Reg16` justifies it for non-zero
  results. A torn zero delays one poll, or shows up as finding 2 does.
* `getSn_IR` followed by a write that clears the bit just seen is one step: nothing else
  clears bits, and a bit raised in between stays.
* MODE and port registers, option flags and the link check before the loop are left out;
  argument checks that cannot fail on this path (socket number, mode, length 0) as well.
* The statuses CLOSING and TIME_WAIT count as FIN_WAIT.
* UDP: `wiz_send_data` with its SEND, and `wiz_recv_data` with its RECV, are one step each:
  the chip looks at the pointers only when it gets the command. PACK_FIRST stays set after
  the first part of a datagram, as in the code.
* esp_eth: the chip accepts a command before the next SPI frame, so that the two tasks
  never see each other's command in `Sn_CR`. OPEN happens while no task is in a frame (the
  link check runs every two seconds) and starts with empty memory, also after RX_RD has gone
  astray; CLOSE keeps it. Once astray the ring is not followed: the size may be any, and any
  length may be found, which includes all that the chip can hold there. What the task hands
  to the stack is recorded only while no RECV is lost. In the filter, the assignment of
  `mcast_cnt` at the end of `set_all_multicast` is one step, and the test of it in `del` may
  use the stored value or a newer one.
  A full transmit memory (ESP_ERR_NO_MEM) is left out: one frame is under way at a time.
  A restart of the ESP32 happens during the installation only.
* Tasks: register values are symbols, and of the sixteen kilobytes the sizes of two sockets
  vary; the six others ask for 2 KB each. The reads of `getnetinfo` and its like are not part of the model:
  they change nothing.
* The Wi-Fi instance of the server uses lwIP and shares nothing with this one but code.
* The loops of `send` end in fewer branches than the C text has: with
  `sock_is_sending` known to be clear after line 551, lines 582-596 cannot be
  reached in one task.

## 7. Not modelled, and what is left

Not modelled: the Wi-Fi backend and lwIP; `shutdown`, `fcntl`, errno, socket options other
than the receive timeout, and the getters of addresses, which read a register or a field;
`ctlsocket`, `setsockopt` and `getsockopt` of `socket.c` and `wizchip_clrinterrupt`, which
nothing calls; deinit and del of the MAC driver; electrical and timing
behaviour of the chip, negotiation on the wire, FreeRTOS, the build system; and the
vendored `Application/loopback` example, which no target compiles.

Left open: liveness is checked on the instances of the runs only; configuration calls while
other tasks use their sockets, which the library's interface allows and the repository's own
code never does, are outside the model.
