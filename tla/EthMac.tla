------------------------------- MODULE EthMac -------------------------------
(***************************************************************************)
(* esp_eth_mac_w5500.c: the receive task, the transmit function and the    *)
(* initialisation, one action per register access that another task can    *)
(* observe.  Every access is one SPI transaction under the driver's mutex; *)
(* it may fail (the transaction, or the wait for the mutex), at most       *)
(* work.faults times.                                                      *)
(***************************************************************************)
EXTENDS W5500Eth, FiniteSets

VARIABLES
  work,       \* bound: how often the environment does what (chosen at the start)
  used,       \* what it has done so far
  boot,       \* the installation of the driver: its next step
  polled,     \* no interrupt pin: poll_timer is used instead
  notify,     \* the notification of the receive task
  ticking,    \* poll_timer runs
  rx,         \* the receive task: pc, the alloc'ed frame, packets_remain
  tx,         \* the task in emac_w5500_transmit
  stack,      \* history: payloads handed to stack_input while no RECV is lost
  okFrames,   \* history: frames whose transmit returned ESP_OK
  badFrames   \* history: frames whose transmit failed after writing them

macVars == <<notify, ticking, rx, tx>>
historyVars == <<stack, okFrames, badFrames>>

(* One SPI access, or a command that is written and then polled: it is     *)
(* done; it fails and the chip saw nothing; or the chip did it and only    *)
(* the reading of Sn_CR failed.                                            *)
Access  == {"done", "failed"}
Command == {"done", "failed", "unread"}
Spi(r) ==
  /\ r # "done" => used.faults < work.faults
  /\ used' = IF r = "done" THEN used ELSE [used EXCEPT !.faults = @ + 1]
Reaches(r) == r # "failed"

(* The interrupt handler notifies the receive task on the falling edge of  *)
(* the pin.                                                                *)
Isr == notify' = (notify \/ (~polled /\ ~IntLow /\ IntLow'))

RxIdle == [pc |-> "wait", remain |-> 0, offset |-> 0, head |-> 0,
           more |-> FALSE, buf |-> <<>>]
TxIdle == [pc |-> "idle", frame |-> 0]

RxAt(p) == rx.pc = p
RxOnly  == UNCHANGED <<ticking, tx, polled, work, boot>>

-----------------------------------------------------------------------------
(* The receive task: emac_w5500_task                                       *)

(* A notification; in interrupt mode, after a second, also the pin.        *)
RxWake ==
  /\ RxAt("wait")
  /\ notify \/ (~polled /\ IntLow)
  /\ notify' = FALSE
  /\ rx' = [rx EXCEPT !.pc = "ir"]
  /\ UNCHANGED <<ethChipVars, used, historyVars>> /\ RxOnly

(* The interrupt status.  The result of the access is not looked at: one   *)
(* that fails leaves in status what the transaction record held.           *)
RxStatus ==
  /\ RxAt("ir")
  /\ \E r \in Access, seen \in BOOLEAN :
       /\ Spi(r)
       /\ r = "done" => seen = sock.recv
       /\ rx' = [rx EXCEPT !.pc = IF seen THEN "clear" ELSE "wait"]
  /\ UNCHANGED <<ethChipVars, notify, historyVars>> /\ RxOnly

\* The RECV bit is cleared before the memory is read.
RxClear ==
  /\ RxAt("clear")
  /\ \E r \in Access :
       /\ Spi(r)
       /\ sock' = IF r = "done" THEN [sock EXCEPT !.recv = FALSE] ELSE sock
  /\ rx' = [rx EXCEPT !.pc = "size"]
  /\ UNCHANGED <<simr, mr, phy, wire, notify, historyVars>> /\ RxOnly

(* while (packets_remain): the flag is emac's, and only receive() and      *)
(* flush_recv_frame() assign it.                                           *)
Around(more) == IF more THEN "size" ELSE "wait"

(* emac_w5500_alloc_recv_buf: the size; an error is not looked at and      *)
(* leaves 0.                                                               *)
RxSizeRead ==
  /\ RxAt("size")
  /\ \E r \in Access, size \in Sizes \cup {0} :
       /\ Spi(r)
       /\ IF r = "done" THEN size \in Sizes ELSE size = 0
       /\ rx' = [rx EXCEPT !.remain = size,
                           !.pc = IF size = 0 THEN Around(rx.more) ELSE "head"]
  /\ UNCHANGED <<ethChipVars, notify, historyVars>> /\ RxOnly

(* uint16_t: a length below the header's two bytes wraps.  copy_len is     *)
(* the length up to ETH_MAX_PACKET_SIZE; it is what the check for a runt   *)
(* compares, before the malloc.                                            *)
Sub16(a, b) == IF b <= a THEN a - b ELSE a - b + Span
LenOf(h)    == Sub16(h, 1)
CopyLenWhole(n) == n      \* mutant: the frame is not cut
CopyLen(n)  == IF n > MaxPacket THEN MaxPacket ELSE n
Accepted(h) == CopyLen(LenOf(h)) >= MinPacket

(* RX_RD and the header; a length that is not accepted, like an access     *)
(* that fails, is only logged.                                             *)
RxHead ==
  /\ RxAt("head")
  /\ \E r \in Access, h \in HeadersAt(sock.rxRd) :
       LET allocated == r = "done" /\ Accepted(h) IN
       /\ Spi(r)
       /\ rx' = IF allocated
                THEN [rx EXCEPT !.offset = sock.rxRd, !.head = h, !.pc = "payload"]
                ELSE [rx EXCEPT !.pc = Around(rx.more)]
  /\ UNCHANGED <<ethChipVars, notify, historyVars>> /\ RxOnly
RxNoMem ==
  /\ RxAt("head")
  /\ \E h \in HeadersAt(sock.rxRd) : Accepted(h)
  /\ used.noMem < work.noMem
  /\ used' = [used EXCEPT !.noMem = @ + 1]
  /\ rx' = [rx EXCEPT !.pc = "flush"]
  /\ UNCHANGED <<ethChipVars, notify, historyVars>> /\ RxOnly

(* emac_w5500_receive with the offset and the lengths found by alloc.      *)
RxPayload ==
  /\ RxAt("payload")
  /\ \E r \in Access :
       /\ Spi(r)
       /\ rx' = IF r = "done"
                THEN [rx EXCEPT !.more = FALSE, !.pc = "setrd",
                        !.buf = MemoryAt(rx.offset + 1, CopyLen(LenOf(rx.head)))]
                ELSE RxIdle
  /\ UNCHANGED <<ethChipVars, notify, historyVars>> /\ RxOnly
NextOffsetTwoHeads == rx.offset + 1 + rx.head   \* mutant: the header counted twice
NextOffset == rx.offset + rx.head
RxSetRd ==
  /\ RxAt("setrd")
  /\ \E r \in Access :
       /\ Spi(r)
       /\ sock' = IF r = "done" THEN MovedTo(NextOffset) ELSE sock
       /\ rx' = IF r = "done" THEN [rx EXCEPT !.pc = "recv"] ELSE RxIdle
  /\ UNCHANGED <<simr, mr, phy, wire, notify, historyVars>> /\ RxOnly

(* RECV; a frame cut to copy_len is not passed on.  packets_remain is what *)
(* the size read at the start leaves, in uint16_t.                         *)
LeftOverNone    == 0                                   \* mutant: one frame per interrupt
LeftOverPayload == Sub16(rx.remain, LenOf(rx.head))    \* mutant: the header is forgotten
LeftOver == Sub16(rx.remain, rx.head)
TruncatedPassed == FALSE                \* mutant: a cut frame is passed on
Truncated == LenOf(rx.head) > MaxPacket
AfterReceive(r) == [RxIdle EXCEPT !.more = r = "done" /\ LeftOver > 0,
                                  !.pc = Around(r = "done" /\ LeftOver > 0)]
RxRecv ==
  /\ RxAt("recv")
  /\ \E r \in Command :
       /\ Spi(r)
       /\ sock' = IF Reaches(r) THEN AfterRecv ELSE RecvLost
       /\ rx' = AfterReceive(r)
       /\ stack' = IF r = "done" /\ ~Truncated /\ ~sock.lost
                   THEN Append(stack, rx.buf) ELSE stack
  /\ UNCHANGED <<simr, mr, phy, wire, notify, okFrames, badFrames>>
  /\ RxOnly

(* emac_w5500_flush_recv_frame: size, header and RX_RD; then RECV.  It     *)
(* does not check the header.                                              *)
RxFlush ==
  /\ RxAt("flush")
  /\ \E r \in Access, size \in Sizes, h \in HeadersAt(sock.rxRd) :
       LET skips == r = "done" /\ size > 0 IN
       /\ Spi(r)
       /\ sock' = IF skips THEN MovedTo(sock.rxRd + h) ELSE sock
       /\ rx' = IF skips THEN [rx EXCEPT !.more = FALSE, !.remain = size, !.head = h,
                                         !.pc = "flushRecv"]
                ELSE RxIdle
  /\ UNCHANGED <<simr, mr, phy, wire, notify, historyVars>> /\ RxOnly
RxFlushRecv ==
  /\ RxAt("flushRecv")
  /\ \E r \in Command :
       /\ Spi(r)
       /\ sock' = IF Reaches(r) THEN AfterRecv ELSE RecvLost
       /\ rx' = AfterReceive(r)
  /\ UNCHANGED <<simr, mr, phy, wire, notify, historyVars>> /\ RxOnly

RxTask == RxWake \/ RxStatus \/ RxClear \/ RxSizeRead \/ RxHead \/ RxNoMem
          \/ RxPayload \/ RxSetRd \/ RxRecv \/ RxFlush \/ RxFlushRecv

-----------------------------------------------------------------------------
(* emac_w5500_transmit                                                     *)

TxAt(p) == tx.pc = p
TxOnly == UNCHANGED <<simr, mr, phy, wire, notify, ticking, rx, stack, polled,
                      work, boot>>
TxDone(ok) ==
  /\ tx' = TxIdle
  /\ okFrames' = IF ok THEN okFrames \cup {tx.frame} ELSE okFrames
  /\ badFrames' = IF ok THEN badFrames ELSE badFrames \cup {tx.frame}

(* The frame is written behind TX_WR, which is then moved behind it.  A    *)
(* failure up to that write leaves the chip unchanged.                     *)
TxWrite ==
  /\ TxAt("write")
  /\ \E r \in Access :
       /\ Spi(r)
       /\ sock' = IF r = "done" THEN [sock EXCEPT !.txMem = Append(@, tx.frame)]
                  ELSE sock
       /\ tx' = IF r = "done" THEN [tx EXCEPT !.pc = "send"] ELSE TxIdle
  /\ UNCHANGED <<okFrames, badFrames>> /\ TxOnly
TxSend ==
  /\ TxAt("send")
  /\ \E r \in Command :
       /\ Spi(r)
       /\ sock' = IF Reaches(r) THEN AfterSend ELSE sock
       /\ IF r = "done"
          THEN tx' = [tx EXCEPT !.pc = "poll"] /\ UNCHANGED <<okFrames, badFrames>>
          ELSE TxDone(FALSE)
  /\ TxOnly
\* Too late, or is_w5500_sane_for_rxtx finds no link: the SEND stays pending.
TxGivesUp ==
  /\ TxAt("poll")
  /\ (used.late < work.late) \/ ~phy.link
  /\ used' = IF phy.link THEN [used EXCEPT !.late = @ + 1] ELSE used
  /\ TxDone(FALSE)
  /\ UNCHANGED sock /\ TxOnly
TxPoll ==
  /\ TxAt("poll") /\ phy.link
  /\ \E r \in Access :
       /\ r = "done" => sock.sent
       /\ Spi(r)
       /\ IF r = "done"
          THEN tx' = [tx EXCEPT !.pc = "ack"] /\ UNCHANGED <<okFrames, badFrames>>
          ELSE TxDone(FALSE)
  /\ UNCHANGED sock /\ TxOnly
SendSeenKept == sock                   \* mutant: the SEND bit is not cleared
SendSeen == [sock EXCEPT !.sent = FALSE]
TxAck ==
  /\ TxAt("ack")
  /\ \E r \in Access :
       /\ Spi(r)
       /\ sock' = IF r = "done" THEN SendSeen ELSE sock
       /\ TxDone(r = "done")
  /\ TxOnly

TxTask == TxWrite \/ TxSend \/ TxGivesUp \/ TxPoll \/ TxAck

-----------------------------------------------------------------------------
(* emac_w5500_init, called once by esp_eth_driver_install                  *)

(* Every step that fails ends in ESP_ERROR_CHECK, that is in a restart of  *)
(* the ESP32; the chip keeps the registers written so far.                 *)
Restart == boot' = "reset"
BootOnly == UNCHANGED <<wire, notify, ticking, rx, tx, historyVars, polled, work>>
InTime(r) ==   \* a register that is polled may also show its value too late
  \/ Spi(r)
  \/ r # "done" /\ used.late < work.late /\ used' = [used EXCEPT !.late = @ + 1]

\* w5500_reset: the RST bit is written, and polled until it is clear.
MacReset ==
  /\ boot = "reset"
  /\ \E r \in Command :
       /\ InTime(r)
       /\ IF Reaches(r)
          THEN /\ sock' = EmptySock /\ simr' = FALSE
               /\ mr' = [block |-> FALSE, filter |-> FALSE]
          ELSE UNCHANGED <<sock, simr, mr>>
       /\ IF r = "done" THEN boot' = "verify" ELSE Restart
  /\ UNCHANGED phy /\ BootOnly
\* w5500_verify_id: VERSIONR is read until it is 4.
MacVerify ==
  /\ boot = "verify"
  /\ \E r \in Access :
       /\ InTime(r)
       /\ IF r = "done" THEN boot' = "setup" ELSE Restart
  /\ UNCHANGED ethChipVars /\ BootOnly
\* w5500_setup_default: no socket interrupts, MAC filter, IPv4 multicast blocked.
DefaultMr == [block |-> TRUE, filter |-> TRUE]
MacSetup ==
  /\ boot = "setup"
  /\ \E r \in Access :
       /\ Spi(r)
       /\ IF r = "done" THEN simr' = FALSE /\ mr' = DefaultMr /\ boot' = "phy"
          ELSE mr' \in {mr, DefaultMr} /\ simr' \in {simr, FALSE} /\ Restart
  /\ UNCHANGED <<sock, phy>> /\ BootOnly

MacInit == MacReset \/ MacVerify \/ MacSetup

=============================================================================
