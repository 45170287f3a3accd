------------------------------ MODULE EthDriverProofs ------------------------------
(* The esp_eth driver of the W5500, for every number of frames, filter     *)
(* calls, failed accesses and link changes, and all widths of its          *)
(* counters: types, a read pointer in step and whole frames in order while *)
(* no RECV is lost, honest transmits, an agreed link, and a filter that    *)
(* hears its groups while its calls do not overlap and its counter does    *)
(* not wrap.  First the lemmas about the operators of EthDriver: its       *)
(* counters and records, the sequences it keeps, and the receive memory as *)
(* a sequence of frames.                                                   *)
EXTENDS EthDriver, SequenceTheorems, TLAPS

(* The values of the control variables, and the types of the records.      *)
RxPlaces == {"wait", "ir", "clear", "size", "head", "payload", "setrd", "recv",
             "flush", "flushRecv"}

TxPlaces == {"idle", "write", "send", "poll", "ack"}

LnkPlaces == {"idle", "open", "unmask", "tick", "mask", "close", "untick", "release"}

BootPlaces == {"reset", "verify", "setup", "phy", "start", "up"}

Counters == [frames : Nat, sends : Nat, flips : Nat, stops : Nat, noMem : Nat,
             late : Nat, joins : Nat, allMulti : Nat, promisc : Nat, faults : Nat]

LnkType == [pc : LnkPlaces, up : BOOLEAN, keep : BOOLEAN]

PhyType == [link : BOOLEAN, reset : BOOLEAN, opmode : {"all", "forced"}]

(* The types of what is not a part of the chip's memories: Boolean         *)
(* variables, and the others.                                              *)
Flags ==
  /\ simr \in BOOLEAN /\ mr \in ModeBits
  /\ notify \in BOOLEAN /\ ticking \in BOOLEAN /\ polled \in BOOLEAN
  /\ linkStatus \in BOOLEAN /\ running \in BOOLEAN /\ connected \in BOOLEAN

Ctl ==
  /\ boot \in BootPlaces /\ used \in Counters
  /\ lnk \in LnkType /\ phy \in PhyType
  /\ events \in Seq(BOOLEAN)

FltPlaces == {"idle", "read", "write", "load", "store", "test", "zero"}

(* A call of the filter: where it can be, and the counter it decrements is *)
(* above zero.                                                             *)
FltCall == [call : FilterCalls \cup {"none"}, pc : FltPlaces, mr : ModeBits,
            cnt : 0..(CountSpan - 1)]

InPlace(c) ==
  /\ c.pc = "idle" <=> c.call = "none"
  /\ c.pc = "load" => c.call \in {"add", "del", "delOther"}
  /\ c.pc = "store" => c.call = "add" \/ (c.call = "del" /\ c.cnt > 0)
  /\ c.pc = "test" => c.call \in {"del", "delOther"}
  /\ c.pc = "zero" => c.call \in {"allOn", "allOff"}

FltTypes ==
  /\ flt \in [FilterTasks -> FltCall] /\ \A t \in FilterTasks : InPlace(flt[t])
  /\ mcast \in 0..(CountSpan - 1) /\ groups \in Nat /\ promisc \in BOOLEAN
  /\ spoilt \subseteq {"raced", "allMulti", "wrapped"}

CtlTypes == Flags /\ Ctl /\ FltTypes

-----------------------------------------------------------------------------
(* Counters and control records                                            *)

(* An SPI access changes no counter but that of the faults, and while no   *)
(* access has failed each of them was done.                                *)
LEMMA SpiCounts ==
  ASSUME used \in Counters, NEW r, Spi(r)
  PROVE  /\ used' \in Counters
         /\ used'.frames = used.frames /\ used'.sends = used.sends
         /\ used'.faults = 0 => used.faults = 0 /\ r = "done"
  BY DEF Spi, Counters

(* What a step of the environment does to the counters: NetFrame,          *)
(* Transmit, CableIn.                                                      *)
LEMMA EnvCounts ==
  ASSUME used \in Counters
  PROVE  /\ Env("frames") => /\ used' \in Counters /\ used'.faults = used.faults
                             /\ used'.frames = used.frames + 1 /\ used'.sends = used.sends
         /\ Env("sends") => /\ used' \in Counters /\ used'.faults = used.faults
                            /\ used'.frames = used.frames /\ used'.sends = used.sends + 1
         /\ Env("flips") => /\ used' \in Counters /\ used'.faults = used.faults
                            /\ used'.frames = used.frames /\ used'.sends = used.sends
  BY DEF Env, Counters

(* The same for a failed malloc, an answer that comes too late, and a stop *)
(* of the driver.                                                          *)
LEMMA OtherCounts ==
  ASSUME used \in Counters
  PROVE  /\ used.faults \in Nat /\ used.frames \in Nat /\ used.sends \in Nat
         /\ LET u == [used EXCEPT !.noMem = @ + 1]
            IN  /\ u \in Counters /\ u.faults = used.faults
                /\ u.frames = used.frames /\ u.sends = used.sends
         /\ LET u == [used EXCEPT !.late = @ + 1]
            IN  /\ u \in Counters /\ u.faults = used.faults
                /\ u.frames = used.frames /\ u.sends = used.sends
         /\ LET u == [used EXCEPT !.stops = @ + 1]
            IN  /\ u \in Counters /\ u.faults = used.faults
                /\ u.frames = used.frames /\ u.sends = used.sends
  BY DEF Counters

(* The records the PHY functions assign to lnk are of its type.            *)
LEMMA LnkMoves ==
  /\ LnkIdle \in LnkType
  /\ lnk \in LnkType => lnk.up \in BOOLEAN /\ lnk.keep \in BOOLEAN /\ lnk.pc \in LnkPlaces
  /\ \A p \in LnkPlaces : lnk \in LnkType => [lnk EXCEPT !.pc = p] \in LnkType
  /\ \A p \in LnkPlaces, u, k \in BOOLEAN : [pc |-> p, up |-> u, keep |-> k] \in LnkType
  /\ LET l == [LnkIdle EXCEPT !.pc = "release"]
     IN  l \in LnkType /\ l.pc = "release" /\ ~l.up /\ ~l.keep
<1>1. \A p \in LnkPlaces, u, k \in BOOLEAN : [pc |-> p, up |-> u, keep |-> k] \in LnkType
  BY DEF LnkType
<1>2. LnkIdle \in LnkType
  BY <1>1 DEF LnkIdle, LnkPlaces
<1>3. \A p \in LnkPlaces : lnk \in LnkType => [lnk EXCEPT !.pc = p] \in LnkType
  BY DEF LnkType
<1>4. lnk \in LnkType => lnk.up \in BOOLEAN /\ lnk.keep \in BOOLEAN /\ lnk.pc \in LnkPlaces
  BY DEF LnkType
<1>5. LET l == [LnkIdle EXCEPT !.pc = "release"]
      IN  l \in LnkType /\ l.pc = "release" /\ ~l.up /\ ~l.keep
  BY DEF LnkIdle, LnkType, LnkPlaces
<1> QED BY <1>1, <1>2, <1>3, <1>4, <1>5

(* The values the driver and the PHY give PHYCFGR are of its type.         *)
LEMMA PhyMoves ==
  ASSUME phy \in PhyType
  PROVE  /\ phy.link \in BOOLEAN /\ phy.opmode \in {"all", "forced"}
         /\ \A b \in BOOLEAN :
              /\ [phy EXCEPT !.link = b] \in PhyType
              /\ [phy EXCEPT !.reset = b] \in PhyType
              /\ [phy EXCEPT !.link = FALSE, !.reset = b] \in PhyType
         /\ \A m \in {"all", "forced"} :
              /\ [phy EXCEPT !.opmode = m] \in PhyType
              /\ [link |-> FALSE, reset |-> TRUE, opmode |-> m] \in PhyType
  BY DEF PhyType

(* A posted link event is of the type of the events.                       *)
LEMMA AppendTyped ==
  ASSUME NEW s \in Seq(BOOLEAN), NEW b \in BOOLEAN
  PROVE  Append(s, b) \in Seq(BOOLEAN)
  OBVIOUS

(* The receive task touches neither the link, nor the filter, nor the      *)
(* transmit task, nor its histories, and only counts faults and failed     *)
(* mallocs (emac_w5500_task).                                              *)
LEMMA RxFootprint ==
  ASSUME RxTask, used \in Counters
  PROVE  /\ UNCHANGED <<simr, mr, phy, wire, ticking, tx, polled, work, boot, okFrames,
                        badFrames>>
         /\ used' \in Counters /\ used'.frames = used.frames /\ used'.sends = used.sends
         /\ used'.faults = 0 => used.faults = 0
<1> USE SpiCounts DEF RxOnly, ethChipVars, historyVars
<1>1. CASE RxWake BY <1>1 DEF RxWake
<1>2. CASE RxStatus BY <1>2 DEF RxStatus
<1>3. CASE RxClear BY <1>3 DEF RxClear
<1>4. CASE RxSizeRead BY <1>4 DEF RxSizeRead
<1>5. CASE RxHead BY <1>5 DEF RxHead
<1>6. CASE RxNoMem BY <1>6, OtherCounts DEF RxNoMem
<1>7. CASE RxPayload BY <1>7 DEF RxPayload
<1>8. CASE RxSetRd BY <1>8 DEF RxSetRd
<1>9. CASE RxRecv BY <1>9 DEF RxRecv
<1>10. CASE RxFlush BY <1>10 DEF RxFlush
<1>11. CASE RxFlushRecv BY <1>11 DEF RxFlushRecv
<1> QED BY <1>1, <1>2, <1>3, <1>4, <1>5, <1>6, <1>7, <1>8, <1>9, <1>10, <1>11 DEF RxTask

(* The transmit function touches nothing but socket 0's send side and its  *)
(* own variables (emac_w5500_transmit).                                    *)
LEMMA TxFootprint ==
  ASSUME TxTask, used \in Counters
  PROVE  /\ UNCHANGED <<simr, mr, phy, wire, notify, ticking, rx, stack, polled, work,
                        boot>>
         /\ used' \in Counters /\ used'.frames = used.frames /\ used'.sends = used.sends
         /\ used'.faults = 0 => used.faults = 0
<1> USE SpiCounts DEF TxOnly
<1>1. CASE TxWrite BY <1>1 DEF TxWrite
<1>2. CASE TxSend BY <1>2 DEF TxSend
<1>3. CASE TxGivesUp BY <1>3, OtherCounts DEF TxGivesUp
<1>4. CASE TxPoll BY <1>4 DEF TxPoll
<1>5. CASE TxAck BY <1>5 DEF TxAck
<1> QED BY <1>1, <1>2, <1>3, <1>4, <1>5 DEF TxTask

(* emac_w5500_init either leaves socket 0 as it is or resets it, and ends, *)
(* in "phy", with the default receive filter.                              *)
LEMMA InitFootprint ==
  ASSUME MacInit, CtlTypes
  PROVE  /\ UNCHANGED <<phy, wire, notify, ticking, rx, tx, stack, okFrames, badFrames,
                        polled, work>>
         /\ boot \in {"reset", "verify", "setup"}
         /\ boot' \in {"reset", "verify", "setup", "phy"}
         /\ sock' = sock \/ sock' = EmptySock
         /\ simr' = simr \/ simr' = FALSE
         /\ mr' \in ModeBits
         /\ boot' = "phy" => mr' = DefaultMr
         /\ used' \in Counters /\ used'.frames = used.frames /\ used'.sends = used.sends
         /\ used'.faults = 0 => used.faults = 0
<1> USE DEF BootOnly, Restart, ethChipVars, historyVars
<1>t. used \in Counters /\ mr \in ModeBits
  BY DEF CtlTypes, Ctl, Flags
<1>d. DefaultMr \in ModeBits /\ [block |-> FALSE, filter |-> FALSE] \in ModeBits
  BY DEF DefaultMr, ModeBits
<1>s. \A r : InTime(r) => /\ used' \in Counters
                          /\ used'.frames = used.frames /\ used'.sends = used.sends
                          /\ used'.faults = 0 => used.faults = 0
  BY <1>t, SpiCounts, OtherCounts DEF InTime
<1>1. CASE MacReset
  BY <1>1, <1>s, <1>t, <1>d DEF MacReset
<1>2. CASE MacVerify
  BY <1>2, <1>s, <1>t DEF MacVerify
<1>3. CASE MacSetup
  BY <1>3, <1>t, <1>d, SpiCounts DEF MacSetup
<1> QED BY <1>1, <1>2, <1>3 DEF MacInit

-----------------------------------------------------------------------------
(* The records of the chip and of the tasks                                *)

(* The fields of the records, and the fact that a record has these fields  *)
(* and no others.                                                          *)
SockFields == {"sr", "recv", "sent", "rxMem", "rxRd", "rxBase", "astray", "lost",
               "txMem", "sendQ"}

RxFields == {"pc", "remain", "offset", "head", "more", "buf"}

TxFields == {"pc", "frame"}

Shaped(s) == s = [f \in SockFields |-> s[f]]

Shapes ==
  /\ Shaped(sock)
  /\ rx = [f \in RxFields |-> rx[f]]
  /\ tx = [f \in TxFields |-> tx[f]]

(* A step that leaves the receive side, or the send side, of socket 0      *)
(* alone.                                                                  *)
RecvSame(s) ==
  /\ s.rxMem = sock.rxMem /\ s.rxRd = sock.rxRd /\ s.rxBase = sock.rxBase
  /\ s.astray = sock.astray /\ s.lost = sock.lost

SendSame(s) == s.txMem = sock.txMem /\ s.sendQ = sock.sendQ /\ s.sent = sock.sent

(* What the edits of the receive task leave of socket 0: the RECV bit is   *)
(* cleared; and what an arriving frame does.                               *)
LEMMA SockReading ==
  ASSUME Shaped(sock)
  PROVE  /\ \A b : LET s == [sock EXCEPT !.recv = b]
                   IN  Shaped(s) /\ s.recv = b /\ s.sr = sock.sr /\ RecvSame(s) /\ SendSame(s)
         /\ \A n, m : LET s == [sock EXCEPT !.rxMem = n, !.recv = m]
                   IN  /\ Shaped(s) /\ s.recv = m /\ s.sr = sock.sr /\ SendSame(s)
                       /\ s.rxMem = n /\ s.rxBase = sock.rxBase /\ s.rxRd = sock.rxRd
                       /\ s.astray = sock.astray /\ s.lost = sock.lost
  BY DEF Shaped, SockFields, RecvSame, SendSame

(* The RECV command frees the memory, or is lost.                          *)
LEMMA SockFreed ==
  ASSUME Shaped(sock)
  PROVE  /\ LET s == AfterRecv
            IN  /\ Shaped(s) /\ s.recv = sock.recv /\ s.sr = sock.sr /\ SendSame(s)
                /\ s.rxBase = sock.rxRd /\ s.rxMem = sock.rxMem /\ s.rxRd = sock.rxRd
                /\ s.astray = sock.astray /\ s.lost = (sock.lost /\ sock.astray)
         /\ LET s == RecvLost
            IN  /\ Shaped(s) /\ s.recv = sock.recv /\ s.sr = sock.sr /\ SendSame(s)
                /\ s.rxBase = sock.rxBase /\ s.rxMem = sock.rxMem /\ s.rxRd = sock.rxRd
                /\ s.astray = sock.astray /\ s.lost = TRUE
  BY DEF Shaped, SockFields, SendSame, AfterRecv, RecvLost

(* RX_RD moves to o, if a frame starts there or the memory ends, or goes   *)
(* astray.                                                                 *)
LEMMA SockMoved ==
  ASSUME Shaped(sock), NEW o, NEW s, s = MovedTo(o)
  PROVE  /\ Shaped(s) /\ s.recv = sock.recv /\ s.sr = sock.sr /\ SendSame(s)
         /\ s.rxMem = sock.rxMem /\ s.rxBase = sock.rxBase /\ s.lost = sock.lost
         /\ \/ s.rxRd = sock.rxRd /\ s.astray = TRUE
            \/ s.rxRd = o /\ s.astray = sock.astray /\ (FrameAt(o) \/ o = Len(sock.rxMem))
         /\ ~sock.astray /\ (FrameAt(o) \/ o = Len(sock.rxMem)) => s.rxRd = o /\ ~s.astray
<1> USE DEF Shaped, SockFields, SendSame
<1>1. CASE ~sock.astray /\ (FrameAt(o) \/ o = Len(sock.rxMem))
  <2>1. s = [sock EXCEPT !.rxRd = o]
    BY <1>1 DEF MovedTo
  <2> QED BY <1>1, <2>1
<1>2. CASE ~(~sock.astray /\ (FrameAt(o) \/ o = Len(sock.rxMem)))
  <2>1. s = [sock EXCEPT !.astray = TRUE]
    BY <1>2 DEF MovedTo
  <2> QED BY <1>2, <2>1
<1> QED BY <1>1, <1>2

(* What the edits of the transmit function, and of a frame that leaves the *)
(* chip, leave of socket 0.                                                *)
LEMMA SockSending ==
  ASSUME Shaped(sock)
  PROVE  /\ \A m : LET s == [sock EXCEPT !.txMem = m]
                   IN  /\ Shaped(s) /\ s.recv = sock.recv /\ s.sr = sock.sr /\ RecvSame(s)
                       /\ s.txMem = m /\ s.sendQ = sock.sendQ /\ s.sent = sock.sent
         /\ LET s == AfterSend
            IN  /\ Shaped(s) /\ s.recv = sock.recv /\ s.sr = sock.sr /\ RecvSame(s)
                /\ s.txMem = <<>> /\ s.sent = sock.sent
                /\ s.sendQ = Append(sock.sendQ, sock.txMem)
         /\ LET s == SendSeen
            IN  /\ Shaped(s) /\ s.recv = sock.recv /\ s.sr = sock.sr /\ RecvSame(s)
                /\ s.txMem = sock.txMem /\ s.sendQ = sock.sendQ /\ s.sent = FALSE
         /\ \A q : LET s == [sock EXCEPT !.sendQ = q, !.sent = TRUE]
            IN  /\ Shaped(s) /\ s.recv = sock.recv /\ s.sr = sock.sr /\ RecvSame(s)
                /\ s.txMem = sock.txMem /\ s.sendQ = q /\ s.sent = TRUE
  BY DEF Shaped, SockFields, RecvSame, SendSame, AfterSend, SendSeen

(* What CLOSE, OPEN and a reset of the chip leave of socket 0.             *)
LEMMA SockOpenClose ==
  ASSUME Shaped(sock)
  PROVE  /\ LET s == AfterClose
            IN  /\ Shaped(s) /\ s.recv = sock.recv /\ s.sr = "CLOSED" /\ RecvSame(s)
                /\ s.txMem = sock.txMem /\ s.sendQ = <<>> /\ s.sent = sock.sent
         /\ LET s == Opened
            IN  /\ Shaped(s) /\ s.recv = sock.recv /\ s.sr = "MACRAW"
                /\ s.rxMem = <<>> /\ s.rxRd = 0 /\ s.rxBase = 0
                /\ s.astray = FALSE /\ s.lost = (sock.lost /\ rx.pc \notin {"wait", "size"})
                /\ s.txMem = <<>> /\ s.sendQ = <<>> /\ s.sent = sock.sent
         /\ LET s == EmptySock
            IN  /\ Shaped(s) /\ s.recv = FALSE /\ s.sr = "CLOSED"
                /\ s.rxMem = <<>> /\ s.rxRd = 0 /\ s.rxBase = 0
                /\ s.astray = FALSE /\ s.lost = FALSE
                /\ s.txMem = <<>> /\ s.sendQ = <<>> /\ s.sent = FALSE
  BY DEF Shaped, SockFields, RecvSame, SendSame, AfterClose, Opened, AfterOpen, EmptySock

(* The receive task changes neither the status of socket 0 nor its send    *)
(* side.                                                                   *)
LEMMA RxSock ==
  ASSUME Shapes, RxTask
  PROVE  Shapes' /\ sock'.sr = sock.sr /\ SendSame(sock')
<1>s. Shaped(sock)
  BY DEF Shapes
<1>1. Shaped(sock') /\ sock'.sr = sock.sr /\ SendSame(sock')
  <2> USE <1>s
  <2>m. ASSUME NEW o, sock' = MovedTo(o)
        PROVE  Shaped(sock') /\ sock'.sr = sock.sr /\ SendSame(sock')
    <3> PICK s : s = MovedTo(o)
      OBVIOUS
    <3>1. Shaped(s) /\ s.sr = sock.sr /\ SendSame(s)
      BY SockMoved
    <3> QED BY <2>m, <3>1
  <2>1. CASE RxWake BY <2>1 DEF RxWake, ethChipVars, SendSame
  <2>2. CASE RxStatus BY <2>2 DEF RxStatus, ethChipVars, SendSame
  <2>3. CASE RxClear BY <2>3 DEF RxClear, SendSame, Shaped, SockFields
  <2>4. CASE RxSizeRead BY <2>4 DEF RxSizeRead, ethChipVars, SendSame
  <2>5. CASE RxHead BY <2>5 DEF RxHead, ethChipVars, SendSame
  <2>6. CASE RxNoMem BY <2>6 DEF RxNoMem, ethChipVars, SendSame
  <2>7. CASE RxPayload BY <2>7 DEF RxPayload, ethChipVars, SendSame
  <2>8. CASE RxSetRd \/ RxFlush
    <3>1. sock' = sock \/ \E o : sock' = MovedTo(o)
      BY <2>8 DEF RxSetRd, RxFlush
    <3> QED BY <2>m, <3>1 DEF SendSame
  <2>9. CASE RxRecv \/ RxFlushRecv
    <3>1. sock' = AfterRecv \/ sock' = RecvLost
      BY <2>9 DEF RxRecv, RxFlushRecv
    <3> QED BY <3>1, SockFreed
  <2> QED BY <2>1, <2>2, <2>3, <2>4, <2>5, <2>6, <2>7, <2>8, <2>9 DEF RxTask
<1>2. rx' = [f \in RxFields |-> rx'[f]]
  <2> USE DEF Shapes, RxFields, RxIdle
  <2>1. CASE RxWake BY <2>1 DEF RxWake
  <2>2. CASE RxStatus BY <2>2 DEF RxStatus
  <2>3. CASE RxClear BY <2>3 DEF RxClear
  <2>4. CASE RxSizeRead BY <2>4 DEF RxSizeRead
  <2>5. CASE RxHead BY <2>5 DEF RxHead
  <2>6. CASE RxNoMem BY <2>6 DEF RxNoMem
  <2>7. CASE RxPayload BY <2>7 DEF RxPayload
  <2>8. CASE RxSetRd BY <2>8 DEF RxSetRd
  <2>9. CASE RxRecv BY <2>9 DEF RxRecv, AfterReceive
  <2>10. CASE RxFlush BY <2>10 DEF RxFlush
  <2>11. CASE RxFlushRecv BY <2>11 DEF RxFlushRecv, AfterReceive
  <2> QED BY <2>1, <2>2, <2>3, <2>4, <2>5, <2>6, <2>7, <2>8, <2>9, <2>10, <2>11 DEF RxTask
<1>3. tx' = tx
  BY DEF RxTask, RxOnly, RxWake, RxStatus, RxClear, RxSizeRead, RxHead, RxNoMem, RxPayload, RxSetRd,
         RxRecv, RxFlush, RxFlushRecv
<1> QED
  BY <1>1, <1>2, <1>3 DEF Shapes

(* The transmit function changes neither the status of socket 0 nor its    *)
(* receive side.                                                           *)
LEMMA TxSock ==
  ASSUME Shapes, TxTask
  PROVE  /\ Shapes' /\ sock'.sr = sock.sr /\ sock'.recv = sock.recv
         /\ RecvSame(sock')
<1> USE SockSending DEF Shapes, TxFields, TxIdle, TxDone, TxOnly
<1>1. CASE TxWrite BY <1>1 DEF TxWrite, RecvSame, Shaped, SockFields
<1>2. CASE TxSend BY <1>2 DEF TxSend, RecvSame
<1>3. CASE TxGivesUp BY <1>3 DEF TxGivesUp, RecvSame
<1>4. CASE TxPoll BY <1>4 DEF TxPoll, RecvSame
<1>5. CASE TxAck BY <1>5 DEF TxAck, RecvSame
<1> QED BY <1>1, <1>2, <1>3, <1>4, <1>5 DEF TxTask

-----------------------------------------------------------------------------
(* Sequences                                                               *)

(* Taking the head off a sequence leaves its last element, if anything.    *)
LEMMA LastOfTail ==
  ASSUME NEW S, NEW s \in Seq(S), s # <<>>
  PROVE  \/ Len(s) = 1 /\ Tail(s) = <<>>
         \/ Tail(s) # <<>> /\ Tail(s)[Len(Tail(s))] = s[Len(s)]
<1> DEFINE t == Tail(s)
<1>1. /\ t \in Seq(S) /\ Len(t) = Len(s) - 1 /\ Len(s) \in Nat \ {0}
      /\ \A i \in 1..Len(t) : t[i] = s[i + 1]
  BY HeadTailProperties, EmptySeq
<1>2. t = <<>> <=> Len(t) = 0
  BY <1>1, EmptySeq
<1> HIDE DEF t
<1>3. Len(s) = 1 => t = <<>>
  BY <1>1, <1>2
<1>4. Len(s) # 1 => t # <<>> /\ t[Len(t)] = s[Len(s)]
  BY <1>1, <1>2
<1> QED BY <1>3, <1>4 DEF t

(* The elements of a sequence with one more behind it.                     *)
LEMMA AppendProps ==
  ASSUME NEW S, NEW s \in Seq(S), NEW e \in S
  PROVE  /\ Append(s, e) \in Seq(S)
         /\ Len(Append(s, e)) = Len(s) + 1
         /\ DOMAIN Append(s, e) = 1..(Len(s) + 1)
         /\ \A k \in 1..Len(s) : Append(s, e)[k] = s[k]
         /\ Append(s, e)[Len(s) + 1] = e
  OBVIOUS

(* One element put into an empty sequence.                                 *)
LEMMA AppendToEmpty == \A e : Append(<<>>, e) = <<e>>
  OBVIOUS

(* The elements of a sequence without its head.                            *)
LEMMA HeadAndTail ==
  ASSUME NEW S, NEW s \in Seq(S), s # <<>>
  PROVE  /\ Head(s) \in S /\ Tail(s) \in Seq(S)
         /\ 1 \in DOMAIN s /\ Head(s) = s[1]
         /\ \A i \in DOMAIN Tail(s) : i + 1 \in DOMAIN s /\ Tail(s)[i] = s[i + 1]
<1>1. /\ Head(s) \in S /\ Tail(s) \in Seq(S) /\ Len(Tail(s)) = Len(s) - 1
      /\ \A i \in 1..Len(Tail(s)) : Tail(s)[i] = s[i + 1]
  BY HeadTailProperties
<1>2. Len(s) \in Nat \ {0} /\ DOMAIN s = 1..Len(s) /\ DOMAIN Tail(s) = 1..Len(Tail(s))
  BY <1>1, EmptySeq, LenProperties
<1>3. Head(s) = s[1]
  OBVIOUS
<1> QED BY <1>1, <1>2, <1>3

-----------------------------------------------------------------------------
(* The receive memory                                                      *)

(* Part j of frame f, whose cells are l. *)
CellOf(f, j, l) == [frame |-> f, part |-> j, len |-> l]

(* A place in the receive memory where a frame starts, or its end. *)
Boundary(m, o) ==
  o \in Nat /\ (o = Len(m) \/ (o < Len(m) /\ m[o + 1].part = 0))

(* Frame f, with n payload cells, lies whole at o; behind it another frame *)
(* starts, or nothing.                                                     *)
FrameFrom(m, o, f, n) ==
  /\ f \in Nat \ {0} /\ n \in FrameSizes
  /\ Boundary(m, o + n + 1)
  /\ \A j \in 0..n : m[o + 1 + j] = CellOf(f, j, n + 1)

WholeFrames(m) ==
  \A o \in Nat : Boundary(m, o) /\ o # Len(m) => \E f, n : FrameFrom(m, o, f, n)

InOrder(m) ==
  \A k, l \in 1..Len(m) : k < l /\ m[k].part = 0 /\ m[l].part = 0 => m[k].frame < m[l].frame

Until(m, last) == \A k \in 1..Len(m) : m[k].frame <= last

(* Frame f came before every frame of m that starts at o or later. *)
Behind(m, o, f) ==
  \A k \in 1..Len(m) : k > o /\ m[k].part = 0 => f < m[k].frame

(* The fields of a cell.                                                   *)
LEMMA CellIs ==
  ASSUME NEW f \in Nat, NEW j \in Nat, NEW l \in Nat
  PROVE  /\ CellOf(f, j, l) \in Cell
         /\ CellOf(f, j, l).frame = f /\ CellOf(f, j, l).part = j /\ CellOf(f, j, l).len = l
  BY DEF CellOf, Cell

(* A cell of the receive memory has numbers in its fields.                 *)
LEMMA CellFields ==
  ASSUME NEW m \in Seq(Cell), NEW k \in 1..Len(m)
  PROVE  m[k] \in Cell /\ m[k].frame \in Nat /\ m[k].part \in Nat /\ m[k].len \in Nat
<1>1. m[k] \in Cell
  BY ElementOfSeq
<1> QED BY <1>1 DEF Cell

(* The cells of a frame are its parts from the header, part 0, on.         *)
LEMMA FrameCellsAre ==
  ASSUME NEW f \in Nat, NEW n \in Nat
  PROVE  /\ FrameCells(f, n) \in Seq(Cell) /\ Len(FrameCells(f, n)) = n + 1
         /\ \A k \in 1..(n + 1) : FrameCells(f, n)[k] = CellOf(f, k - 1, n + 1)
<1>1. FrameCells(f, n) = [k \in 1..(n + 1) |-> CellOf(f, k - 1, n + 1)]
  BY DEF FrameCells, CellOf
<1>2. \A k \in 1..(n + 1) : CellOf(f, k - 1, n + 1) \in Cell
  BY CellIs
<1> QED BY <1>1, <1>2

(* The payload of a frame are its parts from 1 on.                         *)
LEMMA PayloadIs ==
  ASSUME NEW f \in Nat, NEW n \in Nat \ {0}
  PROVE  /\ Payload(f, n) \in Seq(Cell) /\ Len(Payload(f, n)) = n
         /\ \A k \in 1..n : Payload(f, n)[k] = CellOf(f, k, n + 1)
         /\ Payload(f, n)[1].frame = f
<1> DEFINE c == FrameCells(f, n)
           p == Payload(f, n)
<1>1. /\ c \in Seq(Cell) /\ Len(c) = n + 1
      /\ \A k \in 1..(n + 1) : c[k] = CellOf(f, k - 1, n + 1)
  BY FrameCellsAre
<1>2. p = Tail(c)
  BY DEF Payload
<1> HIDE DEF c, p
<1>3. c # <<>>
  BY <1>1, EmptySeq
<1>4. p \in Seq(Cell) /\ Len(p) = n /\ \A k \in 1..n : p[k] = c[k + 1]
  BY <1>1, <1>2, <1>3, HeadTailProperties
<1>5. \A k \in 1..n : p[k] = CellOf(f, k, n + 1)
  <2> TAKE k \in 1..n
  <2>1. k + 1 \in 1..(n + 1) /\ k + 1 - 1 = k
    OBVIOUS
  <2>2. c[k + 1] = CellOf(f, k + 1 - 1, n + 1)
    BY <1>1, <2>1
  <2> QED BY <1>4, <2>1, <2>2
<1>6. p[1].frame = f
  <2>1. p[1] = CellOf(f, 1, n + 1)
    BY <1>5
  <2> QED BY <2>1, CellIs
<1> QED BY <1>4, <1>5, <1>6 DEF p

(* A read of the receive memory returns what is stored there, as far as    *)
(* something is and RX_RD is in step.                                      *)
LEMMA MemoryAtIs ==
  ASSUME NEW o \in Nat, NEW n \in Nat, sock.rxMem \in Seq(Cell)
  PROVE  /\ MemoryAt(o, n) \in Seq(Cell) /\ Len(MemoryAt(o, n)) = n
         /\ ~sock.astray =>
              \A k \in 1..n : o + k <= Len(sock.rxMem) => MemoryAt(o, n)[k] = sock.rxMem[o + k]
<1> DEFINE Z == CellOf(0, 0, 0)
           a == MemoryAt(o, n)
<1>1. a = [k \in 1..n |-> IF o + k <= Len(sock.rxMem) /\ ~sock.astray THEN sock.rxMem[o + k]
                          ELSE Z]
  BY DEF MemoryAt, Stale, CellOf
<1>2. Z \in Cell /\ Len(sock.rxMem) \in Nat
  BY CellIs, LenProperties
<1>3. \A k \in 1..n : o + k <= Len(sock.rxMem) => sock.rxMem[o + k] \in Cell
  BY <1>2, CellFields
<1> HIDE DEF Z, a
<1>4. a \in Seq(Cell) /\ Len(a) = n
  BY <1>1, <1>2, <1>3
<1>5. ~sock.astray => \A k \in 1..n : o + k <= Len(sock.rxMem) => a[k] = sock.rxMem[o + k]
  BY <1>1
<1> QED BY <1>4, <1>5 DEF a

(* Read behind the header of a whole frame, the memory gives its payload   *)
(* (emac_w5500_receive).                                                   *)
LEMMA PayloadRead ==
  ASSUME sock.rxMem \in Seq(Cell), ~sock.astray, NEW o \in Nat, NEW f, NEW n,
         FrameFrom(sock.rxMem, o, f, n)
  PROVE  MemoryAt(o + 1, n) = Payload(f, n)
<1>1. f \in Nat /\ n \in Nat \ {0} /\ o + 1 \in Nat
  BY EthChipAssumption DEF FrameFrom
<1>2. o + n + 1 <= Len(sock.rxMem)
  BY <1>1, LenProperties DEF FrameFrom, Boundary
<1>3. /\ MemoryAt(o + 1, n) \in Seq(Cell) /\ Len(MemoryAt(o + 1, n)) = n
      /\ \A k \in 1..n : (o + 1) + k <= Len(sock.rxMem) =>
                             MemoryAt(o + 1, n)[k] = sock.rxMem[(o + 1) + k]
  BY <1>1, MemoryAtIs
<1>4. /\ Payload(f, n) \in Seq(Cell) /\ Len(Payload(f, n)) = n
      /\ \A k \in 1..n : Payload(f, n)[k] = CellOf(f, k, n + 1)
  BY <1>1, PayloadIs
<1>5. \A k \in 1..n : MemoryAt(o + 1, n)[k] = Payload(f, n)[k]
  <2> TAKE k \in 1..n
  <2>1. k \in 0..n /\ (o + 1) + k <= Len(sock.rxMem)
    BY <1>1, <1>2, LenProperties
  <2>2. sock.rxMem[o + 1 + k] = CellOf(f, k, n + 1)
    BY <2>1 DEF FrameFrom
  <2>3. MemoryAt(o + 1, n)[k] = sock.rxMem[(o + 1) + k]
    BY <1>3, <2>1
  <2> QED BY <1>4, <2>2, <2>3
<1> QED BY <1>3, <1>4, <1>5, SeqEqual

(* The cells of a frame that is put behind m.                              *)
LEMMA AppendedCells ==
  ASSUME NEW m \in Seq(Cell), NEW f \in Nat, NEW n \in Nat
  PROVE  LET m2 == m \o FrameCells(f, n)
         IN  /\ m2 \in Seq(Cell) /\ Len(m2) = Len(m) + (n + 1)
             /\ \A k \in 1..Len(m) : m2[k] = m[k]
             /\ \A j \in 0..n : m2[Len(m) + 1 + j] = CellOf(f, j, n + 1)
<1> DEFINE c == FrameCells(f, n)
           m2 == m \o c
<1>1. /\ c \in Seq(Cell) /\ Len(c) = n + 1
      /\ \A k \in 1..(n + 1) : c[k] = CellOf(f, k - 1, n + 1)
  BY FrameCellsAre
<1> HIDE DEF c
<1>2. Len(m) \in Nat
  BY LenProperties
<1>3. /\ m2 \in Seq(Cell) /\ Len(m2) = Len(m) + Len(c)
      /\ \A k \in 1..(Len(m) + Len(c)) : m2[k] = IF k <= Len(m) THEN m[k] ELSE c[k - Len(m)]
  BY <1>1, ConcatProperties
<1> HIDE DEF m2
<1>4. \A k \in 1..Len(m) : m2[k] = m[k]
  BY <1>1, <1>2, <1>3
<1>5. \A j \in 0..n : m2[Len(m) + 1 + j] = CellOf(f, j, n + 1)
  <2> TAKE j \in 0..n
  <2>1. /\ Len(m) + 1 + j \in 1..(Len(m) + Len(c)) /\ ~(Len(m) + 1 + j <= Len(m))
        /\ Len(m) + 1 + j - Len(m) = j + 1 /\ j + 1 \in 1..(n + 1) /\ j + 1 - 1 = j
    BY <1>1, <1>2
  <2>2. m2[Len(m) + 1 + j] = c[j + 1]
    BY <1>3, <2>1
  <2> QED BY <1>1, <2>1, <2>2
<1> QED BY <1>1, <1>3, <1>4, <1>5 DEF m2, c

(* Putting the next frame behind whole frames keeps the frames whole, in   *)
(* order and where they are: what the driver has read of one stays true    *)
(* while others arrive.                                                    *)
LEMMA FrameAppended ==
  ASSUME NEW m \in Seq(Cell), WholeFrames(m), InOrder(m), NEW i \in Nat, Until(m, i),
         NEW n \in FrameSizes, NEW m2, m2 = m \o FrameCells(i + 1, n)
  PROVE  /\ m2 \in Seq(Cell)
         /\ WholeFrames(m2) /\ InOrder(m2) /\ Until(m2, i + 1)
         /\ \A o : Boundary(m, o) => Boundary(m2, o)
         /\ \A o \in Nat : \A f, k : FrameFrom(m, o, f, k) => FrameFrom(m2, o, f, k)
         /\ \A o \in Nat, f \in 1..i : Behind(m, o, f) => Behind(m2, o, f)
<1> PICK L \in Nat : L = Len(m)
  BY LenProperties
<1>n. n \in Nat \ {0}
  BY EthChipAssumption
<1>1. /\ m2 \in Seq(Cell) /\ Len(m2) = L + (n + 1)
      /\ \A k \in 1..L : m2[k] = m[k]
      /\ \A j \in 0..n : m2[L + 1 + j] = CellOf(i + 1, j, n + 1)
  <2>1. i + 1 \in Nat /\ n \in Nat
    BY <1>n
  <2>2. /\ m \o FrameCells(i + 1, n) \in Seq(Cell)
        /\ Len(m \o FrameCells(i + 1, n)) = Len(m) + (n + 1)
        /\ \A k \in 1..Len(m) : (m \o FrameCells(i + 1, n))[k] = m[k]
        /\ \A j \in 0..n : (m \o FrameCells(i + 1, n))[Len(m) + 1 + j] = CellOf(i + 1, j, n + 1)
    BY <2>1, AppendedCells
  <2> QED BY <2>2
<1>2. \A j \in 0..n : /\ m2[L + 1 + j].part = j /\ m2[L + 1 + j].frame = i + 1
  <2> TAKE j \in 0..n
  <2>1. m2[L + 1 + j] = CellOf(i + 1, j, n + 1)
    BY <1>1
  <2>2. i + 1 \in Nat /\ j \in Nat /\ n + 1 \in Nat
    BY <1>n
  <2>3. CellOf(i + 1, j, n + 1).frame = i + 1 /\ CellOf(i + 1, j, n + 1).part = j
    BY <2>2 DEF CellOf
  <2> QED BY <2>1, <2>3
<1>3. m2[L + 1].part = 0 /\ m2[L + 1].frame = i + 1
  BY <1>n, <1>2
<1>4. \A o : Boundary(m, o) => Boundary(m2, o)
  BY <1>n, <1>1, <1>3 DEF Boundary
<1>5. ASSUME NEW o \in Nat, NEW f, NEW k, FrameFrom(m, o, f, k)
      PROVE  FrameFrom(m2, o, f, k)
  <2>1. /\ f \in Nat \ {0} /\ k \in FrameSizes /\ Boundary(m, o + k + 1)
        /\ \A j \in 0..k : m[o + 1 + j] = CellOf(f, j, k + 1)
    BY <1>5 DEF FrameFrom
  <2>2. k \in Nat /\ o + k + 1 <= L
    BY <2>1, EthChipAssumption DEF Boundary
  <2>3. \A j \in 0..k : m2[o + 1 + j] = m[o + 1 + j]
    BY <1>1, <2>2
  <2> QED BY <1>4, <2>1, <2>3 DEF FrameFrom
<1>6. WholeFrames(m2)
  <2> SUFFICES ASSUME NEW o \in Nat, Boundary(m2, o), o # Len(m2)
               PROVE  \E f, k : FrameFrom(m2, o, f, k)
    BY DEF WholeFrames
  <2>1. o < Len(m2) /\ m2[o + 1].part = 0
    BY DEF Boundary
  <2>2. CASE o < L
    <3>1. m2[o + 1] = m[o + 1]
      BY <1>1, <2>2
    <3>2. Boundary(m, o) /\ o # Len(m)
      BY <2>1, <2>2, <3>1 DEF Boundary
    <3>3. \E f, k : FrameFrom(m, o, f, k)
      BY <3>2 DEF WholeFrames
    <3> QED BY <1>5, <3>3
  <2>3. CASE o >= L
    <3>1. o - L \in 0..n /\ o + 1 = L + 1 + (o - L)
      BY <1>1, <1>n, <2>1, <2>3
    <3>2. o - L = 0
      BY <1>2, <2>1, <3>1
    <3>3. o = L
      BY <3>2
    <3>e. L + n + 1 = Len(m2) /\ L + n + 1 \in Nat
      BY <1>1, <1>n
    <3>4. Boundary(m2, L + n + 1)
      BY <3>e DEF Boundary
    <3>5. FrameFrom(m2, L, i + 1, n)
      BY <1>1, <1>n, <3>4 DEF FrameFrom
    <3> QED BY <3>3, <3>5
  <2> QED BY <2>2, <2>3
<1>7. \A k \in 1..Len(m2) : \/ k \in 1..L /\ m2[k] = m[k]
                            \/ k > L /\ m2[k].frame = i + 1 /\ (m2[k].part = 0 => k = L + 1)
  <2> TAKE k \in 1..Len(m2)
  <2>1. CASE k <= L
    BY <1>1, <2>1
  <2>2. CASE k > L
    <3>1. k - L - 1 \in 0..n /\ L + 1 + (k - L - 1) = k
      BY <1>1, <1>n, <2>2
    <3>2. m2[k].part = k - L - 1 /\ m2[k].frame = i + 1
      BY <1>2, <3>1
    <3> QED BY <2>2, <3>2
  <2> QED BY <2>1, <2>2
<1>8. \A k \in 1..L : m[k].frame \in Nat /\ m[k].frame <= i
  BY CellFields DEF Until
<1>9. InOrder(m2)
  <2> SUFFICES ASSUME NEW k \in 1..Len(m2), NEW l \in 1..Len(m2), k < l,
                      m2[k].part = 0, m2[l].part = 0
               PROVE  m2[k].frame < m2[l].frame
    BY DEF InOrder
  <2>1. k \in 1..L /\ m2[k] = m[k]
    BY <1>7
  <2>2. CASE l \in 1..L /\ m2[l] = m[l]
    BY <2>1, <2>2 DEF InOrder
  <2>3. CASE m2[l].frame = i + 1
    BY <1>8, <2>1, <2>3
  <2> QED BY <1>7, <2>2, <2>3
<1>10. Until(m2, i + 1)
  <2> SUFFICES ASSUME NEW k \in 1..Len(m2) PROVE m2[k].frame <= i + 1
    BY DEF Until
  <2>1. CASE k \in 1..L /\ m2[k] = m[k]
    BY <1>8, <2>1
  <2>2. CASE m2[k].frame = i + 1
    BY <2>2
  <2> QED BY <1>7, <2>1, <2>2
<1>11. ASSUME NEW o \in Nat, NEW f \in 1..i, Behind(m, o, f)
       PROVE  Behind(m2, o, f)
  <2> SUFFICES ASSUME NEW k \in 1..Len(m2), k > o, m2[k].part = 0 PROVE f < m2[k].frame
    BY DEF Behind
  <2>1. CASE k \in 1..L /\ m2[k] = m[k]
    BY <1>11, <2>1 DEF Behind
  <2>2. CASE m2[k].frame = i + 1
    BY <2>2
  <2> QED BY <1>7, <2>1, <2>2
<1> QED BY <1>1, <1>4, <1>5, <1>6, <1>9, <1>10, <1>11

(* The frame at o came before all that lie behind it, after all that were  *)
(* read, and from the network.                                             *)
LEMMA NextFrame ==
  ASSUME NEW m \in Seq(Cell), InOrder(m), NEW o \in Nat, NEW f, NEW n, FrameFrom(m, o, f, n)
  PROVE  /\ Behind(m, o + 1 + n, f)
         /\ \A g : Behind(m, o, g) => g < f
         /\ \A g : Behind(m, o, g) => Behind(m, o + 1 + n, g)
         /\ \A last \in Nat : Until(m, last) => f \in 1..last
         /\ m[o + 1] = CellOf(f, 0, n + 1) /\ o < Len(m)
<1>1. n \in Nat \ {0} /\ f \in Nat \ {0} /\ Len(m) \in Nat
  BY EthChipAssumption, LenProperties DEF FrameFrom
<1>2. o + n + 1 <= Len(m)
  BY <1>1 DEF FrameFrom, Boundary
<1>3. o + 1 \in 1..Len(m)
  BY <1>1, <1>2
<1>4. m[o + 1] = CellOf(f, 0, n + 1)
  <2>1. m[o + 1 + 0] = CellOf(f, 0, n + 1)
    BY <1>1 DEF FrameFrom
  <2>2. o + 1 + 0 = o + 1
    OBVIOUS
  <2> QED BY <2>1, <2>2
<1>5. m[o + 1].part = 0 /\ m[o + 1].frame = f
  <2>1. n + 1 \in Nat
    BY <1>1
  <2> QED BY <1>1, <1>4, <2>1, CellIs
<1>6. Behind(m, o + 1 + n, f)
  <2> SUFFICES ASSUME NEW k \in 1..Len(m), k > o + 1 + n, m[k].part = 0 PROVE f < m[k].frame
    BY DEF Behind
  <2>1. o + 1 < k
    BY <1>1
  <2>2. m[o + 1].frame < m[k].frame
    BY <1>3, <1>5, <2>1 DEF InOrder
  <2> QED BY <1>5, <2>2
<1>7. \A g : Behind(m, o, g) => g < f
  BY <1>3, <1>5 DEF Behind
<1>8. \A g : Behind(m, o, g) => Behind(m, o + 1 + n, g)
  BY <1>1 DEF Behind
<1>9. \A last \in Nat : Until(m, last) => f \in 1..last
  BY <1>1, <1>3, <1>5 DEF Until
<1> QED BY <1>2, <1>4, <1>1, <1>6, <1>7, <1>8, <1>9

(* What came before everything behind a place came before everything       *)
(* behind a later one.                                                     *)
LEMMA BehindLater ==
  ASSUME NEW m \in Seq(Cell), NEW o \in Nat, NEW p \in Nat, o <= p, NEW f, Behind(m, o, f)
  PROVE  Behind(m, p, f)
  BY LenProperties DEF Behind

(* The memory of a socket that was just opened holds no frame at all.      *)
LEMMA EmptyMemory ==
  ASSUME NEW last \in Nat
  PROVE  /\ <<>> \in Seq(Cell) /\ WholeFrames(<<>>) /\ InOrder(<<>>) /\ Until(<<>>, last)
         /\ Boundary(<<>>, 0) /\ \A f : Behind(<<>>, 0, f)
  BY DEF WholeFrames, InOrder, Until, Boundary, Behind

-----------------------------------------------------------------------------
(* Types                                                                   *)

(* The control variables have their types at the start.                    *)
LEMMA CtlTypesInit == Init => CtlTypes
<1> SUFFICES ASSUME Init PROVE CtlTypes
  OBVIOUS
<1>1. Flags
  BY DEF Init, Flags, ModeBits
<1>2. lnk \in LnkType /\ phy \in PhyType
  BY LnkMoves DEF Init, PhyType
<1>3. used \in Counters
  BY DEF Init, Nothing, Counters
<1>4. FltTypes
  <2>1. FilterIdle \in FltCall /\ InPlace(FilterIdle)
    BY FilterAssumption DEF FilterIdle, FltCall, FltPlaces, DefaultMr, ModeBits, InPlace
  <2>2. flt = [t \in FilterTasks |-> FilterIdle] /\ mcast = 0 /\ groups = 0 /\ promisc = FALSE /\ spoilt = {}
    BY DEF Init, FilterInit
  <2>3. flt \in [FilterTasks -> FltCall] /\ \A t \in FilterTasks : InPlace(flt[t])
    BY <2>1, <2>2
  <2>4. 0 \in 0..(CountSpan - 1)
    BY FilterAssumption
  <2> QED BY <2>2, <2>3, <2>4 DEF FltTypes
<1>5. Ctl
  BY <1>2, <1>3 DEF Init, Ctl, BootPlaces
<1> QED
  BY <1>1, <1>4, <1>5 DEF CtlTypes

(* The steps of a filter call, as what becomes of its record; the calls of *)
(* the other tasks stay as they are.                                       *)
Record(c, p, m, n) == [call |-> c, pc |-> p, mr |-> m, cnt |-> n]

LEMMA RecordTyped ==
  ASSUME NEW c \in FilterCalls \cup {"none"}, NEW p \in FltPlaces, NEW m \in ModeBits,
         NEW n \in 0..(CountSpan - 1), NEW d, d = Record(c, p, m, n)
  PROVE  d \in FltCall /\ d.call = c /\ d.pc = p /\ d.mr = m /\ d.cnt = n
  BY DEF Record, FltCall

LEMMA CallRecord ==
  ASSUME NEW c \in FltCall
  PROVE  /\ c.call \in FilterCalls \cup {"none"} /\ c.pc \in FltPlaces /\ c.mr \in ModeBits
         /\ c.cnt \in 0..(CountSpan - 1)
         /\ \A p \in FltPlaces : [c EXCEPT !.pc = p] = Record(c.call, p, c.mr, c.cnt)
         /\ \A m \in ModeBits : [c EXCEPT !.mr = m, !.pc = "write"] = Record(c.call, "write", m, c.cnt)
         /\ \A n \in 0..(CountSpan - 1), p \in FltPlaces :
              [c EXCEPT !.cnt = n, !.pc = p] = Record(c.call, p, c.mr, n)
<1> USE DEF FltCall, Record
<1>1. /\ c.call \in FilterCalls \cup {"none"} /\ c.pc \in FltPlaces /\ c.mr \in ModeBits
      /\ c.cnt \in 0..(CountSpan - 1)
  OBVIOUS
<1>e. ASSUME NEW d \in FltCall PROVE d = Record(d.call, d.pc, d.mr, d.cnt)
  OBVIOUS
<1>2. \A p \in FltPlaces : [c EXCEPT !.pc = p] = Record(c.call, p, c.mr, c.cnt)
  OBVIOUS
<1>3. ASSUME NEW m \in ModeBits
      PROVE  [c EXCEPT !.mr = m, !.pc = "write"] = Record(c.call, "write", m, c.cnt)
  <2> DEFINE d == [c EXCEPT !.mr = m, !.pc = "write"]
  <2>1. d \in FltCall /\ d.pc = "write" /\ d.call = c.call /\ d.mr = m /\ d.cnt = c.cnt
    BY DEF FltPlaces
  <2> HIDE DEF d
  <2>2. d = Record(c.call, "write", m, c.cnt)
    BY <1>e, <2>1
  <2> QED BY <2>2 DEF d
<1>4. ASSUME NEW n \in 0..(CountSpan - 1), NEW p \in FltPlaces
      PROVE  [c EXCEPT !.cnt = n, !.pc = p] = Record(c.call, p, c.mr, n)
  <2> DEFINE d == [c EXCEPT !.cnt = n, !.pc = p]
  <2>1. d \in FltCall /\ d.pc = p /\ d.call = c.call /\ d.mr = c.mr /\ d.cnt = n
    OBVIOUS
  <2> HIDE DEF d
  <2>2. d = Record(c.call, p, c.mr, n)
    BY <1>e, <2>1
  <2> QED BY <2>2 DEF d
<1> QED BY <1>1, <1>2, <1>3, <1>4

Becomes(t, c) ==
  /\ flt'[t] = c /\ \A u \in FilterTasks \ {t} : flt'[u] = flt[u]
  /\ flt' = [u \in FilterTasks |-> flt'[u]]

LEMMA FltMoves ==
  ASSUME FltTypes, NEW t \in FilterTasks
  PROVE  /\ Ends(t) => Becomes(t, FilterIdle)
         /\ \A p : Goes(t, p) => Becomes(t, [flt[t] EXCEPT !.pc = p])
         /\ \A c, p : flt' = [flt EXCEPT ![t] = [FilterIdle EXCEPT !.call = c, !.pc = p]] =>
                        Becomes(t, Record(c, p, DefaultMr, 0))
         /\ flt' = [flt EXCEPT ![t].mr = mr, ![t].pc = "write"] =>
              Becomes(t, [flt[t] EXCEPT !.mr = mr, !.pc = "write"])
         /\ \A p : flt' = [flt EXCEPT ![t].cnt = mcast, ![t].pc = p] =>
                     Becomes(t, [flt[t] EXCEPT !.cnt = mcast, !.pc = p])
         /\ flt' = [flt EXCEPT ![t].cnt = @ - 1, ![t].pc = "test"] =>
              Becomes(t, [flt[t] EXCEPT !.cnt = @ - 1, !.pc = "test"])
<1> USE DEF FltTypes, Becomes
<1>1. Ends(t) => Becomes(t, FilterIdle)
  BY DEF Ends
<1>2. \A p : Goes(t, p) => Becomes(t, [flt[t] EXCEPT !.pc = p])
  BY DEF Goes
<1>3. \A c, p : flt' = [flt EXCEPT ![t] = [FilterIdle EXCEPT !.call = c, !.pc = p]] =>
                  Becomes(t, Record(c, p, DefaultMr, 0))
  BY DEF FilterIdle, Record
<1>4. flt' = [flt EXCEPT ![t].mr = mr, ![t].pc = "write"] =>
        Becomes(t, [flt[t] EXCEPT !.mr = mr, !.pc = "write"])
  OBVIOUS
<1>5. \A p : flt' = [flt EXCEPT ![t].cnt = mcast, ![t].pc = p] =>
               Becomes(t, [flt[t] EXCEPT !.cnt = mcast, !.pc = p])
  OBVIOUS
<1>6. flt' = [flt EXCEPT ![t].cnt = @ - 1, ![t].pc = "test"] =>
        Becomes(t, [flt[t] EXCEPT !.cnt = @ - 1, !.pc = "test"])
  OBVIOUS
<1> QED BY <1>1, <1>2, <1>3, <1>4, <1>5, <1>6

(* What a filter call leaves alone.                                        *)
LEMMA FilterFootprint ==
  ASSUME NEW t \in FilterTasks, FilterCall(t) \/ FilterTask(t), used \in Counters
  PROVE  /\ UNCHANGED <<sock, simr, phy, wire, notify, ticking, rx, tx, stack, okFrames,
                        badFrames, polled, work, boot>>
         /\ used' \in Counters /\ used'.frames = used.frames /\ used'.sends = used.sends
         /\ used'.faults = 0 => used.faults = 0
<1> USE SpiCounts DEF FilterOnly, macVars, historyVars
<1>1. CASE FilterCall(t)
  BY <1>1 DEF FilterCall, Starts
<1>2. CASE FltRead(t) BY <1>2 DEF FltRead
<1>3. CASE FltWrite(t) BY <1>3 DEF FltWrite
<1>4. CASE FltLoad(t) BY <1>4 DEF FltLoad
<1>5. CASE FltStoreAdd(t) BY <1>5 DEF FltStoreAdd
<1>6. CASE FltStoreDel(t) BY <1>6 DEF FltStoreDel
<1>7. CASE FltTest(t) BY <1>7 DEF FltTest
<1>8. CASE FltZero(t) BY <1>8 DEF FltZero
<1> QED BY <1>1, <1>2, <1>3, <1>4, <1>5, <1>6, <1>7, <1>8 DEF FilterTask

(* What each step of a call makes of its record, field by field.           *)
Fields(t, c, p, m, n) ==
  /\ flt' \in [FilterTasks -> FltCall]
  /\ flt'[t].call = c /\ flt'[t].pc = p /\ flt'[t].mr = m /\ flt'[t].cnt = n
  /\ \A u \in FilterTasks \ {t} : flt'[u] = flt[u]

Ended(t) == Fields(t, "none", "idle", DefaultMr, 0)

Moved(t, p) == Fields(t, flt[t].call, p, flt[t].mr, flt[t].cnt)

LEMMA FltFields ==
  ASSUME FltTypes, mr \in ModeBits, NEW t \in FilterTasks
  PROVE  /\ \A c \in FilterCalls : Starts(t, c) =>
              Fields(t, c, IF c \in {"del", "delOther"} THEN "load" ELSE "read", DefaultMr, 0)
         /\ Ends(t) => Ended(t)
         /\ \A p \in FltPlaces : Goes(t, p) => Moved(t, p)
         /\ FltRead(t) => Ended(t) \/ Fields(t, flt[t].call, "write", mr, flt[t].cnt)
         /\ FltLoad(t) =>
              Fields(t, flt[t].call, IF Counts(flt[t].call) THEN "store" ELSE "test", flt[t].mr, mcast)
         /\ FltStoreDel(t) => Fields(t, "del", "test", flt[t].mr, flt[t].cnt - 1)
<1>t. flt[t] \in FltCall /\ mcast \in 0..(CountSpan - 1) /\ InPlace(flt[t])
  BY DEF FltTypes
<1>c. /\ flt[t].call \in FilterCalls \cup {"none"} /\ flt[t].pc \in FltPlaces
      /\ flt[t].mr \in ModeBits /\ flt[t].cnt \in 0..(CountSpan - 1)
  BY <1>t, CallRecord
<1>d. DefaultMr \in ModeBits /\ 0 \in 0..(CountSpan - 1)
  BY FilterAssumption DEF DefaultMr, ModeBits
<1>p. {"idle", "read", "write", "load", "store", "test", "zero"} = FltPlaces
  BY DEF FltPlaces
<1>r. ASSUME NEW c \in FilterCalls \cup {"none"}, NEW p \in FltPlaces, NEW m \in ModeBits,
             NEW n \in 0..(CountSpan - 1), Becomes(t, Record(c, p, m, n))
      PROVE  Fields(t, c, p, m, n)
  <2>1. /\ flt'[t] = Record(c, p, m, n) /\ \A u \in FilterTasks \ {t} : flt'[u] = flt[u]
        /\ flt' = [u \in FilterTasks |-> flt'[u]]
    BY <1>r DEF Becomes
  <2>2. /\ flt'[t] \in FltCall /\ flt'[t].call = c /\ flt'[t].pc = p /\ flt'[t].mr = m
        /\ flt'[t].cnt = n
    BY <2>1, RecordTyped
  <2>3. \A u \in FilterTasks : flt'[u] \in FltCall
    BY <2>1, <2>2 DEF FltTypes
  <2> QED BY <2>1, <2>2, <2>3 DEF Fields
<1>1. ASSUME NEW c \in FilterCalls, Starts(t, c)
      PROVE  Fields(t, c, IF c \in {"del", "delOther"} THEN "load" ELSE "read", DefaultMr, 0)
  <2> PICK p \in FltPlaces : p = IF c \in {"del", "delOther"} THEN "load" ELSE "read"
    BY <1>p
  <2>1. flt' = [flt EXCEPT ![t] = [FilterIdle EXCEPT !.call = c, !.pc = p]]
    BY <1>1 DEF Starts
  <2>2. Becomes(t, Record(c, p, DefaultMr, 0))
    BY <2>1, FltMoves
  <2>3. Fields(t, c, p, DefaultMr, 0)
    BY <1>d, <1>r, <2>2
  <2> QED BY <2>3
<1>2. ASSUME Ends(t) PROVE Ended(t)
  <2>1. Becomes(t, Record("none", "idle", DefaultMr, 0))
    BY <1>2, FltMoves DEF FilterIdle, Record
  <2> QED BY <1>d, <1>p, <1>r, <2>1 DEF Ended
<1>3. ASSUME NEW p \in FltPlaces, Goes(t, p) PROVE Moved(t, p)
  <2>1. Becomes(t, [flt[t] EXCEPT !.pc = p])
    BY <1>3, FltMoves
  <2>2. Becomes(t, Record(flt[t].call, p, flt[t].mr, flt[t].cnt))
    BY <1>t, <2>1, CallRecord
  <2> QED BY <1>c, <1>r, <2>2 DEF Moved
<1>4. ASSUME FltRead(t) PROVE Ended(t) \/ Fields(t, flt[t].call, "write", mr, flt[t].cnt)
  <2>1. Ends(t) \/ flt' = [flt EXCEPT ![t].mr = mr, ![t].pc = "write"]
    BY <1>4 DEF FltRead
  <2>2. CASE flt' = [flt EXCEPT ![t].mr = mr, ![t].pc = "write"]
    <3>1. Becomes(t, [flt[t] EXCEPT !.mr = mr, !.pc = "write"])
      BY <2>2, FltMoves
    <3>2. Becomes(t, Record(flt[t].call, "write", mr, flt[t].cnt))
      BY <1>t, <3>1, CallRecord
    <3> QED BY <1>c, <1>p, <1>r, <3>2
  <2> QED BY <1>2, <2>1, <2>2
<1>5. ASSUME FltLoad(t)
      PROVE  Fields(t, flt[t].call, IF Counts(flt[t].call) THEN "store" ELSE "test", flt[t].mr, mcast)
  <2> PICK p \in FltPlaces : p = IF Counts(flt[t].call) THEN "store" ELSE "test"
    BY <1>p
  <2>1. flt' = [flt EXCEPT ![t].cnt = mcast, ![t].pc = p]
    BY <1>5 DEF FltLoad
  <2>2. Becomes(t, [flt[t] EXCEPT !.cnt = mcast, !.pc = p])
    BY <2>1, FltMoves
  <2>3. Becomes(t, Record(flt[t].call, p, flt[t].mr, mcast))
    BY <1>t, <2>2, CallRecord
  <2>4. Fields(t, flt[t].call, p, flt[t].mr, mcast)
    BY <1>t, <1>c, <1>r, <2>3
  <2> QED BY <2>4
<1>6. ASSUME FltStoreDel(t) PROVE Fields(t, "del", "test", flt[t].mr, flt[t].cnt - 1)
  <2>1. /\ flt' = [flt EXCEPT ![t].cnt = @ - 1, ![t].pc = "test"]
        /\ flt[t].call = "del" /\ flt[t].pc = "store"
    BY <1>6 DEF FltStoreDel, FltAt
  <2>2. Becomes(t, [flt[t] EXCEPT !.cnt = flt[t].cnt - 1, !.pc = "test"])
    BY <2>1, FltMoves
  <2>3. flt[t].cnt > 0
    BY <1>t, <2>1 DEF InPlace
  <2>4. flt[t].cnt - 1 \in 0..(CountSpan - 1)
    BY <1>c, <2>3, FilterAssumption
  <2> PICK n \in 0..(CountSpan - 1) : n = flt[t].cnt - 1
    BY <2>4
  <2>5. Becomes(t, [flt[t] EXCEPT !.cnt = n, !.pc = "test"])
    BY <2>2
  <2>6. Becomes(t, Record(flt[t].call, "test", flt[t].mr, n))
    BY <1>t, <1>p, <2>5, CallRecord
  <2>7. Fields(t, "del", "test", flt[t].mr, n)
    BY <1>c, <1>p, <1>r, <2>1, <2>6
  <2> QED BY <2>7
<1> QED BY <1>1, <1>2, <1>3, <1>4, <1>5, <1>6

(* Every step of a filter call keeps the types of the filter               *)
(* (emac_w5500_add_mac_filter, emac_w5500_del_mac_filter,                  *)
(* emac_w5500_set_all_multicast, emac_w5500_set_promiscuous).              *)
LEMMA FltTypesStep ==
  ASSUME CtlTypes, NEW t \in FilterTasks, FilterCall(t) \/ FilterTask(t)
  PROVE  FltTypes' /\ mr' \in ModeBits
<1>t. FltTypes /\ mr \in ModeBits /\ flt[t] \in FltCall /\ InPlace(flt[t])
  BY DEF CtlTypes, Flags, FltTypes
<1>c. /\ flt[t].call \in FilterCalls \cup {"none"} /\ flt[t].pc \in FltPlaces
      /\ flt[t].mr \in ModeBits /\ flt[t].cnt \in 0..(CountSpan - 1)
  BY <1>t, CallRecord
<1>n. /\ mcast \in 0..(CountSpan - 1) /\ groups \in Nat /\ promisc \in BOOLEAN
      /\ spoilt \subseteq {"raced", "allMulti", "wrapped"} /\ 0 \in 0..(CountSpan - 1)
  BY <1>t, FilterAssumption DEF FltTypes
<1>f. ASSUME NEW c, NEW p, NEW m, NEW n, Fields(t, c, p, m, n),
             p = "idle" <=> c = "none",
             p = "load" => c \in {"add", "del", "delOther"},
             p = "store" => c = "add" \/ (c = "del" /\ n > 0),
             p = "test" => c \in {"del", "delOther"},
             p = "zero" => c \in {"allOn", "allOff"}
      PROVE  flt' \in [FilterTasks -> FltCall] /\ \A u \in FilterTasks : InPlace(flt'[u])
  <2>1. flt' \in [FilterTasks -> FltCall] /\ \A u \in FilterTasks \ {t} : flt'[u] = flt[u]
    BY <1>f DEF Fields
  <2>2. InPlace(flt'[t])
    BY <1>f DEF Fields, InPlace
  <2> QED BY <1>t, <2>1, <2>2 DEF FltTypes
<1>e. ASSUME Ended(t)
      PROVE  flt' \in [FilterTasks -> FltCall] /\ \A u \in FilterTasks : InPlace(flt'[u])
  BY <1>e, <1>f DEF Ended
<1>p. {"idle", "read", "write", "load", "store", "test", "zero"} = FltPlaces
  BY DEF FltPlaces
<1>1. CASE FilterCall(t)
  <2> PICK c \in FilterCalls : Starts(t, c)
    BY <1>1 DEF FilterCall
  <2>1. Fields(t, c, IF c \in {"del", "delOther"} THEN "load" ELSE "read", DefaultMr, 0)
    BY <1>t, FltFields
  <2>2. flt' \in [FilterTasks -> FltCall] /\ \A u \in FilterTasks : InPlace(flt'[u])
    BY <1>f, <2>1 DEF FilterCalls
  <2>3. groups' \in Nat /\ spoilt' \subseteq {"raced", "allMulti", "wrapped"}
    BY <1>n DEF Starts
  <2>4. UNCHANGED <<mr, mcast, promisc>>
    BY DEF Starts
  <2> QED BY <1>t, <1>n, <2>2, <2>3, <2>4 DEF FltTypes
<1>2. CASE FltRead(t)
  <2>1. Ended(t) \/ Fields(t, flt[t].call, "write", mr, flt[t].cnt)
    BY <1>t, <1>2, FltFields
  <2>2. flt[t].pc = "read" /\ UNCHANGED <<mr, mcast, groups, promisc, spoilt>>
    BY <1>2 DEF FltRead, FltAt
  <2>3. flt' \in [FilterTasks -> FltCall] /\ \A u \in FilterTasks : InPlace(flt'[u])
    BY <1>t, <1>e, <1>f, <2>1, <2>2 DEF InPlace
  <2> QED BY <1>t, <1>n, <2>2, <2>3 DEF FltTypes
<1>3. CASE FltWrite(t)
  <2>1. /\ flt[t].pc = "write" /\ UNCHANGED <<mcast, groups, spoilt>>
        /\ promisc' \in BOOLEAN /\ mr' \in {mr, Edited(t)}
    BY <1>n, <1>3 DEF FltWrite, FltAt
  <2>2. \/ Ends(t)
        \/ flt[t].call \in {"add", "allOn", "allOff"} /\ Goes(t, AfterWrite(flt[t].call))
    BY <1>3 DEF FltWrite
  <2>3. AfterWrite("add") = "load" /\ AfterWrite("allOn") = "zero" /\ AfterWrite("allOff") = "zero"
    BY DEF AfterWrite
  <2>4. \/ Ended(t)
        \/ flt[t].call = "add" /\ Moved(t, "load")
        \/ flt[t].call \in {"allOn", "allOff"} /\ Moved(t, "zero")
    BY <1>t, <1>p, <2>2, <2>3, FltFields
  <2>5. flt' \in [FilterTasks -> FltCall] /\ \A u \in FilterTasks : InPlace(flt'[u])
    BY <1>e, <1>f, <2>4 DEF Moved
  <2>6. Edited(t) \in ModeBits
    BY <1>c DEF Edited, ModeBits
  <2> QED BY <1>t, <1>n, <2>1, <2>5, <2>6 DEF FltTypes
<1>4. CASE FltLoad(t)
  <2>1. Fields(t, flt[t].call, IF Counts(flt[t].call) THEN "store" ELSE "test", flt[t].mr, mcast)
    BY <1>t, <1>4, FltFields
  <2>2. flt[t].pc = "load" /\ UNCHANGED <<mr, mcast, groups, promisc, spoilt>>
    BY <1>4 DEF FltLoad, FltAt
  <2>3. flt[t].call \in {"add", "del", "delOther"}
    BY <1>t, <2>2 DEF InPlace
  <2>4. flt' \in [FilterTasks -> FltCall] /\ \A u \in FilterTasks : InPlace(flt'[u])
    BY <1>f, <2>1, <2>3 DEF Counts
  <2> QED BY <1>t, <1>n, <2>2, <2>4 DEF FltTypes
<1>5. CASE FltStoreAdd(t)
  <2>1. Ended(t)
    BY <1>t, <1>5, FltFields DEF FltStoreAdd
  <2>2. UNCHANGED <<mr, promisc>> /\ groups' = groups + 1
    BY <1>5 DEF FltStoreAdd
  <2>3. mcast' \in 0..(CountSpan - 1)
    BY <1>c, <1>5, FilterAssumption DEF FltStoreAdd
  <2>4. spoilt' \subseteq {"raced", "allMulti", "wrapped"}
    BY <1>n, <1>5 DEF FltStoreAdd
  <2> QED BY <1>t, <1>n, <1>e, <2>1, <2>2, <2>3, <2>4 DEF FltTypes
<1>6. CASE FltStoreDel(t)
  <2>1. Fields(t, "del", "test", flt[t].mr, flt[t].cnt - 1)
    BY <1>t, <1>6, FltFields
  <2>2. /\ flt[t].call = "del" /\ flt[t].pc = "store" /\ mcast' = flt[t].cnt - 1
        /\ UNCHANGED <<mr, groups, promisc, spoilt>>
    BY <1>6 DEF FltStoreDel, FltAt
  <2>3. mcast' \in 0..(CountSpan - 1)
    BY <1>t, <1>c, <2>2, FilterAssumption DEF InPlace
  <2>4. flt' \in [FilterTasks -> FltCall] /\ \A u \in FilterTasks : InPlace(flt'[u])
    BY <1>f, <2>1
  <2> QED BY <1>t, <1>n, <2>2, <2>3, <2>4 DEF FltTypes
<1>7. CASE FltTest(t)
  <2>1. Goes(t, "read") \/ Ends(t)
    BY <1>7 DEF FltTest
  <2>2. Moved(t, "read") \/ Ended(t)
    BY <1>t, <1>p, <2>1, FltFields
  <2>3. flt[t].pc = "test" /\ UNCHANGED <<mr, mcast, groups, promisc, spoilt>>
    BY <1>7 DEF FltTest, FltAt
  <2>4. flt' \in [FilterTasks -> FltCall] /\ \A u \in FilterTasks : InPlace(flt'[u])
    BY <1>t, <1>e, <1>f, <2>2, <2>3 DEF Moved, InPlace
  <2> QED BY <1>t, <1>n, <2>3, <2>4 DEF FltTypes
<1>8. CASE FltZero(t)
  <2>1. Ended(t)
    BY <1>t, <1>8, FltFields DEF FltZero
  <2>2. mcast' = 0 /\ UNCHANGED <<mr, groups, promisc, spoilt>>
    BY <1>8 DEF FltZero
  <2> QED BY <1>t, <1>n, <1>e, <2>1, <2>2 DEF FltTypes
<1> QED BY <1>1, <1>2, <1>3, <1>4, <1>5, <1>6, <1>7, <1>8 DEF FilterTask

(* A step that leaves the filter alone keeps its types.                    *)
LEMMA FltTypesSame == FltTypes /\ UNCHANGED filterVars => FltTypes'
  BY DEF FltTypes, filterVars

(* Every step of the driver keeps the types of the control variables.      *)
LEMMA CtlTypesStep == CtlTypes /\ [Next]_ethVars => CtlTypes'
<1> SUFFICES ASSUME CtlTypes, [Next]_ethVars PROVE CtlTypes'
  OBVIOUS
<1>t. Flags /\ Ctl
  BY DEF CtlTypes
<1>u. used \in Counters
  BY <1>t DEF Ctl
<1>s. FltTypes'
  <2>1. \/ \E t \in FilterTasks : FilterCall(t) \/ FilterTask(t)
        \/ UNCHANGED filterVars
    BY DEF Next, Receive, Install, PhySteps, NetFrame, NetSent, CableIn, CableOut, PollTimer,
       Transmit, DriverSame, ethVars
  <2> QED BY <2>1, FltTypesStep, FltTypesSame DEF CtlTypes
<1> SUFFICES Flags' /\ Ctl'
  BY <1>s DEF CtlTypes
<1>1. CASE RxTask /\ UNCHANGED phyDrvVars
  <2>1. notify' \in BOOLEAN
    BY <1>t, <1>1 DEF Flags, RxTask, RxWake, RxStatus, RxClear, RxSizeRead, RxHead, RxNoMem,
       RxPayload, RxSetRd, RxRecv, RxFlush, RxFlushRecv
  <2> QED
    BY <1>t, <1>u, <1>1, <2>1, RxFootprint DEF CtlTypes, Flags, Ctl, phyDrvVars
<1>2. CASE TxTask /\ UNCHANGED phyDrvVars
  BY <1>t, <1>u, <1>2, TxFootprint DEF CtlTypes, Flags, Ctl, phyDrvVars
<1>3. CASE MacInit /\ UNCHANGED phyDrvVars
  <2>1. Flags'
    BY <1>t, <1>3, InitFootprint DEF Flags, phyDrvVars
  <2>2. Ctl'
    BY <1>t, <1>3, InitFootprint DEF Ctl, phyDrvVars, BootPlaces
  <2> QED
    BY <2>1, <2>2
<1>4. CASE PhyInit
  <2>1. phy' \in PhyType /\ used' \in Counters
    BY <1>t, <1>4, PhyMoves, SpiCounts DEF PhyInit, Ctl
  <2>2. boot' \in BootPlaces /\ running' \in BOOLEAN
    BY <1>4 DEF PhyInit, BootPlaces, NextBoot, Restart
  <2> QED
    BY <1>t, <1>4, <2>1, <2>2 DEF PhyInit, BootOnly, CtlTypes, Flags, Ctl
<1>5. CASE PhyTask
  <2> USE <1>t, <1>u, SpiCounts, LnkMoves DEF CtlTypes, Flags, Ctl, LnkOnly, PhyOnly,
          LnkAt, LnkPlaces, Fails, Reported
  <2>1. CASE MacOpen BY <2>1 DEF MacOpen
  <2>2. CASE MacUnmask BY <2>2 DEF MacUnmask, Isr
  <2>3. CASE StartTimer
    <3>a. lnk' \in LnkType
      BY <2>3 DEF StartTimer
    <3>b. events' = events \/ events' = Append(events, lnk.up)
      BY <2>3 DEF StartTimer
    <3>1. lnk' \in LnkType /\ events' \in Seq(BOOLEAN)
      BY <3>a, <3>b, AppendTyped
    <3>2. linkStatus' \in BOOLEAN /\ ticking' \in BOOLEAN
      BY <2>3 DEF StartTimer
    <3> QED BY <2>3, <3>1, <3>2 DEF StartTimer
  <2>4. CASE MacMask BY <2>4 DEF MacMask
  <2>5. CASE MacClose BY <2>5 DEF MacClose
  <2>6. CASE StopTimer
    <3>a. lnk' \in LnkType
      BY <2>6 DEF StopTimer
    <3>b. events' = events \/ events' = Append(events, lnk.up)
      BY <2>6 DEF StopTimer
    <3>1. lnk' \in LnkType /\ events' \in Seq(BOOLEAN)
      BY <3>a, <3>b, AppendTyped
    <3>2. linkStatus' \in BOOLEAN /\ ticking' \in BOOLEAN
      BY <2>6 DEF StopTimer
    <3> QED BY <2>6, <3>1, <3>2 DEF StopTimer
  <2>7. CASE PhyRelease BY <2>7, PhyMoves DEF PhyRelease
  <2> QED BY <1>5, <2>1, <2>2, <2>3, <2>4, <2>5, <2>6, <2>7 DEF PhyTask
<1>6. CASE GetLink
  BY <1>t, <1>u, <1>6, SpiCounts, LnkMoves, PhyMoves
     DEF GetLink, CtlTypes, Flags, Ctl, LnkOnly, LnkPlaces
<1>7. CASE SetLinkDown
  BY <1>t, <1>u, <1>7, OtherCounts, LnkMoves
     DEF SetLinkDown, CtlTypes, Flags, Ctl, LnkOnly, LnkPlaces
<1>h. ASSUME NEW m \in {"all", "forced"}, HoldInReset(m), running' \in BOOLEAN
      PROVE  Flags' /\ Ctl'
  BY <1>t, <1>u, <1>h, SpiCounts, LnkMoves, PhyMoves
     DEF HoldInReset, CtlTypes, Flags, Ctl, LnkOnly, PhyOnly, LnkPlaces
<1>8. CASE StartDriver
  <2>1. CASE phy.opmode = "all"
    BY <1>8, <1>h, <2>1 DEF StartDriver
  <2>2. CASE phy.opmode # "all"
    BY <1>t, <1>8, <2>2 DEF StartDriver, CtlTypes, Flags, Ctl, LnkOnly, PhyOnly
  <2> QED BY <2>1, <2>2
<1>9. CASE Configure
  <2>1. CASE PhyReset
    BY <1>t, <2>1, <1>h, PhyMoves DEF PhyReset, Flags, Ctl
  <2>2. CASE PhySetMode
    BY <1>t, <2>2, <1>h DEF PhySetMode, Flags
  <2>3. ASSUME NEW m \in {"all", "forced"}, PhyAutonego(m)
        PROVE  Flags' /\ Ctl'
    BY <1>t, <1>u, <2>3, SpiCounts, PhyMoves DEF PhyAutonego, CtlTypes, Flags, Ctl, LnkOnly, PhyOnly
  <2> QED
    BY <1>9, <2>1, <2>2, <2>3 DEF Configure, PhyAutonegoEn, PhyAutonegoDis
<1>10. CASE EthEvent
  BY <1>t, <1>10 DEF EthEvent, CtlTypes, Flags, Ctl, LnkOnly
<1>11. ASSUME NEW t \in FilterTasks, FilterCall(t) \/ FilterTask(t), UNCHANGED phyDrvVars
       PROVE  Flags' /\ Ctl'
  <2>1. mr' \in ModeBits
    BY <1>11, FltTypesStep
  <2>2. /\ UNCHANGED <<sock, simr, phy, wire, notify, ticking, rx, tx, stack, polled, work, boot>>
        /\ used' \in Counters
    BY <1>u, <1>11, FilterFootprint
  <2> QED BY <1>t, <1>11, <2>1, <2>2 DEF Flags, Ctl, phyDrvVars
<1>12. CASE NetFrame
  BY <1>t, <1>u, <1>12, EnvCounts
     DEF NetFrame, FrameArrives, Isr, DriverSame, phyDrvVars, CtlTypes, Flags, Ctl
<1>13. CASE NetSent \/ PollTimer
  <2>1. Flags'
    BY <1>t, <1>13 DEF NetSent, FrameSent, PollTimer, DriverSame, ethChipVars, phyDrvVars, Flags
  <2>2. Ctl'
    BY <1>t, <1>13 DEF NetSent, FrameSent, PollTimer, DriverSame, ethChipVars, phyDrvVars, Ctl
  <2> QED
    BY <2>1, <2>2
<1>16. CASE CableIn \/ CableOut
  <2>1. phy' \in PhyType
    BY <1>t, <1>16, PhyMoves DEF CableIn, LinkUp, CableOut, LinkDown, Ctl
  <2>2. used' \in Counters
    BY <1>u, <1>16, EnvCounts DEF CableIn, CableOut
  <2> QED
    BY <1>t, <1>16, <2>1, <2>2
       DEF CableIn, LinkUp, CableOut, LinkDown, DriverSame, ethChipVars, phyDrvVars, CtlTypes, Flags, Ctl
<1>14. CASE Transmit
  BY <1>t, <1>u, <1>14, EnvCounts DEF Transmit, ethChipVars, phyDrvVars, CtlTypes, Flags, Ctl
<1>15. CASE UNCHANGED ethVars
  BY <1>t, <1>15 DEF ethVars, ethChipVars, macVars, phyDrvVars, CtlTypes, Flags, Ctl
<1> QED
  BY <1>1, <1>2, <1>3, <1>4, <1>5, <1>6, <1>7, <1>8, <1>9, <1>10, <1>11, <1>12, <1>13,
     <1>14, <1>15, <1>16 DEF Next, Receive, Install, PhySteps

(* The records have their fields at the start.                             *)
LEMMA ShapesInit == Init => Shapes
  BY DEF Init, Shapes, Shaped, SockFields, RxFields, TxFields, EmptySock, RxIdle, TxIdle

(* Every step leaves the records with their fields.                        *)
LEMMA ShapesStep == CtlTypes /\ Shapes /\ [Next]_ethVars => Shapes'
<1> SUFFICES ASSUME CtlTypes, Shapes, [Next]_ethVars PROVE Shapes'
  OBVIOUS
<1>u. used \in Counters
  BY DEF CtlTypes, Ctl
<1>1. CASE RxTask
  BY <1>1, RxSock
<1>2. CASE TxTask
  BY <1>2, TxSock
<1>3. CASE MacInit
  BY <1>3, InitFootprint, SockOpenClose DEF Shapes
<1>4. CASE PhyTask
  <2> USE SockOpenClose DEF Shapes, LnkOnly, PhyOnly
  <2>1. CASE MacOpen BY <2>1 DEF MacOpen
  <2>2. CASE MacUnmask BY <2>2 DEF MacUnmask
  <2>3. CASE StartTimer BY <2>3 DEF StartTimer
  <2>4. CASE MacMask BY <2>4 DEF MacMask
  <2>5. CASE MacClose BY <2>5 DEF MacClose
  <2>6. CASE StopTimer BY <2>6 DEF StopTimer
  <2>7. CASE PhyRelease BY <2>7 DEF PhyRelease
  <2> QED BY <1>4, <2>1, <2>2, <2>3, <2>4, <2>5, <2>6, <2>7 DEF PhyTask
<1>5. CASE PhyInit \/ GetLink \/ SetLinkDown \/ StartDriver \/ Configure
           \/ EthEvent \/ CableIn \/ CableOut \/ PollTimer
           \/ UNCHANGED ethVars
  <2>1. UNCHANGED <<sock, rx, tx>>
    BY <1>5 DEF PhyInit, BootOnly, GetLink, SetLinkDown, LnkOnly, StartDriver, Configure,
       HoldInReset, PhyReset, PhySetMode, PhyAutonego, PhyAutonegoEn, PhyAutonegoDis, PhyOnly,
       EthEvent, CableIn, CableOut, LinkUp, LinkDown, PollTimer, DriverSame, ethVars, ethChipVars, macVars
  <2> QED BY <2>1 DEF Shapes, Shaped
<1>6. CASE NetFrame
  BY <1>6 DEF NetFrame, FrameArrives, DriverSame, Shapes, Shaped, SockFields
<1>7. CASE NetSent
  BY <1>7, SockSending DEF NetSent, FrameSent, DriverSame, Shapes
<1>8. CASE Transmit
  BY <1>8 DEF Transmit, ethChipVars, Shapes, Shaped, TxFields
<1>9. ASSUME NEW t \in FilterTasks, FilterCall(t) \/ FilterTask(t) PROVE Shapes'
  <2>1. UNCHANGED <<sock, rx, tx>>
    BY <1>u, <1>9, FilterFootprint
  <2> QED BY <2>1 DEF Shapes, Shaped
<1> QED
  BY <1>1, <1>2, <1>3, <1>4, <1>5, <1>6, <1>7, <1>8, <1>9 DEF Next, Receive, Install, PhySteps

-----------------------------------------------------------------------------
(* The installation                                                        *)

(* Until the driver is up nothing runs but the installation; the receive   *)
(* filter is as w5500_setup_default leaves it once that has been through.  *)
Installing ==
  ~Up =>
    /\ sock = EmptySock /\ ~simr /\ rx.pc = "wait" /\ tx.pc = "idle" /\ lnk = LnkIdle
    /\ ~notify /\ ~ticking /\ ~linkStatus /\ ~running /\ ~connected /\ events = <<>>
    /\ mcast = 0 /\ groups = 0 /\ ~promisc /\ spoilt = {} /\ Resting
    /\ boot \in {"phy", "start"} => mr = DefaultMr

(* Every step keeps that: only PhyInit ends the installation, and nothing  *)
(* else is enabled before it has.                                          *)
LEMMA InstallingStep == CtlTypes /\ Installing /\ [Next]_ethVars => Installing'
<1> SUFFICES ASSUME CtlTypes, Installing, [Next]_ethVars, ~Up' PROVE Installing'
  BY DEF Installing
<1>r. ASSUME Resting, UNCHANGED flt PROVE Resting'
  BY <1>r DEF Resting, FltAt
<1> USE DEF Installing, Up
<1>1. CASE MacInit /\ UNCHANGED <<phyDrvVars, filterVars>>
  <2>1. ~Up /\ UNCHANGED flt
    BY <1>1, InitFootprint DEF filterVars
  <2>2. Resting'
    BY <1>r, <2>1
  <2> QED BY <1>1, <2>1, <2>2, InitFootprint DEF phyDrvVars, filterVars
<1>2. CASE PhyInit /\ UNCHANGED filterVars
  <2>1. ~Up /\ UNCHANGED flt
    BY <1>2 DEF PhyInit, NextBoot, filterVars
  <2>2. Resting'
    BY <1>r, <2>1
  <2> QED BY <1>2, <2>1, <2>2 DEF PhyInit, BootOnly, Restart, NextBoot, filterVars
<1>o. ASSUME boot' = boot PROVE boot # "up"
  BY <1>o
<1>3. CASE RxTask \/ TxTask
  BY <1>3, <1>o DEF RxTask, RxOnly, RxAt, RxWake, IntLow, RxStatus, RxClear, RxSizeRead, RxHead, RxNoMem,
     RxPayload, RxSetRd, RxRecv, RxFlush, RxFlushRecv,
     TxTask, TxOnly, TxAt, TxWrite, TxSend, TxGivesUp, TxPoll, TxAck
<1>f. LnkIdle.pc = "idle" /\ EmptySock.sr = "CLOSED" /\ EmptySock.sendQ = <<>>
  BY DEF LnkIdle, EmptySock
<1>4. CASE PhyTask
  <2>1. lnk.pc # "idle" /\ boot' = boot
    BY <1>4 DEF PhyTask, LnkOnly, PhyOnly, LnkAt, MacOpen, MacUnmask, StartTimer,
       MacMask, MacClose, StopTimer, PhyRelease
  <2> QED BY <1>f, <1>o, <2>1
<1>7. CASE GetLink \/ SetLinkDown \/ StartDriver \/ Configure \/ EthEvent
  <2>1. running \/ Up \/ events # <<>>
    BY <1>7 DEF GetLink, SetLinkDown, StartDriver, Stopped, Configure,
       PhyReset, PhySetMode, PhyAutonego, PhyAutonegoEn, PhyAutonegoDis, EthEvent
  <2>2. boot' = boot
    BY <1>7 DEF GetLink, SetLinkDown, StartDriver, Configure, HoldInReset, LnkOnly, PhyOnly,
       PhyReset, PhySetMode, PhyAutonego, PhyAutonegoEn, PhyAutonegoDis, EthEvent
  <2> QED BY <1>o, <2>1, <2>2
<1>8. ASSUME NEW t \in FilterTasks, FilterCall(t) \/ FilterTask(t) PROVE Installing'
  <2>1. boot' = boot
    BY <1>8, FilterFootprint DEF CtlTypes, Ctl
  <2>2. CASE FilterCall(t)
    BY <1>o, <2>1, <2>2 DEF FilterCall
  <2>3. CASE FilterTask(t)
    <3>1. ~FltAt(t, "idle")
      BY <2>3 DEF FilterTask, FltRead, FltWrite, FltLoad, FltStoreAdd, FltStoreDel, FltTest,
         FltZero, FltAt
    <3> QED BY <1>o, <2>1, <3>1 DEF Resting
  <2> QED BY <1>8, <2>2, <2>3
<1>5. CASE NetFrame \/ NetSent \/ PollTimer \/ Transmit
  <2>1. Up \/ sock.sr = "MACRAW" \/ sock.sendQ # <<>> \/ ticking \/ running
    BY <1>5 DEF NetFrame, FrameArrives,
       NetSent, FrameSent, PollTimer, Transmit
  <2>2. boot' = boot
    BY <1>5 DEF NetFrame, NetSent, PollTimer, Transmit, DriverSame
  <2> QED BY <1>f, <1>o, <2>1, <2>2
<1>6. CASE CableIn \/ CableOut \/ UNCHANGED ethVars
  <2>1. UNCHANGED <<flt, boot>> /\ ~Up
    BY <1>6, <1>o DEF CableIn, CableOut, DriverSame, filterVars, ethVars
  <2>2. Resting'
    BY <1>r, <2>1
  <2> QED
    BY <1>6, <2>1, <2>2 DEF CableIn, CableOut, LinkUp, LinkDown, DriverSame, phyDrvVars, filterVars,
       ethVars, ethChipVars, macVars
<1> QED
  BY <1>1, <1>2, <1>3, <1>4, <1>5, <1>6, <1>7, <1>8 DEF Next, Receive, Install, PhySteps

-----------------------------------------------------------------------------
(* The multicast filter                                                    *)

(* While no two calls have overlapped, the call in progress is the only    *)
(* one and its copy of Sn_MR is up to date; the MAC filter is off exactly  *)
(* in promiscuous mode.                                                    *)
Alone ==
  "raced" \notin spoilt =>
    /\ \A t, u \in FilterTasks : FltAt(t, "idle") \/ FltAt(u, "idle") \/ t = u
    /\ \A t \in FilterTasks : FltAt(t, "write") => flt[t].mr = mr
    /\ Up => mr.filter = ~promisc

Heard ==
  /\ groups > 0 => ~mr.block
  /\ groups = 0 /\ used.faults = 0 => mr.block

(* In a call: how far mcast_cnt and the block are behind the groups.  A    *)
(* group that is left is counted until the store; one that is joined is    *)
(* not counted, but no longer blocked, before it.                          *)
Leaves(t) ==
  /\ flt[t].pc \in {"load", "store"} => mcast = groups + 1 /\ ~mr.block
  /\ FltAt(t, "test") => mcast = groups /\ ~mr.block
  /\ flt[t].pc \in {"read", "write"} => mcast = 0 /\ groups = 0

Keeps(t) ==
  /\ mcast = groups
  /\ IF flt[t].call = "add" /\ flt[t].pc \in {"load", "store"} THEN ~mr.block ELSE Heard
  /\ flt[t].call = "delOther" /\ flt[t].pc \in {"read", "write"} => groups = 0

Midway(t) ==
  /\ IF flt[t].call = "del" THEN Leaves(t) ELSE Keeps(t)
  /\ flt[t].pc \in {"store", "test"} => flt[t].cnt = mcast

(* The inductive form of GroupsHeard.                                      *)
Filter ==
  spoilt = {} =>
    /\ groups < CountSpan
    /\ \A t \in FilterTasks : flt[t].call \notin {"allOn", "allOff"}
    /\ Up /\ Resting => mcast = groups /\ Heard
    /\ \A t \in FilterTasks : ~FltAt(t, "idle") => Midway(t)

(* A step that is not one of a filter call leaves the filter as it is, or  *)
(* is part of the installation.                                            *)
LEMMA FilterAway ==
  ASSUME CtlTypes, Installing, [Next]_ethVars
  PROVE  \/ \E t \in FilterTasks : FilterCall(t) \/ FilterTask(t)
         \/ /\ UNCHANGED <<filterVars, mr, boot>>
            /\ used'.faults = 0 => used.faults = 0
         \/ UNCHANGED filterVars /\ ~Up /\ (Up' => mr' = DefaultMr)
<1>t. used \in Counters /\ used.faults \in Nat
  BY OtherCounts DEF CtlTypes, Ctl
<1>1. CASE Install
  BY <1>1, InitFootprint DEF Install, Up
<1>2. CASE PhyInit /\ UNCHANGED filterVars
  BY <1>2 DEF PhyInit, BootOnly, Installing, Up, NextBoot, Restart
<1>3. CASE (RxTask \/ TxTask) /\ UNCHANGED filterVars
  BY <1>3, <1>t, RxFootprint, TxFootprint
<1>4. CASE PhySteps
  <2>1. UNCHANGED <<filterVars, mr, boot>>
    BY <1>4 DEF PhySteps, PhyTask, MacOpen, MacUnmask, StartTimer, MacMask, MacClose, StopTimer,
       PhyRelease, LnkOnly, PhyOnly
  <2>2. (\E r : Spi(r)) \/ used' = used
    BY <1>4 DEF PhySteps, PhyTask, MacOpen, MacUnmask, StartTimer, MacMask, MacClose, StopTimer,
       PhyRelease
  <2> QED
    BY <1>t, <2>1, <2>2, SpiCounts
<1>5. CASE (GetLink \/ SetLinkDown \/ StartDriver \/ Configure \/ EthEvent) /\ UNCHANGED filterVars
  <2>1. UNCHANGED <<mr, boot>>
    BY <1>5 DEF GetLink, SetLinkDown, StartDriver, Configure, HoldInReset, PhyReset, PhySetMode,
       PhyAutonego, PhyAutonegoEn, PhyAutonegoDis, EthEvent, LnkOnly, PhyOnly
  <2>2. (\E r : Spi(r)) \/ used' = used \/ used' = [used EXCEPT !.stops = @ + 1]
    BY <1>5 DEF GetLink, SetLinkDown, StartDriver, Configure, HoldInReset, PhyReset, PhySetMode,
       PhyAutonego, PhyAutonegoEn, PhyAutonegoDis, EthEvent
  <2> QED
    BY <1>t, <1>5, <2>1, <2>2, SpiCounts, OtherCounts
<1>6. CASE NetFrame \/ NetSent \/ CableIn \/ CableOut \/ PollTimer \/ Transmit
  <2>1. UNCHANGED <<filterVars, mr, boot>>
    BY <1>6 DEF NetFrame, FrameArrives, NetSent, FrameSent, CableIn, CableOut, LinkUp, LinkDown,
       PollTimer, Transmit, DriverSame, ethChipVars
  <2>2. used'.faults = used.faults
    BY <1>6, <1>t, EnvCounts DEF NetFrame, NetSent, CableIn, CableOut, PollTimer, Transmit
  <2> QED BY <2>1, <2>2
<1>7. CASE UNCHANGED ethVars
  BY <1>7 DEF ethVars, ethChipVars, macVars
<1> QED
  BY <1>1, <1>2, <1>3, <1>4, <1>5, <1>6, <1>7 DEF Next, Receive

(* A call starts when its task is in none, and is marked when another task *)
(* is in one.                                                              *)
LEMMA FilterStarts ==
  ASSUME NEW t \in FilterTasks
  PROVE  /\ FilterTask(t) => ~FltAt(t, "idle")
         /\ FilterCall(t) => FltAt(t, "idle") /\ (~Resting => "raced" \in spoilt')
         /\ FilterCall(t) \/ FilterTask(t) => spoilt \subseteq spoilt'
<1>1. FilterTask(t) => ~FltAt(t, "idle")
  BY DEF FltAt, FilterTask, FltRead, FltWrite, FltLoad, FltStoreAdd, FltStoreDel, FltTest, FltZero
<1>2. FilterCall(t) => FltAt(t, "idle") /\ (~Resting => "raced" \in spoilt')
  BY DEF FilterCall, Starts
<1>3. FilterCall(t) \/ FilterTask(t) => spoilt \subseteq spoilt'
  BY DEF FilterCall, Starts, FilterTask, FltRead, FltWrite, FltLoad, FltStoreAdd, FltStoreDel,
     FltTest, FltZero
<1> QED BY <1>1, <1>2, <1>3

(* What every step of a call does to its record.                           *)
LEMMA FilterMoves ==
  ASSUME CtlTypes, NEW t \in FilterTasks, FilterCall(t) \/ FilterTask(t)
  PROVE  /\ \E c, p, m, n : Fields(t, c, p, m, n)
         /\ flt'[t].pc = "write" => flt'[t].mr = mr /\ FltRead(t)
<1>t. FltTypes /\ mr \in ModeBits /\ {"idle", "read", "load", "zero"} \subseteq FltPlaces
  BY DEF CtlTypes, Flags, FltPlaces
<1>f. ASSUME NEW d, NEW q, NEW l, NEW k, Fields(t, d, q, l, k),
             q = "write" => l = mr /\ FltRead(t)
      PROVE  /\ \E c, p, m, n : Fields(t, c, p, m, n)
             /\ flt'[t].pc = "write" => flt'[t].mr = mr /\ FltRead(t)
  BY <1>f DEF Fields
<1>1. ASSUME NEW e \in FilterCalls, Starts(t, e)
      PROVE  /\ \E c, p, m, n : Fields(t, c, p, m, n)
             /\ flt'[t].pc = "write" => flt'[t].mr = mr /\ FltRead(t)
  <2>1. Fields(t, e, IF e \in {"del", "delOther"} THEN "load" ELSE "read", DefaultMr, 0)
    BY <1>t, <1>1, FltFields
  <2> QED BY <1>f, <2>1
<1>2. CASE FilterTask(t)
  <2> USE <1>t, <1>f, FltFields DEF Ended, Moved
  <2>1. CASE FltRead(t) BY <2>1
  <2>2. CASE FltWrite(t)
    <3>1. \/ Ends(t)
          \/ flt[t].call \in {"add", "allOn", "allOff"} /\ Goes(t, AfterWrite(flt[t].call))
      BY <2>2 DEF FltWrite
    <3>2. AfterWrite("add") = "load" /\ AfterWrite("allOn") = "zero" /\ AfterWrite("allOff") = "zero"
      BY DEF AfterWrite
    <3>3. Ended(t) \/ Moved(t, "load") \/ Moved(t, "zero")
      BY <3>1, <3>2
    <3> QED BY <3>3
  <2>3. CASE FltLoad(t) BY <2>3
  <2>4. CASE FltStoreAdd(t) BY <2>4 DEF FltStoreAdd
  <2>5. CASE FltStoreDel(t) BY <2>5
  <2>6. CASE FltTest(t)
    <3>1. Ends(t) \/ Goes(t, "read")
      BY <2>6 DEF FltTest
    <3>2. Ended(t) \/ Moved(t, "read")
      BY <3>1
    <3> QED BY <3>2
  <2>7. CASE FltZero(t) BY <2>7 DEF FltZero
  <2> QED BY <1>2, <2>1, <2>2, <2>3, <2>4, <2>5, <2>6, <2>7 DEF FilterTask
<1> QED BY <1>1, <1>2 DEF FilterCall

(* Every step keeps that: a call that has the filter for itself writes     *)
(* back what it has read (emac_w5500_set_promiscuous,                      *)
(* emac_w5500_set_block_ip4_mcast).                                        *)
LEMMA AloneStep ==
  CtlTypes /\ Installing /\ Installing' /\ Alone /\ [Next]_ethVars => Alone'
<1> SUFFICES ASSUME CtlTypes, Installing, Installing', Alone, [Next]_ethVars,
                    "raced" \notin spoilt'
             PROVE  /\ \A t, u \in FilterTasks : FltAt(t, "idle")' \/ FltAt(u, "idle")' \/ t = u
                    /\ \A t \in FilterTasks : FltAt(t, "write")' => flt'[t].mr = mr'
                    /\ Up' => mr'.filter = ~promisc'
  BY DEF Alone
<1>1. CASE UNCHANGED <<filterVars, mr, boot>>
  BY <1>1 DEF Alone, filterVars, FltAt, Up
<1>2. CASE UNCHANGED filterVars /\ ~Up /\ (Up' => mr' = DefaultMr)
  <2>1. promisc' = FALSE /\ \A t \in FilterTasks : FltAt(t, "idle")'
    BY <1>2 DEF Installing, Resting, FltAt, filterVars, CtlTypes, FltTypes
  <2>2. \A t \in FilterTasks : ~FltAt(t, "write")'
    BY <2>1 DEF FltAt
  <2>3. Up' => mr'.filter = ~promisc'
    <3>1. Up' => mr'.filter = TRUE
      BY <1>2 DEF DefaultMr
    <3>2. (~promisc') = TRUE
      BY <2>1
    <3> QED BY <3>1, <3>2
  <2> QED BY <2>1, <2>2, <2>3
<1>3. ASSUME NEW t \in FilterTasks, FilterCall(t) \/ FilterTask(t)
      PROVE  /\ \A v, u \in FilterTasks : FltAt(v, "idle")' \/ FltAt(u, "idle")' \/ v = u
             /\ \A u \in FilterTasks : FltAt(u, "write")' => flt'[u].mr = mr'
             /\ Up' => mr'.filter = ~promisc'
  <2>t. FltTypes /\ mr \in ModeBits /\ InPlace(flt[t]) /\ {"load", "zero", "read"} \subseteq FltPlaces
    BY DEF CtlTypes, Flags, FltTypes, FltPlaces
  <2>1. "raced" \notin spoilt /\ \A u \in FilterTasks \ {t} : flt[u].pc = "idle"
    BY <1>3, FilterStarts DEF Alone, Resting, FltAt
  <2>2. \A u \in FilterTasks \ {t} : flt'[u].pc = "idle"
    BY <1>3, <2>1, FilterMoves DEF Fields
  <2>3. boot' = boot
    BY <1>3, FilterFootprint DEF CtlTypes, Ctl
  <2>4. flt'[t].pc = "write" => flt'[t].mr = mr'
    BY <1>3, FilterMoves DEF FltRead
  <2>5. Up => mr'.filter = ~promisc'
    <3>1. CASE FltWrite(t)
      <4>1. flt[t].pc = "write" /\ flt[t].call # "none"
        BY <2>t, <3>1 DEF FltWrite, FltAt, InPlace
      <4>2. flt[t].mr = mr /\ (Up => mr.filter = ~promisc)
        BY <2>1, <4>1 DEF Alone, FltAt
      <4>3. flt[t].call \in FilterCalls
        BY <2>t, <4>1, CallRecord DEF FltTypes
      <4>4. Edited(t).filter = IF flt[t].call \in {"promiscOn", "promiscOff"}
                               THEN flt[t].call = "promiscOff" ELSE mr.filter
        BY <2>t, <4>2, <4>3 DEF Edited, FilterCalls, ModeBits
      <4>5. \/ mr' = mr /\ promisc' = promisc
            \/ /\ mr' = Edited(t)
               /\ promisc' = IF flt[t].call \in {"promiscOn", "promiscOff"}
                             THEN flt[t].call = "promiscOn" ELSE promisc
        BY <3>1 DEF FltWrite
      <4>6. CASE mr' = mr /\ promisc' = promisc
        BY <4>2, <4>6
      <4>7. CASE flt[t].call \in {"promiscOn", "promiscOff"} /\ mr' = Edited(t)
                 /\ promisc' = (flt[t].call = "promiscOn")
        <5>1. CASE flt[t].call = "promiscOn" BY <4>4, <4>7, <5>1
        <5>2. CASE flt[t].call = "promiscOff" BY <4>4, <4>7, <5>2
        <5> QED BY <4>7, <5>1, <5>2
      <4>8. CASE flt[t].call \notin {"promiscOn", "promiscOff"} /\ mr' = Edited(t)
                 /\ promisc' = promisc
        BY <4>2, <4>4, <4>8
      <4> QED BY <4>5, <4>6, <4>7, <4>8
    <3>2. CASE ~FltWrite(t)
      <4>1. UNCHANGED <<mr, promisc>>
        BY <1>3, <3>2 DEF FilterCall, Starts, FilterTask, FltRead, FltLoad, FltStoreAdd,
           FltStoreDel, FltTest, FltZero
      <4> QED BY <2>1, <4>1 DEF Alone
    <3> QED BY <3>1, <3>2
  <2> QED BY <2>2, <2>3, <2>4, <2>5 DEF FltAt, Up
<1> QED BY <1>1, <1>2, <1>3, FilterAway

(* It is enough to look at the one call that makes a step.                 *)
LEMMA FilterStays ==
  ASSUME CtlTypes', NEW t \in FilterTasks, NEW c, NEW p, NEW m, NEW n,
         FltTypes, Fields(t, c, p, m, n),
         \A u \in FilterTasks \ {t} : flt[u].pc = "idle",
         groups' < CountSpan, c \notin {"allOn", "allOff"},
         p = "idle" => mcast' = groups' /\ Heard',
         p # "idle" => Midway(t)'
  PROVE  Filter'
<1>1. \A u \in FilterTasks \ {t} : flt'[u].pc = "idle"
  BY DEF Fields
<1>2. \A u \in FilterTasks : flt'[u].call \notin {"allOn", "allOff"}
  <2>1. \A u \in FilterTasks \ {t} : flt'[u].call = "none"
    BY <1>1 DEF CtlTypes, FltTypes, InPlace
  <2> QED BY <2>1 DEF Fields
<1>3. Resting' => mcast' = groups' /\ Heard'
  BY DEF Resting, FltAt, Fields
<1>4. \A u \in FilterTasks : ~FltAt(u, "idle")' => Midway(u)'
  BY <1>1 DEF FltAt, Fields
<1> QED BY <1>2, <1>3, <1>4 DEF Filter

(* Every step keeps the filter, its counter and the call in progress       *)
(* together (emac_w5500_add_mac_filter, emac_w5500_del_mac_filter).        *)
LEMMA FilterStep ==
  CtlTypes /\ CtlTypes' /\ Installing /\ Installing' /\ Alone /\ Filter /\ [Next]_ethVars => Filter'
<1> SUFFICES ASSUME CtlTypes, CtlTypes', Installing, Installing', Alone, Filter, [Next]_ethVars,
                    spoilt' = {}
             PROVE  Filter'
  BY DEF Filter
<1>t. /\ FltTypes /\ mr \in ModeBits /\ used \in Counters /\ used.faults \in Nat /\ mcast \in Nat
      /\ groups \in Nat /\ CountSpan \in Nat /\ boot \in BootPlaces
  BY FilterAssumption, OtherCounts DEF CtlTypes, Flags, Ctl, FltTypes
<1>1. CASE UNCHANGED <<filterVars, mr, boot>> /\ (used'.faults = 0 => used.faults = 0)
  BY <1>1 DEF Filter, filterVars, FltAt, Up, Resting, Heard, Midway, Leaves, Keeps
<1>2. CASE UNCHANGED filterVars /\ ~Up /\ (Up' => mr' = DefaultMr)
  <2>1. groups' = 0 /\ mcast' = 0 /\ \A t \in FilterTasks : flt'[t].pc = "idle"
    BY <1>2 DEF Installing, Resting, FltAt, filterVars
  <2>2. \A t \in FilterTasks : flt'[t].call = "none"
    BY <2>1 DEF CtlTypes, FltTypes, InPlace
  <2>3. Up' => Heard'
    BY <1>2, <2>1 DEF Heard, DefaultMr
  <2> QED BY <2>1, <2>2, <2>3, FilterAssumption DEF Filter, FltAt
<1>3. ASSUME NEW t \in FilterTasks, FilterCall(t) \/ FilterTask(t)
      PROVE  Filter'
  <2>1. spoilt = {} /\ (FilterCall(t) => Resting)
    BY <1>3, FilterStarts
  <2>2. \A u \in FilterTasks \ {t} : flt[u].pc = "idle"
    BY <1>3, <2>1, FilterStarts DEF Alone, Resting, FltAt
  <2>3. Up
    BY <1>3, FilterStarts DEF FilterCall, Installing, Resting
  <2>4. /\ groups < CountSpan /\ flt[t].call \notin {"allOn", "allOff"}
        /\ flt[t].pc = "write" => flt[t].mr = mr
    BY <2>1 DEF Filter, Alone, FltAt
  <2>5. FilterTask(t) => Midway(t)
    BY <2>1, FilterStarts DEF Filter
  <2>6. used'.faults = 0 => used.faults = 0
    BY <1>3, <1>t, FilterFootprint
  <2>p. {"idle", "read", "load"} \subseteq FltPlaces /\ InPlace(flt[t])
    BY <1>t DEF FltPlaces, FltTypes
  <2>k. ASSUME NEW c, NEW p, NEW m, NEW n, Fields(t, c, p, m, n),
               groups' < CountSpan, c \notin {"allOn", "allOff"},
               p = "idle" => mcast' = groups' /\ Heard',
               p # "idle" => Midway(t)'
        PROVE  Filter'
    BY <1>t, <2>2, <2>k, FilterStays
  <2>e. ASSUME Ended(t), groups' < CountSpan, mcast' = groups', Heard'
        PROVE  Filter'
    BY <2>k, <2>e DEF Ended
  <2> USE DEF Midway, Leaves, Keeps, FltAt, Heard
  <2>7. CASE FilterCall(t)
    <3> PICK c \in FilterCalls : Starts(t, c)
      BY <2>7 DEF FilterCall
    <3>1. mcast = groups /\ Heard
      BY <2>1, <2>3, <2>7 DEF Filter
    <3>2. /\ c \notin {"allOn", "allOff"} /\ (c = "del" => groups > 0)
          /\ groups' = IF c = "del" THEN groups - 1 ELSE groups
          /\ UNCHANGED <<mr, used, mcast>>
      BY DEF Starts
    <3>3. Fields(t, c, IF c \in {"del", "delOther"} THEN "load" ELSE "read", DefaultMr, 0)
      BY <1>t, FltFields
    <3>4. Midway(t)'
      BY <1>t, <3>1, <3>2, <3>3 DEF Fields
    <3> QED BY <1>t, <2>4, <2>k, <3>2, <3>3, <3>4
  <2>8. CASE FltRead(t)
    <3> PICK r \in Access :
          /\ Spi(r)
          /\ IF r = "done" THEN flt' = [flt EXCEPT ![t].mr = mr, ![t].pc = "write"] ELSE Ends(t)
      BY <2>8 DEF FltRead
    <3>1. flt[t].pc = "read" /\ UNCHANGED <<mr, mcast, groups>> /\ Midway(t)
      BY <2>5, <2>8 DEF FltRead, FilterTask
    <3>2. CASE r = "done"
      <4>1. Ended(t) \/ Fields(t, flt[t].call, "write", mr, flt[t].cnt)
        BY <1>t, <2>8, FltFields
      <4>2. flt[t].call # "none"
        BY <2>p, <3>1 DEF InPlace
      <4>3. Becomes(t, [flt[t] EXCEPT !.mr = mr, !.pc = "write"])
        BY <1>t, <3>2, FltMoves
      <4>4. Becomes(t, Record(flt[t].call, "write", mr, flt[t].cnt))
        BY <1>t, <4>3, CallRecord DEF FltTypes
      <4>5. Fields(t, flt[t].call, "write", mr, flt[t].cnt)
        BY <4>1, <4>2, <4>4 DEF Ended, Fields, Becomes, Record
      <4>6. Midway(t)'
        BY <2>6, <3>1, <4>5 DEF Fields
      <4> QED BY <2>4, <2>k, <3>1, <4>5, <4>6
    <3>3. CASE r # "done"
      <4>1. Ended(t) /\ used'.faults # 0
        BY <1>t, <3>3, FltFields, SpiCounts
      <4>2. mcast' = groups' /\ Heard'
        BY <1>t, <2>4, <3>1, <4>1
      <4> QED BY <2>4, <2>e, <3>1, <4>1, <4>2
    <3> QED BY <3>2, <3>3
  <2>9. CASE FltWrite(t)
    <3> PICK r \in Access :
          /\ Spi(r)
          /\ mr' = IF r = "done" THEN Edited(t) ELSE mr
          /\ IF r = "done" /\ flt[t].call \in {"add", "allOn", "allOff"}
             THEN Goes(t, AfterWrite(flt[t].call)) ELSE Ends(t)
      BY <2>9 DEF FltWrite
    <3>1. flt[t].pc = "write" /\ UNCHANGED <<mcast, groups>> /\ Midway(t) /\ flt[t].call # "none"
      BY <2>p, <2>5, <2>9 DEF FltWrite, FilterTask, InPlace
    <3>b. Edited(t).block = IF flt[t].call = "add" THEN FALSE
                            ELSE IF flt[t].call \in {"del", "delOther"} THEN TRUE ELSE mr.block
      BY <1>t, <2>4, <3>1 DEF Edited, ModeBits
    <3>2. CASE r = "done" /\ flt[t].call = "add"
      <4>1. Moved(t, "load")
        BY <1>t, <2>p, <3>2, FltFields DEF AfterWrite
      <4>2. Midway(t)'
        BY <3>1, <3>2, <3>b, <4>1 DEF Moved, Fields
      <4> QED BY <2>4, <2>k, <3>1, <4>1, <4>2 DEF Moved
    <3>3. CASE r = "done" /\ flt[t].call # "add"
      <4>1. Ended(t)
        BY <1>t, <2>4, <3>3, FltFields
      <4>2. mcast' = groups' /\ Heard'
        <5>1. CASE flt[t].call \in {"del", "delOther"}
          <6>1. mr'.block /\ groups = 0 /\ mcast = 0
            BY <3>1, <3>3, <3>b, <5>1
          <6> QED BY <3>1, <6>1
        <5>2. CASE flt[t].call \notin {"del", "delOther"}
          <6>1. mr'.block = mr.block /\ mcast = groups /\ Heard
            BY <3>1, <3>3, <3>b, <5>2
          <6> QED BY <2>6, <3>1, <6>1
        <5> QED BY <5>1, <5>2
      <4> QED BY <2>4, <2>e, <3>1, <4>1, <4>2
    <3>4. CASE r # "done"
      <4>1. Ended(t) /\ used'.faults # 0
        BY <1>t, <3>4, FltFields, SpiCounts
      <4>2. mcast' = groups' /\ Heard'
        BY <1>t, <2>4, <3>1, <3>4, <4>1
      <4> QED BY <2>4, <2>e, <3>1, <4>1, <4>2
    <3> QED BY <3>2, <3>3, <3>4
  <2>10. CASE FltLoad(t)
    <3>1. /\ flt[t].pc = "load" /\ UNCHANGED <<mr, used, mcast, groups>> /\ Midway(t)
          /\ flt[t].call \in {"add", "del", "delOther"}
      BY <2>p, <2>5, <2>10 DEF FltLoad, FilterTask, InPlace
    <3>2. Fields(t, flt[t].call, IF Counts(flt[t].call) THEN "store" ELSE "test", flt[t].mr, mcast)
      BY <1>t, <2>10, FltFields
    <3>3. Midway(t)'
      BY <1>t, <3>1, <3>2 DEF Counts, Fields
    <3> QED BY <2>4, <2>k, <3>1, <3>2, <3>3
  <2>11. CASE FltStoreAdd(t)
    <3>1. /\ flt[t].pc = "store" /\ flt[t].call = "add" /\ UNCHANGED mr /\ Midway(t)
          /\ mcast' = IF flt[t].cnt + 1 = CountSpan THEN 0 ELSE flt[t].cnt + 1
          /\ groups' = groups + 1 /\ Ends(t)
          /\ spoilt' = spoilt \cup (IF groups + 1 >= CountSpan THEN {"wrapped"} ELSE {})
      BY <2>5, <2>11 DEF FltStoreAdd, FilterTask
    <3>2. groups + 1 < CountSpan
      BY <1>t, <3>1
    <3>3. mcast' = groups' /\ Heard' /\ Ended(t)
      BY <1>t, <3>1, <3>2, FltFields
    <3> QED BY <2>e, <3>1, <3>2, <3>3
  <2>12. CASE FltStoreDel(t)
    <3>1. /\ flt[t].pc = "store" /\ flt[t].call = "del" /\ UNCHANGED <<mr, groups>> /\ Midway(t)
          /\ mcast' = flt[t].cnt - 1
      BY <2>5, <2>12 DEF FltStoreDel, FilterTask
    <3>2. Fields(t, "del", "test", flt[t].mr, flt[t].cnt - 1)
      BY <1>t, <2>12, FltFields
    <3>3. Midway(t)'
      BY <1>t, <3>1, <3>2 DEF Fields
    <3> QED BY <2>4, <2>k, <3>1, <3>2, <3>3
  <2>13. CASE FltTest(t)
    <3>1. /\ flt[t].pc = "test" /\ UNCHANGED <<mr, used, mcast, groups>> /\ Midway(t)
          /\ flt[t].call \in {"del", "delOther"}
      BY <2>p, <2>5, <2>13 DEF FltTest, FilterTask, InPlace
    <3>2. IF mcast = 0 THEN Goes(t, "read") ELSE Ends(t)
      BY <2>13, <3>1 DEF FltTest, LastGroup
    <3>3. CASE mcast = 0
      <4>1. Moved(t, "read")
        BY <1>t, <2>p, <3>2, <3>3, FltFields
      <4>2. Midway(t)'
        BY <3>1, <3>3, <4>1 DEF Moved, Fields
      <4> QED BY <2>4, <2>k, <3>1, <4>1, <4>2 DEF Moved
    <3>4. CASE mcast # 0
      <4>1. Ended(t)
        BY <1>t, <3>2, <3>4, FltFields
      <4>2. mcast' = groups' /\ Heard'
        BY <1>t, <3>1, <3>4
      <4> QED BY <2>4, <2>e, <3>1, <4>1, <4>2
    <3> QED BY <3>3, <3>4
  <2>14. CASE FltZero(t)
    <3>1. flt[t].pc = "zero"
      BY <2>14 DEF FltZero
    <3> QED BY <2>p, <2>4, <3>1 DEF InPlace
  <2> QED BY <1>3, <2>7, <2>8, <2>9, <2>10, <2>11, <2>12, <2>13, <2>14 DEF FilterTask
<1> QED BY <1>1, <1>2, <1>3, FilterAway

-----------------------------------------------------------------------------
(* The link                                                                *)

(* What the application will have been told when the queue is empty. *)
Said == IF events = <<>> THEN connected ELSE events[Len(events)]

(* The two halves of emac_w5500_set_link.                                  *)
Opening == lnk.pc \in {"open", "unmask", "tick"}

Closing == lnk.pc \in {"mask", "close", "untick"}

(* The inductive form of LinkAgrees: what is on and what is off at each    *)
(* step of a link change, for runs without a failed access.                *)
LinkInv ==
  used.faults = 0 =>
    /\ lnk.pc \in {"idle", "release"} =>
         /\ linkStatus = (sock.sr = "MACRAW") /\ linkStatus = simr
         /\ polled => linkStatus = ticking
         /\ Said = linkStatus
    /\ lnk.pc = "release" => ~linkStatus
    /\ Opening =>
         /\ lnk.up /\ ~lnk.keep /\ ~linkStatus /\ running /\ ~Said
         /\ polled => ~ticking
         /\ (sock.sr = "MACRAW") = (lnk.pc # "open") /\ simr = (lnk.pc = "tick")
    /\ Closing =>
         /\ ~lnk.up /\ linkStatus = ~lnk.keep
         /\ polled => ticking
         /\ (sock.sr = "MACRAW") = (lnk.pc # "untick") /\ simr = (lnk.pc = "mask")
    /\ ~running => ~linkStatus

(* Posting an event changes what the application will have been told to    *)
(* it; handling one, or doing nothing, leaves it (eth_event_handler).      *)
LEMMA SaidMoves ==
  ASSUME events \in Seq(BOOLEAN), connected \in BOOLEAN
  PROVE  /\ \A b \in BOOLEAN : events' = Append(events, b) => Said' = b
         /\ EthEvent => Said' = Said
         /\ UNCHANGED <<events, connected>> => Said' = Said
<1>1. \A b \in BOOLEAN : events' = Append(events, b) => Said' = b
  BY DEF Said
<1>2. EthEvent => Said' = Said
  <2> SUFFICES ASSUME EthEvent PROVE Said' = Said
    OBVIOUS
  <2>1. connected' = events[1] /\ events' = Tail(events) /\ events # <<>>
    BY DEF EthEvent
  <2>2. \/ Len(events) = 1 /\ events' = <<>>
        \/ events' # <<>> /\ events'[Len(events')] = events[Len(events)]
    BY <2>1, LastOfTail
  <2> QED BY <2>1, <2>2 DEF Said
<1>3. UNCHANGED <<events, connected>> => Said' = Said
  BY DEF Said
<1> QED BY <1>1, <1>2, <1>3

(* Every step keeps it: a change of link_status opens or closes the        *)
(* socket, sets the interrupt, the timer and posts the event, in this      *)
(* order, and assigns link_status last (w5500_update_link_duplex_speed,    *)
(* emac_w5500_set_link).                                                   *)
LEMMA LinkStep ==
  CtlTypes /\ Shapes /\ Installing /\ LinkInv /\ [Next]_ethVars => LinkInv'
<1> SUFFICES ASSUME CtlTypes, Shapes, Installing, LinkInv, [Next]_ethVars, used'.faults = 0
             PROVE  LinkInv'
  BY DEF LinkInv
<1>t. /\ used \in Counters /\ lnk \in LnkType /\ phy \in PhyType
      /\ connected \in BOOLEAN /\ linkStatus \in BOOLEAN /\ simr \in BOOLEAN
      /\ running \in BOOLEAN /\ ticking \in BOOLEAN /\ polled \in BOOLEAN
      /\ events \in Seq(BOOLEAN) /\ Shaped(sock) /\ boot \in BootPlaces
  BY DEF CtlTypes, Flags, Ctl, Shapes
<1>i. LnkIdle.pc = "idle" /\ ~LnkIdle.keep /\ ~LnkIdle.up
  BY DEF LnkIdle
<1>q. ASSUME UNCHANGED <<simr, ticking, polled, lnk, linkStatus, running>>,
             Said' = Said, sock'.sr = sock.sr, used.faults = 0
      PROVE  LinkInv'
  BY <1>q DEF LinkInv, Opening, Closing
<1>1. CASE RxTask /\ UNCHANGED phyDrvVars
  BY <1>1, <1>t, <1>q, RxFootprint, RxSock, SaidMoves DEF phyDrvVars
<1>2. CASE TxTask /\ UNCHANGED phyDrvVars
  BY <1>2, <1>t, <1>q, TxFootprint, TxSock, SaidMoves DEF phyDrvVars
<1>3. CASE MacInit /\ UNCHANGED phyDrvVars
  <2>1. ~Up
    BY <1>3, InitFootprint DEF Up
  <2>2. sock'.sr = "CLOSED" /\ simr' = FALSE
    BY <1>3, <1>t, <2>1, InitFootprint, SockOpenClose DEF Installing
  <2>3. /\ ticking' = FALSE /\ lnk' = LnkIdle /\ linkStatus' = FALSE /\ running' = FALSE
        /\ Said' = FALSE
    BY <1>3, <1>t, <2>1, InitFootprint DEF Installing, phyDrvVars, Said
  <2> QED BY <2>2, <2>3, <1>i DEF LinkInv, Opening, Closing
<1>4. CASE PhyInit
  <2>1. ~Up /\ UNCHANGED <<sock, simr, lnk, linkStatus, events, connected, ticking>>
    BY <1>4 DEF PhyInit, BootOnly, NextBoot, Up
  <2>2. /\ sock'.sr = "CLOSED" /\ simr' = FALSE /\ ticking' = FALSE /\ lnk' = LnkIdle
        /\ linkStatus' = FALSE /\ Said' = FALSE
    BY <2>1, SockOpenClose, <1>t DEF Installing, Said
  <2> QED BY <2>2, <1>i DEF LinkInv, Opening, Closing
<1>r. ASSUME NEW r, Spi(r) PROVE r = "done" /\ used.faults = 0
  BY <1>r, <1>t, SpiCounts
<1>5. CASE PhyTask
  <2> USE <1>t, <1>i, <1>r DEF LnkAt, LnkOnly
  <2>1. CASE MacOpen
    <3>1. /\ lnk.pc = "open" /\ lnk' = [lnk EXCEPT !.pc = "unmask"] /\ sock' = Opened
          /\ UNCHANGED <<linkStatus, events, simr, ticking, running, connected, polled>>
          /\ used.faults = 0
      BY <2>1 DEF MacOpen, Reaches
    <3>2. lnk'.pc = "unmask" /\ lnk'.up = lnk.up /\ lnk'.keep = lnk.keep /\ sock'.sr = "MACRAW"
      BY <3>1, SockOpenClose DEF LnkType
    <3> QED BY <3>1, <3>2, SaidMoves DEF LinkInv, Opening, Closing
  <2>2. CASE MacUnmask
    <3>1. /\ lnk.pc = "unmask" /\ lnk' = [lnk EXCEPT !.pc = "tick"] /\ simr' = TRUE
          /\ UNCHANGED <<linkStatus, events, sock, ticking, running, connected, polled>>
          /\ used.faults = 0
      BY <2>2 DEF MacUnmask
    <3>2. lnk'.pc = "tick" /\ lnk'.up = lnk.up /\ lnk'.keep = lnk.keep
      BY <3>1 DEF LnkType
    <3> QED BY <3>1, <3>2, SaidMoves DEF LinkInv, Opening, Closing
  <2>3. CASE StartTimer
    <3>1. lnk.pc = "tick" /\ used.faults = 0 /\ UNCHANGED <<sock, simr, running, connected, polled>>
      BY <2>3 DEF StartTimer
    <3>2. ~(polled /\ ticking) /\ lnk.up /\ ~lnk.keep
      BY <3>1 DEF LinkInv, Opening
    <3>3. lnk' = LnkIdle /\ linkStatus' = TRUE /\ events' = Append(events, TRUE)
      BY <2>3, <3>2, LnkMoves DEF StartTimer, Reported
    <3>4. polled => ticking'
      BY <2>3 DEF StartTimer
    <3> QED BY <3>1, <3>3, <3>4, SaidMoves DEF LinkInv, Opening, Closing
  <2>4. CASE MacMask
    <3>1. /\ lnk.pc = "mask" /\ lnk' = [lnk EXCEPT !.pc = "close"] /\ simr' = FALSE
          /\ UNCHANGED <<linkStatus, events, sock, ticking, running, connected, polled>>
          /\ used.faults = 0
      BY <2>4 DEF MacMask
    <3>2. lnk'.pc = "close" /\ lnk'.up = lnk.up /\ lnk'.keep = lnk.keep
      BY <3>1 DEF LnkType
    <3> QED BY <3>1, <3>2, SaidMoves DEF LinkInv, Opening, Closing
  <2>5. CASE MacClose
    <3>1. /\ lnk.pc = "close" /\ lnk' = [lnk EXCEPT !.pc = "untick"] /\ sock' = AfterClose
          /\ UNCHANGED <<linkStatus, events, simr, ticking, running, connected, polled>>
          /\ used.faults = 0
      BY <2>5 DEF MacClose, Reaches
    <3>2. lnk'.pc = "untick" /\ lnk'.up = lnk.up /\ lnk'.keep = lnk.keep /\ sock'.sr = "CLOSED"
      BY <3>1, SockOpenClose DEF LnkType
    <3> QED BY <3>1, <3>2, SaidMoves DEF LinkInv, Opening, Closing
  <2>6. CASE StopTimer
    <3>1. /\ lnk.pc = "untick" /\ used.faults = 0 /\ ticking' = FALSE
          /\ UNCHANGED <<sock, simr, running, connected, polled>>
      BY <2>6 DEF StopTimer
    <3>2. ~(polled /\ ~ticking) /\ ~lnk.up /\ linkStatus = ~lnk.keep /\ ~simr /\ sock.sr # "MACRAW"
      BY <3>1 DEF LinkInv, Closing
    <3>3. lnk' = LnkIdle /\ linkStatus' = FALSE /\ events' = Append(events, FALSE)
      BY <2>6, <3>2, LnkMoves DEF StopTimer, Reported
    <3> QED BY <3>1, <3>2, <3>3, SaidMoves DEF LinkInv, Opening, Closing
  <2>7. CASE PhyRelease
    <3>1. /\ lnk.pc = "release" /\ used.faults = 0 /\ lnk' = LnkIdle
          /\ UNCHANGED <<sock, simr, running, connected, polled, ticking, linkStatus, events>>
      BY <2>7 DEF PhyRelease, PhyOnly
    <3> QED BY <3>1, SaidMoves DEF LinkInv, Opening, Closing
  <2> QED BY <1>5, <2>1, <2>2, <2>3, <2>4, <2>5, <2>6, <2>7 DEF PhyTask
<1>6. CASE GetLink
  <2>1. /\ lnk.pc = "idle" /\ running /\ used.faults = 0
        /\ UNCHANGED <<sock, simr, running, connected, polled, ticking, linkStatus, events>>
    BY <1>6, <1>r DEF GetLink, LnkOnly, LnkAt
  <2>2. \/ lnk' = LnkIdle
        \/ phy.link /\ ~linkStatus /\ lnk' = [pc |-> "open", up |-> TRUE, keep |-> FALSE]
        \/ ~phy.link /\ linkStatus /\ lnk' = [pc |-> "mask", up |-> FALSE, keep |-> FALSE]
    <3>1. phy.link \in BOOLEAN
      BY <1>t, PhyMoves
    <3> QED BY <1>6, <1>t, <3>1 DEF GetLink
  <2>3. CASE lnk' = LnkIdle
    BY <2>1, <2>3, <1>i, SaidMoves, <1>t DEF LinkInv, Opening, Closing
  <2>4. CASE ~linkStatus /\ lnk' = [pc |-> "open", up |-> TRUE, keep |-> FALSE]
    <3>1. lnk'.pc = "open" /\ lnk'.up /\ ~lnk'.keep
      BY <2>4
    <3> QED BY <2>1, <2>4, <3>1, SaidMoves, <1>t DEF LinkInv, Opening, Closing
  <2>5. CASE linkStatus /\ lnk' = [pc |-> "mask", up |-> FALSE, keep |-> FALSE]
    <3>1. lnk'.pc = "mask" /\ ~lnk'.up /\ ~lnk'.keep
      BY <2>5
    <3> QED BY <2>1, <2>5, <3>1, SaidMoves, <1>t DEF LinkInv, Opening, Closing
  <2> QED BY <2>2, <2>3, <2>4, <2>5
<1>7. CASE SetLinkDown
  <2>1. /\ lnk.pc = "idle" /\ running /\ used.faults = 0 /\ running' = FALSE /\ linkStatus' = FALSE
        /\ UNCHANGED <<sock, simr, connected, polled, ticking, events>>
    BY <1>7, <1>t, OtherCounts DEF SetLinkDown, LnkOnly, LnkAt
  <2>2. CASE linkStatus
    <3>1. lnk'.pc = "mask" /\ ~lnk'.up /\ lnk'.keep = TRUE
      BY <1>7, <2>2 DEF SetLinkDown
    <3> QED BY <2>1, <2>2, <3>1, SaidMoves, <1>t DEF LinkInv, Opening, Closing
  <2>3. CASE ~linkStatus
    <3>1. lnk' = LnkIdle
      BY <1>7, <2>3 DEF SetLinkDown
    <3> QED BY <2>1, <2>3, <3>1, <1>i, SaidMoves, <1>t DEF LinkInv, Opening, Closing
  <2> QED BY <1>t, <2>2, <2>3
<1>h. ASSUME NEW m, HoldInReset(m), Stopped PROVE LinkInv'
  <2>1. /\ lnk.pc = "idle" /\ ~running /\ used.faults = 0 /\ linkStatus' = FALSE
        /\ lnk' = [LnkIdle EXCEPT !.pc = "release"]
        /\ UNCHANGED <<sock, simr, connected, polled, ticking, events>>
    BY <1>h, <1>r DEF HoldInReset, Stopped, LnkAt, PhyOnly, LnkOnly
  <2>2. lnk'.pc = "release" /\ linkStatus = FALSE
    BY <2>1, LnkMoves DEF LinkInv
  <2> QED BY <2>1, <2>2, SaidMoves, <1>t DEF LinkInv, Opening, Closing
<1>8. CASE StartDriver
  <2>1. CASE phy.opmode = "all"
    BY <1>8, <1>h, <2>1 DEF StartDriver
  <2>2. CASE phy.opmode # "all"
    <3>1. /\ lnk.pc = "idle" /\ UNCHANGED <<lnk, linkStatus, used, sock, simr, connected, polled, ticking, events>>
      BY <1>8, <2>2 DEF StartDriver, LnkAt, PhyOnly, LnkOnly
    <3>2. running'
      BY <1>8, <2>2 DEF StartDriver
    <3> QED BY <3>1, <3>2, SaidMoves, <1>t DEF LinkInv, Opening, Closing
  <2> QED BY <2>1, <2>2
<1>9. CASE Configure
  <2>1. CASE PhyReset \/ PhySetMode
    BY <2>1, <1>h DEF PhyReset, PhySetMode
  <2>2. ASSUME NEW m, PhyAutonego(m) PROVE LinkInv'
    BY <2>2, <1>q, <1>r, SaidMoves, <1>t DEF PhyAutonego, PhyOnly, LnkOnly
  <2> QED
    BY <1>9, <2>1, <2>2 DEF Configure, PhyAutonegoEn, PhyAutonegoDis
<1>10. CASE EthEvent
  BY <1>10, <1>q, <1>t, SaidMoves DEF EthEvent, LnkOnly
<1>11. ASSUME NEW t \in FilterTasks, FilterCall(t) \/ FilterTask(t), UNCHANGED phyDrvVars
       PROVE  LinkInv'
  <2>1. UNCHANGED <<sock, simr, ticking, polled, lnk, linkStatus, running, events, connected>>
    BY <1>t, <1>11, FilterFootprint DEF phyDrvVars
  <2>2. used.faults = 0
    BY <1>t, <1>11, FilterFootprint
  <2> QED BY <1>q, <1>t, <2>1, <2>2, SaidMoves
<1>12. CASE NetFrame \/ NetSent
  <2>1. UNCHANGED <<simr, ticking, polled, lnk, linkStatus, running, events, connected>>
    BY <1>12 DEF NetFrame, FrameArrives, NetSent, FrameSent, DriverSame, phyDrvVars
  <2>2. used.faults = 0
    BY <1>12, <1>t, EnvCounts DEF NetFrame, NetSent
  <2>3. sock'.sr = sock.sr
    BY <1>12, <1>t DEF NetFrame, FrameArrives, NetSent, FrameSent, Shaped, SockFields
  <2> QED BY <1>q, <1>t, <2>1, <2>2, <2>3, SaidMoves
<1>13. CASE CableIn \/ CableOut \/ PollTimer \/ Transmit
  <2>1. UNCHANGED <<sock, simr, ticking, polled, lnk, linkStatus, running, events, connected>>
    BY <1>13 DEF CableIn, CableOut, LinkUp, LinkDown, PollTimer, Transmit, DriverSame, ethChipVars,
       phyDrvVars
  <2>2. used.faults = 0
    BY <1>13, <1>t, EnvCounts DEF CableIn, CableOut, PollTimer, Transmit
  <2> QED BY <1>q, <1>t, <2>1, <2>2, SaidMoves
<1>14. CASE UNCHANGED ethVars
  BY <1>14, <1>q, <1>t, SaidMoves DEF ethVars, ethChipVars, macVars, phyDrvVars
<1> QED
  BY <1>1, <1>2, <1>3, <1>4, <1>5, <1>6, <1>7, <1>8, <1>9, <1>10, <1>11, <1>12, <1>13,
     <1>14 DEF Next, Receive, Install, PhySteps

-----------------------------------------------------------------------------
(* Transmitting                                                            *)

(* Frame f has left the chip.                                              *)
OnWire(f) == \E i \in DOMAIN wire : \E k \in DOMAIN wire[i] : wire[i][k] = f

(* The types of the send side.                                             *)
TxTypes ==
  /\ tx.pc \in TxPlaces /\ tx.frame \in Nat
  /\ sock.txMem \in Seq(Nat) /\ sock.sendQ \in Seq(Seq(Nat)) /\ wire \in Seq(Seq(Nat))
  /\ sock.sent \in BOOLEAN

(* Only the last frame of what is written, queued or sent as one may have  *)
(* been transmitted without an error.                                      *)
AllButLast(s, bad) == \A k \in DOMAIN s : k < Len(s) => s[k] \in bad

(* Whatever stands in front of another frame, in the send memory, in a     *)
(* pending SEND or on the wire, belongs to a transmit that failed.         *)
TxBad ==
  /\ tx.pc # "idle" => tx.frame = used.sends
  /\ \A b \in badFrames : b \in Nat /\ b <= used.sends /\ (tx.pc # "idle" => b < tx.frame)
  /\ \A k \in DOMAIN sock.txMem :
       \/ sock.txMem[k] \in badFrames
       \/ tx.pc = "send" /\ k = Len(sock.txMem) /\ sock.txMem[k] = tx.frame
  /\ \A i \in DOMAIN sock.sendQ : AllButLast(sock.sendQ[i], badFrames)
  /\ OneFrameEach

(* While no transmit has failed, the chip holds what the transmit in       *)
(* progress has given it, and nothing else.                                *)
TxClean ==
  badFrames = {} =>
    /\ tx.pc \in {"idle", "write"} =>
         sock.sent = FALSE /\ sock.txMem = <<>> /\ sock.sendQ = <<>>
    /\ tx.pc = "send" =>
         sock.sent = FALSE /\ sock.txMem = <<tx.frame>> /\ sock.sendQ = <<>>
    /\ tx.pc = "poll" =>
         /\ sock.txMem = <<>>
         /\ \/ sock.sendQ = <<>> /\ (sock.sent => OnWire(tx.frame))
            \/ sock.sendQ = << <<tx.frame>> >> /\ sock.sent = FALSE
    /\ tx.pc = "ack" =>
         sock.txMem = <<>> /\ sock.sendQ = <<>> /\ OnWire(tx.frame)

(* The inductive form of TransmitHonest.                                   *)
TxInv == TxTypes /\ TxBad /\ TxClean /\ OkIsSent

(* What is on the wire stays there, and a frame that leaves the chip gets  *)
(* there whole.                                                            *)
LEMMA WireKept ==
  ASSUME wire \in Seq(Seq(Nat)), NEW s \in Seq(Nat), wire' = Append(wire, s)
  PROVE  /\ wire' \in Seq(Seq(Nat))
         /\ \A f : OnWire(f) => OnWire(f)'
         /\ \A k \in DOMAIN s : OnWire(s[k])'
<1>1. /\ wire' \in Seq(Seq(Nat)) /\ DOMAIN wire' = 1..(Len(wire) + 1)
      /\ \A k \in 1..Len(wire) : wire'[k] = wire[k]
      /\ wire'[Len(wire) + 1] = s
      /\ DOMAIN wire = 1..Len(wire) /\ Len(wire) \in Nat
  BY AppendProps, LenProperties
<1>2. ASSUME NEW f, OnWire(f) PROVE OnWire(f)'
  <2> PICK i \in DOMAIN wire : \E k \in DOMAIN wire[i] : wire[i][k] = f
    BY <1>2 DEF OnWire
  <2>1. i \in DOMAIN wire' /\ wire'[i] = wire[i]
    BY <1>1
  <2> QED BY <2>1 DEF OnWire
<1>3. ASSUME NEW k \in DOMAIN s PROVE OnWire(s[k])'
  <2>1. Len(wire) + 1 \in DOMAIN wire' /\ wire'[Len(wire) + 1] = s
    BY <1>1
  <2> QED BY <2>1 DEF OnWire
<1> QED BY <1>1, <1>2, <1>3

(* The transmit function keeps it, whichever access fails                  *)
(* (emac_w5500_transmit).                                                  *)
LEMMA TxTaskStep ==
  ASSUME TxInv, Shapes, used \in Counters, TxTask
  PROVE  TxInv'
<1>s. /\ Shaped(sock) /\ tx.pc \in TxPlaces /\ tx.frame \in Nat
      /\ sock.txMem \in Seq(Nat) /\ sock.sendQ \in Seq(Seq(Nat)) /\ wire \in Seq(Seq(Nat))
      /\ sock.sent \in BOOLEAN
  BY DEF Shapes, TxInv, TxTypes
<1>u. wire' = wire /\ used'.sends = used.sends /\ used.sends \in Nat
  BY TxFootprint, OtherCounts
<1>e. Append(sock.sendQ, sock.txMem) \in Seq(Seq(Nat)) /\ <<>> \in Seq(Nat)
  BY <1>s
<1>i. TxIdle.pc = "idle" /\ TxIdle.frame = 0
  BY DEF TxIdle
<1>b. ASSUME tx.pc # "idle", tx' = TxIdle, badFrames' = badFrames \cup {tx.frame},
             okFrames' = okFrames, sock'.sent \in BOOLEAN,
             \/ sock'.txMem = sock.txMem /\ sock'.sendQ = sock.sendQ
             \/ sock'.txMem = <<>> /\ sock'.sendQ = Append(sock.sendQ, sock.txMem)
      PROVE  TxInv'
  <2>1. badFrames' # {} /\ tx.frame = used.sends
    BY <1>b DEF TxInv, TxBad
  <2>a. tx'.pc \in TxPlaces /\ tx'.frame \in Nat
    BY <1>b, <1>i DEF TxPlaces
  <2>b. sock'.txMem \in Seq(Nat) /\ sock'.sendQ \in Seq(Seq(Nat))
    BY <1>b, <1>s, <1>e
  <2>2. TxTypes'
    BY <1>b, <1>s, <1>u, <2>a, <2>b DEF TxTypes
  <2>3. OkIsSent'
    BY <1>b, <1>u DEF TxInv, OkIsSent
  <2>4. \A b \in badFrames' : b \in Nat /\ b <= used'.sends
    BY <1>b, <1>s, <1>u, <2>1 DEF TxInv, TxBad
  <2>5. \A k \in DOMAIN sock.txMem : sock.txMem[k] \in badFrames'
    BY <1>b DEF TxInv, TxBad
  <2>6. \A k \in DOMAIN sock'.txMem : sock'.txMem[k] \in badFrames'
    BY <1>b, <2>5
  <2>7. \A i \in DOMAIN sock'.sendQ : AllButLast(sock'.sendQ[i], badFrames')
    <3>1. CASE sock'.sendQ = sock.sendQ
      BY <1>b, <3>1 DEF TxInv, TxBad, AllButLast
    <3>2. CASE sock'.sendQ = Append(sock.sendQ, sock.txMem)
      <4> TAKE i \in DOMAIN sock'.sendQ
      <4>1. DOMAIN sock.sendQ = 1..Len(sock.sendQ) /\ Len(sock.sendQ) \in Nat
        BY <1>s, LenProperties
      <4>2. (i \in DOMAIN sock.sendQ /\ sock'.sendQ[i] = sock.sendQ[i]) \/ sock'.sendQ[i] = sock.txMem
        BY <1>s, <3>2, <4>1, AppendProps
      <4> QED BY <1>b, <2>5, <4>2 DEF TxInv, TxBad, AllButLast
    <3> QED BY <1>b, <3>1, <3>2
  <2>8. OneFrameEach'
    BY <1>b, <1>u DEF TxInv, TxBad, OneFrameEach
  <2>9. TxBad'
    BY <1>b, <1>i, <2>4, <2>6, <2>7, <2>8 DEF TxBad
  <2> QED BY <2>1, <2>2, <2>3, <2>9 DEF TxInv, TxClean
<1>1. CASE TxWrite
  <2> PICK r \in Access :
        /\ sock' = IF r = "done" THEN [sock EXCEPT !.txMem = Append(@, tx.frame)] ELSE sock
        /\ tx' = IF r = "done" THEN [tx EXCEPT !.pc = "send"] ELSE TxIdle
    BY <1>1 DEF TxWrite
  <2>1. tx.pc = "write" /\ UNCHANGED <<okFrames, badFrames>>
    BY <1>1 DEF TxWrite, TxAt
  <2>2. CASE r = "done"
    <3>1. /\ tx'.pc = "send" /\ tx'.frame = tx.frame
          /\ sock'.txMem = Append(sock.txMem, tx.frame) /\ sock'.sendQ = sock.sendQ
          /\ sock'.sent = sock.sent
      BY <2>2 DEF Shapes, Shaped, SockFields, TxFields
    <3>2. TxTypes'
      BY <1>s, <1>u, <3>1, AppendProps DEF TxTypes, TxPlaces
    <3>3. \A k \in DOMAIN sock'.txMem :
             \/ sock'.txMem[k] \in badFrames
             \/ k = Len(sock'.txMem) /\ sock'.txMem[k] = tx.frame
      BY <1>s, <2>1, <3>1, AppendProps, LenProperties DEF TxInv, TxBad
    <3>4. TxBad'
      BY <1>u, <2>1, <3>1, <3>3 DEF TxInv, TxBad, AllButLast, OneFrameEach
    <3>5. TxClean'
      <4>1. badFrames = {} => /\ sock.sent = FALSE /\ sock.sendQ = <<>>
                              /\ sock'.txMem = <<tx.frame>>
        BY <2>1, <3>1, AppendToEmpty DEF TxInv, TxClean
      <4> QED BY <2>1, <3>1, <4>1 DEF TxClean
    <3> QED BY <1>u, <2>1, <3>2, <3>4, <3>5 DEF TxInv, OkIsSent
  <2>3. CASE r # "done"
    <3>1. tx' = TxIdle /\ sock' = sock
      BY <2>3
    <3>2. TxTypes'
      BY <1>s, <1>u, <1>i, <3>1 DEF TxTypes, TxPlaces
    <3>3. TxBad'
      BY <1>u, <1>i, <2>1, <3>1 DEF TxInv, TxBad, AllButLast, OneFrameEach
    <3>4. TxClean'
      BY <1>u, <1>i, <2>1, <3>1 DEF TxInv, TxClean
    <3> QED BY <1>u, <2>1, <3>2, <3>3, <3>4 DEF TxInv, OkIsSent
  <2> QED BY <2>2, <2>3
<1>2. CASE TxSend
  <2> PICK r \in Command :
        /\ sock' = IF Reaches(r) THEN AfterSend ELSE sock
        /\ IF r = "done"
           THEN tx' = [tx EXCEPT !.pc = "poll"] /\ UNCHANGED <<okFrames, badFrames>>
           ELSE TxDone(FALSE)
    BY <1>2 DEF TxSend
  <2>1. tx.pc = "send"
    BY <1>2 DEF TxSend, TxAt
  <2>2. CASE r = "done"
    <3>1. /\ tx'.pc = "poll" /\ tx'.frame = tx.frame /\ UNCHANGED <<okFrames, badFrames>>
          /\ sock'.txMem = <<>> /\ sock'.sendQ = Append(sock.sendQ, sock.txMem)
          /\ sock'.sent = sock.sent
      BY <1>s, <2>2, SockSending DEF Reaches, Shapes, TxFields
    <3>a. tx'.pc \in TxPlaces /\ tx'.frame \in Nat
      BY <1>s, <3>1 DEF TxPlaces
    <3>b. sock'.txMem \in Seq(Nat) /\ sock'.sendQ \in Seq(Seq(Nat))
      BY <1>s, <1>e, <3>1
    <3>2. TxTypes'
      BY <1>s, <1>u, <3>1, <3>a, <3>b DEF TxTypes
    <3>3. AllButLast(sock.txMem, badFrames)
      BY DEF TxInv, TxBad, AllButLast
    <3>4. \A i \in DOMAIN sock'.sendQ : AllButLast(sock'.sendQ[i], badFrames')
      <4> TAKE i \in DOMAIN sock'.sendQ
      <4>1. DOMAIN sock.sendQ = 1..Len(sock.sendQ) /\ Len(sock.sendQ) \in Nat
        BY <1>s, LenProperties
      <4>2. (i \in DOMAIN sock.sendQ /\ sock'.sendQ[i] = sock.sendQ[i]) \/ sock'.sendQ[i] = sock.txMem
        BY <1>s, <3>1, <4>1, AppendProps
      <4> QED BY <3>1, <3>3, <4>2 DEF TxInv, TxBad, AllButLast
    <3>5. TxBad'
      BY <1>u, <2>1, <3>1, <3>4 DEF TxInv, TxBad, OneFrameEach
    <3>6. TxClean'
      <4>1. badFrames = {} => sock.sent = FALSE /\ sock'.sendQ = << <<tx.frame>> >>
        BY <2>1, <3>1, AppendToEmpty DEF TxInv, TxClean
      <4> QED BY <3>1, <4>1 DEF TxClean
    <3> QED BY <1>u, <3>1, <3>2, <3>5, <3>6 DEF TxInv, OkIsSent
  <2>3. CASE r # "done"
    <3>1. sock'.sent \in BOOLEAN
             /\ \/ sock'.txMem = sock.txMem /\ sock'.sendQ = sock.sendQ
                \/ sock'.txMem = <<>> /\ sock'.sendQ = Append(sock.sendQ, sock.txMem)
      BY <1>s, SockSending
    <3> QED BY <1>b, <2>1, <2>3, <3>1 DEF TxDone
  <2> QED BY <2>2, <2>3
<1>3. CASE TxGivesUp
  BY <1>3, <1>b, <1>s DEF TxGivesUp, TxAt, TxDone
<1>4. CASE TxPoll
  <2>1. tx.pc = "poll" /\ sock' = sock
    BY <1>4 DEF TxPoll, TxAt
  <2>2. CASE sock.sent /\ tx' = [tx EXCEPT !.pc = "ack"] /\ UNCHANGED <<okFrames, badFrames>>
    <3>1. tx'.pc = "ack" /\ tx'.frame = tx.frame
      BY <2>2 DEF Shapes, TxFields
    <3>2. TxTypes'
      BY <1>s, <1>u, <2>1, <3>1 DEF TxTypes, TxPlaces
    <3>3. TxBad'
      BY <1>u, <2>1, <2>2, <3>1 DEF TxInv, TxBad, AllButLast, OneFrameEach
    <3>4. TxClean'
      BY <1>u, <2>1, <2>2, <3>1 DEF TxInv, TxClean, OnWire
    <3> QED BY <1>u, <2>2, <3>2, <3>3, <3>4 DEF TxInv, OkIsSent
  <2>3. CASE TxDone(FALSE)
    BY <1>b, <1>s, <2>1, <2>3 DEF TxDone
  <2> QED BY <1>4, <2>2, <2>3 DEF TxPoll
<1>5. CASE TxAck
  <2> PICK r \in Access :
        /\ sock' = IF r = "done" THEN SendSeen ELSE sock
        /\ TxDone(r = "done")
    BY <1>5 DEF TxAck
  <2>1. tx.pc = "ack"
    BY <1>5 DEF TxAck, TxAt
  <2>2. CASE r = "done"
    <3>1. /\ tx' = TxIdle /\ okFrames' = okFrames \cup {tx.frame} /\ badFrames' = badFrames
          /\ sock'.txMem = sock.txMem /\ sock'.sendQ = sock.sendQ /\ sock'.sent = FALSE
      BY <1>s, <2>2, SockSending DEF TxDone
    <3>a. tx'.pc \in TxPlaces /\ tx'.frame \in Nat
      BY <1>i, <3>1 DEF TxPlaces
    <3>2. TxTypes'
      BY <1>s, <1>u, <3>1, <3>a DEF TxTypes
    <3>3. TxBad'
      BY <1>u, <1>i, <2>1, <3>1 DEF TxInv, TxBad, AllButLast, OneFrameEach
    <3>4. TxClean'
      BY <1>i, <2>1, <3>1 DEF TxInv, TxClean
    <3>5. OnWire(tx.frame) \/ \E b \in badFrames : b < tx.frame
      BY <2>1 DEF TxInv, TxBad, TxClean
    <3>6. OkIsSent'
      BY <1>u, <3>1, <3>5 DEF TxInv, OkIsSent, OnWire
    <3> QED BY <3>2, <3>3, <3>4, <3>6 DEF TxInv
  <2>3. CASE r # "done"
    BY <1>b, <1>s, <2>1, <2>3 DEF TxDone
  <2> QED BY <2>2, <2>3
<1> QED BY <1>1, <1>2, <1>3, <1>4, <1>5 DEF TxTask

(* So does everything else: the chip sends a pending SEND, OPEN empties    *)
(* the send memory, CLOSE drops what is pending.                           *)
LEMMA TxStep ==
  CtlTypes /\ Shapes /\ Installing /\ TxInv /\ [Next]_ethVars => TxInv'
<1> SUFFICES ASSUME CtlTypes, Shapes, Installing, TxInv, [Next]_ethVars PROVE TxInv'
  OBVIOUS
<1>s. /\ Shaped(sock) /\ tx.pc \in TxPlaces /\ tx.frame \in Nat
      /\ sock.txMem \in Seq(Nat) /\ sock.sendQ \in Seq(Seq(Nat)) /\ wire \in Seq(Seq(Nat))
      /\ sock.sent \in BOOLEAN /\ used \in Counters /\ used.sends \in Nat
  BY OtherCounts DEF Shapes, TxInv, TxTypes, CtlTypes, Ctl
<1>q. ASSUME UNCHANGED <<wire, tx, okFrames, badFrames>>, SendSame(sock'),
             used'.sends = used.sends
      PROVE  TxInv'
  BY <1>q DEF TxInv, TxTypes, TxBad, TxClean, AllButLast, OneFrameEach, OkIsSent, OnWire, SendSame
<1>0. sock' = sock => SendSame(sock')
  BY DEF SendSame
<1>1. CASE RxTask
  BY <1>1, <1>s, <1>q, RxFootprint, RxSock
<1>2. CASE TxTask
  BY <1>2, <1>s, TxTaskStep
<1>3. CASE MacInit
  <2>1. sock' = sock
    BY <1>3, InitFootprint DEF Installing, Up
  <2> QED BY <1>3, <1>q, <1>0, <2>1, InitFootprint
<1>4. CASE MacOpen
  <2>1. /\ tx.pc = "idle" /\ sock' \in {Opened, sock}
        /\ UNCHANGED <<wire, tx, okFrames, badFrames>>
    BY <1>4 DEF MacOpen, LnkOnly, historyVars
  <2>2. used'.sends = used.sends
    BY <1>4, <1>s, SpiCounts DEF MacOpen
  <2>3. CASE sock' = Opened
    <3>1. sock'.txMem = <<>> /\ sock'.sendQ = <<>> /\ sock'.sent = sock.sent
      BY <1>s, <2>3, SockOpenClose
    <3>2. TxTypes'
      BY <1>s, <2>1, <3>1 DEF TxTypes
    <3>3. TxBad'
      BY <1>s, <2>1, <2>2, <3>1 DEF TxInv, TxBad, AllButLast, OneFrameEach
    <3>4. TxClean'
      BY <2>1, <3>1 DEF TxInv, TxClean
    <3> QED BY <2>1, <3>2, <3>3, <3>4 DEF TxInv, OkIsSent
  <2> QED BY <1>q, <1>0, <2>1, <2>2, <2>3
<1>5. CASE MacClose
  <2>1. /\ sock' \in {AfterClose, sock} /\ UNCHANGED <<wire, tx, okFrames, badFrames>>
    BY <1>5 DEF MacClose, LnkOnly, historyVars
  <2>2. used'.sends = used.sends
    BY <1>5, <1>s, SpiCounts DEF MacClose
  <2>3. CASE sock' = AfterClose
    <3>1. sock'.txMem = sock.txMem /\ sock'.sendQ = <<>> /\ sock'.sent = sock.sent
      BY <1>s, <2>3, SockOpenClose
    <3>2. TxTypes'
      BY <1>s, <2>1, <3>1 DEF TxTypes
    <3>3. TxBad'
      BY <1>s, <2>1, <2>2, <3>1 DEF TxInv, TxBad, AllButLast, OneFrameEach
    <3>4. TxClean'
      BY <2>1, <3>1 DEF TxInv, TxClean, OnWire
    <3> QED BY <2>1, <3>2, <3>3, <3>4 DEF TxInv, OkIsSent
  <2> QED BY <1>q, <1>0, <2>1, <2>2, <2>3
<1>6. CASE MacUnmask \/ StartTimer \/ MacMask \/ StopTimer \/ PhyRelease \/ PhyInit
  <2>1. UNCHANGED <<sock, wire, tx, okFrames, badFrames>>
    BY <1>6 DEF MacUnmask, StartTimer, MacMask, StopTimer, PhyRelease, PhyInit, LnkOnly, PhyOnly,
       BootOnly, historyVars
  <2>2. (\E r : Spi(r)) \/ used' = used
    BY <1>6 DEF MacUnmask, StartTimer, MacMask, StopTimer, PhyRelease, PhyInit
  <2> QED BY <1>s, <1>q, <1>0, <2>1, <2>2, SpiCounts
<1>7. CASE GetLink \/ SetLinkDown \/ StartDriver \/ Configure \/ EthEvent
  <2>1. UNCHANGED <<sock, wire, tx, okFrames, badFrames>>
    BY <1>7 DEF GetLink, SetLinkDown, StartDriver, Configure, HoldInReset, PhyReset, PhySetMode,
       PhyAutonego, PhyAutonegoEn, PhyAutonegoDis, EthEvent, LnkOnly, PhyOnly, historyVars
  <2>2. (\E r : Spi(r)) \/ used' = used \/ used' = [used EXCEPT !.stops = @ + 1]
    BY <1>7 DEF GetLink, SetLinkDown, StartDriver, Configure, HoldInReset, PhyReset, PhySetMode,
       PhyAutonego, PhyAutonegoEn, PhyAutonegoDis, EthEvent
  <2> QED BY <1>s, <1>q, <1>0, <2>1, <2>2, SpiCounts, OtherCounts
<1>8. ASSUME NEW t \in FilterTasks, FilterCall(t) \/ FilterTask(t) PROVE TxInv'
  BY <1>8, <1>s, <1>q, <1>0, FilterFootprint
<1>9. CASE NetFrame
  <2>1. SendSame(sock')
    BY <1>9, <1>s DEF NetFrame, FrameArrives, SendSame, Shaped, SockFields
  <2> QED BY <1>9, <1>s, <1>q, <2>1, EnvCounts DEF NetFrame, FrameArrives, DriverSame, historyVars
<1>10. CASE NetSent
  <2>1. /\ sock.sendQ # <<>> /\ wire' = Append(wire, Head(sock.sendQ))
        /\ UNCHANGED <<tx, okFrames, badFrames, used>>
    BY <1>10 DEF NetSent, FrameSent, DriverSame, historyVars
  <2>2. /\ sock'.txMem = sock.txMem /\ sock'.sendQ = Tail(sock.sendQ) /\ sock'.sent = TRUE
    BY <1>10, <1>s DEF NetSent, FrameSent, Shaped, SockFields
  <2>3. /\ Head(sock.sendQ) \in Seq(Nat) /\ sock'.sendQ \in Seq(Seq(Nat))
        /\ 1 \in DOMAIN sock.sendQ /\ Head(sock.sendQ) = sock.sendQ[1]
        /\ \A i \in DOMAIN sock'.sendQ :
             i + 1 \in DOMAIN sock.sendQ /\ sock'.sendQ[i] = sock.sendQ[i + 1]
    <3>1. PICK q \in Seq(Seq(Nat)) : q = sock.sendQ /\ q # <<>>
      BY <1>s, <2>1
    <3>2. /\ Head(q) \in Seq(Nat) /\ Tail(q) \in Seq(Seq(Nat))
          /\ 1 \in DOMAIN q /\ Head(q) = q[1]
          /\ \A i \in DOMAIN Tail(q) : i + 1 \in DOMAIN q /\ Tail(q)[i] = q[i + 1]
      BY <3>1, HeadAndTail
    <3> QED
      BY <3>1, <3>2, <2>2
  <2> PICK h \in Seq(Nat) : h = Head(sock.sendQ)
    BY <2>3
  <2>4. /\ wire' \in Seq(Seq(Nat)) /\ \A f : OnWire(f) => OnWire(f)'
        /\ \A k \in DOMAIN h : OnWire(h[k])'
    <3>1. wire' = Append(wire, h)
      BY <2>1
    <3> QED BY <1>s, <3>1, WireKept
  <2>5. TxTypes'
    BY <1>s, <2>1, <2>2, <2>3, <2>4 DEF TxTypes
  <2>6. \A i \in DOMAIN sock'.sendQ : AllButLast(sock'.sendQ[i], badFrames)
    BY <2>3 DEF TxInv, TxBad
  <2>7. AllButLast(h, badFrames)
    BY <2>3 DEF TxInv, TxBad
  <2>8. OneFrameEach'
    <3> SUFFICES ASSUME NEW i \in DOMAIN wire' PROVE AllButLast(wire'[i], badFrames)
      BY <2>1 DEF OneFrameEach, AllButLast
    <3>1. (i \in DOMAIN wire /\ wire'[i] = wire[i]) \/ wire'[i] = h
      BY <1>s, <2>1, <2>3, AppendProps, LenProperties
    <3> QED BY <2>7, <3>1 DEF TxInv, TxBad, OneFrameEach, AllButLast
  <2>9. TxBad'
    BY <2>1, <2>2, <2>6, <2>8 DEF TxInv, TxBad
  <2>10. TxClean'
    <3> SUFFICES ASSUME badFrames = {} PROVE TxClean'
      BY <2>1 DEF TxClean
    <3>1. tx.pc = "poll" /\ sock.sendQ = << <<tx.frame>> >> /\ sock.txMem = <<>>
      BY <1>s, <2>1 DEF TxInv, TxClean, TxPlaces
    <3>2. sock'.sendQ = <<>>
      BY <2>2, <3>1
    <3>3. OnWire(tx.frame)'
      <4>1. h = <<tx.frame>>
        BY <3>1
      <4>2. 1 \in DOMAIN h /\ h[1] = tx.frame
        BY <4>1
      <4>3. OnWire(h[1])'
        BY <2>4, <4>2
      <4> QED BY <2>1, <4>2, <4>3 DEF OnWire
    <3> QED BY <2>1, <2>2, <3>1, <3>2, <3>3 DEF TxClean
  <2>11. OkIsSent'
    <3>1. \A f \in okFrames : OnWire(f) \/ \E b \in badFrames : b < f
      BY DEF TxInv, OkIsSent, OnWire
    <3>2. \A f \in okFrames : OnWire(f)' \/ \E b \in badFrames : b < f
      BY <2>4, <3>1
    <3> QED BY <2>1, <3>2 DEF OkIsSent, OnWire
  <2> QED BY <2>5, <2>9, <2>10, <2>11 DEF TxInv
<1>11. CASE CableIn \/ CableOut \/ PollTimer
  <2>1. UNCHANGED <<sock, wire, tx, okFrames, badFrames>>
    BY <1>11 DEF CableIn, CableOut, LinkUp, LinkDown, PollTimer, DriverSame, ethChipVars, historyVars
  <2>2. used'.sends = used.sends
    BY <1>11, <1>s, EnvCounts DEF CableIn, CableOut, PollTimer
  <2> QED BY <1>q, <1>0, <2>1, <2>2
<1>12. CASE Transmit
  <2>1. /\ tx.pc = "idle" /\ tx' = [pc |-> "write", frame |-> used.sends + 1]
        /\ UNCHANGED <<sock, wire, okFrames, badFrames>>
    BY <1>12 DEF Transmit, TxAt, ethChipVars, historyVars
  <2>2. used'.sends = used.sends + 1
    BY <1>12, <1>s, EnvCounts DEF Transmit
  <2>3. tx'.pc = "write" /\ tx'.frame = used.sends + 1
    BY <2>1
  <2>4. TxTypes'
    BY <1>s, <2>1, <2>3 DEF TxTypes, TxPlaces
  <2>5. TxBad'
    BY <1>s, <2>1, <2>2, <2>3 DEF TxInv, TxBad, AllButLast, OneFrameEach
  <2>6. TxClean'
    BY <2>1, <2>3 DEF TxInv, TxClean
  <2> QED BY <2>1, <2>4, <2>5, <2>6 DEF TxInv, OkIsSent
<1>13. CASE UNCHANGED ethVars
  BY <1>13, <1>q, <1>0 DEF ethVars, ethChipVars, macVars, historyVars
<1> QED
  BY <1>1, <1>2, <1>3, <1>4, <1>5, <1>6, <1>7, <1>8, <1>9, <1>10, <1>11, <1>12, <1>13
  DEF Next, Receive, Install, PhySteps, PhyTask

-----------------------------------------------------------------------------
(* Receiving                                                               *)

(* The receive memory holds whole frames in the order of arrival, and      *)
(* RX_RD is at the start of one, or behind the last, unless it has gone    *)
(* astray since it was there.                                              *)
MemInv ==
  /\ sock.rxMem \in Seq(Cell) /\ sock.rxRd \in Nat /\ sock.rxBase \in Nat
  /\ sock.astray \in BOOLEAN /\ sock.lost \in BOOLEAN
  /\ WholeFrames(sock.rxMem) /\ InOrder(sock.rxMem) /\ Until(sock.rxMem, used.frames)
  /\ sock.rxBase <= sock.rxRd /\ Boundary(sock.rxMem, sock.rxRd)
  /\ ~sock.astray => Received <= RxSize

(* While no RECV is lost RX_RD is in step, the chip has freed the memory   *)
(* before it unless the task is just going to have it freed, and what made *)
(* the size positive still lies there.                                     *)
Synced ==
  ~sock.lost =>
    /\ ~sock.astray
    /\ rx.pc \notin {"recv", "flushRecv"} => sock.rxBase = sock.rxRd
    /\ rx.pc = "head" => sock.rxRd # Len(sock.rxMem)

(* The types of the receive task, and of what it has handed to the stack.  *)
RxTypes ==
  /\ rx.pc \in RxPlaces /\ rx.remain \in Word /\ rx.offset \in Nat
  /\ rx.head \in Word /\ rx.buf \in Seq(Cell) /\ Len(rx.buf) <= MaxPacket
  /\ rx.more \in BOOLEAN
  /\ stack \in Seq(Seq(Cell))

(* What the receive task has read of a frame still describes it, while no  *)
(* RECV is lost; and RX_RD does not move back in any case.                 *)
Reading ==
  /\ rx.pc \in {"payload", "setrd"} => rx.offset >= sock.rxRd
  /\ rx.pc \in {"payload", "setrd"} /\ ~sock.lost =>
       /\ rx.offset = sock.rxRd
       /\ \E f, n : /\ FrameFrom(sock.rxMem, sock.rxRd, f, n) /\ rx.head = n + 1
                    /\ rx.pc = "setrd" /\ n <= MaxPacket => rx.buf = Payload(f, n)
  /\ rx.pc = "recv" /\ ~sock.lost /\ ~Truncated =>
       \E f, n : /\ f \in 1..used.frames /\ n \in FrameSizes
                 /\ rx.buf = Payload(f, n) /\ Behind(sock.rxMem, sock.rxRd, f)
                 /\ \A i \in DOMAIN stack : stack[i][1].frame < f

(* The inductive form of FramesWhole: and every frame handed up came       *)
(* before all that are still to be read.                                   *)
RxInv ==
  /\ RxTypes /\ MemInv /\ Synced /\ Reading /\ FramesWhole
  /\ \A i \in DOMAIN stack : Behind(sock.rxMem, sock.rxRd, stack[i][1].frame)

(* The lengths of the receive task stay within 16 bits, and a buffer of    *)
(* copy_len holds ETH_MAX_PACKET_SIZE at most; of a frame that arrived     *)
(* they are its own.                                                       *)
LEMMA Lengths ==
  /\ \A h \in Word : LenOf(h) \in Word /\ CopyLen(LenOf(h)) \in 0..MaxPacket
  /\ \A n \in FrameSizes : /\ n \in Nat \ {0} /\ n + 1 \in Word /\ LenOf(n + 1) = n
                           /\ n <= MaxPacket => CopyLen(n) = n
  /\ 0 \in Word /\ RxSize \in Word
  BY EthChipAssumption DEF Word, LenOf, Sub16, CopyLen

(* At RX_RD, while it is in step, the driver finds the header of a whole   *)
(* frame, unless nothing is left.                                          *)
LEMMA HeaderIs ==
  ASSUME MemInv
  PROVE  /\ HeadersAt(sock.rxRd) \subseteq Word
         /\ ~sock.astray /\ sock.rxRd # Len(sock.rxMem) =>
              \E f, n : /\ FrameFrom(sock.rxMem, sock.rxRd, f, n)
                        /\ HeadersAt(sock.rxRd) = {n + 1}
<1>1. CASE sock.astray \/ sock.rxRd = Len(sock.rxMem)
  BY <1>1, LenProperties DEF MemInv, HeadersAt, FrameAt
<1>2. CASE ~sock.astray /\ sock.rxRd # Len(sock.rxMem)
  <2>1. PICK f, n : FrameFrom(sock.rxMem, sock.rxRd, f, n)
    BY <1>2 DEF MemInv, WholeFrames
  <2>2. sock.rxRd < Len(sock.rxMem) /\ sock.rxMem[sock.rxRd + 1].part = 0 /\ sock.rxRd \in Nat
    BY <1>2 DEF MemInv, Boundary
  <2>3. /\ n \in FrameSizes /\ n \in Nat \ {0} /\ f \in Nat
        /\ sock.rxMem[sock.rxRd + 1 + 0] = CellOf(f, 0, n + 1)
    BY <2>1, EthChipAssumption DEF FrameFrom
  <2>4. sock.rxRd + 1 + 0 = sock.rxRd + 1 /\ n + 1 \in Nat
    BY <2>2, <2>3
  <2>5. CellOf(f, 0, n + 1).len = n + 1
    BY DEF CellOf
  <2>6. FrameAt(sock.rxRd) /\ sock.rxMem[sock.rxRd + 1].len = n + 1
    BY <2>2, <2>3, <2>4, <2>5 DEF FrameAt
  <2>7. HeadersAt(sock.rxRd) = {n + 1}
    BY <1>2, <2>6 DEF HeadersAt
  <2> QED BY <2>1, <2>3, <2>7, Lengths
<1> QED BY <1>1, <1>2

(* Sn_RX_RSR is never negative, and in step it fits 16 bits and is what is *)
(* left behind RX_RD.                                                      *)
LEMMA ReceivedTyped ==
  ASSUME MemInv
  PROVE  /\ Received \in Nat /\ Sizes \subseteq Word
         /\ ~sock.astray => Sizes = {Received}
         /\ Received > 0 /\ sock.rxBase = sock.rxRd => sock.rxRd # Len(sock.rxMem)
<1>1. Len(sock.rxMem) \in Nat /\ sock.rxRd <= Len(sock.rxMem)
  BY LenProperties DEF MemInv, Boundary
<1>2. Received \in Nat /\ (Received > 0 /\ sock.rxBase = sock.rxRd => sock.rxRd # Len(sock.rxMem))
  BY <1>1 DEF MemInv, Received
<1>3. ~sock.astray => Received \in Word
  BY <1>2, EthChipAssumption DEF MemInv, Word
<1> QED BY <1>2, <1>3 DEF Sizes

(* The memory as it is, with what was read freed or not (the RECV          *)
(* command).                                                               *)
LEMMA MemKept ==
  ASSUME MemInv, sock'.rxMem = sock.rxMem, sock'.rxRd = sock.rxRd,
         sock'.rxBase \in {sock.rxBase, sock.rxRd}, used'.frames = used.frames,
         sock'.lost \in BOOLEAN, sock'.astray = sock.astray \/ sock'.astray = TRUE
  PROVE  MemInv'
<1>1. sock'.astray \in BOOLEAN /\ (~sock'.astray => ~sock.astray)
  BY DEF MemInv
<1>2. Len(sock.rxMem) \in Nat
  BY LenProperties DEF MemInv
<1>3. ~sock'.astray => Received' <= RxSize
  BY <1>1, <1>2, EthChipAssumption DEF MemInv, Received
<1> QED BY <1>1, <1>3 DEF MemInv, Boundary

(* A step that neither moves RX_RD to another frame, nor stores a frame,   *)
(* nor hands one up only has to keep the types, what the receive task      *)
(* remembers, and the chip in step with it.                                *)
LEMMA RxQuiet ==
  ASSUME RxInv, sock'.rxMem = sock.rxMem, sock'.rxRd = sock.rxRd,
         sock'.rxBase \in {sock.rxBase, sock.rxRd}, used'.frames = used.frames,
         sock'.lost \in BOOLEAN, sock'.astray = sock.astray \/ sock'.astray = TRUE,
         UNCHANGED stack, RxTypes', Synced', Reading'
  PROVE  RxInv'
<1>1. MemInv'
  BY MemKept DEF RxInv
<1>2. FramesWhole'
  BY DEF RxInv, FramesWhole
<1> QED BY <1>1, <1>2 DEF RxInv

(* A step that leaves the receive side and the receive task alone.         *)
LEMMA RxSame ==
  ASSUME RxInv, RecvSame(sock'), used'.frames = used.frames, UNCHANGED <<stack, rx>>
  PROVE  RxInv'
<1>1. RxTypes'
  BY DEF RxInv, RxTypes, Word
<1>2. Reading'
  BY DEF RxInv, Reading, RecvSame, Truncated, LenOf
<1>3. Synced'
  BY DEF RxInv, Synced, RecvSame
<1> QED BY <1>1, <1>2, <1>3, RxQuiet DEF RecvSame, RxInv, MemInv

(* The receive task keeps it, whatever access and whichever malloc fails:  *)
(* a payload read that failed is not handed up, nothing is counted as      *)
(* handed up in order once a RECV is lost, and a flush moves RX_RD to the  *)
(* next header (emac_w5500_receive, emac_w5500_flush_recv_frame).          *)
LEMMA RxTaskStep ==
  ASSUME CtlTypes, Shapes, RxInv, RxTask
  PROVE  RxInv'
<1>s. /\ Shaped(sock) /\ rx = [f \in RxFields |-> rx[f]]
      /\ used.frames \in Nat
  BY OtherCounts DEF Shapes, CtlTypes, Ctl
<1>t. /\ rx.pc \in RxPlaces /\ rx.remain \in Word /\ rx.offset \in Nat
      /\ rx.head \in Word /\ rx.buf \in Seq(Cell) /\ Len(rx.buf) <= MaxPacket
      /\ rx.more \in BOOLEAN /\ stack \in Seq(Seq(Cell))
  BY DEF RxInv, RxTypes
<1>m. /\ sock.rxMem \in Seq(Cell) /\ sock.rxRd \in Nat /\ sock.rxBase \in Nat
      /\ sock.astray \in BOOLEAN /\ sock.lost \in BOOLEAN
      /\ WholeFrames(sock.rxMem) /\ InOrder(sock.rxMem) /\ Until(sock.rxMem, used.frames)
      /\ sock.rxBase <= sock.rxRd /\ Boundary(sock.rxMem, sock.rxRd) /\ MemInv
      /\ Len(sock.rxMem) \in Nat
  BY LenProperties DEF RxInv, MemInv
<1>f. used'.frames = used.frames
  BY RxFootprint DEF CtlTypes, Ctl
<1>k. /\ RxIdle.pc = "wait" /\ RxIdle.remain = 0 /\ RxIdle.offset = 0 /\ RxIdle.head = 0
      /\ RxIdle.buf = <<>> /\ RxIdle.more = FALSE
  BY DEF RxIdle
<1>e. <<>> \in Seq(Cell) /\ Len(<<>>) = 0 /\ 0 \in Nat /\ 0 \in Word /\ 0 <= MaxPacket
  BY Lengths, EthChipAssumption
<1>r. /\ rx.pc \in {"payload", "setrd"} => rx.offset >= sock.rxRd
      /\ rx.pc \in {"payload", "setrd"} /\ ~sock.lost =>
           /\ rx.offset = sock.rxRd
           /\ \E f, n : /\ FrameFrom(sock.rxMem, sock.rxRd, f, n) /\ rx.head = n + 1
                        /\ rx.pc = "setrd" /\ n <= MaxPacket => rx.buf = Payload(f, n)
  BY DEF RxInv, Reading
<1>y. ~sock.lost =>
        /\ ~sock.astray
        /\ rx.pc \notin {"recv", "flushRecv"} => sock.rxBase = sock.rxRd
        /\ rx.pc = "head" => sock.rxRd # Len(sock.rxMem)
  BY DEF RxInv, Synced
<1> DEFINE Quiet == RxPlaces \ {"payload", "setrd", "recv", "head", "flushRecv"}
           Typed == /\ rx'.remain \in Word /\ rx'.offset \in Nat /\ rx'.head \in Word
                    /\ rx'.buf \in Seq(Cell) /\ Len(rx'.buf) <= MaxPacket
                    /\ rx'.more \in BOOLEAN
(* A step after which nothing that was read is used. *)
<1>q. ASSUME sock'.rxMem = sock.rxMem, sock'.rxRd = sock.rxRd,
             sock'.rxBase \in {sock.rxBase, sock.rxRd}, UNCHANGED stack,
             sock'.lost \in BOOLEAN, sock'.astray = sock.astray \/ sock'.astray = TRUE,
             ~sock'.lost => ~sock'.astray /\ sock'.rxBase = sock'.rxRd,
             rx'.pc \in Quiet, Typed
      PROVE  RxInv'
  <2>1. RxTypes'
    BY <1>q, <1>t DEF RxTypes, Word
  <2>2. Reading'
    BY <1>q DEF Reading
  <2>3. Synced'
    BY <1>q DEF Synced
  <2> QED BY <1>q, <1>f, <2>1, <2>2, <2>3, RxQuiet
(* The same, if the step leaves the receive memory alone. *)
<1>a. ASSUME RecvSame(sock'), UNCHANGED stack, rx.pc \notin {"recv", "flushRecv"},
             rx'.pc \in Quiet, Typed
      PROVE  RxInv'
  BY <1>a, <1>m, <1>y, <1>q, Zenon DEF RecvSame
(* The same, if it leaves the task with what it had read. *)
<1>b. ASSUME sock' = sock, UNCHANGED stack, rx.pc \notin {"recv", "flushRecv"},
             rx'.pc \in Quiet, rx'.remain = rx.remain, rx'.offset = rx.offset,
             rx'.head = rx.head, rx'.buf = rx.buf, rx'.more = rx.more
      PROVE  RxInv'
  BY <1>b, <1>t, <1>a, Zenon DEF RecvSame
(* And if it ends without having done anything. *)
<1>c. ASSUME sock' = sock, UNCHANGED stack, rx.pc \notin {"recv", "flushRecv"}, rx' = RxIdle
      PROVE  RxInv'
  <2>1. rx'.pc \in Quiet /\ Typed
    BY <1>c, <1>k, <1>e DEF RxPlaces
  <2> QED BY <1>c, <1>a, <2>1, Zenon DEF RecvSame
<1>o. \A b \in BOOLEAN : Around(b) \in {"size", "wait"}
  BY DEF Around
(* What is left of the task behind a RECV, and of the chip. *)
<1>g. ASSUME NEW r \in Command
      PROVE  /\ AfterReceive(r).pc \in {"size", "wait"} /\ AfterReceive(r).more \in BOOLEAN
             /\ AfterReceive(r).remain = 0 /\ AfterReceive(r).offset = 0
             /\ AfterReceive(r).head = 0 /\ AfterReceive(r).buf = <<>>
  <2> PICK b \in BOOLEAN : b = (r = "done" /\ LeftOver > 0)
    OBVIOUS
  <2>1. AfterReceive(r) = [RxIdle EXCEPT !.more = b, !.pc = Around(b)]
    BY DEF AfterReceive
  <2> QED BY <1>o, <2>1 DEF RxIdle
<1>w. ASSUME sock' \in {AfterRecv, RecvLost}, rx.pc \in {"recv", "flushRecv"}
      PROVE  /\ sock'.rxMem = sock.rxMem /\ sock'.rxRd = sock.rxRd
             /\ sock'.rxBase \in {sock.rxBase, sock.rxRd}
             /\ sock'.lost \in BOOLEAN /\ sock'.astray = sock.astray
             /\ ~sock'.lost => ~sock'.astray /\ sock'.rxBase = sock'.rxRd
  <2>1. CASE sock' = RecvLost
    BY <1>s, <2>1, SockFreed
  <2>2. CASE sock' = AfterRecv
    BY <1>s, <1>m, <1>y, <2>2, SockFreed
  <2> QED BY <1>w, <2>1, <2>2
(* RX_RD moves to a frame behind, or to the end, or goes astray. *)
<1>v. ASSUME NEW o \in Nat, sock.rxRd <= o,
             sock'.rxMem = sock.rxMem, sock'.rxBase = sock.rxBase, sock'.lost = sock.lost,
             \/ sock'.rxRd = sock.rxRd /\ sock'.astray = TRUE
             \/ sock'.rxRd = o /\ sock'.astray = sock.astray
                /\ (FrameAt(o) \/ o = Len(sock.rxMem)),
             UNCHANGED stack, RxTypes', Synced', Reading'
      PROVE  RxInv'
  <2>1. CASE sock'.rxRd = sock.rxRd /\ sock'.astray = TRUE
    BY <1>v, <1>m, <1>f, <2>1, RxQuiet
  <2>2. CASE /\ sock'.rxRd = o /\ sock'.astray = sock.astray
             /\ FrameAt(o) \/ o = Len(sock.rxMem)
    <3>1. Boundary(sock.rxMem, o) /\ sock.rxBase <= o
      BY <1>v, <1>m, <2>2 DEF Boundary, FrameAt
    <3>2. ~sock'.astray => Received' <= RxSize
      BY <1>v, <1>m, <2>2 DEF MemInv, Received
    <3>3. MemInv'
      BY <1>v, <1>m, <1>f, <2>2, <3>1, <3>2 DEF MemInv
    <3>4. \A i \in DOMAIN stack : Behind(sock.rxMem, o, stack[i][1].frame)
      BY <1>v, <1>m, BehindLater DEF RxInv
    <3>5. FramesWhole'
      BY <1>v, <1>f DEF RxInv, FramesWhole
    <3> QED BY <1>v, <2>2, <3>3, <3>4, <3>5 DEF RxInv
  <2> QED BY <1>v, <2>1, <2>2
<1>1. CASE RxWake
  <2>1. /\ rx'.pc = "ir" /\ rx'.remain = rx.remain /\ rx'.offset = rx.offset
        /\ rx'.head = rx.head /\ rx'.buf = rx.buf /\ rx'.more = rx.more
    BY <1>1, <1>s DEF RxWake, RxFields
  <2>2. UNCHANGED <<sock, stack>> /\ rx.pc = "wait"
    BY <1>1 DEF RxWake, ethChipVars, historyVars, RxAt
  <2> QED BY <1>b, <2>1, <2>2 DEF RxPlaces
<1>2. CASE RxStatus
  <2>1. /\ rx'.pc \in {"clear", "wait"}
        /\ rx'.remain = rx.remain /\ rx'.offset = rx.offset
        /\ rx'.head = rx.head /\ rx'.buf = rx.buf /\ rx'.more = rx.more
    BY <1>2, <1>s DEF RxStatus, RxFields
  <2>2. UNCHANGED <<sock, stack>> /\ rx.pc = "ir"
    BY <1>2 DEF RxStatus, ethChipVars, historyVars, RxAt
  <2> QED BY <1>b, <2>1, <2>2 DEF RxPlaces
<1>3. CASE RxClear
  <2>1. /\ rx'.pc = "size" /\ rx'.remain = rx.remain /\ rx'.offset = rx.offset
        /\ rx'.head = rx.head /\ rx'.buf = rx.buf /\ rx'.more = rx.more
    BY <1>3, <1>s DEF RxClear, RxFields
  <2>2. UNCHANGED stack /\ RecvSame(sock') /\ rx.pc = "clear"
    BY <1>3, <1>s DEF RxClear, historyVars, Shaped, SockFields, RecvSame, RxAt
  <2>3. rx'.pc \in Quiet /\ Typed
    BY <1>t, <2>1 DEF RxPlaces
  <2> QED BY <1>a, <2>2, <2>3
<1>4. CASE RxSizeRead
  <2>p. PICK size \in Sizes \cup {0}, r \in Access :
           /\ r = "done" => size \in Sizes
           /\ rx' = [rx EXCEPT !.remain = size,
                               !.pc = IF size = 0 THEN Around(rx.more) ELSE "head"]
           /\ r # "done" => size = 0
    BY <1>4 DEF RxSizeRead
  <2>1. size \in Word /\ Around(rx.more) \in {"size", "wait"}
    BY <1>m, <1>t, <1>e, <1>o, <2>p, ReceivedTyped
  <2>2. /\ rx'.remain = size /\ rx'.offset = rx.offset
        /\ rx'.head = rx.head /\ rx'.buf = rx.buf /\ rx'.more = rx.more
        /\ size = 0 => rx'.pc = Around(rx.more)
        /\ size # 0 => rx'.pc = "head"
    BY <2>p, <1>s DEF RxFields
  <2>3. UNCHANGED <<sock, stack>> /\ rx.pc = "size"
    BY <1>4 DEF RxSizeRead, ethChipVars, historyVars, RxAt
  <2>t. Typed
    BY <1>t, <2>1, <2>2
  <2>4. CASE size = 0
    <3>1. rx'.pc \in Quiet
      BY <2>1, <2>2, <2>4 DEF RxPlaces
    <3> QED BY <1>a, <2>3, <2>t, <3>1, Zenon DEF RecvSame
  <2>5. CASE size # 0
    <3>1. RxTypes'
      BY <1>t, <2>2, <2>3, <2>5, <2>t DEF RxTypes, RxPlaces, Word
    <3>2. Reading'
      BY <2>2, <2>5 DEF Reading
    <3>3. ~sock.lost => sock.rxRd # Len(sock.rxMem)
      <4> SUFFICES ASSUME ~sock.lost PROVE sock.rxRd # Len(sock.rxMem)
        OBVIOUS
      <4>1. ~sock.astray /\ sock.rxBase = sock.rxRd
        BY <1>y, <2>3
      <4>2. size = Received /\ Received \in Nat
        BY <1>m, <2>p, <2>5, <4>1, ReceivedTyped
      <4> QED BY <1>m, <2>5, <4>1, <4>2, ReceivedTyped
    <3>4. Synced'
      BY <1>y, <2>2, <2>3, <2>5, <3>3 DEF Synced
    <3> QED BY <1>m, <1>f, <2>3, <3>1, <3>2, <3>4, RxQuiet
  <2> QED BY <2>4, <2>5
<1>5. CASE RxHead
  <2>p. PICK r \in Access, h \in HeadersAt(sock.rxRd) :
           rx' = IF r = "done" /\ Accepted(h)
                 THEN [rx EXCEPT !.offset = sock.rxRd, !.head = h, !.pc = "payload"]
                 ELSE [rx EXCEPT !.pc = Around(rx.more)]
    BY <1>5 DEF RxHead
  <2>1. UNCHANGED <<sock, stack>> /\ rx.pc = "head"
    BY <1>5 DEF RxHead, ethChipVars, historyVars, RxAt
  <2>2. CASE rx' = [rx EXCEPT !.pc = Around(rx.more)]
    <3>1. /\ rx'.pc \in {"size", "wait"} /\ rx'.remain = rx.remain /\ rx'.offset = rx.offset
          /\ rx'.head = rx.head /\ rx'.buf = rx.buf /\ rx'.more = rx.more
      BY <1>s, <1>t, <1>o, <2>2 DEF RxFields
    <3> QED BY <1>b, <2>1, <3>1 DEF RxPlaces
  <2>3. CASE rx' = [rx EXCEPT !.offset = sock.rxRd, !.head = h, !.pc = "payload"]
    <3>1. /\ rx'.pc = "payload" /\ rx'.remain = rx.remain /\ rx'.offset = sock.rxRd
          /\ rx'.head = h /\ rx'.buf = rx.buf /\ rx'.more = rx.more
      BY <1>s, <2>3 DEF RxFields
    <3>2. h \in Word
      BY <1>m, HeaderIs
    <3>3. ~sock.lost => \E f, n : FrameFrom(sock.rxMem, sock.rxRd, f, n) /\ h = n + 1
      BY <1>m, <1>y, <2>1, HeaderIs
    <3>4. RxTypes'
      BY <1>t, <1>m, <2>1, <3>1, <3>2 DEF RxTypes, RxPlaces, Word
    <3>5. Reading'
      BY <1>m, <2>1, <3>1, <3>3 DEF Reading
    <3>6. Synced'
      BY <1>y, <2>1, <3>1 DEF Synced
    <3> QED BY <1>m, <1>f, <2>1, <3>4, <3>5, <3>6, RxQuiet
  <2> QED BY <2>p, <2>2, <2>3
<1>6. CASE RxNoMem
  <2>1. /\ rx'.pc = "flush" /\ rx'.remain = rx.remain /\ rx'.offset = rx.offset
        /\ rx'.head = rx.head /\ rx'.buf = rx.buf /\ rx'.more = rx.more
    BY <1>6, <1>s DEF RxNoMem, RxFields
  <2>2. UNCHANGED <<sock, stack>> /\ rx.pc = "head"
    BY <1>6 DEF RxNoMem, ethChipVars, historyVars, RxAt
  <2> QED BY <1>b, <2>1, <2>2 DEF RxPlaces
<1>7. CASE RxPayload
  <2>p. PICK r \in Access :
        rx' = IF r = "done"
              THEN [rx EXCEPT !.more = FALSE, !.pc = "setrd",
                      !.buf = MemoryAt(rx.offset + 1, CopyLen(LenOf(rx.head)))]
              ELSE RxIdle
    BY <1>7 DEF RxPayload
  <2>1. UNCHANGED <<sock, stack>> /\ rx.pc = "payload"
    BY <1>7 DEF RxPayload, ethChipVars, historyVars, RxAt
  <2>2. CASE r # "done"
    BY <1>c, <2>p, <2>1, <2>2
  <2>3. CASE r = "done"
    <3>1. /\ rx'.pc = "setrd" /\ rx'.remain = rx.remain /\ rx'.offset = rx.offset
          /\ rx'.head = rx.head /\ rx'.more = FALSE
          /\ rx'.buf = MemoryAt(rx.offset + 1, CopyLen(LenOf(rx.head)))
      BY <1>s, <2>p, <2>3 DEF RxFields
    <3>2. CopyLen(LenOf(rx.head)) \in 0..MaxPacket /\ rx.offset + 1 \in Nat
      BY <1>t, Lengths
    <3>3. rx'.buf \in Seq(Cell) /\ Len(rx'.buf) <= MaxPacket
      <4>1. CopyLen(LenOf(rx.head)) \in Nat /\ CopyLen(LenOf(rx.head)) <= MaxPacket
        BY <3>2, EthChipAssumption
      <4> QED BY <1>m, <3>1, <3>2, <4>1, MemoryAtIs
    <3>4. ASSUME ~sock.lost
          PROVE  /\ rx.offset = sock.rxRd
                 /\ \E f, n : /\ FrameFrom(sock.rxMem, sock.rxRd, f, n) /\ rx.head = n + 1
                              /\ n <= MaxPacket => rx'.buf = Payload(f, n)
      <4>1. PICK f, n : FrameFrom(sock.rxMem, sock.rxRd, f, n) /\ rx.head = n + 1
        BY <1>r, <2>1, <3>4, Zenon
      <4>2. rx.offset = sock.rxRd /\ ~sock.astray
        BY <1>r, <1>y, <2>1, <3>4
      <4>3. MemoryAt(sock.rxRd + 1, n) = Payload(f, n)
        BY <1>m, <4>1, <4>2, PayloadRead
      <4>4. n <= MaxPacket => CopyLen(LenOf(rx.head)) = n
        BY <4>1, Lengths DEF FrameFrom
      <4>5. n <= MaxPacket => rx'.buf = Payload(f, n)
        BY <3>1, <4>2, <4>3, <4>4
      <4> QED BY <4>1, <4>2, <4>5
    <3>5. RxTypes'
      BY <1>t, <2>1, <3>1, <3>3 DEF RxTypes, RxPlaces, Word
    <3>6. Reading'
      BY <1>r, <2>1, <3>1, <3>4 DEF Reading
    <3>7. Synced'
      BY <1>y, <2>1, <3>1 DEF Synced
    <3> QED BY <1>m, <1>f, <2>1, <3>5, <3>6, <3>7, RxQuiet
  <2> QED BY <2>2, <2>3
<1>8. CASE RxSetRd
  <2>p. PICK r \in Access :
        /\ sock' = IF r = "done" THEN MovedTo(NextOffset) ELSE sock
        /\ rx' = IF r = "done" THEN [rx EXCEPT !.pc = "recv"] ELSE RxIdle
    BY <1>8 DEF RxSetRd
  <2>1. UNCHANGED stack /\ rx.pc = "setrd"
    BY <1>8 DEF RxSetRd, historyVars, RxAt
  <2>2. CASE r # "done"
    BY <1>c, <2>p, <2>1, <2>2
  <2>3. CASE r = "done"
    <3>1. /\ rx'.pc = "recv" /\ rx'.remain = rx.remain /\ rx'.offset = rx.offset
          /\ rx'.head = rx.head /\ rx'.buf = rx.buf /\ rx'.more = rx.more
      BY <1>s, <2>p, <2>3 DEF RxFields
    <3> PICK o : o = NextOffset
      OBVIOUS
    <3>2. o \in Nat /\ sock.rxRd <= o
      BY <1>t, <1>m, <1>r, <2>1 DEF NextOffset, Word
    <3>t. RxTypes'
      BY <1>t, <2>1, <3>1 DEF RxTypes, RxPlaces, Word
    <3>3. sock' = MovedTo(o)
      BY <2>p, <2>3
    <3>4. ASSUME ~sock.lost
          PROVE  /\ FrameAt(o) \/ o = Len(sock.rxMem)
                 /\ ~Truncated' =>
                      \E f, n : /\ f \in 1..used.frames /\ n \in FrameSizes
                                /\ rx.buf = Payload(f, n) /\ Behind(sock.rxMem, o, f)
                                /\ \A i \in DOMAIN stack : stack[i][1].frame < f
      <4>1. PICK f, n : /\ FrameFrom(sock.rxMem, sock.rxRd, f, n) /\ rx.head = n + 1
                        /\ n <= MaxPacket => rx.buf = Payload(f, n)
        BY <1>r, <2>1, <3>4, Zenon
      <4>2. n \in FrameSizes /\ n \in Nat /\ LenOf(rx.head) = n
        BY <4>1, Lengths DEF FrameFrom
      <4>3. o = sock.rxRd + 1 + n /\ sock.rxRd + n + 1 = o
        BY <1>m, <1>r, <2>1, <3>4, <4>1, <4>2 DEF NextOffset
      <4>4. /\ Boundary(sock.rxMem, o) /\ Behind(sock.rxMem, o, f) /\ f \in 1..used.frames
            /\ \A g : Behind(sock.rxMem, sock.rxRd, g) => g < f
        <5>1. /\ Behind(sock.rxMem, sock.rxRd + 1 + n, f) /\ f \in 1..used.frames
              /\ \A g : Behind(sock.rxMem, sock.rxRd, g) => g < f
          BY <1>s, <1>m, <4>1, NextFrame
        <5>2. Boundary(sock.rxMem, sock.rxRd + n + 1)
          BY <4>1 DEF FrameFrom
        <5> QED BY <4>3, <5>1, <5>2
      <4>5. FrameAt(o) \/ o = Len(sock.rxMem)
        BY <4>4 DEF Boundary, FrameAt
      <4>6. \A i \in DOMAIN stack : stack[i][1].frame < f
        BY <4>4 DEF RxInv
      <4>7. ~Truncated' => n <= MaxPacket
        BY <3>1, <4>2, EthChipAssumption DEF Truncated, LenOf
      <4> QED BY <4>1, <4>2, <4>4, <4>5, <4>6, <4>7
    <3>5. /\ sock'.rxMem = sock.rxMem /\ sock'.rxBase = sock.rxBase /\ sock'.lost = sock.lost
          /\ \/ sock'.rxRd = sock.rxRd /\ sock'.astray = TRUE
             \/ sock'.rxRd = o /\ sock'.astray = sock.astray
                /\ (FrameAt(o) \/ o = Len(sock.rxMem))
          /\ ~sock.lost => sock'.rxRd = o /\ ~sock'.astray
      <4> PICK s : s = MovedTo(o)
        OBVIOUS
      <4>1. /\ s.rxMem = sock.rxMem /\ s.rxBase = sock.rxBase /\ s.lost = sock.lost
            /\ \/ s.rxRd = sock.rxRd /\ s.astray = TRUE
               \/ s.rxRd = o /\ s.astray = sock.astray
                  /\ (FrameAt(o) \/ o = Len(sock.rxMem))
            /\ ~sock.astray /\ (FrameAt(o) \/ o = Len(sock.rxMem)) => s.rxRd = o /\ ~s.astray
        BY <1>s, SockMoved
      <4> QED BY <1>y, <3>3, <3>4, <4>1
    <3>6. Synced'
      BY <3>1, <3>5 DEF Synced
    <3>7. Reading'
      BY <1>f, <2>1, <3>1, <3>4, <3>5 DEF Reading
    <3> QED BY <1>v, <2>1, <3>2, <3>5, <3>6, <3>7, <3>t
  <2> QED BY <2>2, <2>3
<1>9. CASE RxRecv
  <2>p. PICK r \in Command :
        /\ sock' = IF Reaches(r) THEN AfterRecv ELSE RecvLost
        /\ rx' = AfterReceive(r)
        /\ stack' = IF r = "done" /\ ~Truncated /\ ~sock.lost
                    THEN Append(stack, rx.buf) ELSE stack
    BY <1>9 DEF RxRecv
  <2>1. rx.pc = "recv"
    BY <1>9 DEF RxRecv, RxAt
  <2>2. rx'.pc \in Quiet /\ Typed
    BY <1>e, <1>g, <2>p DEF RxPlaces
  <2>3. /\ sock'.rxMem = sock.rxMem /\ sock'.rxRd = sock.rxRd
        /\ sock'.rxBase \in {sock.rxBase, sock.rxRd}
        /\ sock'.lost \in BOOLEAN /\ sock'.astray = sock.astray
        /\ ~sock'.lost => ~sock'.astray /\ sock'.rxBase = sock'.rxRd
    BY <1>w, <2>p, <2>1
  <2>4. CASE stack' = stack
    BY <1>q, <2>2, <2>3, <2>4
  <2>5. CASE ~Truncated /\ ~sock.lost /\ stack' = Append(stack, rx.buf)
    <3>1. PICK f \in 1..used.frames, n \in FrameSizes :
             /\ rx.buf = Payload(f, n) /\ Behind(sock.rxMem, sock.rxRd, f)
             /\ \A i \in DOMAIN stack : stack[i][1].frame < f
      BY <2>1, <2>5 DEF RxInv, Reading
    <3>2. rx.buf[1].frame = f
      <4>1. f \in Nat /\ n \in Nat \ {0}
        BY <1>s, EthChipAssumption
      <4>2. Payload(f, n)[1].frame = f
        BY <4>1, PayloadIs
      <4> QED BY <3>1, <4>2
    <3>3. /\ stack' \in Seq(Seq(Cell)) /\ Len(stack) \in Nat /\ DOMAIN stack = 1..Len(stack)
          /\ DOMAIN stack' = 1..(Len(stack) + 1)
          /\ \A i \in 1..Len(stack) : stack'[i] = stack[i]
          /\ stack'[Len(stack) + 1] = rx.buf
      BY <1>t, <2>5, AppendProps, LenProperties
    <3>4. \A i \in DOMAIN stack' : \/ i \in DOMAIN stack /\ stack'[i] = stack[i]
                                   \/ i = Len(stack) + 1 /\ stack'[i] = rx.buf
      BY <3>3
    <3>5. RxTypes'
      BY <2>2, <3>3 DEF RxTypes, Word
    <3>6. MemInv'
      BY <1>m, <1>f, <2>3, MemKept
    <3>7. Reading' /\ Synced'
      BY <2>2, <2>3 DEF Reading, Synced
    <3>8. \A i \in DOMAIN stack' :
            \E k \in FrameSizes, g \in 1..used.frames : stack'[i] = Payload(g, k)
      BY <3>1, <3>4 DEF RxInv, FramesWhole
    <3>9. \A i, j \in DOMAIN stack' : i < j => stack'[i][1].frame < stack'[j][1].frame
      <4> SUFFICES ASSUME NEW i \in DOMAIN stack', NEW j \in DOMAIN stack', i < j
                   PROVE  stack'[i][1].frame < stack'[j][1].frame
        OBVIOUS
      <4>1. i \in DOMAIN stack /\ stack'[i] = stack[i]
        BY <3>3, <3>4
      <4>2. CASE j \in DOMAIN stack /\ stack'[j] = stack[j]
        BY <4>1, <4>2 DEF RxInv, FramesWhole
      <4>3. CASE stack'[j] = rx.buf
        BY <3>1, <3>2, <4>1, <4>3
      <4> QED BY <3>4, <4>2, <4>3
    <3>10. \A i \in DOMAIN stack' : Behind(sock.rxMem, sock.rxRd, stack'[i][1].frame)
      BY <3>1, <3>2, <3>4 DEF RxInv
    <3>11. FramesWhole'
      BY <1>f, <3>8, <3>9 DEF FramesWhole
    <3> QED BY <2>3, <3>5, <3>6, <3>7, <3>10, <3>11 DEF RxInv
  <2> QED BY <2>p, <2>4, <2>5
<1>10. CASE RxFlush
  <2>p. PICK r \in Access, size \in Sizes, h \in HeadersAt(sock.rxRd) :
        /\ sock' = IF r = "done" /\ size > 0 THEN MovedTo(sock.rxRd + h) ELSE sock
        /\ rx' = IF r = "done" /\ size > 0
                 THEN [rx EXCEPT !.more = FALSE, !.remain = size, !.head = h,
                                 !.pc = "flushRecv"]
                 ELSE RxIdle
    BY <1>10 DEF RxFlush
  <2>1. UNCHANGED stack /\ rx.pc = "flush"
    BY <1>10 DEF RxFlush, historyVars, RxAt
  <2>2. CASE ~(r = "done" /\ size > 0)
    BY <1>c, <2>p, <2>1, <2>2
  <2>3. CASE r = "done" /\ size > 0
    <3>1. /\ rx'.pc = "flushRecv" /\ rx'.remain = size /\ rx'.offset = rx.offset
          /\ rx'.head = h /\ rx'.buf = rx.buf /\ rx'.more = FALSE
      BY <1>s, <2>p, <2>3 DEF RxFields
    <3>2. h \in Word /\ h \in Nat /\ size \in Word
      BY <1>m, HeaderIs, ReceivedTyped DEF Word
    <3> PICK o \in Nat : o = sock.rxRd + h
      BY <1>m, <3>2
    <3>3. sock.rxRd <= o /\ sock' = MovedTo(o)
      BY <1>m, <2>p, <2>3, <3>2
    <3>t. RxTypes'
      BY <1>t, <2>1, <3>1, <3>2 DEF RxTypes, RxPlaces, Word
    <3>4. ~sock.lost => FrameAt(o) \/ o = Len(sock.rxMem)
      <4> SUFFICES ASSUME ~sock.lost PROVE FrameAt(o) \/ o = Len(sock.rxMem)
        OBVIOUS
      <4>1. ~sock.astray /\ sock.rxBase = sock.rxRd
        BY <1>y, <2>1
      <4>2. size = Received
        BY <1>m, <4>1, ReceivedTyped
      <4>3. sock.rxRd # Len(sock.rxMem)
        BY <1>m, <2>3, <4>1, <4>2, ReceivedTyped
      <4>4. PICK f, n : FrameFrom(sock.rxMem, sock.rxRd, f, n) /\ h = n + 1
        BY <1>m, <4>1, <4>3, HeaderIs
      <4>5. n \in Nat /\ sock.rxRd + n + 1 = o
        <5>1. n \in FrameSizes
          BY <4>4 DEF FrameFrom
        <5>2. n \in Nat
          BY <5>1, Lengths
        <5> QED BY <1>m, <4>4, <5>2
      <4>6. Boundary(sock.rxMem, sock.rxRd + n + 1)
        BY <4>4 DEF FrameFrom
      <4> QED BY <4>5, <4>6 DEF Boundary, FrameAt
    <3>5. /\ sock'.rxMem = sock.rxMem /\ sock'.rxBase = sock.rxBase /\ sock'.lost = sock.lost
          /\ \/ sock'.rxRd = sock.rxRd /\ sock'.astray = TRUE
             \/ sock'.rxRd = o /\ sock'.astray = sock.astray
                /\ (FrameAt(o) \/ o = Len(sock.rxMem))
          /\ ~sock.lost => ~sock'.astray
      <4> PICK s : s = MovedTo(o)
        OBVIOUS
      <4>1. /\ s.rxMem = sock.rxMem /\ s.rxBase = sock.rxBase /\ s.lost = sock.lost
            /\ \/ s.rxRd = sock.rxRd /\ s.astray = TRUE
               \/ s.rxRd = o /\ s.astray = sock.astray
                  /\ (FrameAt(o) \/ o = Len(sock.rxMem))
            /\ ~sock.astray /\ (FrameAt(o) \/ o = Len(sock.rxMem)) => s.rxRd = o /\ ~s.astray
        BY <1>s, SockMoved
      <4> QED BY <1>y, <3>3, <3>4, <4>1
    <3>6. Synced'
      BY <3>1, <3>5 DEF Synced
    <3>7. Reading'
      BY <3>1 DEF Reading
    <3> QED BY <1>v, <2>1, <3>3, <3>5, <3>6, <3>7, <3>t
  <2> QED BY <2>2, <2>3
<1>11. CASE RxFlushRecv
  <2>p. PICK r \in Command :
        sock' = (IF Reaches(r) THEN AfterRecv ELSE RecvLost) /\ rx' = AfterReceive(r)
    BY <1>11 DEF RxFlushRecv
  <2>1. UNCHANGED stack /\ rx.pc = "flushRecv"
    BY <1>11 DEF RxFlushRecv, historyVars, RxAt
  <2>2. rx'.pc \in Quiet /\ Typed
    BY <1>e, <1>g, <2>p DEF RxPlaces
  <2>3. /\ sock'.rxMem = sock.rxMem /\ sock'.rxRd = sock.rxRd
        /\ sock'.rxBase \in {sock.rxBase, sock.rxRd}
        /\ sock'.lost \in BOOLEAN /\ sock'.astray = sock.astray
        /\ ~sock'.lost => ~sock'.astray /\ sock'.rxBase = sock'.rxRd
    BY <1>w, <2>p, <2>1
  <2> QED BY <1>q, <2>1, <2>2, <2>3
<1> QED
  BY <1>1, <1>2, <1>3, <1>4, <1>5, <1>6, <1>7, <1>8, <1>9, <1>10, <1>11 DEF RxTask

(* The arithmetic of a memory that grows by a header and k payload cells.  *)
LEMMA Grown ==
  ASSUME NEW k \in Nat, NEW b \in Nat, NEW l \in Nat, NEW c, NEW r \in Nat,
         b <= r, r <= l, c = l + (k + 1)
  PROVE  l - b \in Nat /\ c - b = (l - b) + k + 1 /\ r # c
  OBVIOUS

(* The received size grows by the header and the payload of a frame, and   *)
(* RX_RD is not behind it.                                                 *)
LEMMA ReceivedGrows ==
  ASSUME MemInv, NEW longer, NEW n \in Nat, Len(longer) = Len(sock.rxMem) + (n + 1)
  PROVE  /\ Received \in Nat /\ Len(longer) - sock.rxBase = Received + n + 1
         /\ sock.rxRd # Len(longer)
<1>1. PICK p, a, f, d : /\ p = Len(sock.rxMem) /\ a = sock.rxBase /\ f = sock.rxRd
                        /\ d = Len(longer)
  OBVIOUS
<1>2. /\ a \in Nat /\ f \in Nat /\ a <= f /\ p \in Nat /\ f <= p
  BY <1>1, LenProperties DEF MemInv, Boundary
<1>3. d = p + (n + 1)
  BY <1>1
<1>4. p - a \in Nat /\ d - a = (p - a) + n + 1 /\ f # d
  BY <1>2, <1>3, Grown, Zenon
<1> QED BY <1>1, <1>4 DEF Received

(* So does everything else: a frame is stored behind the others; OPEN,     *)
(* which empties the memory, finds the receive task at rest or astray,     *)
(* and then the RECV it has missed is still lost to it.                    *)
LEMMA RxInvStep ==
  CtlTypes /\ Shapes /\ Installing /\ RxInv /\ [Next]_ethVars => RxInv'
<1> SUFFICES ASSUME CtlTypes, Shapes, Installing, RxInv, [Next]_ethVars PROVE RxInv'
  OBVIOUS
<1>s. Shaped(sock) /\ used \in Counters /\ used.frames \in Nat
  BY OtherCounts DEF Shapes, CtlTypes, Ctl
<1>q. ASSUME RecvSame(sock'), UNCHANGED <<stack, rx>>,
             \/ used' = used \/ (\E r : Spi(r)) \/ used'.frames = used.frames
             \/ used' = [used EXCEPT !.stops = @ + 1]
      PROVE  RxInv'
  BY <1>s, <1>q, SpiCounts, OtherCounts, RxSame
<1>0. sock' = sock => RecvSame(sock')
  BY DEF RecvSame
<1>1. CASE RxTask
  BY <1>1, RxTaskStep
<1>2. CASE TxTask
  BY <1>2, <1>s, <1>q, TxFootprint, TxSock
<1>3. CASE MacInit
  <2>1. sock' = sock
    BY <1>3, InitFootprint DEF Installing, Up
  <2> QED BY <1>3, <1>q, <1>0, <2>1, InitFootprint
<1>4. CASE MacOpen
  <2>1. /\ rx.pc = "wait" \/ (rx.pc = "size" /\ Received = 0) \/ sock.astray
        /\ sock' \in {Opened, sock}
        /\ UNCHANGED <<stack, rx>> /\ \E r : Spi(r)
    BY <1>4 DEF MacOpen, LnkOnly, historyVars
  <2>2. CASE sock' = Opened
    <3>1. sock'.rxMem = <<>> /\ sock'.rxRd = 0 /\ sock'.rxBase = 0
      BY <1>s, <2>2, SockOpenClose
    <3>l. /\ sock'.astray = FALSE
          /\ sock'.lost = (sock.lost /\ rx.pc \notin {"wait", "size"})
      BY <1>s, <2>2, SockOpenClose
    <3>2. used'.frames = used.frames
      BY <1>s, <2>1, SpiCounts
    <3>3. RxTypes'
      BY <2>1 DEF RxInv, RxTypes, Word
    <3>4. MemInv'
      <4>1. sock'.lost \in BOOLEAN /\ sock'.astray \in BOOLEAN
        BY <3>l
      <4>2. Received' = 0 /\ 0 <= RxSize
        BY <3>1, EthChipAssumption DEF Received
      <4>3. /\ sock'.rxMem \in Seq(Cell) /\ WholeFrames(sock'.rxMem) /\ InOrder(sock'.rxMem)
            /\ Until(sock'.rxMem, used'.frames) /\ Boundary(sock'.rxMem, sock'.rxRd)
        BY <1>s, <3>1, <3>2, EmptyMemory
      <4>4. sock'.rxRd \in Nat /\ sock'.rxBase \in Nat /\ sock'.rxBase <= sock'.rxRd
        BY <3>1
      <4> QED BY <4>1, <4>2, <4>3, <4>4 DEF MemInv
    <3>5. rx.pc \in {"wait", "size"} \/ sock'.lost
      BY <2>1, <3>l DEF RxInv, Synced
    <3>6. Synced'
      BY <2>1, <3>1, <3>l, <3>5 DEF Synced
    <3>7. Reading'
      BY <2>1, <3>1, <3>5 DEF RxInv, Reading, RxTypes
    <3>8. FramesWhole'
      BY <2>1, <3>2 DEF RxInv, FramesWhole
    <3>9. \A i \in DOMAIN stack : Behind(<<>>, 0, stack[i][1].frame)
      BY <1>s, EmptyMemory
    <3> QED BY <2>1, <3>1, <3>3, <3>4, <3>6, <3>7, <3>8, <3>9 DEF RxInv
  <2> QED BY <1>q, <1>0, <2>1, <2>2
<1>5. CASE MacClose
  <2>1. /\ sock' \in {AfterClose, sock} /\ UNCHANGED <<stack, rx>> /\ \E r : Spi(r)
    BY <1>5 DEF MacClose, LnkOnly, historyVars
  <2>2. RecvSame(sock')
    BY <1>s, <1>0, <2>1, SockOpenClose
  <2> QED BY <1>q, <2>1, <2>2
<1>6. CASE MacUnmask \/ StartTimer \/ MacMask \/ StopTimer \/ PhyRelease \/ PhyInit
  <2>1. UNCHANGED <<sock, stack, rx>>
    BY <1>6 DEF MacUnmask, StartTimer, MacMask, StopTimer, PhyRelease, PhyInit, LnkOnly, PhyOnly,
       BootOnly, historyVars
  <2>2. (\E r : Spi(r)) \/ used' = used
    BY <1>6 DEF MacUnmask, StartTimer, MacMask, StopTimer, PhyRelease, PhyInit
  <2> QED BY <1>q, <1>0, <2>1, <2>2
<1>7. CASE GetLink \/ SetLinkDown \/ StartDriver \/ Configure \/ EthEvent
  <2>1. UNCHANGED <<sock, stack, rx>>
    BY <1>7 DEF GetLink, SetLinkDown, StartDriver, Configure, HoldInReset, PhyReset, PhySetMode,
       PhyAutonego, PhyAutonegoEn, PhyAutonegoDis, EthEvent, LnkOnly, PhyOnly, historyVars
  <2>2. (\E r : Spi(r)) \/ used' = used \/ used' = [used EXCEPT !.stops = @ + 1]
    BY <1>7 DEF GetLink, SetLinkDown, StartDriver, Configure, HoldInReset, PhyReset, PhySetMode,
       PhyAutonego, PhyAutonegoEn, PhyAutonegoDis, EthEvent
  <2> QED BY <1>q, <1>0, <2>1, <2>2
<1>8. ASSUME NEW t \in FilterTasks, FilterCall(t) \/ FilterTask(t) PROVE RxInv'
  <2>1. UNCHANGED <<sock, stack, rx>> /\ used'.frames = used.frames
    BY <1>8, <1>s, FilterFootprint
  <2> QED BY <1>q, <1>0, <2>1
<1>9. CASE NetFrame
  <2>a. PICK n \in FrameSizes : FrameArrives(used.frames + 1, n)
    BY <1>9 DEF NetFrame
  <2> DEFINE m2 == sock.rxMem \o FrameCells(used.frames + 1, n)
  <2>1. /\ sock'.rxMem = m2 /\ sock'.rxRd = sock.rxRd /\ sock'.rxBase = sock.rxBase
        /\ sock'.astray = sock.astray /\ sock'.lost = sock.lost
        /\ UNCHANGED <<stack, rx>> /\ used'.frames = used.frames + 1
        /\ sock.astray \/ Received + n + 1 <= RxSize
    BY <1>9, <1>s, <2>a, EnvCounts
       DEF NetFrame, FrameArrives, DriverSame, historyVars, Shaped, SockFields, m2
  <2> HIDE DEF m2
  <2>2. /\ sock.rxMem \in Seq(Cell) /\ sock.rxRd \in Nat /\ sock.rxBase \in Nat
        /\ WholeFrames(sock.rxMem) /\ InOrder(sock.rxMem) /\ Until(sock.rxMem, used.frames)
        /\ sock.rxBase <= sock.rxRd /\ Boundary(sock.rxMem, sock.rxRd)
        /\ sock.astray \in BOOLEAN /\ sock.lost \in BOOLEAN
    BY DEF RxInv, MemInv
  <2>3. /\ m2 \in Seq(Cell) /\ Len(m2) = Len(sock.rxMem) + (n + 1) /\ n \in Nat
        /\ WholeFrames(m2) /\ InOrder(m2) /\ Until(m2, used.frames + 1)
        /\ \A o : Boundary(sock.rxMem, o) => Boundary(m2, o)
        /\ \A o \in Nat : \A f, k : FrameFrom(sock.rxMem, o, f, k) => FrameFrom(m2, o, f, k)
        /\ \A o \in Nat, f \in 1..used.frames : Behind(sock.rxMem, o, f) => Behind(m2, o, f)
    <3> PICK i \in Nat : i = used.frames
      BY <1>s
    <3> PICK m \in Seq(Cell) : m = sock.rxMem
      BY <2>2
    <3>1. WholeFrames(m) /\ InOrder(m) /\ Until(m, i) /\ m2 = m \o FrameCells(i + 1, n)
      BY <2>2 DEF m2
    <3>2. /\ m2 \in Seq(Cell)
          /\ WholeFrames(m2) /\ InOrder(m2) /\ Until(m2, i + 1)
          /\ \A o : Boundary(m, o) => Boundary(m2, o)
          /\ \A o \in Nat : \A f, k : FrameFrom(m, o, f, k) => FrameFrom(m2, o, f, k)
          /\ \A o \in Nat, f \in 1..i : Behind(m, o, f) => Behind(m2, o, f)
      <4> PICK m3 : m3 = m2
        OBVIOUS
      <4>1. m3 = m \o FrameCells(i + 1, n)
        BY <3>1
      <4>2. /\ m3 \in Seq(Cell)
            /\ WholeFrames(m3) /\ InOrder(m3) /\ Until(m3, i + 1)
            /\ \A o : Boundary(m, o) => Boundary(m3, o)
            /\ \A o \in Nat : \A f, k : FrameFrom(m, o, f, k) => FrameFrom(m3, o, f, k)
            /\ \A o \in Nat, f \in 1..i : Behind(m, o, f) => Behind(m3, o, f)
        BY <3>1, <4>1, FrameAppended
      <4> QED BY <4>2
    <3>3. n \in Nat /\ i + 1 \in Nat
      BY EthChipAssumption
    <3>4. Len(m2) = Len(m) + (n + 1)
      <4>1. Len(m \o FrameCells(i + 1, n)) = Len(m) + (n + 1)
        BY <3>3, AppendedCells
      <4> QED BY <3>1, <4>1
    <3> QED BY <3>2, <3>3, <3>4
  <2>n. /\ Received \in Nat /\ Len(m2) - sock.rxBase = Received + n + 1
        /\ sock.rxRd # Len(m2)
    <3>1. n \in Nat /\ Len(m2) = Len(sock.rxMem) + (n + 1) /\ MemInv
      BY <2>3 DEF RxInv
    <3> QED BY <3>1, ReceivedGrows, Zenon
  <2>4. RxTypes'
    BY <2>1 DEF RxInv, RxTypes, Word
  <2>5. MemInv'
    <3>1. Received' = Received + n + 1
      <4>1. Received' = Len(m2) - sock.rxBase
        BY <2>1 DEF Received
      <4> QED BY <2>n, <4>1
    <3>2. ~sock'.astray => Received' <= RxSize
      BY <2>1, <3>1
    <3>3. /\ sock'.rxMem \in Seq(Cell) /\ WholeFrames(sock'.rxMem) /\ InOrder(sock'.rxMem)
          /\ Until(sock'.rxMem, used'.frames) /\ Boundary(sock'.rxMem, sock'.rxRd)
      BY <2>1, <2>2, <2>3
    <3> QED BY <2>1, <2>2, <3>2, <3>3 DEF MemInv
  <2>e. Synced'
    <3>1. sock.rxRd # Len(m2)
      BY <2>n
    <3> QED BY <2>1, <3>1 DEF RxInv, Synced
  <2>6. Reading'
    <3>0. rx.pc \in {"payload", "setrd"} => rx.offset >= sock.rxRd
      BY DEF RxInv, Reading
    <3>1. rx.pc \in {"payload", "setrd"} /\ ~sock.lost =>
            /\ rx.offset = sock.rxRd
            /\ \E f, k : /\ FrameFrom(m2, sock.rxRd, f, k) /\ rx.head = k + 1
                         /\ rx.pc = "setrd" /\ k <= MaxPacket => rx.buf = Payload(f, k)
      BY <2>2, <2>3, Zenon DEF RxInv, Reading
    <3>2. rx.pc = "recv" /\ ~sock.lost /\ ~Truncated =>
            \E f, k : /\ f \in 1..(used.frames + 1) /\ k \in FrameSizes
                      /\ rx.buf = Payload(f, k) /\ Behind(m2, sock.rxRd, f)
                      /\ \A i \in DOMAIN stack : stack[i][1].frame < f
      BY <1>s, <2>2, <2>3 DEF RxInv, Reading
    <3>3. Truncated' = Truncated
      BY <2>1 DEF Truncated, LenOf
    <3> QED BY <2>1, <3>0, <3>1, <3>2, <3>3 DEF Reading
  <2>7. \A i \in DOMAIN stack : stack[i][1].frame \in 1..used.frames
    <3> TAKE i \in DOMAIN stack
    <3> PICK k \in FrameSizes, g \in 1..used.frames : stack[i] = Payload(g, k)
      BY DEF RxInv, FramesWhole
    <3>1. g \in Nat /\ k \in Nat \ {0}
      BY <1>s, EthChipAssumption
    <3>2. Payload(g, k)[1].frame = g
      BY <3>1, PayloadIs
    <3> QED BY <3>2
  <2>8. \A i \in DOMAIN stack : Behind(m2, sock.rxRd, stack[i][1].frame)
    BY <2>2, <2>3, <2>7 DEF RxInv
  <2>9. FramesWhole'
    <3>1. 1..used.frames \subseteq 1..(used.frames + 1)
      BY <1>s
    <3> QED BY <2>1, <3>1 DEF RxInv, FramesWhole
  <2> QED BY <2>1, <2>4, <2>5, <2>e, <2>6, <2>8, <2>9 DEF RxInv
<1>10. CASE NetSent
  <2>1. RecvSame(sock') /\ UNCHANGED <<stack, rx, used>>
    BY <1>10, <1>s, SockSending DEF NetSent, FrameSent, DriverSame, historyVars
  <2> QED BY <1>q, <2>1
<1>11. CASE CableIn \/ CableOut \/ PollTimer \/ Transmit
  <2>1. UNCHANGED <<sock, stack, rx>>
    BY <1>11 DEF CableIn, CableOut, LinkUp, LinkDown, PollTimer, Transmit, DriverSame, ethChipVars,
       historyVars
  <2>2. used'.frames = used.frames
    BY <1>11, <1>s, EnvCounts DEF CableIn, CableOut, PollTimer, Transmit
  <2> QED BY <1>q, <1>0, <2>1, <2>2
<1>12. CASE UNCHANGED ethVars
  BY <1>12, <1>q, <1>0 DEF ethVars, ethChipVars, macVars, historyVars
<1> QED
  BY <1>1, <1>2, <1>3, <1>4, <1>5, <1>6, <1>7, <1>8, <1>9, <1>10, <1>11, <1>12
  DEF Next, Receive, Install, PhySteps, PhyTask

(* The status of socket 0 and the interrupt bit of the receive task.       *)
ChipFlags == sock.sr \in {"CLOSED", "MACRAW"} /\ sock.recv \in BOOLEAN

(* Every step keeps the status and the RECV bit of socket 0 in their       *)
(* types.                                                                  *)
LEMMA ChipFlagsStep ==
  Shapes /\ Installing /\ ChipFlags /\ CtlTypes /\ [Next]_ethVars => ChipFlags'
<1> SUFFICES ASSUME Shapes, Installing, ChipFlags, CtlTypes, [Next]_ethVars PROVE ChipFlags'
  OBVIOUS
<1>s. Shaped(sock) /\ sock.sr \in {"CLOSED", "MACRAW"} /\ sock.recv \in BOOLEAN
  BY DEF Shapes, ChipFlags
<1>0. sock' = sock => ChipFlags'
  BY DEF ChipFlags
<1>1. CASE RxTask
  <2>1. sock'.recv = sock.recv \/ sock'.recv = FALSE
    <3> USE <1>s, SockReading
    <3>1. CASE RxWake BY <3>1 DEF RxWake, ethChipVars
    <3>2. CASE RxStatus BY <3>2 DEF RxStatus, ethChipVars
    <3>3. CASE RxClear BY <3>3 DEF RxClear, Shaped, SockFields
    <3>4. CASE RxSizeRead BY <3>4 DEF RxSizeRead, ethChipVars
    <3>5. CASE RxHead BY <3>5 DEF RxHead, ethChipVars
    <3>6. CASE RxNoMem BY <3>6 DEF RxNoMem, ethChipVars
    <3>7. CASE RxPayload BY <3>7 DEF RxPayload, ethChipVars
    <3>m. ASSUME NEW o, sock' = MovedTo(o) PROVE sock'.recv = sock.recv
      <4> PICK s : s = MovedTo(o)
        OBVIOUS
      <4>1. s.recv = sock.recv
        BY SockMoved
      <4> QED BY <3>m, <4>1
    <3>8. CASE RxSetRd
      <4>1. sock' = sock \/ \E o : sock' = MovedTo(o)
        BY <3>8 DEF RxSetRd
      <4> QED BY <3>m, <4>1
    <3>9. CASE RxRecv BY <3>9, SockFreed DEF RxRecv
    <3>10. CASE RxFlush
      <4>1. sock' = sock \/ \E o : sock' = MovedTo(o)
        BY <3>10 DEF RxFlush
      <4> QED BY <3>m, <4>1
    <3>11. CASE RxFlushRecv BY <3>11, SockFreed DEF RxFlushRecv
    <3> QED BY <1>1, <3>1, <3>2, <3>3, <3>4, <3>5, <3>6, <3>7, <3>8, <3>9, <3>10, <3>11 DEF RxTask
  <2> QED BY <1>1, <1>s, <2>1, RxSock DEF ChipFlags
<1>2. CASE TxTask
  BY <1>2, <1>s, TxSock DEF ChipFlags
<1>3. CASE MacInit
  BY <1>3, <1>s, InitFootprint, SockOpenClose DEF ChipFlags
<1>4. CASE PhyTask
  <2>1. sock' \in {sock, Opened, AfterClose}
    BY <1>4 DEF PhyTask, MacOpen, MacUnmask, StartTimer, MacMask, MacClose, StopTimer, PhyRelease,
       PhyOnly
  <2> QED BY <1>s, <2>1, SockOpenClose DEF ChipFlags
<1>5. CASE PhyInit \/ GetLink \/ SetLinkDown \/ StartDriver \/ Configure
           \/ EthEvent \/ CableIn \/ CableOut \/ PollTimer
           \/ Transmit \/ UNCHANGED ethVars
  <2>1. sock' = sock
    BY <1>5 DEF PhyInit, BootOnly, GetLink, SetLinkDown, LnkOnly, StartDriver, Configure,
       HoldInReset, PhyReset, PhySetMode, PhyAutonego, PhyAutonegoEn, PhyAutonegoDis, PhyOnly,
       EthEvent, CableIn, CableOut, LinkUp, LinkDown, PollTimer, Transmit, ethVars, ethChipVars
  <2> QED BY <1>0, <2>1
<1>6. CASE NetFrame
  <2>1. sock'.sr = sock.sr /\ sock'.recv = TRUE
    BY <1>6, <1>s DEF NetFrame, FrameArrives, Shaped, SockFields
  <2> QED BY <1>s, <2>1 DEF ChipFlags
<1>7. CASE NetSent
  <2>1. sock'.sr = sock.sr /\ sock'.recv = sock.recv
    BY <1>7, <1>s, SockSending DEF NetSent, FrameSent
  <2> QED BY <1>s, <2>1 DEF ChipFlags
<1>8. ASSUME NEW t \in FilterTasks, FilterCall(t) \/ FilterTask(t) PROVE ChipFlags'
  BY <1>0, <1>8, FilterFootprint DEF CtlTypes, Ctl
<1> QED
  BY <1>1, <1>2, <1>3, <1>4, <1>5, <1>6, <1>7, <1>8 DEF Next, Receive, Install, PhySteps

-----------------------------------------------------------------------------
(* The driver                                                              *)

(* The inductive invariant of the driver.                                  *)
EthInv ==
  /\ CtlTypes /\ Shapes /\ ChipFlags /\ Installing
  /\ Alone /\ Filter /\ LinkInv /\ TxInv /\ RxInv

(* It holds before the chip has been reset.                                *)
LEMMA EthInvInit == Init => EthInv
<1> SUFFICES ASSUME Init PROVE EthInv
  OBVIOUS
<1>s. /\ sock.sr = "CLOSED" /\ sock.recv = FALSE /\ sock.sent = FALSE
      /\ sock.rxMem = <<>> /\ sock.rxRd = 0 /\ sock.rxBase = 0
      /\ sock.astray = FALSE /\ sock.lost = FALSE
      /\ sock.txMem = <<>> /\ sock.sendQ = <<>>
  BY DEF Init, EmptySock
<1>r. /\ rx.pc = "wait" /\ rx.remain = 0 /\ rx.offset = 0 /\ rx.head = 0 /\ rx.buf = <<>>
      /\ rx.more = FALSE
      /\ tx.pc = "idle" /\ tx.frame = 0
  BY DEF Init, RxIdle, TxIdle
<1>l. lnk.pc = "idle" /\ boot = "reset" /\ used.frames = 0 /\ used.sends = 0
  BY DEF Init, LnkIdle, Nothing
<1>f. /\ \A t \in FilterTasks : flt[t].pc = "idle" /\ flt[t].call = "none"
      /\ mcast = 0 /\ groups = 0 /\ promisc = FALSE /\ spoilt = {}
  BY DEF Init, FilterInit, FilterIdle
<1>1. ChipFlags
  BY <1>s DEF ChipFlags
<1>2. Installing
  BY <1>l, <1>r, <1>f DEF Init, Installing, Up, Resting, FltAt
<1>a. Alone
  BY <1>f, <1>l DEF Alone, FltAt, Up
<1>3. Filter
  BY <1>f, <1>l, FilterAssumption DEF Filter, Up, FltAt
<1>4. LinkInv
  BY <1>s, <1>l DEF Init, LinkInv, Opening, Closing, Said
<1>5. TxInv
  <2>1. TxTypes
    <3>1. wire = <<>> /\ <<>> \in Seq(Nat) /\ <<>> \in Seq(Seq(Nat))
      BY DEF Init
    <3>2. tx.pc \in TxPlaces /\ tx.frame \in Nat
      BY <1>r DEF TxPlaces
    <3> QED BY <1>s, <3>1, <3>2 DEF TxTypes
  <2>2. TxBad
    BY <1>s, <1>r, <1>l DEF Init, TxBad, OneFrameEach, AllButLast
  <2>3. TxClean
    BY <1>s, <1>r DEF Init, TxClean
  <2>4. OkIsSent
    BY DEF Init, OkIsSent
  <2> QED BY <2>1, <2>2, <2>3, <2>4 DEF TxInv
<1>6. RxInv
  <2>0. 0 \in Word /\ Len(<<>>) = 0 /\ 0 <= MaxPacket /\ <<>> \in Seq(Cell)
    BY Lengths, EthChipAssumption
  <2>1. RxTypes
    <3>1. rx.pc \in RxPlaces /\ rx.more \in BOOLEAN
      BY <1>r DEF RxPlaces
    <3>2. rx.remain \in Word /\ rx.offset \in Nat /\ rx.head \in Word
      BY <1>r, <2>0
    <3>3. rx.buf \in Seq(Cell) /\ Len(rx.buf) <= MaxPacket
      BY <1>r, <2>0
    <3>4. stack \in Seq(Seq(Cell))
      BY DEF Init
    <3> QED BY <3>1, <3>2, <3>3, <3>4 DEF RxTypes
  <2>2. MemInv
    <3>1. Received = 0 /\ 0 <= RxSize
      <4>1. sock.rxMem = <<>> /\ sock.rxBase = 0
        BY <1>s
      <4> QED BY <4>1, EthChipAssumption DEF Received
    <3>2. sock.astray \in BOOLEAN /\ sock.lost \in BOOLEAN
      BY <1>s
    <3>3. /\ sock.rxMem \in Seq(Cell) /\ WholeFrames(sock.rxMem) /\ InOrder(sock.rxMem)
          /\ Until(sock.rxMem, used.frames) /\ Boundary(sock.rxMem, sock.rxRd)
      <4>1. sock.rxMem = <<>> /\ sock.rxRd = 0 /\ used.frames \in Nat
        BY <1>s, <1>l
      <4> QED BY <4>1, EmptyMemory
    <3>4. sock.rxRd \in Nat /\ sock.rxBase \in Nat /\ sock.rxBase <= sock.rxRd
      BY <1>s
    <3> QED BY <3>1, <3>2, <3>3, <3>4 DEF MemInv
  <2>3. Reading /\ Synced
    BY <1>r, <1>s DEF Reading, Synced
  <2>4. FramesWhole /\ stack = <<>>
    BY DEF Init, FramesWhole
  <2> QED BY <2>1, <2>2, <2>3, <2>4 DEF RxInv
<1> QED
  BY <1>1, <1>2, <1>a, <1>3, <1>4, <1>5, <1>6, CtlTypesInit, ShapesInit DEF EthInv

(* The inductive invariant holds throughout: the installation, the receive *)
(* task, the transmit function, the link check, the filter and the chip    *)
(* keep it, for every number of frames, faults, link changes and filter    *)
(* calls, and every width of the counters.                                 *)
THEOREM EthInvariant == Spec => []EthInv
<1>1. Init => EthInv
  BY EthInvInit
<1>2. EthInv /\ [Next]_ethVars => EthInv'
  <2> SUFFICES ASSUME EthInv, [Next]_ethVars PROVE EthInv'
    OBVIOUS
  <2>1. CtlTypes' /\ Shapes' /\ ChipFlags' /\ Installing'
    BY CtlTypesStep, ShapesStep, ChipFlagsStep, InstallingStep DEF EthInv
  <2>2. Alone' /\ Filter'
    BY <2>1, AloneStep, FilterStep DEF EthInv
  <2>3. LinkInv' /\ TxInv' /\ RxInv'
    BY LinkStep, TxStep, RxInvStep DEF EthInv
  <2> QED BY <2>1, <2>2, <2>3 DEF EthInv
<1> QED
  BY <1>1, <1>2, PTL DEF Spec

(* Every variable has its type, whatever accesses fail and wherever RX_RD  *)
(* leads: the lengths and sizes stay within 16 bits, what is read of a     *)
(* frame, or of what is taken for one, fits rx_buffer, and mcast_cnt stays *)
(* in its range (esp_eth_mac_w5500.c, esp_eth_phy_w5500.c).                *)
THEOREM TypesHold == Spec => []EthTypeOK
<1>1. EthInv => EthTypeOK
  <2> SUFFICES ASSUME EthInv PROVE EthTypeOK
    OBVIOUS
  <2>1. /\ Flags /\ Ctl /\ FltTypes /\ Shaped(sock) /\ ChipFlags /\ RxTypes /\ TxTypes
        /\ MemInv
    BY DEF EthInv, CtlTypes, Shapes, TxInv, RxInv
  <2>3. ChipTypeOK
    <3>1. sock \in [sr : {"CLOSED", "MACRAW"}, recv : BOOLEAN, sent : BOOLEAN,
                    rxMem : Seq(Cell), rxRd : Nat, rxBase : Nat,
                    astray : BOOLEAN, lost : BOOLEAN,
                    txMem : Seq(Nat), sendQ : Seq(Seq(Nat))]
      BY <2>1 DEF Shaped, SockFields, ChipFlags, MemInv, TxTypes
    <3>2. simr \in BOOLEAN /\ mr \in ModeBits /\ wire \in Seq(Seq(Nat))
      BY <2>1 DEF Flags, TxTypes
    <3>3. phy \in [link : BOOLEAN, reset : BOOLEAN, opmode : {"all", "forced"}]
      BY <2>1 DEF Ctl, PhyType
    <3> QED BY <3>1, <3>2, <3>3 DEF ChipTypeOK
  <2>4. lnk.pc \in LnkPlaces
    BY <2>1, LnkMoves DEF Ctl
  <2>5. boot \in BootPlaces /\ rx.pc \in RxPlaces /\ tx.pc \in TxPlaces
    BY <2>1 DEF Ctl, RxTypes, TxTypes
  <2>6. {notify, ticking, polled, linkStatus, running, connected, promisc} \subseteq BOOLEAN
    BY <2>1 DEF Flags, FltTypes
  <2>7. mcast \in 0..(CountSpan - 1) /\ groups \in Nat
    BY <2>1 DEF FltTypes
  <2>8. rx.remain \in Word /\ rx.head \in Word /\ Len(rx.buf) <= MaxPacket
    BY <2>1 DEF RxTypes
  <2> QED BY <2>3, <2>4, <2>5, <2>6, <2>7, <2>8
          DEF EthTypeOK, BootPlaces, RxPlaces, TxPlaces, LnkPlaces
<1> QED
  BY <1>1, EthInvariant, PTL

(* RX_RD leads to the start of a frame, or to the end of what has arrived, *)
(* whichever access or malloc fails, as long as no RECV does               *)
(* (emac_w5500_alloc_recv_buf, emac_w5500_receive,                         *)
(* emac_w5500_flush_recv_frame).                                           *)
THEOREM RxInStep == Spec => []InStep
<1>1. EthInv => InStep
  BY DEF EthInv, RxInv, Synced, InStep
<1> QED
  BY <1>1, EthInvariant, PTL

(* What reaches stack_input while no RECV is lost are whole frames, in the *)
(* order of arrival and each at most once, whatever other accesses fail,   *)
(* and a lost RECV too once RX_RD is in step again (emac_w5500_task,       *)
(* emac_w5500_receive, emac_w5500_flush_recv_frame).                       *)
THEOREM FramesAreWhole == Spec => []FramesWhole
<1>1. EthInv => FramesWhole
  BY DEF EthInv, RxInv
<1> QED
  BY <1>1, EthInvariant, PTL

(* ESP_OK means that the frame has left the chip, unless an earlier        *)
(* transmit failed; and two frames are glued together only behind a failed *)
(* one (emac_w5500_transmit).                                              *)
THEOREM TransmitIsHonest == Spec => []TransmitHonest
<1>1. EthInv => TransmitHonest
  BY DEF EthInv, TxInv, TxBad, TransmitHonest
<1> QED
  BY <1>1, EthInvariant, PTL

(* Without a failed access, the socket, the interrupt, poll_timer,         *)
(* link_status and the application's link flag agree whenever no PHY       *)
(* function runs (w5500_update_link_duplex_speed, emac_w5500_set_link,     *)
(* eth_event_handler).                                                     *)
THEOREM LinkIsAgreed == Spec => []LinkAgrees
<1>1. EthInv => LinkAgrees
  BY DEF EthInv, LinkInv, LinkAgrees, Said
<1> QED
  BY <1>1, EthInvariant, PTL

(* Between the calls that change it, the multicast block is lifted exactly *)
(* while a group is joined, as long as no two calls have overlapped, fewer *)
(* groups than mcast_cnt can count were joined, and set_all_multicast was  *)
(* not used; and the MAC filter follows the promiscuous mode that was set  *)
(* last, unless two calls have overlapped (emac_w5500_add_mac_filter,      *)
(* emac_w5500_del_mac_filter, emac_w5500_set_promiscuous,                  *)
(* emac_w5500_set_block_ip4_mcast).                                        *)
THEOREM FilterIsKept == Spec => []FilterKept
<1>1. EthInv => GroupsHeard
  BY DEF EthInv, Filter, Heard, GroupsHeard
<1>2. EthInv => PromiscuousKept
  BY DEF EthInv, Alone, PromiscuousKept
<1>3. EthInv => FilterKept
  BY <1>1, <1>2 DEF FilterKept
<1> QED
  BY <1>3, EthInvariant, PTL

=============================================================================
