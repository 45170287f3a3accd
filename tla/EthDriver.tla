----------------------------- MODULE EthDriver -----------------------------
(***************************************************************************)
(* The esp_eth driver of the W5500 (WIZNET_TOE=0) as a whole: the receive  *)
(* task, a task that transmits, the link check, the event loop, the tasks  *)
(* that change the filter, the chip and the network.                       *)
(***************************************************************************)
EXTENDS EthPhy, EthFilter

CONSTANTS Workloads   \* bounds: each says how often the environment does what

ethVars == <<ethChipVars, work, used, boot, polled, macVars, historyVars, phyDrvVars,
             filterVars>>

Nothing == [frames |-> 0, sends |-> 0, flips |-> 0, stops |-> 0, noMem |-> 0,
            late |-> 0, joins |-> 0, allMulti |-> 0, promisc |-> 0, faults |-> 0]

ASSUME WorkloadAssumption ==
  \A w \in Workloads : DOMAIN w = DOMAIN Nothing /\ \A k \in DOMAIN w : w[k] \in Nat

Init ==
  /\ sock = EmptySock /\ simr = FALSE /\ wire = <<>>
  /\ mr = [block |-> FALSE, filter |-> FALSE]
  /\ phy = [link |-> FALSE, reset |-> FALSE, opmode |-> "all"]
  /\ work \in Workloads /\ used = Nothing /\ boot = "reset" /\ polled \in BOOLEAN
  /\ notify = FALSE /\ ticking = FALSE /\ rx = RxIdle /\ tx = TxIdle
  /\ stack = <<>> /\ okFrames = {} /\ badFrames = {}
  /\ lnk = LnkIdle /\ linkStatus = FALSE /\ running = FALSE
  /\ events = <<>> /\ connected = FALSE /\ stopFailed = FALSE
  /\ FilterInit

-----------------------------------------------------------------------------
(* The environment, within the chosen workload                             *)

Env(kind) ==
  /\ used[kind] < work[kind]
  /\ used' = [used EXCEPT ![kind] = @ + 1]
DriverSame == UNCHANGED <<work, boot, polled, ticking, rx, tx, historyVars, phyDrvVars,
                          filterVars>>

NetFrame ==
  /\ Env("frames")
  /\ \E n \in FrameSizes : FrameArrives(used.frames + 1, n)
  /\ Isr /\ DriverSame
NetSent == FrameSent /\ UNCHANGED <<used, notify>> /\ DriverSame
CableIn  == Env("flips") /\ LinkUp /\ UNCHANGED notify /\ DriverSame
CableOut == LinkDown /\ UNCHANGED <<used, notify>> /\ DriverSame

\* poll_timer notifies the task: w5500_poll_timer.
PollTimer ==
  /\ ticking /\ ~notify
  /\ notify' = TRUE
  /\ UNCHANGED <<ethChipVars, used>> /\ DriverSame

\* The stack transmits while the driver is up, one frame at a time.
Transmit ==
  /\ TxAt("idle") /\ running /\ linkStatus /\ lnk.pc = "idle"
  /\ Env("sends")
  /\ tx' = [pc |-> "write", frame |-> used.sends + 1]
  /\ UNCHANGED <<ethChipVars, work, boot, polled, notify, ticking, rx, historyVars,
                 phyDrvVars, filterVars>>

(* The application changes the filter while the driver is up, from any of  *)
(* its tasks, one call of a task at a time.                                *)
Up == boot = "up"
Joining == {t \in FilterTasks : flt[t].call = "add"}
Within(c) ==
  CASE c = "add" -> groups + Cardinality(Joining) < work.joins
    [] c = "del" -> TRUE
    [] c = "delOther" -> work.joins > 0
    [] c \in {"allOn", "allOff"} -> work.allMulti > 0
    [] OTHER -> work.promisc > 0
FilterCall(t) == Up /\ \E c \in FilterCalls : Within(c) /\ Starts(t, c)

Configure == PhyReset \/ PhySetMode \/ PhyAutonegoEn \/ PhyAutonegoDis

\* The receive task, and the rest of the MAC and PHY drivers.
Receive  == RxTask /\ UNCHANGED <<phyDrvVars, filterVars>>
Install  == MacInit /\ UNCHANGED <<phyDrvVars, filterVars>>
PhySteps == PhyTask /\ UNCHANGED filterVars

Next ==
  \/ Receive
  \/ TxTask /\ UNCHANGED <<phyDrvVars, filterVars>>
  \/ Install
  \/ PhyInit /\ UNCHANGED filterVars
  \/ GetLink /\ UNCHANGED filterVars
  \/ PhySteps
  \/ (SetLinkDown \/ StartDriver \/ Configure) /\ UNCHANGED filterVars
  \/ EthEvent /\ UNCHANGED filterVars
  \/ \E t \in FilterTasks : (FilterCall(t) \/ FilterTask(t)) /\ UNCHANGED phyDrvVars
  \/ NetFrame \/ NetSent \/ CableIn \/ CableOut \/ PollTimer \/ Transmit

Spec == Init /\ [][Next]_ethVars

(* The start-up, the tasks and the event loop are scheduled, and the timers *)
(* fire.  Nothing makes an access fail: a step that can only fail or leave *)
(* everything as it is, like a link check without a change, is not owed.   *)
NoFault == used'.faults = used.faults
Fairness ==
  /\ WF_ethVars(Install /\ NoFault) /\ WF_ethVars(PhyInit /\ UNCHANGED filterVars /\ NoFault)
  /\ WF_ethVars(Receive /\ NoFault)
  /\ WF_ethVars(PollTimer)
  /\ WF_ethVars(GetLink /\ UNCHANGED filterVars /\ NoFault)
  /\ WF_ethVars(PhySteps /\ NoFault)
  /\ WF_ethVars(EthEvent /\ UNCHANGED filterVars)
FairSpec == Spec /\ Fairness

-----------------------------------------------------------------------------
(* Properties                                                              *)

(* Types of the MAC driver, the PHY driver and the filter: 16-bit lengths  *)
(* and sizes in the receive task, mcast_cnt in its uint8_t; what is read   *)
(* of a frame, or of what is taken for one, fits rx_buffer.                *)
EthTypeOK ==
  /\ ChipTypeOK
  /\ boot \in {"reset", "verify", "setup", "phy", "start", "up"}
  /\ rx.pc \in {"wait", "ir", "clear", "size", "head", "payload", "setrd", "recv",
                "flush", "flushRecv"}
  /\ tx.pc \in {"idle", "write", "send", "poll", "ack"}
  /\ lnk.pc \in {"idle", "open", "unmask", "tick", "mask", "close", "untick", "release"}
  /\ {notify, ticking, polled, linkStatus, running, connected, promisc} \subseteq BOOLEAN
  /\ rx.remain \in Word /\ rx.head \in Word /\ Len(rx.buf) <= MaxPacket
  /\ mcast \in 0..(CountSpan - 1) /\ groups \in Nat

(* RX_RD leads to the start of a frame, or to the end of what has arrived, *)
(* whatever accesses and mallocs fail; but not when a RECV has failed: the *)
(* size then still counts what RX_RD has left behind, and the task takes   *)
(* old memory for a frame (emac_w5500_alloc_recv_buf, emac_w5500_receive,  *)
(* emac_w5500_flush_recv_frame).                                           *)
InStep == sock.astray => sock.lost

(* What reaches stack_input while no RECV is lost are whole frames, in the *)
(* order of arrival and each at most once, whatever other accesses fail    *)
(* and have failed, an earlier RECV included if the driver is in step      *)
(* again (emac_w5500_task, emac_w5500_receive,                             *)
(* emac_w5500_flush_recv_frame).                                           *)
FramesWhole ==
  /\ \A i \in DOMAIN stack :
       \E n \in FrameSizes, f \in 1..used.frames : stack[i] = Payload(f, n)
  /\ \A i, j \in DOMAIN stack : i < j => stack[i][1].frame < stack[j][1].frame

(* A frame whose transmit returned ESP_OK has left the chip, unless an     *)
(* earlier transmit failed and left its SEND bit behind; and SEND takes    *)
(* what was written since the one before: a frame on the wire is one       *)
(* transmitted frame, unless a SEND failed and its frame is glued to the   *)
(* next one (emac_w5500_transmit).                                         *)
OkIsSent ==
  \A f \in okFrames :
    \/ \E i \in DOMAIN wire : \E k \in DOMAIN wire[i] : wire[i][k] = f
    \/ \E b \in badFrames : b < f

OneFrameEach ==
  \A i \in DOMAIN wire : \A k \in DOMAIN wire[i] :
    k < Len(wire[i]) => wire[i][k] \in badFrames
TransmitHonest == OkIsSent /\ OneFrameEach

(* Between two checks, the socket, the interrupt and poll_timer are on     *)
(* exactly when link_status is up, and the application's link flag agrees  *)
(* once the events are handled (w5500_update_link_duplex_speed,            *)
(* emac_w5500_set_link, eth_event_handler).                                *)
LinkAgrees ==
  lnk.pc = "idle" /\ used.faults = 0 =>
    /\ linkStatus = (sock.sr = "MACRAW")
    /\ linkStatus = simr
    /\ polled => (linkStatus = ticking)
    /\ events = <<>> => connected = linkStatus

(* Between the calls that change it, the multicast block is lifted exactly *)
(* while a group is joined; as long as no two calls have overlapped, fewer *)
(* than CountSpan groups were joined at any time, and set_all_multicast,   *)
(* which forgets how many there are, was not used                          *)
(* (emac_w5500_add_mac_filter, emac_w5500_del_mac_filter).                 *)
GroupsHeard ==
  Up /\ spoilt = {} /\ Resting =>
    /\ groups > 0 => ~mr.block
    /\ groups = 0 /\ used.faults = 0 => mr.block

(* The MAC filter is off exactly while promiscuous mode is set, whatever   *)
(* groups come and go, unless two calls have overlapped: every call writes *)
(* both bits of Sn_MR (emac_w5500_set_promiscuous,                         *)
(* emac_w5500_set_block_ip4_mcast).                                        *)
PromiscuousKept ==
  Up /\ "raced" \notin spoilt /\ Resting => mr.filter = ~promisc

(* The filter does what was asked of it, as far as the code can tell: both *)
(* bits of Sn_MR (GroupsHeard, PromiscuousKept).                           *)
FilterKept == GroupsHeard /\ PromiscuousKept

(* A frame in the chip is read, or the link goes away; without a failed    *)
(* access, in interrupt and in poll mode (emac_w5500_task).                *)
FrameRead ==
  (Received > 0 /\ linkStatus) ~>
    (Received = 0 \/ sock.sr = "CLOSED" \/ ~linkStatus \/ used.faults > 0)

(* The receive task, of high priority, comes back to wait for a            *)
(* notification (packets_remain in emac_w5500_task).                       *)
TaskRests == []<>(rx.pc = "wait" \/ used.faults > 0)

(* When there is a link for good the driver is installed and serves it,    *)
(* even if an access fails meanwhile: a failed step of the installation    *)
(* restarts the ESP32, and link_status is assigned last, so that the next  *)
(* check repeats what failed (emac_w5500_init, w5500_reset,                *)
(* w5500_update_link_duplex_speed).                                        *)
Serving == linkStatus /\ sock.sr = "MACRAW" /\ simr /\ connected
LinkServed == <>[](phy.link /\ (Up => running)) => <>[](Serving \/ stopFailed)
=============================================================================
