------------------------------- MODULE EthPhy -------------------------------
(***************************************************************************)
(* esp_eth_phy_w5500.c, and the part of esp_eth_mac_w5500.c it drives:     *)
(* get_link compares PHYCFGR with link_status and, when they differ,       *)
(* reports the change, which starts or stops the MAC; link_status is       *)
(* assigned after everything has succeeded.  The functions that change the *)
(* PHY's mode put link_status down themselves and reset the PHY.           *)
(*                                                                         *)
(* The caller is the driver of ESP-IDF (external): a timer calls get_link  *)
(* while the driver runs; stopping it calls set_link(DOWN); the other      *)
(* functions are called while it is stopped.                               *)
(***************************************************************************)
EXTENDS EthMac

VARIABLES
  lnk,         \* the running PHY function: pc, and the link it reports
  linkStatus,  \* link_status of the PHY driver
  running,     \* the driver is started: its timer calls get_link
  events,      \* link events posted and not yet handled
  connected,   \* s_eth_connected of net_backend_eth.c
  stopFailed   \* history: a failed access left the MAC half stopped

phyDrvVars == <<lnk, linkStatus, running, events, connected, stopFailed>>

LnkIdle == [pc |-> "idle", up |-> FALSE, keep |-> FALSE]
LnkAt(p) == lnk.pc = p
LnkOnly == UNCHANGED <<rx, tx, mr, wire, historyVars, polled, work, boot>>

\* Mutant: link_status is assigned before the change is reported.
GetLinkFirst ==
  /\ LnkAt("idle") /\ running
  /\ \E r \in Access :
       /\ Spi(r)
       /\ lnk' = IF r = "done" /\ linkStatus # phy.link
                 THEN [pc |-> IF phy.link THEN "open" ELSE "mask",
                       up |-> phy.link, keep |-> FALSE]
                 ELSE LnkIdle
       /\ linkStatus' = IF r = "done" THEN phy.link ELSE linkStatus
  /\ UNCHANGED <<sock, simr, phy, notify, ticking, running, events,
                 connected, stopFailed>> /\ LnkOnly

(* get_link.  An unchanged or unreadable PHYCFGR changes nothing.          *)
GetLink ==
  /\ LnkAt("idle") /\ running
  /\ \E r \in Access :
       /\ Spi(r)
       /\ lnk' = IF r = "done" /\ linkStatus # phy.link
                 THEN [pc |-> IF phy.link THEN "open" ELSE "mask",
                       up |-> phy.link, keep |-> FALSE]
                 ELSE LnkIdle
  /\ UNCHANGED <<sock, simr, phy, notify, ticking, linkStatus, running, events,
                 connected, stopFailed>> /\ LnkOnly

(* set_link(DOWN), when the driver is stopped: the status is put down      *)
(* before the MAC is.                                                      *)
SetLinkDown ==
  /\ LnkAt("idle") /\ running
  /\ used.stops < work.stops
  /\ used' = [used EXCEPT !.stops = @ + 1]
  /\ running' = FALSE
  /\ linkStatus' = FALSE
  /\ lnk' = IF linkStatus THEN [pc |-> "mask", up |-> FALSE, keep |-> TRUE] ELSE LnkIdle
  /\ UNCHANGED <<sock, simr, phy, notify, ticking, events, connected, stopFailed>>
  /\ LnkOnly

\* A callback that fails ends the function; get_link leaves link_status.
Fails == lnk' = LnkIdle /\ UNCHANGED <<linkStatus, events>>
Reported ==
  /\ lnk' = LnkIdle
  /\ linkStatus' = IF lnk.keep THEN linkStatus ELSE lnk.up
  /\ events' = Append(events, lnk.up)

-----------------------------------------------------------------------------
(* emac_w5500_set_link                                                     *)

(* UP: start() opens the socket and enables the interrupt.  The check is   *)
(* made every two seconds, so that no task is in a frame by then, unless   *)
(* the receive task has gone astray and reads on and on; then what it      *)
(* holds is of no frame of the new memory, and it stays out of step until  *)
(* its next RECV.                                                          *)
Opened == [AfterOpen EXCEPT !.lost = sock.lost /\ rx.pc \notin {"wait", "size"}]
MacOpen ==
  /\ LnkAt("open")
  /\ rx.pc = "wait" \/ (rx.pc = "size" /\ Received = 0) \/ sock.astray
  /\ tx.pc = "idle"
  /\ \E r \in Command :
       /\ Spi(r)
       /\ sock' = IF Reaches(r) THEN Opened ELSE sock
       /\ IF r = "done" THEN lnk' = [lnk EXCEPT !.pc = "unmask"]
                             /\ UNCHANGED <<linkStatus, events>>
          ELSE Fails
  /\ UNCHANGED <<simr, phy, notify, ticking, running, connected, stopFailed>> /\ LnkOnly
MacUnmask ==
  /\ LnkAt("unmask")
  /\ \E r \in Access :
       /\ Spi(r)
       /\ simr' = IF r = "done" THEN TRUE ELSE simr
       /\ IF r = "done" THEN lnk' = [lnk EXCEPT !.pc = "tick"]
                             /\ UNCHANGED <<linkStatus, events>>
          ELSE Fails
  /\ UNCHANGED <<sock, phy, ticking, running, connected, stopFailed>> /\ LnkOnly
  /\ Isr

\* Starting a timer that runs is an error.
StartTimer ==
  /\ LnkAt("tick")
  /\ ticking' = polled
  /\ IF polled /\ ticking THEN Fails ELSE Reported
  /\ UNCHANGED <<sock, simr, phy, notify, used, running, connected, stopFailed>> /\ LnkOnly

(* DOWN: stop() disables the interrupt and closes the socket.              *)
HalfStopped(r) == stopFailed' = (stopFailed \/ r # "done")
MacMask ==
  /\ LnkAt("mask")
  /\ \E r \in Access :
       /\ Spi(r) /\ HalfStopped(r)
       /\ simr' = IF r = "done" THEN FALSE ELSE simr
       /\ IF r = "done" THEN lnk' = [lnk EXCEPT !.pc = "close"]
                             /\ UNCHANGED <<linkStatus, events>>
          ELSE Fails
  /\ UNCHANGED <<sock, phy, notify, ticking, running, connected>> /\ LnkOnly
MacClose ==
  /\ LnkAt("close")
  /\ \E r \in Command :
       /\ Spi(r) /\ HalfStopped(r)
       /\ sock' = IF Reaches(r) THEN AfterClose ELSE sock
       /\ IF r = "done" THEN lnk' = [lnk EXCEPT !.pc = "untick"]
                             /\ UNCHANGED <<linkStatus, events>>
          ELSE Fails
  /\ UNCHANGED <<simr, phy, notify, ticking, running, connected>> /\ LnkOnly

\* So is stopping one that does not run.
StopTimerLeft ==   \* mutant: it is left running
  /\ LnkAt("untick")
  /\ Reported
  /\ UNCHANGED <<sock, simr, phy, notify, ticking, used, running, connected, stopFailed>>
  /\ LnkOnly
StopTimer ==
  /\ LnkAt("untick")
  /\ ticking' = FALSE
  /\ IF polled /\ ~ticking THEN Fails ELSE Reported
  /\ UNCHANGED <<sock, simr, phy, notify, used, running, connected, stopFailed>> /\ LnkOnly

-----------------------------------------------------------------------------
(* The mode of the PHY                                                     *)

\* reset, set_speed, set_duplex, autonego_ctrl RESTART: down, reset, release.
PhyOnly == UNCHANGED <<sock, simr, notify, ticking, events, connected, stopFailed>> /\ LnkOnly
Stopped == boot = "up" /\ ~running
HoldInReset(mode) ==
  /\ LnkAt("idle")
  /\ linkStatus' = FALSE
  /\ \E r \in Access :
       /\ Spi(r)
       /\ phy' = IF r = "done" THEN [link |-> FALSE, reset |-> TRUE, opmode |-> mode]
                 ELSE phy
       /\ lnk' = IF r = "done" THEN [LnkIdle EXCEPT !.pc = "release"] ELSE LnkIdle
  /\ PhyOnly
PhyReset   == Stopped /\ HoldInReset(phy.opmode) /\ UNCHANGED running
PhySetMode == Stopped /\ HoldInReset("forced") /\ UNCHANGED running
PhyRelease ==
  /\ LnkAt("release")
  /\ \E r \in Access :
       /\ Spi(r)
       /\ phy' = [phy EXCEPT !.reset = r # "done"]
  /\ lnk' = LnkIdle
  /\ UNCHANGED <<linkStatus, running>> /\ PhyOnly

\* autonego_ctrl EN and DIS only write the mode.
PhyAutonego(mode) ==
  /\ LnkAt("idle") /\ Stopped
  /\ \E r \in Access :
       /\ Spi(r)
       /\ phy' = IF r = "done" THEN [phy EXCEPT !.opmode = mode] ELSE phy
  /\ UNCHANGED <<lnk, linkStatus, running>> /\ PhyOnly
PhyAutonegoEn  == PhyAutonego("all")
PhyAutonegoDis == PhyAutonego("forced")

(* The end of the installation: w5500_init, and esp_eth_start with its     *)
(* RESTART.  Each pulls and releases the PHY's reset; link_status is DOWN. *)
NextBoot == [phy |-> "start", start |-> "up"]
PhyInit ==
  /\ boot \in DOMAIN NextBoot
  /\ \E r \in Command :
       /\ Spi(r)
       /\ phy' = IF Reaches(r)
                 THEN [phy EXCEPT !.link = FALSE, !.reset = r # "done"] ELSE phy
       /\ IF r = "done" THEN boot' = NextBoot[boot] ELSE Restart
       /\ running' = (boot' = "up")
  /\ UNCHANGED <<sock, simr, mr, lnk, linkStatus, events, connected, stopFailed>>
  /\ BootOnly

(* Starting a stopped driver: RESTART when the mode negotiates; a forced mode is *)
(* refused by it, and the driver then starts without it.                   *)
StartDriver ==
  /\ Stopped
  /\ IF phy.opmode = "all"
     THEN HoldInReset("all") /\ running' = (lnk'.pc = "release")
     ELSE LnkAt("idle") /\ running' = TRUE
          /\ UNCHANGED <<lnk, linkStatus, phy, used>> /\ PhyOnly

-----------------------------------------------------------------------------
(* net_backend_eth.c: the event loop runs eth_event_handler.               *)
EthEvent ==
  /\ events # <<>>
  /\ connected' = Head(events)
  /\ events' = Tail(events)
  /\ UNCHANGED <<sock, simr, phy, notify, ticking, used, lnk, linkStatus, running,
                 stopFailed>> /\ LnkOnly

PhyTask == MacOpen \/ MacUnmask \/ StartTimer \/ MacMask \/ MacClose \/ StopTimer
           \/ PhyRelease
=============================================================================
