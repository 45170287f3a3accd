------------------------------ MODULE EthFilter ------------------------------
(***************************************************************************)
(* The receive filter of esp_eth_mac_w5500.c: add_mac_filter,              *)
(* del_mac_filter, set_all_multicast and set_promiscuous.  Each reads      *)
(* Sn_MR, changes one bit and writes it back, and the first three keep     *)
(* mcast_cnt, a uint8_t.  Only the single SPI access has the driver's      *)
(* mutex, so that the tasks that call them interleave between any two      *)
(* steps, those of mcast_cnt++ included.                                   *)
(***************************************************************************)
EXTENDS EthMac

CONSTANTS
  FilterTasks,   \* the tasks that call these functions
  CountSpan      \* mcast_cnt wraps at CountSpan (256)

ASSUME FilterAssumption == CountSpan \in Nat \ {0, 1}

VARIABLES
  flt,        \* the call of each task: its step, and its copies of Sn_MR and mcast_cnt
  mcast,      \* mcast_cnt
  groups,     \* history: IPv4 groups joined through the driver
  promisc,    \* history: the promiscuous mode that was set last
  spoilt      \* history: what has happened that the filter is not made for

filterVars == <<flt, mcast, groups, promisc, spoilt>>

(* "add" and "del" are for an IPv4 group; "delOther" for an address that   *)
(* is neither an IPv4 nor an IPv6 group.  (add_mac_filter for such, and    *)
(* both for an IPv6 group, change nothing.)                                *)
FilterCalls == {"add", "del", "delOther", "allOn", "allOff", "promiscOn", "promiscOff"}
FilterIdle == [call |-> "none", pc |-> "idle", mr |-> DefaultMr, cnt |-> 0]
FltAt(t, p) == flt[t].pc = p
Resting == \A t \in FilterTasks : FltAt(t, "idle")

FilterInit ==
  /\ flt = [t \in FilterTasks |-> FilterIdle]
  /\ mcast = 0 /\ groups = 0 /\ promisc = FALSE /\ spoilt = {}

FilterOnly == UNCHANGED <<sock, simr, phy, wire, macVars, historyVars, polled, work, boot>>
Goes(t, p) == flt' = [flt EXCEPT ![t].pc = p]
Ends(t) == flt' = [flt EXCEPT ![t] = FilterIdle]

(* A call starts.  A group is left only if it has been joined.             *)
Starts(t, c) ==
  /\ FltAt(t, "idle")
  /\ flt' = [flt EXCEPT ![t] =
       [FilterIdle EXCEPT !.call = c, !.pc = IF c \in {"del", "delOther"} THEN "load" ELSE "read"]]
  /\ c = "del" => groups > 0
  /\ groups' = IF c = "del" THEN groups - 1 ELSE groups
  /\ spoilt' = spoilt \cup (IF Resting THEN {} ELSE {"raced"})
                      \cup (IF c \in {"allOn", "allOff"} THEN {"allMulti"} ELSE {})
  /\ UNCHANGED <<mr, used, mcast, promisc>> /\ FilterOnly

(* set_block_ip4_mcast and set_promiscuous: the copy of Sn_MR with the bit *)
(* of the call changed.  A failed access ends the call.                    *)
Edited(t) ==
  CASE flt[t].call \in {"add", "allOn"}              -> [flt[t].mr EXCEPT !.block = FALSE]
    [] flt[t].call \in {"del", "delOther", "allOff"} -> [flt[t].mr EXCEPT !.block = TRUE]
    [] OTHER -> [flt[t].mr EXCEPT !.filter = flt[t].call = "promiscOff"]
AfterWrite(c) == [add |-> "load", allOn |-> "zero", allOff |-> "zero"][c]
FltRead(t) ==
  /\ FltAt(t, "read")
  /\ \E r \in Access :
       /\ Spi(r)
       /\ IF r = "done" THEN flt' = [flt EXCEPT ![t].mr = mr, ![t].pc = "write"] ELSE Ends(t)
  /\ UNCHANGED <<mr, mcast, groups, promisc, spoilt>> /\ FilterOnly
FltWrite(t) ==
  /\ FltAt(t, "write")
  /\ \E r \in Access :
       /\ Spi(r)
       /\ mr' = IF r = "done" THEN Edited(t) ELSE mr
       /\ IF r = "done" /\ flt[t].call \in {"add", "allOn", "allOff"}
          THEN Goes(t, AfterWrite(flt[t].call)) ELSE Ends(t)
       /\ promisc' = IF r = "done" /\ flt[t].call \in {"promiscOn", "promiscOff"}
                     THEN flt[t].call = "promiscOn" ELSE promisc
  /\ UNCHANGED <<mcast, groups, spoilt>> /\ FilterOnly

(* mcast_cnt++ in add, mcast_cnt-- in del if it is above zero: a load and  *)
(* a store.                                                                *)
Counts(c) == c = "add" \/ (c = "del" /\ mcast > 0)
FltLoad(t) ==
  /\ FltAt(t, "load")
  /\ flt' = [flt EXCEPT ![t].cnt = mcast,
                        ![t].pc = IF Counts(flt[t].call) THEN "store" ELSE "test"]
  /\ UNCHANGED <<mr, used, mcast, groups, promisc, spoilt>> /\ FilterOnly
FltStoreAdd(t) ==
  /\ FltAt(t, "store") /\ flt[t].call = "add"
  /\ mcast' = IF flt[t].cnt + 1 = CountSpan THEN 0 ELSE flt[t].cnt + 1
  /\ groups' = groups + 1
  /\ spoilt' = spoilt \cup (IF groups + 1 >= CountSpan THEN {"wrapped"} ELSE {})
  /\ Ends(t)
  /\ UNCHANGED <<mr, used, promisc>> /\ FilterOnly
FltStoreDel(t) ==
  /\ FltAt(t, "store") /\ flt[t].call = "del"
  /\ mcast' = flt[t].cnt - 1
  /\ flt' = [flt EXCEPT ![t].cnt = @ - 1, ![t].pc = "test"]
  /\ UNCHANGED <<mr, used, groups, promisc, spoilt>> /\ FilterOnly

(* mcast_cnt == 0 in del: the word may be read again, or its value may     *)
(* still be in a register.                                                 *)
LastGroupAny(n) == TRUE    \* mutant: the block is set when any group is left
LastGroup(n) == n = 0
FltTest(t) ==
  /\ FltAt(t, "test")
  /\ \E seen \in {mcast, flt[t].cnt} :
       IF LastGroup(seen) THEN Goes(t, "read") ELSE Ends(t)
  /\ UNCHANGED <<mr, used, mcast, groups, promisc, spoilt>> /\ FilterOnly

\* set_all_multicast forgets the groups, whichever way it was called.
FltZero(t) ==
  /\ FltAt(t, "zero")
  /\ mcast' = 0
  /\ Ends(t)
  /\ UNCHANGED <<mr, used, groups, promisc, spoilt>> /\ FilterOnly

FilterTask(t) ==
  FltRead(t) \/ FltWrite(t) \/ FltLoad(t) \/ FltStoreAdd(t) \/ FltStoreDel(t)
  \/ FltTest(t) \/ FltZero(t)
=============================================================================
