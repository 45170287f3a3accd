------------------------------ MODULE ChipConf ------------------------------
(***************************************************************************)
(* wizchip_conf.c for the W5500: what wizchip_init, ctlwizchip and         *)
(* ctlnetwork do with the chip's registers, as sequences of accesses; and  *)
(* the bring-up of wizchip_spi_esp.c and net_backend_toe.c.  Any task may  *)
(* call; the repository's own code only brings the chip up, the other      *)
(* functions are the library's interface.                                  *)
(***************************************************************************)
EXTENDS SpiPort

CONSTANTS
  MaxCalls,   \* bound: configuration calls after the bring-up
  BufSizes    \* buffer sizes asked of wizchip_init, in KB

ASSUME ConfAssumption == MaxCalls \in Nat /\ BufSizes \subseteq 0..255

VARIABLES
  calls,   \* configuration calls made
  netUp,   \* s_net_up of net_backend_toe.c
  asked    \* history: the settings last asked for, or the chip's own since a reset

confVars == <<calls, netUp, asked>>

(* wizchip_sw_reset keeps the identity over the reset.                     *)
SaveIdentity == <<Rd("SHAR"), Rd("GAR"), Rd("SUBR"), Rd("SIPR")>>
RestoreIdentityNoIp == <<Re("SHAR", "saved"), Re("GAR", "saved"), Re("SUBR", "saved")>> \* mutant
RestoreIdentity == <<Re("SHAR", "saved"), Re("GAR", "saved"), Re("SUBR", "saved"),
                     Re("SIPR", "saved")>>
wizchip_sw_reset == SaveIdentity \o <<Re("MR", "rst"), Rd("MR")>> \o RestoreIdentity

(* wizchip_init: sizes are a pair or NULL, which leaves what the reset     *)
(* left.  The sum is an int8_t and looked at after each addition; over 16  *)
(* KB ends the function, the receive sizes after the send sizes have been  *)
(* written.  The six sockets the model does not have take 2 KB each.       *)
NULL == <<>>
OtherSizes == 6 * 2
Int8(n) == ((n + 128) % 256) - 128
Fits(s) == LET one == Int8(s[1])  two == Int8(one + s[2]) IN
           one <= 16 /\ two + OtherSizes <= 16
Refused(s) == s # NULL /\ ~Fits(s)
SetSizes(first, second, s) ==
  IF s = NULL THEN <<>> ELSE <<Wr(first, s[1]), Wr(second, s[2])>>
wizchip_init(tx, rx) ==
  wizchip_sw_reset \o
  IF Refused(tx) THEN <<>>
  ELSE SetSizes("TXBUF0", "TXBUF1", tx) \o
       (IF Refused(rx) THEN <<>> ELSE SetSizes("RXBUF0", "RXBUF1", rx))

wizchip_setnetinfo(id) ==
  <<Wr("SHAR", id), Wr("GAR", id), Wr("SUBR", id), Wr("SIPR", id)>>
wizchip_setnetmode(m) == <<Rd("MR"), Re("MR", m)>>      \* it can only add modes
wizchip_settimeout(v) == <<Wr("RCR", v), Wr("RTR", v)>>
wizchip_setinterruptmask(v) == <<Wr("IMR", v), Wr("SIMR", v)>>

(* The PHY: PHYCFGR's OPMDC codes, as setphyconf and getphyconf use them.  *)
PhyConf == [sw : BOOLEAN, mode : {"auto", "manual"}, full : BOOLEAN, fast : BOOLEAN]
OPMDC(c) ==
  CASE c.mode = "auto" -> 7
    [] c.mode # "auto" /\ c.full   -> IF c.fast THEN 3 ELSE 1
    [] c.mode # "auto" /\ ~c.full  -> IF c.fast THEN 2 ELSE 0

wizphy_reset == <<Rd("PHYCFGR"), Re("PHYCFGR", "hold"),
                  Rd("PHYCFGR"), Re("PHYCFGR", "release")>>
wizphy_setphyconf(c) ==
  <<Wr("PHYCFGR", [running |-> FALSE, opmd |-> c.sw, opmdc |-> OPMDC(c)])>> \o wizphy_reset

\* Refused unless the PHY is configured by software; UP negotiates.
wizphy_setphypmode(down) ==
  <<Rd("PHYCFGR")>> \o
  IF ~regs["PHYCFGR"].opmd THEN <<>>
  ELSE <<Re("PHYCFGR", IF down THEN "down" ELSE "all")>> \o wizphy_reset \o <<Rd("PHYCFGR")>>

(* getphyconf and getphypmode, from a value of PHYCFGR.                    *)
wizphy_getphyconf(p) ==
  [sw |-> p.opmd, mode |-> IF p.opmdc \in {7, 4} THEN "auto" ELSE "manual",
   full |-> p.opmdc \in {4, 3, 1}, fast |-> p.opmdc \in {4, 3, 2}]
wizphy_getphypmode(p) == p.opmdc = 6

-----------------------------------------------------------------------------
(* The bring-up, by wiznet_net_init: the chip is reached only after every  *)
(* callback is registered, and the result of the chip's part is not looked *)
(* at.                                                                     *)
BringUp ==
  <<Step("pin", 0), Step("cris", 0), Step("cs", 0), Step("spi", 0), Step("burst", 0)>>
  \o wizchip_init(<<2, 2>>, <<2, 2>>) \o <<Rd("VERSIONR")>>
  \o wizchip_setnetinfo("own") \o <<Step("up", 0)>>

ChipDefaults == [conf |-> wizphy_getphyconf(PhyAfterReset), down |-> FALSE,
                 modes |-> {}, timeout |-> "reset", masks |-> "reset"]
Asked(id, s) == [identity |-> id, settings |-> s]

ConfInit == calls = 0 /\ netUp = FALSE /\ asked = Asked("own", ChipDefaults)

NetUp(t) ==
  /\ At(t, {"up"})
  /\ netUp' = TRUE
  /\ Done(t)
  /\ UNCHANGED <<access, saved, callbacks, owner, frame, regs, calls, asked>>

(* A configuration call, made while no other task uses the chip; it leaves *)
(* the settings s.                                                         *)
Call(t, steps, id, s) ==
  /\ netUp /\ calls < MaxCalls /\ \A u \in Tasks : Idle(u)
  /\ calls' = calls + 1
  /\ asked' = Asked(id, s)
  /\ program' = [program EXCEPT ![t] = steps]
  /\ UNCHANGED <<access, saved, callbacks, owner, frame, regs, netUp>>

Now == asked.settings
CallReset(t) == Call(t, wizchip_sw_reset, asked.identity, ChipDefaults)
CallInit(t) == \E tx, rx \in {NULL} \cup (BufSizes \X BufSizes) :
  Call(t, wizchip_init(tx, rx), asked.identity, ChipDefaults)
CallSetNetInfo(t) == Call(t, wizchip_setnetinfo("other"), "other", Now)
CallSetNetMode(t) == \E m \in {"pingblock", "forcearp"} :
  Call(t, wizchip_setnetmode(m), asked.identity, [Now EXCEPT !.modes = @ \cup {m}])
CallSetTimeout(t) ==
  Call(t, wizchip_settimeout("set"), asked.identity, [Now EXCEPT !.timeout = "set"])
CallSetInterruptMask(t) ==
  Call(t, wizchip_setinterruptmask("set"), asked.identity, [Now EXCEPT !.masks = "set"])
CallSetPhyConf(t) == \E c \in PhyConf :
  Call(t, wizphy_setphyconf(c), asked.identity, [Now EXCEPT !.conf = c, !.down = FALSE])
CallResetPhy(t) == Call(t, wizphy_reset, asked.identity, Now)
CallSetPhyPower(t) == \E down \in BOOLEAN :
  Call(t, wizphy_setphypmode(down), asked.identity,
       IF ~regs["PHYCFGR"].opmd THEN Now
       ELSE [Now EXCEPT !.down = down, !.conf.mode = IF down THEN @ ELSE "auto"])

Configure(t) ==
  \/ CallReset(t) \/ CallInit(t) \/ CallSetNetInfo(t) \/ CallSetNetMode(t)
  \/ CallSetTimeout(t) \/ CallSetInterruptMask(t)
  \/ CallSetPhyConf(t) \/ CallResetPhy(t) \/ CallSetPhyPower(t)
=============================================================================
