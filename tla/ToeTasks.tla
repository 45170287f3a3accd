------------------------------ MODULE ToeTasks ------------------------------
(***************************************************************************)
(* Several tasks on one chip, each with a socket of its own: the           *)
(* descriptor table g_toe of wiznet_toe.c and the word sock_is_sending of  *)
(* socket.c, which all tasks share.  The critical section of SpiPort       *)
(* covers one register access and neither of the two.                      *)
(*                                                                         *)
(* What happens on a connection is TcpServer's subject; here a socket is   *)
(* opened, sends, and is closed, by the sequence of register accesses and  *)
(* reads and writes of shared words that the functions make.               *)
(***************************************************************************)
EXTENDS ChipConf

CONSTANTS
  Main,      \* app_main's task, which brings the chip up
  MaxOps     \* bound: socket calls of all tasks

ASSUME TasksAssumption == Main \in Tasks /\ MaxOps \in Nat

VARIABLES
  workload,  \* what a behaviour is about: "configure" or "sockets"
  ops,       \* socket calls made
  used,      \* the entries of g_toe that are in use
  opened,    \* those whose field opened is set
  fd,        \* fd[t]: the descriptor t got from wiztoe_socket, or None
  sending,   \* sock_is_sending, as a set of sockets
  loaded,    \* loaded[t]: the value t has read of it
  owed,      \* history: sockets whose last SEND is not yet accounted for
  raced,     \* history: two updates of sock_is_sending have overlapped
  clashed    \* history: two tasks have been in wiztoe_socket at once

tableVars == <<ops, used, opened, fd>>
flagVars  == <<sending, loaded, owed, raced>>
vars == <<spiVars, confVars, tableVars, flagVars, clashed, workload>>

Sockets == {0, 1}         \* WIZTOE_MAX_SOCK
None == -1
CR(s) == IF s = 0 THEN "CR0" ELSE "CR1"

Init ==
  /\ SpiInit /\ ConfInit
  /\ workload \in {"configure", "sockets"}
  /\ ops = 0 /\ used = {} /\ opened = {} /\ fd = [t \in Tasks |-> None]
  /\ sending = {} /\ loaded = [t \in Tasks |-> {}] /\ owed = {}
  /\ raced = FALSE /\ clashed = FALSE

-----------------------------------------------------------------------------
(* socket.c, as far as the shared word and Sn_CR go; sock_io_mode is       *)
(* updated beside sock_is_sending, in the same way.                        *)
Clear(s) == <<Step("load", s), Step("store_clear", s)>>
Set(s)   == <<Step("load", s), Step("store_set", s)>>
closeKeeps(s) == <<Wr(CR(s), "CLOSE")>>              \* mutant: the flag stays
close(s)  == <<Wr(CR(s), "CLOSE")>> \o Clear(s)
socket(s) == close(s) \o <<Wr(CR(s), "OPEN")>> \o Clear(s)
Transmit(s) == <<Step("wait", s), Wr(CR(s), "SEND")>> \o Set(s)

\* sock_is_sending &= ~(1 << sn) and |= (1 << sn): a read, then a write.
Updates == {"store_clear", "store_set"}
Load(t) ==
  /\ At(t, {"load"})
  /\ loaded' = [loaded EXCEPT ![t] = sending]
  /\ raced' = (raced \/ \E u \in Tasks \ {t} : At(u, Updates))
  /\ Done(t)
  /\ UNCHANGED <<access, saved, callbacks, owner, frame, regs, confVars, tableVars,
                 sending, owed, clashed, workload>>
Store(t) ==
  /\ At(t, Updates)
  /\ sending' = IF At(t, {"store_set"}) THEN loaded[t] \cup {Current(t).val}
                ELSE loaded[t] \ {Current(t).val}
  /\ Done(t)
  /\ UNCHANGED <<access, saved, callbacks, owner, frame, regs, confVars, tableVars,
                 loaded, owed, raced, clashed, workload>>

(* send(): a SEND that is not accounted for must have been acknowledged,   *)
(* or the call returns (SOCK_BUSY; or the connection has timed out).       *)
TestSending(t) ==
  /\ At(t, {"test"})
  /\ LET s == Current(t).val
     IN  \/ /\ s \notin sending
            /\ program' = [program EXCEPT ![t] = Transmit(s)] /\ UNCHANGED owed
         \/ /\ s \in sending
            /\ program' = [program EXCEPT ![t] = Clear(s) \o Transmit(s)]
            /\ owed' = owed \ {s}
         \/ /\ s \in sending
            /\ program' = [program EXCEPT ![t] = <<>>] /\ UNCHANGED owed
  /\ UNCHANGED <<access, saved, callbacks, owner, frame, regs, confVars, tableVars,
                 sending, loaded, raced, clashed, workload>>

\* The second test, with the data in the chip: SENDOK, or the connection ends.
WaitSendOk(t) ==
  /\ At(t, {"wait"})
  /\ LET s == Current(t).val
     IN  \/ s \notin sending /\ Done(t) /\ UNCHANGED owed
         \/ s \in sending /\ s \in owed /\ Done(t) /\ owed' = owed \ {s}
         \/ s \in sending /\ program' = [program EXCEPT ![t] = <<>>] /\ UNCHANGED owed
  /\ UNCHANGED <<access, saved, callbacks, owner, frame, regs, confVars, tableVars,
                 sending, loaded, raced, clashed, workload>>

\* A register access; SEND, OPEN and CLOSE count once they are in Sn_CR.
ReachChip(t) ==
  /\ Access(t)
  /\ owed' = IF access[t] = "addressed" /\ frame.write
             THEN LET now(c) == {s \in Sockets : frame.reg = CR(s) /\ Current(t).val = c}
                  IN  (owed \cup now("SEND")) \ (now("OPEN") \cup now("CLOSE"))
             ELSE owed
  /\ UNCHANGED <<confVars, tableVars, sending, loaded, raced, clashed, workload>>

-----------------------------------------------------------------------------
(* wiznet_toe.c                                                            *)

\* wiztoe_socket and wiztoe_socket_reserve take the first entry not in use.
ScanFirst(t, s) == TRUE                              \* mutant: used is not looked at
ScanFinds(t, s) == s \notin used
Scan(t) ==
  /\ At(t, {"scan"})
  /\ LET s == Current(t).val
     IN  program' = [program EXCEPT ![t] =
           CASE s \notin Sockets -> <<>>
             [] s \in Sockets /\ ScanFinds(t, s)  -> <<Step("take", s)>>
             [] s \in Sockets /\ ~ScanFinds(t, s) -> <<Step("scan", s + 1)>>]
  /\ UNCHANGED <<access, saved, callbacks, owner, frame, regs, confVars, tableVars,
                 flagVars, clashed, workload>>

\* The entry is cleared, then marked.
Take(t) ==
  /\ At(t, {"take"})
  /\ used' = used \cup {Current(t).val} /\ opened' = opened \ {Current(t).val}
  /\ fd' = [fd EXCEPT ![t] = Current(t).val]
  /\ Done(t)
  /\ UNCHANGED <<access, saved, callbacks, owner, frame, regs, confVars, ops,
                 flagVars, clashed, workload>>

Opened(t) ==
  /\ At(t, {"opened"})
  /\ opened' = opened \cup {Current(t).val}
  /\ Done(t)
  /\ UNCHANGED <<access, saved, callbacks, owner, frame, regs, confVars, ops, used, fd,
                 flagVars, clashed, workload>>

FreeUnusedOnly(t) ==      \* mutant: only used is cleared
  /\ At(t, {"free"})
  /\ used' = used \ {Current(t).val} /\ UNCHANGED opened
  /\ fd' = [fd EXCEPT ![t] = None]
  /\ Done(t)
  /\ UNCHANGED <<access, saved, callbacks, owner, frame, regs, confVars, ops,
                 flagVars, clashed, workload>>
Free(t) ==                \* memset of the entry
  /\ At(t, {"free"})
  /\ used' = used \ {Current(t).val} /\ opened' = opened \ {Current(t).val}
  /\ fd' = [fd EXCEPT ![t] = None]
  /\ Done(t)
  /\ UNCHANGED <<access, saved, callbacks, owner, frame, regs, confVars, ops,
                 flagVars, clashed, workload>>

\* A call; loopback_task makes none before wiznet_net_is_up.
ToeCall(t, steps) ==
  /\ workload = "sockets" /\ netUp /\ Idle(t) /\ ops < MaxOps
  /\ ops' = ops + 1
  /\ program' = [program EXCEPT ![t] = steps]
  /\ UNCHANGED <<access, saved, callbacks, owner, frame, regs, confVars, used, opened,
                 fd, flagVars, workload>>

CallSocket(t) ==
  /\ fd[t] = None
  /\ ToeCall(t, <<Step("scan", 0)>>)
  /\ clashed' = (clashed \/ \E u \in Tasks : At(u, {"scan", "take"}))
CallOpen(t) ==      \* wiztoe_bind (UDP), wiztoe_listen, wiztoe_connect
  /\ fd[t] \in used /\ UNCHANGED clashed
  /\ ToeCall(t, socket(fd[t]) \o <<Step("opened", fd[t])>>)
CallSend(t) ==
  /\ fd[t] \in used \cap opened /\ UNCHANGED clashed
  /\ ToeCall(t, <<Step("test", fd[t])>>)
CallClose(t) ==
  /\ fd[t] \in used /\ UNCHANGED clashed
  /\ ToeCall(t, (IF fd[t] \in opened THEN close(fd[t]) ELSE <<>>) \o <<Step("free", fd[t])>>)
CallRelease(t) ==   \* wiztoe_socket_release
  /\ fd[t] \in Sockets /\ UNCHANGED clashed
  /\ ToeCall(t, close(fd[t]) \o <<Step("free", fd[t])>>)

ToeStep(t) ==
  \/ Load(t) \/ Store(t) \/ TestSending(t) \/ WaitSendOk(t) \/ ReachChip(t)
  \/ Scan(t) \/ Take(t) \/ Opened(t) \/ Free(t)
  \/ CallSocket(t) \/ CallOpen(t) \/ CallSend(t) \/ CallClose(t) \/ CallRelease(t)

\* app_main's task runs wiznet_net_init first.
StartUp ==
  /\ callbacks = {} /\ \A t \in Tasks : Idle(t)
  /\ program' = [program EXCEPT ![Main] = BringUp]
  /\ UNCHANGED <<access, saved, callbacks, owner, frame, regs, confVars, tableVars,
                 flagVars, clashed, workload>>
Prepare(t) ==
  /\ (SetUp(t) /\ UNCHANGED confVars) \/ NetUp(t)
  /\ UNCHANGED <<tableVars, flagVars, clashed, workload>>
Settle(t) ==
  /\ workload = "configure" /\ Configure(t)
  /\ UNCHANGED <<tableVars, flagVars, clashed, workload>>

Next == StartUp \/ \E t \in Tasks : ToeStep(t) \/ Prepare(t) \/ Settle(t)
Spec == Init /\ [][Next]_vars

-----------------------------------------------------------------------------
(* Properties                                                              *)

\* Every variable has its type; a task is inside an access only while one is
\* at the head of its program.
ToeTypeOK ==
  /\ \A t \in Tasks : access[t] # "out" => Accesses(t)
  /\ owner = {t \in Tasks : access[t] # "out"} /\ frame.from \subseteq owner
  /\ callbacks \subseteq {"cris", "cs", "spi", "burst"}
  /\ used \cup opened \subseteq Sockets /\ (clashed \/ opened \subseteq used)
  /\ fd \in [Tasks -> Sockets \cup {None}]
  /\ sending \subseteq Sockets /\ loaded \in [Tasks -> SUBSET Sockets]
  /\ ops \in 0..MaxOps /\ calls \in 0..MaxCalls

\* An SPI frame carries the bytes of one task, the one inside the critical
\* section, from the time the chip is first reached (wizchip_spi_esp_init
\* registers the callbacks before it calls wizchip_init).
SpiFramesWhole == frame # NoFrame => \E t \in Tasks : frame.from = {t} /\ owner = {t}

\* Two tasks hold the same hardware socket only if they have been in
\* wiztoe_socket at the same time: nothing but the unlocked scan of g_toe
\* gives an entry away twice.
OwnersApart ==
  \A t, u \in Tasks : t # u /\ fd[t] # None /\ fd[t] = fd[u] => clashed

(* Registers R are what the settings a ask for: the identity, sizes that   *)
(* fit the memory (unless one alone is more than all of it), a PHY out of  *)
(* reset in the mode asked for, and the modes, timeouts and masks.         *)
IdentityKept(R, a) == \A r \in Identity : R[r] = a.identity
SizesFit(a, b) == a <= 16 /\ b <= 16 => a + b + OtherSizes <= 16
MemoryFits(R) == /\ SizesFit(R["TXBUF0"], R["TXBUF1"])
                 /\ SizesFit(R["RXBUF0"], R["RXBUF1"])
PhyAsAsked(p, s) ==
  /\ p.running /\ wizphy_getphypmode(p) = s.down
  /\ LET c == wizphy_getphyconf(p) IN
     /\ c.sw = s.conf.sw
     /\ ~s.down => /\ c.mode = s.conf.mode
                   /\ c.mode = "manual" => c = s.conf
SettingsKept(R, s) ==
  /\ R["MR"] = s.modes
  /\ \A r \in {"RTR", "RCR"} : R[r] = s.timeout
  /\ \A r \in {"IMR", "SIMR"} : R[r] = s.masks
Configured(R, a) ==
  /\ IdentityKept(R, a) /\ MemoryFits(R)
  /\ PhyAsAsked(R["PHYCFGR"], a.settings) /\ SettingsKept(R, a.settings)

\* With nothing running the chip has the identity last set, whatever resets
\* came between, the buffers fit its memory unless one alone is more than all
\* of it, and the other registers say what was last asked of them since the
\* last reset.
ConfigurationKept == netUp /\ (\A t \in Tasks : Idle(t)) => Configured(regs, asked)

\* Between the calls of its task a socket's bit in sock_is_sending says
\* whether a SEND of its present connection is still to be accounted for.
Resting(s) == \A t \in Tasks : fd[t] = s => Idle(t)
FlagRight(s) == s \in sending <=> s \in owed
FlagKept == ~raced /\ ~clashed => \A s \in Sockets : Resting(s) => FlagRight(s)

(* What plan.md says: one task per socket, and the mutex of the critical   *)
(* section guards concurrent access, so each socket's state is its own.    *)
SendingKept == ~clashed => \A s \in Sockets : Resting(s) => FlagRight(s)
=============================================================================
