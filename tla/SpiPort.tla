------------------------------ MODULE SpiPort ------------------------------
(***************************************************************************)
(* wizchip_spi_esp.c and the register access functions of w5500.c: how     *)
(* several tasks reach the registers of one chip over one SPI bus.         *)
(*                                                                         *)
(* What a task still has to do is a sequence of steps, program[t].  A      *)
(* register access (WIZCHIP_READ, WIZCHIP_WRITE and their buffer forms) is *)
(* the step "read" or "write" and is carried out in four moves: enter the  *)
(* critical section, select the chip and send the address, transfer the    *)
(* data and deselect, leave.  The chip sees a frame from select to         *)
(* deselect and cannot tell which task a byte comes from.                  *)
(***************************************************************************)
EXTENDS Integers, Sequences, FiniteSets

CONSTANTS Tasks   \* the tasks that use the chip

VARIABLES
  program,   \* program[t]: the steps of t's running function
  access,    \* access[t]: how far the access at its head is
  saved,     \* saved[t]: the register values t has read
  callbacks, \* the callbacks registered with ioLibrary
  owner,     \* the tasks inside the critical section
  frame,     \* the SPI frame the chip is in: its address, who sent bytes
  regs       \* the registers

spiVars == <<program, access, saved, callbacks, owner, frame, regs>>

(* Registers, those of two sockets only.  MR holds the set of modes;       *)
(* CONFIG stands for the registers that are only written through: the      *)
(* retry time and count, and the interrupt masks.                          *)
Identity == {"SHAR", "GAR", "SUBR", "SIPR"}
Sizes    == {"TXBUF0", "TXBUF1", "RXBUF0", "RXBUF1"}
Config   == {"RTR", "RCR", "IMR", "SIMR"}
Register == Identity \cup Sizes \cup Config \cup {"MR", "PHYCFGR", "VERSIONR", "CR0", "CR1"}

PhyAfterReset == [running |-> TRUE, opmd |-> FALSE, opmdc |-> 7]
AfterReset == [r \in Register |->
  CASE r \in Identity -> "zero"
    [] r \in Sizes -> 2
    [] r = "MR" -> {}
    [] r = "PHYCFGR" -> PhyAfterReset
    [] OTHER -> "reset"]

NoFrame == [reg |-> "none", write |-> FALSE, from |-> {}]

SpiInit ==
  /\ program = [t \in Tasks |-> <<>>] /\ access = [t \in Tasks |-> "out"]
  /\ saved = [t \in Tasks |-> AfterReset]
  /\ callbacks = {} /\ owner = {} /\ frame = NoFrame
  /\ regs = AfterReset

(* Steps.  "how" says what a write writes: the value given, the value the  *)
(* task has read before, that value with a mode added to MR or with the    *)
(* PHY held in reset, released or in another mode; or the chip's reset.    *)
StepOf(k, r, how, v) == [kind |-> k, reg |-> r, how |-> how, val |-> v]
Rd(r)      == StepOf("read", r, "given", "none")
Wr(r, v)   == StepOf("write", r, "given", v)
Re(r, how) == StepOf("write", r, how, "none")
Step(k, v) == StepOf(k, "none", "given", v)

Idle(t)     == program[t] = <<>>
Current(t)  == Head(program[t])
At(t, k)    == ~Idle(t) /\ Current(t).kind \in k
Accesses(t) == At(t, {"read", "write"})
Done(t)     == program' = [program EXCEPT ![t] = Tail(@)]

ValueOf(s, old) ==
  CASE s.how = "given"   -> s.val
    [] s.how = "saved"   -> old
    [] s.how = "hold"    -> [old EXCEPT !.running = FALSE]
    [] s.how = "release" -> [old EXCEPT !.running = TRUE]
    [] s.how = "down"    -> [old EXCEPT !.opmdc = 6]
    [] s.how = "all"     -> [old EXCEPT !.opmdc = 7]
    [] OTHER             -> old \cup {s.how}

-----------------------------------------------------------------------------
(* One access                                                              *)

(* WIZCHIP_CRITICAL_ENTER: ioLibrary's own functions, used until callbacks *)
(* are registered, do nothing.                                             *)
Enter(t) ==
  /\ Accesses(t) /\ access[t] = "out"
  /\ "cris" \in callbacks => owner = {}
  /\ owner' = owner \cup {t}
  /\ access' = [access EXCEPT ![t] = "in"]
  /\ UNCHANGED <<program, saved, callbacks, frame, regs>>

\* Select and address: a chip that is selected already takes them for data.
Select(t) ==
  /\ access[t] = "in"
  /\ access' = [access EXCEPT ![t] = "addressed"]
  /\ frame' = IF frame = NoFrame
              THEN [reg |-> Current(t).reg, write |-> Current(t).kind = "write",
                    from |-> {t}]
              ELSE [frame EXCEPT !.from = @ \cup {t}]
  /\ UNCHANGED <<program, saved, callbacks, owner, regs>>

(* Data and deselect: MR's reset bit resets every register.  A frame that  *)
(* is over already takes nothing.                                          *)
Written(t, s) == IF s.how = "rst" THEN AfterReset
                 ELSE [regs EXCEPT ![frame.reg] = ValueOf(s, saved[t][s.reg])]
Transfer(t) ==
  /\ access[t] = "addressed"
  /\ access' = [access EXCEPT ![t] = "done"]
  /\ regs' = IF frame.write THEN Written(t, Current(t)) ELSE regs
  /\ saved' = IF Current(t).kind = "read" /\ frame.reg = Current(t).reg
              THEN [saved EXCEPT ![t][frame.reg] = regs[frame.reg]] ELSE saved
  /\ frame' = NoFrame
  /\ UNCHANGED <<program, callbacks, owner>>

\* WIZCHIP_CRITICAL_EXIT, and on to the next step.
Leave(t) ==
  /\ access[t] = "done"
  /\ access' = [access EXCEPT ![t] = "out"]
  /\ owner' = owner \ {t}
  /\ Done(t)
  /\ UNCHANGED <<saved, callbacks, frame, regs>>

Access(t) == Enter(t) \/ Select(t) \/ Transfer(t) \/ Leave(t)

(* wizchip_spi_esp_init pulses the reset pin and registers the callbacks,  *)
(* reg_wizchip_cris_cbfunc first.                                          *)
RegisterNone(k) == {}                      \* mutant: ioLibrary's defaults stay
Registers(k)    == {k}
SetUp(t) ==
  /\ At(t, {"pin", "cris", "cs", "spi", "burst"})
  /\ callbacks' = IF Current(t).kind = "pin" THEN callbacks
                  ELSE callbacks \cup Registers(Current(t).kind)
  /\ regs' = IF Current(t).kind = "pin" THEN AfterReset ELSE regs
  /\ Done(t)
  /\ UNCHANGED <<access, saved, owner, frame>>
=============================================================================
