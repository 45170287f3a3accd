------------------------------- MODULE Reg16 -------------------------------
(***************************************************************************)
(* How getSn_TX_FSR and getSn_RX_RSR (Ethernet/W5500/w5500.c) read a       *)
(* 16-bit size register byte by byte while the chip counts it up.          *)
(*                                                                         *)
(* A 16-bit value is the pair <<high byte, low byte>>, so that joining the *)
(* two bytes (val << 8) + byte is the pair itself.  The register grows     *)
(* (data or acknowledgements arrive) at any moment; it shrinks only by a   *)
(* command of the task that reads it, which is between two calls.          *)
(***************************************************************************)
EXTENDS Integers

CONSTANT MaxByte   \* the largest value of a byte (255 on the chip)

ASSUME ByteAssumption == MaxByte \in Nat

Octet == 0..MaxByte
Word == Octet \X Octet
Zero == <<0, 0>>

\* a <= b as 16-bit numbers.
Leq(a, b) == a[1] < b[1] \/ (a[1] = b[1] /\ a[2] <= b[2])

VARIABLES
  reg,    \* the register
  pc,     \* where the function is
  val1,   \* its local val1, the first reading
  val,    \* its local val, the second reading and the result
  start   \* the register when the function was called

vars == <<reg, pc, val1, val, start>>

TypeOK ==
  /\ reg \in Word /\ val1 \in Word /\ val \in Word /\ start \in Word
  /\ pc \in {"idle", "high1", "low1", "high2", "low2", "compare", "done"}

Init ==
  /\ reg \in Word /\ pc = "idle"
  /\ val1 = Zero /\ val = Zero /\ start = reg

-----------------------------------------------------------------------------
(* The chip.                                                               *)

Grow ==
  /\ reg' \in {r \in Word : Leq(reg, r) /\ r # reg}
  /\ UNCHANGED <<pc, val1, val, start>>

Shrink ==
  /\ pc = "idle"
  /\ reg' \in {r \in Word : Leq(r, reg) /\ r # reg}
  /\ UNCHANGED <<pc, val1, val, start>>

-----------------------------------------------------------------------------
(* The function: one step per WIZCHIP_READ.                                *)

Call ==
  /\ pc = "idle"
  /\ pc' = "high1" /\ val1' = Zero /\ val' = Zero /\ start' = reg
  /\ UNCHANGED reg

High1 ==
  /\ pc = "high1"
  /\ pc' = "low1" /\ val1' = <<0, reg[1]>>
  /\ UNCHANGED <<reg, val, start>>

\* Mutant: the high byte of the first reading is dropped.
Low1NoShift ==
  /\ pc = "low1"
  /\ val1' = <<0, reg[2]>>
  /\ pc' = IF val1' # Zero THEN "high2" ELSE "compare"
  /\ UNCHANGED <<reg, val, start>>

\* A first reading of zero is not read again.
Low1 ==
  /\ pc = "low1"
  /\ val1' = <<val1[2], reg[2]>>
  /\ pc' = IF val1' # Zero THEN "high2" ELSE "compare"
  /\ UNCHANGED <<reg, val, start>>

High2 ==
  /\ pc = "high2"
  /\ pc' = "low2" /\ val' = <<0, reg[1]>>
  /\ UNCHANGED <<reg, val1, start>>

Low2 ==
  /\ pc = "low2"
  /\ pc' = "compare" /\ val' = <<val[2], reg[2]>>
  /\ UNCHANGED <<reg, val1, start>>

\* Mutant: after a mismatch only the second reading is repeated.
CompareSecond ==
  /\ pc = "compare"
  /\ pc' = IF val = val1 THEN "done" ELSE "high2"
  /\ UNCHANGED <<reg, val1, val, start>>

\* Mutant: the readings are not compared.
CompareNot ==
  /\ pc = "compare"
  /\ pc' = "done"
  /\ UNCHANGED <<reg, val1, val, start>>

\* val keeps the second reading of an earlier pass while val1 is zero.
Compare ==
  /\ pc = "compare"
  /\ pc' = IF val = val1 THEN "done" ELSE "high1"
  /\ UNCHANGED <<reg, val1, val, start>>

Return ==
  /\ pc = "done"
  /\ pc' = "idle"
  /\ UNCHANGED <<reg, val1, val, start>>

Driver == High1 \/ Low1 \/ High2 \/ Low2 \/ Compare

Next == Grow \/ Shrink \/ Call \/ Driver \/ Return

\* The task runs on, and a buffer cannot grow for ever.
Spec == Init /\ [][Next]_vars /\ WF_vars(Driver)

-----------------------------------------------------------------------------
\* A size other than zero is never torn: it is at least what was there at the
\* call and at most what is there at the return, so that recv() never reads
\* past the received data and send() never past the free space.
NeverTorn ==
  pc = "done" /\ val # Zero => Leq(start, val) /\ Leq(val, reg)

\* Zero may be torn (0x00FF read as 0x00, then 0x0100 read as 0x00), but only
\* while the buffer holds less than 256 bytes: a fuller one is never reported
\* empty.
ZeroIsSmall ==
  pc = "done" /\ val = Zero => start[1] = 0

\* The two readings agree in the end, although the register moves under them
\* and a stale val is compared with a torn zero.
Returns == (pc = "high1") ~> (pc = "done")
=============================================================================
