---------------------------- MODULE Reg16Proofs ----------------------------
(***************************************************************************)
(* The register reads of Reg16 are right for every width of a byte.  The   *)
(* argument: when the first reading is not zero and both readings have the *)
(* same high byte, the register had that high byte all the time between    *)
(* the two reads of it, hence at the read of the low byte in between.      *)
(***************************************************************************)
EXTENDS Reg16, TLAPS

\* The value r the register had when the first reading's low byte was read:
\* the high byte was read earlier, so that of r is no less; h is a high byte
\* the register reached later.
FirstReading(h) ==
  \E r \in Word : /\ Leq(start, r) /\ Leq(r, reg)
                  /\ val1[1] <= r[1] /\ r[1] <= h
                  /\ val1[2] = r[2]

Inv ==
  /\ TypeOK
  /\ pc # "idle" => Leq(start, reg)
  /\ pc = "low1" => start[1] <= val1[2] /\ val1[2] <= reg[1]
  /\ pc = "high2" => val1 # Zero /\ FirstReading(reg[1])
  /\ pc = "low2" => /\ val1 # Zero /\ FirstReading(val[2])
                    /\ val[2] <= reg[1]
  /\ pc = "compare" => IF val1 = Zero THEN start[1] = 0
                                      ELSE FirstReading(val[1])
  /\ NeverTorn /\ ZeroIsSmall

\* <= on 16-bit numbers is reflexive and transitive.
LEMMA LeqOrder ==
  ASSUME NEW a \in Word, NEW b \in Word, NEW c \in Word
  PROVE  Leq(a, a) /\ (Leq(a, b) /\ Leq(b, c) => Leq(a, c))
BY ByteAssumption DEF Leq, Word, Octet

\* Growth of the register keeps what is known of the first reading.
LEMMA FirstReadingKept ==
  ASSUME TypeOK, reg' \in Word, Leq(reg, reg'), UNCHANGED <<val1, start>>,
         NEW h \in Octet, NEW g \in Octet, h <= g, FirstReading(h)
  PROVE  FirstReading(g)'
<1>1. PICK r \in Word : /\ Leq(start, r) /\ Leq(r, reg)
                        /\ val1[1] <= r[1] /\ r[1] <= h
                        /\ val1[2] = r[2]
  BY DEF FirstReading
<1>2. Leq(r, reg')
  BY <1>1, LeqOrder DEF TypeOK
<1>3. r[1] <= g
  BY <1>1, ByteAssumption DEF Word, Octet
<1> QED
  BY <1>1, <1>2, <1>3 DEF FirstReading

-----------------------------------------------------------------------------
LEMMA InitInv == Init => Inv
BY ByteAssumption DEF Init, Inv, TypeOK, Word, Octet, Zero, NeverTorn, ZeroIsSmall

\* Every step preserves the types.
LEMMA StepType ==
  ASSUME TypeOK, [Next]_vars
  PROVE  TypeOK'
<1> USE ByteAssumption DEF TypeOK, Word, Octet, Zero
<1>1. CASE Grow
  BY <1>1 DEF Grow
<1>2. CASE Shrink
  BY <1>2 DEF Shrink
<1>3. CASE Call
  BY <1>3 DEF Call
<1>4. CASE Driver
  BY <1>4 DEF Driver, High1, Low1, High2, Low2, Compare
<1>5. CASE Return
  BY <1>5 DEF Return
<1>6. CASE UNCHANGED vars
  BY <1>6 DEF vars
<1> QED
  BY <1>1, <1>2, <1>3, <1>4, <1>5, <1>6 DEF Next

\* Every step preserves the invariant.
LEMMA StepInv ==
  ASSUME Inv, [Next]_vars
  PROVE  Inv'
<1>0. TypeOK /\ TypeOK'
  BY StepType DEF Inv
<1> USE DEF Inv, NeverTorn, ZeroIsSmall
<1>1. CASE Grow
  <2>1. Leq(reg, reg') /\ reg' \in Word /\ UNCHANGED <<pc, val1, val, start>>
    BY <1>1 DEF Grow
  <2>2. reg[1] \in Octet /\ reg'[1] \in Octet /\ val[1] \in Octet
        /\ val[2] \in Octet /\ reg[1] <= reg'[1]
    BY <1>0, <2>1, ByteAssumption DEF Leq, TypeOK, Word, Octet
  <2>3. \A a \in Word : Leq(a, reg) => Leq(a, reg')
    BY <1>0, <2>1, LeqOrder DEF TypeOK
  <2>4. pc = "high2" => FirstReading(reg[1])'
    BY <1>0, <2>1, <2>2, FirstReadingKept
  <2>5. pc = "low2" => FirstReading(val[2])' /\ val[2] <= reg'[1]
    <3>1. val[2] <= val[2] /\ (pc = "low2" => val[2] <= reg'[1])
      BY <2>1, <2>2, ByteAssumption DEF Octet
    <3>2. pc = "low2" => FirstReading(val[2])'
      BY <1>0, <2>1, <2>2, <3>1, FirstReadingKept
    <3> QED
      BY <3>1, <3>2
  <2>6. pc = "compare" /\ val1 # Zero => FirstReading(val[1])'
    <3>1. val[1] <= val[1]
      BY <2>2 DEF Octet
    <3> QED
      BY <1>0, <2>1, <2>2, <3>1, FirstReadingKept
  <2>7. pc # "idle" => Leq(start, reg')
    BY <1>0, <2>3 DEF TypeOK
  <2>8. pc = "low1" => val1[2] <= reg'[1]
    BY <1>0, <2>2, ByteAssumption DEF TypeOK, Word, Octet
  <2>9. pc = "done" /\ val # Zero => Leq(val, reg')
    BY <1>0, <2>3 DEF TypeOK
  <2> QED
    BY <1>0, <2>1, <2>4, <2>5, <2>6, <2>7, <2>8, <2>9
<1>2. CASE Shrink
  BY <1>0, <1>2 DEF Shrink
<1>3. CASE Call
  BY <1>0, <1>3, LeqOrder DEF Call, TypeOK
<1>4. CASE High1
  BY <1>0, <1>4 DEF High1, TypeOK, Word, Octet, Leq
<1>5. CASE Low1
  <2>1. ASSUME val1' # Zero PROVE FirstReading(reg[1])'
    <3>1. Leq(reg, reg) /\ val1'[1] <= reg[1] /\ reg[1] <= reg[1]
      BY <1>0, <1>5, LeqOrder DEF Low1, TypeOK, Word, Octet
    <3> QED
      BY <1>0, <1>5, <3>1 DEF Low1, FirstReading, TypeOK
  <2>2. val1' = Zero => start[1] = 0
    BY <1>0, <1>5 DEF Low1, Zero, TypeOK, Word, Octet
  <2> QED
    BY <1>0, <1>5, <2>1, <2>2 DEF Low1
<1>6. CASE High2
  <2>1. FirstReading(val[2])'
    BY <1>6 DEF High2, FirstReading
  <2> QED
    BY <1>0, <1>6, <2>1 DEF High2, TypeOK, Word, Octet
<1>7. CASE Low2
  BY <1>0, <1>7 DEF Low2, FirstReading
<1>8. CASE Compare
  <2>1. ASSUME val = val1, val # Zero PROVE Leq(start, val) /\ Leq(val, reg)
    <3>1. PICK r \in Word : /\ Leq(start, r) /\ Leq(r, reg)
                            /\ val1[1] <= r[1] /\ r[1] <= val[1]
                            /\ val1[2] = r[2]
      BY <1>8, <2>1 DEF Compare, FirstReading
    <3>2. r = val
      BY <1>0, <2>1, <3>1 DEF TypeOK, Word, Octet
    <3> QED
      BY <3>1, <3>2
  <2> QED
    BY <1>0, <1>8, <2>1 DEF Compare
<1>9. CASE Return
  BY <1>0, <1>9 DEF Return
<1>10. CASE UNCHANGED vars
  BY <1>10 DEF vars, TypeOK, FirstReading
<1> QED
  BY <1>1, <1>2, <1>3, <1>4, <1>5, <1>6, <1>7, <1>8, <1>9, <1>10 DEF Next, Driver

\* A size other than zero that getSn_TX_FSR or getSn_RX_RSR returns lies
\* between what the register held at the call and what it holds at the return.
THEOREM SizesAreNotTorn == Spec => []NeverTorn
<1>1. Inv => NeverTorn
  BY DEF Inv
<1> QED
  BY <1>1, InitInv, StepInv, PTL DEF Spec

\* They return zero only when fewer than MaxByte + 1 bytes were there at the
\* call.
THEOREM FullBufferIsSeen == Spec => []ZeroIsSmall
<1>1. Inv => ZeroIsSmall
  BY DEF Inv
<1> QED
  BY <1>1, InitInv, StepInv, PTL DEF Spec
=============================================================================
