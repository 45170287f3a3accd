------------------------------ MODULE ToeTaskPrograms ------------------------------
(* The programs of the tasks of ToeTasks: which lists of steps are legal   *)
(* for a task that holds a socket or none, that the functions of socket.c  *)
(* and wizchip_conf.c make only those, and what the functions of           *)
(* wizchip_conf.c leave in the registers. ToeTasksProofs rests on these    *)
(* lemmas.                                                                 *)
EXTENDS ToeTasks, SequenceTheorems, WellFoundedInduction, TLAPS

(* The steps a program is made of: their kinds, the register (or none),    *)
(* what is written (a value given, saved or derived) and the value.        *)
Kinds == {"read", "write", "pin", "cris", "cs", "spi", "burst", "up", "load", "store_clear",
          "store_set", "wait", "test", "scan", "take", "opened", "free"}
Commands == {"SEND", "OPEN", "CLOSE"}
Texts == {"none", "given", "saved", "rst", "hold", "release", "down", "all", "pingblock", "forcearp",
          "own", "other", "set"} \cup Commands
Values == Int \cup Texts \cup [running : BOOLEAN, opmd : BOOLEAN, opmdc : Int]
Steps == [kind : Kinds, reg : Register \cup {"none"}, how : Texts, val : Values]

(* A step of the configuration: it is no step of a socket and its register *)
(* is no command register.                                                 *)
Plain(x) ==
  /\ x.kind \in {"read", "write", "pin", "cris", "cs", "spi", "burst", "up"}
  /\ x.reg \notin {"CR0", "CR1"}
PlainSteps == {x \in Steps : Plain(x)}

(* With f the task's descriptor: a command to its socket, a step on its bit *)
(* of sock_is_sending, the last step of a call, and the update that goes   *)
(* with a command (SEND sets the bit, OPEN and CLOSE clear it).            *)
IsCommand(x, f) == x.kind = "write" /\ x.how = "given" /\ x.reg = CR(f) /\ x.val \in Commands
OnWord(x, f) == x.kind \in {"load", "store_clear", "store_set", "wait", "test"} /\ x.val = f
IsLast(x, f) == x.kind \in {"opened", "free"} /\ x.val = f
Accounts(x, y) == IF x.val = "SEND" THEN y.kind = "store_set" ELSE y.kind = "store_clear"

(* Step i of the program of a task with descriptor f is legal there.       *)
StepOK(p, i, f) ==
  \/ Plain(p[i])
  \/ f = None /\ p[i].kind = "scan" /\ p[i].val \in 0..2 /\ Len(p) = 1
  \/ f = None /\ p[i].kind = "take" /\ p[i].val \in Sockets /\ Len(p) = 1
  \/ /\ f \in Sockets /\ IsCommand(p[i], f) /\ i + 2 <= Len(p)
     /\ p[i+1].kind = "load" /\ Accounts(p[i], p[i+2])
  \/ /\ f \in Sockets /\ OnWord(p[i], f)
     /\ p[i].kind = "load" => i + 1 <= Len(p)
     /\ p[i].kind = "wait" => i + 1 <= Len(p) /\ IsCommand(p[i+1], f)
  \/ f \in Sockets /\ IsLast(p[i], f) /\ i = Len(p)

(* Steps i and i + 1 fit: a store follows its load and nothing else, and   *)
(* only a command to the socket comes before a load.                       *)
Joint(p, i, f) ==
  /\ p[i].kind = "load" <=> p[i+1].kind \in Updates
  /\ p[i+1].kind = "load" => f \in Sockets /\ IsCommand(p[i], f)

(* A legal program of a task with descriptor f.                            *)
TaskOK(p, f) ==
  /\ p \in Seq(Steps)
  /\ \A i \in 1..Len(p) : StepOK(p, i, f)
  /\ \A i \in 1..Len(p) : i + 1 <= Len(p) => Joint(p, i, f)

(* The rest of a legal program is legal, on sequences given element by     *)
(* element.                                                                *)
LEMMA ShiftOK ==
  ASSUME NEW p, NEW f, TaskOK(p, f), NEW q \in Seq(Steps), NEW m \in Nat, NEW n \in Nat,
         m = Len(p), n = Len(q), m = n + 1,
         \A i \in 1..n : q[i] = p[i+1]
  PROVE  TaskOK(q, f)
<1>2. ASSUME NEW i \in 1..n PROVE StepOK(q, i, f)
  <2>1. PICK j \in 1..m : j = i + 1
    OBVIOUS
  <2>2. StepOK(p, j, f)
    BY DEF TaskOK
  <2>a. q[i] = p[j] /\ m # 1
    BY <2>1
  <2>b. (j + 1 <= m => i + 1 <= n) /\ (j = m => i = n)
    BY <2>1
  <2>f. ASSUME j + 1 <= m PROVE i + 1 <= n /\ q[i+1] = p[j+1]
    BY <2>1, <2>f
  <2>c. ASSUME j + 2 <= m
        PROVE  i + 2 <= n /\ q[i+1] = p[j+1] /\ q[i+2] = p[j+2]
    <3>1. i + 2 <= n /\ i + 1 \in 1..n /\ i + 2 \in 1..n
      BY <2>1, <2>c
    <3>2. q[i+1] = p[(i+1)+1] /\ q[i+2] = p[(i+2)+1]
      BY <3>1
    <3> QED
      BY <3>1, <3>2, <2>1
  <2> QED
    BY <2>2, <2>a, <2>b, <2>c, <2>f DEF StepOK
<1>3. ASSUME NEW i \in 1..n, i + 1 <= n PROVE Joint(q, i, f)
  <2>1. PICK j \in 1..m : j = i + 1 /\ j + 1 <= m
    BY <1>3
  <2>2. Joint(p, j, f)
    BY <2>1 DEF TaskOK
  <2>3. q[i] = p[j] /\ q[i+1] = p[j+1]
    BY <1>3, <2>1
  <2> QED
    BY <2>2, <2>3 DEF Joint
<1> QED
  BY <1>2, <1>3 DEF TaskOK

(* A task that has made its step is left with a legal program.             *)
LEMMA TailOK ==
  ASSUME NEW p, NEW f, TaskOK(p, f), p # <<>>
  PROVE  TaskOK(Tail(p), f)
<1>1. /\ p \in Seq(Steps) /\ Tail(p) \in Seq(Steps) /\ Len(Tail(p)) = Len(p) - 1
      /\ \A i \in 1..Len(Tail(p)) : Tail(p)[i] = p[i+1]
  BY HeadTailProperties DEF TaskOK
<1>2. PICK q \in Seq(Steps) : q = Tail(p)
  BY <1>1
<1>3. PICK n \in Nat, m \in Nat : n = Len(q) /\ m = Len(p)
  BY <1>1, LenProperties
<1>4. m = n + 1 /\ \A i \in 1..n : q[i] = p[i+1]
  BY <1>1, <1>2, <1>3
<1>5. TaskOK(q, f)
  BY <1>3, <1>4, ShiftOK
<1> QED
  BY <1>2, <1>5

(* Doing nothing is legal.                                                 *)
LEMMA NothingOK ==
  ASSUME NEW f
  PROVE  TaskOK(<<>>, f)
BY EmptySeq DEF TaskOK

(* After the last step of a call nothing is left, and the step is about the *)
(* task's own descriptor.                                                  *)
LEMMA LastOK ==
  ASSUME NEW p, NEW f, TaskOK(p, f), p # <<>>, Head(p).kind \in {"scan", "take", "opened", "free"}
  PROVE  /\ Tail(p) = <<>>
         /\ Head(p).kind = "scan" => f = None /\ Head(p).val \in 0..2
         /\ Head(p).kind = "take" => f = None /\ Head(p).val \in Sockets
         /\ Head(p).kind \in {"opened", "free"} => f \in Sockets /\ Head(p).val = f
<1>1. /\ p \in Seq(Steps) /\ Len(p) \in Nat /\ 1 \in 1..Len(p) /\ Head(p) = p[1]
      /\ Tail(p) \in Seq(Steps) /\ Len(Tail(p)) = Len(p) - 1
  BY HeadTailProperties, LenProperties, EmptySeq DEF TaskOK
<1>2. StepOK(p, 1, f)
  BY <1>1 DEF TaskOK
<1>3. Len(p) = 1 => Tail(p) = <<>>
  <2>1. \A q \in Seq(Steps) : q # <<>> => Len(q) \in Nat \ {0}
    BY EmptySeq
  <2>2. Len(p) = 1 => Len(Tail(p)) = 0
    BY <1>1
  <2> QED
    BY <1>1, <2>1, <2>2
<1> QED
  BY <1>1, <1>2, <1>3 DEF StepOK, Plain, IsCommand, OnWord, IsLast

(* The step a task is about to make is one of four sorts.                  *)
LEMMA HeadOK ==
  ASSUME NEW p, NEW f, TaskOK(p, f), p # <<>>
  PROVE  /\ Head(p) = p[1] /\ Head(p) \in Steps
         /\ \/ Plain(Head(p))
            \/ f \in Sockets /\ IsCommand(Head(p), f)
            \/ f \in Sockets /\ OnWord(Head(p), f)
            \/ Head(p).kind \in {"scan", "take", "opened", "free"}
<1>1. /\ p \in Seq(Steps) /\ Len(p) \in Nat /\ 1 \in 1..Len(p) /\ Head(p) = p[1] /\ Head(p) \in Steps
  BY HeadTailProperties, LenProperties, EmptySeq DEF TaskOK
<1>2. StepOK(p, 1, f)
  BY <1>1 DEF TaskOK
<1> QED
  BY <1>1, <1>2 DEF StepOK, IsLast

(* A list of configuration steps is legal for every task.                  *)
LEMMA PlainOK ==
  ASSUME NEW p \in Seq(PlainSteps), NEW f
  PROVE  TaskOK(p, f)
<1>1. p \in Seq(Steps) /\ Len(p) \in Nat
  BY SeqMonotonic, LenProperties DEF PlainSteps
<1>2. \A i \in 1..Len(p) : Plain(p[i])
  BY ElementOfSeq DEF PlainSteps
<1>3. \A i \in 1..Len(p) : StepOK(p, i, f)
  BY <1>2 DEF StepOK
<1>4. ASSUME NEW i \in 1..Len(p), i + 1 <= Len(p) PROVE Joint(p, i, f)
  <2>1. i + 1 \in 1..Len(p)
    BY <1>1, <1>4
  <2>2. Plain(p[i]) /\ Plain(p[i+1])
    BY <1>2, <2>1
  <2> QED
    BY <2>2 DEF Joint, Updates, Plain
<1> QED
  BY <1>1, <1>3, <1>4 DEF TaskOK

(* The registers that the configuration uses.                              *)
Chosen == Register \ {"CR0", "CR1"}

(* Reads, writes and registrations of callbacks are configuration steps.   *)
LEMMA StepsArePlain ==
  /\ \A r \in Chosen : Rd(r) \in PlainSteps
  /\ \A r \in Chosen, v \in Values : Wr(r, v) \in PlainSteps
  /\ \A r \in Chosen, h \in Texts : Re(r, h) \in PlainSteps
  /\ \A k \in {"pin", "cris", "cs", "spi", "burst", "up"} : Step(k, 0) \in PlainSteps
<1>1. "none" \in Values /\ 0 \in Values
  BY DEF Values, Texts
<1>2. ASSUME NEW k \in {"read", "write", "pin", "cris", "cs", "spi", "burst", "up"},
             NEW r \in Chosen \cup {"none"}, NEW h \in Texts, NEW v \in Values
      PROVE  StepOf(k, r, h, v) \in PlainSteps
  <2>1. k \in Kinds /\ r \in Register \cup {"none"} /\ r \notin {"CR0", "CR1"}
    BY DEF Kinds, Chosen
  <2>2. StepOf(k, r, h, v) \in Steps
    BY <2>1 DEF Steps, StepOf
  <2> QED
    BY <2>1, <2>2 DEF PlainSteps, Plain, StepOf
<1> QED
  <2>1. "given" \in Texts
    BY DEF Texts
  <2> QED
    BY <2>1, <1>1, <1>2 DEF Rd, Wr, Re, Step

(* The names the configuration functions use are registers and values.     *)
LEMMA Names ==
  /\ {"SHAR", "GAR", "SUBR", "SIPR", "MR", "PHYCFGR", "VERSIONR", "RTR", "RCR", "IMR", "SIMR",
      "TXBUF0", "TXBUF1", "RXBUF0", "RXBUF1"} \subseteq Chosen
  /\ \A h \in {"saved", "rst", "hold", "release", "down", "all", "pingblock", "forcearp"} :
        h \in Texts
  /\ {"own", "other", "set"} \subseteq Values
BY DEF Chosen, Register, Identity, Sizes, Config, Values, Texts

(* wizchip_sw_reset touches no command register.                           *)
LEMMA ResetIsPlain == wizchip_sw_reset \in Seq(PlainSteps)
<1>1. SaveIdentity \in Seq(PlainSteps)
  BY StepsArePlain, Names DEF SaveIdentity
<1>2. RestoreIdentity \in Seq(PlainSteps)
  BY StepsArePlain, Names DEF RestoreIdentity
<1>3. <<Re("MR", "rst"), Rd("MR")>> \in Seq(PlainSteps)
  BY StepsArePlain, Names
<1> QED
  BY <1>1, <1>2, <1>3, ConcatProperties DEF wizchip_sw_reset

(* Sizes that wizchip_init can be asked for: none, or a byte for each      *)
(* socket.                                                                 *)
GivenSizes == {NULL} \cup ((0..255) \X (0..255))

(* Writing them touches no command register,                               *)
LEMMA SizesArePlain ==
  ASSUME NEW s \in GivenSizes
  PROVE  /\ SetSizes("TXBUF0", "TXBUF1", s) \in Seq(PlainSteps)
         /\ SetSizes("RXBUF0", "RXBUF1", s) \in Seq(PlainSteps)
<1>1. CASE s = NULL
  BY <1>1, EmptySeq DEF SetSizes
<1>2. CASE s # NULL
  <2>1. {s[1], s[2]} \subseteq Values
    BY <1>2 DEF GivenSizes, Values
  <2>2. <<Wr("TXBUF0", s[1]), Wr("TXBUF1", s[2])>> \in Seq(PlainSteps)
    BY <2>1, StepsArePlain, Names
  <2>3. <<Wr("RXBUF0", s[1]), Wr("RXBUF1", s[2])>> \in Seq(PlainSteps)
    BY <2>1, StepsArePlain, Names
  <2> QED
    BY <1>2, <2>2, <2>3 DEF SetSizes
<1> QED
  BY <1>1, <1>2

(* so wizchip_init touches none, whatever the sizes.                       *)
LEMMA InitIsPlain ==
  ASSUME NEW tx \in GivenSizes, NEW rx \in GivenSizes
  PROVE  wizchip_init(tx, rx) \in Seq(PlainSteps)
<1>1. <<>> \in Seq(PlainSteps)
  BY EmptySeq
<1>2. /\ SetSizes("TXBUF0", "TXBUF1", tx) \in Seq(PlainSteps)
      /\ SetSizes("RXBUF0", "RXBUF1", rx) \in Seq(PlainSteps)
  BY SizesArePlain
<1> QED
  BY <1>1, <1>2, ResetIsPlain, ConcatProperties DEF wizchip_init

(* The bring-up asks for 2 KB for each socket.                             *)
LEMMA TwoEach == <<2, 2>> \in GivenSizes
BY DEF GivenSizes

LEMMA InitTwoIsPlain == wizchip_init(<<2, 2>>, <<2, 2>>) \in Seq(PlainSteps)
<1>1. PICK s \in GivenSizes : s = <<2, 2>>
  BY TwoEach
<1>2. wizchip_init(s, s) \in Seq(PlainSteps)
  BY InitIsPlain
<1> QED
  BY <1>1, <1>2

(* Nor do the functions behind ctlnetwork and ctlwizchip,                  *)
LEMMA SettingsArePlain ==
  /\ wizchip_setnetinfo("own") \in Seq(PlainSteps)
  /\ wizchip_setnetinfo("other") \in Seq(PlainSteps)
  /\ \A m \in {"pingblock", "forcearp"} : wizchip_setnetmode(m) \in Seq(PlainSteps)
  /\ wizchip_settimeout("set") \in Seq(PlainSteps)
  /\ wizchip_setinterruptmask("set") \in Seq(PlainSteps)
<1>1. \A v \in {"own", "other"} : wizchip_setnetinfo(v) \in Seq(PlainSteps)
  BY StepsArePlain, Names DEF wizchip_setnetinfo
<1>2. \A m \in {"pingblock", "forcearp"} : wizchip_setnetmode(m) \in Seq(PlainSteps)
  BY StepsArePlain, Names DEF wizchip_setnetmode
<1>3. wizchip_settimeout("set") \in Seq(PlainSteps)
  BY StepsArePlain, Names DEF wizchip_settimeout
<1>4. wizchip_setinterruptmask("set") \in Seq(PlainSteps)
  BY StepsArePlain, Names DEF wizchip_setinterruptmask
<1> QED
  BY <1>1, <1>2, <1>3, <1>4

(* nor those of the PHY,                                                   *)
LEMMA PhyIsPlain ==
  /\ wizphy_reset \in Seq(PlainSteps)
  /\ \A c \in PhyConf : wizphy_setphyconf(c) \in Seq(PlainSteps)
  /\ \A down \in BOOLEAN : wizphy_setphypmode(down) \in Seq(PlainSteps)
<1>1. wizphy_reset \in Seq(PlainSteps)
  BY StepsArePlain, Names DEF wizphy_reset
<1>2. ASSUME NEW c \in PhyConf PROVE wizphy_setphyconf(c) \in Seq(PlainSteps)
  <2>1. c.sw \in BOOLEAN /\ OPMDC(c) \in Int
    <3>1. c.sw \in BOOLEAN /\ c.mode \in {"auto", "manual"} /\ c.full \in BOOLEAN /\ c.fast \in BOOLEAN
      BY DEF PhyConf
    <3> QED
      BY <3>1 DEF OPMDC
  <2>2. PICK n \in Int : n = OPMDC(c)
    BY <2>1
  <2>3. PICK b \in BOOLEAN : b = c.sw
    BY <2>1
  <2>4. [running |-> FALSE, opmd |-> b, opmdc |-> n] \in Values
    BY DEF Values
  <2>5. <<Wr("PHYCFGR", [running |-> FALSE, opmd |-> c.sw, opmdc |-> OPMDC(c)])>> \in Seq(PlainSteps)
    BY <2>2, <2>3, <2>4, StepsArePlain, Names
  <2> QED
    BY <2>5, <1>1, ConcatProperties DEF wizphy_setphyconf
<1>3. ASSUME NEW down \in BOOLEAN PROVE wizphy_setphypmode(down) \in Seq(PlainSteps)
  <2>1. <<Rd("PHYCFGR")>> \in Seq(PlainSteps)
    BY StepsArePlain, Names
  <2>2. <<Re("PHYCFGR", IF down THEN "down" ELSE "all")>> \in Seq(PlainSteps)
    BY StepsArePlain, Names
  <2>3. <<>> \in Seq(PlainSteps)
    BY EmptySeq
  <2> QED
    BY <2>1, <2>2, <2>3, <1>1, ConcatProperties DEF wizphy_setphypmode
<1> QED
  BY <1>1, <1>2, <1>3

(* nor the bring-up, which starts with the pin and then registers the      *)
(* callbacks of the critical section.                                      *)
LEMMA BringUpIsPlain ==
  /\ BringUp \in Seq(PlainSteps)
  /\ BringUp # <<>> /\ Tail(BringUp) # <<>>
  /\ Head(BringUp).kind = "pin" /\ Head(Tail(BringUp)).kind = "cris"
<1> DEFINE first == <<Step("pin", 0), Step("cris", 0), Step("cs", 0), Step("spi", 0), Step("burst", 0)>>
           rest == wizchip_init(<<2, 2>>, <<2, 2>>) \o <<Rd("VERSIONR")>>
                   \o wizchip_setnetinfo("own") \o <<Step("up", 0)>>
<1>1. first \in Seq(PlainSteps) /\ Len(first) = 5 /\ first[1] = Step("pin", 0) /\ first[2] = Step("cris", 0)
  BY StepsArePlain
<1>2. <<Rd("VERSIONR")>> \in Seq(PlainSteps) /\ <<Step("up", 0)>> \in Seq(PlainSteps)
  BY StepsArePlain, Names
<1>3. wizchip_init(<<2, 2>>, <<2, 2>>) \in Seq(PlainSteps)
  BY InitTwoIsPlain
<1> HIDE DEF first
<1>4. /\ BringUp \in Seq(PlainSteps) /\ Len(BringUp) \in Nat /\ Len(BringUp) >= 5
      /\ BringUp[1] = Step("pin", 0) /\ BringUp[2] = Step("cris", 0)
  <2>1. /\ (wizchip_init(<<2, 2>>, <<2, 2>>) \o <<Rd("VERSIONR")>>) \in Seq(PlainSteps)
    BY <1>2, <1>3, ConcatProperties
  <2>2. BringUp = (((first \o wizchip_init(<<2, 2>>, <<2, 2>>)) \o <<Rd("VERSIONR")>>) \o wizchip_setnetinfo("own"))
                  \o <<Step("up", 0)>>
    BY DEF BringUp, first
  <2>3. \A s \in Seq(PlainSteps), u \in Seq(PlainSteps) :
          Len(s) >= 5 /\ s[1] = Step("pin", 0) /\ s[2] = Step("cris", 0) =>
            /\ s \o u \in Seq(PlainSteps) /\ Len(s \o u) >= 5
            /\ (s \o u)[1] = Step("pin", 0) /\ (s \o u)[2] = Step("cris", 0)
    <3> SUFFICES ASSUME NEW s \in Seq(PlainSteps), NEW u \in Seq(PlainSteps),
                        Len(s) >= 5, s[1] = Step("pin", 0), s[2] = Step("cris", 0)
                 PROVE  /\ s \o u \in Seq(PlainSteps) /\ Len(s \o u) >= 5
                        /\ (s \o u)[1] = Step("pin", 0) /\ (s \o u)[2] = Step("cris", 0)
      OBVIOUS
    <3>1. Len(s) \in Nat /\ Len(u) \in Nat
      BY LenProperties
    <3> QED
      BY <3>1, ConcatProperties
  <2>4. first \o wizchip_init(<<2, 2>>, <<2, 2>>) \in Seq(PlainSteps)
    BY <1>1, <1>3, ConcatProperties
  <2> DEFINE a == first \o wizchip_init(<<2, 2>>, <<2, 2>>)
             b == a \o <<Rd("VERSIONR")>>
             c == b \o wizchip_setnetinfo("own")
             d == c \o <<Step("up", 0)>>
             Good(s) == /\ s \in Seq(PlainSteps) /\ Len(s) >= 5
                        /\ s[1] = Step("pin", 0) /\ s[2] = Step("cris", 0)
  <2>5. \A s, u : Good(s) /\ u \in Seq(PlainSteps) => Good(s \o u)
    BY <2>3
  <2>6. Good(first)
    BY <1>1
  <2> HIDE DEF Good
  <2>7. Good(a)
    BY <2>5, <2>6, <1>3
  <2> HIDE DEF a
  <2>8. Good(b)
    BY <2>5, <2>7, <1>2
  <2> HIDE DEF b
  <2>9. Good(c)
    BY <2>5, <2>8, SettingsArePlain
  <2> HIDE DEF c
  <2>10. Good(d)
    BY <2>5, <2>9, <1>2
  <2>11. BringUp = d
    BY <2>2 DEF a, b, c, d
  <2> HIDE DEF d
  <2> QED
    BY <2>10, <2>11, LenProperties DEF Good
<1>5. BringUp # <<>> /\ Head(BringUp) = BringUp[1]
  BY <1>4, EmptySeq, HeadTailProperties
<1>6. /\ Tail(BringUp) \in Seq(PlainSteps) /\ Len(Tail(BringUp)) = Len(BringUp) - 1
      /\ Tail(BringUp)[1] = BringUp[2]
  BY <1>4, <1>5, HeadTailProperties
<1>7. Tail(BringUp) # <<>> /\ Head(Tail(BringUp)) = BringUp[2]
  BY <1>4, <1>6, EmptySeq, HeadTailProperties
<1> QED
  BY <1>4, <1>5, <1>7 DEF Step, StepOf

(* The steps of the socket functions on socket f.                          *)
SocketSteps(f) ==
  {Wr(CR(f), "CLOSE"), Wr(CR(f), "OPEN"), Wr(CR(f), "SEND"), Step("load", f),
   Step("store_clear", f), Step("store_set", f), Step("wait", f), Step("test", f),
   Step("opened", f), Step("free", f)}

(* They are steps.                                                         *)
LEMMA SocketStepsAreSteps ==
  ASSUME NEW f \in Sockets
  PROVE  SocketSteps(f) \subseteq Steps
<1>1. {"CLOSE", "OPEN", "SEND", "none", f} \subseteq Values
  BY DEF Values, Texts, Commands, Sockets
<1>2. CR(f) \in Register /\ "given" \in Texts
  BY DEF CR, Register, Texts
<1> QED
  BY <1>1, <1>2 DEF SocketSteps, Steps, Kinds, Wr, Step, StepOf

(* The concatenation of two sequences, element by element.                 *)
LEMMA Flat ==
  ASSUME NEW S, NEW s \in Seq(S), NEW t \in Seq(S), NEW u \in Seq(S), Len(u) = Len(s) + Len(t),
         \A i \in 1..Len(s) : u[i] = s[i],
         \A i \in 1..Len(t) : u[Len(s) + i] = t[i]
  PROVE  s \o t = u
<1>1. Len(s) \in Nat /\ Len(t) \in Nat
  BY LenProperties
<1>2. PICK v \in Seq(S) : v = s \o t
  BY ConcatProperties
<1>3. Len(v) = Len(u)
  BY <1>2, ConcatProperties
<1>4. ASSUME NEW i \in 1..Len(v) PROVE v[i] = u[i]
  <2>1. CASE i <= Len(s)
    BY <2>1, <1>1, <1>2, <1>4, ConcatProperties
  <2>2. CASE ~(i <= Len(s))
    <3>1. i - Len(s) \in 1..Len(t) /\ Len(s) + (i - Len(s)) = i
      BY <2>2, <1>1, <1>3, <1>4
    <3>2. v[i] = t[i - Len(s)]
      BY <2>2, <1>1, <1>2, <1>3, <1>4, ConcatProperties
    <3> QED
      BY <3>1, <3>2
  <2> QED
    BY <2>1, <2>2
<1> QED
  BY <1>2, <1>3, <1>4, SeqEqual

(* The concatenations of literal sequences that the functions of socket.c  *)
(* need, by their lengths: one step and two,                               *)
LEMMA Flat12 ==
  ASSUME NEW a \in Steps, NEW b \in Steps, NEW c \in Steps
  PROVE  <<a>> \o <<b, c>> = <<a, b, c>>
<1>1. <<a>> \in Seq(Steps) /\ <<b, c>> \in Seq(Steps) /\ <<a, b, c>> \in Seq(Steps)
  OBVIOUS
<1>2. Len(<<a>>) = 1 /\ Len(<<b, c>>) = 2 /\ Len(<<a, b, c>>) = 3
  OBVIOUS
<1>3. \A i \in 1..1 : <<a, b, c>>[i] = <<a>>[i]
  OBVIOUS
<1>4. \A i \in 1..2 : <<a, b, c>>[1 + i] = <<b, c>>[i]
  OBVIOUS
<1>5. PICK s \in Seq(Steps), t \in Seq(Steps), u \in Seq(Steps) : s = <<a>> /\ t = <<b, c>> /\ u = <<a, b, c>>
  BY <1>1
<1>6. /\ Len(u) = Len(s) + Len(t)
      /\ \A i \in 1..Len(s) : u[i] = s[i]
      /\ \A i \in 1..Len(t) : u[Len(s) + i] = t[i]
  BY <1>2, <1>3, <1>4, <1>5
<1>7. s \o t = u
  BY <1>6, Flat
<1> QED
  BY <1>5, <1>7

(* three steps and one,                                                    *)
LEMMA Flat31 ==
  ASSUME NEW a \in Steps, NEW b \in Steps, NEW c \in Steps, NEW d \in Steps
  PROVE  <<a, b, c>> \o <<d>> = <<a, b, c, d>>
<1>1. <<a, b, c>> \in Seq(Steps) /\ <<d>> \in Seq(Steps) /\ <<a, b, c, d>> \in Seq(Steps)
  OBVIOUS
<1>2. Len(<<a, b, c>>) = 3 /\ Len(<<d>>) = 1 /\ Len(<<a, b, c, d>>) = 4
  OBVIOUS
<1>3. \A i \in 1..3 : <<a, b, c, d>>[i] = <<a, b, c>>[i]
  OBVIOUS
<1>4. \A i \in 1..1 : <<a, b, c, d>>[3 + i] = <<d>>[i]
  OBVIOUS
<1>5. PICK s \in Seq(Steps), t \in Seq(Steps), u \in Seq(Steps) : s = <<a, b, c>> /\ t = <<d>> /\ u = <<a, b, c, d>>
  BY <1>1
<1>6. /\ Len(u) = Len(s) + Len(t)
      /\ \A i \in 1..Len(s) : u[i] = s[i]
      /\ \A i \in 1..Len(t) : u[Len(s) + i] = t[i]
  BY <1>2, <1>3, <1>4, <1>5
<1>7. s \o t = u
  BY <1>6, Flat
<1> QED
  BY <1>5, <1>7

(* four and two,                                                           *)
LEMMA Flat42 ==
  ASSUME NEW a \in Steps, NEW b \in Steps, NEW c \in Steps, NEW d \in Steps
  PROVE  <<a, b, c, d>> \o <<b, c>> = <<a, b, c, d, b, c>>
<1>1. <<a, b, c, d>> \in Seq(Steps) /\ <<b, c>> \in Seq(Steps) /\ <<a, b, c, d, b, c>> \in Seq(Steps)
  OBVIOUS
<1>2. Len(<<a, b, c, d>>) = 4 /\ Len(<<b, c>>) = 2 /\ Len(<<a, b, c, d, b, c>>) = 6
  OBVIOUS
<1>3. \A i \in 1..4 : <<a, b, c, d, b, c>>[i] = <<a, b, c, d>>[i]
  OBVIOUS
<1>4. \A i \in 1..2 : <<a, b, c, d, b, c>>[4 + i] = <<b, c>>[i]
  OBVIOUS
<1>5. PICK s \in Seq(Steps), t \in Seq(Steps), u \in Seq(Steps) : s = <<a, b, c, d>> /\ t = <<b, c>> /\ u = <<a, b, c, d, b, c>>
  BY <1>1
<1>6. /\ Len(u) = Len(s) + Len(t)
      /\ \A i \in 1..Len(s) : u[i] = s[i]
      /\ \A i \in 1..Len(t) : u[Len(s) + i] = t[i]
  BY <1>2, <1>3, <1>4, <1>5
<1>7. s \o t = u
  BY <1>6, Flat
<1> QED
  BY <1>5, <1>7

(* six and one,                                                            *)
LEMMA Flat61 ==
  ASSUME NEW a \in Steps, NEW b \in Steps, NEW c \in Steps, NEW d \in Steps, NEW e \in Steps
  PROVE  <<a, b, c, d, b, c>> \o <<e>> = <<a, b, c, d, b, c, e>>
<1>1. <<a, b, c, d, b, c>> \in Seq(Steps) /\ <<e>> \in Seq(Steps) /\ <<a, b, c, d, b, c, e>> \in Seq(Steps)
  OBVIOUS
<1>2. Len(<<a, b, c, d, b, c>>) = 6 /\ Len(<<e>>) = 1 /\ Len(<<a, b, c, d, b, c, e>>) = 7
  OBVIOUS
<1>3. \A i \in 1..6 : <<a, b, c, d, b, c, e>>[i] = <<a, b, c, d, b, c>>[i]
  OBVIOUS
<1>4. \A i \in 1..1 : <<a, b, c, d, b, c, e>>[6 + i] = <<e>>[i]
  OBVIOUS
<1>5. PICK s \in Seq(Steps), t \in Seq(Steps), u \in Seq(Steps) : s = <<a, b, c, d, b, c>> /\ t = <<e>> /\ u = <<a, b, c, d, b, c, e>>
  BY <1>1
<1>6. /\ Len(u) = Len(s) + Len(t)
      /\ \A i \in 1..Len(s) : u[i] = s[i]
      /\ \A i \in 1..Len(t) : u[Len(s) + i] = t[i]
  BY <1>2, <1>3, <1>4, <1>5
<1>7. s \o t = u
  BY <1>6, Flat
<1> QED
  BY <1>5, <1>7

(* two and four,                                                           *)
LEMMA Flat24 ==
  ASSUME NEW a \in Steps, NEW b \in Steps, NEW c \in Steps, NEW d \in Steps, NEW e \in Steps
  PROVE  <<b, e>> \o <<a, d, b, c>> = <<b, e, a, d, b, c>>
<1>1. <<b, e>> \in Seq(Steps) /\ <<a, d, b, c>> \in Seq(Steps) /\ <<b, e, a, d, b, c>> \in Seq(Steps)
  OBVIOUS
<1>2. Len(<<b, e>>) = 2 /\ Len(<<a, d, b, c>>) = 4 /\ Len(<<b, e, a, d, b, c>>) = 6
  OBVIOUS
<1>3. \A i \in 1..2 : <<b, e, a, d, b, c>>[i] = <<b, e>>[i]
  OBVIOUS
<1>4. \A i \in 1..4 : <<b, e, a, d, b, c>>[2 + i] = <<a, d, b, c>>[i]
  OBVIOUS
<1>5. PICK s \in Seq(Steps), t \in Seq(Steps), u \in Seq(Steps) : s = <<b, e>> /\ t = <<a, d, b, c>> /\ u = <<b, e, a, d, b, c>>
  BY <1>1
<1>6. /\ Len(u) = Len(s) + Len(t)
      /\ \A i \in 1..Len(s) : u[i] = s[i]
      /\ \A i \in 1..Len(t) : u[Len(s) + i] = t[i]
  BY <1>2, <1>3, <1>4, <1>5
<1>7. s \o t = u
  BY <1>6, Flat
<1> QED
  BY <1>5, <1>7

(* and two and two.                                                        *)
LEMMA Flat22 ==
  ASSUME NEW a \in Steps, NEW b \in Steps, NEW c \in Steps, NEW d \in Steps
  PROVE  <<a, d>> \o <<b, c>> = <<a, d, b, c>>
<1>1. <<a, d>> \in Seq(Steps) /\ <<b, c>> \in Seq(Steps) /\ <<a, d, b, c>> \in Seq(Steps)
  OBVIOUS
<1>2. Len(<<a, d>>) = 2 /\ Len(<<b, c>>) = 2 /\ Len(<<a, d, b, c>>) = 4
  OBVIOUS
<1>3. \A i \in 1..2 : <<a, d, b, c>>[i] = <<a, d>>[i]
  OBVIOUS
<1>4. \A i \in 1..2 : <<a, d, b, c>>[2 + i] = <<b, c>>[i]
  OBVIOUS
<1>5. PICK s \in Seq(Steps), t \in Seq(Steps), u \in Seq(Steps) : s = <<a, d>> /\ t = <<b, c>> /\ u = <<a, d, b, c>>
  BY <1>1
<1>6. /\ Len(u) = Len(s) + Len(t)
      /\ \A i \in 1..Len(s) : u[i] = s[i]
      /\ \A i \in 1..Len(t) : u[Len(s) + i] = t[i]
  BY <1>2, <1>3, <1>4, <1>5
<1>7. s \o t = u
  BY <1>6, Flat
<1> QED
  BY <1>5, <1>7

(* Programs of one step: the scan of g_toe, taking an entry, the test that *)
(* begins send() and freeing an entry that was never opened.               *)
LEMMA OneOK ==
  /\ \A v \in 0..2 : TaskOK(<<Step("scan", v)>>, None)
  /\ \A v \in Sockets : TaskOK(<<Step("take", v)>>, None)
  /\ \A f \in Sockets : TaskOK(<<Step("test", f)>>, f) /\ TaskOK(<<Step("free", f)>>, f)
<1>1. ASSUME NEW k \in {"scan", "take", "test", "free"}, NEW v \in 0..2
      PROVE  <<Step(k, v)>> \in Seq(Steps) /\ Len(<<Step(k, v)>>) = 1 /\ <<Step(k, v)>>[1] = Step(k, v)
  <2>1. v \in Values /\ "given" \in Texts
    BY DEF Values, Texts
  <2>2. Step(k, v) \in Steps
    BY <2>1 DEF Steps, Step, StepOf, Kinds
  <2> QED
    BY <2>2
<1>2. ASSUME NEW k \in {"scan", "take", "test", "free"}, NEW v \in 0..2, NEW f,
             k \in {"scan", "take"} => f = None,
             k \in {"take", "test", "free"} => v \in Sockets,
             k \in {"test", "free"} => f = v
      PROVE  TaskOK(<<Step(k, v)>>, f)
  <2>1. PICK p \in Seq(Steps) : p = <<Step(k, v)>> /\ Len(p) = 1 /\ p[1] = Step(k, v)
    BY <1>1
  <2>2. StepOK(p, 1, f)
    BY <2>1, <1>2 DEF StepOK, OnWord, IsLast, Step, StepOf
  <2>3. TaskOK(p, f)
    BY <2>1, <2>2 DEF TaskOK
  <2> QED
    BY <2>1, <2>3
<1>3. Sockets \subseteq 0..2
  BY DEF Sockets
<1> QED
  BY <1>2, <1>3

(* A step on the shared word that needs no other after it is legal.        *)
LEMMA WordPlace ==
  ASSUME NEW p, NEW i, NEW f \in Sockets, OnWord(p[i], f), p[i].kind \notin {"load", "wait"}
  PROVE  StepOK(p, i, f)
BY DEF StepOK

(* The wait for SENDOK is legal before the next SEND.                      *)
LEMMA WaitPlace ==
  ASSUME NEW p, NEW i, NEW f \in Sockets, OnWord(p[i], f), i + 1 <= Len(p), IsCommand(p[i+1], f)
  PROVE  StepOK(p, i, f)
BY DEF StepOK

(* A load is legal where a step follows.                                   *)
LEMMA LoadPlace ==
  ASSUME NEW p, NEW i, NEW f \in Sockets, OnWord(p[i], f), i + 1 <= Len(p), p[i].kind = "load"
  PROVE  StepOK(p, i, f)
BY DEF StepOK

(* A command is legal with the update of the shared word after it.         *)
LEMMA CommandPlace ==
  ASSUME NEW p, NEW i, NEW f \in Sockets, IsCommand(p[i], f), i + 2 <= Len(p),
         p[i+1].kind = "load", Accounts(p[i], p[i+2])
  PROVE  StepOK(p, i, f)
BY DEF StepOK

(* Marking or freeing the entry is legal at the end.                       *)
LEMMA LastPlace ==
  ASSUME NEW p, NEW i, NEW f \in Sockets, IsLast(p[i], f), i = Len(p)
  PROVE  StepOK(p, i, f)
BY DEF StepOK

(* The programs of socket(), close() and send(), written out, are legal.   *)
LEMMA ListOK ==
  ASSUME NEW f \in Sockets, NEW C \in Steps, NEW O \in Steps, NEW S \in Steps, NEW L \in Steps,
         NEW c \in Steps, NEW s \in Steps, NEW w \in Steps, NEW o \in Steps, NEW x \in Steps,
         IsCommand(C, f), IsCommand(O, f), IsCommand(S, f),
         OnWord(L, f), OnWord(c, f), OnWord(s, f), OnWord(w, f), IsLast(o, f), IsLast(x, f),
         L.kind = "load", c.kind = "store_clear", s.kind = "store_set", w.kind = "wait",
         o.kind = "opened", x.kind = "free", C.kind = "write", O.kind = "write", S.kind = "write",
         Accounts(C, c), Accounts(O, c), Accounts(S, s)
  PROVE  /\ TaskOK(<<C, L, c, O, L, c, o>>, f)
         /\ TaskOK(<<C, L, c, x>>, f)
         /\ TaskOK(<<w, S, L, s>>, f)
         /\ TaskOK(<<L, c, w, S, L, s>>, f)
<1>1. TaskOK(<<C, L, c, O, L, c, o>>, f)
  <2>1. PICK p \in Seq(Steps) : p = <<C, L, c, O, L, c, o>>
    <3>1. <<C, L, c, O, L, c, o>> \in Seq(Steps)
      OBVIOUS
    <3> QED
      BY <3>1
  <2>2. Len(p) = 7 /\ p[1] = C /\ p[2] = L /\ p[3] = c /\ p[4] = O /\ p[5] = L /\ p[6] = c /\ p[7] = o
    BY <2>1
  <2>3. StepOK(p, 1, f)
    <3>1. /\ IsCommand(p[1], f) /\ 1 + 2 <= Len(p) /\ p[1+1].kind = "load"
         /\ Accounts(p[1], p[1+2])
      BY <2>2
    <3> QED
      BY <3>1, CommandPlace
  <2>4. StepOK(p, 2, f)
    <3>1. OnWord(p[2], f) /\ 2 + 1 <= Len(p) /\ p[2].kind = "load"
      BY <2>2
    <3> QED
      BY <3>1, LoadPlace
  <2>5. StepOK(p, 3, f)
    BY <2>2, WordPlace
  <2>6. StepOK(p, 4, f)
    <3>1. /\ IsCommand(p[4], f) /\ 4 + 2 <= Len(p) /\ p[4+1].kind = "load"
         /\ Accounts(p[4], p[4+2])
      BY <2>2
    <3> QED
      BY <3>1, CommandPlace
  <2>7. StepOK(p, 5, f)
    <3>1. OnWord(p[5], f) /\ 5 + 1 <= Len(p) /\ p[5].kind = "load"
      BY <2>2
    <3> QED
      BY <3>1, LoadPlace
  <2>8. StepOK(p, 6, f)
    BY <2>2, WordPlace
  <2>9. StepOK(p, 7, f)
    BY <2>2, LastPlace
  <2>10. Joint(p, 1, f)
    BY <2>2 DEF Joint, Updates
  <2>11. Joint(p, 2, f)
    BY <2>2 DEF Joint, Updates
  <2>12. Joint(p, 3, f)
    BY <2>2 DEF Joint, Updates
  <2>13. Joint(p, 4, f)
    BY <2>2 DEF Joint, Updates
  <2>14. Joint(p, 5, f)
    BY <2>2 DEF Joint, Updates
  <2>15. Joint(p, 6, f)
    BY <2>2 DEF Joint, Updates
  <2>16. \A i \in 1..7 : StepOK(p, i, f) /\ (i + 1 <= 7 => Joint(p, i, f))
    BY <2>3, <2>4, <2>5, <2>6, <2>7, <2>8, <2>9, <2>10, <2>11, <2>12, <2>13, <2>14, <2>15
  <2> QED
    BY <2>1, <2>2, <2>16 DEF TaskOK
<1>2. TaskOK(<<C, L, c, x>>, f)
  <2>1. PICK p \in Seq(Steps) : p = <<C, L, c, x>>
    <3>1. <<C, L, c, x>> \in Seq(Steps)
      OBVIOUS
    <3> QED
      BY <3>1
  <2>2. Len(p) = 4 /\ p[1] = C /\ p[2] = L /\ p[3] = c /\ p[4] = x
    BY <2>1
  <2>3. StepOK(p, 1, f)
    <3>1. /\ IsCommand(p[1], f) /\ 1 + 2 <= Len(p) /\ p[1+1].kind = "load"
         /\ Accounts(p[1], p[1+2])
      BY <2>2
    <3> QED
      BY <3>1, CommandPlace
  <2>4. StepOK(p, 2, f)
    <3>1. OnWord(p[2], f) /\ 2 + 1 <= Len(p) /\ p[2].kind = "load"
      BY <2>2
    <3> QED
      BY <3>1, LoadPlace
  <2>5. StepOK(p, 3, f)
    BY <2>2, WordPlace
  <2>6. StepOK(p, 4, f)
    BY <2>2, LastPlace
  <2>7. Joint(p, 1, f)
    BY <2>2 DEF Joint, Updates
  <2>8. Joint(p, 2, f)
    BY <2>2 DEF Joint, Updates
  <2>9. Joint(p, 3, f)
    BY <2>2 DEF Joint, Updates
  <2>10. \A i \in 1..4 : StepOK(p, i, f) /\ (i + 1 <= 4 => Joint(p, i, f))
    BY <2>3, <2>4, <2>5, <2>6, <2>7, <2>8, <2>9
  <2> QED
    BY <2>1, <2>2, <2>10 DEF TaskOK
<1>3. TaskOK(<<w, S, L, s>>, f)
  <2>1. PICK p \in Seq(Steps) : p = <<w, S, L, s>>
    <3>1. <<w, S, L, s>> \in Seq(Steps)
      OBVIOUS
    <3> QED
      BY <3>1
  <2>2. Len(p) = 4 /\ p[1] = w /\ p[2] = S /\ p[3] = L /\ p[4] = s
    BY <2>1
  <2>3. StepOK(p, 1, f)
    <3>1. OnWord(p[1], f) /\ 1 + 1 <= Len(p) /\ IsCommand(p[1+1], f)
      BY <2>2
    <3> QED
      BY <3>1, WaitPlace
  <2>4. StepOK(p, 2, f)
    <3>1. /\ IsCommand(p[2], f) /\ 2 + 2 <= Len(p) /\ p[2+1].kind = "load"
         /\ Accounts(p[2], p[2+2])
      BY <2>2
    <3> QED
      BY <3>1, CommandPlace
  <2>5. StepOK(p, 3, f)
    <3>1. OnWord(p[3], f) /\ 3 + 1 <= Len(p) /\ p[3].kind = "load"
      BY <2>2
    <3> QED
      BY <3>1, LoadPlace
  <2>6. StepOK(p, 4, f)
    BY <2>2, WordPlace
  <2>7. Joint(p, 1, f)
    BY <2>2 DEF Joint, Updates
  <2>8. Joint(p, 2, f)
    BY <2>2 DEF Joint, Updates
  <2>9. Joint(p, 3, f)
    BY <2>2 DEF Joint, Updates
  <2>10. \A i \in 1..4 : StepOK(p, i, f) /\ (i + 1 <= 4 => Joint(p, i, f))
    BY <2>3, <2>4, <2>5, <2>6, <2>7, <2>8, <2>9
  <2> QED
    BY <2>1, <2>2, <2>10 DEF TaskOK
<1>4. TaskOK(<<L, c, w, S, L, s>>, f)
  <2>1. PICK p \in Seq(Steps) : p = <<L, c, w, S, L, s>>
    <3>1. <<L, c, w, S, L, s>> \in Seq(Steps)
      OBVIOUS
    <3> QED
      BY <3>1
  <2>2. Len(p) = 6 /\ p[1] = L /\ p[2] = c /\ p[3] = w /\ p[4] = S /\ p[5] = L /\ p[6] = s
    BY <2>1
  <2>3. StepOK(p, 1, f)
    <3>1. OnWord(p[1], f) /\ 1 + 1 <= Len(p) /\ p[1].kind = "load"
      BY <2>2
    <3> QED
      BY <3>1, LoadPlace
  <2>4. StepOK(p, 2, f)
    BY <2>2, WordPlace
  <2>5. StepOK(p, 3, f)
    <3>1. OnWord(p[3], f) /\ 3 + 1 <= Len(p) /\ IsCommand(p[3+1], f)
      BY <2>2
    <3> QED
      BY <3>1, WaitPlace
  <2>6. StepOK(p, 4, f)
    <3>1. /\ IsCommand(p[4], f) /\ 4 + 2 <= Len(p) /\ p[4+1].kind = "load"
         /\ Accounts(p[4], p[4+2])
      BY <2>2
    <3> QED
      BY <3>1, CommandPlace
  <2>7. StepOK(p, 5, f)
    <3>1. OnWord(p[5], f) /\ 5 + 1 <= Len(p) /\ p[5].kind = "load"
      BY <2>2
    <3> QED
      BY <3>1, LoadPlace
  <2>8. StepOK(p, 6, f)
    BY <2>2, WordPlace
  <2>9. Joint(p, 1, f)
    BY <2>2 DEF Joint, Updates
  <2>10. Joint(p, 2, f)
    BY <2>2 DEF Joint, Updates
  <2>11. Joint(p, 3, f)
    BY <2>2 DEF Joint, Updates
  <2>12. Joint(p, 4, f)
    BY <2>2 DEF Joint, Updates
  <2>13. Joint(p, 5, f)
    BY <2>2 DEF Joint, Updates
  <2>14. \A i \in 1..6 : StepOK(p, i, f) /\ (i + 1 <= 6 => Joint(p, i, f))
    BY <2>3, <2>4, <2>5, <2>6, <2>7, <2>8, <2>9, <2>10, <2>11, <2>12, <2>13
  <2> QED
    BY <2>1, <2>2, <2>14 DEF TaskOK
<1> QED
  BY <1>1, <1>2, <1>3, <1>4

(* So are the programs as the functions build them: wiztoe_bind,           *)
(* wiztoe_listen and wiztoe_connect; wiztoe_close; and both ways of send().*)
LEMMA SocketOK ==
  ASSUME NEW f \in Sockets
  PROVE  /\ TaskOK(socket(f) \o <<Step("opened", f)>>, f)
         /\ TaskOK(close(f) \o <<Step("free", f)>>, f)
         /\ TaskOK(Transmit(f), f)
         /\ TaskOK(Clear(f) \o Transmit(f), f)
<1> DEFINE C == Wr(CR(f), "CLOSE")
           O == Wr(CR(f), "OPEN")
           S == Wr(CR(f), "SEND")
           L == Step("load", f)
           c == Step("store_clear", f)
           s == Step("store_set", f)
           w == Step("wait", f)
           o == Step("opened", f)
           x == Step("free", f)
<1>1. {C, O, S, L, c, s, w, o, x} \subseteq Steps
  BY SocketStepsAreSteps DEF SocketSteps
<1> HIDE DEF C, O, S, L, c, s, w, o, x
<1>2. /\ <<C>> \o <<L, c>> = <<C, L, c>>
      /\ <<w, S>> \o <<L, s>> = <<w, S, L, s>>
      /\ <<L, c>> \o <<w, S, L, s>> = <<L, c, w, S, L, s>>
  BY <1>1, Flat12, Flat22, Flat24
<1>3. /\ <<C, L, c>> \o <<x>> = <<C, L, c, x>>
      /\ <<C, L, c>> \o <<O>> = <<C, L, c, O>>
      /\ <<C, L, c, O>> \o <<L, c>> = <<C, L, c, O, L, c>>
      /\ <<C, L, c, O, L, c>> \o <<o>> = <<C, L, c, O, L, c, o>>
  BY <1>1, Flat31, Flat42, Flat61
<1>4. /\ IsCommand(C, f) /\ IsCommand(O, f) /\ IsCommand(S, f)
      /\ OnWord(L, f) /\ OnWord(c, f) /\ OnWord(s, f) /\ OnWord(w, f)
      /\ IsLast(o, f) /\ IsLast(x, f)
      /\ L.kind = "load" /\ c.kind = "store_clear" /\ s.kind = "store_set" /\ w.kind = "wait"
      /\ o.kind = "opened" /\ x.kind = "free" /\ C.kind = "write" /\ O.kind = "write"
      /\ S.kind = "write"
      /\ Accounts(C, c) /\ Accounts(O, c) /\ Accounts(S, s)
  BY DEF IsCommand, OnWord, IsLast, Wr, Step, StepOf, Commands, Accounts, C, O, S, L, c, s, w, o, x
<1>5. /\ TaskOK(<<C, L, c, O, L, c, o>>, f) /\ TaskOK(<<C, L, c, x>>, f)
      /\ TaskOK(<<w, S, L, s>>, f) /\ TaskOK(<<L, c, w, S, L, s>>, f)
  BY <1>1, <1>4, ListOK
<1>6. close(f) = <<C, L, c>> /\ Clear(f) = <<L, c>> /\ Transmit(f) = <<w, S, L, s>>
  BY <1>2 DEF close, Clear, Transmit, Set, C, S, L, c, s, w
<1>7. socket(f) = <<C, L, c, O, L, c>>
  BY <1>3, <1>6 DEF socket, O
<1> QED
  BY <1>2, <1>3, <1>5, <1>6, <1>7 DEF o, x

-----------------------------------------------------------------------------
(* What a program leaves in a register. The definitions are recursive      *)
(* functions on the positions of a program; their laws are proved by       *)
(* induction in the form of a least counterexample.                        *)

(* What step x makes of register r and of the value of it the task has     *)
(* read; c is the pair of both.                                            *)
Effect(x, r, c) ==
  [reg   |-> IF x.kind = "pin" \/ (x.kind = "write" /\ x.how = "rst") THEN AfterReset[r]
             ELSE IF x.kind = "write" /\ x.reg = r THEN ValueOf(x, c.saved)
             ELSE c.reg,
   saved |-> IF x.kind = "read" /\ x.reg = r THEN c.reg ELSE c.saved]

(* The pairs that r goes through while p runs, from c on, and the last.    *)
Course(p, r, c) ==
  LET at[i \in 0..Len(p)] == IF i = 0 THEN c ELSE Effect(p[i], r, at[i-1]) IN at
Final(p, r, c) == Course(p, r, c)[Len(p)]

(* The registers after p, from registers R, by a task that has read S.     *)
Outcome(p, r, R, S) == Final(p, r, [reg |-> R[r], saved |-> S[r]])
After(p, R, S) == [r \in Register |-> Outcome(p, r, R, S).reg]

(* A set of naturals with 0 and every successor of a member has them all.  *)
LEMMA Induct ==
  ASSUME NEW T, 0 \in T, \A n \in Nat : n \in T => n + 1 \in T
  PROVE  Nat \subseteq T
<1> SUFFICES ASSUME Nat \ T # {} PROVE FALSE
  OBVIOUS
<1>1. PICK x \in Nat \ T : \A y \in Nat \ T : ~(<<y, x>> \in OpToRel(<, Nat))
  BY NatLessThanWellFounded, WFMin
<1>2. x \in Nat /\ x # 0 /\ x - 1 \in Nat
  OBVIOUS
<1>3. x - 1 \notin T
  <2>1. x - 1 \in T => (x - 1) + 1 \in T
    BY <1>2
  <2> QED
    BY <2>1, <1>2
<1>4. <<x - 1, x>> \in OpToRel(<, Nat)
  <2>1. x - 1 < x
    BY <1>2
  <2> QED
    BY <2>1, <1>2 DEF OpToRel
<1> QED
  BY <1>1, <1>2, <1>3, <1>4

(* at is the course of p from c on, as far as step n.                      *)
IsCourse(at, p, r, c, n) ==
  at = [i \in 0..n |-> IF i = 0 THEN c ELSE Effect(p[i], r, at[i-1])]

(* The recursion has a solution.                                           *)
LEMMA CourseExists ==
  ASSUME NEW p, NEW r, NEW c
  PROVE  \A n \in Nat : \E at : IsCourse(at, p, r, c, n)
<1> DEFINE T == {n \in Nat : \E at : IsCourse(at, p, r, c, n)}
<1>1. 0 \in T
  <2>1. PICK at : at = [i \in 0..0 |-> c]
    OBVIOUS
  <2>2. IsCourse(at, p, r, c, 0)
    BY <2>1 DEF IsCourse
  <2> QED
    BY <2>2
<1>2. ASSUME NEW n \in Nat, n \in T PROVE n + 1 \in T
  <2>1. PICK at : IsCourse(at, p, r, c, n)
    BY <1>2
  <2>2. PICK more : more = [i \in 0..(n+1) |-> IF i = n + 1 THEN Effect(p[n+1], r, at[n]) ELSE at[i]]
    OBVIOUS
  <2>3. \A i \in 0..(n+1) : more[i] = IF i = 0 THEN c ELSE Effect(p[i], r, more[i-1])
    BY <2>1, <2>2 DEF IsCourse
  <2>4. IsCourse(more, p, r, c, n + 1)
    BY <2>2, <2>3 DEF IsCourse
  <2> QED
    BY <2>4
<1>3. Nat \subseteq T
  <2> HIDE DEF T
  <2> QED
    BY <1>1, <1>2, Induct
<1> QED
  BY <1>3

(* The course of a program begins with c and goes on step by step.         *)
LEMMA CourseIs ==
  ASSUME NEW p, NEW r, NEW c, Len(p) \in Nat
  PROVE  /\ Course(p, r, c)[0] = c
         /\ \A i \in 1..Len(p) : Course(p, r, c)[i] = Effect(p[i], r, Course(p, r, c)[i-1])
<1>1. PICK n \in Nat : n = Len(p)
  OBVIOUS
<1>2. \E at : IsCourse(at, p, r, c, n)
  BY CourseExists
<1>3. IsCourse(Course(p, r, c), p, r, c, n)
  BY <1>1, <1>2 DEF Course, IsCourse
<1> QED
  BY <1>1, <1>3 DEF IsCourse

(* One program after the other does what the two do in turn.               *)
LEMMA FinalConcat ==
  ASSUME NEW S, NEW p \in Seq(S), NEW q \in Seq(S), NEW r, NEW c
  PROVE  Final(p \o q, r, c) = Final(q, r, Final(p, r, c))
<1>1. PICK m \in Nat, n \in Nat : m = Len(p) /\ n = Len(q)
  BY LenProperties
<1>2. /\ p \o q \in Seq(S) /\ Len(p \o q) = m + n
      /\ \A i \in 1..m : (p \o q)[i] = p[i]
      /\ \A i \in 1..n : (p \o q)[m+i] = q[i]
  BY <1>1, ConcatProperties
<1> DEFINE a == Course(p, r, c)
           b == Course(q, r, Final(p, r, c))
           ab == Course(p \o q, r, c)
<1>3. /\ a[0] = c /\ \A i \in 1..m : a[i] = Effect(p[i], r, a[i-1])
      /\ b[0] = a[m] /\ \A i \in 1..n : b[i] = Effect(q[i], r, b[i-1])
      /\ ab[0] = c /\ \A i \in 1..(m+n) : ab[i] = Effect((p \o q)[i], r, ab[i-1])
  <2>1. a[0] = c /\ \A i \in 1..Len(p) : a[i] = Effect(p[i], r, a[i-1])
    BY <1>1, CourseIs
  <2>2. b[0] = Final(p, r, c) /\ \A i \in 1..Len(q) : b[i] = Effect(q[i], r, b[i-1])
    BY <1>1, CourseIs
  <2>3. ab[0] = c /\ \A i \in 1..Len(p \o q) : ab[i] = Effect((p \o q)[i], r, ab[i-1])
    <3>1. PICK pq \in Seq(S) : pq = p \o q
      BY <1>2
    <3>2. Len(pq) \in Nat
      BY <3>1, LenProperties
    <3>3. /\ Course(pq, r, c)[0] = c
          /\ \A i \in 1..Len(pq) : Course(pq, r, c)[i] = Effect(pq[i], r, Course(pq, r, c)[i-1])
      BY <3>2, CourseIs
    <3> QED
      BY <3>1, <3>3
  <2>4. Final(p, r, c) = a[m]
    BY <1>1 DEF Final
  <2> HIDE DEF a, b, ab
  <2> QED
    BY <1>1, <1>2, <2>1, <2>2, <2>3, <2>4
<1>4. Final(p \o q, r, c) = ab[m+n] /\ Final(q, r, Final(p, r, c)) = b[n]
  BY <1>1, <1>2 DEF Final
<1> HIDE DEF a, b, ab
<1>5. \A i \in Nat : i <= m => ab[i] = a[i]
  <2> DEFINE T == {i \in Nat : i <= m => ab[i] = a[i]}
  <2>1. 0 \in T
    BY <1>3
  <2>2. ASSUME NEW i \in Nat, i \in T PROVE i + 1 \in T
    <3>1. i + 1 <= m => i + 1 \in 1..m /\ i + 1 \in 1..(m+n) /\ (i + 1) - 1 = i /\ ab[i] = a[i]
      BY <2>2
    <3>2. i + 1 <= m => ab[i+1] = Effect(p[i+1], r, ab[i]) /\ a[i+1] = Effect(p[i+1], r, a[i])
      BY <3>1, <1>2, <1>3
    <3> QED
      BY <3>1, <3>2
  <2>3. Nat \subseteq T
    <3> HIDE DEF T
    <3> QED
      BY <2>1, <2>2, Induct
  <2> QED
    BY <2>3
<1>6. \A i \in Nat : i <= n => ab[m+i] = b[i]
  <2> DEFINE T == {i \in Nat : i <= n => ab[m+i] = b[i]}
  <2>1. 0 \in T
    BY <1>3, <1>5
  <2>2. ASSUME NEW i \in Nat, i \in T PROVE i + 1 \in T
    <3>1. i + 1 <= n => /\ i + 1 \in 1..n /\ m + (i + 1) \in 1..(m+n)
                        /\ (i + 1) - 1 = i /\ (m + (i + 1)) - 1 = m + i /\ ab[m+i] = b[i]
      BY <2>2
    <3>2. i + 1 <= n => /\ ab[m+(i+1)] = Effect(q[i+1], r, ab[m+i])
                        /\ b[i+1] = Effect(q[i+1], r, b[i])
      BY <3>1, <1>2, <1>3
    <3> QED
      BY <3>1, <3>2
  <2>3. Nat \subseteq T
    <3> HIDE DEF T
    <3> QED
      BY <2>1, <2>2, Induct
  <2> QED
    BY <2>3
<1> QED
  BY <1>4, <1>6

(* Nothing does nothing, and a short program does what its steps do.       *)
LEMMA FinalNone ==
  ASSUME NEW r, NEW c
  PROVE  Final(<<>>, r, c) = c
<1>1. Len(<<>>) = 0
  OBVIOUS
<1> QED
  BY <1>1, CourseIs DEF Final

(* one step,                                                               *)
LEMMA FinalOne ==
  ASSUME NEW x, NEW r, NEW c
  PROVE  Final(<<x>>, r, c) = Effect(x, r, c)
<1>1. PICK p : p = <<x>>
  OBVIOUS
<1>2. Len(p) = 1 /\ p[1] = x
  BY <1>1
<1>3. Course(p, r, c)[1] = Effect(p[1], r, Course(p, r, c)[0]) /\ Course(p, r, c)[0] = c
  BY <1>2, CourseIs
<1> QED
  BY <1>1, <1>2, <1>3 DEF Final

(* two,                                                                    *)
LEMMA FinalTwo ==
  ASSUME NEW x, NEW y, NEW r, NEW c
  PROVE  Final(<<x, y>>, r, c) = Effect(y, r, Effect(x, r, c))
<1>1. PICK p : p = <<x, y>>
  OBVIOUS
<1>2. Len(p) = 2 /\ p[1] = x /\ p[2] = y
  BY <1>1
<1>3. /\ Course(p, r, c)[1] = Effect(p[1], r, Course(p, r, c)[0]) /\ Course(p, r, c)[0] = c
      /\ Course(p, r, c)[2] = Effect(p[2], r, Course(p, r, c)[1])
  BY <1>2, CourseIs
<1> QED
  BY <1>1, <1>2, <1>3 DEF Final

(* and four.                                                               *)
LEMMA FinalFour ==
  ASSUME NEW x, NEW y, NEW z, NEW w, NEW r, NEW c
  PROVE  Final(<<x, y, z, w>>, r, c)
           = Effect(w, r, Effect(z, r, Effect(y, r, Effect(x, r, c))))
<1>1. PICK p : p = <<x, y, z, w>>
  OBVIOUS
<1>2. Len(p) = 4 /\ p[1] = x /\ p[2] = y /\ p[3] = z /\ p[4] = w
  BY <1>1
<1>3. /\ Course(p, r, c)[1] = Effect(p[1], r, Course(p, r, c)[0]) /\ Course(p, r, c)[0] = c
      /\ Course(p, r, c)[2] = Effect(p[2], r, Course(p, r, c)[1])
      /\ Course(p, r, c)[3] = Effect(p[3], r, Course(p, r, c)[2])
      /\ Course(p, r, c)[4] = Effect(p[4], r, Course(p, r, c)[3])
  BY <1>2, CourseIs
<1> QED
  BY <1>1, <1>2, <1>3 DEF Final

(* The first step of a program, and then the rest.                         *)
LEMMA FinalTail ==
  ASSUME NEW S, NEW p \in Seq(S), p # <<>>, NEW r, NEW c
  PROVE  Final(p, r, c) = Final(Tail(p), r, Effect(Head(p), r, c))
<1>1. Head(p) \in S /\ Tail(p) \in Seq(S)
  BY HeadTailProperties
<1>2. PICK one, rest : one = <<Head(p)>> /\ rest = Tail(p)
  OBVIOUS
<1>a. one \in Seq(S) /\ rest \in Seq(S)
  <2>1. \A x \in S : <<x>> \in Seq(S)
    OBVIOUS
  <2> QED
    BY <1>1, <1>2, <2>1
<1>3. p = one \o rest
  BY <1>1, <1>2, HeadTailProperties, ConcatProperties
<1>4. Final(one, r, c) = Effect(Head(p), r, c)
  <2>1. \A x : Final(<<x>>, r, c) = Effect(x, r, c)
    BY FinalOne
  <2> QED
    BY <1>2, <2>1, Zenon
<1>5. Final(one \o rest, r, c) = Final(rest, r, Final(one, r, c))
  BY <1>a, FinalConcat
<1> QED
  BY <1>2, <1>3, <1>4, <1>5

(* A pair stays a pair.                                                    *)
LEMMA FinalPair ==
  ASSUME NEW S, NEW p \in Seq(S), NEW r, NEW c, c = [reg |-> c.reg, saved |-> c.saved]
  PROVE  Final(p, r, c) = [reg |-> Final(p, r, c).reg, saved |-> Final(p, r, c).saved]
<1>1. PICK n \in Nat : n = Len(p)
  BY LenProperties
<1>2. /\ Course(p, r, c)[0] = c
      /\ \A i \in 1..n : Course(p, r, c)[i] = Effect(p[i], r, Course(p, r, c)[i-1])
  BY <1>1, CourseIs
<1>3. CASE n = 0
  BY <1>1, <1>2, <1>3 DEF Final
<1>4. CASE n # 0
  <2>1. Final(p, r, c) = Effect(p[n], r, Course(p, r, c)[n-1])
    BY <1>1, <1>2, <1>4 DEF Final
  <2> QED
    BY <2>1 DEF Effect
<1> QED
  BY <1>3, <1>4

(* What the registers are after two programs does not depend on how the    *)
(* first one got them there, but for what it has read.                     *)
LEMMA AfterConcat ==
  ASSUME NEW U, NEW p \in Seq(U), NEW q \in Seq(U), NEW R, NEW S
  PROVE  \E T : After(p \o q, R, S) = After(q, After(p, R, S), T)
<1> DEFINE T == [r \in Register |-> Outcome(p, r, R, S).saved]
<1>1. ASSUME NEW r \in Register
      PROVE  Outcome(p \o q, r, R, S) = Outcome(q, r, After(p, R, S), T)
  <2> DEFINE c == [reg |-> R[r], saved |-> S[r]]
  <2>1. Final(p \o q, r, c) = Final(q, r, Final(p, r, c))
    BY FinalConcat
  <2>2. Final(p, r, c) = [reg |-> Final(p, r, c).reg, saved |-> Final(p, r, c).saved]
    BY FinalPair
  <2>3. T[r] = Final(p, r, c).saved /\ After(p, R, S)[r] = Final(p, r, c).reg
    BY DEF After, Outcome
  <2> QED
    BY <2>1, <2>2, <2>3 DEF Outcome
<1>2. After(p \o q, R, S) = After(q, After(p, R, S), T)
  BY <1>1 DEF After
<1> QED
  BY <1>2

(* The two laws for lists of configuration steps.                          *)
LEMMA PlainLists ==
  /\ \A p, q \in Seq(PlainSteps) : p \o q \in Seq(PlainSteps)
  /\ \A p, q, u \in Seq(PlainSteps) : p \o (q \o u) = (p \o q) \o u
BY ConcatProperties, ConcatAssociative

(* The second is the law of AfterConcat.                                   *)
LEMMA PlainThen ==
  \A p, q \in Seq(PlainSteps) : \A R, S :
    \E T : After(p \o q, R, S) = After(q, After(p, R, S), T)
BY AfterConcat

(* A task that has made its first step leaves what it would have left.     *)
LEMMA AfterStep ==
  ASSUME NEW U, NEW p \in Seq(U), p # <<>>, NEW R, NEW S, NEW R2, NEW S2,
         \A r \in Register : LET e == Effect(Head(p), r, [reg |-> R[r], saved |-> S[r]]) IN
                             e.reg = R2[r] /\ e.saved = S2[r]
  PROVE  After(p, R, S) = After(Tail(p), R2, S2)
<1>1. ASSUME NEW r \in Register
      PROVE  Outcome(p, r, R, S) = Outcome(Tail(p), r, R2, S2)
  <2>1. PICK c, e : c = [reg |-> R[r], saved |-> S[r]] /\ e = Effect(Head(p), r, c)
    OBVIOUS
  <2>2. e = [reg |-> e.reg, saved |-> e.saved]
    BY <2>1 DEF Effect
  <2>3. e = [reg |-> R2[r], saved |-> S2[r]]
    BY <2>1, <2>2
  <2>4. Final(p, r, c) = Final(Tail(p), r, e)
    BY <2>1, FinalTail
  <2> QED
    BY <2>1, <2>3, <2>4 DEF Outcome
<1> QED
  BY <1>1 DEF After

(* Doing nothing leaves the registers as they are.                         *)
LEMMA AfterNone ==
  ASSUME NEW R, R = [r \in Register |-> R[r]], NEW S
  PROVE  After(<<>>, R, S) = R
<1>1. \A r \in Register : Outcome(<<>>, r, R, S).reg = R[r]
  BY FinalNone DEF Outcome
<1> QED
  BY <1>1 DEF After

(* What the single steps of the configuration functions do to a register:  *)
(* a read,                                                                 *)
LEMMA ReadEffect ==
  \A q, r, c : /\ Effect(Rd(q), r, c).reg = c.reg
               /\ Effect(Rd(q), r, c).saved = IF q = r THEN c.reg ELSE c.saved
BY DEF Effect, Rd, StepOf

(* a write of a value given,                                               *)
LEMMA WriteEffect ==
  \A q, v, r, c : /\ Effect(Wr(q, v), r, c).reg = IF q = r THEN v ELSE c.reg
                  /\ Effect(Wr(q, v), r, c).saved = c.saved
BY DEF Effect, Wr, StepOf, ValueOf

(* the reset of the chip,                                                  *)
LEMMA ResetEffect ==
  \A q, r, c : /\ Effect(Re(q, "rst"), r, c).reg = AfterReset[r]
               /\ Effect(Re(q, "rst"), r, c).saved = c.saved
BY DEF Effect, Re, StepOf

(* and the writes of what has been read before, as it is or changed.       *)
LEMMA SavedEffect ==
  \A q, r, c : /\ Effect(Re(q, "saved"), r, c).reg = IF q = r THEN c.saved ELSE c.reg
               /\ Effect(Re(q, "saved"), r, c).saved = c.saved
BY DEF Effect, Re, StepOf, ValueOf

(* A mode is added to MR,                                                  *)
LEMMA ModeEffect ==
  ASSUME NEW m \in {"pingblock", "forcearp"}
  PROVE  \A q, r, c : /\ Effect(Re(q, m), r, c).reg = IF q = r THEN c.saved \cup {m} ELSE c.reg
                      /\ Effect(Re(q, m), r, c).saved = c.saved
BY DEF Effect, Re, StepOf, ValueOf

(* PHYCFGR with the PHY held in reset, released from it, powered down, or  *)
(* allowed every mode.                                                     *)
Held(old)     == [old EXCEPT !.running = FALSE]
Released(old) == [old EXCEPT !.running = TRUE]
Down(old)     == [old EXCEPT !.opmdc = 6]
All(old)      == [old EXCEPT !.opmdc = 7]

(* Writes of PHYCFGR change it so.                                         *)
LEMMA PhyEffect ==
  \A q, r, c : /\ Effect(Re(q, "hold"), r, c).reg = IF q = r THEN Held(c.saved) ELSE c.reg
               /\ Effect(Re(q, "release"), r, c).reg = IF q = r THEN Released(c.saved) ELSE c.reg
               /\ Effect(Re(q, "down"), r, c).reg = IF q = r THEN Down(c.saved) ELSE c.reg
               /\ Effect(Re(q, "all"), r, c).reg = IF q = r THEN All(c.saved) ELSE c.reg
<1>1. \A q, r, c : Effect(Re(q, "hold"), r, c).reg = IF q = r THEN Held(c.saved) ELSE c.reg
  BY DEF Effect, Re, StepOf, ValueOf, Held
<1>2. \A q, r, c : Effect(Re(q, "release"), r, c).reg = IF q = r THEN Released(c.saved) ELSE c.reg
  BY DEF Effect, Re, StepOf, ValueOf, Released
<1>3. \A q, r, c : Effect(Re(q, "down"), r, c).reg = IF q = r THEN Down(c.saved) ELSE c.reg
  BY DEF Effect, Re, StepOf, ValueOf, Down
<1>4. \A q, r, c : Effect(Re(q, "all"), r, c).reg = IF q = r THEN All(c.saved) ELSE c.reg
  BY DEF Effect, Re, StepOf, ValueOf, All
<1> QED
  BY <1>1, <1>2, <1>3, <1>4

(* The pieces of wizchip_sw_reset.                                         *)
LEMMA PiecesOfReset ==
  /\ SaveIdentity \in Seq(PlainSteps)
  /\ RestoreIdentity \in Seq(PlainSteps)
  /\ <<Re("MR", "rst"), Rd("MR")>> \in Seq(PlainSteps)
<1>1. SaveIdentity \in Seq(PlainSteps)
  BY StepsArePlain, Names DEF SaveIdentity
<1>2. RestoreIdentity \in Seq(PlainSteps)
  BY StepsArePlain, Names DEF RestoreIdentity
<1>3. <<Re("MR", "rst"), Rd("MR")>> \in Seq(PlainSteps)
  BY StepsArePlain, Names
<1> QED
  BY <1>1, <1>2, <1>3

(* wizchip_sw_reset leaves the identity as it was and every other register *)
(* as a reset leaves it.                                                   *)
LEMMA ResetLeaves ==
  ASSUME NEW R, NEW S
  PROVE  After(wizchip_sw_reset, R, S)
           = [r \in Register |-> IF r \in Identity THEN R[r] ELSE AfterReset[r]]
<1>1. ASSUME NEW r \in Register
      PROVE  Outcome(wizchip_sw_reset, r, R, S).reg = IF r \in Identity THEN R[r] ELSE AfterReset[r]
  <2>1. PICK rst : rst = <<Re("MR", "rst"), Rd("MR")>>
    OBVIOUS
  <2> DEFINE c == [reg |-> R[r], saved |-> S[r]]
             c1 == Final(SaveIdentity, r, c)
             c2 == Final(rst, r, c1)
             c3 == Final(RestoreIdentity, r, c2)
  <2>2. Outcome(wizchip_sw_reset, r, R, S) = c3
    <3>1. rst \in Seq(PlainSteps) /\ SaveIdentity \o rst \in Seq(PlainSteps)
      BY <2>1, PiecesOfReset, ConcatProperties
    <3>2. Final(SaveIdentity \o rst, r, c) = c2
      BY <3>1, PiecesOfReset, FinalConcat
    <3>3. PICK head \in Seq(PlainSteps) : head = SaveIdentity \o rst
      BY <3>1
    <3>4. Final(head \o RestoreIdentity, r, c) = Final(RestoreIdentity, r, Final(head, r, c))
      BY PiecesOfReset, FinalConcat
    <3> QED
      BY <2>1, <3>2, <3>3, <3>4 DEF Outcome, wizchip_sw_reset
  <2>3. c1 = Effect(Rd("SIPR"), r, Effect(Rd("SUBR"), r, Effect(Rd("GAR"), r, Effect(Rd("SHAR"), r, c))))
    BY FinalFour DEF SaveIdentity
  <2>4. c2 = Effect(Rd("MR"), r, Effect(Re("MR", "rst"), r, c1))
    BY <2>1, FinalTwo
  <2>5. c3 = Effect(Re("SIPR", "saved"), r, Effect(Re("SUBR", "saved"), r,
               Effect(Re("GAR", "saved"), r, Effect(Re("SHAR", "saved"), r, c2))))
    BY FinalFour DEF RestoreIdentity
  <2> HIDE DEF c1, c2, c3
  <2>6. c1.reg = R[r] /\ (r \in Identity => c1.saved = R[r])
    BY <2>3, ReadEffect DEF Identity
  <2>7. c2.reg = AfterReset[r] /\ (r \in Identity => c2.saved = c1.saved)
    BY <2>4, ReadEffect, ResetEffect DEF Identity
  <2>9. c3.reg = IF r \in Identity THEN c2.saved ELSE c2.reg
    BY <2>5, SavedEffect DEF Identity
  <2> QED
    BY <2>2, <2>6, <2>7, <2>9
<1> QED
  BY <1>1 DEF After

(* What writing sizes leaves in a register.                                *)
LEMMA SizesEffect ==
  ASSUME NEW s \in GivenSizes, NEW r \in Register, NEW d
  PROVE  /\ Final(SetSizes("TXBUF0", "TXBUF1", s), r, d).reg
              = IF s # NULL /\ r = "TXBUF0" THEN s[1]
                ELSE IF s # NULL /\ r = "TXBUF1" THEN s[2] ELSE d.reg
         /\ Final(SetSizes("RXBUF0", "RXBUF1", s), r, d).reg
              = IF s # NULL /\ r = "RXBUF0" THEN s[1]
                ELSE IF s # NULL /\ r = "RXBUF1" THEN s[2] ELSE d.reg
<1>1. CASE s = NULL
  <2>1. PICK none \in Seq(PlainSteps) : none = <<>>
    BY EmptySeq
  <2>2. Final(none, r, d) = d
    BY <2>1, FinalNone
  <2> QED
    BY <1>1, <2>1, <2>2 DEF SetSizes
<1>2. CASE s # NULL
  <2>1. PICK tx, rx : /\ tx = <<Wr("TXBUF0", s[1]), Wr("TXBUF1", s[2])>>
                      /\ rx = <<Wr("RXBUF0", s[1]), Wr("RXBUF1", s[2])>>
    OBVIOUS
  <2>2. /\ Final(tx, r, d) = Effect(Wr("TXBUF1", s[2]), r, Effect(Wr("TXBUF0", s[1]), r, d))
        /\ Final(rx, r, d) = Effect(Wr("RXBUF1", s[2]), r, Effect(Wr("RXBUF0", s[1]), r, d))
    BY <2>1, FinalTwo
  <2>3. /\ Final(tx, r, d).reg = IF r = "TXBUF0" THEN s[1] ELSE IF r = "TXBUF1" THEN s[2] ELSE d.reg
        /\ Final(rx, r, d).reg = IF r = "RXBUF0" THEN s[1] ELSE IF r = "RXBUF1" THEN s[2] ELSE d.reg
    BY <2>2, WriteEffect
  <2>4. /\ SetSizes("TXBUF0", "TXBUF1", s) = tx
        /\ SetSizes("RXBUF0", "RXBUF1", s) = rx
    BY <1>2, <2>1 DEF SetSizes
  <2> QED
    BY <1>2, <2>3, <2>4
<1> QED
  BY <1>1, <1>2

(* A sum of sizes of at most 16 KB each is stopped before it can wrap.     *)
LEMMA AcceptedFits ==
  ASSUME NEW s \in GivenSizes, s # NULL, ~Refused(s)
  PROVE  SizesFit(s[1], s[2])
<1>1. s[1] \in 0..255 /\ s[2] \in 0..255
  BY DEF GivenSizes
<1>2. SUFFICES ASSUME s[1] <= 16, s[2] <= 16 PROVE s[1] + s[2] + 12 <= 16
  BY <1>1 DEF SizesFit, OtherSizes
<1>3. \A n \in 0..32 : Int8(n) = n
  BY DEF Int8
<1>4. Int8(s[1]) = s[1] /\ Int8(s[1] + s[2]) = s[1] + s[2]
  BY <1>1, <1>2, <1>3
<1> QED
  BY <1>1, <1>4 DEF Refused, Fits, OtherSizes

(* wizchip_init resets the chip in the same way, and leaves sizes that fit *)
(* its memory, whatever sizes it is asked for.                             *)
LEMMA InitLeaves ==
  ASSUME NEW tx \in GivenSizes, NEW rx \in GivenSizes, NEW R, NEW S
  PROVE  LET A == After(wizchip_init(tx, rx), R, S) IN
         /\ \A r \in Identity : A[r] = R[r]
         /\ \A r \in Register \ (Identity \cup Sizes) : A[r] = AfterReset[r]
         /\ MemoryFits(A)
<1> DEFINE A == After(wizchip_init(tx, rx), R, S)
<1>1. PICK t \in Seq(PlainSteps), u \in Seq(PlainSteps), none \in Seq(PlainSteps) :
        /\ t = SetSizes("TXBUF0", "TXBUF1", tx) /\ u = SetSizes("RXBUF0", "RXBUF1", rx)
        /\ none = <<>>
  BY SizesArePlain, EmptySeq
<1>2. PICK more \in Seq(PlainSteps) :
        /\ wizchip_init(tx, rx) = wizchip_sw_reset \o more
        /\ \/ Refused(tx) /\ more = none
           \/ ~Refused(tx) /\ ~Refused(rx) /\ more = t \o u
           \/ ~Refused(tx) /\ Refused(rx) /\ more = t \o none
  <2>1. t \o u \in Seq(PlainSteps) /\ t \o none \in Seq(PlainSteps)
    BY <1>1, ConcatProperties
  <2> QED
    BY <1>1, <2>1 DEF wizchip_init
<1>3. PICK B, T : /\ B = [r \in Register |-> IF r \in Identity THEN R[r] ELSE AfterReset[r]]
                  /\ A = After(more, B, T)
  <2>1. \E T : After(wizchip_sw_reset \o more, R, S) = After(more, After(wizchip_sw_reset, R, S), T)
    BY ResetIsPlain, AfterConcat
  <2> QED
    BY <1>2, <2>1, ResetLeaves
<1> HIDE DEF A
<1>4. PICK setTx, setRx \in BOOLEAN :
        /\ setTx <=> ~Refused(tx) /\ tx # NULL
        /\ setRx <=> ~Refused(tx) /\ ~Refused(rx) /\ rx # NULL
  OBVIOUS
<1>5. ASSUME NEW r \in Register
      PROVE  A[r] = IF r \in Identity THEN R[r]
                    ELSE IF r \in {"TXBUF0", "TXBUF1"} /\ setTx THEN IF r = "TXBUF0" THEN tx[1] ELSE tx[2]
                    ELSE IF r \in {"RXBUF0", "RXBUF1"} /\ setRx THEN IF r = "RXBUF0" THEN rx[1] ELSE rx[2]
                    ELSE AfterReset[r]
  <2> DEFINE c == [reg |-> B[r], saved |-> T[r]]
  <2>1. A[r] = Final(more, r, c).reg
    BY <1>3 DEF After, Outcome
  <2>2. c.reg = IF r \in Identity THEN R[r] ELSE AfterReset[r]
    BY <1>3
  <2> HIDE DEF c
  <2>3. PICK d : d = Final(t, r, c)
    OBVIOUS
  <2>4. d.reg = IF tx # NULL /\ r = "TXBUF0" THEN tx[1]
                ELSE IF tx # NULL /\ r = "TXBUF1" THEN tx[2] ELSE c.reg
    BY <1>1, <2>3, SizesEffect
  <2>5. Final(u, r, d).reg = IF rx # NULL /\ r = "RXBUF0" THEN rx[1]
                             ELSE IF rx # NULL /\ r = "RXBUF1" THEN rx[2] ELSE d.reg
    BY <1>1, SizesEffect
  <2>6. Final(none, r, c) = c /\ Final(none, r, d) = d
    BY <1>1, FinalNone
  <2>7. Final(t \o u, r, c) = Final(u, r, d) /\ Final(t \o none, r, c) = Final(none, r, d)
    BY <2>3, FinalConcat
  <2>8. r \in Identity => r \notin {"TXBUF0", "TXBUF1", "RXBUF0", "RXBUF1"}
    BY DEF Identity
  <2>9. CASE Refused(tx)
    BY <1>2, <1>4, <2>1, <2>2, <2>6, <2>9
  <2>10. CASE ~Refused(tx) /\ Refused(rx)
    <3>1. A[r] = d.reg /\ ~setRx /\ (setTx <=> tx # NULL)
      BY <1>2, <1>4, <2>1, <2>6, <2>7, <2>10
    <3> QED
      BY <2>2, <2>4, <2>8, <3>1
  <2>11. CASE ~Refused(tx) /\ ~Refused(rx)
    <3>1. A[r] = Final(u, r, d).reg /\ (setRx <=> rx # NULL) /\ (setTx <=> tx # NULL)
      BY <1>2, <1>4, <2>1, <2>7, <2>11
    <3> QED
      BY <2>2, <2>4, <2>5, <2>8, <3>1
  <2> QED
    BY <2>9, <2>10, <2>11
<1>6. /\ {"TXBUF0", "TXBUF1", "RXBUF0", "RXBUF1"} = Sizes /\ Sizes \subseteq Register
      /\ Sizes \cap Identity = {} /\ Identity \subseteq Register
      /\ \A r \in Sizes : AfterReset[r] = 2
  BY DEF Sizes, Register, Identity, AfterReset
<1>7. MemoryFits(A)
  <2>1. /\ A["TXBUF0"] = IF setTx THEN tx[1] ELSE 2
        /\ A["TXBUF1"] = IF setTx THEN tx[2] ELSE 2
        /\ A["RXBUF0"] = IF setRx THEN rx[1] ELSE 2
        /\ A["RXBUF1"] = IF setRx THEN rx[2] ELSE 2
    BY <1>5, <1>6
  <2>2. SizesFit(2, 2)
    BY DEF SizesFit, OtherSizes
  <2>3. (setTx => SizesFit(tx[1], tx[2])) /\ (setRx => SizesFit(rx[1], rx[2]))
    BY <1>4, AcceptedFits
  <2>4. SizesFit(A["TXBUF0"], A["TXBUF1"])
    BY <2>1, <2>2, <2>3
  <2>5. SizesFit(A["RXBUF0"], A["RXBUF1"])
    BY <2>1, <2>2, <2>3
  <2> QED
    BY <2>4, <2>5 DEF MemoryFits
<1> QED
  BY <1>5, <1>6, <1>7 DEF A

(* What the functions behind ctlnetwork and ctlwizchip leave: the          *)
(* registers they are for, and nothing else, are changed.                  *)
LEMMA NetInfoLeaves ==
  ASSUME NEW id, NEW R, NEW S, NEW r \in Register
  PROVE  After(wizchip_setnetinfo(id), R, S)[r] = IF r \in Identity THEN id ELSE R[r]
<1> DEFINE c == [reg |-> R[r], saved |-> S[r]]
<1>1. Final(wizchip_setnetinfo(id), r, c)
        = Effect(Wr("SIPR", id), r, Effect(Wr("SUBR", id), r,
            Effect(Wr("GAR", id), r, Effect(Wr("SHAR", id), r, c))))
  BY FinalFour DEF wizchip_setnetinfo
<1> QED
  BY <1>1, WriteEffect DEF Identity, After, Outcome

(* wizchip_setnetmode adds a mode to MR,                                   *)
LEMMA NetModeLeaves ==
  ASSUME NEW m \in {"pingblock", "forcearp"}, NEW R, NEW S, NEW r \in Register
  PROVE  After(wizchip_setnetmode(m), R, S)[r] = IF r = "MR" THEN R[r] \cup {m} ELSE R[r]
<1> DEFINE c == [reg |-> R[r], saved |-> S[r]]
<1>1. Final(wizchip_setnetmode(m), r, c) = Effect(Re("MR", m), r, Effect(Rd("MR"), r, c))
  BY FinalTwo DEF wizchip_setnetmode
<1>2. PICK d, e : d = Effect(Rd("MR"), r, c) /\ e = Effect(Re("MR", m), r, d)
  OBVIOUS
<1>3. d.reg = R[r] /\ ("MR" = r => d.saved = R[r])
  BY <1>2, ReadEffect
<1>4. e.reg = IF "MR" = r THEN d.saved \cup {m} ELSE d.reg
  BY <1>2, ModeEffect
<1> QED
  BY <1>1, <1>2, <1>3, <1>4 DEF After, Outcome

(* wizchip_settimeout writes the retry time and count,                     *)
LEMMA TimeoutLeaves ==
  ASSUME NEW v, NEW R, NEW S, NEW r \in Register
  PROVE  After(wizchip_settimeout(v), R, S)[r] = IF r \in {"RTR", "RCR"} THEN v ELSE R[r]
<1> DEFINE c == [reg |-> R[r], saved |-> S[r]]
<1>1. Final(wizchip_settimeout(v), r, c) = Effect(Wr("RTR", v), r, Effect(Wr("RCR", v), r, c))
  BY FinalTwo DEF wizchip_settimeout
<1> QED
  BY <1>1, WriteEffect DEF After, Outcome

(* and wizchip_setinterruptmask the masks.                                 *)
LEMMA MaskLeaves ==
  ASSUME NEW v, NEW R, NEW S, NEW r \in Register
  PROVE  After(wizchip_setinterruptmask(v), R, S)[r] = IF r \in {"IMR", "SIMR"} THEN v ELSE R[r]
<1> DEFINE c == [reg |-> R[r], saved |-> S[r]]
<1>1. Final(wizchip_setinterruptmask(v), r, c) = Effect(Wr("SIMR", v), r, Effect(Wr("IMR", v), r, c))
  BY FinalTwo DEF wizchip_setinterruptmask
<1> QED
  BY <1>1, WriteEffect DEF After, Outcome

(* wizphy_reset writes back the mode it has read, with the PHY out of      *)
(* reset at the end;                                                       *)
LEMMA PhyResetLeaves ==
  ASSUME NEW R, NEW S, NEW r \in Register
  PROVE  After(wizphy_reset, R, S)[r] = IF r = "PHYCFGR" THEN Released(Held(R[r])) ELSE R[r]
<1> DEFINE c == [reg |-> R[r], saved |-> S[r]]
<1>1. Final(wizphy_reset, r, c)
        = Effect(Re("PHYCFGR", "release"), r, Effect(Rd("PHYCFGR"), r,
            Effect(Re("PHYCFGR", "hold"), r, Effect(Rd("PHYCFGR"), r, c))))
  BY FinalFour DEF wizphy_reset
<1>2. PICK d1, d2, d3, d4 : /\ d1 = Effect(Rd("PHYCFGR"), r, c)
                            /\ d2 = Effect(Re("PHYCFGR", "hold"), r, d1)
                            /\ d3 = Effect(Rd("PHYCFGR"), r, d2)
                            /\ d4 = Effect(Re("PHYCFGR", "release"), r, d3)
  OBVIOUS
<1>3. Final(wizphy_reset, r, c) = d4
  BY <1>1, <1>2
<1>4. d1.reg = R[r] /\ ("PHYCFGR" = r => d1.saved = R[r])
  BY <1>2, ReadEffect
<1>5. d2.reg = IF "PHYCFGR" = r THEN Held(R[r]) ELSE R[r]
  BY <1>2, <1>4, PhyEffect
<1>6. d3.reg = d2.reg /\ ("PHYCFGR" = r => d3.saved = d2.reg)
  BY <1>2, ReadEffect
<1>7. d4.reg = IF "PHYCFGR" = r THEN Released(d2.reg) ELSE d2.reg
  BY <1>2, <1>6, PhyEffect
<1> HIDE DEF c
<1>8. After(wizphy_reset, R, S)[r] = Final(wizphy_reset, r, c).reg
  BY DEF After, Outcome, c
<1> QED
  BY <1>3, <1>5, <1>7, <1>8

(* a value of PHYCFGR keeps its mode over it.                              *)
PhyStates == [running : BOOLEAN, opmd : BOOLEAN, opmdc : Int]
InMode(p, sw, n) == p \in PhyStates /\ p.running = TRUE /\ p.opmd = sw /\ p.opmdc = n

(* Held and released the PHY keeps its mode; powered down or up it keeps   *)
(* who configures it.                                                      *)
LEMMA PhyStateKept ==
  ASSUME NEW p \in PhyStates
  PROVE  /\ InMode(Released(Held(p)), p.opmd, p.opmdc)
         /\ Down(p) \in PhyStates /\ Down(p).opmd = p.opmd /\ Down(p).opmdc = 6
         /\ All(p) \in PhyStates /\ All(p).opmd = p.opmd /\ All(p).opmdc = 7
<1>1. ASSUME NEW q \in PhyStates
      PROVE  /\ Held(q) \in PhyStates /\ Held(q).opmd = q.opmd /\ Held(q).opmdc = q.opmdc
             /\ Released(q) \in PhyStates /\ Released(q).running = TRUE
             /\ Released(q).opmd = q.opmd /\ Released(q).opmdc = q.opmdc
             /\ Down(q) \in PhyStates /\ Down(q).opmd = q.opmd /\ Down(q).opmdc = 6
             /\ All(q) \in PhyStates /\ All(q).opmd = q.opmd /\ All(q).opmdc = 7
  <2>1. Held(q) \in PhyStates /\ Held(q).opmd = q.opmd /\ Held(q).opmdc = q.opmdc
    BY DEF Held, PhyStates
  <2>2. /\ Released(q) \in PhyStates /\ Released(q).running = TRUE
        /\ Released(q).opmd = q.opmd /\ Released(q).opmdc = q.opmdc
    BY DEF Released, PhyStates
  <2>3. Down(q) \in PhyStates /\ Down(q).opmd = q.opmd /\ Down(q).opmdc = 6
    BY DEF Down, PhyStates
  <2>4. All(q) \in PhyStates /\ All(q).opmd = q.opmd /\ All(q).opmdc = 7
    BY DEF All, PhyStates
  <2> QED
    BY <2>1, <2>2, <2>3, <2>4
<1> QED
  BY <1>1 DEF InMode

(* wizphy_setphyconf leaves the mode asked for.                            *)
LEMMA SetPhyConfLeaves ==
  ASSUME NEW c \in PhyConf, NEW R, NEW S, NEW r \in Register
  PROVE  LET A == After(wizphy_setphyconf(c), R, S) IN
         IF r = "PHYCFGR" THEN InMode(A[r], c.sw, OPMDC(c)) ELSE A[r] = R[r]
<1> DEFINE v == [running |-> FALSE, opmd |-> c.sw, opmdc |-> OPMDC(c)]
<1>1. v \in PhyStates /\ v \in Values
  <2>1. c.sw \in BOOLEAN /\ OPMDC(c) \in Int
    <3>1. c.sw \in BOOLEAN /\ c.mode \in {"auto", "manual"} /\ c.full \in BOOLEAN /\ c.fast \in BOOLEAN
      BY DEF PhyConf
    <3> QED
      BY <3>1 DEF OPMDC
  <2>2. PICK n \in Int, b \in BOOLEAN : n = OPMDC(c) /\ b = c.sw
    BY <2>1
  <2>3. [running |-> FALSE, opmd |-> b, opmdc |-> n] \in PhyStates
    BY DEF PhyStates
  <2> QED
    BY <2>2, <2>3 DEF Values, PhyStates
<1>2. v.opmd = c.sw /\ v.opmdc = OPMDC(c)
  OBVIOUS
<1>3. wizphy_setphyconf(c) = <<Wr("PHYCFGR", v)>> \o wizphy_reset
  BY DEF wizphy_setphyconf
<1> HIDE DEF v
<1>4. PICK one \in Seq(PlainSteps) : one = <<Wr("PHYCFGR", v)>>
  <2>1. Wr("PHYCFGR", v) \in PlainSteps
    BY <1>1, StepsArePlain, Names
  <2>2. <<Wr("PHYCFGR", v)>> \in Seq(PlainSteps)
    BY <2>1
  <2> QED
    BY <2>2
<1>5. PICK T : After(one \o wizphy_reset, R, S) = After(wizphy_reset, After(one, R, S), T)
  <2>1. wizphy_reset \in Seq(PlainSteps)
    BY PhyIsPlain
  <2>2. \E T : After(one \o wizphy_reset, R, S) = After(wizphy_reset, After(one, R, S), T)
    BY <2>1, AfterConcat
  <2> QED
    BY <2>2
<1>6. After(one, R, S)[r] = IF r = "PHYCFGR" THEN v ELSE R[r]
  <2>1. Final(one, r, [reg |-> R[r], saved |-> S[r]])
          = Effect(Wr("PHYCFGR", v), r, [reg |-> R[r], saved |-> S[r]])
    BY <1>4, FinalOne
  <2> QED
    BY <2>1, WriteEffect DEF After, Outcome
<1>7. After(wizphy_reset, After(one, R, S), T)[r]
        = IF r = "PHYCFGR" THEN Released(Held(After(one, R, S)[r])) ELSE After(one, R, S)[r]
  BY PhyResetLeaves
<1>8. InMode(Released(Held(v)), c.sw, OPMDC(c))
  BY <1>1, <1>2, PhyStateKept
<1> QED
  BY <1>3, <1>4, <1>5, <1>6, <1>7, <1>8

(* A read leaves the registers as they are.                                *)
LEMMA ReadLeaves ==
  ASSUME NEW q, NEW R, NEW S, NEW r \in Register
  PROVE  After(<<Rd(q)>>, R, S)[r] = R[r]
<1>1. Final(<<Rd(q)>>, r, [reg |-> R[r], saved |-> S[r]])
        = Effect(Rd(q), r, [reg |-> R[r], saved |-> S[r]])
  BY FinalOne
<1> QED
  BY <1>1, ReadEffect DEF After, Outcome

(* What wizphy_setphypmode writes when it is not refused.                  *)
LEMMA PowerWrites ==
  ASSUME NEW down \in BOOLEAN, NEW R, NEW S, NEW r \in Register
  PROVE  LET A == After(<<Rd("PHYCFGR")>> \o (<<Re("PHYCFGR", IF down THEN "down" ELSE "all")>>
                           \o wizphy_reset \o <<Rd("PHYCFGR")>>), R, S) IN
         A[r] = IF r = "PHYCFGR" THEN Released(Held(IF down THEN Down(R[r]) ELSE All(R[r]))) ELSE R[r]
<1>1. PICK rd \in Seq(PlainSteps), re \in Seq(PlainSteps) :
        /\ rd = <<Rd("PHYCFGR")>>
        /\ re = <<Re("PHYCFGR", IF down THEN "down" ELSE "all")>>
  <2>1. <<Rd("PHYCFGR")>> \in Seq(PlainSteps)
    BY StepsArePlain, Names
  <2>2. <<Re("PHYCFGR", IF down THEN "down" ELSE "all")>> \in Seq(PlainSteps)
    BY StepsArePlain, Names
  <2> QED
    BY <2>1, <2>2
<1>2. PICK turn \in Seq(PlainSteps), a \in Seq(PlainSteps), reset \in Seq(PlainSteps) :
        turn = rd \o re /\ a = turn \o reset /\ reset = wizphy_reset
  BY PhyIsPlain, ConcatProperties
<1>3. rd \o ((re \o reset) \o rd) = a \o rd
  <2>1. PICK m \in Seq(PlainSteps) : m = re \o reset
    BY ConcatProperties
  <2>2. rd \o m = a
    BY <1>2, <2>1, PlainLists
  <2>3. rd \o (m \o rd) = (rd \o m) \o rd
    BY PlainLists
  <2> QED
    BY <2>1, <2>2, <2>3
<1>4. PICK T1 : After(a \o rd, R, S) = After(rd, After(a, R, S), T1)
  <2>1. \E T : After(a \o rd, R, S) = After(rd, After(a, R, S), T)
    BY PlainThen
  <2> QED
    BY <2>1
<1>5. PICK T2 : After(turn \o reset, R, S) = After(reset, After(turn, R, S), T2)
  <2>1. \E T : After(turn \o reset, R, S) = After(reset, After(turn, R, S), T)
    BY PlainThen
  <2> QED
    BY <2>1
<1>6. \A G, T : After(rd, G, T)[r] = G[r]
  BY <1>1, ReadLeaves
<1>7. After(a \o rd, R, S)[r] = After(reset, After(turn, R, S), T2)[r]
  BY <1>2, <1>4, <1>5, <1>6
<1>8. After(turn, R, S)[r]
        = IF r = "PHYCFGR" THEN IF down THEN Down(R[r]) ELSE All(R[r]) ELSE R[r]
  <2> DEFINE c == [reg |-> R[r], saved |-> S[r]]
  <2>1. Final(rd \o re, r, c) = Final(re, r, Final(rd, r, c))
    BY FinalConcat
  <2>2. PICK d : d = Final(rd, r, c)
    OBVIOUS
  <2>3. d = Effect(Rd("PHYCFGR"), r, c)
    BY <1>1, <2>2, FinalOne
  <2>4. d.reg = R[r] /\ (r = "PHYCFGR" => d.saved = R[r])
    BY <2>3, ReadEffect
  <2>5. Final(re, r, d) = Effect(Re("PHYCFGR", IF down THEN "down" ELSE "all"), r, d)
    BY <1>1, FinalOne
  <2>6. Final(re, r, d).reg = IF r = "PHYCFGR" THEN IF down THEN Down(R[r]) ELSE All(R[r]) ELSE R[r]
    BY <2>4, <2>5, PhyEffect
  <2>7. After(turn, R, S)[r] = Final(turn, r, c).reg
    BY DEF After, Outcome
  <2> HIDE DEF c
  <2> QED
    BY <1>2, <2>1, <2>2, <2>6, <2>7
<1>9. PICK G : G = After(turn, R, S)
  OBVIOUS
<1>10. After(wizphy_reset, G, T2)[r] = IF r = "PHYCFGR" THEN Released(Held(G[r])) ELSE G[r]
  BY PhyResetLeaves
<1> QED
  BY <1>1, <1>2, <1>3, <1>7, <1>8, <1>9, <1>10

(* wizphy_setphypmode is refused while the PHY is not configured by        *)
(* software; else it leaves the PHY powered down, or negotiating.          *)
LEMMA SetPhyPowerLeaves ==
  ASSUME NEW down \in BOOLEAN, NEW S, NEW r \in Register, regs["PHYCFGR"] \in PhyStates
  PROVE  LET A == After(wizphy_setphypmode(down), regs, S) IN
         IF r = "PHYCFGR" /\ regs["PHYCFGR"].opmd
         THEN InMode(A[r], regs["PHYCFGR"].opmd, IF down THEN 6 ELSE 7)
         ELSE A[r] = regs[r]
<1>1. CASE ~regs["PHYCFGR"].opmd
  <2>1. <<Rd("PHYCFGR")>> \in Seq(PlainSteps)
    BY StepsArePlain, Names
  <2>2. <<Rd("PHYCFGR")>> \o <<>> = <<Rd("PHYCFGR")>>
    BY <2>1, ConcatEmptySeq
  <2>3. wizphy_setphypmode(down) = <<Rd("PHYCFGR")>>
    BY <1>1, <2>2 DEF wizphy_setphypmode
  <2>4. After(<<Rd("PHYCFGR")>>, regs, S)[r] = regs[r]
    BY ReadLeaves
  <2> QED
    BY <1>1, <2>3, <2>4
<1>2. CASE regs["PHYCFGR"].opmd
  <2>1. PICK R : R = regs
    OBVIOUS
  <2>2. wizphy_setphypmode(down)
          = <<Rd("PHYCFGR")>> \o (<<Re("PHYCFGR", IF down THEN "down" ELSE "all")>>
              \o wizphy_reset \o <<Rd("PHYCFGR")>>)
    BY <1>2 DEF wizphy_setphypmode
  <2>3. PICK A : A = After(wizphy_setphypmode(down), R, S)
    OBVIOUS
  <2>4. A[r] = IF r = "PHYCFGR" THEN Released(Held(IF down THEN Down(R[r]) ELSE All(R[r]))) ELSE R[r]
    BY <2>2, <2>3, PowerWrites
  <2>5. CASE r # "PHYCFGR"
    BY <2>1, <2>3, <2>4, <2>5
  <2>6. CASE r = "PHYCFGR"
    <3>1. PICK p : p = IF down THEN Down(R[r]) ELSE All(R[r])
      OBVIOUS
    <3>2. R[r] \in PhyStates
      BY <2>1, <2>6
    <3>3. p \in PhyStates /\ p.opmd = R[r].opmd /\ p.opmdc = IF down THEN 6 ELSE 7
      BY <3>1, <3>2, PhyStateKept
    <3>4. InMode(Released(Held(p)), p.opmd, p.opmdc)
      BY <3>3, PhyStateKept
    <3>5. A[r] = Released(Held(p))
      BY <2>4, <2>6, <3>1
    <3> QED
      BY <1>2, <2>1, <2>3, <2>6, <3>3, <3>4, <3>5
  <2> QED
    BY <2>5, <2>6
<1> QED
  BY <1>1, <1>2

(* A program of five steps.                                                *)
LEMMA FinalFive ==
  ASSUME NEW x, NEW y, NEW z, NEW u, NEW v, NEW r, NEW c
  PROVE  Final(<<x, y, z, u, v>>, r, c)
           = Effect(v, r, Effect(u, r, Effect(z, r, Effect(y, r, Effect(x, r, c)))))
<1>1. PICK p : p = <<x, y, z, u, v>>
  OBVIOUS
<1>2. Len(p) = 5 /\ p[1] = x /\ p[2] = y /\ p[3] = z /\ p[4] = u /\ p[5] = v
  BY <1>1
<1>a. Len(p) \in Nat
  BY <1>2
<1>3. /\ Course(p, r, c)[1] = Effect(p[1], r, Course(p, r, c)[0]) /\ Course(p, r, c)[0] = c
      /\ Course(p, r, c)[2] = Effect(p[2], r, Course(p, r, c)[1])
      /\ Course(p, r, c)[3] = Effect(p[3], r, Course(p, r, c)[2])
      /\ Course(p, r, c)[4] = Effect(p[4], r, Course(p, r, c)[3])
      /\ Course(p, r, c)[5] = Effect(p[5], r, Course(p, r, c)[4])
  <2>1. PICK a : a = Course(p, r, c)
    OBVIOUS
  <2>2. /\ Course(p, r, c)[0] = c
        /\ \A i \in 1..Len(p) : Course(p, r, c)[i] = Effect(p[i], r, Course(p, r, c)[i-1])
    BY <1>a, CourseIs
  <2>3. a[0] = c /\ \A i \in 1..5 : a[i] = Effect(p[i], r, a[i-1])
    BY <1>2, <2>1, <2>2
  <2>4. /\ a[1] = Effect(p[1], r, a[0]) /\ a[2] = Effect(p[2], r, a[1])
        /\ a[3] = Effect(p[3], r, a[2]) /\ a[4] = Effect(p[4], r, a[3])
        /\ a[5] = Effect(p[5], r, a[4])
    BY <2>3
  <2> QED
    BY <2>1, <2>3, <2>4
<1> QED
  BY <1>1, <1>2, <1>3 DEF Final

(* The steps of the bring-up other than accesses: the pin resets the chip, *)
(* the others leave the registers alone.                                   *)
LEMMA StepEffect ==
  /\ \A r, c : Effect(Step("pin", 0), r, c).reg = AfterReset[r]
  /\ \A k \in {"cris", "cs", "spi", "burst", "up"} : \A r, c : Effect(Step(k, 0), r, c).reg = c.reg
BY DEF Effect, Step, StepOf

(* The bring-up leaves the identity of the board, sizes that fit, and      *)
(* every other register as a reset leaves it.                              *)
LEMMA BringUpLeaves ==
  ASSUME NEW R, NEW S
  PROVE  LET A == After(BringUp, R, S) IN
         /\ \A r \in Identity : A[r] = "own"
         /\ \A r \in Register \ (Identity \cup Sizes) : A[r] = AfterReset[r]
         /\ MemoryFits(A)
<1>1. PICK first \in Seq(PlainSteps), init \in Seq(PlainSteps), rd \in Seq(PlainSteps),
           net \in Seq(PlainSteps), up \in Seq(PlainSteps) :
        /\ first = <<Step("pin", 0), Step("cris", 0), Step("cs", 0), Step("spi", 0), Step("burst", 0)>>
        /\ init = wizchip_init(<<2, 2>>, <<2, 2>>) /\ rd = <<Rd("VERSIONR")>>
        /\ net = wizchip_setnetinfo("own") /\ up = <<Step("up", 0)>>
  <2>1. <<Step("pin", 0), Step("cris", 0), Step("cs", 0), Step("spi", 0), Step("burst", 0)>>
          \in Seq(PlainSteps)
    BY StepsArePlain
  <2>2. <<Rd("VERSIONR")>> \in Seq(PlainSteps) /\ <<Step("up", 0)>> \in Seq(PlainSteps)
    BY StepsArePlain, Names
  <2>3. wizchip_init(<<2, 2>>, <<2, 2>>) \in Seq(PlainSteps) /\ wizchip_setnetinfo("own") \in Seq(PlainSteps)
    BY InitTwoIsPlain, SettingsArePlain
  <2> QED
    BY <2>1, <2>2, <2>3
<1>2. PICK b1 \in Seq(PlainSteps), b2 \in Seq(PlainSteps), b3 \in Seq(PlainSteps) :
        b1 = first \o init /\ b2 = b1 \o rd /\ b3 = b2 \o net
  BY PlainLists
<1>3. BringUp = b3 \o up
  BY <1>1, <1>2 DEF BringUp
<1>4. PICK A1 : A1 = After(first, R, S)
  OBVIOUS
<1>5. PICK T2, A2 : A2 = After(init, A1, T2) /\ A2 = After(b1, R, S)
  <2>1. \E T : After(first \o init, R, S) = After(init, After(first, R, S), T)
    BY PlainThen
  <2> QED
    BY <1>2, <1>4, <2>1
<1>6. PICK T3, A3 : A3 = After(rd, A2, T3) /\ A3 = After(b2, R, S)
  <2>1. \E T : After(b1 \o rd, R, S) = After(rd, After(b1, R, S), T)
    BY PlainThen
  <2> QED
    BY <1>2, <1>5, <2>1
<1>7. PICK T4, A4 : A4 = After(net, A3, T4) /\ A4 = After(b3, R, S)
  <2>1. \E T : After(b2 \o net, R, S) = After(net, After(b2, R, S), T)
    BY PlainThen
  <2> QED
    BY <1>2, <1>6, <2>1
<1>8. PICK T5, A : A = After(up, A4, T5) /\ A = After(BringUp, R, S)
  <2>1. \E T : After(b3 \o up, R, S) = After(up, After(b3, R, S), T)
    BY PlainThen
  <2> QED
    BY <1>3, <1>7, <2>1
<1>9. \A r \in Register : A1[r] = AfterReset[r]
  <2> SUFFICES ASSUME NEW r \in Register PROVE A1[r] = AfterReset[r]
    OBVIOUS
  <2> DEFINE c == [reg |-> R[r], saved |-> S[r]]
  <2>1. A1[r] = Final(first, r, c).reg
    BY <1>4 DEF After, Outcome
  <2> HIDE DEF c
  <2>2. PICK d1, d2, d3, d4, d5 :
          /\ d1 = Effect(Step("pin", 0), r, c) /\ d2 = Effect(Step("cris", 0), r, d1)
          /\ d3 = Effect(Step("cs", 0), r, d2) /\ d4 = Effect(Step("spi", 0), r, d3)
          /\ d5 = Effect(Step("burst", 0), r, d4)
    OBVIOUS
  <2>3. Final(first, r, c) = d5
    BY <1>1, <2>2, FinalFive
  <2>4. d1.reg = AfterReset[r] /\ d2.reg = d1.reg /\ d3.reg = d2.reg /\ d4.reg = d3.reg /\ d5.reg = d4.reg
    BY <2>2, StepEffect
  <2> QED
    BY <2>1, <2>3, <2>4
<1>10. /\ \A r \in Identity : A2[r] = A1[r]
       /\ \A r \in Register \ (Identity \cup Sizes) : A2[r] = AfterReset[r]
       /\ MemoryFits(A2)
  <2>1. PICK s \in GivenSizes : s = <<2, 2>>
    BY TwoEach
  <2>2. A2 = After(wizchip_init(s, s), A1, T2)
    BY <1>1, <1>5, <2>1
  <2>3. LET C == After(wizchip_init(s, s), A1, T2) IN
        /\ \A r \in Identity : C[r] = A1[r]
        /\ \A r \in Register \ (Identity \cup Sizes) : C[r] = AfterReset[r]
        /\ MemoryFits(C)
    BY InitLeaves
  <2> QED
    BY <2>2, <2>3
<1>11. \A r \in Register : A3[r] = A2[r]
  <2>1. \A r \in Register : After(<<Rd("VERSIONR")>>, A2, T3)[r] = A2[r]
    BY ReadLeaves
  <2>2. A3 = After(<<Rd("VERSIONR")>>, A2, T3)
    BY <1>1, <1>6
  <2> QED
    BY <2>1, <2>2
<1>12. \A r \in Register : A4[r] = IF r \in Identity THEN "own" ELSE A3[r]
  <2>1. \A r \in Register :
          After(wizchip_setnetinfo("own"), A3, T4)[r] = IF r \in Identity THEN "own" ELSE A3[r]
    BY NetInfoLeaves
  <2>2. A4 = After(wizchip_setnetinfo("own"), A3, T4)
    BY <1>1, <1>7
  <2> QED
    BY <2>1, <2>2
<1>13. \A r \in Register : A[r] = A4[r]
  <2> SUFFICES ASSUME NEW r \in Register PROVE A[r] = A4[r]
    OBVIOUS
  <2> DEFINE c == [reg |-> A4[r], saved |-> T5[r]]
  <2>1. A[r] = Final(up, r, c).reg /\ c.reg = A4[r]
    BY <1>8 DEF After, Outcome
  <2> HIDE DEF c
  <2>2. Final(up, r, c) = Effect(Step("up", 0), r, c)
    BY <1>1, FinalOne
  <2> QED
    BY <2>1, <2>2, StepEffect
<1>14. /\ Identity \subseteq Register /\ Sizes \subseteq Register /\ Sizes \cap Identity = {}
       /\ {"TXBUF0", "TXBUF1", "RXBUF0", "RXBUF1"} = Sizes
  BY DEF Sizes, Register, Identity
<1>15. \A r \in Sizes : A[r] = A2[r]
  BY <1>11, <1>12, <1>13, <1>14
<1>16. MemoryFits(A)
  BY <1>10, <1>14, <1>15 DEF MemoryFits
<1> QED
  BY <1>8, <1>10, <1>11, <1>12, <1>13, <1>14, <1>16

(* Registers R are what the settings a ask for, with the types that the    *)
(* configuration functions rely on.                                        *)
Settings == [conf : PhyConf, down : BOOLEAN, modes : SUBSET {"pingblock", "forcearp"},
             timeout : {"reset", "set"}, masks : {"reset", "set"}]
Ready(R, a) == a.settings \in Settings /\ R["PHYCFGR"] \in PhyStates /\ Configured(R, a)

(* Command registers are no part of it.                                    *)
LEMMA ReadyOn ==
  ASSUME NEW R, NEW G, NEW a, Ready(R, a), \A r \in Chosen : G[r] = R[r]
  PROVE  Ready(G, a)
<1>1. /\ Identity \subseteq Chosen
      /\ {"TXBUF0", "TXBUF1", "RXBUF0", "RXBUF1", "MR", "PHYCFGR"} \subseteq Chosen
      /\ {"RTR", "RCR", "IMR", "SIMR"} \subseteq Chosen
  BY DEF Identity, Sizes, Config, Register, Chosen
<1>2. IdentityKept(G, a)
  BY <1>1 DEF Ready, Configured, IdentityKept
<1>3. MemoryFits(G)
  BY <1>1 DEF Ready, Configured, MemoryFits
<1>4. G["PHYCFGR"] \in PhyStates /\ PhyAsAsked(G["PHYCFGR"], a.settings)
  BY <1>1 DEF Ready, Configured
<1>5. SettingsKept(G, a.settings)
  BY <1>1 DEF Ready, Configured, SettingsKept
<1> QED
  BY <1>2, <1>3, <1>4, <1>5 DEF Ready, Configured

(* The PHY as asked, by the parts of PHYCFGR.                              *)
LEMMA PhyParts ==
  ASSUME NEW p \in PhyStates, NEW q \in PhyStates, p.opmd = q.opmd, p.opmdc = q.opmdc,
         q.running = TRUE, NEW s, PhyAsAsked(p, s)
  PROVE  PhyAsAsked(q, s)
<1>1. wizphy_getphyconf(p) = wizphy_getphyconf(q) /\ wizphy_getphypmode(p) = wizphy_getphypmode(q)
  BY DEF wizphy_getphyconf, wizphy_getphypmode
<1> QED
  BY <1>1 DEF PhyAsAsked

(* The settings after a reset.                                             *)
LEMMA DefaultsReady ==
  ASSUME NEW R, NEW id, \A r \in Identity : R[r] = id, MemoryFits(R),
         \A r \in Register \ (Identity \cup Sizes) : R[r] = AfterReset[r]
  PROVE  Ready(R, Asked(id, ChipDefaults))
<1> DEFINE a == Asked(id, ChipDefaults)
<1>1. a.identity = id /\ a.settings = ChipDefaults
  BY DEF Asked
<1>2. /\ PhyAfterReset \in PhyStates /\ PhyAfterReset.running = TRUE
      /\ PhyAfterReset.opmd = FALSE /\ PhyAfterReset.opmdc = 7
  BY DEF PhyAfterReset, PhyStates
<1>3. /\ R["MR"] = {} /\ R["PHYCFGR"] = PhyAfterReset
      /\ \A r \in {"RTR", "RCR", "IMR", "SIMR"} : R[r] = "reset"
  <2>1. {"MR", "PHYCFGR", "RTR", "RCR", "IMR", "SIMR"} \subseteq Register \ (Identity \cup Sizes)
    BY DEF Register, Identity, Sizes, Config
  <2>2. /\ AfterReset["MR"] = {} /\ AfterReset["PHYCFGR"] = PhyAfterReset
        /\ \A r \in {"RTR", "RCR", "IMR", "SIMR"} : AfterReset[r] = "reset"
    BY DEF AfterReset, Register, Identity, Sizes, Config
  <2> QED
    BY <2>1, <2>2
<1>4. /\ ChipDefaults.conf = wizphy_getphyconf(PhyAfterReset) /\ ChipDefaults.down = FALSE
      /\ ChipDefaults.modes = {} /\ ChipDefaults.timeout = "reset" /\ ChipDefaults.masks = "reset"
      /\ ChipDefaults \in Settings
  <2>1. wizphy_getphyconf(PhyAfterReset) \in PhyConf
    <3>1. ASSUME NEW p \in PhyStates PROVE wizphy_getphyconf(p) \in PhyConf
      BY DEF wizphy_getphyconf, PhyStates, PhyConf
    <3> QED
      BY <1>2, <3>1
  <2> QED
    BY <2>1 DEF ChipDefaults, Settings
<1>5. PhyAsAsked(PhyAfterReset, ChipDefaults)
  <2>1. wizphy_getphypmode(PhyAfterReset) = FALSE
    BY <1>2 DEF wizphy_getphypmode
  <2>2. wizphy_getphyconf(PhyAfterReset).mode = "auto"
    BY <1>2 DEF wizphy_getphyconf
  <2> QED
    BY <1>2, <1>4, <2>1, <2>2 DEF PhyAsAsked
<1> HIDE DEF a
<1>6. SettingsKept(R, ChipDefaults)
  BY <1>3, <1>4 DEF SettingsKept
<1>7. IdentityKept(R, a)
  BY <1>1 DEF IdentityKept
<1>8. Ready(R, a)
  BY <1>1, <1>2, <1>3, <1>4, <1>5, <1>6, <1>7 DEF Ready, Configured
<1> QED
  BY <1>8 DEF a

(* What changes of the settings asked for leave alone. A mode is added;    *)
LEMMA ModesChange ==
  ASSUME NEW s \in Settings, NEW m \in {"pingblock", "forcearp"}
  PROVE  LET n == [s EXCEPT !.modes = @ \cup {m}] IN
         /\ n \in Settings /\ n.modes = s.modes \cup {m} /\ n.timeout = s.timeout
         /\ n.masks = s.masks /\ n.conf = s.conf /\ n.down = s.down
BY DEF Settings

(* The timeouts or the masks are set;                                      *)
LEMMA TimesChange ==
  ASSUME NEW s \in Settings
  PROVE  /\ LET n == [s EXCEPT !.timeout = "set"] IN
              /\ n \in Settings /\ n.modes = s.modes /\ n.timeout = "set"
              /\ n.masks = s.masks /\ n.conf = s.conf /\ n.down = s.down
         /\ LET n == [s EXCEPT !.masks = "set"] IN
              /\ n \in Settings /\ n.modes = s.modes /\ n.timeout = s.timeout
              /\ n.masks = "set" /\ n.conf = s.conf /\ n.down = s.down
BY DEF Settings

(* the PHY is configured;                                                  *)
LEMMA ConfChange ==
  ASSUME NEW s \in Settings, NEW c \in PhyConf
  PROVE  LET n == [s EXCEPT !.conf = c, !.down = FALSE] IN
         /\ n \in Settings /\ n.modes = s.modes /\ n.timeout = s.timeout
         /\ n.masks = s.masks /\ n.conf = c /\ n.down = FALSE
BY DEF Settings

(* its power is changed.                                                   *)
LEMMA PowerChange ==
  ASSUME NEW s \in Settings, NEW down \in BOOLEAN
  PROVE  LET n == [s EXCEPT !.down = down, !.conf.mode = IF down THEN @ ELSE "auto"] IN
         /\ n \in Settings /\ n.modes = s.modes /\ n.timeout = s.timeout
         /\ n.masks = s.masks /\ n.down = down /\ n.conf.sw = s.conf.sw
         /\ ~down => n.conf.mode = "auto"
BY DEF Settings, PhyConf

(* Each function leaves the chip ready for the settings that its call      *)
(* notes: the reset,                                                       *)
LEMMA ResetReady ==
  ASSUME NEW R, NEW S, NEW a, Ready(R, a)
  PROVE  Ready(After(wizchip_sw_reset, R, S), Asked(a.identity, ChipDefaults))
<1>1. PICK A : A = After(wizchip_sw_reset, R, S)
  OBVIOUS
<1>2. \A r \in Register : A[r] = IF r \in Identity THEN R[r] ELSE AfterReset[r]
  BY <1>1, ResetLeaves
<1>3. /\ Identity \subseteq Register /\ {"TXBUF0", "TXBUF1", "RXBUF0", "RXBUF1"} \subseteq Register \ Identity
      /\ \A r \in {"TXBUF0", "TXBUF1", "RXBUF0", "RXBUF1"} : AfterReset[r] = 2
  BY DEF Register, Identity, Sizes, AfterReset
<1>4. \A r \in Identity : A[r] = a.identity
  BY <1>2, <1>3 DEF Ready, Configured, IdentityKept
<1>5. /\ A["TXBUF0"] = 2 /\ A["TXBUF1"] = 2 /\ A["RXBUF0"] = 2 /\ A["RXBUF1"] = 2
  BY <1>2, <1>3
<1>6. MemoryFits(A)
  BY <1>5 DEF MemoryFits, SizesFit, OtherSizes
<1> QED
  BY <1>1, <1>2, <1>4, <1>6, DefaultsReady

(* wizchip_init,                                                           *)
LEMMA InitReady ==
  ASSUME NEW tx \in GivenSizes, NEW rx \in GivenSizes,
         NEW R, NEW S, NEW a, Ready(R, a)
  PROVE  Ready(After(wizchip_init(tx, rx), R, S), Asked(a.identity, ChipDefaults))
<1>1. PICK A : A = After(wizchip_init(tx, rx), R, S)
  OBVIOUS
<1>2. /\ \A r \in Identity : A[r] = R[r]
      /\ \A r \in Register \ (Identity \cup Sizes) : A[r] = AfterReset[r]
      /\ MemoryFits(A)
  <2>1. LET B == After(wizchip_init(tx, rx), R, S) IN
        /\ \A r \in Identity : B[r] = R[r]
        /\ \A r \in Register \ (Identity \cup Sizes) : B[r] = AfterReset[r]
        /\ MemoryFits(B)
    BY InitLeaves
  <2> QED
    BY <1>1, <2>1
<1>3. \A r \in Identity : A[r] = a.identity
  BY <1>2 DEF Ready, Configured, IdentityKept
<1> QED
  BY <1>1, <1>2, <1>3, DefaultsReady

(* the bring-up,                                                           *)
LEMMA BringUpReady ==
  ASSUME NEW R, NEW S
  PROVE  Ready(After(BringUp, R, S), Asked("own", ChipDefaults))
<1>1. PICK A : A = After(BringUp, R, S)
  OBVIOUS
<1>2. /\ \A r \in Identity : A[r] = "own"
      /\ \A r \in Register \ (Identity \cup Sizes) : A[r] = AfterReset[r]
      /\ MemoryFits(A)
  BY <1>1, BringUpLeaves
<1> QED
  BY <1>1, <1>2, DefaultsReady

(* the functions that write some of the registers,                         *)
LEMMA WritesReady ==
  ASSUME NEW R, NEW A, NEW a, NEW id, NEW s \in Settings, Ready(R, a),
         \A r \in Sizes : A[r] = R[r],
         \A r \in Identity : A[r] = id,
         A["PHYCFGR"] \in PhyStates /\ PhyAsAsked(A["PHYCFGR"], s),
         SettingsKept(A, s)
  PROVE  Ready(A, Asked(id, s))
<1>1. Asked(id, s).identity = id /\ Asked(id, s).settings = s
  BY DEF Asked
<1>2. MemoryFits(A)
  BY DEF Ready, Configured, MemoryFits, Sizes
<1>3. IdentityKept(A, Asked(id, s))
  BY <1>1 DEF IdentityKept
<1> QED
  BY <1>1, <1>2, <1>3 DEF Ready, Configured

(* ctlnetwork's,                                                           *)
LEMMA NetInfoReady ==
  ASSUME NEW R, NEW S, NEW a, Ready(R, a)
  PROVE  Ready(After(wizchip_setnetinfo("other"), R, S), Asked("other", a.settings))
<1>1. PICK A : A = After(wizchip_setnetinfo("other"), R, S)
  OBVIOUS
<1>2. \A r \in Register : A[r] = IF r \in Identity THEN "other" ELSE R[r]
  BY <1>1, NetInfoLeaves
<1>3. /\ \A r \in Identity : A[r] = "other"
      /\ \A r \in Sizes \cup Config \cup {"MR", "PHYCFGR"} : A[r] = R[r]
  BY <1>2 DEF Register, Identity, Sizes, Config
<1>4. SettingsKept(A, a.settings)
  BY <1>3 DEF Ready, Configured, SettingsKept, Config
<1>5. A["PHYCFGR"] \in PhyStates /\ PhyAsAsked(A["PHYCFGR"], a.settings) /\ a.settings \in Settings
  BY <1>3 DEF Ready, Configured
<1>6. Ready(A, Asked("other", a.settings))
  BY <1>3, <1>4, <1>5, WritesReady
<1> QED
  BY <1>1, <1>6

(* wizchip_setnetmode adds a mode to those there,                          *)
LEMMA NetModeReady ==
  ASSUME NEW m \in {"pingblock", "forcearp"}, NEW R, NEW S, NEW a, Ready(R, a)
  PROVE  Ready(After(wizchip_setnetmode(m), R, S),
               Asked(a.identity, [a.settings EXCEPT !.modes = @ \cup {m}]))
<1>1. PICK A, s : A = After(wizchip_setnetmode(m), R, S) /\ s = [a.settings EXCEPT !.modes = @ \cup {m}]
  OBVIOUS
<1>2. \A r \in Register : A[r] = IF r = "MR" THEN R[r] \cup {m} ELSE R[r]
  BY <1>1, NetModeLeaves
<1>3. /\ A["MR"] = R["MR"] \cup {m}
      /\ \A r \in Identity \cup Sizes \cup Config \cup {"PHYCFGR"} : A[r] = R[r]
  BY <1>2 DEF Register, Identity, Sizes, Config
<1>4. /\ s \in Settings /\ s.modes = a.settings.modes \cup {m} /\ s.timeout = a.settings.timeout
      /\ s.masks = a.settings.masks /\ s.conf = a.settings.conf /\ s.down = a.settings.down
  <2>1. PICK o \in Settings : o = a.settings
    BY DEF Ready
  <2>2. LET n == [o EXCEPT !.modes = @ \cup {m}] IN
        /\ n \in Settings /\ n.modes = o.modes \cup {m} /\ n.timeout = o.timeout
        /\ n.masks = o.masks /\ n.conf = o.conf /\ n.down = o.down
    BY ModesChange
  <2> QED
    BY <1>1, <2>1, <2>2
<1>5. SettingsKept(A, s)
  BY <1>3, <1>4 DEF Ready, Configured, SettingsKept, Config
<1>6. A["PHYCFGR"] \in PhyStates /\ PhyAsAsked(A["PHYCFGR"], s)
  BY <1>3, <1>4 DEF Ready, Configured, PhyAsAsked
<1>7. \A r \in Identity : A[r] = a.identity
  BY <1>3 DEF Ready, Configured, IdentityKept
<1>8. Ready(A, Asked(a.identity, s))
  BY <1>3, <1>4, <1>5, <1>6, <1>7, WritesReady
<1> QED
  BY <1>1, <1>8

(* wizchip_settimeout sets the retry time and count,                       *)
LEMMA TimeoutReady ==
  ASSUME NEW R, NEW S, NEW a, Ready(R, a)
  PROVE  Ready(After(wizchip_settimeout("set"), R, S),
               Asked(a.identity, [a.settings EXCEPT !.timeout = "set"]))
<1>1. PICK A, s : A = After(wizchip_settimeout("set"), R, S) /\ s = [a.settings EXCEPT !.timeout = "set"]
  OBVIOUS
<1>2. \A r \in Register : A[r] = IF r \in {"RTR", "RCR"} THEN "set" ELSE R[r]
  BY <1>1, TimeoutLeaves
<1>3. /\ A["RTR"] = "set" /\ A["RCR"] = "set"
      /\ \A r \in Identity \cup Sizes \cup {"IMR", "SIMR", "MR", "PHYCFGR"} : A[r] = R[r]
  BY <1>2 DEF Register, Identity, Sizes, Config
<1>4. /\ s \in Settings /\ s.modes = a.settings.modes /\ s.timeout = "set"
      /\ s.masks = a.settings.masks /\ s.conf = a.settings.conf /\ s.down = a.settings.down
  BY <1>1, TimesChange DEF Ready
<1>5. SettingsKept(A, s)
  BY <1>3, <1>4 DEF Ready, Configured, SettingsKept
<1>6. A["PHYCFGR"] \in PhyStates /\ PhyAsAsked(A["PHYCFGR"], s)
  BY <1>3, <1>4 DEF Ready, Configured, PhyAsAsked
<1>7. \A r \in Identity : A[r] = a.identity
  BY <1>3 DEF Ready, Configured, IdentityKept
<1>8. Ready(A, Asked(a.identity, s))
  BY <1>3, <1>4, <1>5, <1>6, <1>7, WritesReady
<1> QED
  BY <1>1, <1>8

(* and wizchip_setinterruptmask the masks.                                 *)
LEMMA MaskReady ==
  ASSUME NEW R, NEW S, NEW a, Ready(R, a)
  PROVE  Ready(After(wizchip_setinterruptmask("set"), R, S),
               Asked(a.identity, [a.settings EXCEPT !.masks = "set"]))
<1>1. PICK A, s : A = After(wizchip_setinterruptmask("set"), R, S) /\ s = [a.settings EXCEPT !.masks = "set"]
  OBVIOUS
<1>2. \A r \in Register : A[r] = IF r \in {"IMR", "SIMR"} THEN "set" ELSE R[r]
  BY <1>1, MaskLeaves
<1>3. /\ A["IMR"] = "set" /\ A["SIMR"] = "set"
      /\ \A r \in Identity \cup Sizes \cup {"RTR", "RCR", "MR", "PHYCFGR"} : A[r] = R[r]
  BY <1>2 DEF Register, Identity, Sizes, Config
<1>4. /\ s \in Settings /\ s.modes = a.settings.modes /\ s.timeout = a.settings.timeout
      /\ s.masks = "set" /\ s.conf = a.settings.conf /\ s.down = a.settings.down
  BY <1>1, TimesChange DEF Ready
<1>5. SettingsKept(A, s)
  BY <1>3, <1>4 DEF Ready, Configured, SettingsKept
<1>6. A["PHYCFGR"] \in PhyStates /\ PhyAsAsked(A["PHYCFGR"], s)
  BY <1>3, <1>4 DEF Ready, Configured, PhyAsAsked
<1>7. \A r \in Identity : A[r] = a.identity
  BY <1>3 DEF Ready, Configured, IdentityKept
<1>8. Ready(A, Asked(a.identity, s))
  BY <1>3, <1>4, <1>5, <1>6, <1>7, WritesReady
<1> QED
  BY <1>1, <1>8

(* and the PHY's, which leave every register but PHYCFGR.                  *)
LEMMA PhyReady ==
  ASSUME NEW R, NEW A, NEW a, Ready(R, a), \A r \in Register \ {"PHYCFGR"} : A[r] = R[r],
         NEW s \in Settings, s.modes = a.settings.modes, s.timeout = a.settings.timeout,
         s.masks = a.settings.masks, A["PHYCFGR"] \in PhyStates, PhyAsAsked(A["PHYCFGR"], s)
  PROVE  Ready(A, Asked(a.identity, s))
<1>1. \A r \in Identity \cup Sizes \cup Config \cup {"MR"} : A[r] = R[r]
  BY DEF Register, Identity, Sizes, Config
<1>2. SettingsKept(A, s)
  BY <1>1 DEF Ready, Configured, SettingsKept, Config
<1>3. \A r \in Identity : A[r] = a.identity
  BY <1>1 DEF Ready, Configured, IdentityKept
<1> QED
  BY <1>1, <1>2, <1>3, WritesReady

(* wizphy_reset keeps the mode,                                            *)
LEMMA PhyResetReady ==
  ASSUME NEW R, NEW S, NEW a, Ready(R, a)
  PROVE  Ready(After(wizphy_reset, R, S), Asked(a.identity, a.settings))
<1>1. PICK A, p, q : A = After(wizphy_reset, R, S) /\ p = R["PHYCFGR"] /\ q = A["PHYCFGR"]
  OBVIOUS
<1>2. \A r \in Register : A[r] = IF r = "PHYCFGR" THEN Released(Held(R[r])) ELSE R[r]
  BY <1>1, PhyResetLeaves
<1>3. q = Released(Held(p))
  BY <1>1, <1>2 DEF Register
<1>4. p \in PhyStates /\ PhyAsAsked(p, a.settings) /\ a.settings \in Settings
  BY <1>1 DEF Ready, Configured
<1>5. q \in PhyStates /\ q.running = TRUE /\ q.opmd = p.opmd /\ q.opmdc = p.opmdc
  BY <1>3, <1>4, PhyStateKept DEF InMode
<1>6. PhyAsAsked(q, a.settings)
  BY <1>4, <1>5, PhyParts
<1>7. Ready(A, Asked(a.identity, a.settings))
  BY <1>1, <1>2, <1>4, <1>5, <1>6, PhyReady
<1> QED
  BY <1>1, <1>7

(* wizphy_setphyconf sets the one asked for, which getphyconf reads back,  *)
LEMMA PhyConfReady ==
  ASSUME NEW c \in PhyConf, NEW R, NEW S, NEW a, Ready(R, a)
  PROVE  Ready(After(wizphy_setphyconf(c), R, S),
               Asked(a.identity, [a.settings EXCEPT !.conf = c, !.down = FALSE]))
<1>1. PICK A, q, s : /\ A = After(wizphy_setphyconf(c), R, S) /\ q = A["PHYCFGR"]
                     /\ s = [a.settings EXCEPT !.conf = c, !.down = FALSE]
  OBVIOUS
<1>2. ASSUME NEW r \in Register
      PROVE  IF r = "PHYCFGR" THEN InMode(A[r], c.sw, OPMDC(c)) ELSE A[r] = R[r]
  BY <1>1, SetPhyConfLeaves
<1>3. InMode(q, c.sw, OPMDC(c))
  BY <1>1, <1>2 DEF Register
<1>4. /\ s \in Settings /\ s.modes = a.settings.modes /\ s.timeout = a.settings.timeout
      /\ s.masks = a.settings.masks /\ s.conf = c /\ s.down = FALSE
  <2>1. PICK o \in Settings : o = a.settings
    BY DEF Ready
  <2>2. LET n == [o EXCEPT !.conf = c, !.down = FALSE] IN
        /\ n \in Settings /\ n.modes = o.modes /\ n.timeout = o.timeout
        /\ n.masks = o.masks /\ n.conf = c /\ n.down = FALSE
    BY ConfChange
  <2> QED
    BY <1>1, <2>1, <2>2
<1>5. /\ c.mode \in {"auto", "manual"} /\ c.full \in BOOLEAN /\ c.fast \in BOOLEAN /\ c.sw \in BOOLEAN
      /\ c = [sw |-> c.sw, mode |-> c.mode, full |-> c.full, fast |-> c.fast]
  BY DEF PhyConf
<1>6. /\ OPMDC(c) \in {0, 1, 2, 3, 7} /\ (c.mode = "auto" <=> OPMDC(c) = 7)
      /\ c.mode = "manual" => /\ c.full <=> OPMDC(c) \in {1, 3}
                              /\ c.fast <=> OPMDC(c) \in {2, 3}
  BY <1>5 DEF OPMDC
<1>7. PhyAsAsked(q, s)
  <2>1. q.running = TRUE /\ q.opmd = c.sw /\ q.opmdc = OPMDC(c) /\ q \in PhyStates
    BY <1>3 DEF InMode
  <2>2. wizphy_getphypmode(q) = FALSE
    BY <1>6, <2>1 DEF wizphy_getphypmode
  <2>3. PICK g \in PhyConf : g = wizphy_getphyconf(q)
    <3>1. ASSUME NEW p \in PhyStates PROVE wizphy_getphyconf(p) \in PhyConf
      BY DEF wizphy_getphyconf, PhyStates, PhyConf
    <3> QED
      BY <2>1, <3>1
  <2>4. /\ g.sw = c.sw /\ (g.mode = IF OPMDC(c) \in {7, 4} THEN "auto" ELSE "manual")
        /\ (g.full <=> OPMDC(c) \in {4, 3, 1}) /\ (g.fast <=> OPMDC(c) \in {4, 3, 2})
    BY <2>1, <2>3 DEF wizphy_getphyconf
  <2>5. g.mode = c.mode
    BY <1>5, <1>6, <2>4
  <2>6. c.mode = "manual" => (g.full <=> c.full) /\ (g.fast <=> c.fast)
    BY <1>6, <2>4
  <2>7. c.mode = "manual" => g = c
    BY <2>4, <2>5, <2>6 DEF PhyConf
  <2> QED
    BY <1>4, <2>1, <2>2, <2>3, <2>4, <2>5, <2>7 DEF PhyAsAsked
<1>8. Ready(A, Asked(a.identity, s))
  BY <1>1, <1>2, <1>3, <1>4, <1>7, PhyReady DEF InMode
<1> QED
  BY <1>1, <1>8

(* and wizphy_setphypmode does what is asked of a PHY configured by        *)
(* software and nothing to any other.                                      *)
LEMMA PhyPowerReady ==
  ASSUME NEW down \in BOOLEAN, NEW S, NEW a, Ready(regs, a)
  PROVE  Ready(After(wizphy_setphypmode(down), regs, S),
               Asked(a.identity, IF ~regs["PHYCFGR"].opmd THEN a.settings
                 ELSE [a.settings EXCEPT !.down = down, !.conf.mode = IF down THEN @ ELSE "auto"]))
<1>1. PICK A, p, q, R : /\ A = After(wizphy_setphypmode(down), regs, S) /\ R = regs
                        /\ p = R["PHYCFGR"] /\ q = A["PHYCFGR"]
  OBVIOUS
<1>2. Ready(R, a) /\ p \in PhyStates /\ PhyAsAsked(p, a.settings) /\ a.settings \in Settings
  BY <1>1 DEF Ready, Configured
<1>3. ASSUME NEW r \in Register
      PROVE  IF r = "PHYCFGR" /\ p.opmd THEN InMode(A[r], p.opmd, IF down THEN 6 ELSE 7) ELSE A[r] = R[r]
  BY <1>1, <1>2, SetPhyPowerLeaves
<1>4. "PHYCFGR" \in Register
  BY DEF Register
<1>5. CASE ~p.opmd
  <2>1. q = p /\ \A r \in Register \ {"PHYCFGR"} : A[r] = R[r]
    BY <1>1, <1>3, <1>4, <1>5
  <2>2. Ready(A, Asked(a.identity, a.settings))
    BY <1>1, <1>2, <2>1, PhyReady
  <2> QED
    BY <1>1, <1>5, <2>2
<1>6. CASE p.opmd
  <2>1. PICK s : s = [a.settings EXCEPT !.down = down, !.conf.mode = IF down THEN @ ELSE "auto"]
    OBVIOUS
  <2>2. /\ s \in Settings /\ s.modes = a.settings.modes /\ s.timeout = a.settings.timeout
        /\ s.masks = a.settings.masks /\ s.down = down /\ s.conf.sw = a.settings.conf.sw
        /\ ~down => s.conf.mode = "auto"
    <3>1. PICK o \in Settings : o = a.settings
      BY <1>2
    <3>2. LET n == [o EXCEPT !.down = down, !.conf.mode = IF down THEN @ ELSE "auto"] IN
          /\ n \in Settings /\ n.modes = o.modes /\ n.timeout = o.timeout
          /\ n.masks = o.masks /\ n.down = down /\ n.conf.sw = o.conf.sw
          /\ ~down => n.conf.mode = "auto"
      BY PowerChange
    <3> QED
      BY <2>1, <3>1, <3>2
  <2>3. InMode(q, p.opmd, IF down THEN 6 ELSE 7)
    BY <1>1, <1>3, <1>4, <1>6
  <2>4. PhyAsAsked(q, s)
    <3>1. q.running = TRUE /\ q.opmd = p.opmd /\ q.opmdc = IF down THEN 6 ELSE 7
      BY <2>3 DEF InMode
    <3>2. wizphy_getphypmode(q) = down
      BY <3>1 DEF wizphy_getphypmode
    <3>3. wizphy_getphyconf(q).sw = p.opmd /\ wizphy_getphyconf(p).sw = p.opmd
      BY <3>1 DEF wizphy_getphyconf
    <3>4. wizphy_getphyconf(p).sw = a.settings.conf.sw
      BY <1>2 DEF PhyAsAsked
    <3>5. ~down => wizphy_getphyconf(q).mode = "auto"
      BY <3>1 DEF wizphy_getphyconf
    <3> QED
      BY <2>2, <3>1, <3>2, <3>3, <3>4, <3>5 DEF PhyAsAsked
  <2>5. \A r \in Register \ {"PHYCFGR"} : A[r] = R[r]
    BY <1>3
  <2>6. Ready(A, Asked(a.identity, s))
    BY <1>1, <1>2, <2>2, <2>3, <2>4, <2>5, PhyReady DEF InMode
  <2> QED
    BY <1>1, <1>6, <2>1, <2>6
<1> QED
  BY <1>5, <1>6

(* Only the last step of program p sets s_net_up; the steps that do not.   *)
UpLast(p) == \A i \in 1..Len(p) : p[i].kind = "up" => i = Len(p)
InnerSteps == {x \in PlainSteps : x.kind # "up"}

(* No access and no registration sets s_net_up.                            *)
LEMMA StepsAreInner ==
  /\ \A r \in Chosen : Rd(r) \in InnerSteps
  /\ \A r \in Chosen, v \in Values : Wr(r, v) \in InnerSteps
  /\ \A r \in Chosen, h \in Texts : Re(r, h) \in InnerSteps
  /\ \A k \in {"pin", "cris", "cs", "spi", "burst"} : Step(k, 0) \in InnerSteps
<1>1. \A r \in Chosen : Rd(r) \in InnerSteps
  BY StepsArePlain DEF InnerSteps, Rd, StepOf
<1>2. \A r \in Chosen, v \in Values : Wr(r, v) \in InnerSteps
  BY StepsArePlain DEF InnerSteps, Wr, StepOf
<1>3. \A r \in Chosen, h \in Texts : Re(r, h) \in InnerSteps
  BY StepsArePlain DEF InnerSteps, Re, StepOf
<1>4. \A k \in {"pin", "cris", "cs", "spi", "burst"} : Step(k, 0) \in InnerSteps
  BY StepsArePlain DEF InnerSteps, Step, StepOf
<1> QED
  BY <1>1, <1>2, <1>3, <1>4

(* The bring-up ends with s_net_up.                                        *)
LEMMA BringUpEnds == UpLast(BringUp)
<1>1. SaveIdentity \in Seq(InnerSteps)
  BY StepsAreInner, Names DEF SaveIdentity
<1>2. RestoreIdentity \in Seq(InnerSteps)
  BY StepsAreInner, Names DEF RestoreIdentity
<1>3. <<Re("MR", "rst"), Rd("MR")>> \in Seq(InnerSteps)
  BY StepsAreInner, Names
<1>4. wizchip_sw_reset \in Seq(InnerSteps)
  BY <1>1, <1>2, <1>3, ConcatProperties DEF wizchip_sw_reset
<1>5. 2 \in Values /\ "own" \in Values
  BY DEF Values, Texts
<1>8. <<>> \in Seq(InnerSteps)
  BY EmptySeq
<1>6. SetSizes("TXBUF0", "TXBUF1", <<2, 2>>) \in Seq(InnerSteps)
  <2>1. <<Wr("TXBUF0", 2), Wr("TXBUF1", 2)>> \in Seq(InnerSteps)
    BY <1>5, StepsAreInner, Names
  <2> QED
    BY <1>8, <2>1 DEF SetSizes
<1>7. SetSizes("RXBUF0", "RXBUF1", <<2, 2>>) \in Seq(InnerSteps)
  <2>1. <<Wr("RXBUF0", 2), Wr("RXBUF1", 2)>> \in Seq(InnerSteps)
    BY <1>5, StepsAreInner, Names
  <2> QED
    BY <1>8, <2>1 DEF SetSizes
<1>9. wizchip_init(<<2, 2>>, <<2, 2>>) \in Seq(InnerSteps)
  BY <1>4, <1>6, <1>7, <1>8, ConcatProperties DEF wizchip_init
<1>10. wizchip_setnetinfo("own") \in Seq(InnerSteps)
  BY <1>5, StepsAreInner, Names DEF wizchip_setnetinfo
<1>11. <<Rd("VERSIONR")>> \in Seq(InnerSteps)
  BY StepsAreInner, Names
<1>12. <<Step("pin", 0), Step("cris", 0), Step("cs", 0), Step("spi", 0), Step("burst", 0)>>
         \in Seq(InnerSteps)
  BY StepsAreInner
<1>e. PICK e : e = Step("up", 0)
  OBVIOUS
<1>13. PICK b \in Seq(InnerSteps) : BringUp = b \o <<e>>
  <2> DEFINE b == <<Step("pin", 0), Step("cris", 0), Step("cs", 0), Step("spi", 0), Step("burst", 0)>>
                  \o wizchip_init(<<2, 2>>, <<2, 2>>) \o <<Rd("VERSIONR")>> \o wizchip_setnetinfo("own")
  <2>1. b \in Seq(InnerSteps)
    BY <1>9, <1>10, <1>11, <1>12, ConcatProperties
  <2>2. BringUp = b \o <<Step("up", 0)>>
    BY DEF BringUp
  <2> HIDE DEF b
  <2> QED
    BY <1>e, <2>1, <2>2
<1>14. PICK n \in Nat : n = Len(b)
  BY LenProperties
<1>15. PICK V, last : V = InnerSteps \cup {e} /\ last = <<e>>
  OBVIOUS
<1>16. b \in Seq(V) /\ last \in Seq(V) /\ Len(last) = 1
  BY <1>15, SeqMonotonic
<1>17. Len(b \o last) = n + 1 /\ \A i \in 1..n : (b \o last)[i] = b[i]
  BY <1>14, <1>16, ConcatProperties
<1>18. \A i \in 1..n : b[i].kind # "up"
  BY <1>14, ElementOfSeq DEF InnerSteps
<1> QED
  BY <1>13, <1>15, <1>17, <1>18 DEF UpLast

(* What is left of a program that ends with s_net_up does too.             *)
LEMMA UpLastTail ==
  ASSUME NEW S, NEW p \in Seq(S), p # <<>>, UpLast(p)
  PROVE  /\ UpLast(Tail(p))
         /\ Head(p).kind = "up" => Tail(p) = <<>>
<1>1. /\ Head(p) = p[1] /\ Tail(p) \in Seq(S) /\ Len(Tail(p)) = Len(p) - 1
      /\ \A i \in 1..Len(Tail(p)) : Tail(p)[i] = p[i+1]
  BY HeadTailProperties
<1>2. PICK q \in Seq(S), n \in Nat, m \in Nat : q = Tail(p) /\ n = Len(q) /\ m = Len(p)
  BY <1>1, LenProperties
<1>3. m = n + 1 /\ \A i \in 1..n : q[i] = p[i+1]
  BY <1>1, <1>2
<1>4. UpLast(q)
  <2> SUFFICES ASSUME NEW i \in 1..n, q[i].kind = "up"
               PROVE  i = n
    BY <1>2 DEF UpLast
  <2>1. i + 1 \in 1..m /\ p[i+1].kind = "up"
    BY <1>3
  <2> QED
    BY <1>2, <1>3, <2>1 DEF UpLast
<1>5. Head(p).kind = "up" => q = <<>>
  <2>1. \A s \in Seq(S) : s # <<>> => Len(s) \in Nat \ {0}
    BY EmptySeq
  <2>2. Head(p).kind = "up" => m = 1
    BY <1>1, <1>2, <1>3 DEF UpLast
  <2> QED
    BY <1>2, <1>3, <2>1, <2>2
<1> QED
  BY <1>2, <1>4, <1>5

(* The steps of a socket function.                                         *)
BusySteps == {x \in Steps : ~Plain(x)}

(* They are no steps of the configuration.                                 *)
LEMMA SocketStepsAreBusy ==
  ASSUME NEW f \in Sockets
  PROVE  SocketSteps(f) \subseteq BusySteps
<1>1. SocketSteps(f) \subseteq Steps
  BY SocketStepsAreSteps
<1>2. CR(f) \in {"CR0", "CR1"}
  BY DEF CR
<1>3. \A x \in SocketSteps(f) : ~Plain(x)
  BY <1>2 DEF SocketSteps, Plain, Wr, Step, StepOf
<1> QED
  BY <1>1, <1>3 DEF BusySteps

(* The programs of the socket functions are made of them,                  *)
LEMMA BusyLists ==
  ASSUME NEW f \in Sockets
  PROVE  /\ socket(f) \o <<Step("opened", f)>> \in Seq(BusySteps)
         /\ close(f) \o <<Step("free", f)>> \in Seq(BusySteps)
         /\ <<>> \o <<Step("free", f)>> \in Seq(BusySteps)
         /\ <<Step("test", f)>> \in Seq(BusySteps)
         /\ Transmit(f) \in Seq(BusySteps)
         /\ Clear(f) \o Transmit(f) \in Seq(BusySteps)
         /\ <<Step("take", f)>> \in Seq(BusySteps)
<1>1. PICK B : B = BusySteps
  OBVIOUS
<1>2. /\ Wr(CR(f), "CLOSE") \in B /\ Wr(CR(f), "OPEN") \in B /\ Wr(CR(f), "SEND") \in B
      /\ Step("load", f) \in B /\ Step("store_clear", f) \in B /\ Step("store_set", f) \in B
      /\ Step("wait", f) \in B /\ Step("test", f) \in B /\ Step("opened", f) \in B
      /\ Step("free", f) \in B
  BY <1>1, SocketStepsAreBusy DEF SocketSteps
<1>3. Clear(f) \in Seq(B) /\ Set(f) \in Seq(B)
  BY <1>2 DEF Clear, Set
<1>4. /\ <<Wr(CR(f), "CLOSE")>> \in Seq(B) /\ <<Wr(CR(f), "OPEN")>> \in Seq(B)
      /\ <<Step("wait", f), Wr(CR(f), "SEND")>> \in Seq(B)
      /\ <<Step("opened", f)>> \in Seq(B) /\ <<Step("free", f)>> \in Seq(B) /\ <<Step("test", f)>> \in Seq(B)
  BY <1>2
<1>5. <<>> \in Seq(B)
  BY EmptySeq
<1>6. close(f) \in Seq(B)
  BY <1>3, <1>4, ConcatProperties DEF close
<1>7. socket(f) \in Seq(B)
  BY <1>3, <1>4, <1>6, ConcatProperties DEF socket
<1>8. Transmit(f) \in Seq(B)
  BY <1>3, <1>4, ConcatProperties DEF Transmit
<1>9. <<Step("take", f)>> \in Seq(B)
  <2>1. f \in Values /\ "given" \in Texts
    BY DEF Values, Texts, Sockets
  <2>2. Step("take", f) \in B
    BY <1>1, <2>1 DEF BusySteps, Steps, Step, StepOf, Kinds, Plain
  <2> QED
    BY <2>2
<1> QED
  BY <1>1, <1>3, <1>4, <1>5, <1>6, <1>7, <1>8, <1>9, ConcatProperties

(* the scan of g_toe too.                                                  *)
LEMMA ScanIsBusy ==
  ASSUME NEW v \in Int
  PROVE  <<Step("scan", v)>> \in Seq(BusySteps)
<1>1. v \in Values /\ "given" \in Texts
  BY DEF Values, Texts
<1>2. Step("scan", v) \in BusySteps
  BY <1>1 DEF BusySteps, Steps, Step, StepOf, Kinds, Plain
<1> QED
  BY <1>2

(* In a legal list of busy steps a register access is a command.           *)
LEMMA BusyHead ==
  ASSUME NEW p, NEW f, TaskOK(p, f), p \in Seq(BusySteps), p # <<>>
  PROVE  /\ Tail(p) \in Seq(BusySteps)
         /\ Head(p).kind \notin {"pin", "cris", "cs", "spi", "burst", "up"}
         /\ Head(p).kind \in {"read", "write"} => f \in Sockets /\ IsCommand(Head(p), f)
<1>1. Tail(p) \in Seq(BusySteps) /\ ~Plain(Head(p))
  BY HeadTailProperties DEF BusySteps
<1> QED
  BY <1>1, HeadOK DEF IsCommand, OnWord
=============================================================================
