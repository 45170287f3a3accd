------------------------------ MODULE ToeTasksProofs ------------------------------
(* Several tasks on one chip, for every number of tasks, calls and         *)
(* behaviours: the bus belongs to one of them at a time, entries of g_toe  *)
(* are given away once unless scans overlap, sock_is_sending is right      *)
(* between calls unless updates of it overlap, and the registers are what  *)
(* was asked of them last.                                                 *)
EXTENDS ToeTaskPrograms

(* The callbacks that wizchip_spi_esp_init registers.                      *)
Callbacks == {"cris", "cs", "spi", "burst"}

(* The types.                                                              *)
Shapes ==
  /\ program = [t \in Tasks |-> program[t]]
  /\ access \in [Tasks -> {"out", "in", "addressed", "done"}]
  /\ callbacks \subseteq Callbacks
  /\ used \subseteq Sockets /\ opened \subseteq Sockets
  /\ fd \in [Tasks -> Sockets \cup {None}]
  /\ sending \subseteq Sockets /\ owed \subseteq Sockets
  /\ loaded \in [Tasks -> SUBSET Sockets]
  /\ ops \in 0..MaxOps /\ calls \in 0..MaxCalls

(* Every task's program is legal for the socket it holds.                  *)
Programs == \A t \in Tasks : TaskOK(program[t], fd[t])

(* The SPI frame of task t's access.                                       *)
FrameOf(t) == [reg |-> Current(t).reg, write |-> Current(t).kind = "write", from |-> {t}]

(* One task at most is in the critical section, it is the owner, and the   *)
(* frame on the bus is its own.                                            *)
Bus ==
  /\ \A t \in Tasks : access[t] # "out" => Accesses(t)
  /\ owner = {t \in Tasks : access[t] # "out"}
  /\ \A t, u \in Tasks : access[t] # "out" /\ access[u] # "out" => t = u
  /\ \A t \in Tasks : access[t] = "addressed" => frame = FrameOf(t)
  /\ frame # NoFrame => \E t \in Tasks : access[t] = "addressed"

(* Before the critical section exists the network is down and the only     *)
(* steps left are the first two of the bring-up: nobody reaches the chip.  *)
Unready ==
  "cris" \notin callbacks =>
    netUp = FALSE /\ \A t \in Tasks : Idle(t) \/ program[t] \in {BringUp, Tail(BringUp)}

(* While no two tasks have been in wiztoe_socket at once: the entry about  *)
(* to be taken is free, and descriptors are in use and distinct.           *)
Table ==
  /\ \A t, u \in Tasks : At(t, {"scan", "take"}) /\ At(u, {"scan", "take"}) => t = u
  /\ \A t \in Tasks : At(t, {"take"}) => Current(t).val \notin used
  /\ \A t \in Tasks : fd[t] # None => fd[t] \in used
  /\ \A t, u \in Tasks : fd[t] # None /\ fd[t] = fd[u] => t = u
  /\ opened \subseteq used

(* What the rest of program p owes to the bit of socket f. Between an      *)
(* accepted command and the store the bit is stale, and the store that is  *)
(* to come is the one that makes it right; everywhere else it is right.    *)
Due(p, a, f, snd, owd) ==
  IF p = <<>> THEN f \in snd <=> f \in owd
  ELSE IF Head(p).kind = "load" THEN f \in owd <=> p[2].kind = "store_set"
  ELSE IF Head(p).kind \in Updates THEN f \in owd <=> Head(p).kind = "store_set"
  ELSE IF IsCommand(Head(p), f) THEN a = "done" => (f \in owd <=> Head(p).val = "SEND")
  ELSE f \in snd <=> f \in owd

(* While no two updates have overlapped: one task at most is between its   *)
(* load and its store, what it has loaded is still the word, and each      *)
(* socket's bit is what its task's program makes of it.                    *)
Flags ==
  /\ \A t, u \in Tasks : At(t, Updates) /\ At(u, Updates) => t = u
  /\ \A t \in Tasks : At(t, Updates) => loaded[t] = sending
  /\ \A t \in Tasks : fd[t] # None =>
        Due(program[t], access[t], fd[t], sending, owed)
  /\ \A s \in Sockets : (\A t \in Tasks : fd[t] # s) => (s \in sending <=> s \in owed)

(* The inductive invariant.                                                *)
ToeInv ==
  /\ Shapes /\ Programs /\ Bus /\ Unready
  /\ ~clashed => Table
  /\ ~raced /\ ~clashed => Flags

(* It holds at the start.                                                  *)
LEMMA InitInv ==
  ASSUME Init
  PROVE  ToeInv
<1>1. /\ program = [t \in Tasks |-> <<>>] /\ access = [t \in Tasks |-> "out"]
      /\ callbacks = {} /\ owner = {} /\ frame = NoFrame /\ netUp = FALSE /\ calls = 0
      /\ ops = 0 /\ used = {} /\ opened = {} /\ fd = [t \in Tasks |-> None]
      /\ sending = {} /\ loaded = [t \in Tasks |-> {}] /\ owed = {}
  BY DEF Init, SpiInit, ConfInit
<1>2. Shapes
  BY <1>1, TasksAssumption, ConfAssumption DEF Shapes
<1>3. Programs
  BY <1>1, NothingOK DEF Programs
<1>4. Bus
  BY <1>1 DEF Bus
<1>5. Unready
  BY <1>1 DEF Unready, Idle
<1>6. Table
  BY <1>1 DEF Table, At, Idle
<1>7. Flags
  BY <1>1 DEF Flags, At, Idle, Due
<1> QED
  BY <1>2, <1>3, <1>4, <1>5, <1>6, <1>7 DEF ToeInv

(* One task's program changes.                                             *)
LEMMA OneProgram ==
  ASSUME Shapes, NEW t \in Tasks, NEW q, program' = [program EXCEPT ![t] = q]
  PROVE  /\ program' = [u \in Tasks |-> program'[u]]
         /\ program'[t] = q
         /\ \A u \in Tasks \ {t} : program'[u] = program[u]
BY DEF Shapes

(* A task goes on to its next step.                                        *)
LEMMA DoneOne ==
  ASSUME Shapes, NEW t \in Tasks, Done(t)
  PROVE  /\ program' = [u \in Tasks |-> program'[u]]
         /\ program'[t] = Tail(program[t])
         /\ \A u \in Tasks \ {t} : program'[u] = program[u]
BY DEF Shapes, Done

(* Every step keeps the types.                                             *)
LEMMA ShapesKept ==
  ASSUME Shapes, Programs, Next
  PROVE  Shapes'
<1>1. CASE StartUp
  BY <1>1, TasksAssumption DEF StartUp, Shapes, tableVars, flagVars, confVars
<1>2. ASSUME NEW t \in Tasks, Load(t) PROVE Shapes'
  BY <1>2, DoneOne DEF Load, Shapes, tableVars, confVars
<1>3. ASSUME NEW t \in Tasks, Store(t) PROVE Shapes'
  <2>1. Current(t).val \in Sockets
    <3>1. /\ TaskOK(program[t], fd[t]) /\ program[t] # <<>> /\ Current(t).kind \in Updates
      BY <1>3 DEF Store, Programs, At, Idle
    <3> QED
      BY <3>1, HeadOK DEF Current, Plain, IsCommand, OnWord, Updates
  <2>2. sending' \subseteq Sockets
    BY <1>3, <2>1 DEF Store, Shapes
  <2> QED
    BY <1>3, <2>2, DoneOne DEF Store, Shapes, tableVars, confVars
<1>4. ASSUME NEW t \in Tasks, TestSending(t) PROVE Shapes'
  <2>1. \E q : program' = [program EXCEPT ![t] = q]
    BY <1>4 DEF TestSending
  <2>2. owed' \subseteq Sockets
    BY <1>4 DEF TestSending, Shapes
  <2> QED
    BY <1>4, <2>1, <2>2, OneProgram DEF TestSending, Shapes, tableVars, confVars
<1>5. ASSUME NEW t \in Tasks, WaitSendOk(t) PROVE Shapes'
  <2>1. \E q : program' = [program EXCEPT ![t] = q]
    BY <1>5 DEF WaitSendOk, Done, Shapes
  <2>2. owed' \subseteq Sockets
    BY <1>5 DEF WaitSendOk, Shapes
  <2> QED
    BY <1>5, <2>1, <2>2, OneProgram DEF WaitSendOk, Shapes, tableVars, confVars
<1>6. ASSUME NEW t \in Tasks, ReachChip(t) PROVE Shapes'
  <2>1. owed' \subseteq Sockets
    BY <1>6 DEF ReachChip, Shapes
  <2>2. access' \in [Tasks -> {"out", "in", "addressed", "done"}]
    BY <1>6 DEF ReachChip, Access, Enter, Select, Transfer, Leave, Shapes
  <2>3. program' = [u \in Tasks |-> program'[u]]
    BY <1>6, DoneOne DEF ReachChip, Access, Enter, Select, Transfer, Leave, Shapes
  <2>4. callbacks' = callbacks
    BY <1>6 DEF ReachChip, Access, Enter, Select, Transfer, Leave
  <2> QED
    BY <1>6, <2>1, <2>2, <2>3, <2>4 DEF ReachChip, Shapes, tableVars, confVars
<1>7. ASSUME NEW t \in Tasks, Scan(t) PROVE Shapes'
  <2>1. \E q : program' = [program EXCEPT ![t] = q]
    BY <1>7 DEF Scan
  <2> QED
    BY <1>7, <2>1, OneProgram DEF Scan, Shapes, tableVars, confVars, flagVars
<1>8. ASSUME NEW t \in Tasks, Take(t) \/ Opened(t) \/ Free(t) PROVE Shapes'
  <2>1. Current(t).val \in Sockets
    <3>1. /\ TaskOK(program[t], fd[t]) /\ program[t] # <<>>
          /\ Current(t).kind \in {"take", "opened", "free"}
      BY <1>8 DEF Take, Opened, Free, Programs, At, Idle
    <3>2. Head(program[t]).val \in Sockets
      BY <3>1, LastOK DEF Current
    <3> QED
      BY <3>2 DEF Current
  <2>2. Done(t)
    BY <1>8 DEF Take, Opened, Free
  <2>3. fd' \in [Tasks -> Sockets \cup {None}]
    BY <1>8, <2>1 DEF Take, Opened, Free, Shapes
  <2> QED
    BY <1>8, <2>1, <2>2, <2>3, DoneOne DEF Take, Opened, Free, Shapes, confVars, flagVars
<1>9. ASSUME NEW t \in Tasks, NEW q, ToeCall(t, q) PROVE Shapes'
  BY <1>9, OneProgram, TasksAssumption DEF ToeCall, Shapes, confVars, flagVars
<1>10. ASSUME NEW t \in Tasks, SetUp(t) /\ UNCHANGED confVars, UNCHANGED <<tableVars, flagVars, clashed, workload>>
       PROVE  Shapes'
  <2>1. Current(t).kind \in {"pin", "cris", "cs", "spi", "burst"}
    BY <1>10 DEF SetUp, At
  <2>2. callbacks' \subseteq Callbacks
    BY <1>10, <2>1 DEF SetUp, Shapes, Registers, Callbacks
  <2> QED
    BY <1>10, <2>2, DoneOne DEF SetUp, Shapes, confVars, tableVars, flagVars
<1>11. ASSUME NEW t \in Tasks, NetUp(t), UNCHANGED <<tableVars, flagVars, clashed, workload>>
       PROVE  Shapes'
  BY <1>11, DoneOne DEF NetUp, Shapes, tableVars, flagVars
<1>12. ASSUME NEW t \in Tasks, NEW q, NEW id, NEW s, Call(t, q, id, s),
              UNCHANGED <<tableVars, flagVars, clashed, workload>>
       PROVE  Shapes'
  <2>1. MaxCalls \in Nat
    BY ConfAssumption
  <2> QED
    BY <1>12, <2>1, OneProgram DEF Call, Shapes, tableVars, flagVars
<1>13. ASSUME NEW t \in Tasks, Settle(t) PROVE Shapes'
  BY <1>13, <1>12 DEF Settle, Configure, CallReset, CallInit, CallSetNetInfo, CallSetNetMode,
                      CallSetTimeout, CallSetInterruptMask, CallSetPhyConf, CallResetPhy,
                      CallSetPhyPower
<1>14. ASSUME NEW t \in Tasks, Prepare(t) PROVE Shapes'
  BY <1>14, <1>10, <1>11 DEF Prepare
<1>15. ASSUME NEW t \in Tasks, ToeStep(t) PROVE Shapes'
  <2>1. ASSUME CallSocket(t) \/ CallOpen(t) \/ CallSend(t) \/ CallClose(t) \/ CallRelease(t)
        PROVE  Shapes'
    BY <2>1, <1>9 DEF CallSocket, CallOpen, CallSend, CallClose, CallRelease
  <2> QED
    BY <1>15, <2>1, <1>2, <1>3, <1>4, <1>5, <1>6, <1>7, <1>8 DEF ToeStep
<1> QED
  BY <1>1, <1>13, <1>14, <1>15 DEF Next

(* A task that goes on keeps every program legal,                          *)
LEMMA TailKept ==
  ASSUME Shapes, Programs, NEW t \in Tasks, program[t] # <<>>, Done(t), fd' = fd
  PROVE  Programs'
<1>1. TaskOK(program'[t], fd'[t])
  BY DoneOne, TailOK DEF Programs
<1>2. \A u \in Tasks \ {t} : TaskOK(program'[u], fd'[u])
  BY DoneOne DEF Programs
<1> QED
  BY <1>1, <1>2 DEF Programs

(* and so does one that begins a legal program.                            *)
LEMMA NewKept ==
  ASSUME Shapes, Programs, NEW t \in Tasks, NEW q, program' = [program EXCEPT ![t] = q],
         fd' = fd, TaskOK(q, fd[t])
  PROVE  Programs'
BY OneProgram DEF Programs

(* The sizes asked of wizchip_init are bytes.                              *)
LEMMA AskedAreGiven ==
  ASSUME ConfAssumption
  PROVE  {NULL} \cup (BufSizes \X BufSizes) \subseteq GivenSizes
BY DEF ConfAssumption, GivenSizes

(* Every configuration call is a list of plain steps.                      *)
LEMMA ConfigureIsPlain ==
  ASSUME ConfAssumption, NEW t, Configure(t)
  PROVE  \E q \in Seq(PlainSteps) : \E id, s : Call(t, q, id, s)
<1>1. CASE CallReset(t)
  BY <1>1, ResetIsPlain DEF CallReset
<1>2. CASE CallInit(t)
  <2>1. PICK tx \in GivenSizes, rx \in GivenSizes :
          Call(t, wizchip_init(tx, rx), asked.identity, ChipDefaults)
    BY <1>2, AskedAreGiven DEF CallInit
  <2> QED
    BY <2>1, InitIsPlain
<1>3. CASE CallSetNetInfo(t)
  BY <1>3, SettingsArePlain DEF CallSetNetInfo
<1>4. CASE CallSetNetMode(t)
  BY <1>4, SettingsArePlain DEF CallSetNetMode
<1>5. CASE CallSetTimeout(t)
  BY <1>5, SettingsArePlain DEF CallSetTimeout
<1>6. CASE CallSetInterruptMask(t)
  BY <1>6, SettingsArePlain DEF CallSetInterruptMask
<1>7. CASE CallSetPhyConf(t)
  BY <1>7, PhyIsPlain DEF CallSetPhyConf
<1>8. CASE CallResetPhy(t)
  BY <1>8, PhyIsPlain DEF CallResetPhy
<1>9. CASE CallSetPhyPower(t)
  BY <1>9, PhyIsPlain DEF CallSetPhyPower
<1> QED
  BY <1>1, <1>2, <1>3, <1>4, <1>5, <1>6, <1>7, <1>8, <1>9 DEF Configure

(* Every step keeps the programs legal.                                    *)
LEMMA ProgramsKept ==
  ASSUME Shapes, Programs, Bus, Next
  PROVE  Programs'
<1>1. CASE StartUp
  <2>1. BringUp \in Seq(PlainSteps)
    BY BringUpIsPlain
  <2>2. TaskOK(BringUp, fd[Main])
    BY <2>1, PlainOK
  <2> QED
    BY <1>1, <2>2, NewKept, TasksAssumption DEF StartUp, tableVars
<1>2. ASSUME NEW t \in Tasks, Load(t) \/ Store(t) \/ Opened(t) PROVE Programs'
  BY <1>2, TailKept DEF Load, Store, Opened, At, Idle, tableVars
<1>4. ASSUME NEW t \in Tasks, TestSending(t) PROVE Programs'
  <2>1. /\ TaskOK(program[t], fd[t]) /\ program[t] # <<>> /\ Head(program[t]).kind = "test"
    BY <1>4 DEF TestSending, Programs, At, Idle, Current
  <2>2. fd[t] \in Sockets /\ Head(program[t]).val = fd[t]
    BY <2>1, HeadOK DEF Plain, IsCommand, OnWord
  <2>3. \E q \in {Transmit(fd[t]), Clear(fd[t]) \o Transmit(fd[t]), <<>>} :
          program' = [program EXCEPT ![t] = q]
    BY <1>4, <2>2 DEF TestSending, Current
  <2>4. \A q \in {Transmit(fd[t]), Clear(fd[t]) \o Transmit(fd[t]), <<>>} : TaskOK(q, fd[t])
    BY <2>2, SocketOK, NothingOK
  <2>5. fd' = fd
    BY <1>4 DEF TestSending, tableVars
  <2> QED
    BY <2>3, <2>4, <2>5, NewKept
<1>5. ASSUME NEW t \in Tasks, WaitSendOk(t) PROVE Programs'
  <2>1. fd' = fd /\ program[t] # <<>> /\ TaskOK(<<>>, fd[t])
    BY <1>5, NothingOK DEF WaitSendOk, At, Idle, tableVars
  <2>2. Done(t) \/ program' = [program EXCEPT ![t] = <<>>]
    BY <1>5 DEF WaitSendOk
  <2> QED
    BY <2>1, <2>2, NewKept, TailKept
<1>6. ASSUME NEW t \in Tasks, ReachChip(t) PROVE Programs'
  <2>1. fd' = fd
    BY <1>6 DEF ReachChip, tableVars
  <2>2. program' = program \/ Leave(t)
    BY <1>6 DEF ReachChip, Access, Enter, Select, Transfer
  <2>3. CASE program' = program
    BY <2>1, <2>3 DEF Programs
  <2>4. CASE Leave(t)
    <3>1. program[t] # <<>>
      BY <2>4 DEF Leave, Bus, Accesses, At, Idle
    <3> QED
      BY <2>1, <2>4, <3>1, TailKept DEF Leave
  <2> QED
    BY <2>2, <2>3, <2>4
<1>7. ASSUME NEW t \in Tasks, Scan(t) PROVE Programs'
  <2>1. /\ TaskOK(program[t], fd[t]) /\ program[t] # <<>> /\ Head(program[t]).kind = "scan"
    BY <1>7 DEF Scan, Programs, At, Idle, Current
  <2>2. fd[t] = None /\ Head(program[t]).val \in 0..2
    BY <2>1, LastOK
  <2>3. PICK v \in 0..2 : v = Current(t).val
    BY <2>2 DEF Current
  <2>4. \/ program' = [program EXCEPT ![t] = <<>>]
        \/ v \in Sockets /\ program' = [program EXCEPT ![t] = <<Step("take", v)>>]
        \/ v \in Sockets /\ program' = [program EXCEPT ![t] = <<Step("scan", v + 1)>>]
    BY <1>7, <2>3 DEF Scan
  <2>5. /\ TaskOK(<<>>, fd[t])
        /\ v \in Sockets => TaskOK(<<Step("take", v)>>, fd[t])
        /\ v \in Sockets => TaskOK(<<Step("scan", v + 1)>>, fd[t])
    <3>1. v \in Sockets => v + 1 \in 0..2
      BY DEF Sockets
    <3> QED
      BY <3>1, <2>2, OneOK, NothingOK
  <2>6. fd' = fd
    BY <1>7 DEF Scan, tableVars
  <2> QED
    BY <2>4, <2>5, <2>6, NewKept
<1>8. ASSUME NEW t \in Tasks, Take(t) \/ Free(t) PROVE Programs'
  <2>1. /\ TaskOK(program[t], fd[t]) /\ program[t] # <<>> /\ Head(program[t]).kind \in {"take", "free"}
    BY <1>8 DEF Take, Free, Programs, At, Idle, Current
  <2>2. Done(t) /\ \A u \in Tasks \ {t} : fd'[u] = fd[u]
    BY <1>8 DEF Take, Free, Shapes
  <2>3. program'[t] = <<>> /\ \A u \in Tasks \ {t} : program'[u] = program[u]
    BY <2>1, <2>2, LastOK, DoneOne
  <2> QED
    BY <2>2, <2>3, NothingOK DEF Programs
<1>9. ASSUME NEW t \in Tasks, NEW q, ToeCall(t, q), TaskOK(q, fd[t]) PROVE Programs'
  BY <1>9, NewKept DEF ToeCall
<1>10. ASSUME NEW t \in Tasks, CallSocket(t) PROVE Programs'
  <2>1. TaskOK(<<Step("scan", 0)>>, fd[t])
    BY <1>10, OneOK DEF CallSocket
  <2> QED
    BY <1>10, <2>1, <1>9 DEF CallSocket
<1>11. ASSUME NEW t \in Tasks, CallOpen(t) \/ CallSend(t) \/ CallClose(t) \/ CallRelease(t)
       PROVE Programs'
  <2>1. fd[t] \in Sockets
    BY <1>11 DEF CallOpen, CallSend, CallClose, CallRelease, Shapes
  <2>2. PICK f \in Sockets : f = fd[t]
    BY <2>1
  <2>3. /\ TaskOK(socket(f) \o <<Step("opened", f)>>, f) /\ TaskOK(<<Step("test", f)>>, f)
        /\ TaskOK(close(f) \o <<Step("free", f)>>, f) /\ TaskOK(<<Step("free", f)>>, f)
    BY SocketOK, OneOK
  <2>4. <<>> \o <<Step("free", f)>> = <<Step("free", f)>>
    <3>1. <<Step("free", f)>> \in Seq({Step("free", f)})
      OBVIOUS
    <3> QED
      BY <3>1, ConcatEmptySeq
  <2>5. \/ ToeCall(t, socket(f) \o <<Step("opened", f)>>)
        \/ ToeCall(t, <<Step("test", f)>>)
        \/ ToeCall(t, close(f) \o <<Step("free", f)>>)
        \/ ToeCall(t, <<>> \o <<Step("free", f)>>)
    BY <1>11, <2>2 DEF CallOpen, CallSend, CallClose, CallRelease
  <2> QED
    BY <2>2, <2>3, <2>4, <2>5, <1>9
<1>13. ASSUME NEW t \in Tasks, Settle(t) PROVE Programs'
  <2>1. PICK q \in Seq(PlainSteps) : \E id, s : Call(t, q, id, s)
    BY <1>13, ConfigureIsPlain, ConfAssumption DEF Settle
  <2>2. TaskOK(q, fd[t])
    BY PlainOK
  <2> QED
    BY <1>13, <2>1, <2>2, NewKept DEF Settle, Call, tableVars
<1>14. ASSUME NEW t \in Tasks, Prepare(t) PROVE Programs'
  BY <1>14, TailKept DEF Prepare, SetUp, NetUp, At, Idle, tableVars
<1>15. ASSUME NEW t \in Tasks, ToeStep(t) PROVE Programs'
  BY <1>15, <1>2, <1>4, <1>5, <1>6, <1>7, <1>8, <1>10, <1>11 DEF ToeStep
<1> QED
  BY <1>1, <1>13, <1>14, <1>15 DEF Next

(* Before the callbacks of the critical section are registered only the    *)
(* two first steps of the bring-up can be next.                            *)
LEMMA UnreadyNext ==
  ASSUME Unready, "cris" \notin callbacks, NEW t \in Tasks, NEW K, At(t, K)
  PROVE  \/ "pin" \in K /\ program[t] = BringUp /\ Current(t).kind = "pin"
         \/ "cris" \in K /\ program[t] = Tail(BringUp) /\ Current(t).kind = "cris"
BY BringUpIsPlain DEF Unready, At, Idle, Current

(* An access has begun: the critical section is there.                     *)
LEMMA AccessReady ==
  ASSUME Unready, NEW t \in Tasks, Accesses(t)
  PROVE  "cris" \in callbacks
BY UnreadyNext DEF Accesses

(* Until the callbacks are there every step is one of the bring-up.        *)
LEMMA UnreadyKept ==
  ASSUME Shapes, Bus, Unready, Next, "cris" \notin callbacks'
  PROVE  netUp' = FALSE /\ \A t \in Tasks : Idle(t)' \/ program'[t] \in {BringUp, Tail(BringUp)}
<1>0. callbacks \subseteq callbacks'
  <2>1. ASSUME NEW t \in Tasks, ToeStep(t) PROVE callbacks' = callbacks
    BY <2>1 DEF ToeStep, Load, Store, TestSending, WaitSendOk, ReachChip, Scan, Take, Opened, Free,
                CallSocket, CallOpen, CallSend, CallClose, CallRelease, ToeCall, Access, Enter,
                Select, Transfer, Leave
  <2>2. ASSUME NEW t \in Tasks, Prepare(t) PROVE callbacks \subseteq callbacks'
    BY <2>2 DEF Prepare, SetUp, NetUp
  <2>3. ASSUME NEW t \in Tasks, Settle(t) PROVE callbacks' = callbacks
    BY <2>3 DEF Settle, Configure, Call, CallReset, CallInit, CallSetNetInfo, CallSetNetMode,
                CallSetTimeout, CallSetInterruptMask, CallSetPhyConf, CallResetPhy, CallSetPhyPower
  <2> QED
    BY <2>1, <2>2, <2>3 DEF Next, StartUp
<1>1. "cris" \notin callbacks
  BY <1>0
<1>2. netUp = FALSE /\ \A t \in Tasks : Idle(t) \/ program[t] \in {BringUp, Tail(BringUp)}
  BY <1>1 DEF Unready
<1>3. CASE StartUp
  BY <1>2, <1>3, OneProgram, TasksAssumption DEF StartUp, confVars, Idle
<1>4. ASSUME NEW t \in Tasks PROVE ~ToeStep(t)
  <2>1. ~At(t, {"load"}) /\ ~At(t, Updates) /\ ~At(t, {"test"}) /\ ~At(t, {"wait"}) /\ ~At(t, {"scan"})
        /\ ~At(t, {"take"}) /\ ~At(t, {"opened"}) /\ ~At(t, {"free"})
    BY <1>1, UnreadyNext DEF Updates
  <2>2. access[t] = "out" /\ ~Accesses(t)
    BY <1>1, AccessReady DEF Bus
  <2>3. ~Access(t)
    BY <2>2 DEF Access, Enter, Select, Transfer, Leave
  <2> QED
    BY <1>2, <2>1, <2>3 DEF ToeStep, Load, Store, TestSending, WaitSendOk, ReachChip, Scan, Take,
       Opened, Free, CallSocket, CallOpen, CallSend, CallClose, CallRelease, ToeCall
<1>5. ASSUME NEW t \in Tasks PROVE ~Settle(t)
  BY <1>2 DEF Settle, Configure, Call, CallReset, CallInit, CallSetNetInfo, CallSetNetMode,
              CallSetTimeout, CallSetInterruptMask, CallSetPhyConf, CallResetPhy, CallSetPhyPower
<1>6. ASSUME NEW t \in Tasks, Prepare(t)
      PROVE  netUp' = FALSE /\ \A u \in Tasks : Idle(u)' \/ program'[u] \in {BringUp, Tail(BringUp)}
  <2>1. ~NetUp(t)
    BY <1>1, UnreadyNext DEF NetUp
  <2>2. SetUp(t) /\ UNCHANGED confVars
    BY <1>6, <2>1 DEF Prepare
  <2>3. program[t] = BringUp
    <3>1. \/ program[t] = BringUp
          \/ program[t] = Tail(BringUp) /\ Current(t).kind = "cris"
      BY <1>1, <2>2, UnreadyNext DEF SetUp
    <3>2. Current(t).kind # "cris"
      BY <2>2 DEF SetUp, Registers
    <3> QED
      BY <3>1, <3>2
  <2>4. program'[t] = Tail(BringUp) /\ \A u \in Tasks \ {t} : program'[u] = program[u]
    BY <2>2, <2>3, DoneOne DEF SetUp
  <2> QED
    BY <1>2, <2>2, <2>4 DEF confVars, Idle
<1> QED
  BY <1>3, <1>4, <1>5, <1>6 DEF Next

(* A step of a task that is outside every access leaves the bus alone.     *)
LEMMA BusOther ==
  ASSUME Shapes, Bus, NEW t \in Tasks, access[t] = "out",
         \A u \in Tasks \ {t} : program'[u] = program[u],
         UNCHANGED <<access, owner, frame>>
  PROVE  Bus'
<1>1. \A u \in Tasks : access[u] # "out" => u # t /\ program'[u] = program[u]
  OBVIOUS
<1>2. \A u \in Tasks : access'[u] # "out" => Accesses(u)'
  BY <1>1 DEF Bus, Accesses, At, Idle, Current
<1>3. \A u \in Tasks : access'[u] = "addressed" => frame' = FrameOf(u)'
  BY <1>1 DEF Bus, FrameOf, Current
<1> QED
  BY <1>2, <1>3 DEF Bus

(* The four steps of an access keep the bus to one task.                   *)
LEMMA BusAccess ==
  ASSUME Shapes, Bus, Unready, NEW t \in Tasks, Access(t)
  PROVE  Bus'
<1>1. CASE Enter(t)
  <2>1. owner = {}
    BY <1>1, AccessReady DEF Enter
  <2>2. \A u \in Tasks : access[u] = "out"
    BY <2>1 DEF Bus
  <2>3. access' = [access EXCEPT ![t] = "in"] /\ program' = program /\ frame' = frame /\ owner' = {t}
    BY <1>1, <2>1 DEF Enter
  <2>4. access'[t] = "in" /\ \A u \in Tasks \ {t} : access'[u] = "out"
    BY <2>2, <2>3 DEF Shapes
  <2>5. frame = NoFrame
    BY <2>2 DEF Bus
  <2>6. Accesses(t)'
    BY <1>1, <2>3 DEF Enter, Accesses, At, Idle, Current
  <2> QED
    BY <2>3, <2>4, <2>5, <2>6 DEF Bus
<1>2. CASE Select(t)
  <2>1. \A u \in Tasks \ {t} : access[u] = "out"
    BY <1>2 DEF Select, Bus
  <2>2. frame = NoFrame
    BY <1>2, <2>1 DEF Select, Bus
  <2>3. /\ access' = [access EXCEPT ![t] = "addressed"] /\ program' = program
        /\ frame' = FrameOf(t) /\ owner' = owner
    BY <1>2, <2>2 DEF Select, FrameOf
  <2>4. access'[t] = "addressed" /\ \A u \in Tasks \ {t} : access'[u] = "out"
    BY <2>1, <2>3 DEF Shapes
  <2>5. Accesses(t)' /\ FrameOf(t)' = FrameOf(t)
    BY <1>2, <2>3 DEF Select, Bus, Accesses, At, Idle, Current, FrameOf
  <2>6. owner' = {u \in Tasks : access'[u] # "out"}
    BY <1>2, <2>3, <2>4 DEF Bus, Select
  <2> QED
    BY <2>3, <2>4, <2>5, <2>6 DEF Bus
<1>3. CASE Transfer(t)
  <2>1. \A u \in Tasks \ {t} : access[u] = "out"
    BY <1>3 DEF Transfer, Bus
  <2>3. /\ access' = [access EXCEPT ![t] = "done"] /\ program' = program
        /\ frame' = NoFrame /\ owner' = owner
    BY <1>3 DEF Transfer
  <2>4. access'[t] = "done" /\ \A u \in Tasks \ {t} : access'[u] = "out"
    BY <2>1, <2>3 DEF Shapes
  <2>5. Accesses(t)'
    BY <1>3, <2>3 DEF Transfer, Bus, Accesses, At, Idle, Current
  <2>6. owner' = {u \in Tasks : access'[u] # "out"}
    BY <1>3, <2>3, <2>4 DEF Bus, Transfer
  <2> QED
    BY <2>3, <2>4, <2>5, <2>6 DEF Bus
<1>4. CASE Leave(t)
  <2>1. \A u \in Tasks \ {t} : access[u] = "out"
    BY <1>4 DEF Leave, Bus
  <2>2. frame = NoFrame
    BY <1>4, <2>1 DEF Leave, Bus
  <2>3. access' = [access EXCEPT ![t] = "out"] /\ frame' = frame /\ owner' = owner \ {t}
    BY <1>4 DEF Leave
  <2>4. \A u \in Tasks : access'[u] = "out"
    BY <2>1, <2>3 DEF Shapes
  <2>5. owner' = {}
    BY <2>1, <2>3 DEF Bus
  <2> QED
    BY <2>2, <2>3, <2>4, <2>5 DEF Bus
<1> QED
  BY <1>1, <1>2, <1>3, <1>4 DEF Access

(* Every step keeps the bus to one task.                                   *)
LEMMA BusKept ==
  ASSUME Shapes, Bus, Unready, Next
  PROVE  Bus'
<1>0. ASSUME NEW t \in Tasks, NEW K, At(t, K), K \cap {"read", "write"} = {} PROVE access[t] = "out"
  BY <1>0 DEF Bus, Accesses, At
<1>1. CASE StartUp
  <2>1. \A u \in Tasks \ {Main} : program'[u] = program[u]
    BY <1>1, OneProgram, TasksAssumption DEF StartUp
  <2>2. access[Main] = "out"
    BY <1>1, TasksAssumption DEF StartUp, Bus, Accesses, At
  <2> QED
    BY <1>1, <2>1, <2>2, BusOther, TasksAssumption DEF StartUp
<1>2. ASSUME NEW t \in Tasks, Load(t) \/ Store(t) \/ Take(t) \/ Opened(t) \/ Free(t) PROVE Bus'
  <2>1. access[t] = "out"
    BY <1>2, <1>0 DEF Load, Store, Take, Opened, Free, Updates
  <2>2. Done(t) /\ UNCHANGED <<access, owner, frame>>
    BY <1>2 DEF Load, Store, Take, Opened, Free
  <2> QED
    BY <2>1, <2>2, DoneOne, BusOther
<1>3. ASSUME NEW t \in Tasks, TestSending(t) \/ WaitSendOk(t) \/ Scan(t) PROVE Bus'
  <2>1. access[t] = "out"
    BY <1>3, <1>0 DEF TestSending, WaitSendOk, Scan
  <2>2. UNCHANGED <<access, owner, frame>>
    BY <1>3 DEF TestSending, WaitSendOk, Scan
  <2>3. Done(t) \/ \E q : program' = [program EXCEPT ![t] = q]
    BY <1>3 DEF TestSending, WaitSendOk, Scan
  <2>4. \A u \in Tasks \ {t} : program'[u] = program[u]
    BY <2>3, DoneOne, OneProgram
  <2> QED
    BY <2>1, <2>2, <2>4, BusOther
<1>4. ASSUME NEW t \in Tasks, NEW q, program' = [program EXCEPT ![t] = q], Idle(t),
             UNCHANGED <<access, owner, frame>>
      PROVE  Bus'
  <2>1. access[t] = "out"
    BY <1>4 DEF Bus, Accesses, At
  <2> QED
    BY <1>4, <2>1, OneProgram, BusOther
<1>5. ASSUME NEW t \in Tasks, ToeStep(t) PROVE Bus'
  <2>1. ReachChip(t) => Bus'
    BY BusAccess DEF ReachChip
  <2>2. ASSUME NEW q, ToeCall(t, q) PROVE Bus'
    BY <2>2, <1>4 DEF ToeCall
  <2> QED
    BY <1>5, <1>2, <1>3, <2>1, <2>2 DEF ToeStep, CallSocket, CallOpen, CallSend, CallClose, CallRelease
<1>6. ASSUME NEW t \in Tasks, Prepare(t) PROVE Bus'
  <2>1. Done(t) /\ UNCHANGED <<access, owner, frame>>
    BY <1>6 DEF Prepare, SetUp, NetUp
  <2>2. access[t] = "out"
    BY <1>6, <1>0 DEF Prepare, SetUp, NetUp
  <2> QED
    BY <2>1, <2>2, DoneOne, BusOther
<1>7. ASSUME NEW t \in Tasks, Settle(t) PROVE Bus'
  <2>1. PICK q \in Seq(PlainSteps) : \E id, s : Call(t, q, id, s)
    BY <1>7, ConfigureIsPlain, ConfAssumption DEF Settle
  <2> QED
    BY <2>1, <1>4 DEF Call
<1> QED
  BY <1>1, <1>5, <1>6, <1>7 DEF Next

(* The second step of a program.                                           *)
LEMMA NextStep ==
  ASSUME NEW p, NEW f, TaskOK(p, f), p # <<>>, Tail(p) # <<>>
  PROVE  /\ 2 \in 1..Len(p) /\ Head(Tail(p)) = p[2] /\ StepOK(p, 2, f) /\ Joint(p, 1, f)
         /\ Head(p) = p[1] /\ StepOK(p, 1, f)
         /\ Head(Tail(p)).kind \notin {"scan", "take"}
<1>1. /\ p \in Seq(Steps) /\ Len(p) \in Nat /\ 1 \in 1..Len(p) /\ Head(p) = p[1]
      /\ Tail(p) \in Seq(Steps) /\ Len(Tail(p)) = Len(p) - 1
      /\ \A i \in 1..Len(Tail(p)) : Tail(p)[i] = p[i+1]
  BY HeadTailProperties, LenProperties, EmptySeq DEF TaskOK
<1>2. \A q \in Seq(Steps) : q # <<>> => Len(q) \in Nat \ {0} /\ Head(q) = q[1]
  BY EmptySeq, HeadTailProperties
<1>3. PICK q \in Seq(Steps) : q = Tail(p)
  BY <1>1
<1>4. Len(q) \in Nat \ {0} /\ Head(q) = q[1]
  BY <1>2, <1>3
<1>5. PICK n \in Nat : n = Len(p)
  BY <1>1
<1>6. n >= 2
  BY <1>1, <1>3, <1>4, <1>5
<1>7. 2 \in 1..Len(p) /\ Head(Tail(p)) = p[2]
  BY <1>1, <1>3, <1>4, <1>5, <1>6
<1>8. StepOK(p, 1, f) /\ StepOK(p, 2, f) /\ Joint(p, 1, f)
  BY <1>1, <1>5, <1>6 DEF TaskOK
<1>9. p[2].kind \notin {"scan", "take"}
  <2>1. Len(p) # 1
    BY <1>5, <1>6
  <2> QED
    BY <2>1, <1>8 DEF StepOK, Plain, IsCommand, OnWord, IsLast
<1> QED
  BY <1>1, <1>7, <1>8, <1>9

(* A step that leaves the table alone and begins no scan keeps it right.   *)
LEMMA TableOther ==
  ASSUME Table, NEW t \in Tasks,
         \A u \in Tasks \ {t} : program'[u] = program[u],
         program'[t] # <<>> => Head(program'[t]).kind \notin {"scan", "take"},
         UNCHANGED <<used, opened, fd>>
  PROVE  Table'
<1>1. \A K : At(t, K)' => Head(program'[t]).kind \in K /\ program'[t] # <<>>
  BY DEF At, Idle, Current
<1>2. \A u \in Tasks \ {t} : /\ At(u, {"scan", "take"})' <=> At(u, {"scan", "take"})
                             /\ At(u, {"take"})' <=> At(u, {"take"})
                             /\ Current(u)' = Current(u)
  BY DEF At, Idle, Current
<1>3. ~At(t, {"scan", "take"})' /\ ~At(t, {"take"})'
  BY <1>1
<1> QED
  BY <1>2, <1>3 DEF Table

(* So does one that goes on in its program,                                *)
LEMMA TableTail ==
  ASSUME Shapes, Programs, Table, NEW t \in Tasks, program[t] # <<>>, Done(t),
         UNCHANGED <<used, opened, fd>>
  PROVE  Table'
<1>1. /\ program'[t] = Tail(program[t]) /\ \A u \in Tasks \ {t} : program'[u] = program[u]
      /\ TaskOK(program[t], fd[t])
  BY DoneOne DEF Programs
<1>2. program'[t] # <<>> => Head(program'[t]).kind \notin {"scan", "take"}
  BY <1>1, NextStep
<1> QED
  BY <1>1, <1>2, TableOther

(* and one that begins a program without a scan.                           *)
LEMMA TableNew ==
  ASSUME Shapes, Table, NEW t \in Tasks, NEW q, program' = [program EXCEPT ![t] = q],
         q # <<>> => Head(q).kind \notin {"scan", "take"}, UNCHANGED <<used, opened, fd>>
  PROVE  Table'
BY OneProgram, TableOther

(* The first steps of what the functions of socket.c do.                   *)
LEMMA FirstSteps ==
  ASSUME NEW f \in Sockets
  PROVE  /\ socket(f) \o <<Step("opened", f)>> # <<>>
         /\ Head(socket(f) \o <<Step("opened", f)>>) = Wr(CR(f), "CLOSE")
         /\ close(f) \o <<Step("free", f)>> # <<>>
         /\ Head(close(f) \o <<Step("free", f)>>) = Wr(CR(f), "CLOSE")
         /\ Transmit(f) # <<>> /\ Head(Transmit(f)) = Step("wait", f)
         /\ Clear(f) \o Transmit(f) # <<>> /\ Head(Clear(f) \o Transmit(f)) = Step("load", f)
         /\ (Clear(f) \o Transmit(f))[2] = Step("store_clear", f)
<1> DEFINE C == Wr(CR(f), "CLOSE")
           O == Wr(CR(f), "OPEN")
           S == Wr(CR(f), "SEND")
           L == Step("load", f)
           c == Step("store_clear", f)
           s == Step("store_set", f)
           w == Step("wait", f)
           o == Step("opened", f)
           x == Step("free", f)
<1>1. {C, O, S, L, c, s, w, o, x} \subseteq Steps
  BY SocketStepsAreSteps DEF SocketSteps
<1> HIDE DEF C, O, S, L, c, s, w, o, x
<1>2. /\ <<C>> \o <<L, c>> = <<C, L, c>>
      /\ <<w, S>> \o <<L, s>> = <<w, S, L, s>>
      /\ <<L, c>> \o <<w, S, L, s>> = <<L, c, w, S, L, s>>
  BY <1>1, Flat12, Flat22, Flat24
<1>3. /\ <<C, L, c>> \o <<x>> = <<C, L, c, x>>
      /\ <<C, L, c>> \o <<O>> = <<C, L, c, O>>
      /\ <<C, L, c, O>> \o <<L, c>> = <<C, L, c, O, L, c>>
      /\ <<C, L, c, O, L, c>> \o <<o>> = <<C, L, c, O, L, c, o>>
  BY <1>1, Flat31, Flat42, Flat61
<1>6. close(f) = <<C, L, c>> /\ Clear(f) = <<L, c>> /\ Transmit(f) = <<w, S, L, s>>
  BY <1>2 DEF close, Clear, Transmit, Set, C, S, L, c, s, w
<1>7. socket(f) = <<C, L, c, O, L, c>>
  BY <1>3, <1>6 DEF socket, O
<1>8. /\ socket(f) \o <<o>> = <<C, L, c, O, L, c, o>>
      /\ close(f) \o <<x>> = <<C, L, c, x>>
      /\ Transmit(f) = <<w, S, L, s>>
      /\ Clear(f) \o Transmit(f) = <<L, c, w, S, L, s>>
  BY <1>2, <1>3, <1>6, <1>7
<1>9. /\ <<C, L, c, O, L, c, o>> # <<>> /\ Head(<<C, L, c, O, L, c, o>>) = C
      /\ <<C, L, c, x>> # <<>> /\ Head(<<C, L, c, x>>) = C
      /\ <<w, S, L, s>> # <<>> /\ Head(<<w, S, L, s>>) = w
      /\ <<L, c, w, S, L, s>> # <<>> /\ Head(<<L, c, w, S, L, s>>) = L
      /\ <<L, c, w, S, L, s>>[2] = c
  OBVIOUS
<1> QED
  BY <1>8, <1>9 DEF C, L, c, w, o, x

(* Every step keeps the table right while scans do not overlap.            *)
LEMMA TableKept ==
  ASSUME Shapes, Programs, Bus, Table, Next, ~clashed'
  PROVE  Table'
<1>1. CASE StartUp
  BY <1>1, TableNew, BringUpIsPlain, TasksAssumption DEF StartUp, tableVars
<1>2. ASSUME NEW t \in Tasks, Load(t) \/ Store(t) PROVE Table'
  BY <1>2, TableTail DEF Load, Store, At, Idle, tableVars
<1>3. ASSUME NEW t \in Tasks, TestSending(t) PROVE Table'
  <2>1. /\ TaskOK(program[t], fd[t]) /\ program[t] # <<>> /\ Head(program[t]).kind = "test"
    BY <1>3 DEF TestSending, Programs, At, Idle, Current
  <2>2. fd[t] \in Sockets /\ Head(program[t]).val = fd[t]
    BY <2>1, HeadOK DEF Plain, IsCommand, OnWord
  <2>3. \E q \in {Transmit(fd[t]), Clear(fd[t]) \o Transmit(fd[t]), <<>>} :
          program' = [program EXCEPT ![t] = q]
    BY <1>3, <2>2 DEF TestSending, Current
  <2>4. \A q \in {Transmit(fd[t]), Clear(fd[t]) \o Transmit(fd[t]), <<>>} :
           q # <<>> => Head(q).kind \notin {"scan", "take"}
    <3>1. /\ Head(Transmit(fd[t])) = Step("wait", fd[t])
          /\ Head(Clear(fd[t]) \o Transmit(fd[t])) = Step("load", fd[t])
      BY <2>2, FirstSteps
    <3>3. Step("wait", fd[t]).kind = "wait" /\ Step("load", fd[t]).kind = "load"
      BY DEF Step, StepOf
    <3>2. /\ Head(Transmit(fd[t])).kind = "wait"
          /\ Head(Clear(fd[t]) \o Transmit(fd[t])).kind = "load"
      BY <3>1, <3>3
    <3> QED
      BY <3>2
  <2>5. UNCHANGED <<used, opened, fd>>
    BY <1>3 DEF TestSending, tableVars
  <2> QED
    BY <2>3, <2>4, <2>5, TableNew
<1>4. ASSUME NEW t \in Tasks, WaitSendOk(t) PROVE Table'
  <2>1. UNCHANGED <<used, opened, fd>> /\ program[t] # <<>>
    BY <1>4 DEF WaitSendOk, At, Idle, tableVars
  <2>2. Done(t) \/ program' = [program EXCEPT ![t] = <<>>]
    BY <1>4 DEF WaitSendOk
  <2> QED
    BY <2>1, <2>2, TableNew, TableTail
<1>5. ASSUME NEW t \in Tasks, ReachChip(t) PROVE Table'
  <2>1. UNCHANGED <<used, opened, fd>>
    BY <1>5 DEF ReachChip, tableVars
  <2>2. program' = program \/ Leave(t)
    BY <1>5 DEF ReachChip, Access, Enter, Select, Transfer
  <2>3. CASE program' = program
    BY <2>1, <2>3 DEF Table, At, Idle, Current
  <2>4. CASE Leave(t)
    <3>1. program[t] # <<>>
      BY <2>4 DEF Leave, Bus, Accesses, At, Idle
    <3> QED
      BY <2>1, <2>4, <3>1, TableTail DEF Leave
  <2> QED
    BY <2>2, <2>3, <2>4
<1>6. ASSUME NEW t \in Tasks, Scan(t) PROVE Table'
  <2>1. /\ TaskOK(program[t], fd[t]) /\ program[t] # <<>> /\ Head(program[t]).kind = "scan"
    BY <1>6 DEF Scan, Programs, At, Idle, Current
  <2>3. PICK v \in 0..2 : v = Current(t).val
    BY <2>1, LastOK DEF Current
  <2>4. PICK q : /\ program' = [program EXCEPT ![t] = q]
                 /\ \/ q = <<>>
                    \/ v \notin used /\ q = <<Step("take", v)>>
                    \/ q = <<Step("scan", v + 1)>>
    BY <1>6, <2>3 DEF Scan, ScanFinds
  <2>5. program'[t] = q /\ \A u \in Tasks \ {t} : program'[u] = program[u]
    BY <2>4, OneProgram
  <2>6. UNCHANGED <<used, opened, fd>>
    BY <1>6 DEF Scan, tableVars
  <2>7. \A u \in Tasks \ {t} : /\ At(u, {"scan", "take"})' <=> At(u, {"scan", "take"})
                               /\ At(u, {"take"})' <=> At(u, {"take"})
                               /\ Current(u)' = Current(u)
    BY <2>5 DEF At, Idle, Current
  <2>8. At(t, {"scan", "take"})
    BY <1>6 DEF Scan, At
  <2>9. At(t, {"take"})' => Current(t)'.val \notin used
    <3>1. CASE q = <<>>
      BY <2>5, <3>1 DEF At, Idle
    <3>2. CASE v \notin used /\ q = <<Step("take", v)>>
      <4>1. Head(q).val = v
        BY <3>2 DEF Step, StepOf
      <4> QED
        BY <2>5, <3>2, <4>1 DEF Current
    <3>3. CASE q = <<Step("scan", v + 1)>>
      <4>1. Head(q).kind = "scan"
        BY <3>3 DEF Step, StepOf
      <4> QED
        BY <2>5, <4>1 DEF At, Current
    <3> QED
      BY <2>4, <3>1, <3>2, <3>3
  <2> QED
    BY <2>6, <2>7, <2>8, <2>9 DEF Table
<1>7. ASSUME NEW t \in Tasks, Take(t) PROVE Table'
  <2>1. /\ TaskOK(program[t], fd[t]) /\ program[t] # <<>> /\ Head(program[t]).kind = "take"
        /\ At(t, {"take"}) /\ At(t, {"scan", "take"}) /\ Done(t)
    BY <1>7 DEF Take, Programs, At, Idle, Current
  <2>2. PICK v \in Sockets : v = Current(t).val
    BY <2>1, LastOK DEF Current
  <2>3. v \notin used /\ v # None
    BY <2>1, <2>2 DEF Table, Sockets, None
  <2>4. /\ program'[t] = <<>> /\ \A u \in Tasks \ {t} : program'[u] = program[u]
    BY <2>1, LastOK, DoneOne
  <2>5. \A u \in Tasks : ~At(u, {"scan", "take"})' /\ ~At(u, {"take"})'
    BY <2>1, <2>4 DEF Table, At, Idle, Current
  <2>6. /\ used' = used \cup {v} /\ opened' = opened \ {v} /\ fd'[t] = v
        /\ \A u \in Tasks \ {t} : fd'[u] = fd[u]
    BY <1>7, <2>2 DEF Take, Shapes
  <2>7. \A u \in Tasks : fd'[u] # None => fd'[u] \in used'
    BY <2>6 DEF Table
  <2>8. \A u, w \in Tasks : fd'[u] # None /\ fd'[u] = fd'[w] => u = w
    BY <2>3, <2>6 DEF Table
  <2> QED
    BY <2>5, <2>6, <2>7, <2>8 DEF Table
<1>8. ASSUME NEW t \in Tasks, Opened(t) \/ Free(t) PROVE Table'
  <2>1. /\ TaskOK(program[t], fd[t]) /\ program[t] # <<>> /\ Head(program[t]).kind \in {"opened", "free"}
        /\ Done(t)
    BY <1>8 DEF Opened, Free, Programs, At, Idle, Current
  <2>2. Current(t).val = fd[t] /\ fd[t] \in Sockets /\ fd[t] # None
    BY <2>1, LastOK DEF Current, Sockets, None
  <2>4. /\ program'[t] = <<>> /\ \A u \in Tasks \ {t} : program'[u] = program[u]
    BY <2>1, LastOK, DoneOne
  <2>5. \A u \in Tasks \ {t} : /\ At(u, {"scan", "take"})' <=> At(u, {"scan", "take"})
                               /\ At(u, {"take"})' <=> At(u, {"take"})
                               /\ Current(u)' = Current(u)
    BY <2>4 DEF At, Idle, Current
  <2>6. ~At(t, {"scan", "take"})' /\ ~At(t, {"take"})'
    BY <2>4 DEF At, Idle
  <2>7. CASE Opened(t)
    <3>1. used' = used /\ fd' = fd /\ opened' = opened \cup {fd[t]}
      BY <2>7, <2>2 DEF Opened
    <3>2. opened' \subseteq used
      BY <3>1, <2>2 DEF Table
    <3> QED
      BY <3>1, <3>2, <2>5, <2>6 DEF Table
  <2>8. CASE Free(t)
    <3>1. /\ used' = used \ {fd[t]} /\ opened' = opened \ {fd[t]} /\ fd'[t] = None
          /\ \A u \in Tasks \ {t} : fd'[u] = fd[u]
      BY <2>8, <2>2 DEF Free, Shapes
    <3>2. \A u \in Tasks : fd'[u] # None => fd'[u] \in used'
      BY <3>1, <2>2 DEF Table
    <3>3. \A u, w \in Tasks : fd'[u] # None /\ fd'[u] = fd'[w] => u = w
      BY <3>1 DEF Table
    <3>4. opened' \subseteq used'
      BY <3>1 DEF Table
    <3> QED
      BY <3>1, <3>2, <3>3, <3>4, <2>5, <2>6 DEF Table
  <2> QED
    BY <1>8, <2>7, <2>8
<1>9. ASSUME NEW t \in Tasks, CallSocket(t) PROVE Table'
  <2>1. /\ program'[t] = <<Step("scan", 0)>> /\ \A u \in Tasks \ {t} : program'[u] = program[u]
        /\ UNCHANGED <<used, opened, fd>>
    BY <1>9, OneProgram DEF CallSocket, ToeCall
  <2>2. \A u \in Tasks : ~At(u, {"scan", "take"})
    BY <1>9 DEF CallSocket
  <2>3. \A u \in Tasks \ {t} : ~At(u, {"scan", "take"})' /\ ~At(u, {"take"})'
    BY <2>1, <2>2 DEF At, Idle, Current
  <2>4. ~At(t, {"take"})'
    BY <2>1 DEF At, Current, Step, StepOf
  <2> QED
    BY <2>1, <2>3, <2>4 DEF Table
<1>10. ASSUME NEW t \in Tasks, CallOpen(t) \/ CallSend(t) \/ CallClose(t) \/ CallRelease(t)
       PROVE Table'
  <2>1. fd[t] \in Sockets
    BY <1>10 DEF CallOpen, CallSend, CallClose, CallRelease, Shapes
  <2>2. PICK f \in Sockets : f = fd[t]
    BY <2>1
  <2>4. <<>> \o <<Step("free", f)>> = <<Step("free", f)>>
    <3>1. <<Step("free", f)>> \in Seq({Step("free", f)})
      OBVIOUS
    <3> QED
      BY <3>1, ConcatEmptySeq
  <2>5. \E q : /\ ToeCall(t, q)
               /\ \/ q = socket(f) \o <<Step("opened", f)>>
                  \/ q = <<Step("test", f)>>
                  \/ q = close(f) \o <<Step("free", f)>>
                  \/ q = <<Step("free", f)>>
    BY <1>10, <2>2, <2>4 DEF CallOpen, CallSend, CallClose, CallRelease
  <2>6. PICK q : /\ ToeCall(t, q)
                 /\ Head(q) \in {Wr(CR(f), "CLOSE"), Step("test", f), Step("free", f)}
    <3>1. /\ Head(<<Step("test", f)>>) = Step("test", f)
          /\ Head(<<Step("free", f)>>) = Step("free", f)
      OBVIOUS
    <3>2. /\ Head(socket(f) \o <<Step("opened", f)>>) = Wr(CR(f), "CLOSE")
          /\ Head(close(f) \o <<Step("free", f)>>) = Wr(CR(f), "CLOSE")
      BY FirstSteps
    <3>3. PICK q : /\ ToeCall(t, q)
                   /\ \/ q = socket(f) \o <<Step("opened", f)>>
                      \/ q = <<Step("test", f)>>
                      \/ q = close(f) \o <<Step("free", f)>>
                      \/ q = <<Step("free", f)>>
      BY <2>5
    <3>4. Head(q) \in {Wr(CR(f), "CLOSE"), Step("test", f), Step("free", f)}
      BY <3>1, <3>2, <3>3
    <3> QED
      BY <3>3, <3>4
  <2>7. Head(q).kind \notin {"scan", "take"}
    BY <2>6 DEF Wr, Step, StepOf
  <2> QED
    BY <2>6, <2>7, TableNew DEF ToeCall
<1>11. ASSUME NEW t \in Tasks, Settle(t) PROVE Table'
  <2>1. PICK q \in Seq(PlainSteps) : \E id, s : Call(t, q, id, s)
    BY <1>11, ConfigureIsPlain, ConfAssumption DEF Settle
  <2>2. q # <<>> => Head(q) \in PlainSteps
    BY HeadTailProperties
  <2>3. q # <<>> => Head(q).kind \notin {"scan", "take"}
    BY <2>2 DEF PlainSteps, Plain
  <2> QED
    BY <1>11, <2>1, <2>3, TableNew DEF Settle, Call, tableVars
<1>12. ASSUME NEW t \in Tasks, Prepare(t) PROVE Table'
  BY <1>12, TableTail DEF Prepare, SetUp, NetUp, At, Idle, tableVars
<1>13. ASSUME NEW t \in Tasks, ToeStep(t) PROVE Table'
  BY <1>13, <1>2, <1>3, <1>4, <1>5, <1>6, <1>7, <1>8, <1>9, <1>10 DEF ToeStep
<1> QED
  BY <1>1, <1>11, <1>12, <1>13 DEF Next

(* What is owed to the bit depends on the socket's own bits only.           *)
LEMMA DueSame ==
  ASSUME NEW p, NEW a, NEW f, NEW snd, NEW owd, NEW sn2, NEW ow2,
         f \in snd <=> f \in sn2, f \in owd <=> f \in ow2, Due(p, a, f, snd, owd)
  PROVE  Due(p, a, f, sn2, ow2)
BY DEF Due

(* With the bit right a task may go on to whatever comes next.             *)
LEMMA DueNext ==
  ASSUME NEW p, NEW f, TaskOK(p, f), p # <<>>, Head(p).kind # "load", ~IsCommand(Head(p), f),
         NEW snd, NEW owd, f \in snd <=> f \in owd, NEW a, a # "done"
  PROVE  /\ Due(Tail(p), a, f, snd, owd)
         /\ Tail(p) # <<>> => Head(Tail(p)).kind \notin Updates
<1>1. CASE Tail(p) = <<>>
  BY <1>1 DEF Due
<1>2. CASE Tail(p) # <<>>
  <2>1. Head(Tail(p)) = p[2] /\ Head(p) = p[1] /\ Joint(p, 1, f)
    BY <1>2, NextStep
  <2>2. p[2].kind \notin Updates /\ p[2].kind # "load"
    BY <2>1 DEF Joint
  <2> QED
    BY <2>1, <2>2, <1>2 DEF Due
<1> QED
  BY <1>1, <1>2

(* An accepted command is owed the update that comes two steps later.      *)
LEMMA DueCommand ==
  ASSUME NEW p, NEW f, TaskOK(p, f), p # <<>>, IsCommand(Head(p), f),
         NEW snd, NEW owd, f \in owd <=> Head(p).val = "SEND", NEW a, a # "done"
  PROVE  /\ Due(Tail(p), a, f, snd, owd)
         /\ Tail(p) # <<>> => Head(Tail(p)).kind \notin Updates
<1>1. CASE Tail(p) = <<>>
  <2>1. p \in Seq(Steps) /\ Len(p) \in Nat /\ 1 \in 1..Len(p) /\ Head(p) = p[1] /\ Len(Tail(p)) = Len(p) - 1
    BY HeadTailProperties, LenProperties, EmptySeq DEF TaskOK
  <2>2. StepOK(p, 1, f)
    BY <2>1 DEF TaskOK
  <2>3. p[1].kind = "write" /\ p[1].reg \in {"CR0", "CR1"}
    BY <2>1 DEF IsCommand, CR
  <2>4. 1 + 2 <= Len(p)
    BY <2>2, <2>3 DEF StepOK, Plain, OnWord, IsLast
  <2>5. Len(<<>>) = 0
    OBVIOUS
  <2> QED
    <3>1. Len(Tail(p)) = 0
      BY <1>1, <2>5
    <3>2. Len(Tail(p)) = Len(p) - 1 /\ Len(p) \in Nat
      BY <2>1
    <3> QED
      BY <3>1, <3>2, <2>4
<1>2. CASE Tail(p) # <<>>
  <2>1. Head(Tail(p)) = p[2] /\ Head(p) = p[1] /\ StepOK(p, 1, f)
    BY <1>2, NextStep
  <2>2. p[1].kind = "write" /\ p[1].reg \in {"CR0", "CR1"}
    BY <2>1 DEF IsCommand, CR
  <2>3. 1 + 2 <= Len(p) /\ p[1+1].kind = "load" /\ Accounts(p[1], p[1+2])
    BY <2>1, <2>2 DEF StepOK, Plain, OnWord, IsLast
  <2>4. Tail(p)[2] = p[3] /\ p[2].kind = "load"
    <3>1. p \in Seq(Steps) /\ Len(p) \in Nat /\ Len(Tail(p)) = Len(p) - 1
          /\ \A i \in 1..Len(Tail(p)) : Tail(p)[i] = p[i+1]
      BY HeadTailProperties, LenProperties DEF TaskOK
    <3>2. 2 \in 1..Len(Tail(p))
      BY <2>3, <3>1
    <3>3. Tail(p)[2] = p[2+1]
      BY <3>1, <3>2
    <3> QED
      BY <2>3, <3>3
  <2>5. p[3].kind = "store_set" <=> p[1].val = "SEND"
    BY <2>3 DEF Accounts
  <2> QED
    BY <1>2, <2>1, <2>4, <2>5 DEF Due, Updates
<1> QED
  BY <1>1, <1>2

(* Loading the word leaves the same store owed.                            *)
LEMMA DueLoad ==
  ASSUME NEW p, NEW f, TaskOK(p, f), p # <<>>, Head(p).kind = "load", NEW a,
         NEW snd, NEW owd, Due(p, a, f, snd, owd)
  PROVE  Due(Tail(p), a, f, snd, owd)
<1>1. p \in Seq(Steps) /\ Len(p) \in Nat /\ 1 \in 1..Len(p) /\ Head(p) = p[1] /\ Len(Tail(p)) = Len(p) - 1
  BY HeadTailProperties, LenProperties, EmptySeq DEF TaskOK
<1>2. StepOK(p, 1, f)
  BY <1>1 DEF TaskOK
<1>3. 1 + 1 <= Len(p)
  BY <1>1, <1>2 DEF StepOK, Plain, IsCommand, OnWord, IsLast
<1>4. Tail(p) # <<>>
  <2>1. Len(<<>>) = 0
    OBVIOUS
  <2>2. Len(Tail(p)) = Len(p) - 1 /\ Len(p) \in Nat
    BY <1>1
  <2>3. Len(Tail(p)) # 0
    BY <1>3, <2>2
  <2> QED
    BY <2>1, <2>3
<1>5. Head(Tail(p)) = p[2] /\ Joint(p, 1, f)
  BY <1>4, NextStep
<1>6. p[2].kind \in Updates
  BY <1>1, <1>5 DEF Joint
<1>7. f \in owd <=> p[2].kind = "store_set"
  BY DEF Due
<1> QED
  BY <1>4, <1>5, <1>6, <1>7 DEF Due, Updates

(* A step of a task touches the bit of no other task's socket.             *)
LEMMA FlagsOther ==
  ASSUME Shapes, Table, Flags, NEW t \in Tasks,
         \A u \in Tasks \ {t} : /\ program'[u] = program[u] /\ access'[u] = access[u]
                                /\ loaded'[u] = loaded[u],
         fd' = fd,
         \A s \in Sockets : s # fd[t] => /\ s \in sending' <=> s \in sending
                                         /\ s \in owed' <=> s \in owed,
         At(t, Updates)' => loaded'[t] = sending' /\ \A u \in Tasks \ {t} : ~At(u, Updates),
         sending' = sending \/ \A u \in Tasks \ {t} : ~At(u, Updates),
         fd[t] # None => Due(program'[t], access'[t], fd[t], sending', owed')
  PROVE  Flags'
<1>1. \A u \in Tasks \ {t} : At(u, Updates)' <=> At(u, Updates)
  BY DEF At, Idle, Current
<1>2. \A u, w \in Tasks : At(u, Updates)' /\ At(w, Updates)' => u = w
  BY <1>1 DEF Flags
<1>3. \A u \in Tasks : At(u, Updates)' => loaded'[u] = sending'
  BY <1>1 DEF Flags
<1>4. ASSUME NEW u \in Tasks, fd[u] # None PROVE Due(program'[u], access'[u], fd[u], sending', owed')
  <2>1. CASE u = t
    BY <1>4, <2>1
  <2>2. CASE u # t
    <3>1. fd[u] \in Sockets /\ fd[u] # fd[t]
      BY <1>4, <2>2 DEF Shapes, Table
    <3>2. Due(program[u], access[u], fd[u], sending, owed)
      BY <1>4 DEF Flags
    <3> QED
      BY <2>2, <3>1, <3>2, DueSame
  <2> QED
    BY <2>1, <2>2
<1>5. \A s \in Sockets : (\A u \in Tasks : fd[u] # s) => (s \in sending' <=> s \in owed')
  BY DEF Flags
<1> QED
  BY <1>2, <1>3, <1>4, <1>5 DEF Flags

(* A step that leaves the shared word alone.                               *)
LEMMA FlagsStill ==
  ASSUME Shapes, Table, Flags, NEW t \in Tasks,
         \A u \in Tasks \ {t} : program'[u] = program[u],
         UNCHANGED <<fd, access, loaded, sending, owed>>,
         program'[t] # <<>> => Head(program'[t]).kind \notin Updates,
         fd[t] # None => Due(program'[t], access[t], fd[t], sending, owed)
  PROVE  Flags'
<1>1. ~At(t, Updates)'
  BY DEF At, Idle, Current
<1> QED
  BY <1>1, FlagsOther

(* A plain step is no command and does nothing to the shared word.         *)
LEMMA PlainIs ==
  ASSUME NEW x, Plain(x), NEW f
  PROVE  ~IsCommand(x, f) /\ x.kind \notin Updates /\ x.kind # "load"
BY DEF Plain, IsCommand, Updates, CR

(* An access to another register accounts for no SEND.                     *)
LEMMA ReachPlain ==
  ASSUME Shapes, Programs, Bus, NEW t \in Tasks, ReachChip(t), Plain(Current(t))
  PROVE  owed' = owed
<1>1. CASE access[t] = "addressed" /\ frame.write
  <2>1. frame = FrameOf(t)
    BY <1>1 DEF Bus
  <2>2. frame.reg = Current(t).reg
    BY <2>1 DEF FrameOf
  <2>3. \A s \in Sockets : frame.reg # CR(s)
    BY <2>2 DEF Plain, CR
  <2> QED
    BY <1>1, <2>3 DEF ReachChip
<1>2. CASE ~(access[t] = "addressed" /\ frame.write)
  BY <1>2 DEF ReachChip
<1> QED
  BY <1>1, <1>2

(* A command accepted by the chip concerns the task's own socket.          *)
LEMMA ReachCommand ==
  ASSUME Shapes, Programs, Bus, NEW t \in Tasks, ReachChip(t), fd[t] \in Sockets,
         IsCommand(Current(t), fd[t])
  PROVE  /\ \A s \in Sockets : s # fd[t] => (s \in owed' <=> s \in owed)
         /\ access[t] = "addressed" => (fd[t] \in owed' <=> Current(t).val = "SEND")
         /\ access[t] # "addressed" => owed' = owed
<1>1. CASE access[t] = "addressed"
  <2>1. frame = FrameOf(t) /\ frame.reg = CR(fd[t]) /\ frame.write = TRUE
    <3>1. frame = FrameOf(t)
      BY <1>1 DEF Bus
    <3>2. Current(t).reg = CR(fd[t]) /\ (Current(t).kind = "write") = TRUE
      BY DEF IsCommand
    <3>3. FrameOf(t) = [reg |-> CR(fd[t]), write |-> TRUE, from |-> {t}]
      BY <3>2, Zenon DEF FrameOf
    <3> QED
      BY <3>1, <3>3
  <2>2. \A s \in Sockets : frame.reg = CR(s) <=> s = fd[t]
    BY <2>1 DEF CR, Sockets
  <2>3. \A c : {s \in Sockets : frame.reg = CR(s) /\ Current(t).val = c}
                 = {s \in {fd[t]} : Current(t).val = c}
    BY <2>2
  <2>4. owed' = (owed \cup {s \in {fd[t]} : Current(t).val = "SEND"})
                  \ ({s \in {fd[t]} : Current(t).val = "OPEN"} \cup {s \in {fd[t]} : Current(t).val = "CLOSE"})
    BY <1>1, <2>1, <2>3 DEF ReachChip
  <2>5. Current(t).val \in {"SEND", "OPEN", "CLOSE"}
    BY DEF IsCommand, Commands
  <2> QED
    BY <1>1, <2>4, <2>5
<1>2. CASE access[t] # "addressed"
  BY <1>2 DEF ReachChip
<1> QED
  BY <1>1, <1>2

(* Register accesses keep the bits right,                                  *)
LEMMA FlagsReach ==
  ASSUME Shapes, Programs, Bus, Table, Flags, NEW t \in Tasks, ReachChip(t)
  PROVE  Flags'
<1>0. /\ fd' = fd /\ sending' = sending /\ loaded' = loaded
      /\ Accesses(t) /\ program[t] # <<>> /\ Head(program[t]) = Current(t)
      /\ TaskOK(program[t], fd[t])
  BY DEF ReachChip, tableVars, Bus, Access, Enter, Select, Transfer, Leave, Accesses, At, Idle,
         Current, Programs
<1>1. /\ \A u \in Tasks \ {t} : program'[u] = program[u] /\ access'[u] = access[u]
      /\ \/ program'[t] = program[t] /\ ~Leave(t) /\ access[t] # "done"
         \/ program'[t] = Tail(program[t]) /\ access[t] = "done" /\ access'[t] = "out"
      /\ access[t] = "addressed" <=> access'[t] = "done"
  <2>1. CASE Enter(t)
    BY <2>1 DEF Enter, Leave, Shapes
  <2>2. CASE Select(t)
    BY <2>2 DEF Select, Leave, Shapes
  <2>3. CASE Transfer(t)
    BY <2>3 DEF Transfer, Leave, Shapes
  <2>4. CASE Leave(t)
    BY <2>4, DoneOne DEF Leave, Shapes
  <2> QED
    BY <2>1, <2>2, <2>3, <2>4 DEF ReachChip, Access
<1>2. \/ Plain(Current(t))
      \/ fd[t] \in Sockets /\ IsCommand(Current(t), fd[t])
  <2>1. Head(program[t]).kind \in {"read", "write"}
    BY <1>0 DEF Accesses, At
  <2> QED
    BY <1>0, <2>1, HeadOK DEF OnWord
<1>3. Current(t).kind \notin Updates /\ Current(t).kind # "load"
  BY <1>0 DEF Accesses, At, Updates
<1>4. CASE Plain(Current(t))
  <2>1. owed' = owed /\ ~IsCommand(Current(t), fd[t])
    BY <1>4, ReachPlain, PlainIs
  <2>2. fd[t] # None => (fd[t] \in sending <=> fd[t] \in owed)
    BY <1>0, <1>3, <2>1 DEF Flags, Due
  <2>3. CASE program'[t] = program[t]
    <3>1. ~At(t, Updates)'
      BY <1>0, <1>3, <2>3 DEF At, Current
    <3>2. fd[t] # None => Due(program'[t], access'[t], fd[t], sending', owed')
      BY <1>0, <1>3, <2>1, <2>2, <2>3 DEF Due
    <3> QED
      BY <1>0, <1>1, <2>1, <3>1, <3>2, FlagsOther
  <2>4. CASE program'[t] = Tail(program[t]) /\ access'[t] = "out"
    <3>1. /\ fd[t] # None => Due(program'[t], access'[t], fd[t], sending', owed')
          /\ program'[t] # <<>> => Head(program'[t]).kind \notin Updates
      <4>1. CASE fd[t] # None
        BY <1>0, <1>3, <2>1, <2>2, <2>4, <4>1, DueNext
      <4>2. CASE fd[t] = None
        <5>1. CASE Tail(program[t]) # <<>>
          <6>1. Head(Tail(program[t])) = program[t][2] /\ Head(program[t]) = program[t][1] /\ Joint(program[t], 1, fd[t])
            BY <1>0, <5>1, NextStep
          <6> QED
            BY <1>0, <1>3, <2>4, <4>2, <6>1 DEF Joint
        <5>2. CASE Tail(program[t]) = <<>>
          BY <2>4, <4>2, <5>2
        <5> QED
          BY <5>1, <5>2
      <4> QED
        BY <4>1, <4>2
    <3>2. ~At(t, Updates)'
      BY <3>1 DEF At, Current, Idle
    <3> QED
      BY <1>0, <1>1, <2>1, <3>1, <3>2, FlagsOther
  <2> QED
    BY <1>1, <2>3, <2>4
<1>5. CASE fd[t] \in Sockets /\ IsCommand(Current(t), fd[t])
  <2>1. /\ \A s \in Sockets : s # fd[t] => (s \in owed' <=> s \in owed)
        /\ access[t] = "addressed" => (fd[t] \in owed' <=> Current(t).val = "SEND")
        /\ access[t] # "addressed" => owed' = owed
    BY <1>5, ReachCommand
  <2>2. fd[t] # None
    BY <1>5 DEF Sockets, None
  <2>3. CASE program'[t] = program[t] /\ access[t] # "done"
    <3>1. ~At(t, Updates)'
      BY <1>0, <1>3, <2>3 DEF At, Current
    <3>2. access'[t] = "done" => (fd[t] \in owed' <=> Head(program[t]).val = "SEND")
      BY <1>0, <1>1, <2>1
    <3>3. Due(program'[t], access'[t], fd[t], sending', owed')
      BY <1>0, <1>3, <1>5, <2>3, <3>2 DEF Due
    <3> QED
      BY <1>0, <1>1, <2>1, <3>1, <3>3, FlagsOther
  <2>4. CASE program'[t] = Tail(program[t]) /\ access[t] = "done" /\ access'[t] = "out"
    <3>1. owed' = owed
      BY <2>1, <2>4
    <3>2. Due(program[t], access[t], fd[t], sending, owed)
      BY <2>2 DEF Flags
    <3>3. fd[t] \in owed <=> Head(program[t]).val = "SEND"
      BY <1>0, <1>3, <1>5, <2>4, <3>2 DEF Due
    <3>4. /\ Due(program'[t], access'[t], fd[t], sending', owed')
          /\ program'[t] # <<>> => Head(program'[t]).kind \notin Updates
      BY <1>0, <1>5, <2>4, <3>1, <3>3, DueCommand
    <3>5. ~At(t, Updates)'
      BY <3>4 DEF At, Current, Idle
    <3> QED
      BY <1>0, <1>1, <2>1, <3>4, <3>5, FlagsOther
  <2> QED
    BY <1>1, <2>3, <2>4
<1> QED
  BY <1>2, <1>4, <1>5

(* loads of the shared word do while no other update is under way,         *)
LEMMA FlagsLoad ==
  ASSUME Shapes, Programs, Bus, Table, Flags, NEW t \in Tasks, Load(t), ~raced'
  PROVE  Flags'
<1>1. /\ program[t] # <<>> /\ Head(program[t]).kind = "load" /\ TaskOK(program[t], fd[t])
      /\ Done(t) /\ UNCHANGED <<fd, access, sending, owed>>
      /\ loaded'[t] = sending /\ \A u \in Tasks \ {t} : loaded'[u] = loaded[u]
  BY DEF Load, At, Idle, Current, Programs, tableVars, Shapes
<1>2. program'[t] = Tail(program[t]) /\ \A u \in Tasks \ {t} : program'[u] = program[u]
  BY <1>1, DoneOne
<1>3. \A u \in Tasks \ {t} : ~At(u, Updates)
  BY DEF Load
<1>4. fd[t] # None => Due(program'[t], access'[t], fd[t], sending', owed')
  BY <1>1, <1>2, DueLoad DEF Flags
<1> QED
  BY <1>1, <1>2, <1>3, <1>4, FlagsOther

(* and a store writes back what was loaded but for the task's own bit.     *)
LEMMA FlagsStore ==
  ASSUME Shapes, Programs, Bus, Table, Flags, NEW t \in Tasks, Store(t)
  PROVE  Flags'
<1>1. /\ program[t] # <<>> /\ Head(program[t]).kind \in Updates /\ TaskOK(program[t], fd[t])
      /\ Done(t) /\ UNCHANGED <<fd, access, loaded, owed>> /\ At(t, Updates)
      /\ Head(program[t]) = Current(t)
  BY DEF Store, At, Idle, Current, Programs, tableVars
<1>2. program'[t] = Tail(program[t]) /\ \A u \in Tasks \ {t} : program'[u] = program[u]
  BY <1>1, DoneOne
<1>3. fd[t] \in Sockets /\ Current(t).val = fd[t] /\ ~IsCommand(Head(program[t]), fd[t])
      /\ Head(program[t]).kind # "load"
  <2>1. Head(program[t]).kind \in {"store_clear", "store_set"}
    BY <1>1 DEF Updates
  <2> QED
    BY <1>1, <2>1, HeadOK DEF Plain, IsCommand, OnWord
<1>4. fd[t] # None
  BY <1>3 DEF Sockets, None
<1>5. loaded[t] = sending /\ \A u \in Tasks \ {t} : ~At(u, Updates)
  BY <1>1 DEF Flags
<1>6. fd[t] \in owed <=> Head(program[t]).kind = "store_set"
  BY <1>1, <1>3, <1>4 DEF Flags, Due
<1>7. sending' = IF Head(program[t]).kind = "store_set" THEN sending \cup {fd[t]} ELSE sending \ {fd[t]}
  BY <1>1, <1>3, <1>5 DEF Store, At, Idle
<1>8. fd[t] \in sending' <=> fd[t] \in owed'
  BY <1>1, <1>6, <1>7
<1>9. \A s \in Sockets : s # fd[t] => (s \in sending' <=> s \in sending)
  BY <1>7
<1>10. access'[t] # "done"
  BY <1>1 DEF Bus, Accesses, At, Updates
<1>11. /\ Due(program'[t], access'[t], fd[t], sending', owed')
       /\ program'[t] # <<>> => Head(program'[t]).kind \notin Updates
  BY <1>1, <1>2, <1>3, <1>8, <1>10, DueNext
<1>12. ~At(t, Updates)'
  BY <1>11 DEF At, Idle, Current
<1> QED
  BY <1>1, <1>2, <1>5, <1>9, <1>11, <1>12, FlagsOther

(* Every step keeps the bits right while updates do not overlap.           *)
LEMMA FlagsKept ==
  ASSUME Shapes, Programs, Bus, Table, Flags, Next, ~raced', ~clashed'
  PROVE  Flags'
<1>1. CASE StartUp
  <2>1. /\ program'[Main] = BringUp /\ program[Main] = <<>>
        /\ \A u \in Tasks \ {Main} : program'[u] = program[u]
        /\ UNCHANGED <<fd, access, loaded, sending, owed>>
    BY <1>1, OneProgram, TasksAssumption DEF StartUp, Idle, tableVars, flagVars
  <2>2. Head(BringUp).kind \notin Updates /\ Head(BringUp).kind # "load" /\ BringUp # <<>>
        /\ ~IsCommand(Head(BringUp), fd[Main])
    BY BringUpIsPlain DEF Updates, IsCommand
  <2>3. fd[Main] # None => (fd[Main] \in sending <=> fd[Main] \in owed)
    BY <2>1, TasksAssumption DEF Flags, Due
  <2>4. fd[Main] # None => Due(BringUp, access[Main], fd[Main], sending, owed)
    BY <2>2, <2>3 DEF Due
  <2> QED
    BY <2>1, <2>2, <2>4, FlagsStill, TasksAssumption
<1>2. ASSUME NEW t \in Tasks, NEW q, program' = [program EXCEPT ![t] = q], Idle(t),
             UNCHANGED <<fd, access, loaded, sending, owed>>,
             q # <<>> => \/ Plain(Head(q))
                         \/ Head(q).kind \in {"scan", "test", "free"}
                         \/ IsCommand(Head(q), fd[t])
      PROVE  Flags'
  <2>1. program'[t] = q /\ \A u \in Tasks \ {t} : program'[u] = program[u]
    BY <1>2, OneProgram
  <2>2. access[t] = "out" /\ (fd[t] # None => (fd[t] \in sending <=> fd[t] \in owed))
    BY <1>2 DEF Bus, Accesses, At, Idle, Flags, Due
  <2>3. q # <<>> => Head(q).kind \notin Updates /\ Head(q).kind # "load"
    BY <1>2 DEF Plain, Updates, IsCommand
  <2>4. fd[t] # None => Due(q, access[t], fd[t], sending, owed)
    BY <2>2, <2>3 DEF Due
  <2> QED
    BY <1>2, <2>1, <2>3, <2>4, FlagsStill
<1>3. ASSUME NEW t \in Tasks, TestSending(t) PROVE Flags'
  <2>1. /\ TaskOK(program[t], fd[t]) /\ program[t] # <<>> /\ Head(program[t]).kind = "test"
        /\ UNCHANGED <<fd, access, loaded, sending>>
    BY <1>3 DEF TestSending, Programs, At, Idle, Current, tableVars
  <2>2. fd[t] \in Sockets /\ Head(program[t]).val = fd[t] /\ fd[t] # None
        /\ ~IsCommand(Head(program[t]), fd[t])
    BY <2>1, HeadOK DEF Plain, IsCommand, OnWord, Sockets, None
  <2>3. PICK f \in Sockets : f = fd[t] /\ f = Current(t).val
    BY <2>2 DEF Current
  <2>4. f \in sending <=> f \in owed
    BY <2>1, <2>2, <2>3 DEF Flags, Due, Updates
  <2>5. access[t] = "out"
    BY <2>1 DEF Bus, Accesses, At, Current
  <2>6. CASE program' = [program EXCEPT ![t] = Transmit(f)] /\ owed' = owed
    <3>1. program'[t] = Transmit(f) /\ \A u \in Tasks \ {t} : program'[u] = program[u]
      BY <2>6, OneProgram
    <3>2. Head(Transmit(f)).kind = "wait"
      <4>1. Step("wait", f).kind = "wait"
        BY DEF Step, StepOf
      <4> QED
        BY <4>1, FirstSteps
    <3>3. Due(Transmit(f), access[t], f, sending, owed)
      BY <3>2, <2>4 DEF Due, Updates, IsCommand
    <3>4. Head(program'[t]).kind \notin Updates
      BY <3>1, <3>2 DEF Updates
    <3> QED
      BY <2>1, <2>3, <2>6, <3>1, <3>3, <3>4, FlagsStill
  <2>7. CASE program' = [program EXCEPT ![t] = Clear(f) \o Transmit(f)] /\ owed' = owed \ {f}
    <3> DEFINE q == Clear(f) \o Transmit(f)
    <3>1. program'[t] = q /\ \A u \in Tasks \ {t} : program'[u] = program[u]
      BY <2>7, OneProgram
    <3>2. q # <<>> /\ Head(q).kind = "load" /\ q[2].kind = "store_clear"
      <4>1. Step("load", f).kind = "load" /\ Step("store_clear", f).kind = "store_clear"
        BY DEF Step, StepOf
      <4> QED
        BY <4>1, FirstSteps
    <3> HIDE DEF q
    <3>3. Due(q, access[t], f, sending, owed')
      BY <3>2, <2>7 DEF Due
    <3>4. ~At(t, Updates)'
      BY <3>1, <3>2 DEF Updates, At, Current
    <3>5. \A s \in Sockets : s # f => (s \in owed' <=> s \in owed)
      BY <2>7
    <3> QED
      BY <2>1, <2>3, <3>1, <3>3, <3>4, <3>5, FlagsOther
  <2>8. CASE program' = [program EXCEPT ![t] = <<>>] /\ owed' = owed
    <3>1. program'[t] = <<>> /\ \A u \in Tasks \ {t} : program'[u] = program[u]
      BY <2>8, OneProgram
    <3>2. Due(<<>>, access[t], f, sending, owed)
      BY <2>4 DEF Due
    <3> QED
      BY <2>1, <2>3, <2>8, <3>1, <3>2, FlagsStill
  <2> QED
    BY <1>3, <2>3, <2>6, <2>7, <2>8 DEF TestSending
<1>4. ASSUME NEW t \in Tasks, WaitSendOk(t) PROVE Flags'
  <2>1. /\ TaskOK(program[t], fd[t]) /\ program[t] # <<>> /\ Head(program[t]).kind = "wait"
        /\ UNCHANGED <<fd, access, loaded, sending>>
    BY <1>4 DEF WaitSendOk, Programs, At, Idle, Current, tableVars
  <2>2. fd[t] \in Sockets /\ Head(program[t]).val = fd[t] /\ fd[t] # None
        /\ ~IsCommand(Head(program[t]), fd[t])
    BY <2>1, HeadOK DEF Plain, IsCommand, OnWord, Sockets, None
  <2>3. PICK f \in Sockets : f = fd[t] /\ f = Current(t).val
    BY <2>2 DEF Current
  <2>4. f \in sending <=> f \in owed
    BY <2>1, <2>2, <2>3 DEF Flags, Due, Updates
  <2>5. access[t] = "out"
    BY <2>1 DEF Bus, Accesses, At, Current
  <2>6. ASSUME Done(t), owed' = owed \/ owed' = owed \ {f} PROVE Flags'
    <3>1. program'[t] = Tail(program[t]) /\ \A u \in Tasks \ {t} : program'[u] = program[u]
      BY <2>6, DoneOne
    <3>2. Tail(program[t]) # <<>> /\ IsCommand(Head(Tail(program[t])), fd[t])
      <4>1. /\ program[t] \in Seq(Steps) /\ Len(program[t]) \in Nat /\ 1 \in 1..Len(program[t])
            /\ Head(program[t]) = program[t][1] /\ Len(Tail(program[t])) = Len(program[t]) - 1
        BY <2>1, HeadTailProperties, LenProperties, EmptySeq DEF TaskOK
      <4>2. StepOK(program[t], 1, fd[t])
        BY <2>1, <4>1 DEF TaskOK
      <4>3. 1 + 1 <= Len(program[t]) /\ IsCommand(program[t][1+1], fd[t])
        BY <2>1, <4>1, <4>2 DEF StepOK, Plain, IsCommand, OnWord, IsLast
      <4>4. Len(Tail(program[t])) # 0
        BY <4>1, <4>3
      <4>5. Tail(program[t]) # <<>>
        <5>1. Len(<<>>) = 0
          OBVIOUS
        <5> QED
          BY <4>4, <5>1
      <4>6. Head(Tail(program[t])) = program[t][2]
        BY <2>1, <4>5, NextStep
      <4> QED
        BY <4>3, <4>5, <4>6
    <3>3. Head(Tail(program[t])).kind = "write"
      BY <3>2 DEF IsCommand
    <3>4. Due(program'[t], access'[t], f, sending', owed')
      BY <2>1, <2>3, <2>5, <3>1, <3>2, <3>3 DEF Due, Updates
    <3>5. ~At(t, Updates)'
      BY <3>1, <3>3 DEF At, Current, Updates
    <3>6. \A s \in Sockets : s # f => (s \in owed' <=> s \in owed)
      BY <2>6
    <3> QED
      BY <2>1, <2>3, <3>1, <3>4, <3>5, <3>6, FlagsOther
  <2>7. ASSUME program' = [program EXCEPT ![t] = <<>>], owed' = owed PROVE Flags'
    <3>1. program'[t] = <<>> /\ \A u \in Tasks \ {t} : program'[u] = program[u]
      BY <2>7, OneProgram
    <3>2. Due(<<>>, access[t], f, sending, owed)
      BY <2>4 DEF Due
    <3> QED
      BY <2>1, <2>3, <2>7, <3>1, <3>2, FlagsStill
  <2> QED
    BY <1>4, <2>3, <2>6, <2>7 DEF WaitSendOk
<1>5. ASSUME NEW t \in Tasks, Scan(t) PROVE Flags'
  <2>1. /\ TaskOK(program[t], fd[t]) /\ program[t] # <<>> /\ Head(program[t]).kind = "scan"
        /\ UNCHANGED <<fd, access, loaded, sending, owed>>
    BY <1>5 DEF Scan, Programs, At, Idle, Current, tableVars, flagVars
  <2>2. fd[t] = None
    BY <2>1, LastOK
  <2>3. PICK v : v = Current(t).val
    OBVIOUS
  <2>4. PICK q : /\ program' = [program EXCEPT ![t] = q]
                 /\ q = <<>> \/ q = <<Step("take", v)>> \/ q = <<Step("scan", v + 1)>>
    BY <1>5, <2>3 DEF Scan, ScanFinds
  <2>5. program'[t] = q /\ \A u \in Tasks \ {t} : program'[u] = program[u]
    BY <2>4, OneProgram
  <2>6. q # <<>> => Head(q).kind \notin Updates
    <3>1. Head(<<Step("take", v)>>).kind = "take" /\ Head(<<Step("scan", v + 1)>>).kind = "scan"
      BY DEF Step, StepOf
    <3> QED
      BY <2>4, <3>1 DEF Updates
  <2> QED
    BY <2>1, <2>2, <2>5, <2>6, FlagsStill
<1>6. ASSUME NEW t \in Tasks, Take(t) PROVE Flags'
  <2>1. /\ TaskOK(program[t], fd[t]) /\ program[t] # <<>> /\ Head(program[t]).kind = "take"
        /\ Done(t) /\ UNCHANGED <<access, loaded, sending, owed>>
        /\ At(t, {"take"})
    BY <1>6 DEF Take, Programs, At, Idle, Current, flagVars
  <2>2. PICK v \in Sockets : v = Current(t).val /\ fd[t] = None
    BY <2>1, LastOK DEF Current
  <2>3. /\ program'[t] = <<>> /\ \A u \in Tasks \ {t} : program'[u] = program[u]
        /\ fd'[t] = v /\ \A u \in Tasks \ {t} : fd'[u] = fd[u]
    BY <1>6, <2>1, <2>2, LastOK, DoneOne DEF Take, Shapes
  <2>4. \A u \in Tasks : fd[u] # v
    BY <2>1, <2>2 DEF Table, Sockets, None
  <2>5. Due(<<>>, access[t], v, sending, owed)
    BY <2>4 DEF Flags, Due
  <2>6. \A u \in Tasks : At(u, Updates)' => u # t /\ At(u, Updates)
    BY <2>3 DEF At, Idle, Current
  <2>7. \A u \in Tasks : fd'[u] # None => Due(program'[u], access'[u], fd'[u], sending', owed')
    BY <2>1, <2>3, <2>5 DEF Flags
  <2>8. \A s \in Sockets : (\A u \in Tasks : fd'[u] # s) => (s \in sending' <=> s \in owed')
    <3> SUFFICES ASSUME NEW s \in Sockets, \A u \in Tasks : fd'[u] # s
                 PROVE  s \in sending <=> s \in owed
      BY <2>1
    <3>1. \A u \in Tasks : fd[u] # s
      BY <2>2, <2>3 DEF Sockets, None
    <3> QED
      BY <3>1 DEF Flags
  <2> QED
    BY <2>1, <2>6, <2>7, <2>8 DEF Flags
<1>7. ASSUME NEW t \in Tasks, Free(t) PROVE Flags'
  <2>1. /\ TaskOK(program[t], fd[t]) /\ program[t] # <<>> /\ Head(program[t]).kind = "free"
        /\ Done(t) /\ UNCHANGED <<access, loaded, sending, owed>>
    BY <1>7 DEF Free, Programs, At, Idle, Current, flagVars
  <2>2. PICK v \in Sockets : v = Current(t).val /\ fd[t] = v
    BY <2>1, LastOK DEF Current
  <2>3. /\ program'[t] = <<>> /\ \A u \in Tasks \ {t} : program'[u] = program[u]
        /\ fd'[t] = None /\ \A u \in Tasks \ {t} : fd'[u] = fd[u]
    BY <1>7, <2>1, <2>2, LastOK, DoneOne DEF Free, Shapes
  <2>4. v \in sending <=> v \in owed
    BY <2>1, <2>2 DEF Flags, Due, Updates, IsCommand, Sockets, None
  <2>6. \A u \in Tasks : At(u, Updates)' => u # t /\ At(u, Updates)
    BY <2>3 DEF At, Idle, Current
  <2>7. \A u \in Tasks : fd'[u] # None => Due(program'[u], access'[u], fd'[u], sending', owed')
    BY <2>1, <2>3 DEF Flags
  <2>8. \A s \in Sockets : (\A u \in Tasks : fd'[u] # s) => (s \in sending' <=> s \in owed')
    <3> SUFFICES ASSUME NEW s \in Sockets, \A u \in Tasks : fd'[u] # s
                 PROVE  s \in sending <=> s \in owed
      BY <2>1
    <3>1. s = v \/ \A u \in Tasks : fd[u] # s
      BY <2>2, <2>3
    <3> QED
      BY <2>4, <3>1 DEF Flags
  <2> QED
    BY <2>1, <2>6, <2>7, <2>8 DEF Flags
<1>8. ASSUME NEW t \in Tasks, Opened(t) PROVE Flags'
  <2>1. /\ TaskOK(program[t], fd[t]) /\ program[t] # <<>> /\ Head(program[t]).kind = "opened"
        /\ Done(t) /\ UNCHANGED <<fd, access, loaded, sending, owed>>
    BY <1>8 DEF Opened, Programs, At, Idle, Current, flagVars
  <2>3. program'[t] = <<>> /\ \A u \in Tasks \ {t} : program'[u] = program[u]
    BY <2>1, LastOK, DoneOne
  <2>4. fd[t] # None => (fd[t] \in sending <=> fd[t] \in owed)
    BY <2>1 DEF Flags, Due, Updates, IsCommand
  <2>5. fd[t] # None => Due(<<>>, access[t], fd[t], sending, owed)
    BY <2>4 DEF Due
  <2> QED
    BY <2>1, <2>3, <2>5, FlagsStill
<1>9. ASSUME NEW t \in Tasks, CallSocket(t) \/ CallOpen(t) \/ CallSend(t) \/ CallClose(t) \/ CallRelease(t)
       PROVE Flags'
  <2>1. ~CallSocket(t) => fd[t] \in Sockets
    BY <1>9 DEF CallOpen, CallSend, CallClose, CallRelease, Shapes
  <2>2. ASSUME NEW q, ToeCall(t, q), Head(q).kind \in {"scan", "test", "free"} \/ IsCommand(Head(q), fd[t])
        PROVE  Flags'
    BY <2>2, <1>2 DEF ToeCall, flagVars, Idle
  <2>3. CASE CallSocket(t)
    <3>1. Head(<<Step("scan", 0)>>).kind = "scan"
      BY DEF Step, StepOf
    <3> QED
      BY <2>3, <3>1, <2>2 DEF CallSocket
  <2>4. CASE ~CallSocket(t)
    <3>1. PICK f \in Sockets : f = fd[t]
      BY <2>1, <2>4
    <3>2. <<>> \o <<Step("free", f)>> = <<Step("free", f)>>
      <4>1. <<Step("free", f)>> \in Seq({Step("free", f)})
        OBVIOUS
      <4> QED
        BY <4>1, ConcatEmptySeq
    <3>3. /\ Head(<<Step("test", f)>>).kind = "test"
          /\ Head(<<Step("free", f)>>).kind = "free"
      BY DEF Step, StepOf
    <3>4. /\ IsCommand(Head(socket(f) \o <<Step("opened", f)>>), f)
          /\ IsCommand(Head(close(f) \o <<Step("free", f)>>), f)
      <4>1. IsCommand(Wr(CR(f), "CLOSE"), f)
        BY DEF IsCommand, Wr, StepOf, Commands
      <4> QED
        BY <4>1, FirstSteps
    <3>5. PICK q : /\ ToeCall(t, q)
                   /\ \/ q = socket(f) \o <<Step("opened", f)>>
                      \/ q = <<Step("test", f)>>
                      \/ q = close(f) \o <<Step("free", f)>>
                      \/ q = <<Step("free", f)>>
      BY <1>9, <2>4, <3>1, <3>2 DEF CallOpen, CallSend, CallClose, CallRelease
    <3>6. Head(q).kind \in {"scan", "test", "free"} \/ IsCommand(Head(q), fd[t])
      BY <3>1, <3>3, <3>4, <3>5
    <3> QED
      BY <3>5, <3>6, <2>2
  <2> QED
    BY <2>3, <2>4
<1>10. ASSUME NEW t \in Tasks, Settle(t) PROVE Flags'
  <2>1. PICK q \in Seq(PlainSteps) : \E id, s : Call(t, q, id, s)
    BY <1>10, ConfigureIsPlain, ConfAssumption DEF Settle
  <2>2. q # <<>> => Plain(Head(q))
    BY HeadTailProperties DEF PlainSteps
  <2> QED
    BY <1>10, <2>1, <2>2, <1>2 DEF Settle, Call, tableVars, flagVars
<1>11. ASSUME NEW t \in Tasks, Prepare(t) PROVE Flags'
  <2>1. /\ TaskOK(program[t], fd[t]) /\ program[t] # <<>> /\ Done(t)
        /\ Head(program[t]).kind \in {"pin", "cris", "cs", "spi", "burst", "up"}
        /\ UNCHANGED <<fd, access, loaded, sending, owed>>
    BY <1>11 DEF Prepare, SetUp, NetUp, Programs, At, Idle, Current, tableVars, flagVars
  <2>2. access[t] = "out"
    BY <2>1 DEF Bus, Accesses, At, Current
  <2>3. ~IsCommand(Head(program[t]), fd[t]) /\ Head(program[t]).kind # "load"
        /\ Head(program[t]).kind \notin Updates
    BY <2>1 DEF IsCommand, Updates
  <2>4. fd[t] # None => (fd[t] \in sending <=> fd[t] \in owed)
    BY <2>1, <2>3 DEF Flags, Due
  <2>5. program'[t] = Tail(program[t]) /\ \A u \in Tasks \ {t} : program'[u] = program[u]
    BY <2>1, DoneOne
  <2>6. fd[t] # None => Due(program'[t], access[t], fd[t], sending, owed)
    BY <2>1, <2>2, <2>3, <2>4, <2>5, DueNext
  <2>7. program'[t] # <<>> => Head(program'[t]).kind \notin Updates
    <3>1. CASE Tail(program[t]) # <<>>
      <4>1. /\ Head(Tail(program[t])) = program[t][2] /\ Head(program[t]) = program[t][1]
            /\ Joint(program[t], 1, fd[t])
        BY <2>1, <3>1, NextStep
      <4> QED
        BY <2>3, <2>5, <4>1 DEF Joint
    <3>2. CASE Tail(program[t]) = <<>>
      BY <2>5, <3>2
    <3> QED
      BY <3>1, <3>2
  <2> QED
    BY <2>1, <2>5, <2>6, <2>7, FlagsStill
<1>12. ASSUME NEW t \in Tasks, ToeStep(t) PROVE Flags'
  BY <1>12, <1>3, <1>4, <1>5, <1>6, <1>7, <1>8, <1>9, FlagsReach, FlagsLoad, FlagsStore DEF ToeStep
<1> QED
  BY <1>1, <1>10, <1>11, <1>12 DEF Next

(* What has once happened is remembered.                                   *)
LEMMA Remembered ==
  ASSUME Next
  PROVE  (~clashed' => ~clashed) /\ (~raced' => ~raced)
<1>1. CASE StartUp
  BY <1>1 DEF StartUp, flagVars
<1>2. ASSUME NEW t \in Tasks, ToeStep(t) PROVE (~clashed' => ~clashed) /\ (~raced' => ~raced)
  <2>1. CASE Load(t)
    BY <2>1 DEF Load
  <2>2. CASE Store(t) \/ TestSending(t) \/ WaitSendOk(t)
    BY <2>2 DEF Store, TestSending, WaitSendOk
  <2>3. CASE ReachChip(t)
    BY <2>3 DEF ReachChip
  <2>4. CASE Scan(t) \/ Take(t) \/ Opened(t) \/ Free(t)
    BY <2>4 DEF Scan, Take, Opened, Free, flagVars
  <2>5. CASE CallSocket(t)
    <3>1. raced' = raced
      BY <2>5 DEF CallSocket, ToeCall, flagVars
    <3>2. ~clashed' => ~clashed
      BY <2>5 DEF CallSocket
    <3> QED
      BY <3>1, <3>2
  <2>6. CASE CallOpen(t) \/ CallSend(t) \/ CallClose(t) \/ CallRelease(t)
    <3>1. clashed' = clashed
      BY <2>6 DEF CallOpen, CallSend, CallClose, CallRelease
    <3>2. raced' = raced
      BY <2>6 DEF CallOpen, CallSend, CallClose, CallRelease, ToeCall, flagVars
    <3> QED
      BY <3>1, <3>2
  <2> QED
    BY <1>2, <2>1, <2>2, <2>3, <2>4, <2>5, <2>6 DEF ToeStep
<1>3. ASSUME NEW t \in Tasks, Prepare(t) \/ Settle(t) PROVE (~clashed' => ~clashed) /\ (~raced' => ~raced)
  BY <1>3 DEF Prepare, Settle, flagVars
<1> QED
  BY <1>1, <1>2, <1>3 DEF Next

(* The invariant is inductive.                                             *)
LEMMA StepInv ==
  ASSUME ToeInv, [Next]_vars
  PROVE  ToeInv'
<1>1. CASE Next
  <2>1. Shapes' /\ Programs' /\ Bus'
    BY <1>1, ShapesKept, ProgramsKept, BusKept DEF ToeInv
  <2>2. Unready'
    BY <1>1, UnreadyKept DEF ToeInv, Unready
  <2>3. ~clashed' => Table'
    BY <1>1, Remembered, TableKept DEF ToeInv
  <2>4. ~raced' /\ ~clashed' => Flags'
    BY <1>1, Remembered, FlagsKept DEF ToeInv
  <2> QED
    BY <2>1, <2>2, <2>3, <2>4 DEF ToeInv
<1>2. CASE UNCHANGED vars
  <2>1. UNCHANGED <<program, access, callbacks, owner, frame, netUp, calls, ops, used, opened, fd,
                    sending, loaded, owed, raced, clashed>>
    BY <1>2 DEF vars, spiVars, confVars, tableVars, flagVars
  <2>2. Shapes' /\ Programs'
    BY <2>1 DEF ToeInv, Shapes, Programs
  <2>3. Bus' /\ Unready'
    BY <2>1 DEF ToeInv, Bus, Unready, Accesses, At, Idle, Current, FrameOf
  <2>4. ~clashed' => Table'
    BY <2>1 DEF ToeInv, Table, At, Idle, Current
  <2>5. ~raced' /\ ~clashed' => Flags'
    BY <2>1 DEF ToeInv, Flags, At, Idle, Current
  <2> QED
    BY <2>2, <2>3, <2>4, <2>5 DEF ToeInv
<1> QED
  BY <1>1, <1>2

(* The inductive invariant holds in every reachable state, for any number  *)
(* of tasks on the chip.                                                   *)
THEOREM ToeInvariant == Spec => []ToeInv
<1> QED
  BY InitInv, StepInv, PTL DEF Spec

(* The types hold, and every frame comes from tasks in the critical        *)
(* section of wizchip_spi_esp.c.                                           *)
THEOREM ToeTypesHold == Spec => []ToeTypeOK
<1>1. ASSUME ToeInv PROVE ToeTypeOK
  <2>1. frame.from \subseteq owner
    <3>1. CASE frame = NoFrame
      BY <3>1 DEF NoFrame
    <3>2. CASE frame # NoFrame
      <4>1. PICK t \in Tasks : access[t] = "addressed" /\ frame = FrameOf(t)
        BY <1>1, <3>2 DEF ToeInv, Bus
      <4>2. t \in owner /\ frame.from = {t}
        BY <1>1, <4>1 DEF ToeInv, Bus, FrameOf
      <4> QED
        BY <4>2
    <3> QED
      BY <3>1, <3>2
  <2> QED
    BY <1>1, <2>1 DEF ToeInv, Shapes, Bus, Table, ToeTypeOK, Callbacks
<1> QED
  BY <1>1, ToeInvariant, PTL

(* The critical section that wizchip_spi_esp_init registers makes every    *)
(* SPI frame the bytes of one task, the one inside it.                     *)
THEOREM FramesAreOneTasks == Spec => []SpiFramesWhole
<1>1. ASSUME ToeInv PROVE SpiFramesWhole
  <2> SUFFICES ASSUME frame # NoFrame
               PROVE  \E t \in Tasks : frame.from = {t} /\ owner = {t}
    BY DEF SpiFramesWhole
  <2>1. PICK t \in Tasks : access[t] = "addressed" /\ frame = FrameOf(t)
    BY <1>1 DEF ToeInv, Bus
  <2>2. frame.from = {t}
    BY <2>1 DEF FrameOf
  <2>3. owner = {t}
    BY <1>1, <2>1 DEF ToeInv, Bus
  <2> QED
    BY <2>2, <2>3
<1> QED
  BY <1>1, ToeInvariant, PTL

(* wiztoe_socket gives an entry of g_toe to two tasks only if their scans  *)
(* have overlapped.                                                        *)
THEOREM OwnersStayApart == Spec => []OwnersApart
<1>1. ASSUME ToeInv PROVE OwnersApart
  BY <1>1 DEF ToeInv, Table, OwnersApart
<1> QED
  BY <1>1, ToeInvariant, PTL

(* Between the calls of its task a socket's bit of sock_is_sending tells   *)
(* whether a SEND is unaccounted for, unless two updates of the word have  *)
(* overlapped: socket.c has no other way to lose one.                      *)
THEOREM FlagIsKept == Spec => []FlagKept
<1>1. ASSUME ToeInv PROVE FlagKept
  <2> SUFFICES ASSUME ~raced, ~clashed, NEW s \in Sockets, Resting(s)
               PROVE  FlagRight(s)
    BY DEF FlagKept
  <2>1. Flags
    BY <1>1 DEF ToeInv
  <2>2. CASE \E t \in Tasks : fd[t] = s
    <3>1. PICK t \in Tasks : fd[t] = s
      BY <2>2
    <3>2. program[t] = <<>> /\ fd[t] # None
      BY <3>1 DEF Resting, Idle, Sockets, None
    <3> QED
      BY <2>1, <3>1, <3>2 DEF Flags, Due, FlagRight
  <2>3. CASE \A t \in Tasks : fd[t] # s
    BY <2>1, <2>3 DEF Flags, FlagRight
  <2> QED
    BY <2>2, <2>3
<1> QED
  BY <1>1, ToeInvariant, PTL

-----------------------------------------------------------------------------

(* What task t has still to do, and the registers it will leave: once the  *)
(* data of an access is over its step has had its effect.                  *)
Rest(t)   == IF access[t] = "done" THEN Tail(program[t]) ELSE program[t]
Coming(t) == After(Rest(t), regs, saved[t])

(* The chip is ready for what was last asked of it and only socket         *)
(* functions run; or it is not up, and nothing runs;                       *)
Settled == /\ netUp /\ Ready(regs, asked)
           /\ \A t \in Tasks : program[t] \in Seq(BusySteps)
Unbegun == ~netUp /\ \A t \in Tasks : Idle(t)

(* or task t alone is in a function of the configuration, or brings the    *)
(* chip up, and will leave the chip ready.                                 *)
Moving(t) ==
  /\ \A u \in Tasks \ {t} : Idle(u)
  /\ program[t] \in Seq(PlainSteps) /\ program[t] # <<>>
  /\ IF netUp THEN workload = "configure" ELSE UpLast(program[t])
  /\ Ready(Coming(t), asked)

(* The invariant behind ConfigurationKept.                                 *)
Typed == /\ regs = [r \in Register |-> regs[r]]
         /\ saved = [t \in Tasks |-> [r \in Register |-> saved[t][r]]]
ConfInv ==
  /\ Typed
  /\ ~netUp => asked = Asked("own", ChipDefaults)
  /\ Settled \/ Unbegun \/ \E t \in Tasks : Moving(t)

(* It holds at the start.                                                  *)
LEMMA ConfBegins ==
  ASSUME Init
  PROVE  ConfInv
<1>1. /\ program = [t \in Tasks |-> <<>>] /\ saved = [t \in Tasks |-> AfterReset]
      /\ regs = AfterReset /\ netUp = FALSE /\ asked = Asked("own", ChipDefaults)
  BY DEF Init, SpiInit, ConfInit
<1>2. AfterReset = [r \in Register |-> AfterReset[r]]
  BY DEF AfterReset
<1>3. Typed
  BY <1>1, <1>2 DEF Typed
<1>4. Unbegun
  BY <1>1 DEF Unbegun, Idle
<1> QED
  BY <1>1, <1>3, <1>4 DEF ConfInv

(* With nobody but t running a configuration step may end anywhere in      *)
(* t's program that leaves the chip ready.                                 *)
LEMMA Landing ==
  ASSUME NEW t \in Tasks, Typed',
         ~netUp' => asked' = Asked("own", ChipDefaults),
         \A u \in Tasks \ {t} : program'[u] = <<>>,
         program'[t] \in Seq(PlainSteps), access'[t] # "done",
         Ready(After(program'[t], regs', saved'[t]), asked'),
         IF netUp' THEN program'[t] # <<>> => workload' = "configure" ELSE UpLast(program'[t])
  PROVE  ConfInv'
<1>1. CASE program'[t] # <<>>
  <2>1. Rest(t)' = program'[t]
    BY DEF Rest
  <2>2. Coming(t)' = After(program'[t], regs', saved'[t])
    BY <2>1 DEF Coming
  <2>3. Moving(t)'
    BY <1>1, <2>2 DEF Moving, Idle
  <2> QED
    BY <2>3 DEF ConfInv
<1>2. CASE program'[t] = <<>> /\ ~netUp'
  BY <1>2 DEF ConfInv, Unbegun, Idle
<1>3. CASE program'[t] = <<>> /\ netUp'
  <2>1. PICK R, S, a : R = regs' /\ S = saved'[t] /\ a = asked'
    OBVIOUS
  <2>2. After(<<>>, R, S) = R
    BY <2>1, AfterNone DEF Typed
  <2>3. Ready(R, a)
    BY <1>3, <2>1, <2>2
  <2>4. \A u \in Tasks : program'[u] \in Seq(BusySteps)
    BY <1>3, EmptySeq
  <2> QED
    BY <1>3, <2>1, <2>3, <2>4 DEF ConfInv, Settled
<1> QED
  BY <1>1, <1>2, <1>3

(* The frame of a task's access carries its step.                          *)
LEMMA FrameCarries ==
  ASSUME Bus, NEW t \in Tasks, access[t] = "addressed"
  PROVE  frame.reg = Current(t).reg /\ (frame.write <=> Current(t).kind = "write")
         /\ Current(t).kind \in {"read", "write"} /\ program[t] # <<>>
<1>1. frame = FrameOf(t) /\ Accesses(t)
  BY DEF Bus
<1>2. frame.reg = Current(t).reg
  BY <1>1 DEF FrameOf
<1>3. Current(t).kind \in {"read", "write"} /\ program[t] # <<>>
  BY <1>1 DEF Accesses, At, Idle
<1>4. CASE Current(t).kind = "write"
  <2>1. (Current(t).kind = "write") = TRUE
    BY <1>4
  <2>2. FrameOf(t) = [reg |-> Current(t).reg, write |-> TRUE, from |-> {t}]
    BY <2>1, Zenon DEF FrameOf
  <2>3. frame.write = TRUE
    BY <1>1, <2>2
  <2> QED
    BY <1>2, <1>3, <1>4, <2>3
<1>5. CASE Current(t).kind # "write"
  <2>1. (Current(t).kind = "write") = FALSE
    BY <1>5
  <2>2. FrameOf(t) = [reg |-> Current(t).reg, write |-> FALSE, from |-> {t}]
    BY <2>1, Zenon DEF FrameOf
  <2>3. frame.write = FALSE
    BY <1>1, <2>2
  <2> QED
    BY <1>2, <1>3, <1>5, <2>3
<1> QED
  BY <1>4, <1>5

(* The transfer has the effect of the step.                                *)
LEMMA TransferDoes ==
  ASSUME Typed, Bus, NEW t \in Tasks, Transfer(t)
  PROVE  /\ Typed'
         /\ \A r \in Register :
              LET e == Effect(Current(t), r, [reg |-> regs[r], saved |-> saved[t][r]]) IN
              e.reg = regs'[r] /\ e.saved = saved'[t][r]
<1>1. PICK x, R, S : x = Current(t) /\ R = regs /\ S = saved
  OBVIOUS
<1>2. /\ frame.reg = x.reg /\ (frame.write <=> x.kind = "write") /\ x.kind \in {"read", "write"}
  BY <1>1, FrameCarries DEF Transfer
<1>3. R = [r \in Register |-> R[r]] /\ S = [u \in Tasks |-> [r \in Register |-> S[u][r]]]
  BY <1>1 DEF Typed
<1>4. CASE x.kind = "write" /\ x.how = "rst"
  <2>1. regs' = AfterReset /\ saved' = S
    BY <1>1, <1>2, <1>4 DEF Transfer, Written
  <2>2. Typed'
    BY <1>1, <1>3, <2>1 DEF Typed, AfterReset
  <2>3. \A r, c : Effect(x, r, c).reg = AfterReset[r] /\ Effect(x, r, c).saved = c.saved
    BY <1>4 DEF Effect
  <2> QED
    BY <1>1, <2>1, <2>2, <2>3
<1>5. CASE x.kind = "write" /\ x.how # "rst"
  <2>0. PICK v : v = ValueOf(x, S[t][x.reg])
    OBVIOUS
  <2>1. regs' = [R EXCEPT ![x.reg] = v] /\ saved' = S
    BY <1>1, <1>2, <1>5, <2>0 DEF Transfer, Written
  <2>2. \A r \in Register : regs'[r] = IF x.reg = r THEN v ELSE R[r]
    BY <1>3, <2>1
  <2>3. regs' = [r \in Register |-> regs'[r]]
    BY <1>3, <2>1
  <2>4. Typed'
    BY <1>1, <1>3, <2>1, <2>3 DEF Typed
  <2>5. \A r, c : /\ Effect(x, r, c).reg = IF x.reg = r THEN ValueOf(x, c.saved) ELSE c.reg
                  /\ Effect(x, r, c).saved = c.saved
    BY <1>5 DEF Effect
  <2> QED
    BY <1>1, <2>0, <2>1, <2>2, <2>4, <2>5
<1>6. CASE x.kind = "read"
  <2>1. regs' = R /\ saved' = [S EXCEPT ![t][x.reg] = R[x.reg]]
    BY <1>1, <1>2, <1>6 DEF Transfer
  <2>2. \A r \in Register : saved'[t][r] = IF x.reg = r THEN R[r] ELSE S[t][r]
    BY <1>3, <2>1
  <2>3. saved' = [u \in Tasks |-> [r \in Register |-> saved'[u][r]]]
    BY <1>3, <2>1
  <2>4. Typed'
    BY <1>1, <1>3, <2>1, <2>3 DEF Typed
  <2>5. \A r, c : /\ Effect(x, r, c).reg = c.reg
                  /\ Effect(x, r, c).saved = IF x.reg = r THEN c.reg ELSE c.saved
    BY <1>6 DEF Effect
  <2> QED
    BY <1>1, <2>1, <2>2, <2>4, <2>5
<1> QED
  BY <1>2, <1>4, <1>5, <1>6

(* A task that moves on, by the steps of an access,                        *)
LEMMA MovingReach ==
  ASSUME Shapes, Bus, Typed, ~netUp => asked = Asked("own", ChipDefaults),
         NEW t \in Tasks, Moving(t), ReachChip(t)
  PROVE  ConfInv'
<1>0. /\ UNCHANGED <<netUp, asked, workload>>
      /\ \A u \in Tasks \ {t} : program[u] = <<>>
      /\ program[t] \in Seq(PlainSteps) /\ program[t] # <<>>
  BY DEF ReachChip, confVars, Moving, Idle
<1>1. CASE Enter(t) \/ Select(t)
  <2>1. /\ UNCHANGED <<program, regs, saved>>
        /\ access[t] # "done" /\ access'[t] # "done"
    BY <1>1 DEF Enter, Select, Shapes
  <2>2. Rest(t)' = Rest(t)
    BY <2>1 DEF Rest
  <2>3. Coming(t)' = Coming(t)
    BY <2>1, <2>2 DEF Coming
  <2>4. Moving(t)'
    BY <1>0, <2>1, <2>3 DEF Moving, Idle
  <2> QED
    BY <1>0, <2>1, <2>4 DEF ConfInv, Typed
<1>2. CASE Transfer(t)
  <2>1. access[t] = "addressed" /\ access'[t] = "done" /\ program' = program
    BY <1>2 DEF Transfer, Shapes
  <2>2. /\ Typed'
        /\ \A r \in Register :
             LET e == Effect(Head(program[t]), r, [reg |-> regs[r], saved |-> saved[t][r]]) IN
             e.reg = regs'[r] /\ e.saved = saved'[t][r]
    BY <1>2, TransferDoes DEF Current
  <2>3. After(program[t], regs, saved[t]) = After(Tail(program[t]), regs', saved'[t])
    BY <1>0, <2>2, AfterStep
  <2>4. Rest(t) = program[t] /\ Rest(t)' = Tail(program[t])
    BY <2>1 DEF Rest
  <2>5. Coming(t)' = Coming(t)
    BY <2>3, <2>4 DEF Coming
  <2>6. Moving(t)'
    BY <1>0, <2>1, <2>5 DEF Moving, Idle
  <2> QED
    BY <1>0, <2>2, <2>6 DEF ConfInv
<1>3. CASE Leave(t)
  <2>1. /\ access[t] = "done" /\ access'[t] = "out" /\ UNCHANGED <<regs, saved>>
        /\ program'[t] = Tail(program[t]) /\ \A u \in Tasks \ {t} : program'[u] = program[u]
    BY <1>3, DoneOne DEF Leave, Shapes
  <2>2. After(Tail(program[t]), regs, saved[t]) = Coming(t)
    BY <2>1 DEF Coming, Rest
  <2>3. Tail(program[t]) \in Seq(PlainSteps)
    BY <1>0, HeadTailProperties
  <2>4. IF netUp THEN workload = "configure" ELSE UpLast(Tail(program[t]))
    BY <1>0, UpLastTail DEF Moving
  <2>5. Ready(After(program'[t], regs', saved'[t]), asked')
    BY <1>0, <2>1, <2>2 DEF Moving
  <2>6. Typed'
    BY <2>1 DEF Typed
  <2> QED
    BY <1>0, <2>1, <2>3, <2>4, <2>5, <2>6, Landing
<1> QED
  BY <1>1, <1>2, <1>3 DEF ReachChip, Access

(* or by the steps of the bring-up that are no accesses.                   *)
LEMMA MovingPrepare ==
  ASSUME Shapes, Bus, Typed, ~netUp => asked = Asked("own", ChipDefaults),
         NEW t \in Tasks, Moving(t), Prepare(t)
  PROVE  ConfInv'
<1>0. /\ UNCHANGED <<asked, workload, saved, access>>
      /\ \A u \in Tasks \ {t} : program[u] = <<>>
      /\ program[t] \in Seq(PlainSteps) /\ program[t] # <<>>
      /\ Done(t) /\ Head(program[t]).kind \in {"pin", "cris", "cs", "spi", "burst", "up"}
      /\ regs' = IF Head(program[t]).kind = "pin" THEN AfterReset ELSE regs
      /\ netUp' <=> (netUp \/ Head(program[t]).kind = "up")
  <2>1. CASE SetUp(t) /\ UNCHANGED confVars
    BY <2>1 DEF SetUp, confVars, Prepare, Moving, Idle, At, Current
  <2>2. CASE NetUp(t)
    BY <2>2 DEF NetUp, Prepare, Moving, Idle, At, Current
  <2> QED
    BY <2>1, <2>2 DEF Prepare
<1>1. program'[t] = Tail(program[t]) /\ \A u \in Tasks \ {t} : program'[u] = program[u]
  BY <1>0, DoneOne
<1>2. access[t] = "out"
  BY <1>0 DEF Bus, Accesses, At, Current
<1>3. Typed'
  <2>1. AfterReset = [r \in Register |-> AfterReset[r]]
    BY DEF AfterReset
  <2> QED
    BY <1>0, <2>1 DEF Typed
<1>4. \A r \in Register : LET e == Effect(Head(program[t]), r, [reg |-> regs[r], saved |-> saved[t][r]]) IN
                          e.reg = regs'[r] /\ e.saved = saved'[t][r]
  BY <1>0 DEF Effect
<1>5. After(program[t], regs, saved[t]) = After(Tail(program[t]), regs', saved'[t])
  BY <1>0, <1>4, AfterStep
<1>6. Coming(t) = After(program[t], regs, saved[t])
  BY <1>2 DEF Coming, Rest
<1>7. Ready(After(program'[t], regs', saved'[t]), asked')
  BY <1>0, <1>1, <1>5, <1>6 DEF Moving
<1>8. Tail(program[t]) \in Seq(PlainSteps)
  BY <1>0, HeadTailProperties
<1>9. IF netUp' THEN program'[t] # <<>> => workload' = "configure" ELSE UpLast(program'[t])
  <2>1. CASE netUp
    BY <1>0, <2>1 DEF Moving
  <2>2. CASE ~netUp
    <3>1. UpLast(program[t])
      BY <2>2 DEF Moving
    <3>2. /\ UpLast(Tail(program[t]))
          /\ Head(program[t]).kind = "up" => Tail(program[t]) = <<>>
      BY <1>0, <3>1, UpLastTail
    <3> QED
      BY <1>0, <1>1, <2>2, <3>2
  <2> QED
    BY <2>1, <2>2
<1>10. ~netUp' => asked' = Asked("own", ChipDefaults)
  BY <1>0
<1> QED
  BY <1>0, <1>1, <1>2, <1>3, <1>7, <1>8, <1>9, <1>10, Landing

(* Nobody else moves meanwhile.                                            *)
LEMMA MovingAlone ==
  ASSUME Shapes, Bus, NEW t \in Tasks, Moving(t)
  PROVE  /\ ~StartUp
         /\ \A u \in Tasks : /\ ToeStep(u) => u = t /\ ReachChip(t)
                             /\ Prepare(u) => u = t
                             /\ ~Settle(u)
<1>0. /\ \A u \in Tasks \ {t} : Idle(u)
      /\ program[t] \in Seq(PlainSteps) /\ program[t] # <<>>
      /\ ~(netUp /\ workload = "sockets")
  BY DEF Moving
<1>1. ~StartUp
  BY <1>0 DEF StartUp, Idle
<1>2. ASSUME NEW u \in Tasks PROVE ~Settle(u)
  BY <1>0, ConfigureIsPlain, ConfAssumption DEF Settle, Call, Idle
<1>3. ASSUME NEW u \in Tasks, Prepare(u) PROVE u = t
  BY <1>0, <1>3 DEF Prepare, SetUp, NetUp, At
<1>4. ASSUME NEW u \in Tasks, ToeStep(u) PROVE u = t /\ ReachChip(t)
  <2>1. \A q : ~ToeCall(u, q)
    BY <1>0 DEF ToeCall
  <2>2. ~(CallSocket(u) \/ CallOpen(u) \/ CallSend(u) \/ CallClose(u) \/ CallRelease(u))
    BY <2>1 DEF CallSocket, CallOpen, CallSend, CallClose, CallRelease
  <2>3. Plain(Head(program[t]))
    BY <1>0, HeadTailProperties DEF PlainSteps
  <2>4. ~At(u, {"load"}) /\ ~At(u, Updates) /\ ~At(u, {"test"}) /\ ~At(u, {"wait"})
        /\ ~At(u, {"scan"}) /\ ~At(u, {"take"}) /\ ~At(u, {"opened"}) /\ ~At(u, {"free"})
    BY <1>0, <2>3 DEF At, Current, Plain, Updates
  <2>5. ReachChip(u)
    BY <1>4, <2>2, <2>4 DEF ToeStep, Load, Store, TestSending, WaitSendOk, Scan, Take, Opened, Free
  <2>6. Accesses(u)
    BY <2>5 DEF ReachChip, Access, Enter, Select, Transfer, Leave, Bus
  <2>7. u = t
    BY <1>0, <2>6 DEF Accesses, At
  <2> QED
    BY <2>5, <2>7
<1> QED
  BY <1>1, <1>2, <1>3, <1>4

(* A function of the configuration goes on to its end.                     *)
LEMMA MovingKept ==
  ASSUME Shapes, Bus, Typed, ~netUp => asked = Asked("own", ChipDefaults),
         NEW t \in Tasks, Moving(t), Next
  PROVE  ConfInv'
<1>1. ReachChip(t) \/ Prepare(t)
  BY MovingAlone DEF Next
<1> QED
  BY <1>1, MovingReach, MovingPrepare

(* The start-up begins on a chip that nobody uses.                         *)
LEMMA UnbegunKept ==
  ASSUME Shapes, Bus, Typed, ~netUp => asked = Asked("own", ChipDefaults), Unbegun, Next
  PROVE  ConfInv'
<1>0. netUp = netUp /\ ~netUp /\ \A u \in Tasks : Idle(u)
  BY DEF Unbegun
<1>1. \A u \in Tasks : ~Accesses(u) /\ access[u] = "out"
  BY <1>0 DEF Bus, Accesses, At
<1>2. CASE StartUp
  <2>1. /\ program'[Main] = BringUp /\ \A u \in Tasks \ {Main} : program'[u] = <<>>
        /\ UNCHANGED <<access, regs, saved, netUp, asked>>
    BY <1>0, <1>2, OneProgram, TasksAssumption DEF StartUp, confVars, Idle
  <2>2. Typed'
    BY <2>1 DEF Typed
  <2>3. Ready(After(BringUp, regs, saved[Main]), Asked("own", ChipDefaults))
    BY BringUpReady
  <2>4. Ready(After(program'[Main], regs', saved'[Main]), asked')
    BY <1>0, <2>1, <2>3
  <2>5. /\ program'[Main] \in Seq(PlainSteps) /\ UpLast(program'[Main])
        /\ access'[Main] # "done" /\ ~netUp' /\ (~netUp' => asked' = Asked("own", ChipDefaults))
    BY <1>0, <1>1, <2>1, BringUpIsPlain, BringUpEnds, TasksAssumption
  <2> QED
    BY <2>1, <2>2, <2>4, <2>5, Landing, TasksAssumption
<1>3. ASSUME NEW u \in Tasks PROVE ~Prepare(u)
  BY <1>0 DEF Prepare, SetUp, NetUp, At
<1>4. ASSUME NEW u \in Tasks PROVE ~Settle(u)
  BY <1>0, ConfigureIsPlain, ConfAssumption DEF Settle, Call
<1>5. ASSUME NEW u \in Tasks PROVE ~ToeStep(u)
  <2>1. \A q : ~ToeCall(u, q)
    BY <1>0 DEF ToeCall
  <2>2. ~Access(u)
    BY <1>1 DEF Access, Enter, Select, Transfer, Leave
  <2> QED
    BY <1>0, <2>1, <2>2 DEF ToeStep, Load, Store, TestSending, WaitSendOk, ReachChip, Scan, Take,
       Opened, Free, CallSocket, CallOpen, CallSend, CallClose, CallRelease, At
<1> QED
  BY <1>2, <1>3, <1>4, <1>5 DEF Next

(* A step that leaves the registers of the configuration alone, and its    *)
(* task with steps of a socket function.                                   *)
LEMMA SettledOn ==
  ASSUME Settled, Typed', UNCHANGED <<netUp, asked>>, \A r \in Chosen : regs'[r] = regs[r],
         NEW t \in Tasks, program'[t] \in Seq(BusySteps),
         \A u \in Tasks \ {t} : program'[u] = program[u]
  PROVE  ConfInv'
<1>1. PICK R, G, a : R = regs /\ G = regs' /\ a = asked
  OBVIOUS
<1>2. Ready(G, a)
  BY <1>1, ReadyOn DEF Settled
<1>3. Settled'
  BY <1>1, <1>2 DEF Settled
<1> QED
  BY <1>3 DEF ConfInv, Settled

(* A step that leaves every register alone.                                *)
LEMMA SettledStill ==
  ASSUME Settled, Typed, UNCHANGED <<regs, saved, netUp, asked>>, NEW t \in Tasks,
         program'[t] \in Seq(BusySteps), \A u \in Tasks \ {t} : program'[u] = program[u]
  PROVE  ConfInv'
<1>1. Typed'
  BY DEF Typed
<1> QED
  BY <1>1, SettledOn

(* Register accesses of socket functions are commands to sockets.          *)
LEMMA SettledReach ==
  ASSUME Shapes, Programs, Bus, Typed, Settled, NEW t \in Tasks, ReachChip(t)
  PROVE  ConfInv'
<1>0. UNCHANGED <<netUp, asked>> /\ program[t] \in Seq(BusySteps)
  BY DEF ReachChip, confVars, Settled
<1>1. CASE Enter(t) \/ Select(t)
  <2>1. UNCHANGED <<program, regs, saved>>
    BY <1>1 DEF Enter, Select
  <2> QED
    BY <1>0, <2>1, SettledStill
<1>2. CASE Transfer(t)
  <2>1. /\ program' = program /\ access[t] = "addressed"
    BY <1>2 DEF Transfer
  <2>2. Current(t).kind \in {"read", "write"} /\ program[t] # <<>>
    BY <2>1, FrameCarries
  <2>3. IsCommand(Current(t), fd[t])
    <3>1. TaskOK(program[t], fd[t])
      BY DEF Programs
    <3>2. Head(program[t]).kind \in {"read", "write"} => IsCommand(Head(program[t]), fd[t])
      BY <1>0, <2>2, <3>1, BusyHead
    <3> QED
      BY <2>2, <3>2 DEF Current
  <2>4. /\ Typed'
        /\ \A r \in Register :
             LET e == Effect(Current(t), r, [reg |-> regs[r], saved |-> saved[t][r]]) IN
             e.reg = regs'[r] /\ e.saved = saved'[t][r]
    BY <1>2, TransferDoes
  <2>5. \A r \in Chosen : regs'[r] = regs[r]
    <3> SUFFICES ASSUME NEW r \in Chosen PROVE regs'[r] = regs[r]
      OBVIOUS
    <3>1. r \in Register /\ r \notin {"CR0", "CR1"}
      BY DEF Chosen
    <3>2. /\ Current(t).kind = "write" /\ Current(t).how = "given" /\ Current(t).reg # r
      BY <2>3, <3>1 DEF IsCommand, CR
    <3>3. Effect(Current(t), r, [reg |-> regs[r], saved |-> saved[t][r]]).reg = regs[r]
      BY <3>2 DEF Effect
    <3> QED
      BY <2>4, <3>1, <3>3
  <2> QED
    BY <1>0, <2>1, <2>4, <2>5, SettledOn
<1>3. CASE Leave(t)
  <2>1. UNCHANGED <<regs, saved>> /\ Done(t) /\ program[t] # <<>>
    BY <1>3 DEF Leave, Bus, Accesses, At, Idle
  <2>2. program'[t] = Tail(program[t]) /\ \A u \in Tasks \ {t} : program'[u] = program[u]
    BY <2>1, DoneOne
  <2>3. Tail(program[t]) \in Seq(BusySteps)
    BY <1>0, <2>1, HeadTailProperties
  <2> QED
    BY <1>0, <2>1, <2>2, <2>3, SettledStill
<1> QED
  BY <1>1, <1>2, <1>3 DEF ReachChip, Access

(* The steps on the shared words and calls are of socket functions too.    *)
LEMMA SettledToe ==
  ASSUME Shapes, Programs, Bus, Typed, Settled, NEW t \in Tasks, ToeStep(t)
  PROVE  ConfInv'
<1>0. program[t] \in Seq(BusySteps) /\ TaskOK(program[t], fd[t])
  BY DEF Settled, Programs
<1>1. ASSUME Done(t), program[t] # <<>>, UNCHANGED <<regs, saved, confVars>> PROVE ConfInv'
  <2>1. program'[t] = Tail(program[t]) /\ \A u \in Tasks \ {t} : program'[u] = program[u]
    BY <1>1, DoneOne
  <2>2. Tail(program[t]) \in Seq(BusySteps)
    BY <1>0, <1>1, HeadTailProperties
  <2> QED
    BY <1>1, <2>1, <2>2, SettledStill DEF confVars
<1>2. ASSUME NEW q \in Seq(BusySteps), program' = [program EXCEPT ![t] = q],
             UNCHANGED <<regs, saved, confVars>>
      PROVE  ConfInv'
  <2>1. program'[t] = q /\ \A u \in Tasks \ {t} : program'[u] = program[u]
    BY <1>2, OneProgram
  <2> QED
    BY <1>2, <2>1, SettledStill DEF confVars
<1>3. CASE Load(t) \/ Store(t)
  BY <1>3, <1>1 DEF Load, Store, At, Idle
<1>4. CASE Take(t) \/ Opened(t) \/ Free(t)
  BY <1>4, <1>1 DEF Take, Opened, Free, At, Idle
<1>5. <<>> \in Seq(BusySteps)
  BY EmptySeq
<1>6. CASE TestSending(t) \/ WaitSendOk(t)
  <2>1. program[t] # <<>> /\ Head(program[t]).kind \in {"test", "wait"}
    BY <1>6 DEF TestSending, WaitSendOk, At, Idle, Current
  <2>2. fd[t] \in Sockets /\ Head(program[t]).val = fd[t]
    BY <1>0, <2>1, HeadOK DEF Plain, IsCommand, OnWord
  <2>3. PICK f \in Sockets : f = Current(t).val
    BY <2>2 DEF Current
  <2>4. \/ Done(t)
        \/ program' = [program EXCEPT ![t] = Transmit(f)]
        \/ program' = [program EXCEPT ![t] = Clear(f) \o Transmit(f)]
        \/ program' = [program EXCEPT ![t] = <<>>]
    BY <1>6, <2>3 DEF TestSending, WaitSendOk
  <2>5. UNCHANGED <<regs, saved, confVars>>
    BY <1>6 DEF TestSending, WaitSendOk
  <2>6. Transmit(f) \in Seq(BusySteps) /\ Clear(f) \o Transmit(f) \in Seq(BusySteps)
    BY BusyLists
  <2> QED
    BY <1>1, <1>2, <1>5, <2>1, <2>4, <2>5, <2>6
<1>7. CASE Scan(t)
  <2>1. program[t] # <<>> /\ Head(program[t]).kind = "scan"
    BY <1>7 DEF Scan, At, Idle, Current
  <2>2. Head(program[t]).val \in 0..2
    BY <1>0, <2>1, LastOK
  <2>3. PICK v \in 0..2 : v = Current(t).val
    BY <2>2 DEF Current
  <2>4. PICK q : /\ program' = [program EXCEPT ![t] = q]
                 /\ q = <<>> \/ (v \in Sockets /\ q = <<Step("take", v)>>) \/ q = <<Step("scan", v + 1)>>
    BY <1>7, <2>3 DEF Scan, ScanFinds
  <2>5. q \in Seq(BusySteps)
    <3>1. v \in Sockets => <<Step("take", v)>> \in Seq(BusySteps)
      BY BusyLists
    <3>2. <<Step("scan", v + 1)>> \in Seq(BusySteps)
      BY ScanIsBusy
    <3> QED
      BY <1>5, <2>4, <3>1, <3>2
  <2> QED
    BY <1>7, <1>2, <2>4, <2>5 DEF Scan
<1>8. ASSUME NEW q \in Seq(BusySteps), ToeCall(t, q) PROVE ConfInv'
  BY <1>8, <1>2 DEF ToeCall
<1>9. CASE CallSocket(t)
  <2>1. <<Step("scan", 0)>> \in Seq(BusySteps)
    BY ScanIsBusy
  <2> QED
    BY <1>8, <1>9, <2>1 DEF CallSocket
<1>10. CASE CallOpen(t) \/ CallSend(t) \/ CallClose(t) \/ CallRelease(t)
  <2>1. PICK f \in Sockets : f = fd[t]
    BY <1>10 DEF CallOpen, CallSend, CallClose, CallRelease, Shapes
  <2>2. /\ socket(f) \o <<Step("opened", f)>> \in Seq(BusySteps)
        /\ close(f) \o <<Step("free", f)>> \in Seq(BusySteps)
        /\ <<>> \o <<Step("free", f)>> \in Seq(BusySteps)
        /\ <<Step("test", f)>> \in Seq(BusySteps)
    BY BusyLists
  <2>3. PICK q : /\ ToeCall(t, q)
                 /\ \/ q = socket(f) \o <<Step("opened", f)>>
                    \/ q = close(f) \o <<Step("free", f)>>
                    \/ q = <<>> \o <<Step("free", f)>>
                    \/ q = <<Step("test", f)>>
    BY <1>10, <2>1 DEF CallOpen, CallSend, CallClose, CallRelease
  <2> QED
    BY <1>8, <2>2, <2>3
<1>11. CASE ReachChip(t)
  BY <1>11, SettledReach
<1> QED
  BY <1>3, <1>4, <1>6, <1>7, <1>9, <1>10, <1>11 DEF ToeStep

(* What a configuration call notes as asked for is what its function       *)
(* leaves.                                                                 *)
LEMMA ConfigureReady ==
  ASSUME Ready(regs, asked), NEW t, Configure(t), NEW S
  PROVE  \E q \in Seq(PlainSteps) : \E id, s :
           Call(t, q, id, s) /\ Ready(After(q, regs, S), Asked(id, s))
<1>1. CASE CallReset(t)
  BY <1>1, ResetIsPlain, ResetReady DEF CallReset
<1>2. CASE CallInit(t)
  <2>1. PICK tx \in GivenSizes, rx \in GivenSizes :
          Call(t, wizchip_init(tx, rx), asked.identity, ChipDefaults)
    BY <1>2, ConfAssumption, AskedAreGiven DEF CallInit
  <2>2. wizchip_init(tx, rx) \in Seq(PlainSteps)
    BY InitIsPlain
  <2>3. Ready(After(wizchip_init(tx, rx), regs, S), Asked(asked.identity, ChipDefaults))
    BY InitReady
  <2> QED
    BY <2>1, <2>2, <2>3
<1>3. CASE CallSetNetInfo(t)
  BY <1>3, SettingsArePlain, NetInfoReady DEF CallSetNetInfo, Now
<1>4. CASE CallSetNetMode(t)
  <2>1. PICK m \in {"pingblock", "forcearp"} :
          Call(t, wizchip_setnetmode(m), asked.identity, [asked.settings EXCEPT !.modes = @ \cup {m}])
    BY <1>4 DEF CallSetNetMode, Now
  <2>2. wizchip_setnetmode(m) \in Seq(PlainSteps)
    BY SettingsArePlain
  <2>3. Ready(After(wizchip_setnetmode(m), regs, S),
              Asked(asked.identity, [asked.settings EXCEPT !.modes = @ \cup {m}]))
    BY NetModeReady
  <2> QED
    BY <2>1, <2>2, <2>3
<1>5. CASE CallSetTimeout(t)
  BY <1>5, SettingsArePlain, TimeoutReady DEF CallSetTimeout, Now
<1>6. CASE CallSetInterruptMask(t)
  BY <1>6, SettingsArePlain, MaskReady DEF CallSetInterruptMask, Now
<1>7. CASE CallSetPhyConf(t)
  <2>1. PICK c \in PhyConf :
          Call(t, wizphy_setphyconf(c), asked.identity, [asked.settings EXCEPT !.conf = c, !.down = FALSE])
    BY <1>7 DEF CallSetPhyConf, Now
  <2>2. wizphy_setphyconf(c) \in Seq(PlainSteps)
    BY PhyIsPlain
  <2>3. Ready(After(wizphy_setphyconf(c), regs, S),
              Asked(asked.identity, [asked.settings EXCEPT !.conf = c, !.down = FALSE]))
    BY PhyConfReady
  <2> QED
    BY <2>1, <2>2, <2>3
<1>8. CASE CallResetPhy(t)
  BY <1>8, PhyIsPlain, PhyResetReady DEF CallResetPhy, Now
<1>9. CASE CallSetPhyPower(t)
  <2>1. PICK down \in BOOLEAN :
          Call(t, wizphy_setphypmode(down), asked.identity,
               IF ~regs["PHYCFGR"].opmd THEN asked.settings
               ELSE [asked.settings EXCEPT !.down = down, !.conf.mode = IF down THEN @ ELSE "auto"])
    BY <1>9 DEF CallSetPhyPower, Now
  <2>2. wizphy_setphypmode(down) \in Seq(PlainSteps)
    BY PhyIsPlain
  <2>3. Ready(After(wizphy_setphypmode(down), regs, S),
              Asked(asked.identity, IF ~regs["PHYCFGR"].opmd THEN asked.settings
                ELSE [asked.settings EXCEPT !.down = down, !.conf.mode = IF down THEN @ ELSE "auto"]))
    BY PhyPowerReady
  <2> QED
    BY <2>1, <2>2, <2>3
<1> QED
  BY <1>1, <1>2, <1>3, <1>4, <1>5, <1>6, <1>7, <1>8, <1>9 DEF Configure

(* A configuration call begins on a chip that is ready.                    *)
LEMMA SettledSettle ==
  ASSUME Shapes, Bus, Typed, Settled, NEW t \in Tasks, Settle(t)
  PROVE  ConfInv'
<1>1. PICK q \in Seq(PlainSteps) : \E id, s :
        Call(t, q, id, s) /\ Ready(After(q, regs, saved[t]), Asked(id, s))
  BY ConfigureReady DEF Settle, Settled
<1>2. PICK id, s : Call(t, q, id, s) /\ Ready(After(q, regs, saved[t]), Asked(id, s))
  BY <1>1
<1>3. /\ \A u \in Tasks : Idle(u)
      /\ asked' = Asked(id, s) /\ UNCHANGED <<access, saved, regs, netUp, workload>>
      /\ program' = [program EXCEPT ![t] = q] /\ workload = "configure"
  BY <1>2 DEF Call, Settle
<1>4. program'[t] = q /\ \A u \in Tasks \ {t} : program'[u] = <<>>
  BY <1>3, OneProgram DEF Idle
<1>5. access'[t] # "done"
  BY <1>3 DEF Bus, Accesses, At
<1>6. Typed'
  BY <1>3 DEF Typed
<1>7. Ready(After(program'[t], regs', saved'[t]), asked')
  BY <1>2, <1>3, <1>4
<1>8. netUp'
  BY <1>3 DEF Settled
<1> QED
  BY <1>1, <1>3, <1>4, <1>5, <1>6, <1>7, <1>8, Landing

(* A chip that is up stays ready.                                          *)
LEMMA SettledKept ==
  ASSUME Shapes, Programs, Bus, Unready, Typed, Settled, Next
  PROVE  ConfInv'
<1>1. ~StartUp
  BY DEF StartUp, Unready, Settled
<1>2. ASSUME NEW t \in Tasks PROVE ~Prepare(t)
  <2>1. program[t] # <<>> => Head(program[t]).kind \notin {"pin", "cris", "cs", "spi", "burst", "up"}
    BY BusyHead DEF Settled, Programs
  <2> QED
    BY <2>1 DEF Prepare, SetUp, NetUp, At, Idle, Current
<1> QED
  BY <1>1, <1>2, SettledToe, SettledSettle DEF Next

(* The invariant is inductive.                                             *)
LEMMA ConfStep ==
  ASSUME ToeInv, ConfInv, [Next]_vars
  PROVE  ConfInv'
<1>1. CASE Next
  <2>1. /\ Shapes /\ Programs /\ Bus /\ Unready /\ Typed
        /\ ~netUp => asked = Asked("own", ChipDefaults)
    BY DEF ToeInv, ConfInv
  <2> QED
    BY <1>1, <2>1, SettledKept, UnbegunKept, MovingKept DEF ConfInv
<1>2. CASE UNCHANGED vars
  <2>1. UNCHANGED <<program, access, saved, regs, netUp, asked, workload>>
    BY <1>2 DEF vars, spiVars, confVars
  <2>2. Typed'
    BY <2>1 DEF ConfInv, Typed
  <2>3. Settled => Settled'
    BY <2>1 DEF Settled
  <2>4. Unbegun => Unbegun'
    BY <2>1 DEF Unbegun, Idle
  <2>5. ASSUME NEW t \in Tasks, Moving(t) PROVE Moving(t)'
    <3>1. Coming(t)' = Coming(t)
      BY <2>1 DEF Coming, Rest
    <3> QED
      BY <2>1, <2>5, <3>1 DEF Moving, Idle
  <2> QED
    BY <2>1, <2>2, <2>3, <2>4, <2>5 DEF ConfInv
<1> QED
  BY <1>1, <1>2

(* It holds in every reachable state, for any number of tasks, calls and   *)
(* buffer sizes.                                                           *)
THEOREM ConfInvariant == Spec => [](ToeInv /\ ConfInv)
<1>1. Init => ToeInv /\ ConfInv
  BY InitInv, ConfBegins
<1>2. ToeInv /\ ConfInv /\ [Next]_vars => (ToeInv /\ ConfInv)'
  BY StepInv, ConfStep
<1> QED
  BY <1>1, <1>2, PTL DEF Spec

(* Whatever resets, settings and PHY modes are asked for in whatever       *)
(* order, with nothing running the registers say what was asked last:      *)
(* wizchip_sw_reset loses no part of the identity, the buffers never       *)
(* exceed the memory, the PHY is out of reset, in the mode asked for.      *)
THEOREM ConfigurationIsKept == Spec => []ConfigurationKept
<1>1. ASSUME ConfInv PROVE ConfigurationKept
  <2> SUFFICES ASSUME netUp, \A t \in Tasks : Idle(t)
               PROVE  Configured(regs, asked)
    BY DEF ConfigurationKept
  <2>1. Settled
    BY <1>1 DEF ConfInv, Unbegun, Moving, Idle
  <2> QED
    BY <2>1 DEF Settled, Ready
<1> QED
  BY <1>1, ConfInvariant, PTL

(* Task t makes the whole of its next step at once: the registers and what *)
(* t has read become what the step makes of them, and nobody else moves.   *)
StepsWhole(t) ==
  /\ Rest(t) # <<>> /\ Rest(t)' = Tail(Rest(t))
  /\ \A r \in Register : LET e == Effect(Head(Rest(t)), r, [reg |-> regs[r], saved |-> saved[t][r]]) IN
                         e.reg = regs'[r] /\ e.saved = saved'[t][r]
  /\ \A u \in Tasks \ {t} : Rest(u)' = Rest(u) /\ saved'[u] = saved[u]

(* Every change of a register, or of what a task has read, is one whole    *)
(* step of one task.                                                       *)
AccessesAtomic == [][UNCHANGED <<regs, saved>> \/ \E t \in Tasks : StepsWhole(t)]_vars

(* The transfer of an access is the moment its step takes effect.          *)
LEMMA TransferWhole ==
  ASSUME Shapes, Bus, Typed, NEW t \in Tasks, Transfer(t)
  PROVE  StepsWhole(t)
<1>1. /\ access[t] = "addressed" /\ access'[t] = "done" /\ program' = program
      /\ \A u \in Tasks \ {t} : access'[u] = access[u] /\ access[u] = "out"
  BY DEF Transfer, Shapes, Bus
<1>2. program[t] # <<>>
  BY <1>1, FrameCarries
<1>3. Rest(t) = program[t] /\ Rest(t)' = Tail(program[t])
  BY <1>1 DEF Rest
<1>4. \A r \in Register : LET e == Effect(Head(Rest(t)), r, [reg |-> regs[r], saved |-> saved[t][r]]) IN
                          e.reg = regs'[r] /\ e.saved = saved'[t][r]
  BY <1>3, TransferDoes DEF Current
<1>5. \A u \in Tasks \ {t} : Rest(u)' = Rest(u)
  BY <1>1 DEF Rest
<1>6. \A u \in Tasks \ {t} : saved'[u] = saved[u]
  BY DEF Transfer, Typed
<1> QED
  BY <1>2, <1>3, <1>4, <1>5, <1>6 DEF StepsWhole

(* So does the pulse on the reset pin; other steps change no register.     *)
LEMMA PrepareWhole ==
  ASSUME Shapes, Bus, Typed, NEW t \in Tasks, Prepare(t)
  PROVE  UNCHANGED <<regs, saved>> \/ StepsWhole(t)
<1>1. CASE NetUp(t)
  BY <1>1 DEF NetUp
<1>2. CASE SetUp(t) /\ Current(t).kind # "pin"
  BY <1>2 DEF SetUp
<1>3. CASE SetUp(t) /\ Current(t).kind = "pin"
  <2>1. /\ Head(program[t]).kind = "pin" /\ program[t] # <<>> /\ Done(t)
        /\ regs' = AfterReset /\ UNCHANGED <<saved, access>>
    BY <1>3 DEF SetUp, At, Idle, Current
  <2>2. access[t] = "out"
    BY <2>1 DEF Bus, Accesses, At, Current
  <2>3. program'[t] = Tail(program[t]) /\ \A u \in Tasks \ {t} : program'[u] = program[u]
    BY <2>1, DoneOne
  <2>4. /\ Rest(t) = program[t] /\ Rest(t)' = Tail(program[t])
        /\ \A u \in Tasks \ {t} : Rest(u)' = Rest(u)
    BY <2>1, <2>2, <2>3 DEF Rest
  <2>5. \A r, c : /\ Effect(Head(program[t]), r, c).reg = AfterReset[r]
                  /\ Effect(Head(program[t]), r, c).saved = c.saved
    BY <2>1 DEF Effect
  <2>6. \A r \in Register : LET e == Effect(Head(Rest(t)), r, [reg |-> regs[r], saved |-> saved[t][r]]) IN
                            e.reg = regs'[r] /\ e.saved = saved'[t][r]
    BY <2>1, <2>4, <2>5
  <2> QED
    BY <2>1, <2>4, <2>6 DEF StepsWhole
<1> QED
  BY <1>1, <1>2, <1>3 DEF Prepare

(* Every step of the system.                                               *)
LEMMA NextWhole ==
  ASSUME Shapes, Bus, Typed, Next
  PROVE  UNCHANGED <<regs, saved>> \/ \E t \in Tasks : StepsWhole(t)
<1>1. CASE StartUp
  BY <1>1 DEF StartUp
<1>2. ASSUME NEW t \in Tasks, ToeStep(t) PROVE UNCHANGED <<regs, saved>> \/ StepsWhole(t)
  <2>1. CASE ReachChip(t)
    <3>1. CASE Transfer(t)
      BY <3>1, TransferWhole
    <3>2. CASE Enter(t) \/ Select(t) \/ Leave(t)
      BY <3>2 DEF Enter, Select, Leave
    <3> QED
      BY <2>1, <3>1, <3>2 DEF ReachChip, Access
  <2>2. CASE ~ReachChip(t)
    BY <1>2, <2>2 DEF ToeStep, Load, Store, TestSending, WaitSendOk, Scan, Take, Opened, Free,
                      CallSocket, CallOpen, CallSend, CallClose, CallRelease, ToeCall
  <2> QED
    BY <2>1, <2>2
<1>3. ASSUME NEW t \in Tasks, Prepare(t) PROVE UNCHANGED <<regs, saved>> \/ StepsWhole(t)
  BY <1>3, PrepareWhole
<1>4. ASSUME NEW t \in Tasks, Settle(t) PROVE UNCHANGED <<regs, saved>>
  BY <1>4, ConfigureIsPlain, ConfAssumption DEF Settle, Call
<1> QED
  BY <1>1, <1>2, <1>3, <1>4 DEF Next

(* The four moves by which a task reaches the chip, interleaved in any way *)
(* with those of the other tasks, do to the registers and to what the task *)
(* has read what its step alone does: the critical section makes register  *)
(* accesses atomic, which the other modules take them to be.               *)
THEOREM AccessesAreAtomic == Spec => AccessesAtomic
<1>1. ASSUME ToeInv, ConfInv, [Next]_vars
      PROVE  [UNCHANGED <<regs, saved>> \/ \E t \in Tasks : StepsWhole(t)]_vars
  BY <1>1, NextWhole DEF ToeInv, ConfInv
<1> QED
  BY <1>1, ConfInvariant, PTL DEF Spec, AccessesAtomic
=============================================================================
