--------------------------- MODULE UdpEchoProofs ---------------------------
(***************************************************************************)
(* Proofs about UdpEcho: the datagram functions of socket.c under          *)
(* wiznet_toe.c, the buffers of the chip they move data through, and the   *)
(* echo server.  The inductive invariant UdpInv says where each layer is   *)
(* (Calling), whose the pending command and answer are (Commands,          *)
(* Answers), how far the pointers of a buffer are apart and what lies      *)
(* between them (Receiving, Sending, Layout), and what recvfrom() knows of *)
(* it (Reading).  Echo adds what the echo server has in hand, and needs    *)
(* that the server's buffer fits the transmit buffer.                      *)
(*                                                                         *)
(* The pointers count modulo PtrMod and a cell lies at its pointer modulo  *)
(* the buffer size: the first part is the arithmetic this takes.           *)
(***************************************************************************)
EXTENDS UdpEcho, SequenceTheorems, TLAPS

-----------------------------------------------------------------------------
(* Remainders                                                              *)

(* The remainder is one, and division leaves it.                           *)
LEMMA DivMod ==
  ASSUME NEW M \in Nat \ {0}, NEW x \in Int
  PROVE  /\ x % M \in 0..M - 1 /\ x \div M \in Int
         /\ x = M * (x \div M) + (x % M)
<1>1. x % M \in 0..M - 1
  BY SMT
<1>2. x \div M \in Int
  BY SMT
<1>3. x = M * (x \div M) + (x % M)
  BY SMT
<1> QED
  BY <1>1, <1>2, <1>3

(* There is one remainder only.                                            *)
LEMMA ModUnique ==
  ASSUME NEW M \in Nat \ {0}, NEW x \in Int, NEW q \in Int, NEW r \in 0..M - 1, x = M * q + r
  PROVE  x % M = r
<1>1. PICK k \in Int, t \in 0..M - 1 : k = x \div M /\ t = x % M /\ x = M * k + t
  BY DivMod
<1>2. M * k + t = M * q + r
  BY <1>1
<1>3. CASE k = q
  BY <1>1, <1>2, <1>3
<1>4. CASE k >= q + 1
  <2>1. PICK h \in Nat : k = q + 1 + h
    <3>1. k - q - 1 \in Nat
      BY <1>4
    <3> QED
      BY <3>1
  <2>2. M * k = M * q + M + M * h
    BY <2>1
  <2>3. M * h >= 0 /\ M * h \in Int /\ M * q \in Int
    BY SMT
  <2> QED
    BY <1>2, <2>2, <2>3
<1>5. CASE k <= q - 1
  <2>1. PICK h \in Nat : q = k + 1 + h
    <3>1. q - k - 1 \in Nat
      BY <1>5
    <3> QED
      BY <3>1
  <2>2. M * q = M * k + M + M * h
    BY <2>1
  <2>3. M * h >= 0 /\ M * h \in Int /\ M * k \in Int
    BY SMT
  <2> QED
    BY <1>2, <2>2, <2>3
<1> QED
  BY <1>3, <1>4, <1>5

(* A number below the modulus is its own remainder.                        *)
LEMMA ModSmall ==
  ASSUME NEW M \in Nat \ {0}, NEW x \in 0..M - 1
  PROVE  x % M = x
<1>1. PICK q \in Int : q = 0
  OBVIOUS
<1>2. x = M * q + x
  BY <1>1
<1> QED
  BY <1>2, ModUnique

(* Multiples of the modulus do not change a remainder.                     *)
LEMMA ModShift ==
  ASSUME NEW M \in Nat \ {0}, NEW x \in Int, NEW y \in Int, NEW q \in Int, y = x + M * q
  PROVE  y % M = x % M
<1>1. PICK k \in Int, t \in 0..M - 1 : t = x % M /\ x = M * k + t
  BY DivMod
<1>2. PICK j \in Int : j = k + q
  OBVIOUS
<1>3. y = M * j + t
  BY <1>1, <1>2
<1>4. y % M = t
  BY <1>3, ModUnique
<1> QED
  BY <1>1, <1>4

\* Adding to a remainder, or taking one away.
(* A remainder may be taken before adding or subtracting.                  *)
LEMMA ModAdd ==
  ASSUME NEW M \in Nat \ {0}, NEW x \in Int, NEW y \in Int
  PROVE  /\ ((x % M) + y) % M = (x + y) % M
         /\ (y - (x % M)) % M = (y - x) % M
<1>1. PICK k \in Int, t \in 0..M - 1 : t = x % M /\ x = M * k + t
  BY DivMod
<1>2. PICK a \in Int, b \in Int : a = t + y /\ b = x + y
  OBVIOUS
<1>3. b = a + M * k
  BY <1>1, <1>2
<1>4. b % M = a % M
  BY <1>3, ModShift
<1>5. PICK c \in Int, d \in Int : c = y - x /\ d = y - t
  OBVIOUS
<1>6. d = c + M * k
  <2>1. PICK g \in Int : g = M * k
    BY SMT
  <2>2. x = g + t
    BY <1>1, <2>1
  <2>3. d = c + g
    BY <1>5, <2>2
  <2> QED
    BY <2>1, <2>3
<1>7. d % M = c % M
  BY <1>6, ModShift
<1> QED
  BY <1>1, <1>2, <1>4, <1>5, <1>7

\* A pointer that counts modulo M addresses a buffer whose size divides M.
Multiple(M, S) == M % S = 0

(* A buffer size divides the range of the pointers: a pointer taken modulo *)
(* its range leads to the same place.                                      *)
LEMMA ModMod ==
  ASSUME NEW M \in Nat \ {0}, NEW S \in Nat \ {0}, Multiple(M, S), NEW x \in Int, NEW y \in Int
  PROVE  /\ ((x % M) + y) % S = (x + y) % S
         /\ (y - (x % M)) % S = (y - x) % S
<1>1. PICK k \in Int, t \in 0..M - 1 : t = x % M /\ x = M * k + t
  BY SMT
<1>2. M \in Int /\ M \div S \in Int /\ M = S * (M \div S) + (M % S)
  <2>1. PICK m \in Int : m = M
    OBVIOUS
  <2>2. m \div S \in Int /\ m = S * (m \div S) + (m % S)
    BY DivMod
  <2> QED
    BY <2>1, <2>2
<1>3. PICK p \in Int : p = M \div S
  BY <1>2
<1>4. M = S * p
  BY <1>2, <1>3 DEF Multiple
<1>5. PICK c \in Int : c = p * k
  BY SMT
<1>6. M * k = S * c
  BY <1>4, <1>5
<1>7. PICK a \in Int, b \in Int : a = t + y /\ b = x + y
  OBVIOUS
<1>8. b = a + S * c
  BY <1>1, <1>6, <1>7
<1>9. b % S = a % S
  BY <1>8, ModShift
<1>10. PICK e \in Int, d \in Int : e = y - x /\ d = y - t
  OBVIOUS
<1>11. d = e + S * c
  <2>1. PICK g \in Int : g = M * k /\ g = S * c
    BY <1>6, SMT
  <2>2. x = g + t
    BY <1>1, <2>1
  <2>3. d = e + g
    BY <1>10, <2>2
  <2> QED
    BY <2>1, <2>3
<1>12. d % S = e % S
  BY <1>11, ModShift
<1> QED
  BY <1>1, <1>7, <1>9, <1>10, <1>12

(* The same for a cell behind the pointer.                                 *)
LEMMA ModModMore ==
  ASSUME NEW M \in Nat \ {0}, NEW S \in Nat \ {0}, Multiple(M, S), NEW x \in Int, NEW y \in Int
  PROVE ((x % M) + y) % S = (x + y) % S
BY ModMod, Zenon

(* The same for the distance of a cell from the pointer.                   *)
LEMMA ModModLess ==
  ASSUME NEW M \in Nat \ {0}, NEW S \in Nat \ {0}, Multiple(M, S), NEW z \in Int, NEW g \in Int
  PROVE (g - (z % M)) % S = (g - z) % S
BY ModMod, Zenon

(* A remainder by name.                                                    *)
LEMMA ModExists ==
  ASSUME NEW M \in Nat \ {0}, NEW x \in Int
  PROVE  \E a \in 0..M - 1 : a = x % M
BY DivMod, Zenon

-----------------------------------------------------------------------------
(* Pointers and places                                                     *)

(* How far a pointer is ahead of another, and a pointer moved.             *)
Gap(M, a, b) == (a - b) % M
Moved(M, a, n) == (a + n) % M

(* Moving the first of two pointers widens the gap between them.           *)
LEMMA GapMore ==
  ASSUME NEW M \in Nat \ {0}, NEW a \in Int, NEW b \in Int, NEW n \in Nat, Gap(M, a, b) + n < M
  PROVE  Gap(M, Moved(M, a, n), b) = Gap(M, a, b) + n
<1>1. PICK x \in Int, y \in Int, z \in Int : x = a + n /\ y = 0 - b /\ z = a - b
  <2>1. a + n \in Int /\ 0 - b \in Int /\ a - b \in Int
    OBVIOUS
  <2> QED
    BY <2>1, Zenon
<1>2. ((x % M) + y) % M = (x + y) % M
  BY ModAdd
<1>3. ((z % M) + n) % M = (z + n) % M
  <2>1. n \in Int
    OBVIOUS
  <2> QED
    BY <2>1, ModAdd
<1>4. PICK t \in 0..M - 1, c \in 0..M - 1 : t = z % M /\ c = x % M
  BY ModExists, Zenon
<1>5. c - b = (x % M) + y /\ x + y = z + n
  BY <1>1, <1>4
<1>6. PICK v \in 0..M - 1 : v = t + n
  <2>1. t + n < M
    BY <1>1, <1>4 DEF Gap
  <2> QED
    BY <2>1
<1>7. v % M = v
  BY ModSmall, Zenon
<1>8. (c - b) % M = v
  BY <1>2, <1>3, <1>4, <1>5, <1>6, <1>7
<1> QED
  BY <1>1, <1>4, <1>6, <1>8 DEF Gap, Moved

(* Moving the second narrows it.                                           *)
LEMMA GapLess ==
  ASSUME NEW M \in Nat \ {0}, NEW a \in Int, NEW b \in Int, NEW n \in Nat, n <= Gap(M, a, b)
  PROVE  Gap(M, a, Moved(M, b, n)) = Gap(M, a, b) - n
<1>1. PICK x \in Int, y \in Int, z \in Int : x = b + n /\ y = 0 - n /\ z = a - b
  <2>1. b + n \in Int /\ 0 - n \in Int /\ a - b \in Int
    OBVIOUS
  <2> QED
    BY <2>1, Zenon
<1>2. (a - (x % M)) % M = (a - x) % M
  BY ModAdd
<1>3. ((z % M) + y) % M = (z + y) % M
  BY ModAdd
<1>4. PICK t \in 0..M - 1, c \in 0..M - 1 : t = z % M /\ c = x % M
  BY ModExists, Zenon
<1>5. a - x = z + y
  BY <1>1
<1>6. PICK v \in 0..M - 1 : v = t - n /\ v = t + y
  <2>1. n <= t
    BY <1>1, <1>4 DEF Gap
  <2> QED
    BY <1>1, <2>1
<1>7. v % M = v
  BY ModSmall, Zenon
<1>8. (a - c) % M = v
  BY <1>2, <1>3, <1>4, <1>5, <1>6, <1>7
<1> QED
  BY <1>1, <1>4, <1>6, <1>8 DEF Gap, Moved

(* The place of a cell counted from the moved pointer.                     *)
LEMMA PlaceMoved ==
  ASSUME NEW M \in Nat \ {0}, NEW S \in Nat \ {0}, Multiple(M, S), NEW p \in Int, NEW n \in Int,
         NEW k \in Int, NEW c, c = (p + n) % M
  PROVE  (c + k - 1) % S = (p + (k + n) - 1) % S
<1>1. PICK x \in Int, y \in Int : x = p + n /\ y = k - 1
  OBVIOUS
<1>2. ((x % M) + y) % S = (x + y) % S
  <2>1. \A a \in Int, b \in Int : ((a % M) + b) % S = (a + b) % S
    BY ModModMore, Zenon
  <2> QED
    BY <2>1, Zenon
<1>3. c \in Int /\ c + k - 1 = (x % M) + y /\ x + y = p + (k + n) - 1
  BY <1>1
<1> QED
  BY <1>2, <1>3

(* The place of the k-th cell from one pointer, counted from another.      *)
LEMMA PlaceBetween ==
  ASSUME NEW M \in Nat \ {0}, NEW S \in Nat \ {0}, Multiple(M, S), NEW r \in Int, NEW w \in Int,
         NEW k \in Int
  PROVE  (((r + k - 1) % S) - w) % S = (k - 1 - ((w - r) % M)) % S
<1>1. PICK x \in Int, y \in Int, z \in Int, g \in Int : x = r + k - 1 /\ y = 0 - w /\ z = w - r /\ g = k - 1
  <2>1. r + k - 1 \in Int /\ 0 - w \in Int /\ w - r \in Int /\ k - 1 \in Int
    OBVIOUS
  <2> QED
    BY <2>1, Zenon
<1>2. ((x % S) + y) % S = (x + y) % S
  BY ModAdd
<1>3. (g - (z % M)) % S = (g - z) % S
  <2>1. \A a \in Int, b \in Int : (b - (a % M)) % S = (b - a) % S
    BY ModModLess, Zenon
  <2> QED
    BY <2>1, Zenon
<1>4. g - z = x + y
  BY <1>1
<1>5. (x % S) - w = (x % S) + y
  <2>1. (x % S) \in Int
    BY DivMod
  <2> QED
    BY <1>1, <2>1
<1> QED
  BY <1>1, <1>2, <1>3, <1>4, <1>5

(* Counted from w, the cells from r on, d cells behind, are those a write  *)
(* of S cells at w reaches last, then those it reaches first.              *)
Placed(S, r, w, d) ==
  \A k \in 1..d + S :
    /\ ((r + k - 1) % S) \in 0..S - 1
    /\ (((r + k - 1) % S) - w) % S = IF k <= d THEN S + k - d - 1 ELSE k - d - 1

(* That is where they are when no more than a buffer lies between.         *)
LEMMA PlacesWritten ==
  ASSUME NEW M \in Nat \ {0}, NEW S \in Nat \ {0}, Multiple(M, S), NEW r \in Int, NEW w \in Int,
         NEW d \in Nat, d = (w - r) % M, d <= S
  PROVE  Placed(S, r, w, d)
<1>0. \A p \in Int, q \in Int, c \in Int :
          (((p + c - 1) % S) - q) % S = (c - 1 - ((q - p) % M)) % S
  BY PlaceBetween, Zenon
<1>1. SUFFICES ASSUME NEW k \in 1..d + S
             PROVE  /\ ((r + k - 1) % S) \in 0..S - 1
                    /\ (((r + k - 1) % S) - w) % S = IF k <= d THEN S + k - d - 1 ELSE k - d - 1
  BY DEF Placed
<1>2. PICK v \in Int, x \in Int : v = k - 1 - d /\ x = r + k - 1 /\ k \in Int
  <2>1. k - 1 - d \in Int /\ r + k - 1 \in Int /\ k \in Int
    OBVIOUS
  <2> QED
    BY <2>1, Zenon
<1>3. x % S \in 0..S - 1
  BY DivMod, Zenon
<1>4. (((r + k - 1) % S) - w) % S = v % S
  BY <1>0, <1>2, Zenon
<1>5. CASE k <= d
  <2>1. PICK u \in Int, q \in Int : u = S + k - d - 1 /\ q = 1
    <3>1. S + k - d - 1 \in Int /\ 1 \in Int
      OBVIOUS
    <3> QED
      BY <3>1, Zenon
  <2>2. u = v + S * q
    BY <1>2, <2>1
  <2>3. u % S = v % S
    BY <2>2, ModShift
  <2>4. u \in 0..S - 1
    BY <1>5, <2>1
  <2>5. u % S = u
    BY <2>4, ModSmall
  <2> QED
    BY <1>2, <1>3, <1>4, <1>5, <2>1, <2>3, <2>5
<1>6. CASE ~(k <= d)
  <2>1. v \in 0..S - 1
    BY <1>2, <1>6
  <2>2. v % S = v
    BY <2>1, ModSmall
  <2> QED
    BY <1>2, <1>3, <1>4, <1>6, <2>2
<1> QED
  BY <1>5, <1>6

(* Writing n cells at w keeps the d cells from r on, and adds the others.   *)
Appended(S, r, w, d, n, mem, cells) ==
  /\ \A k \in 1..d : Written(mem, S, w, cells)[(r + k - 1) % S] = mem[(r + k - 1) % S]
  /\ \A k \in 1..n : Written(mem, S, w, cells)[(r + (d + k) - 1) % S] = cells[k]

(* A write that fits the buffer does so.                                   *)
LEMMA CellsWritten ==
  ASSUME NEW M \in Nat \ {0}, NEW S \in Nat \ {0}, Multiple(M, S), NEW r \in Int, NEW w \in Int,
         NEW d \in Nat, d = (w - r) % M, NEW n \in Nat, d + n <= S,
         NEW mem, NEW cells, Len(cells) = n
  PROVE  Appended(S, r, w, d, n, mem, cells)
<1>1. Placed(S, r, w, d)
  <2>1. d <= S
    OBVIOUS
  <2> QED
    BY <2>1, PlacesWritten
<1>4. ASSUME NEW k \in 1..d + n
      PROVE  Written(mem, S, w, cells)[(r + k - 1) % S]
               = IF k <= d THEN mem[(r + k - 1) % S] ELSE cells[k - d]
  <2>1. k \in 1..d + S
    OBVIOUS
  <2>2. PICK a \in 0..S - 1 : a = (r + k - 1) % S /\ (a - w) % S = IF k <= d THEN S + k - d - 1 ELSE k - d - 1
    BY <1>1, <2>1, Zenon DEF Placed
  <2>3. Written(mem, S, w, cells)[a] = IF ((a - w) % S) + 1 <= n THEN cells[((a - w) % S) + 1] ELSE mem[a]
    BY DEF Written
  <2>4. CASE k <= d
    <3>1. ~(((a - w) % S) + 1 <= n)
      BY <2>2, <2>4
    <3> QED
      BY <2>2, <2>3, <2>4, <3>1
  <2>5. CASE ~(k <= d)
    <3>1. ((a - w) % S) + 1 = k - d /\ k - d <= n
      BY <2>2, <2>5
    <3> QED
      BY <2>2, <2>3, <2>5, <3>1
  <2> QED
    BY <2>4, <2>5
<1>5. ASSUME NEW k \in 1..d PROVE Written(mem, S, w, cells)[(r + k - 1) % S] = mem[(r + k - 1) % S]
  <2>1. k \in 1..d + n /\ k <= d
    OBVIOUS
  <2> QED
    BY <1>4, <2>1, Zenon
<1>6. ASSUME NEW k \in 1..n PROVE Written(mem, S, w, cells)[(r + (d + k) - 1) % S] = cells[k]
  <2>1. PICK j \in 1..d + n : j = d + k
    <3>1. d + k \in 1..d + n
      OBVIOUS
    <3> QED
      BY <3>1, Zenon
  <2>2. ~(j <= d) /\ j - d = k
    BY <2>1
  <2> QED
    BY <1>4, <2>1, <2>2, Zenon
<1> QED
  BY <1>5, <1>6 DEF Appended

-----------------------------------------------------------------------------
(* Where the functions of socket.c, wiznet_toe.c and the application are.  *)
SocketPlaces == {"socket", "socket.closed", "socket.open", "socket.wait"}
SendPlaces == {"sendto", "sendto.data", "sendto.wait"}
ReceivePlaces == {"recvfrom", "recvfrom.head", "recvfrom.size", "recvfrom.data", "recvfrom.done"}
ClosePlaces == {"close", "close.wait"}
ToePlaces == {"idle", "bind", "bind.opened", "sendto", "sendto.opened", "sendto.done", "recvfrom",
              "recvfrom.done", "multicast", "multicast.open", "multicast.opened", "close",
              "close.freed", "setsockopt"}
Calling ==
  /\ toe \in ToePlaces
  /\ io # "idle" =>
       \/ toe \in {"bind.opened", "sendto.opened", "multicast.opened"} /\ io \in SocketPlaces
       \/ toe = "sendto.done" /\ io \in SendPlaces
       \/ toe = "recvfrom.done" /\ io \in ReceivePlaces
       \/ toe \in {"multicast.open", "close.freed"} /\ io \in ClosePlaces
  /\ program \in {"loopback_udp", "any"}
  /\ program = "loopback_udp" =>
       \/ app = "start" /\ toe = "idle"
       \/ app = "recv" /\ toe \in {"idle", "bind", "bind.opened", "sendto", "sendto.opened", "sendto.done"}
       \/ app = "received" /\ toe \in {"idle", "recvfrom", "recvfrom.done"}
  /\ app = "start" => toe = "idle"

(* One command at a time, each of the function that waits for it.          *)
Commands ==
  \/ cr = "NONE"
  \/ cr = "CLOSE" /\ io \in {"close.wait", "socket.closed"}
  \/ cr = "OPEN" /\ io = "socket.wait"
  \/ cr = "SEND" /\ io = "sendto.wait"
  \/ cr = "RECV" /\ io \in {"recvfrom.size", "recvfrom.done"}
(* An answer is pending only for the SEND that sendto() waits for.         *)
Answers ==
  IF io = "sendto.wait" /\ cr = "NONE"
  THEN (busy /\ ir = {}) \/ (~busy /\ ir \in {{"SENDOK"}, {"TIMEOUT"}})
  ELSE ~busy /\ ir = {}

(* The types.                                                              *)
CellType == {"empty", "header", "data"} \X Nat \X Nat
Data == Seq(CellType)
Fields ==
  /\ sr \in {"CLOSED", "UDP"} /\ busy \in BOOLEAN
  /\ opened \in BOOLEAN /\ rcvTimeout \in {0, 1} /\ port \in {0, 1} /\ len \in Nat
  /\ packInfo \in SUBSET {"FIRST", "REMAINED"}
  /\ toe = "setsockopt" => len \in {0, 1}
  /\ remained \in 0..MaxSize
  /\ peer \in Nat /\ dst \in Nat /\ head \in CellType /\ buf \in Data
  /\ arrived \in Seq(Nat \X (0..MaxSize)) /\ out \in Seq(Nat \X Data)
Pointers ==
  /\ {rxWr, rxRd, rxRel, txRd, txWr} \subseteq Pointer
  /\ rxMem \in [0..RxSize - 1 -> CellType] /\ txMem \in [0..TxSize - 1 -> CellType]

(* Cells not read yet, and those read and not released.                    *)
Ahead == (rxWr - rxRd) % PtrMod
Held == (rxRd - rxRel) % PtrMod
Receiving ==
  /\ RX_RSR = Held + Ahead /\ RX_RSR <= RxSize
  /\ cr = "RECV" \/ rxRd = rxRel

(* What the driver has staged is the caller's datagram.                    *)
Pending == io = "sendto.wait" /\ (cr = "SEND" \/ busy)
Sending ==
  /\ toe \in {"sendto", "sendto.opened"} \/ io = "sendto" => len = Len(buf)
  /\ io \in {"sendto.data", "sendto.wait"} => dst = peer /\ port = 1 /\ len = Least(Len(buf), TxSize) /\ len > 0
  /\ IF Pending
     THEN (txWr - txRd) % PtrMod = len /\ \A k \in 1..len : txMem[(txRd + k - 1) % TxSize] = buf[k]
     ELSE txRd = txWr

(* What lies in the receive buffer: the rest of a datagram, then whole     *)
(* ones in the order of arrival.                                           *)
IsHeader(x) == x[1] = "header"
IsData(x) == x[1] = "data"
Later(u, n, r, e) == \A k \in 1..n : r < k /\ IsData(u[k]) => e < u[k][2]
Block(u, n, k, e, a) ==
  /\ a[e] = <<u[k][2], u[k][3]>> /\ k + a[e][2] <= n
  /\ \A j \in 1..a[e][2] : u[k + j] = Payload(e, j)
  /\ k + a[e][2] < n => IsHeader(u[k + a[e][2] + 1])
  /\ Later(u, n, k + a[e][2], e)
Part(u, r, e, o) == \A k \in 1..r : u[k] = Payload(e, o + k)
Whole(u, n, r, a) ==
  /\ r <= n /\ (r < n => IsHeader(u[r + 1]))
  /\ \A k \in 1..n : r < k /\ IsHeader(u[k]) => \E e \in 1..Len(a) : Block(u, n, k, e, a)
Rest == CASE io = "recvfrom.size" -> head[3]
          [] io = "recvfrom.done" -> remained - Len(buf)
          [] OTHER -> remained
Layout ==
  sr = "UDP" =>
    /\ Whole(Unread, Ahead, Rest, arrived)
    /\ \E e \in 0..Len(arrived) : \E o \in 0..MaxSize : o + Rest <= MaxSize /\ Part(Unread, Rest, e, o)

(* What recvfrom() knows at each step.                                     *)
Reading ==
  /\ io = "recvfrom.size" => remained = 0 /\ head[3] \in 0..MaxSize
  /\ io = "recvfrom.head" => remained = 0 /\ Ahead > 0
  /\ io = "recvfrom.done" => Len(buf) <= remained
  /\ io \in {"socket.open", "socket.wait"} => remained = 0
  /\ io \in {"recvfrom.head", "recvfrom.size", "recvfrom.data", "recvfrom.done"} => sr = "UDP"
  /\ remained # 0 /\ io \notin {"close.wait", "socket.closed"} => sr = "UDP"
  /\ io \notin {"recvfrom.data", "recvfrom.done"} => (remained > 0 <=> "REMAINED" \in packInfo)

Stream == Layout /\ Reading

(* The echo server: no datagram up to the one answered last is still to    *)
(* be read, and what the server has in hand is the beginning of a later    *)
(* one.                                                                    *)
Behind(e) == sr = "UDP" => Later(Unread, Ahead, Rest, e)
Fresh(e) == Service!Last < e /\ Behind(e)
First(e) ==
  /\ arrived[e][1] = peer
  /\ buf = [k \in 1..Least(arrived[e][2], BufSize) |-> Payload(e, k)]
Unsent ==
  \/ io = "recvfrom.done" \/ (io = "idle" /\ toe = "recvfrom.done")
  \/ (app = "received" /\ toe = "idle") \/ toe \in {"sendto", "sendto.opened"}
  \/ io \in {"sendto", "sendto.data"} \/ Pending
Answered == Service!Last \in 0..Len(arrived) /\ Behind(Service!Last)
Arguments ==
  /\ app = "received" => len = BufSize
  /\ toe = "recvfrom" \/ io \in {"recvfrom", "recvfrom.head", "recvfrom.size"} => buf = <<>> /\ port = 0
HeaderRead ==
  io = "recvfrom.size" /\ head[3] > 0 =>
    \E e \in 1..Len(arrived) :
      arrived[e] = <<head[2], head[3]>> /\ Fresh(e) /\ Part(Unread, Rest, e, 0)
PayloadNext ==
  io = "recvfrom.data" /\ port = 1 /\ remained > 0 =>
    \E e \in 1..Len(arrived) :
      arrived[e] = <<peer, remained>> /\ Fresh(e) /\ Part(Unread, Rest, e, 0)
ReplyNext == Unsent /\ port = 1 /\ buf # <<>> => \E e \in 1..Len(arrived) : First(e) /\ Fresh(e)
Echo ==
  program = "loopback_udp" => Answered /\ Arguments /\ HeaderRead /\ PayloadNext /\ ReplyNext
UdpInv ==
  /\ Calling /\ Commands /\ Answers /\ Fields /\ Pointers /\ Receiving /\ Sending /\ Stream

-----------------------------------------------------------------------------
(* The buffers                                                             *)

(* The constants, as the proofs use them.                                  *)
LEMMA Sizes ==
  /\ PtrMod \in Nat \ {0} /\ RxSize \in Nat \ {0} /\ TxSize \in Nat \ {0}
  /\ RxSize < PtrMod /\ TxSize < PtrMod
  /\ Multiple(PtrMod, RxSize) /\ Multiple(PtrMod, TxSize)
  /\ Pointer \subseteq Nat
<1>1. PtrMod \in Nat \ {0}
  BY UdpChipAssumption
<1>2. Pointer \subseteq Nat
  BY <1>1 DEF Pointer
<1> QED
  BY UdpChipAssumption, <1>1, <1>2 DEF Multiple

(* A pointer moved is a pointer.                                           *)
LEMMA ForwardType ==
  ASSUME NEW p \in Int, NEW n \in Int
  PROVE  Forward(p, n) \in Pointer /\ Forward(p, n) \in Nat
<1>1. PICK x \in Int : x = p + n
  OBVIOUS
<1>2. x % PtrMod \in 0..PtrMod - 1
  BY Sizes, DivMod, Zenon
<1> QED
  BY <1>1, <1>2, Sizes DEF Forward, Pointer

(* The sizes as gaps between pointers.                                     *)
LEMMA Gaps ==
  /\ Ahead = Gap(PtrMod, rxWr, rxRd) /\ Held = Gap(PtrMod, rxRd, rxRel)
  /\ RX_RSR = Gap(PtrMod, rxWr, rxRel)
  /\ \A p, n : Forward(p, n) = Moved(PtrMod, p, n)
BY DEF Ahead, Held, RX_RSR, Gap, Forward, Moved

(* What every pointer is.                                                  *)
LEMMA PointersCount ==
  ASSUME Pointers
  PROVE  rxWr \in Nat /\ rxRd \in Nat /\ rxRel \in Nat /\ txRd \in Nat /\ txWr \in Nat
BY Sizes, Zenon DEF Pointers

(* What two sequences make together.                                       *)
LEMMA Joined ==
  ASSUME NEW T, NEW u \in Seq(T), NEW v \in Seq(T)
  PROVE  /\ u \o v \in Seq(T) /\ Len(u \o v) = Len(u) + Len(v)
         /\ \A k \in 1..Len(u) : (u \o v)[k] = u[k]
         /\ \A k \in 1..Len(v) : (u \o v)[Len(u) + k] = v[k]
BY ConcatProperties

(* The sizes the driver and the chip compute are counts of cells.          *)
LEMMA Counts ==
  ASSUME Pointers
  PROVE  Ahead \in Nat /\ Held \in Nat /\ RX_RSR \in Nat /\ Len(Unread) = Ahead
<1>1. PICK x \in Int, y \in Int, z \in Int : x = rxWr - rxRd /\ y = rxRd - rxRel /\ z = rxWr - rxRel
  <2>1. rxWr \in Int /\ rxRd \in Int /\ rxRel \in Int
    BY PointersCount
  <2> QED
    BY <2>1
<1>2. x % PtrMod \in 0..PtrMod - 1 /\ y % PtrMod \in 0..PtrMod - 1 /\ z % PtrMod \in 0..PtrMod - 1
  BY Sizes, DivMod, Zenon
<1>3. Ahead \in Nat /\ Held \in Nat /\ RX_RSR \in Nat
  BY <1>1, <1>2, Sizes DEF Ahead, Held, RX_RSR
<1> QED
  BY <1>3 DEF Unread, Cells, Ahead

(* A cell of a buffer.                                                     *)
LEMMA UnreadCell ==
  ASSUME NEW k \in 1..Ahead
  PROVE  Unread[k] = rxMem[(rxRd + k - 1) % RxSize]
BY DEF Unread, Cells, Ahead

(* A datagram arrives behind what is there.                                *)
LEMMA Arrives ==
  ASSUME Pointers, Receiving, Fields, Arrive
  PROVE  \E from \in Sources, size \in 0..MaxSize :
           /\ arrived' = Append(arrived, <<from, size>>)
           /\ Ahead' = Ahead + 1 + size /\ Held' = Held
           /\ RX_RSR' = RX_RSR + 1 + size /\ RX_RSR' <= RxSize
           /\ Pointers'
           /\ \A k \in 1..Ahead : Unread'[k] = Unread[k]
           /\ Unread'[Ahead + 1] = Header(from, size)
           /\ \A k \in 1..size : Unread'[Ahead + 1 + k] = Payload(Len(arrived) + 1, k)
<1>1. PICK from \in Sources, size \in 0..MaxSize :
        /\ 1 + size <= RxSize - RX_RSR
        /\ arrived' = Append(arrived, <<from, size>>)
        /\ rxMem' = Written(rxMem, RxSize, rxWr, Datagram(Len(arrived'), from, size))
        /\ rxWr' = Forward(rxWr, 1 + size)
  BY DEF Arrive
<1>2. UNCHANGED <<rxRd, rxRel, txMem, txRd, txWr>>
  BY DEF Arrive
<1>3. PICK n \in Nat : n = 1 + size /\ size \in Nat
  BY UdpChipAssumption
<1>4. PICK c : c = Datagram(Len(arrived'), from, size)
  OBVIOUS
<1>5. /\ Len(c) = n
      /\ c[1] = Header(from, size)
      /\ \A k \in 1..size : c[1 + k] = Payload(Len(arrived) + 1, k)
      /\ \A k \in 1..n : c[k] \in CellType
  <2>1. PICK u, v : u = <<Header(from, size)>> /\ v = [k \in 1..size |-> Payload(Len(arrived'), k)]
    OBVIOUS
  <2>2. Len(arrived') = Len(arrived) + 1 /\ Len(arrived) \in Nat
    BY <1>1 DEF Fields
  <2>3. PICK e \in Nat : e = Len(arrived')
    BY <2>2
  <2>4. Header(from, size) \in CellType /\ \A k \in 1..size : v[k] = Payload(e, k) /\ v[k] \in CellType
    <3>1. from \in Nat
      BY UdpChipAssumption
    <3>2. Header(from, size) \in CellType
      BY <1>3, <3>1 DEF CellType, Header
    <3>3. \A k \in 1..size : Payload(e, k) \in CellType
      BY <1>3 DEF CellType, Payload
    <3> QED
      BY <2>1, <2>3, <3>2, <3>3
  <2>5. u \in Seq(CellType) /\ v \in Seq(CellType) /\ Len(u) = 1 /\ Len(v) = size /\ u[1] = Header(from, size)
    BY <1>3, <2>1, <2>4
  <2>6. c = u \o v
    BY <1>4, <2>1 DEF Datagram
  <2>10. /\ Len(c) = Len(u) + Len(v)
         /\ \A k \in 1..Len(u) : c[k] = u[k]
         /\ \A k \in 1..Len(v) : c[Len(u) + k] = v[k]
    <3>1. /\ Len(u \o v) = Len(u) + Len(v)
          /\ \A k \in 1..Len(u) : (u \o v)[k] = u[k]
          /\ \A k \in 1..Len(v) : (u \o v)[Len(u) + k] = v[k]
      <4>1. u \in Seq(CellType) /\ v \in Seq(CellType)
        BY <2>5
      <4>2. \A f \in Seq(CellType), g \in Seq(CellType) :
              /\ Len(f \o g) = Len(f) + Len(g)
              /\ \A k \in 1..Len(f) : (f \o g)[k] = f[k]
              /\ \A k \in 1..Len(g) : (f \o g)[Len(f) + k] = g[k]
        BY Joined
      <4> QED
        BY <4>1, <4>2, Zenon
    <3> QED
      BY <2>6, <3>1
  <2>7. Len(c) = n
    BY <1>3, <2>5, <2>10
  <2>8. c[1] = u[1] /\ \A k \in 1..size : c[1 + k] = v[k]
    BY <2>5, <2>10
  <2>9. \A k \in 1..n : c[k] \in CellType
    <3>1. c \in Seq(CellType)
      BY <2>5, <2>6
    <3> QED
      BY <2>7, <3>1
  <2> QED
    BY <2>2, <2>3, <2>4, <2>5, <2>7, <2>8, <2>9
<1>6. /\ rxWr \in Int /\ rxRd \in Int /\ rxRel \in Int
      /\ Ahead \in Nat /\ Held \in Nat /\ RX_RSR \in Nat
      /\ RX_RSR = Held + Ahead /\ RX_RSR + n <= RxSize /\ Ahead + n <= RxSize
      /\ RX_RSR + n < PtrMod /\ Ahead + n < PtrMod
  <2>1. RX_RSR = Held + Ahead
    BY DEF Receiving
  <2>2. /\ rxWr \in Int /\ rxRd \in Int /\ rxRel \in Int
        /\ Ahead \in Nat /\ Held \in Nat /\ RX_RSR \in Nat
    BY PointersCount, Counts
  <2>3. RX_RSR + n <= RxSize /\ RxSize < PtrMod /\ RxSize \in Nat /\ PtrMod \in Nat
    BY <1>1, <1>3, <2>2, Sizes
  <2> QED
    BY <2>1, <2>2, <2>3
<1>7. Gap(PtrMod, Moved(PtrMod, rxWr, n), rxRd) = Ahead + n
  <2>1. Gap(PtrMod, rxWr, rxRd) + n < PtrMod
    BY <1>6, Gaps
  <2>2. Gap(PtrMod, Moved(PtrMod, rxWr, n), rxRd) = Gap(PtrMod, rxWr, rxRd) + n
    BY <2>1, <1>6, Sizes, GapMore
  <2> QED
    BY <2>2, Gaps
<1>8. Gap(PtrMod, Moved(PtrMod, rxWr, n), rxRel) = RX_RSR + n
  <2>1. Gap(PtrMod, rxWr, rxRel) + n < PtrMod
    BY <1>6, Gaps
  <2>2. Gap(PtrMod, Moved(PtrMod, rxWr, n), rxRel) = Gap(PtrMod, rxWr, rxRel) + n
    BY <2>1, <1>6, Sizes, GapMore
  <2> QED
    BY <2>2, Gaps
<1>15. rxWr' = Moved(PtrMod, rxWr, n)
  BY <1>1, <1>3, Gaps
<1>9. Ahead' = Ahead + n /\ RX_RSR' = RX_RSR + n /\ Held' = Held
  BY <1>2, <1>7, <1>8, <1>15 DEF Ahead, RX_RSR, Held, Gap
<1>10. /\ \A k \in 1..Ahead : rxMem'[(rxRd + k - 1) % RxSize] = rxMem[(rxRd + k - 1) % RxSize]
       /\ \A k \in 1..n : rxMem'[(rxRd + (Ahead + k) - 1) % RxSize] = c[k]
  <2>1. Ahead = (rxWr - rxRd) % PtrMod
    BY DEF Ahead
  <2>2. Appended(RxSize, rxRd, rxWr, Ahead, n, rxMem, c)
    BY <2>1, <1>5, <1>6, Sizes, CellsWritten
  <2>3. rxMem' = Written(rxMem, RxSize, rxWr, c)
    BY <1>1, <1>4
  <2> QED
    BY <2>2, <2>3, Zenon DEF Appended
<1>11. \A k \in 1..Ahead : Unread'[k] = Unread[k]
  <2>1. SUFFICES ASSUME NEW k \in 1..Ahead PROVE Unread'[k] = Unread[k]
    OBVIOUS
  <2>2. k \in 1..Ahead'
    BY <1>6, <1>9
  <2>3. Unread'[k] = rxMem'[(rxRd' + k - 1) % RxSize]
    BY <2>2 DEF Unread, Cells, Ahead
  <2> QED
    BY <1>2, <1>10, <2>3, UnreadCell
<1>12. \A k \in 1..n : Unread'[Ahead + k] = c[k]
  <2>1. SUFFICES ASSUME NEW k \in 1..n PROVE Unread'[Ahead + k] = c[k]
    OBVIOUS
  <2>2. PICK j \in 1..Ahead' : j = Ahead + k
    BY <1>6, <1>9
  <2>3. Unread'[j] = rxMem'[(rxRd' + j - 1) % RxSize]
    BY DEF Unread, Cells, Ahead
  <2> QED
    BY <1>2, <1>10, <2>2, <2>3
<1>13. Pointers'
  <2>1. rxWr' \in Pointer
    BY <1>1, <1>3, <1>6, ForwardType
  <2>2. rxMem' \in [0..RxSize - 1 -> CellType]
    <3>1. ASSUME NEW a \in 0..RxSize - 1
          PROVE  (IF ((a - rxWr) % RxSize) + 1 <= Len(c) THEN c[((a - rxWr) % RxSize) + 1] ELSE rxMem[a]) \in CellType
      <4>1. PICK x \in Int : x = a - rxWr
        BY <1>6
      <4>2. PICK t \in 0..RxSize - 1 : t = x % RxSize
        BY Sizes, ModExists, Zenon
      <4>3. rxMem[a] \in CellType
        BY DEF Pointers
      <4>4. t + 1 \in Nat /\ t + 1 >= 1
        BY Sizes
      <4> QED
        BY <1>3, <1>5, <4>1, <4>2, <4>3, <4>4
    <3>2. rxMem' = [a \in 0..RxSize - 1 |->
             IF ((a - rxWr) % RxSize) + 1 <= Len(c) THEN c[((a - rxWr) % RxSize) + 1] ELSE rxMem[a]]
      BY <1>1, <1>4 DEF Written
    <3> QED
      BY <3>1, <3>2
  <2> QED
    BY <1>2, <2>1, <2>2 DEF Pointers
<1>14. /\ Unread'[Ahead + 1] = Header(from, size)
       /\ \A k \in 1..size : Unread'[Ahead + 1 + k] = Payload(Len(arrived) + 1, k)
  <2>1. 1 \in 1..n /\ \A k \in 1..size : 1 + k \in 1..n /\ Ahead + (1 + k) = Ahead + 1 + k
    BY <1>3, <1>6
  <2> QED
    BY <1>5, <1>12, <2>1
<1> QED
  BY <1>1, <1>3, <1>6, <1>9, <1>11, <1>13, <1>14

(* Reading n cells takes them off the front of the unread ones.            *)
LEMMA Reads ==
  ASSUME Pointers, Receiving, NEW n \in Nat, n <= Ahead, ReadTo(n), UNCHANGED rxVars
  PROVE  /\ rxRd' \in Pointer
         /\ Ahead' = Ahead - n /\ Held' = Held + n /\ RX_RSR' = RX_RSR
         /\ \A k \in 1..Ahead - n : Unread'[k] = Unread[k + n]
<1>1. /\ rxWr \in Int /\ rxRd \in Int /\ rxRel \in Int
      /\ Ahead \in Nat /\ Held \in Nat /\ RX_RSR \in Nat
      /\ RX_RSR = Held + Ahead /\ RX_RSR <= RxSize /\ Held + n < PtrMod
  <2>1. RX_RSR = Held + Ahead /\ RX_RSR <= RxSize
    BY DEF Receiving
  <2> QED
    BY <2>1, PointersCount, Counts, Sizes
<1>2. UNCHANGED <<rxMem, rxWr, rxRel>>
  BY DEF rxVars
<1>3. rxRd' = (rxRd + n) % PtrMod
  BY DEF ReadTo, Forward
<1>4. Gap(PtrMod, rxWr, Moved(PtrMod, rxRd, n)) = Ahead - n
  BY <1>1, Sizes, Gaps, GapLess
<1>5. Gap(PtrMod, Moved(PtrMod, rxRd, n), rxRel) = Held + n
  <2>1. Gap(PtrMod, rxRd, rxRel) + n < PtrMod
    BY <1>1, Gaps
  <2>2. Gap(PtrMod, Moved(PtrMod, rxRd, n), rxRel) = Gap(PtrMod, rxRd, rxRel) + n
    BY <2>1, <1>1, Sizes, GapMore
  <2> QED
    BY <2>2, Gaps
<1>6. Ahead' = Ahead - n /\ Held' = Held + n /\ RX_RSR' = RX_RSR
  BY <1>2, <1>3, <1>4, <1>5 DEF Ahead, Held, RX_RSR, Gap, Moved
<1>7. rxRd' \in Pointer
  BY <1>1, ForwardType DEF ReadTo
<1>8. ASSUME NEW k \in 1..Ahead - n PROVE Unread'[k] = Unread[k + n]
  <2>1. PICK j \in 1..Ahead : j = k + n /\ k \in Int
    BY <1>1
  <2>2. Unread'[k] = rxMem'[(rxRd' + k - 1) % RxSize]
    BY <1>6 DEF Unread, Cells, Ahead
  <2>3. (rxRd' + k - 1) % RxSize = (rxRd + (k + n) - 1) % RxSize
    <3>1. \A p \in Int, m \in Int, i \in Int : \A c : c = (p + m) % PtrMod =>
            (c + i - 1) % RxSize = (p + (i + m) - 1) % RxSize
      BY Sizes, PlaceMoved, Zenon
    <3> QED
      BY <1>1, <1>3, <2>1, <3>1
  <2> QED
    BY <1>2, <2>1, <2>2, <2>3, UnreadCell
<1> QED
  BY <1>6, <1>7, <1>8

(* A step of the application is made between two calls, and touches no     *)
(* state of socket.c or the chip but the arguments of the next call.       *)
App == Loopback \/ AnyCall \/ AnyReturned

(* It leaves the driver and the chip alone.                                *)
LEMMA AppSteps ==
  ASSUME App
  PROVE  /\ io = "idle" /\ toe = "idle"
         /\ UNCHANGED <<io, remained, packInfo, head, opened, rcvTimeout, program, udpChipVars>>
<1> USE DEF AppAt, CallToe, CallRecvfrom, CallSendto, CallSetTimeout, udpIoVars, udpToeVars
<1>1. CASE Loopback
  BY <1>1 DEF Loopback, LoopbackStart, LoopbackReceive, LoopbackEcho, LoopbackNothing
<1>2. CASE AnyCall
  BY <1>2 DEF AnyCall
<1>3. CASE AnyReturned
  BY <1>3 DEF AnyReturned
<1> QED
  BY <1>1, <1>2, <1>3 DEF App

(* A step of wiznet_toe.c is made while no function of socket.c runs.      *)
LEMMA ToeSteps ==
  ASSUME WiznetToe
  PROVE  /\ io = "idle" /\ toe # "idle"
         /\ UNCHANGED <<ioRet, remained, packInfo, head, buf, len, peer, port>>
         /\ UNCHANGED <<sr, cr, ir, joined, rxVars, rxRd, txMem, txRd, txWr, busy, arrived, out>>
         /\ toe # "multicast.open" => dst' = dst
<1> USE DEF ToeAt, ToeGoto, ToeReturn, CallIo, udpIoVars, udpChipVars
<1>1. CASE OpenSocket \/ SocketOpened
  BY <1>1 DEF OpenSocket, SocketOpened, CallSocket
<1>2. CASE ToeSendto \/ ToeSendtoDone \/ ToeRecvfrom
  BY <1>2 DEF ToeSendto, ToeSendtoDone, ToeRecvfrom
<1>3. CASE ToeMulticast \/ ToeMulticastOpen
  BY <1>3 DEF ToeMulticast, ToeMulticastOpen
<1>4. CASE ToeClose \/ ToeClosed \/ ToeSetsockopt
  BY <1>4 DEF ToeClose, ToeClosed, ToeSetsockopt
<1> QED
  BY <1>1, <1>2, <1>3, <1>4 DEF WiznetToe

(* It calls a function of socket.c, or none.                               *)
LEMMA ToeCalls ==
  ASSUME WiznetToe
  PROVE  /\ io = "idle" /\ io' \in {"idle", "socket", "sendto", "recvfrom", "close"}
         /\ toe' \in {"sendto", "sendto.opened"} \/ io' = "sendto" => toe \in {"sendto", "sendto.opened"}
BY DEF ToeAt, ToeGoto, ToeReturn, CallIo, udpIoVars, OpenSocket, SocketOpened, CallSocket,
  ToeSendto, ToeSendtoDone, ToeRecvfrom, ToeMulticast, ToeMulticastOpen, ToeClose, ToeClosed,
  ToeSetsockopt, WiznetToe

(* The steps of the whole, by who makes them.                              *)
LEMMA WhoSteps ==
  ASSUME [Next]_udpVars
  PROVE  \/ App
         \/ WiznetToe /\ UNCHANGED udpAppVars
         \/ UdpSocketC /\ UNCHANGED <<udpToeVars, udpAppVars>>
         \/ UdpChip /\ UNCHANGED <<udpIoVars, udpToeVars, udpAppVars>>
         \/ Arrive /\ UNCHANGED <<udpIoVars, udpToeVars, udpAppVars>>
         \/ UNCHANGED <<udpChipVars, udpIoVars, udpToeVars, udpAppVars>>
BY DEF Next, UdpSoftware, UdpHardware, UdpNetwork, udpVars, App

-----------------------------------------------------------------------------
(* Control                                                                 *)

(* Every layer is where the one above has called it.                       *)
LEMMA CallingKept ==
  ASSUME Calling, [Next]_udpVars
  PROVE  Calling'
<1>1. CASE App
  <2> USE DEF AppAt, CallToe, CallRecvfrom, CallSendto, CallSetTimeout, udpIoVars, udpToeVars
  <2>1. io' = "idle" /\ program' = program /\ io = "idle" /\ toe = "idle"
    BY <1>1, AppSteps
  <2>2. CASE Loopback
    BY <2>1, <2>2 DEF Loopback, LoopbackStart, LoopbackReceive, LoopbackEcho, LoopbackNothing, Calling, ToePlaces
  <2>3. CASE AnyCall
    <3>1. app = "any" /\ app' = "called" /\ toe' \in {"bind", "multicast", "close", "recvfrom", "setsockopt", "sendto"}
      BY <2>3 DEF AnyCall
    <3> QED
      BY <2>1, <3>1 DEF Calling, ToePlaces
  <2>4. CASE AnyReturned
    BY <2>1, <2>4 DEF AnyReturned, Calling, ToePlaces
  <2> QED
    BY <1>1, <2>2, <2>3, <2>4 DEF App
<1>2. CASE WiznetToe /\ UNCHANGED udpAppVars
  <2> USE DEF ToeAt, ToeGoto, ToeReturn, CallIo, udpIoVars, udpAppVars
  <2>1. CASE OpenSocket \/ SocketOpened
    BY <1>2, <2>1 DEF OpenSocket, SocketOpened, CallSocket, Calling, ToePlaces, SocketPlaces
  <2>2. CASE ToeSendto \/ ToeSendtoDone \/ ToeRecvfrom
    BY <1>2, <2>2 DEF ToeSendto, ToeSendtoDone, ToeRecvfrom, Calling, ToePlaces, SendPlaces, ReceivePlaces
  <2>3. CASE ToeMulticast \/ ToeMulticastOpen
    BY <1>2, <2>3 DEF ToeMulticast, ToeMulticastOpen, Calling, ToePlaces, SocketPlaces, ClosePlaces
  <2>4. CASE ToeClose \/ ToeClosed \/ ToeSetsockopt
    BY <1>2, <2>4 DEF ToeClose, ToeClosed, ToeSetsockopt, Calling, ToePlaces, ClosePlaces
  <2> QED
    BY <1>2, <2>1, <2>2, <2>3, <2>4 DEF WiznetToe
<1>3. CASE UdpSocketC /\ UNCHANGED <<udpToeVars, udpAppVars>>
  <2>1. \/ io \in SocketPlaces /\ io' \in SocketPlaces \cup {"idle"}
        \/ io \in ClosePlaces /\ io' \in ClosePlaces \cup {"idle"}
        \/ io \in SendPlaces /\ io' \in SendPlaces \cup {"idle"}
        \/ io \in ReceivePlaces /\ io' \in ReceivePlaces \cup {"idle"}
    <3> USE DEF UdpGoto, UdpReturn, SocketPlaces, ClosePlaces, SendPlaces, ReceivePlaces
    <3>1. CASE UdpClose \/ UdpClosed \/ UdpOpen \/ UdpOpened
      BY <3>1 DEF UdpClose, UdpClosed, UdpOpen, UdpOpened
    <3>2. CASE SendtoBegin \/ SendtoData \/ SendtoAnswer
      BY <3>2 DEF SendtoBegin, SendtoData, SendtoAnswer
    <3>3. CASE RecvfromBegin \/ RecvfromHead \/ RecvfromSize \/ RecvfromData \/ RecvfromDone
      BY <3>3 DEF RecvfromBegin, RecvfromHead, RecvfromSize, RecvfromData, RecvfromDone
    <3> QED
      BY <1>3, <3>1, <3>2, <3>3 DEF UdpSocketC
  <2>2. UNCHANGED <<toe, app, program>>
    BY <1>3 DEF udpToeVars, udpAppVars
  <2> QED
    BY <2>1, <2>2 DEF Calling, SocketPlaces, ClosePlaces, SendPlaces, ReceivePlaces
<1>4. CASE UNCHANGED <<udpIoVars, udpToeVars, udpAppVars>>
  BY <1>4 DEF Calling, udpIoVars, udpToeVars, udpAppVars
<1> QED
  BY <1>1, <1>2, <1>3, <1>4, WhoSteps

(* Which call of wiznet_toe.c a function of socket.c is running for.       *)
LEMMA Called ==
  ASSUME Calling
  PROVE  /\ io \in SocketPlaces => toe \in {"bind.opened", "sendto.opened", "multicast.opened"}
         /\ io \in SendPlaces => toe = "sendto.done"
         /\ io \in ReceivePlaces => toe = "recvfrom.done"
         /\ io \in ClosePlaces => toe \in {"multicast.open", "close.freed"}
<1>1. io # "idle" =>
       \/ toe \in {"bind.opened", "sendto.opened", "multicast.opened"} /\ io \in SocketPlaces
       \/ toe = "sendto.done" /\ io \in SendPlaces
       \/ toe = "recvfrom.done" /\ io \in ReceivePlaces
       \/ toe \in {"multicast.open", "close.freed"} /\ io \in ClosePlaces
  BY DEF Calling
<1> QED
  BY <1>1 DEF SocketPlaces, SendPlaces, ReceivePlaces, ClosePlaces

(* The driver gives a command when none is pending; the chip takes it.     *)
LEMMA CommandsKept ==
  ASSUME Commands, Answers, [Next]_udpVars
  PROVE  Commands' /\ Answers'
<1>1. CASE App
  <2>1. io = "idle" /\ io' = "idle" /\ UNCHANGED <<cr, ir, busy>>
    BY <1>1, AppSteps DEF udpChipVars
  <2> QED
    BY <2>1 DEF Commands, Answers
<1>2. CASE WiznetToe
  <2>1. io = "idle" /\ UNCHANGED <<cr, ir, busy>>
    BY <1>2, ToeSteps
  <2>2. io' \in {"idle", "socket", "sendto", "recvfrom", "close"}
    BY <1>2, ToeCalls
  <2> QED
    BY <2>1, <2>2 DEF Commands, Answers
<1>3. CASE UdpSocketC
  <2> USE DEF UdpGoto, UdpReturn, udpChipVars, Commands, Answers
  <2>1. CASE UdpClose \/ UdpClosed
    BY <2>1 DEF UdpClose, UdpClosed
  <2>2. CASE UdpOpen \/ UdpOpened
    BY <2>2 DEF UdpOpen, UdpOpened
  <2>3. CASE SendtoBegin
    BY <2>3 DEF SendtoBegin
  <2>4. CASE SendtoData
    BY <2>4 DEF SendtoData
  <2>5. CASE SendtoAnswer
    <3>1. ir \in {{"SENDOK"}, {"TIMEOUT"}} /\ ~busy
      BY <2>5 DEF SendtoAnswer
    <3>2. ir' = {} /\ io' = "idle" /\ cr' = "NONE" /\ ~busy'
      BY <2>5, <3>1 DEF SendtoAnswer
    <3> QED
      BY <3>2
  <2>6. CASE RecvfromBegin \/ RecvfromHead
    BY <2>6 DEF RecvfromBegin, RecvfromHead
  <2>7. CASE RecvfromSize \/ RecvfromData \/ RecvfromDone
    BY <2>7 DEF RecvfromSize, RecvfromData, RecvfromDone
  <2> QED
    BY <1>3, <2>1, <2>2, <2>3, <2>4, <2>5, <2>6, <2>7 DEF UdpSocketC
<1>4. CASE UdpChip /\ UNCHANGED udpIoVars
  <2>1. io' = io
    BY <1>4 DEF udpIoVars
  <2>2. CASE UdpChipOpen \/ UdpChipClose \/ UdpChipSend \/ UdpChipRecv
    BY <2>1, <2>2 DEF UdpChipOpen, UdpChipClose, UdpChipSend, UdpChipRecv, Commands, Answers
  <2>3. CASE UdpChipSent \/ UdpChipArpTimeout
    <3>1. io = "sendto.wait" /\ cr = "NONE" /\ cr' = "NONE" /\ ir = {} /\ ~busy'
      BY <2>3 DEF UdpChipSent, UdpChipArpTimeout, Answers
    <3>2. ir' \in {{"SENDOK"}, {"TIMEOUT"}}
      BY <2>3, <3>1 DEF UdpChipSent, UdpChipArpTimeout
    <3> QED
      BY <2>1, <3>1, <3>2 DEF Commands, Answers
  <2> QED
    BY <1>4, <2>2, <2>3 DEF UdpChip
<1>5. CASE UNCHANGED <<io, cr, ir, busy>>
  BY <1>5 DEF Commands, Answers
<1>6. Arrive /\ UNCHANGED udpIoVars => UNCHANGED <<io, cr, ir, busy>>
  BY DEF Arrive, udpIoVars
<1>7. UNCHANGED <<udpChipVars, udpIoVars>> => UNCHANGED <<io, cr, ir, busy>>
  BY DEF udpIoVars, udpChipVars
<1> QED
  BY <1>1, <1>2, <1>3, <1>4, <1>5, <1>6, <1>7, WhoSteps

-----------------------------------------------------------------------------
(* Types and pointers                                                      *)

(* The beginning of a sequence.                                            *)
LEMMA Front ==
  ASSUME NEW T, NEW s \in Seq(T), NEW n \in Nat, n <= Len(s)
  PROVE  /\ SubSeq(s, 1, n) \in Seq(T) /\ Len(SubSeq(s, 1, n)) = n
         /\ \A k \in 1..n : SubSeq(s, 1, n)[k] = s[k]
OBVIOUS

(* A buffer written with cells holds cells.                                *)
LEMMA WrittenType ==
  ASSUME NEW S \in Nat \ {0}, NEW mem \in [0..S - 1 -> CellType], NEW p \in Int, NEW cells \in Data
  PROVE  Written(mem, S, p, cells) \in [0..S - 1 -> CellType]
<1>1. ASSUME NEW a \in 0..S - 1
      PROVE  (IF ((a - p) % S) + 1 <= Len(cells) THEN cells[((a - p) % S) + 1] ELSE mem[a]) \in CellType
  <2>1. PICK x \in Int : x = a - p
    OBVIOUS
  <2>2. PICK t \in 0..S - 1 : t = x % S
    BY ModExists, Zenon
  <2>3. t + 1 <= Len(cells) => cells[t + 1] \in CellType
    BY DEF Data
  <2> QED
    BY <2>1, <2>2, <2>3
<1>2. Written(mem, S, p, cells)
        = [a \in 0..S - 1 |-> IF ((a - p) % S) + 1 <= Len(cells) THEN cells[((a - p) % S) + 1] ELSE mem[a]]
  BY DEF Written
<1> QED
  BY <1>1, <1>2

(* Cells of a buffer are cells.                                            *)
LEMMA CellsType ==
  ASSUME NEW S \in Nat \ {0}, NEW mem \in [0..S - 1 -> CellType], NEW p \in Int, NEW n \in Nat
  PROVE  /\ Cells(mem, S, p, n) \in Data /\ Len(Cells(mem, S, p, n)) = n
         /\ \A k \in 1..n : Cells(mem, S, p, n)[k] = mem[(p + k - 1) % S]
<1>1. ASSUME NEW k \in 1..n PROVE mem[(p + k - 1) % S] \in CellType
  <2>1. PICK x \in Int : x = p + k - 1
    OBVIOUS
  <2>2. PICK t \in 0..S - 1 : t = x % S
    BY ModExists, Zenon
  <2> QED
    BY <2>1, <2>2
<1>2. Cells(mem, S, p, n) = [k \in 1..n |-> mem[(p + k - 1) % S]]
  BY DEF Cells
<1>3. Cells(mem, S, p, n) \in Data /\ Len(Cells(mem, S, p, n)) = n
  BY <1>1, <1>2 DEF Data
<1> QED
  BY <1>2, <1>3

(* What a buffer holds changes with its memory and pointers only.          *)
LEMMA SameUnread ==
  ASSUME UNCHANGED <<rxVars, rxRd>>
  PROVE  Ahead' = Ahead /\ Held' = Held /\ RX_RSR' = RX_RSR /\ Unread' = Unread
BY DEF rxVars, Ahead, Held, RX_RSR, Unread, Cells

(* What recvfrom() takes is there.                                         *)
LEMMA Takes ==
  ASSUME Fields, Pointers, Receiving, Stream, RecvfromHead \/ RecvfromData
  PROVE  \E n \in Nat : /\ n <= Ahead /\ ReadTo(n) /\ UNCHANGED rxVars
                        /\ RecvfromHead => n = 1
                        /\ RecvfromData => /\ n = Len(buf') /\ n = Least(len, remained)
                                           /\ buf' = Cells(rxMem, RxSize, rxRd, n) /\ buf' \in Data
                                           /\ \A k \in 1..n : buf'[k] = Unread[k]
<1>1. CASE RecvfromHead
  <2>1. 1 <= Ahead
    BY <1>1, Counts DEF RecvfromHead, Stream, Reading
  <2>2. ReadTo(1) /\ UNCHANGED rxVars
    BY <1>1 DEF RecvfromHead
  <2>3. ~RecvfromData
    BY <1>1 DEF RecvfromHead, RecvfromData
  <2> QED
    BY <2>1, <2>2, <2>3
<1>2. CASE RecvfromData
  <2>1. PICK n \in Nat : n = Least(len, remained) /\ n <= remained
    <3>1. len \in Nat /\ remained \in Nat
      BY UdpChipAssumption DEF Fields
    <3> QED
      BY <3>1 DEF Least
  <2>2. buf' = Cells(rxMem, RxSize, rxRd, n) /\ ReadTo(Len(buf')) /\ UNCHANGED rxVars
    BY <1>2, <2>1 DEF RecvfromData
  <2>3. /\ buf' \in Data /\ Len(buf') = n
        /\ \A k \in 1..n : buf'[k] = rxMem[(rxRd + k - 1) % RxSize]
    <3>1. rxMem \in [0..RxSize - 1 -> CellType] /\ rxRd \in Int /\ RxSize \in Nat \ {0}
      BY PointersCount, Sizes DEF Pointers
    <3> QED
      BY <2>2, <3>1, CellsType
  <2>4. n <= Ahead
    <3>1. sr = "UDP" /\ Rest = remained
      BY <1>2 DEF RecvfromData, Stream, Reading, Rest
    <3>2. remained <= Ahead
      BY <3>1 DEF Stream, Layout, Whole
    <3>3. remained \in Int
      BY UdpChipAssumption DEF Fields
    <3> QED
      BY <2>1, <3>2, <3>3, Counts
  <2>5. \A k \in 1..n : buf'[k] = Unread[k]
    <3>1. \A k \in 1..n : k \in 1..Ahead
      BY <2>4, Counts
    <3> QED
      BY <2>3, <3>1, UnreadCell
  <2>6. ~RecvfromHead
    BY <1>2 DEF RecvfromHead, RecvfromData
  <2> QED
    BY <2>1, <2>2, <2>3, <2>4, <2>5, <2>6
<1> QED
  BY <1>1, <1>2

(* Pointers move within their range, and the receive buffer is as full as  *)
(* the chip says.                                                          *)
LEMMA ReceivingKept ==
  ASSUME Commands, Fields, Pointers, Receiving, Sending, Stream, [Next]_udpVars
  PROVE  Pointers' /\ Receiving'
<1> DEFINE Quiet == UNCHANGED <<rxVars, rxRd, txMem, txRd, txWr>>
<1>1. ASSUME Quiet, cr = "RECV" => cr' = "RECV" PROVE Pointers' /\ Receiving'
  <2>1. UNCHANGED <<rxMem, rxWr, rxRel, rxRd>>
    BY <1>1 DEF rxVars
  <2>2. Pointers'
    BY <1>1, <2>1 DEF Pointers
  <2>3. RX_RSR' = RX_RSR /\ Held' = Held /\ Ahead' = Ahead
    BY <1>1, SameUnread
  <2>4. Receiving'
    BY <1>1, <2>1, <2>3 DEF Receiving
  <2> QED
    BY <2>2, <2>4
<1>2. CASE App
  BY <1>1, <1>2, AppSteps DEF udpChipVars
<1>3. CASE WiznetToe
  BY <1>1, <1>3, ToeSteps
<1>4. CASE UdpSocketC
  <2>1. CASE UdpClose \/ UdpClosed \/ UdpOpen \/ UdpOpened
    BY <1>1, <2>1 DEF UdpClose, UdpClosed, UdpOpen, UdpOpened, Commands, udpChipVars
  <2>2. CASE SendtoBegin \/ SendtoAnswer \/ RecvfromBegin \/ RecvfromSize \/ RecvfromDone
    BY <1>1, <2>2 DEF SendtoBegin, SendtoAnswer, RecvfromBegin, RecvfromSize, RecvfromDone, udpChipVars
  <2>3. CASE SendtoData
    <3>1. CASE UNCHANGED <<cr, txMem, txWr>>
      BY <1>1, <2>3, <3>1 DEF SendtoData
    <3>2. CASE WizSendData(SubSeq(buf, 1, len)) /\ cr' = "SEND"
      <4>1. UNCHANGED <<rxVars, rxRd, txRd>> /\ io = "sendto.data"
        BY <2>3 DEF SendtoData
      <4>2. cr # "RECV"
        BY <4>1 DEF Commands
      <4>3. len \in Nat /\ len <= Len(buf) /\ buf \in Seq(CellType)
        BY <4>1, Sizes DEF Fields, Sending, Data, Least
      <4>4. PICK c \in Data : c = SubSeq(buf, 1, len) /\ Len(c) = len
        BY <4>3, Front DEF Data
      <4>5. txMem' = Written(txMem, TxSize, txWr, c) /\ txWr' = Forward(txWr, len)
        BY <3>2, <4>4 DEF WizSendData
      <4>6. txMem' \in [0..TxSize - 1 -> CellType]
        <5>1. txMem \in [0..TxSize - 1 -> CellType] /\ txWr \in Int /\ TxSize \in Nat \ {0}
          BY PointersCount, Sizes DEF Pointers
        <5> QED
          BY <4>5, <5>1, WrittenType
      <4>7. txWr' \in Pointer
        BY <4>3, <4>5, PointersCount, ForwardType
      <4>8. UNCHANGED <<rxMem, rxWr, rxRel, rxRd>> /\ UNCHANGED txRd
        BY <4>1 DEF rxVars
      <4>9. RX_RSR' = RX_RSR /\ Held' = Held /\ Ahead' = Ahead
        BY <4>1, SameUnread
      <4>10. Pointers'
        BY <4>6, <4>7, <4>8 DEF Pointers
      <4>11. Receiving'
        BY <4>2, <4>8, <4>9 DEF Receiving
      <4> QED
        BY <4>10, <4>11
    <3> QED
      BY <2>3, <3>1, <3>2 DEF SendtoData
  <2>4. CASE RecvfromHead \/ RecvfromData
    <3>1. PICK n \in Nat : n <= Ahead /\ ReadTo(n) /\ UNCHANGED rxVars
      BY <2>4, Takes
    <3>2. /\ rxRd' \in Pointer
          /\ Ahead' = Ahead - n /\ Held' = Held + n /\ RX_RSR' = RX_RSR
      BY <3>1, Reads
    <3>3. UNCHANGED <<rxMem, rxWr, rxRel>> /\ UNCHANGED <<txMem, txRd, txWr>> /\ cr' = "RECV"
      BY <2>4, <3>1 DEF RecvfromHead, RecvfromData, rxVars
    <3>4. Pointers'
      BY <3>2, <3>3 DEF Pointers
    <3>5. Receiving'
      <4>1. Ahead \in Nat /\ Held \in Nat /\ RX_RSR = Held + Ahead
        BY Counts DEF Receiving
      <4>2. RX_RSR' = Held' + Ahead'
        BY <3>2, <4>1
      <4> QED
        BY <3>2, <3>3, <4>2 DEF Receiving
    <3> QED
      BY <3>4, <3>5
  <2> QED
    BY <1>4, <2>1, <2>2, <2>3, <2>4 DEF UdpSocketC
<1>5. CASE UdpChip
  <2>1. CASE UdpChipClose \/ UdpChipSend
    BY <1>1, <2>1 DEF UdpChipClose, UdpChipSend
  <2>2. CASE UdpChipSent \/ UdpChipArpTimeout
    <3>1. UNCHANGED <<rxVars, rxRd, cr, txMem, txWr>> /\ txRd' = txWr
      BY <2>2 DEF UdpChipSent, UdpChipArpTimeout
    <3>2. UNCHANGED <<rxMem, rxWr, rxRel, rxRd>>
      BY <3>1 DEF rxVars
    <3>3. RX_RSR' = RX_RSR /\ Held' = Held /\ Ahead' = Ahead
      BY <3>1, SameUnread
    <3>4. Pointers'
      BY <3>1, <3>2 DEF Pointers
    <3>5. Receiving'
      BY <3>1, <3>2, <3>3 DEF Receiving
    <3> QED
      BY <3>4, <3>5
  <2>3. CASE UdpChipOpen
    <3>1. /\ rxWr' = Start /\ rxRd' = Start /\ rxRel' = Start /\ txWr' = Start /\ txRd' = Start
          /\ UNCHANGED <<rxMem, txMem>>
      BY <2>3 DEF UdpChipOpen
    <3>2. Start \in Pointer /\ Start \in Int
      BY UdpChipAssumption DEF Pointer
    <3>3. Start - Start = 0 /\ 0 \in 0..PtrMod - 1 /\ 0 \in 0..RxSize
      BY <3>2, Sizes
    <3>4. 0 % PtrMod = 0
      BY <3>3, Sizes, ModSmall
    <3>5. RX_RSR' = 0 /\ Held' = 0 /\ Ahead' = 0
      BY <3>1, <3>3, <3>4, Zenon DEF RX_RSR, Held, Ahead
    <3>6. Pointers'
      BY <3>1, <3>2 DEF Pointers
    <3>7. Receiving'
      BY <3>1, <3>3, <3>5 DEF Receiving
    <3> QED
      BY <3>6, <3>7
  <2>4. CASE UdpChipRecv
    <3>1. rxRel' = rxRd /\ UNCHANGED <<rxMem, rxWr, rxRd, txMem, txRd, txWr>>
      BY <2>4 DEF UdpChipRecv
    <3>2. Ahead' = Ahead /\ RX_RSR' = Ahead
      BY <3>1 DEF Ahead, RX_RSR
    <3>3. Held' = 0
      <4>1. rxRd - rxRd = 0 /\ 0 \in 0..PtrMod - 1
        BY PointersCount, Sizes
      <4>2. 0 % PtrMod = 0
        BY <4>1, Sizes, ModSmall
      <4> QED
        BY <3>1, <4>1, <4>2, Zenon DEF Held
    <3>4. Ahead <= RxSize /\ Ahead \in Nat
      BY Counts, Sizes DEF Receiving
    <3>5. Pointers'
      BY <3>1 DEF Pointers
    <3>6. Receiving'
      BY <3>1, <3>2, <3>3, <3>4 DEF Receiving
    <3> QED
      BY <3>5, <3>6
  <2> QED
    BY <1>5, <2>1, <2>2, <2>3, <2>4 DEF UdpChip
<1>6. CASE Arrive
  <2>1. /\ Pointers'
        /\ \E n \in Nat : Ahead' = Ahead + n /\ Held' = Held /\ RX_RSR' = RX_RSR + n /\ RX_RSR' <= RxSize
    <3>1. PICK from \in Sources, size \in 0..MaxSize :
             /\ Ahead' = Ahead + 1 + size /\ Held' = Held
             /\ RX_RSR' = RX_RSR + 1 + size /\ RX_RSR' <= RxSize /\ Pointers'
      BY <1>6, Arrives
    <3>2. 1 + size \in Nat
      BY UdpChipAssumption
    <3>3. Ahead' = Ahead + (1 + size) /\ RX_RSR' = RX_RSR + (1 + size)
      BY <3>1, <3>2, Counts
    <3> QED
      BY <3>1, <3>2, <3>3
  <2>2. UNCHANGED <<cr, rxRd, rxRel>>
    BY <1>6 DEF Arrive
  <2>3. RX_RSR' = Held' + Ahead'
    BY <2>1, Counts DEF Receiving
  <2> QED
    BY <2>1, <2>2, <2>3 DEF Receiving
<1>7. CASE UNCHANGED udpChipVars
  BY <1>1, <1>7 DEF udpChipVars
<1> QED
  BY <1>2, <1>3, <1>4, <1>5, <1>6, <1>7, WhoSteps

(* A longer sequence.                                                      *)
LEMMA AppendType ==
  ASSUME NEW T, NEW s \in Seq(T), NEW x \in T
  PROVE  /\ Append(s, x) \in Seq(T) /\ Len(Append(s, x)) = Len(s) + 1 /\ Append(s, x)[Len(s) + 1] = x
         /\ \A k \in 1..Len(s) : Append(s, x)[k] = s[k]
OBVIOUS

(* Every variable keeps its type.                                          *)
LEMMA FieldsKept ==
  ASSUME Calling, Commands, Answers, Fields, Pointers, Receiving, Sending, Stream, [Next]_udpVars
  PROVE  Fields'
<1>1. CASE App
  <2> DEFINE Others == \E function \in {"bind", "multicast", "close"} :
                         /\ CallToe(function)
                         /\ buf' = <<>> /\ len' = 0 /\ peer' = 0 /\ port' = 0
                         /\ UNCHANGED <<io, ioRet, remained, packInfo, head>>
             Recvs == \E n \in {0, BufSize} : CallRecvfrom(n)
             Options == \E us \in {999, 1000} : CallSetTimeout(us)
             Sends == \E n \in {0, TxSize + 1}, to \in {0, Group}, p \in {0, 1} :
                        CallSendto([k \in 1..n |-> Payload(0, k)], to, p)
  <2>0. AnyCall => Others \/ Recvs \/ Options \/ Sends
    BY DEF AnyCall
  <2> HIDE DEF Others, Recvs, Options, Sends
  <2> USE DEF AppAt, CallToe, CallRecvfrom, CallSendto, CallSetTimeout, udpIoVars, udpToeVars
  <2>1. UNCHANGED <<sr, busy, opened, rcvTimeout, packInfo, remained, dst, head, arrived, out>>
    BY <1>1, AppSteps DEF udpChipVars
  <2>2. port' \in {0, 1} /\ len' \in Nat /\ peer' \in Nat /\ buf' \in Data
        /\ (toe' = "setsockopt" => len' \in {0, 1})
    <3>1. CASE Loopback
      <4>1. CASE LoopbackStart \/ LoopbackNothing
        BY <4>1 DEF LoopbackStart, LoopbackNothing, Fields
      <4>2. CASE LoopbackReceive
        <5>1. buf' = <<>> /\ len' = BufSize /\ port' = 0 /\ peer' \in {0, Group} /\ toe' = "recvfrom"
          BY <4>2 DEF LoopbackReceive
        <5> QED
          BY <5>1, UdpAppAssumption DEF Data, Group
      <4>3. CASE LoopbackEcho
        <5>1. UNCHANGED <<buf, peer, port>> /\ len' = Len(buf) /\ toe' = "sendto"
          BY <4>3 DEF LoopbackEcho
        <5> QED
          BY <5>1 DEF Fields, Data
      <4> QED
        BY <3>1, <4>1, <4>2, <4>3 DEF Loopback
    <3>2. CASE AnyCall
      <4>1. CASE Others
        BY <4>1 DEF Others, Data
      <4>2. CASE Recvs
        BY <4>2, UdpAppAssumption DEF Recvs, Data, Group
      <4>3. CASE Options
        <5>1. len' \in {999 \div 1000, 1000 \div 1000} /\ UNCHANGED <<buf, peer, port>>
          BY <4>3 DEF Options, Milliseconds
        <5>2. 999 \div 1000 = 0 /\ 1000 \div 1000 = 1
          OBVIOUS
        <5> QED
          BY <5>1, <5>2 DEF Fields
      <4>4. CASE Sends
        <5>1. PICK n \in Nat, to \in {0, Group}, p \in {0, 1} :
                CallSendto([k \in 1..n |-> Payload(0, k)], to, p)
          BY <4>4, Sizes DEF Sends
        <5>2. \A k \in 1..n : Payload(0, k) \in CellType
          BY DEF Payload, CellType
        <5>3. buf' = [k \in 1..n |-> Payload(0, k)] /\ len' = Len(buf') /\ peer' = to /\ port' = p /\ toe' = "sendto"
          BY <5>1
        <5>4. buf' \in Data /\ Len(buf') \in Nat
          BY <5>2, <5>3 DEF Data
        <5> QED
          BY <5>3, <5>4 DEF Group
      <4> QED
        BY <2>0, <3>2, <4>1, <4>2, <4>3, <4>4
    <3>3. CASE AnyReturned
      BY <3>3 DEF AnyReturned, Data
    <3> QED
      BY <1>1, <3>1, <3>2, <3>3 DEF App
  <2> QED
    BY <2>1, <2>2 DEF Fields
<1>2. CASE WiznetToe
  <2>1. UNCHANGED <<sr, busy, packInfo, remained, head, arrived, out, len, peer, port, buf>>
    BY <1>2, ToeSteps
  <2>2. /\ opened' \in BOOLEAN /\ rcvTimeout' \in {0, 1} /\ dst' \in Nat /\ toe' # "setsockopt"
    <3> USE DEF ToeAt, ToeGoto, ToeReturn
    <3>1. CASE OpenSocket \/ SocketOpened
      BY <3>1 DEF OpenSocket, SocketOpened, CallSocket, Fields, udpChipVars
    <3>2. CASE ToeSendto \/ ToeSendtoDone \/ ToeRecvfrom
      BY <3>2 DEF ToeSendto, ToeSendtoDone, ToeRecvfrom, Fields, udpChipVars
    <3>3. CASE ToeMulticast \/ ToeMulticastOpen
      BY <3>3 DEF ToeMulticast, ToeMulticastOpen, Fields, udpChipVars, Group
    <3>4. CASE ToeClose \/ ToeClosed \/ ToeSetsockopt
      BY <3>4 DEF ToeClose, ToeClosed, ToeSetsockopt, Fields, udpChipVars
    <3> QED
      BY <1>2, <3>1, <3>2, <3>3, <3>4 DEF WiznetToe
  <2> QED
    BY <2>1, <2>2 DEF Fields
<1>3. CASE UdpSocketC /\ UNCHANGED <<udpToeVars, udpAppVars>>
  <2>1. UNCHANGED <<toe, opened, rcvTimeout, sr, busy, arrived, out>> /\ toe # "setsockopt"
    <3>1. UNCHANGED <<toe, opened, rcvTimeout>>
      BY <1>3 DEF udpToeVars
    <3>2. io # "idle" /\ UNCHANGED <<sr, busy, arrived, out>>
      BY <1>3 DEF UdpSocketC, UdpClose, UdpClosed, UdpOpen, UdpOpened, SendtoBegin, SendtoData, SendtoAnswer,
         RecvfromBegin, RecvfromHead, RecvfromSize, RecvfromData, RecvfromDone, udpChipVars
    <3> QED
      BY <3>1, <3>2 DEF Calling
  <2>2. CASE UdpClose \/ UdpClosed \/ UdpOpen \/ UdpOpened
    <3>1. UNCHANGED <<port, len, peer, dst, head, buf>>
      BY <2>2 DEF UdpClose, UdpClosed, UdpOpen, UdpOpened, udpChipVars
    <3>2. remained' \in 0..MaxSize /\ packInfo' \in SUBSET {"FIRST", "REMAINED"}
      <4>1. remained' \in {remained, 0} /\ packInfo' \in {packInfo, {}}
        BY <2>2 DEF UdpClose, UdpClosed, UdpOpen, UdpOpened
      <4>2. 0 \in 0..MaxSize
        BY UdpChipAssumption
      <4>3. remained \in 0..MaxSize /\ packInfo \in SUBSET {"FIRST", "REMAINED"}
        BY DEF Fields
      <4> QED
        BY <4>1, <4>2, <4>3
    <3> QED
      BY <2>1, <3>1, <3>2 DEF Fields
  <2>3. CASE SendtoBegin
    <3>1. UNCHANGED <<remained, packInfo, head, buf, peer, port>> /\ dst' = peer /\ len' = Least(len, TxSize)
      BY <2>3 DEF SendtoBegin
    <3>2. len' \in Nat
      BY <3>1, Sizes DEF Least, Fields
    <3> QED
      BY <2>1, <3>1, <3>2 DEF Fields
  <2>4. CASE SendtoData \/ SendtoAnswer \/ RecvfromBegin
    <3>1. UNCHANGED <<remained, packInfo, head, buf, peer, port, len, dst>>
      BY <2>4 DEF SendtoData, SendtoAnswer, RecvfromBegin, udpChipVars
    <3> QED
      BY <2>1, <3>1 DEF Fields
  <2>5. CASE RecvfromHead
    <3>1. head' = Cells(rxMem, RxSize, rxRd, 1)[1] /\ UNCHANGED <<remained, packInfo, buf, len, peer, port, dst>>
      BY <2>5 DEF RecvfromHead
    <3>2. head' \in CellType
      <4>1. rxMem \in [0..RxSize - 1 -> CellType] /\ rxRd \in Int /\ RxSize \in Nat \ {0} /\ 1 \in Nat
        BY PointersCount, Sizes DEF Pointers
      <4>2. Cells(rxMem, RxSize, rxRd, 1) \in Data /\ Len(Cells(rxMem, RxSize, rxRd, 1)) = 1
        BY <4>1, CellsType
      <4> QED
        BY <3>1, <4>2 DEF Data
    <3> QED
      BY <2>1, <3>1, <3>2 DEF Fields
  <2>6. CASE RecvfromSize
    <3>1. /\ peer' = head[2] /\ port' = 1 /\ remained' = head[3] /\ packInfo' = {"FIRST"} /\ head' = Empty
          /\ UNCHANGED <<buf, len, dst>> /\ io = "recvfrom.size"
      BY <2>6 DEF RecvfromSize, udpChipVars
    <3>2. head[2] \in Nat /\ head[3] \in 0..MaxSize /\ Empty \in CellType
      BY <3>1 DEF Fields, Stream, Reading, CellType, Empty
    <3> QED
      BY <2>1, <3>1, <3>2 DEF Fields
  <2>7. CASE RecvfromData
    <3>1. buf' \in Data
      BY <2>7, Takes
    <3>2. UNCHANGED <<remained, packInfo, head, len, peer, port, dst>>
      BY <2>7 DEF RecvfromData
    <3> QED
      BY <2>1, <3>1, <3>2 DEF Fields
  <2>8. CASE RecvfromDone
    <3>1. /\ remained' = remained - Len(buf)
          /\ packInfo' = IF remained' # 0 THEN packInfo \cup {"REMAINED"} ELSE {}
          /\ UNCHANGED <<head, buf, len, peer, port, dst>> /\ io = "recvfrom.done"
      BY <2>8 DEF RecvfromDone, udpChipVars
    <3>2. remained' \in 0..MaxSize
      <4>1. Len(buf) <= remained /\ Len(buf) \in Nat /\ remained \in 0..MaxSize
        BY <3>1 DEF Stream, Reading, Fields, Data
      <4> QED
        BY <3>1, <4>1, UdpChipAssumption
    <3>3. packInfo' \in SUBSET {"FIRST", "REMAINED"}
      BY <3>1 DEF Fields
    <3> QED
      BY <2>1, <3>1, <3>2, <3>3 DEF Fields
  <2> QED
    BY <1>3, <2>2, <2>3, <2>4, <2>5, <2>6, <2>7, <2>8 DEF UdpSocketC
<1>4. CASE UdpChip /\ UNCHANGED <<udpIoVars, udpToeVars>>
  <2>1. UNCHANGED <<toe, opened, rcvTimeout, remained, packInfo, head, buf, len, peer, port>>
    BY <1>4 DEF udpIoVars, udpToeVars
  <2>2. CASE UdpChipOpen \/ UdpChipClose \/ UdpChipSend \/ UdpChipRecv \/ UdpChipArpTimeout
    <3>1. UNCHANGED <<dst, arrived, out>> /\ sr' \in {"CLOSED", "UDP"} /\ busy' \in BOOLEAN
      BY <2>2 DEF UdpChipOpen, UdpChipClose, UdpChipSend, UdpChipRecv, UdpChipArpTimeout, Fields
    <3> QED
      BY <2>1, <3>1 DEF Fields
  <2>3. CASE UdpChipSent
    <3>1. /\ out' = IF Staged[1][2] = 0 THEN out ELSE Append(out, <<dst, Staged>>)
          /\ busy' = FALSE /\ UNCHANGED <<sr, dst, arrived>>
      BY <2>3 DEF UdpChipSent
    <3>2. Staged \in Data
      <4>1. PICK n \in Nat : n = (txWr - txRd) % PtrMod
        <5>1. PICK x \in Int : x = txWr - txRd
          BY PointersCount
        <5> QED
          BY <5>1, Sizes, DivMod
      <4>2. txMem \in [0..TxSize - 1 -> CellType] /\ txRd \in Int /\ TxSize \in Nat \ {0}
        BY PointersCount, Sizes DEF Pointers
      <4>3. Staged = Cells(txMem, TxSize, txRd, n)
        BY <4>1 DEF Staged
      <4> QED
        BY <4>2, <4>3, CellsType
    <3>3. out' \in Seq(Nat \X Data)
      <4>1. out \in Seq(Nat \X Data) /\ <<dst, Staged>> \in Nat \X Data
        BY <3>2 DEF Fields
      <4>2. Append(out, <<dst, Staged>>) \in Seq(Nat \X Data)
        BY <4>1, AppendType
      <4> QED
        BY <3>1, <4>1, <4>2
    <3> QED
      BY <2>1, <3>1, <3>3 DEF Fields
  <2> QED
    BY <1>4, <2>2, <2>3 DEF UdpChip
<1>5. CASE Arrive /\ UNCHANGED <<udpIoVars, udpToeVars>>
  <2>1. UNCHANGED <<toe, opened, rcvTimeout, remained, packInfo, head, buf, len, peer, port, sr, busy, dst, out>>
    BY <1>5 DEF udpIoVars, udpToeVars, Arrive
  <2>2. PICK from \in Sources, size \in 0..MaxSize : arrived' = Append(arrived, <<from, size>>)
    BY <1>5 DEF Arrive
  <2>3. arrived' \in Seq(Nat \X (0..MaxSize))
    <3>1. arrived \in Seq(Nat \X (0..MaxSize)) /\ <<from, size>> \in Nat \X (0..MaxSize)
      BY UdpChipAssumption DEF Fields
    <3> QED
      BY <2>2, <3>1, AppendType
  <2> QED
    BY <2>1, <2>3 DEF Fields
<1>6. CASE UNCHANGED <<udpChipVars, udpIoVars, udpToeVars, udpAppVars>>
  BY <1>6 DEF Fields, udpChipVars, udpIoVars, udpToeVars
<1> QED
  BY <1>1, <1>2, <1>3, <1>4, <1>5, <1>6, WhoSteps

-----------------------------------------------------------------------------
(* Sending                                                                 *)

(* A SEND with nothing staged before it stages the caller's cells.         *)
LEMMA Stages ==
  ASSUME Pointers, txRd = txWr, NEW c \in Data, Len(c) <= TxSize,
         txMem' = Written(txMem, TxSize, txWr, c), txWr' = Forward(txWr, Len(c))
  PROVE  /\ (txWr' - txRd) % PtrMod = Len(c)
         /\ \A k \in 1..Len(c) : txMem'[(txRd + k - 1) % TxSize] = c[k]
<1>1. PICK p \in Int, n \in Nat : p = txWr /\ p = txRd /\ n = Len(c)
  BY PointersCount DEF Data
<1>2. (p - p) % PtrMod = 0
  <2>1. p - p = 0 /\ 0 \in 0..PtrMod - 1
    BY Sizes
  <2> QED
    BY <2>1, Sizes, ModSmall
<1>3. (txWr' - txRd) % PtrMod = n
  <2>1. Gap(PtrMod, p, p) = 0 /\ n < PtrMod
    BY <1>1, <1>2, Sizes DEF Gap
  <2>2. Gap(PtrMod, p, p) + n < PtrMod
    BY <2>1
  <2>3. Gap(PtrMod, Moved(PtrMod, p, n), p) = Gap(PtrMod, p, p) + n
    BY <2>2, Sizes, GapMore
  <2>4. txWr' = Moved(PtrMod, p, n)
    BY <1>1, Gaps
  <2>5. Gap(PtrMod, txWr', txRd) = n
    BY <1>1, <2>1, <2>3, <2>4
  <2> QED
    BY <2>5 DEF Gap
<1>4. Appended(TxSize, p, p, 0, n, txMem, c)
  <2>1. 0 = (p - p) % PtrMod /\ 0 + n <= TxSize /\ 0 \in Nat
    BY <1>1, <1>2, Sizes
  <2> QED
    BY <1>1, <2>1, Sizes, CellsWritten
<1>5. ASSUME NEW k \in 1..n PROVE txMem'[(txRd + k - 1) % TxSize] = c[k]
  <2>1. Written(txMem, TxSize, p, c)[(p + (0 + k) - 1) % TxSize] = c[k]
    BY <1>4 DEF Appended
  <2>2. 0 + k = k
    OBVIOUS
  <2> QED
    BY <1>1, <2>1, <2>2
<1> QED
  BY <1>1, <1>3, <1>5

(* What is staged is what the caller of sendto() passed.                   *)
LEMMA SendingKept ==
  ASSUME Calling, Commands, Answers, Fields, Pointers, Sending, [Next]_udpVars
  PROVE  Sending'
<1>1. ASSUME UNCHANGED <<txMem, txRd, txWr>>, ~Pending, ~Pending',
             toe' \in {"sendto", "sendto.opened"} \/ io' = "sendto" => len' = Len(buf'),
             io' \in {"sendto.data", "sendto.wait"} =>
               dst' = peer' /\ port' = 1 /\ len' = Least(Len(buf'), TxSize) /\ len' > 0
      PROVE  Sending'
  BY <1>1 DEF Sending
<1>2. ASSUME Pending, UNCHANGED <<txMem, txRd, txWr, io, toe, buf, len, dst, peer, port>>, Pending'
      PROVE  Sending'
  BY <1>2 DEF Sending
<1>3. CASE App
  <2>1. io = "idle" /\ io' = "idle" /\ UNCHANGED <<txMem, txRd, txWr>>
    BY <1>3, AppSteps DEF udpChipVars
  <2>2. toe' \in {"sendto", "sendto.opened"} => len' = Len(buf')
    <3> USE DEF AppAt, CallToe, CallRecvfrom, CallSetTimeout, udpIoVars, udpToeVars
    <3>1. CASE Loopback
      BY <3>1 DEF Loopback, LoopbackStart, LoopbackReceive, LoopbackEcho, LoopbackNothing, CallSendto
    <3>2. CASE AnyCall
      <4>1. CASE \E n \in {0, TxSize + 1}, to \in {0, Group}, p \in {0, 1} :
                   CallSendto([k \in 1..n |-> Payload(0, k)], to, p)
        <5>1. PICK c, to, p : CallSendto(c, to, p)
          BY <4>1
        <5> QED
          BY <5>1 DEF CallSendto
      <4>2. CASE toe' \notin {"sendto", "sendto.opened"}
        BY <4>2
      <4> QED
        BY <3>2, <4>1, <4>2 DEF AnyCall
    <3>3. CASE AnyReturned
      BY <3>3 DEF AnyReturned
    <3> QED
      BY <1>3, <3>1, <3>2, <3>3 DEF App
  <2> QED
    BY <1>1, <2>1, <2>2 DEF Pending
<1>4. CASE WiznetToe
  <2>1. io = "idle" /\ UNCHANGED <<len, buf, txMem, txRd, txWr>>
    BY <1>4, ToeSteps
  <2>2. /\ io' \in {"idle", "socket", "sendto", "recvfrom", "close"}
        /\ toe' \in {"sendto", "sendto.opened"} \/ io' = "sendto" => toe \in {"sendto", "sendto.opened"}
    BY <1>4, ToeCalls
  <2>3. toe' \in {"sendto", "sendto.opened"} \/ io' = "sendto" => len' = Len(buf')
    BY <2>1, <2>2 DEF Sending
  <2> QED
    BY <1>1, <2>1, <2>2, <2>3 DEF Pending
<1>5. CASE UdpSocketC /\ UNCHANGED <<udpToeVars, udpAppVars>>
  <2> USE DEF UdpGoto, UdpReturn
  <2>1. UNCHANGED toe
    BY <1>5 DEF udpToeVars
  <2>2. CASE UdpClose \/ UdpClosed \/ UdpOpen \/ UdpOpened
    <3>1. io # "sendto.wait" /\ io' \notin {"sendto", "sendto.data", "sendto.wait"}
          /\ UNCHANGED <<len, buf, txMem, txRd, txWr>>
      BY <2>2 DEF UdpClose, UdpClosed, UdpOpen, UdpOpened, udpChipVars
    <3> QED
      BY <1>1, <2>1, <3>1 DEF Pending, Sending
  <2>3. CASE SendtoBegin
    <3>1. /\ io = "sendto" /\ io' \in {"idle", "sendto.data"} /\ UNCHANGED <<buf, peer, port, txMem, txRd, txWr>>
          /\ dst' = peer /\ len' = Least(len, TxSize)
      BY <2>3 DEF SendtoBegin
    <3>2. io' = "sendto.data" => port # 0 /\ len # 0
      BY <2>3 DEF SendtoBegin
    <3>3. toe = "sendto.done"
      BY <3>1, Called DEF SendPlaces
    <3>4. len = Len(buf) /\ len \in Nat /\ port \in {0, 1}
      BY <3>1 DEF Sending, Fields
    <3>5. io' = "sendto.data" => len' > 0 /\ len' = Least(Len(buf), TxSize)
      BY <3>1, <3>2, <3>4, Sizes DEF Least
    <3> QED
      BY <1>1, <2>1, <3>1, <3>2, <3>3, <3>4, <3>5 DEF Pending
  <2>4. CASE SendtoData
    <3>1. /\ io = "sendto.data" /\ toe = "sendto.done" /\ txRd = txWr
          /\ dst = peer /\ port = 1 /\ len = Least(Len(buf), TxSize) /\ len > 0
          /\ UNCHANGED <<txRd, dst, busy, buf, len, peer, port>>
      <4>1. io = "sendto.data" /\ UNCHANGED <<txRd, dst, busy, buf, len, peer, port>>
        BY <2>4 DEF SendtoData
      <4>2. toe = "sendto.done"
        BY <4>1, Called DEF SendPlaces
      <4> QED
        BY <4>1, <4>2 DEF Sending, Pending
    <3>2. CASE io' = "idle" /\ UNCHANGED <<cr, txMem, txWr>>
      BY <1>1, <2>1, <3>1, <3>2 DEF Pending
    <3>3. CASE WizSendData(SubSeq(buf, 1, len)) /\ cr' = "SEND" /\ io' = "sendto.wait"
      <4>1. len \in Nat /\ len <= Len(buf) /\ len <= TxSize /\ buf \in Seq(CellType)
        BY <3>1, Sizes DEF Least, Fields, Data
      <4>2. PICK c \in Data : c = SubSeq(buf, 1, len) /\ Len(c) = len /\ \A k \in 1..len : c[k] = buf[k]
        <5>1. /\ SubSeq(buf, 1, len) \in Seq(CellType) /\ Len(SubSeq(buf, 1, len)) = len
              /\ \A k \in 1..len : SubSeq(buf, 1, len)[k] = buf[k]
          BY <4>1, Front
        <5> QED
          BY <5>1, Zenon DEF Data
      <4>3. txMem' = Written(txMem, TxSize, txWr, c) /\ txWr' = Forward(txWr, Len(c))
        BY <3>3, <4>2 DEF WizSendData
      <4>4. (txWr' - txRd) % PtrMod = len /\ \A k \in 1..len : txMem'[(txRd + k - 1) % TxSize] = buf[k]
        BY <3>1, <4>1, <4>2, <4>3, Stages
      <4>5. Pending'
        BY <3>3 DEF Pending
      <4> QED
        BY <2>1, <3>1, <3>3, <4>4, <4>5 DEF Sending
    <3> QED
      BY <2>4, <3>2, <3>3 DEF SendtoData
  <2>5. CASE SendtoAnswer
    <3>1. io = "sendto.wait" /\ cr = "NONE" /\ ir # {} /\ io' = "idle" /\ UNCHANGED <<txMem, txRd, txWr>>
      BY <2>5 DEF SendtoAnswer
    <3>2. ~busy /\ toe = "sendto.done"
      <4>1. toe = "sendto.done"
        BY <3>1, Called DEF SendPlaces
      <4> QED
        BY <3>1, <4>1 DEF Answers
    <3> QED
      BY <1>1, <2>1, <3>1, <3>2 DEF Pending
  <2>6. CASE RecvfromBegin \/ RecvfromHead \/ RecvfromSize \/ RecvfromData \/ RecvfromDone
    <3>1. io \in ReceivePlaces /\ io' \in ReceivePlaces \cup {"idle"} /\ UNCHANGED <<txMem, txRd, txWr>>
      BY <2>6 DEF RecvfromBegin, RecvfromHead, RecvfromSize, RecvfromData, RecvfromDone, ReceivePlaces, udpChipVars
    <3>2. toe = "recvfrom.done" /\ io # "sendto.wait" /\ io' \notin {"sendto", "sendto.data", "sendto.wait"}
      BY <3>1, Called DEF ReceivePlaces
    <3> QED
      BY <1>1, <2>1, <3>1, <3>2 DEF Pending
  <2> QED
    BY <1>5, <2>2, <2>3, <2>4, <2>5, <2>6 DEF UdpSocketC
<1>6. CASE UdpChip /\ UNCHANGED <<udpIoVars, udpToeVars>>
  <2>1. UNCHANGED <<toe, io, buf, len, peer, port>>
    BY <1>6 DEF udpIoVars, udpToeVars
  <2>2. CASE UdpChipSend
    <3>1. cr = "SEND" /\ busy' /\ UNCHANGED <<txMem, txRd, txWr, dst>> /\ io = "sendto.wait"
      BY <2>2 DEF UdpChipSend, Commands
    <3>2. Pending /\ Pending'
      BY <2>1, <3>1 DEF Pending
    <3> QED
      BY <1>2, <2>1, <3>1, <3>2
  <2>3. CASE UdpChipSent \/ UdpChipArpTimeout
    <3>1. busy /\ ~busy' /\ txRd' = txWr /\ UNCHANGED <<cr, txMem, txWr, dst>>
      BY <2>3 DEF UdpChipSent, UdpChipArpTimeout
    <3>2. io = "sendto.wait" /\ cr = "NONE"
      BY <3>1 DEF Answers
    <3>3. ~Pending'
      BY <2>1, <3>1, <3>2 DEF Pending
    <3> QED
      BY <2>1, <3>1, <3>3 DEF Sending
  <2>4. CASE UdpChipClose \/ UdpChipRecv
    <3>1. io # "sendto.wait" /\ UNCHANGED <<txMem, txRd, txWr, dst>>
      BY <2>4 DEF UdpChipClose, UdpChipRecv, Commands
    <3> QED
      BY <1>1, <2>1, <3>1 DEF Pending, Sending
  <2>5. CASE UdpChipOpen
    <3>1. io = "socket.wait" /\ txRd' = Start /\ txWr' = Start /\ UNCHANGED dst
      BY <2>5 DEF UdpChipOpen, Commands
    <3>2. ~Pending'
      BY <2>1, <3>1 DEF Pending
    <3> QED
      BY <2>1, <3>1, <3>2 DEF Sending
  <2> QED
    BY <1>6, <2>2, <2>3, <2>4, <2>5 DEF UdpChip
<1>7. CASE /\ Arrive \/ UNCHANGED udpChipVars
           /\ UNCHANGED <<udpIoVars, udpToeVars>>
  <2>1. UNCHANGED <<toe, io, buf, len, peer, port, txMem, txRd, txWr, dst, cr, busy>>
    BY <1>7 DEF Arrive, udpIoVars, udpToeVars, udpChipVars
  <2> QED
    BY <2>1 DEF Sending, Pending
<1> QED
  BY <1>3, <1>4, <1>5, <1>6, <1>7, WhoSteps

-----------------------------------------------------------------------------
(* What lies in the receive buffer                                         *)

Arrivals == Seq(Nat \X (0..MaxSize))
(* v is what is left of u when its first m cells are taken.                *)
Taken(u, v, n, m) == \A k \in 1..n - m : v[k] = u[k + m]
(* v is u with a datagram behind it.                                       *)
Added(u, v, n, from, size, e) ==
  /\ \A k \in 1..n : v[k] = u[k]
  /\ v[n + 1] = Header(from, size)
  /\ \A k \in 1..size : v[n + 1 + k] = Payload(e, k)

(* What the history says of a datagram.                                    *)
LEMMA ArrivalSize ==
  ASSUME NEW a \in Arrivals, NEW e \in 1..Len(a)
  PROVE  a[e] = <<a[e][1], a[e][2]>> /\ a[e][1] \in Nat /\ a[e][2] \in 0..MaxSize /\ a[e][2] \in Nat
         /\ Len(a) \in Nat
<1>1. MaxSize \in Nat
  BY UdpChipAssumption
<1>2. a[e] \in Nat \X (0..MaxSize) /\ Len(a) \in Nat
  BY DEF Arrivals
<1> QED
  BY <1>1, <1>2

(* Reading keeps the order of the datagrams to be read.                    *)
LEMMA LaterTaken ==
  ASSUME NEW u, NEW v, NEW n \in Nat, NEW m \in Nat, Taken(u, v, n, m), NEW r \in Nat, NEW s \in Nat,
         r = s + m, NEW e, Later(u, n, r, e)
  PROVE  Later(v, n - m, s, e)
<1>1. SUFFICES ASSUME NEW k \in 1..n - m, s < k, IsData(v[k]) PROVE e < v[k][2]
  BY DEF Later
<1>2. PICK j \in 1..n : j = k + m /\ r < j
  <2>1. k + m \in 1..n /\ r < k + m
    BY <1>1
  <2> QED
    BY <2>1
<1>3. v[k] = u[j]
  BY <1>2 DEF Taken
<1>4. IsData(u[j])
  BY <1>1, <1>3 DEF IsData
<1> QED
  BY <1>2, <1>3, <1>4 DEF Later

(* Reading before a datagram keeps it whole.                               *)
LEMMA BlockTaken ==
  ASSUME NEW u, NEW v, NEW n \in Nat, NEW m \in Nat, Taken(u, v, n, m), NEW a \in Arrivals,
         NEW e \in 1..Len(a), NEW k \in 1..n - m, NEW j \in 1..n, j = k + m, Block(u, n, j, e, a)
  PROVE  Block(v, n - m, k, e, a)
<1>1. PICK z \in Nat : z = a[e][2]
  BY ArrivalSize
<1>2. /\ a[e] = <<u[j][2], u[j][3]>> /\ j + z <= n
      /\ \A i \in 1..z : u[j + i] = Payload(e, i)
      /\ j + z < n => IsHeader(u[j + z + 1])
      /\ Later(u, n, j + z, e)
  BY <1>1 DEF Block
<1>3. v[k] = u[j] /\ k + z <= n - m
  BY <1>2 DEF Taken
<1>4. ASSUME NEW i \in 1..z PROVE v[k + i] = Payload(e, i)
  <2>1. k + i \in 1..n - m /\ (k + i) + m = j + i
    BY <1>3
  <2> QED
    BY <1>2, <2>1 DEF Taken
<1>5. ASSUME k + z < n - m PROVE IsHeader(v[k + z + 1])
  <2>1. k + z + 1 \in 1..n - m /\ (k + z + 1) + m = j + z + 1 /\ j + z < n
    BY <1>5
  <2>2. v[k + z + 1] = u[j + z + 1]
    BY <2>1 DEF Taken
  <2> QED
    BY <1>2, <2>1, <2>2
<1>6. Later(v, n - m, k + z, e)
  <2>1. PICK s \in Nat, r \in Nat : s = k + z /\ r = j + z /\ r = s + m
    OBVIOUS
  <2>2. Later(u, n, r, e)
    BY <1>2, <2>1
  <2> QED
    BY <2>1, <2>2, LaterTaken
<1> QED
  BY <1>1, <1>2, <1>3, <1>4, <1>5, <1>6 DEF Block

(* Reading m cells of the datagram at hand.                                *)
LEMMA WholeTaken ==
  ASSUME NEW u, NEW v, NEW n \in Nat, NEW m \in Nat, Taken(u, v, n, m), NEW a \in Arrivals,
         NEW r \in Nat, NEW s \in Nat, r = s + m, Whole(u, n, r, a)
  PROVE  Whole(v, n - m, s, a)
<1>1. /\ r <= n /\ (r < n => IsHeader(u[r + 1]))
      /\ \A j \in 1..n : r < j /\ IsHeader(u[j]) => \E e \in 1..Len(a) : Block(u, n, j, e, a)
  BY DEF Whole
<1>2. ASSUME s < n - m PROVE IsHeader(v[s + 1])
  <2>1. s + 1 \in 1..n - m /\ (s + 1) + m = r + 1 /\ r < n
    BY <1>2
  <2>2. v[s + 1] = u[r + 1]
    BY <2>1 DEF Taken
  <2> QED
    BY <1>1, <2>1, <2>2
<1>3. ASSUME NEW k \in 1..n - m, s < k, IsHeader(v[k])
      PROVE  \E e \in 1..Len(a) : Block(v, n - m, k, e, a)
  <2>1. PICK j \in 1..n : j = k + m /\ r < j
    <3>1. k + m \in 1..n /\ r < k + m
      BY <1>3
    <3> QED
      BY <3>1
  <2>2. v[k] = u[j]
    BY <2>1 DEF Taken
  <2>3. PICK e \in 1..Len(a) : Block(u, n, j, e, a)
    BY <1>1, <1>3, <2>1, <2>2
  <2> QED
    BY <2>1, <2>3, BlockTaken
<1>4. s <= n - m
  BY <1>1
<1> QED
  BY <1>2, <1>3, <1>4 DEF Whole

(* Reading part of the datagram at hand leaves its rest.                   *)
LEMMA PartTaken ==
  ASSUME NEW u, NEW v, NEW n \in Nat, NEW m \in Nat, Taken(u, v, n, m),
         NEW r \in Nat, NEW s \in Nat, r = s + m, r <= n, NEW e, NEW o \in Nat, Part(u, r, e, o)
  PROVE  Part(v, s, e, o + m)
<1>1. SUFFICES ASSUME NEW k \in 1..s PROVE v[k] = Payload(e, (o + m) + k)
  BY DEF Part
<1>2. k \in 1..n - m /\ k + m \in 1..r /\ o + (k + m) = (o + m) + k
  OBVIOUS
<1> QED
  BY <1>2 DEF Part, Taken

(* Reading a header: the cells behind it are those of its datagram.        *)
LEMMA HeaderTaken ==
  ASSUME NEW u, NEW v, NEW n \in Nat, n > 0, Taken(u, v, n, 1), NEW a \in Arrivals, Whole(u, n, 0, a)
  PROVE  \E e \in 1..Len(a) :
           /\ a[e] = <<u[1][2], u[1][3]>>
           /\ Whole(v, n - 1, a[e][2], a) /\ Part(v, a[e][2], e, 0)
           /\ Later(v, n - 1, a[e][2], e)
           /\ \A g \in Nat : Later(u, n, 0, g) =>
                Later(v, n - 1, a[e][2], g) /\ (a[e][2] > 0 => g < e)
<1>1. /\ IsHeader(u[1])
      /\ \A j \in 1..n : 0 < j /\ IsHeader(u[j]) => \E e \in 1..Len(a) : Block(u, n, j, e, a)
  BY DEF Whole
<1>2. PICK e \in 1..Len(a) : Block(u, n, 1, e, a)
  BY <1>1
<1>3. PICK z \in Nat : z = a[e][2]
  BY ArrivalSize
<1>4. /\ a[e] = <<u[1][2], u[1][3]>> /\ 1 + z <= n
      /\ \A i \in 1..z : u[1 + i] = Payload(e, i)
      /\ 1 + z < n => IsHeader(u[1 + z + 1])
      /\ Later(u, n, 1 + z, e)
  BY <1>2, <1>3 DEF Block
<1>5. PICK r \in Nat : r = 1 + z /\ r = z + 1
  OBVIOUS
<1>6. Part(v, z, e, 0)
  <2>1. SUFFICES ASSUME NEW i \in 1..z PROVE v[i] = Payload(e, 0 + i)
    BY DEF Part
  <2>2. i \in 1..n - 1 /\ i + 1 = 1 + i /\ 0 + i = i
    BY <1>4
  <2> QED
    BY <1>4, <2>2 DEF Taken
<1>7. Later(v, n - 1, z, e)
  <2>1. Later(u, n, r, e)
    BY <1>4, <1>5
  <2> QED
    BY <1>5, <2>1, LaterTaken
<1>8. Whole(v, n - 1, z, a)
  <2>1. Whole(u, n, r, a)
    <3>1. r <= n /\ (r < n => IsHeader(u[r + 1]))
      BY <1>4, <1>5
    <3>2. \A j \in 1..n : r < j /\ IsHeader(u[j]) => \E d \in 1..Len(a) : Block(u, n, j, d, a)
      BY <1>1
    <3> QED
      BY <3>1, <3>2 DEF Whole
  <2> QED
    BY <1>5, <2>1, WholeTaken
<1>9. ASSUME NEW g \in Nat, Later(u, n, 0, g)
      PROVE  Later(v, n - 1, z, g) /\ (z > 0 => g < e)
  <2>1. Later(u, n, r, g)
    BY <1>5, <1>9 DEF Later
  <2>2. Later(v, n - 1, z, g)
    BY <1>5, <2>1, LaterTaken
  <2>3. ASSUME z > 0 PROVE g < e
    <3>1. 2 \in 1..n /\ 0 < 2 /\ u[2] = Payload(e, 1)
      BY <1>4, <2>3
    <3>2. IsData(u[2]) /\ u[2][2] = e
      BY <3>1 DEF IsData, Payload
    <3> QED
      BY <1>9, <3>1, <3>2 DEF Later
  <2> QED
    BY <2>2, <2>3
<1> QED
  BY <1>3, <1>4, <1>6, <1>7, <1>8, <1>9

(* A datagram that arrives is later than all before.                       *)
LEMMA LaterAdded ==
  ASSUME NEW u, NEW v, NEW n \in Nat, NEW size \in Nat, NEW from, NEW e \in Nat,
         Added(u, v, n, from, size, e), NEW r \in Nat, NEW g \in Nat, g < e, Later(u, n, r, g)
  PROVE  Later(v, n + 1 + size, r, g)
<1>1. SUFFICES ASSUME NEW k \in 1..n + 1 + size, r < k, IsData(v[k]) PROVE g < v[k][2]
  BY DEF Later
<1>2. CASE k \in 1..n
  <2>1. v[k] = u[k]
    BY <1>2 DEF Added
  <2> QED
    BY <1>1, <1>2, <2>1 DEF Later
<1>3. CASE k = n + 1
  BY <1>1, <1>3 DEF Added, Header, IsData
<1>4. CASE k > n + 1
  <2>1. PICK i \in 1..size : k = n + 1 + i
    <3>1. k - (n + 1) \in 1..size /\ k = n + 1 + (k - (n + 1))
      BY <1>4
    <3> QED
      BY <3>1
  <2>2. v[k] = Payload(e, i)
    BY <2>1 DEF Added
  <2> QED
    BY <2>2 DEF Payload
<1> QED
  BY <1>2, <1>3, <1>4

(* A datagram that arrives keeps those before it whole.                    *)
LEMMA BlockAdded ==
  ASSUME NEW u, NEW v, NEW n \in Nat, NEW size \in 0..MaxSize, NEW from \in Nat, NEW a \in Arrivals,
         Added(u, v, n, from, size, Len(a) + 1), NEW k \in 1..n, NEW e \in 1..Len(a), Block(u, n, k, e, a)
  PROVE  Block(v, n + 1 + size, k, e, Append(a, <<from, size>>))
<1>1. size \in Nat
  BY UdpChipAssumption
<1>2. PICK b : b = Append(a, <<from, size>>)
  OBVIOUS
<1>3. b[e] = a[e]
  BY <1>2 DEF Arrivals
<1>4. PICK z \in Nat : z = a[e][2]
  BY ArrivalSize
<1>5. /\ a[e] = <<u[k][2], u[k][3]>> /\ k + z <= n
      /\ \A i \in 1..z : u[k + i] = Payload(e, i)
      /\ k + z < n => IsHeader(u[k + z + 1])
      /\ Later(u, n, k + z, e)
  BY <1>4 DEF Block
<1>6. v[k] = u[k] /\ k + z <= n + 1 + size
  BY <1>1, <1>5 DEF Added
<1>7. ASSUME NEW i \in 1..z PROVE v[k + i] = Payload(e, i)
  <2>1. k + i \in 1..n
    BY <1>5
  <2> QED
    BY <1>5, <2>1 DEF Added
<1>8. ASSUME k + z < n + 1 + size PROVE IsHeader(v[k + z + 1])
  <2>1. CASE k + z < n
    <3>1. k + z + 1 \in 1..n
      BY <2>1
    <3>2. v[k + z + 1] = u[k + z + 1]
      BY <3>1 DEF Added
    <3> QED
      BY <1>5, <2>1, <3>2
  <2>2. CASE k + z = n
    BY <2>2 DEF Added, Header, IsHeader
  <2> QED
    BY <1>5, <2>1, <2>2
<1>9. Later(v, n + 1 + size, k + z, e)
  <2>1. PICK r \in Nat : r = k + z
    OBVIOUS
  <2>2. PICK g \in Nat : g = Len(a) + 1 /\ e < g /\ e \in Nat
    <3>1. Len(a) \in Nat
      BY ArrivalSize
    <3> QED
      BY <3>1
  <2>3. Later(u, n, r, e) /\ Added(u, v, n, from, size, g)
    BY <1>5, <2>1, <2>2
  <2>4. Later(v, n + 1 + size, r, e)
    BY <1>1, <2>2, <2>3, LaterAdded
  <2> QED
    BY <2>1, <2>4
<1>10. Block(v, n + 1 + size, k, e, b)
  BY <1>3, <1>4, <1>5, <1>6, <1>7, <1>8, <1>9 DEF Block
<1> QED
  BY <1>2, <1>10

(* A datagram arrives.                                                     *)
LEMMA WholeAdded ==
  ASSUME NEW u, NEW v, NEW n \in Nat, NEW size \in 0..MaxSize, NEW from \in Nat, NEW a \in Arrivals,
         Added(u, v, n, from, size, Len(a) + 1), NEW r \in Nat, Whole(u, n, r, a)
  PROVE  Whole(v, n + 1 + size, r, Append(a, <<from, size>>))
<1>1. PICK b : b = Append(a, <<from, size>>)
  OBVIOUS
<1>2. PICK g \in Nat : g = Len(a) + 1
  BY DEF Arrivals
<1>3. size \in Nat /\ Len(b) = g /\ b[g] = <<from, size>>
  BY <1>1, <1>2, UdpChipAssumption DEF Arrivals
<1>4. /\ r <= n /\ (r < n => IsHeader(u[r + 1]))
      /\ \A j \in 1..n : r < j /\ IsHeader(u[j]) => \E e \in 1..Len(a) : Block(u, n, j, e, a)
  BY DEF Whole
<1>5. r <= n + 1 + size /\ IsHeader(v[r + 1])
  <2>1. CASE r < n
    <3>1. r + 1 \in 1..n
      BY <2>1
    <3>2. v[r + 1] = u[r + 1]
      BY <3>1 DEF Added
    <3> QED
      BY <1>3, <1>4, <2>1, <3>2
  <2>2. CASE r = n
    BY <1>3, <2>2 DEF Added, Header, IsHeader
  <2> QED
    BY <1>4, <2>1, <2>2
<1>6. ASSUME NEW k \in 1..n + 1 + size, r < k, IsHeader(v[k])
      PROVE  \E e \in 1..Len(b) : Block(v, n + 1 + size, k, e, b)
  <2>1. CASE k \in 1..n
    <3>1. v[k] = u[k]
      BY <2>1 DEF Added
    <3>2. PICK e \in 1..Len(a) : Block(u, n, k, e, a)
      BY <1>4, <1>6, <2>1, <3>1
    <3>3. Block(v, n + 1 + size, k, e, b)
      BY <1>1, <2>1, <3>2, BlockAdded
    <3>4. e \in 1..Len(b)
      BY <1>2, <1>3
    <3> QED
      BY <3>3, <3>4
  <2>2. CASE k = n + 1
    <3>1. v[k] = Header(from, size) /\ \A i \in 1..size : v[k + i] = Payload(g, i)
      BY <1>2, <2>2 DEF Added
    <3>2. b[g] = <<v[k][2], v[k][3]>> /\ b[g][2] = size
      BY <1>3, <3>1 DEF Header
    <3>3. Later(v, n + 1 + size, k + size, g)
      BY <1>3, <2>2 DEF Later
    <3>4. Block(v, n + 1 + size, k, g, b)
      BY <1>3, <2>2, <3>1, <3>2, <3>3 DEF Block
    <3>5. g \in 1..Len(b)
      BY <1>2, <1>3 DEF Arrivals
    <3> QED
      BY <3>4, <3>5
  <2>3. CASE k > n + 1
    <3>1. PICK i \in 1..size : k = n + 1 + i
      <4>1. k - (n + 1) \in 1..size /\ k = n + 1 + (k - (n + 1))
        BY <1>3, <2>3
      <4> QED
        BY <4>1
    <3>2. v[k] = Payload(Len(a) + 1, i)
      BY <3>1 DEF Added
    <3> QED
      BY <1>6, <3>2 DEF IsHeader, Payload
  <2> QED
    BY <1>3, <2>1, <2>2, <2>3
<1>7. Whole(v, n + 1 + size, r, b)
  BY <1>5, <1>6 DEF Whole
<1> QED
  BY <1>1, <1>7

-----------------------------------------------------------------------------
(* Receiving                                                               *)

(* The rest of the datagram at hand is no larger than a datagram.          *)
LEMMA RestType ==
  ASSUME Fields, Reading
  PROVE  Rest \in Nat /\ Rest <= MaxSize /\ MaxSize \in Nat
<1>1. MaxSize \in Nat /\ remained \in 0..MaxSize /\ remained \in Nat /\ remained <= MaxSize
  BY UdpChipAssumption DEF Fields
<1>2. CASE io = "recvfrom.size"
  <2>1. Rest = head[3] /\ head[3] \in 0..MaxSize
    BY <1>2 DEF Rest, Reading
  <2> QED
    BY <1>1, <2>1
<1>3. CASE io = "recvfrom.done"
  <2>1. Rest = remained - Len(buf) /\ Len(buf) <= remained /\ Len(buf) \in Nat
    BY <1>3 DEF Rest, Reading, Fields, Data
  <2> QED
    BY <1>1, <2>1
<1>4. CASE io \notin {"recvfrom.size", "recvfrom.done"}
  BY <1>1, <1>4 DEF Rest
<1> QED
  BY <1>2, <1>3, <1>4

(* A header lies next when there is no rest to read.                       *)
LEMMA TakesHeader ==
  ASSUME Fields, Pointers, Receiving, Stream, RecvfromHead
  PROVE  /\ sr = "UDP" /\ Rest = 0 /\ Ahead \in Nat /\ Ahead > 0 /\ Ahead' = Ahead - 1
         /\ head' = Unread[1] /\ Taken(Unread, Unread', Ahead, 1)
         /\ arrived \in Arrivals /\ Whole(Unread, Ahead, 0, arrived)
<1>1. io = "recvfrom.head" /\ head' = Cells(rxMem, RxSize, rxRd, 1)[1]
  BY DEF RecvfromHead
<1>2. sr = "UDP" /\ remained = 0 /\ Ahead > 0
  BY <1>1 DEF Stream, Reading
<1>3. Rest = 0
  BY <1>1, <1>2 DEF Rest
<1>4. Ahead \in Nat /\ 1 \in 1..Ahead
  BY <1>2, Counts
<1>5. 1 <= Ahead /\ ReadTo(1) /\ UNCHANGED rxVars
  BY <1>4 DEF RecvfromHead
<1>6. Ahead' = Ahead - 1 /\ \A k \in 1..Ahead - 1 : Unread'[k] = Unread[k + 1]
  BY <1>5, Reads
<1>7. Unread[1] = rxMem[(rxRd + 1 - 1) % RxSize]
  BY <1>4, UnreadCell
<1>8. Cells(rxMem, RxSize, rxRd, 1)[1] = rxMem[(rxRd + 1 - 1) % RxSize]
  BY DEF Cells
<1>9. Whole(Unread, Ahead, 0, arrived)
  BY <1>2, <1>3 DEF Stream, Layout
<1> QED
  BY <1>1, <1>2, <1>3, <1>4, <1>6, <1>7, <1>8, <1>9 DEF Taken, Arrivals, Fields

(* What is taken of the datagram at hand is not to be read any more.       *)
LEMMA TakesPayload ==
  ASSUME Fields, Pointers, Receiving, Stream, RecvfromData
  PROVE  \E n \in Nat, s \in Nat :
           /\ Ahead' = Ahead - n /\ Taken(Unread, Unread', Ahead, n)
           /\ Rest = s + n /\ Rest' = s /\ sr = "UDP"
           /\ n = Len(buf') /\ n = Least(len, remained) /\ Rest = remained
           /\ \A k \in 1..n : buf'[k] = Unread[k]
<1>1. io = "recvfrom.data" /\ io' = "recvfrom.done" /\ UNCHANGED remained
  BY DEF RecvfromData, UdpGoto
<1>2. PICK n \in Nat : /\ n <= Ahead /\ ReadTo(n) /\ UNCHANGED rxVars
                       /\ n = Len(buf') /\ n = Least(len, remained)
                       /\ \A k \in 1..n : buf'[k] = Unread[k]
  BY Takes
<1>3. Ahead' = Ahead - n /\ Taken(Unread, Unread', Ahead, n)
  BY <1>2, Reads DEF Taken
<1>4. Rest = remained /\ Rest' = remained - n
  BY <1>1, <1>2 DEF Rest
<1>5. n <= remained /\ remained \in Nat
  BY <1>2, UdpChipAssumption DEF Fields, Least
<1>6. remained - n \in Nat /\ remained = (remained - n) + n
  BY <1>5
<1>7. sr = "UDP"
  BY <1>1 DEF Stream, Reading
<1> QED
  BY <1>2, <1>3, <1>4, <1>6, <1>7

(* recvfrom() knows at each step what it did and what is next.             *)
LEMMA ReadingKept ==
  ASSUME Calling, Commands, Answers, Fields, Pointers, Receiving, Stream, [Next]_udpVars
  PROVE  Reading'
<1> USE DEF Stream
<1>1. CASE App
  BY <1>1, AppSteps DEF Reading, udpChipVars
<1>2. CASE WiznetToe
  <2>1. io = "idle" /\ UNCHANGED <<remained, packInfo, head, buf, sr>>
    BY <1>2, ToeSteps
  <2>2. io' \in {"idle", "socket", "sendto", "recvfrom", "close"}
    BY <1>2, ToeCalls
  <2> QED
    BY <2>1, <2>2 DEF Reading
<1>3. CASE UdpSocketC
  <2> USE DEF UdpGoto, UdpReturn
  <2>1. CASE UdpClose \/ UdpOpen
    <3>1. /\ \/ io \in {"close", "socket"} /\ io' \in {"close.wait", "socket.closed"}
             \/ io = "socket.open" /\ io' = "socket.wait"
          /\ UNCHANGED <<sr, remained, packInfo, head, buf>>
      BY <2>1 DEF UdpClose, UdpOpen
    <3> QED
      BY <3>1 DEF Reading
  <2>2. CASE UdpClosed \/ UdpOpened
    <3>1. remained' = 0 /\ packInfo' = {} /\ io' \in {"idle", "socket.open"}
      BY <2>2 DEF UdpClosed, UdpOpened
    <3> QED
      BY <3>1 DEF Reading
  <2>3. CASE SendtoBegin \/ SendtoData \/ SendtoAnswer
    <3>1. /\ io \in {"sendto", "sendto.data", "sendto.wait"} /\ io' \in {"idle", "sendto.data", "sendto.wait"}
          /\ UNCHANGED <<sr, remained, packInfo, head, buf>>
      BY <2>3 DEF SendtoBegin, SendtoData, SendtoAnswer
    <3> QED
      BY <3>1 DEF Reading
  <2>4. CASE RecvfromBegin
    <3>1. /\ io = "recvfrom" /\ UNCHANGED <<remained, packInfo, head, buf, sr, rxVars, rxRd>>
          /\ \/ io' = "idle"
             \/ io' = "recvfrom.data" /\ remained # 0
             \/ io' = "recvfrom.head" /\ remained = 0 /\ sr # "CLOSED" /\ RX_RSR # 0
      BY <2>4 DEF RecvfromBegin, udpChipVars
    <3>2. RX_RSR # 0 => Ahead > 0
      <4>1. rxRd = rxRel /\ RX_RSR = Held + Ahead
        BY <3>1 DEF Commands, Receiving
      <4>2. Held = 0
        <5>1. rxRd - rxRel = 0 /\ 0 \in 0..PtrMod - 1
          BY <4>1, PointersCount, Sizes
        <5>2. 0 % PtrMod = 0
          BY <5>1, Sizes, ModSmall
        <5> QED
          BY <5>1, <5>2, Zenon DEF Held
      <4> QED
        BY <4>1, <4>2, Counts
    <3>3. Ahead' = Ahead /\ sr \in {"CLOSED", "UDP"}
      BY <3>1, SameUnread DEF Fields
    <3> QED
      BY <3>1, <3>2, <3>3 DEF Reading
  <2>5. CASE RecvfromHead
    <3>1. io = "recvfrom.head" /\ io' = "recvfrom.size" /\ UNCHANGED <<remained, packInfo, sr>>
      BY <2>5 DEF RecvfromHead
    <3>2. head'[3] \in 0..MaxSize
      <4>1. PICK e \in 1..Len(arrived) : arrived[e] = <<Unread[1][2], Unread[1][3]>>
        <5>1. 1 \in 1..Ahead
          BY <2>5, TakesHeader
        <5>2. IsHeader(Unread[1])
          BY <2>5, TakesHeader DEF Whole
        <5>3. \A k \in 1..Ahead : 0 < k /\ IsHeader(Unread[k]) =>
                \E e \in 1..Len(arrived) : Block(Unread, Ahead, k, e, arrived)
          BY <2>5, TakesHeader DEF Whole
        <5>4. PICK e \in 1..Len(arrived) : Block(Unread, Ahead, 1, e, arrived)
          BY <5>1, <5>2, <5>3
        <5> QED
          BY <5>4 DEF Block
      <4>2. arrived[e][2] = head'[3]
        BY <2>5, <4>1, TakesHeader
      <4> QED
        BY <2>5, <4>1, <4>2, TakesHeader, ArrivalSize
    <3> QED
      BY <3>1, <3>2 DEF Reading
  <2>6. CASE RecvfromSize
    <3>1. io = "recvfrom.size" /\ io' = "recvfrom.data" /\ UNCHANGED sr
      BY <2>6 DEF RecvfromSize, udpChipVars
    <3> QED
      BY <3>1 DEF Reading
  <2>7. CASE RecvfromData
    <3>1. io = "recvfrom.data" /\ io' = "recvfrom.done" /\ UNCHANGED <<remained, sr>>
      BY <2>7 DEF RecvfromData
    <3>2. Len(buf') <= remained
      <4>1. len \in Nat /\ remained \in Nat
        BY UdpChipAssumption DEF Fields
      <4>2. Len(buf') = Least(len, remained)
        BY <2>7, Takes
      <4> QED
        BY <4>1, <4>2 DEF Least
    <3> QED
      BY <3>1, <3>2 DEF Reading
  <2>8. CASE RecvfromDone
    <3>1. /\ io = "recvfrom.done" /\ io' = "idle" /\ UNCHANGED sr
          /\ remained' = remained - Len(buf)
          /\ packInfo' = IF remained' # 0 THEN packInfo \cup {"REMAINED"} ELSE {}
      BY <2>8 DEF RecvfromDone, udpChipVars
    <3>2. remained' \in Nat
      BY <3>1, UdpChipAssumption DEF Reading, Fields, Data
    <3> QED
      BY <3>1, <3>2 DEF Reading
  <2> QED
    BY <1>3, <2>1, <2>2, <2>3, <2>4, <2>5, <2>6, <2>7, <2>8 DEF UdpSocketC
<1>4. CASE UdpChip /\ UNCHANGED udpIoVars
  <2>1. UNCHANGED <<io, remained, packInfo, head, buf>>
    BY <1>4 DEF udpIoVars
  <2>2. CASE UdpChipClose \/ UdpChipOpen
    <3>1. \/ sr' = "CLOSED" /\ io \in {"close.wait", "socket.closed"}
          \/ sr' = "UDP" /\ io = "socket.wait"
      BY <2>2 DEF UdpChipClose, UdpChipOpen, Commands
    <3> QED
      BY <2>1, <3>1 DEF Reading
  <2>3. CASE UdpChipSend \/ UdpChipSent \/ UdpChipArpTimeout \/ UdpChipRecv
    <3>1. UNCHANGED sr /\ io # "recvfrom.head"
      BY <2>3 DEF UdpChipSend, UdpChipSent, UdpChipArpTimeout, UdpChipRecv, Commands, Answers
    <3> QED
      BY <2>1, <3>1 DEF Reading
  <2> QED
    BY <1>4, <2>2, <2>3 DEF UdpChip
<1>5. CASE Arrive /\ UNCHANGED udpIoVars
  <2>1. UNCHANGED <<io, remained, packInfo, head, buf, sr>>
    BY <1>5 DEF udpIoVars, Arrive
  <2>2. Ahead > 0 => Ahead' > 0
    <3>1. PICK size \in 0..MaxSize : Ahead' = Ahead + 1 + size
      BY <1>5, Arrives
    <3> QED
      BY <3>1, Counts
  <2> QED
    BY <2>1, <2>2 DEF Reading
<1>6. CASE UNCHANGED <<udpChipVars, udpIoVars>>
  BY <1>6, SameUnread DEF Reading, udpIoVars, udpChipVars
<1> QED
  BY <1>1, <1>2, <1>3, <1>4, <1>5, <1>6, WhoSteps

(* What a step does to the cells still to be read.                         *)
LEMMA ReadSteps ==
  ASSUME Commands, Fields, Pointers, Receiving, Stream, [Next]_udpVars
  PROVE  \/ sr' = "CLOSED"
         \/ UNCHANGED <<sr, arrived>> /\ Unread' = Unread /\ Ahead' = Ahead /\ Rest' = Rest
         \/ Ahead' = 0 /\ Rest' = 0 /\ UNCHANGED arrived
         \/ RecvfromHead /\ UNCHANGED <<sr, arrived>> /\ Rest' = head'[3]
         \/ RecvfromData /\ UNCHANGED <<sr, arrived>>
         \/ Arrive /\ sr' = sr /\ Rest' = Rest
<1>1. ASSUME UNCHANGED <<rxVars, rxRd, sr, arrived>>, Rest' = Rest
      PROVE  UNCHANGED <<sr, arrived>> /\ Unread' = Unread /\ Ahead' = Ahead /\ Rest' = Rest
  BY <1>1, SameUnread
<1>2. CASE App
  <2>1. Rest' = Rest
    BY <1>2, AppSteps DEF Rest
  <2> QED
    BY <1>1, <1>2, <2>1, AppSteps DEF udpChipVars
<1>3. CASE WiznetToe
  <2>1. io = "idle" /\ UNCHANGED <<remained, sr, rxVars, rxRd, arrived>>
    BY <1>3, ToeSteps
  <2>2. Rest' = Rest
    BY <1>3, <2>1, ToeCalls DEF Rest
  <2> QED
    BY <1>1, <2>1, <2>2
<1>4. CASE UdpSocketC
  <2> USE DEF UdpGoto, UdpReturn
  <2>1. CASE UdpClose \/ UdpOpen \/ SendtoBegin \/ SendtoData \/ SendtoAnswer \/ RecvfromBegin
    <3>1. UNCHANGED <<rxVars, rxRd, arrived, sr, remained>>
      BY <2>1 DEF UdpClose, UdpOpen, SendtoBegin, SendtoData, SendtoAnswer, RecvfromBegin, udpChipVars
    <3>2. io \notin {"recvfrom.size", "recvfrom.done"} /\ io' \notin {"recvfrom.size", "recvfrom.done"}
      BY <2>1 DEF UdpClose, UdpOpen, SendtoBegin, SendtoData, SendtoAnswer, RecvfromBegin
    <3>3. Rest' = Rest
      BY <3>1, <3>2 DEF Rest
    <3> QED
      BY <1>1, <3>1, <3>3
  <2>2. CASE UdpClosed
    BY <2>2 DEF UdpClosed
  <2>3. CASE UdpOpened \/ RecvfromSize \/ RecvfromDone
    <3>1. /\ UNCHANGED <<rxVars, rxRd, arrived, sr>>
          /\ \/ io = "socket.wait" /\ io' = "idle" /\ remained' = 0
             \/ io = "recvfrom.size" /\ io' = "recvfrom.data" /\ remained' = head[3]
             \/ io = "recvfrom.done" /\ io' = "idle" /\ remained' = remained - Len(buf)
      BY <2>3 DEF UdpOpened, RecvfromSize, RecvfromDone, udpChipVars
    <3>2. Rest' = Rest
      BY <3>1 DEF Rest, Stream, Reading
    <3> QED
      BY <1>1, <3>1, <3>2
  <2>4. CASE RecvfromHead
    <3>1. UNCHANGED <<sr, arrived>> /\ io' = "recvfrom.size"
      BY <2>4 DEF RecvfromHead
    <3> QED
      BY <2>4, <3>1 DEF Rest
  <2>5. CASE RecvfromData
    BY <2>5 DEF RecvfromData
  <2> QED
    BY <1>4, <2>1, <2>2, <2>3, <2>4, <2>5 DEF UdpSocketC
<1>5. CASE UdpChip /\ UNCHANGED udpIoVars
  <2>1. Rest' = Rest
    BY <1>5 DEF udpIoVars, Rest
  <2>2. CASE UdpChipClose
    BY <2>2 DEF UdpChipClose
  <2>3. CASE UdpChipOpen
    <3>1. Rest' = 0
      <4>1. io = "socket.wait"
        BY <2>3 DEF UdpChipOpen, Commands
      <4> QED
        BY <2>1, <4>1 DEF Rest, Stream, Reading
    <3>2. Ahead' = 0
      <4>1. rxWr' - rxRd' = 0 /\ 0 \in 0..PtrMod - 1
        BY <2>3, UdpChipAssumption, Sizes DEF UdpChipOpen
      <4>2. 0 % PtrMod = 0
        BY <4>1, Sizes, ModSmall
      <4> QED
        BY <4>1, <4>2, Zenon DEF Ahead
    <3>3. UNCHANGED arrived
      BY <2>3 DEF UdpChipOpen
    <3> QED
      BY <3>1, <3>2, <3>3
  <2>4. CASE UdpChipSend \/ UdpChipSent \/ UdpChipArpTimeout
    BY <1>1, <2>1, <2>4 DEF UdpChipSend, UdpChipSent, UdpChipArpTimeout
  <2>5. CASE UdpChipRecv
    <3>1. UNCHANGED <<rxMem, rxWr, rxRd, arrived, sr>>
      BY <2>5 DEF UdpChipRecv
    <3>2. Unread' = Unread /\ Ahead' = Ahead
      BY <3>1 DEF Unread, Cells, Ahead
    <3> QED
      BY <2>1, <3>1, <3>2
  <2> QED
    BY <1>5, <2>2, <2>3, <2>4, <2>5 DEF UdpChip
<1>6. CASE Arrive /\ UNCHANGED udpIoVars
  BY <1>6 DEF udpIoVars, Rest, Arrive
<1>7. CASE UNCHANGED <<udpChipVars, udpIoVars>>
  BY <1>1, <1>7 DEF udpChipVars, udpIoVars, Rest
<1> QED
  BY <1>2, <1>3, <1>4, <1>5, <1>6, <1>7, WhoSteps

(* The cells to be read stay whole datagrams in order.                     *)
LEMMA LayoutKept ==
  ASSUME Commands, Fields, Pointers, Receiving, Stream, [Next]_udpVars
  PROVE  Layout'
<1>0. /\ Layout /\ Reading /\ Rest \in Nat /\ Rest <= MaxSize /\ MaxSize \in Nat
      /\ arrived \in Arrivals /\ Ahead \in Nat
  BY RestType, Counts DEF Stream, Fields, Arrivals
<1>1. CASE sr' = "CLOSED"
  BY <1>1 DEF Layout
<1>2. CASE UNCHANGED <<sr, arrived>> /\ Unread' = Unread /\ Ahead' = Ahead /\ Rest' = Rest
  BY <1>0, <1>2 DEF Layout
<1>3. CASE Ahead' = 0 /\ Rest' = 0 /\ UNCHANGED arrived
  <2>1. Whole(Unread', 0, 0, arrived') /\ Part(Unread', 0, 0, 0)
    BY DEF Whole, Part
  <2>2. 0 \in 0..Len(arrived') /\ 0 \in 0..MaxSize /\ 0 + 0 <= MaxSize
    <3>1. Len(arrived) \in Nat
      BY <1>0 DEF Arrivals
    <3> QED
      BY <1>0, <1>3, <3>1
  <2> QED
    BY <1>3, <2>1, <2>2 DEF Layout
<1>4. CASE RecvfromHead /\ UNCHANGED <<sr, arrived>> /\ Rest' = head'[3]
  <2>1. PICK e \in 1..Len(arrived) :
           /\ arrived[e] = <<Unread[1][2], Unread[1][3]>>
           /\ Whole(Unread', Ahead - 1, arrived[e][2], arrived) /\ Part(Unread', arrived[e][2], e, 0)
    BY <1>4, TakesHeader, HeaderTaken
  <2>2. Rest' = arrived[e][2] /\ Ahead' = Ahead - 1
    BY <1>4, <2>1, TakesHeader
  <2>3. 0 + arrived[e][2] <= MaxSize /\ 0 \in 0..MaxSize /\ e \in 0..Len(arrived)
    BY <1>0, ArrivalSize
  <2> QED
    BY <1>4, <2>1, <2>2, <2>3 DEF Layout
<1>5. CASE RecvfromData /\ UNCHANGED <<sr, arrived>>
  <2>2. PICK n \in Nat, s \in Nat : /\ Ahead' = Ahead - n /\ Taken(Unread, Unread', Ahead, n)
                                    /\ Rest = s + n /\ Rest' = s /\ sr = "UDP"
    BY <1>5, TakesPayload
  <2>5. PICK r \in Nat : r = Rest /\ r = s + n
    BY <2>2
  <2>6. sr = "UDP" /\ Whole(Unread, Ahead, r, arrived)
    BY <1>0, <2>2, <2>5 DEF Layout
  <2>7. PICK e \in 0..Len(arrived), o \in 0..MaxSize : o + r <= MaxSize /\ Part(Unread, r, e, o)
    BY <1>0, <2>5, <2>6 DEF Layout
  <2>8. Whole(Unread', Ahead', s, arrived)
    BY <1>0, <2>2, <2>5, <2>6, WholeTaken
  <2>9. Part(Unread', s, e, o + n)
    <3>1. r <= Ahead /\ o \in Nat
      BY <1>0, <2>6 DEF Whole
    <3> QED
      BY <1>0, <2>2, <2>5, <2>7, <3>1, PartTaken
  <2>10. o + n \in 0..MaxSize /\ (o + n) + s <= MaxSize
    <3>1. MaxSize \in Nat
      BY <1>0
    <3>2. o + r <= MaxSize
      BY <2>7
    <3>3. r = s + n
      BY <2>5
    <3> QED
      BY <3>1, <3>2, <3>3
  <2> QED
    BY <1>5, <2>2, <2>8, <2>9, <2>10 DEF Layout
<1>6. CASE Arrive /\ sr' = sr /\ Rest' = Rest
  <2>1. Rest' = Rest /\ sr' = sr
    BY <1>6
  <2>2. PICK from \in Sources, size \in 0..MaxSize :
           /\ arrived' = Append(arrived, <<from, size>>)
           /\ Ahead' = Ahead + 1 + size
           /\ \A k \in 1..Ahead : Unread'[k] = Unread[k]
           /\ Unread'[Ahead + 1] = Header(from, size)
           /\ \A k \in 1..size : Unread'[Ahead + 1 + k] = Payload(Len(arrived) + 1, k)
    BY <1>6, Arrives
  <2>3. Added(Unread, Unread', Ahead, from, size, Len(arrived) + 1) /\ from \in Nat
    BY <2>2, UdpChipAssumption DEF Added
  <2>4. ASSUME sr = "UDP" PROVE Whole(Unread', Ahead', Rest', arrived')
    <3>1. Whole(Unread, Ahead, Rest, arrived)
      BY <1>0, <2>4 DEF Layout
    <3> QED
      BY <1>0, <2>1, <2>2, <2>3, <3>1, WholeAdded
  <2>5. ASSUME sr = "UDP" PROVE \E e \in 0..Len(arrived') : \E o \in 0..MaxSize :
                                   o + Rest' <= MaxSize /\ Part(Unread', Rest', e, o)
    <3>1. PICK e \in 0..Len(arrived), o \in 0..MaxSize : o + Rest <= MaxSize /\ Part(Unread, Rest, e, o)
      BY <1>0, <2>5 DEF Layout
    <3>2. \A k \in 1..Rest : k \in 1..Ahead
      <4>1. Rest <= Ahead
        BY <1>0, <2>5 DEF Layout, Whole
      <4> QED
        BY <1>0, <4>1
    <3>3. Part(Unread', Rest', e, o)
      BY <2>1, <2>2, <3>1, <3>2 DEF Part
    <3>4. e \in 0..Len(arrived')
      BY <1>0, <2>2 DEF Arrivals
    <3> QED
      BY <2>1, <3>1, <3>3, <3>4
  <2> QED
    BY <2>1, <2>4, <2>5 DEF Layout
<1> QED
  BY <1>1, <1>2, <1>3, <1>4, <1>5, <1>6, ReadSteps

-----------------------------------------------------------------------------
(* The echo server                                                         *)

(* The answer last sent changes with what was sent only.                   *)
LEMMA SameLast ==
  ASSUME UNCHANGED out
  PROVE  Service!Last' = Service!Last
BY DEF Service!Last

(* A datagram before everything to be read stays so.                       *)
LEMMA BehindKept ==
  ASSUME UdpInv, [Next]_udpVars, NEW g \in Nat, g <= Len(arrived), Behind(g)
  PROVE  Behind(g)'
<1>0. /\ Calling /\ Commands /\ Answers /\ Fields /\ Pointers /\ Receiving /\ Stream /\ Layout /\ Reading
      /\ Rest \in Nat /\ arrived \in Arrivals /\ Ahead \in Nat
  BY RestType, Counts DEF UdpInv, Stream, Fields, Arrivals
<1>1. CASE sr' = "CLOSED"
  BY <1>1 DEF Behind
<1>2. CASE UNCHANGED <<sr, arrived>> /\ Unread' = Unread /\ Ahead' = Ahead /\ Rest' = Rest
  BY <1>2 DEF Behind
<1>3. CASE Ahead' = 0 /\ Rest' = 0 /\ UNCHANGED arrived
  BY <1>3 DEF Behind, Later
<1>4. CASE RecvfromHead /\ UNCHANGED <<sr, arrived>> /\ Rest' = head'[3]
  <2>1. Later(Unread, Ahead, 0, g)
    BY <1>0, <1>4, TakesHeader DEF Behind
  <2>2. PICK e \in 1..Len(arrived) :
           /\ arrived[e] = <<Unread[1][2], Unread[1][3]>>
           /\ Later(Unread', Ahead - 1, arrived[e][2], g)
    BY <1>0, <1>4, <2>1, TakesHeader, HeaderTaken
  <2>3. Rest' = arrived[e][2] /\ Ahead' = Ahead - 1
    BY <1>0, <1>4, <2>2, TakesHeader
  <2> QED
    BY <2>2, <2>3 DEF Behind
<1>5. CASE RecvfromData /\ UNCHANGED <<sr, arrived>>
  <2>1. PICK n \in Nat, s \in Nat : /\ Ahead' = Ahead - n /\ Taken(Unread, Unread', Ahead, n)
                                    /\ Rest = s + n /\ Rest' = s /\ sr = "UDP"
    BY <1>0, <1>5, TakesPayload
  <2>2. PICK r \in Nat : r = Rest
    BY <1>0
  <2>3. Later(Unread, Ahead, r, g)
    BY <2>1, <2>2 DEF Behind
  <2>4. Later(Unread', Ahead - n, s, g)
    BY <1>0, <2>1, <2>2, <2>3, LaterTaken
  <2> QED
    BY <2>1, <2>4 DEF Behind
<1>6. CASE Arrive /\ sr' = sr /\ Rest' = Rest
  <2>1. Rest' = Rest /\ sr' = sr
    BY <1>6
  <2>2. PICK from \in Sources, size \in 0..MaxSize :
           /\ Ahead' = Ahead + 1 + size
           /\ \A k \in 1..Ahead : Unread'[k] = Unread[k]
           /\ Unread'[Ahead + 1] = Header(from, size)
           /\ \A k \in 1..size : Unread'[Ahead + 1 + k] = Payload(Len(arrived) + 1, k)
    BY <1>0, <1>6, Arrives
  <2>3. PICK e \in Nat : e = Len(arrived) + 1 /\ g < e
    BY <1>0 DEF Arrivals
  <2>4. Added(Unread, Unread', Ahead, from, size, e) /\ size \in Nat
    BY <2>2, <2>3, UdpChipAssumption DEF Added
  <2>5. ASSUME sr = "UDP" PROVE Later(Unread', Ahead', Rest', g)
    <3>1. Later(Unread, Ahead, Rest, g)
      BY <2>5 DEF Behind
    <3> QED
      BY <1>0, <2>1, <2>2, <2>3, <2>4, <3>1, LaterAdded
  <2> QED
    BY <2>1, <2>5 DEF Behind
<1> QED
  BY <1>0, <1>1, <1>2, <1>3, <1>4, <1>5, <1>6, ReadSteps

(* What a SEND puts on the wire is the reply to a datagram later than the  *)
(* one answered last.                                                      *)
LEMMA SendsReply ==
  ASSUME UdpInv, Echo, program = "loopback_udp", BufSize <= TxSize, UdpChipSent
  PROVE  \E e \in 1..Len(arrived) :
           /\ Fresh(e) /\ arrived[e][2] > 0 /\ out' = Append(out, Service!Reply(e))
           /\ Service!Last' = e
<1>0. /\ Answers /\ Sending /\ Fields /\ Pointers /\ ReplyNext
      /\ BufSize \in Nat \ {0} /\ TxSize \in Nat \ {0}
  BY UdpAppAssumption, UdpChipAssumption DEF UdpInv, Echo
<1>1. io = "sendto.wait" /\ Pending
  BY <1>0 DEF UdpChipSent, Answers, Pending
<1>2. /\ dst = peer /\ port = 1 /\ len = Least(Len(buf), TxSize) /\ len > 0 /\ len \in Nat
      /\ (txWr - txRd) % PtrMod = len
      /\ \A k \in 1..len : txMem[(txRd + k - 1) % TxSize] = buf[k]
  BY <1>0, <1>1 DEF Sending, Fields
<1>3. Len(buf) \in Nat /\ arrived \in Arrivals /\ out \in Seq(Nat \X Data)
  BY <1>0 DEF Fields, Data, Arrivals
<1>4. buf # <<>>
  BY <1>0, <1>2, <1>3 DEF Least
<1>5. PICK e \in 1..Len(arrived) : First(e) /\ Fresh(e)
  BY <1>0, <1>1, <1>2, <1>4 DEF ReplyNext, Unsent
<1>6. PICK n \in Nat : n = arrived[e][2]
  BY <1>3, ArrivalSize
<1>7. PICK m \in Nat : m = Least(n, BufSize) /\ m <= BufSize /\ m <= n
  BY <1>0 DEF Least
<1>8. buf = [k \in 1..m |-> Payload(e, k)] /\ arrived[e][1] = peer
  BY <1>5, <1>6, <1>7 DEF First
<1>9. Len(buf) = m /\ len = m /\ m > 0
  <2>1. Len(buf) = m
    BY <1>3, <1>8
  <2>2. len = Least(m, TxSize) /\ len > 0
    BY <1>2, <2>1
  <2>3. m <= TxSize
    BY <1>0, <1>7
  <2> QED
    BY <2>1, <2>2, <2>3 DEF Least
<1>10. Staged = [k \in 1..m |-> Payload(e, k)]
  <2>1. Staged = [k \in 1..len |-> txMem[(txRd + k - 1) % TxSize]]
    BY <1>2 DEF Staged, Cells
  <2>2. \A k \in 1..m : txMem[(txRd + k - 1) % TxSize] = Payload(e, k)
    BY <1>2, <1>8, <1>9
  <2> QED
    BY <1>9, <2>1, <2>2
<1>11. Staged[1] = Payload(e, 1) /\ Staged[1][2] = e
  BY <1>9, <1>10 DEF Payload
<1>12. e # 0 /\ e \in Nat /\ out' = Append(out, <<dst, Staged>>)
  <2>1. e # 0 /\ e \in Nat
    BY <1>3, ArrivalSize
  <2> QED
    BY <1>11, <2>1 DEF UdpChipSent
<1>13. <<dst, Staged>> = Service!Reply(e)
  <2>1. (IF arrived[e][2] <= BufSize THEN arrived[e][2] ELSE BufSize) = m
    BY <1>6, <1>7 DEF Least
  <2> QED
    BY <1>2, <1>8, <1>10, <2>1 DEF Service!Reply, Payload
<1>14. Service!Last' = e
  <2>1. out' # <<>> /\ out'[Len(out')] = <<dst, Staged>>
    BY <1>3, <1>12
  <2>2. out'[Len(out')][2] = Staged
    BY <2>1
  <2> QED
    BY <1>11, <2>1, <2>2 DEF Service!Last
<1> QED
  BY <1>5, <1>6, <1>7, <1>9, <1>12, <1>13, <1>14

(* What the echo server's program is does not change.                      *)
LEMMA ProgramKept ==
  ASSUME [Next]_udpVars
  PROVE  program' = program
BY WhoSteps, AppSteps DEF udpAppVars

(* socket.c has no part in what arrives and in what leaves.                *)
LEMMA SocketSteps ==
  ASSUME UdpSocketC
  PROVE  UNCHANGED <<arrived, out>>
BY DEF UdpSocketC, UdpClose, UdpClosed, UdpOpen, UdpOpened, SendtoBegin, SendtoData, SendtoAnswer,
  RecvfromBegin, RecvfromHead, RecvfromSize, RecvfromData, RecvfromDone, udpChipVars

(* What arrived stays in the history, and a history grows by one step.     *)
LEMMA HistorySteps ==
  ASSUME Fields, [Next]_udpVars
  PROVE  /\ \/ UNCHANGED arrived
            \/ Arrive /\ UNCHANGED <<udpIoVars, udpToeVars, udpAppVars>>
         /\ \/ UNCHANGED out
            \/ UdpChipSent /\ UNCHANGED <<udpIoVars, udpToeVars, udpAppVars>>
         /\ Len(arrived) <= Len(arrived')
         /\ \A e \in 1..Len(arrived) : e \in 1..Len(arrived') /\ arrived'[e] = arrived[e]
<1>1. CASE App
  BY <1>1, AppSteps DEF udpChipVars, Fields
<1>2. CASE WiznetToe
  BY <1>2, ToeSteps DEF Fields
<1>3. CASE UdpSocketC
  BY <1>3, SocketSteps DEF Fields
<1>4. CASE UdpChip /\ UNCHANGED <<udpIoVars, udpToeVars, udpAppVars>>
  <2>1. UNCHANGED arrived /\ (UNCHANGED out \/ UdpChipSent)
    BY <1>4 DEF UdpChip, UdpChipOpen, UdpChipClose, UdpChipSend, UdpChipRecv, UdpChipSent, UdpChipArpTimeout
  <2> QED
    BY <1>4, <2>1 DEF Fields
<1>5. CASE Arrive /\ UNCHANGED <<udpIoVars, udpToeVars, udpAppVars>>
  <2>1. UNCHANGED out
    BY <1>5 DEF Arrive
  <2>2. PICK from \in Sources, size \in 0..MaxSize : arrived' = Append(arrived, <<from, size>>)
    BY <1>5 DEF Arrive
  <2>3. <<from, size>> \in Nat \X (0..MaxSize) /\ arrived \in Seq(Nat \X (0..MaxSize))
    BY UdpChipAssumption DEF Fields
  <2>4. Len(arrived') = Len(arrived) + 1 /\ \A e \in 1..Len(arrived) : arrived'[e] = arrived[e]
    BY <2>2, <2>3, AppendType
  <2>5. Len(arrived) \in Nat
    BY <2>3
  <2> QED
    BY <1>5, <2>1, <2>4, <2>5
<1>6. CASE UNCHANGED <<udpChipVars, udpIoVars, udpToeVars, udpAppVars>>
  BY <1>6 DEF udpChipVars, Fields
<1> QED
  BY <1>1, <1>2, <1>3, <1>4, <1>5, <1>6, WhoSteps

(* A datagram not answered yet stays so until something is sent.           *)
LEMMA FreshKept ==
  ASSUME UdpInv, [Next]_udpVars, UNCHANGED out, NEW e \in 1..Len(arrived), Fresh(e)
  PROVE  Fresh(e)'
<1>1. e \in Nat /\ e <= Len(arrived)
  BY ArrivalSize DEF UdpInv, Fields, Arrivals
<1>2. Behind(e)'
  BY <1>1, BehindKept DEF Fresh
<1> QED
  BY <1>2, SameLast DEF Fresh

(* The datagram answered last, and all before it, are not to be read.      *)
LEMMA AnsweredKept ==
  ASSUME UdpInv, Echo, program = "loopback_udp", BufSize <= TxSize, [Next]_udpVars
  PROVE  Answered'
<1>1. Answered /\ Fields /\ arrived \in Arrivals
  BY DEF UdpInv, Echo, Fields, Arrivals
<1>2. Len(arrived) \in Nat /\ Len(arrived') \in Nat /\ Len(arrived) <= Len(arrived')
  <2>1. Fields'
    BY FieldsKept DEF UdpInv
  <2> QED
    BY <1>1, <2>1, HistorySteps DEF Fields
<1>3. PICK g \in 0..Len(arrived) : g = Service!Last' /\ Behind(g)
  <2>1. CASE UNCHANGED out
    BY <1>1, <2>1, SameLast DEF Answered
  <2>2. CASE UdpChipSent
    <3>1. PICK e \in 1..Len(arrived) : Fresh(e) /\ Service!Last' = e
      BY <2>2, SendsReply
    <3> QED
      BY <1>2, <3>1 DEF Fresh
  <2> QED
    BY <1>1, <2>1, <2>2, HistorySteps
<1>4. Behind(g)'
  BY <1>2, <1>3, BehindKept
<1> QED
  BY <1>2, <1>3, <1>4 DEF Answered, Behind

(* What the loopback application does.                                     *)
LEMMA LoopbackOnly ==
  ASSUME Calling, program = "loopback_udp", App
  PROVE  \/ app = "start" /\ app' = "recv" /\ toe' = "bind" /\ UNCHANGED <<io, buf, peer, port, len>>
         \/ app' = "received" /\ toe' = "recvfrom" /\ io' = io /\ buf' = <<>> /\ port' = 0 /\ len' = BufSize
         \/ /\ app = "received" /\ toe = "idle" /\ app' = "recv" /\ toe' = "sendto"
            /\ UNCHANGED <<io, buf, peer, port>>
         \/ app = "received" /\ app' = "recv" /\ UNCHANGED <<toe, io, buf, peer, port, len>>
<1>1. app \in {"start", "recv", "received"}
  BY DEF Calling
<1>2. Loopback
  BY <1>1 DEF App, AnyCall, AnyReturned, AppAt
<1> QED
  BY <1>2 DEF Loopback, LoopbackStart, LoopbackReceive, LoopbackEcho, LoopbackNothing, AppAt, CallToe,
    CallRecvfrom, CallSendto, udpIoVars, udpToeVars

(* recvfrom() is called with an empty buffer and no address.               *)
LEMMA ToeReceives ==
  ASSUME WiznetToe
  PROVE  toe' # "recvfrom" /\ (io' = "recvfrom" => toe = "recvfrom")
BY DEF ToeAt, ToeGoto, ToeReturn, CallIo, udpIoVars, OpenSocket, SocketOpened, CallSocket,
  ToeSendto, ToeSendtoDone, ToeRecvfrom, ToeMulticast, ToeMulticastOpen, ToeClose, ToeClosed,
  ToeSetsockopt, WiznetToe

(* Where recvfrom() comes from.                                            *)
LEMMA ReceiveSteps ==
  ASSUME UdpSocketC
  PROVE  /\ io # "idle"
         /\ io' \in {"recvfrom", "recvfrom.head", "recvfrom.size"} =>
              io \in {"recvfrom", "recvfrom.head"} /\ UNCHANGED <<buf, port>>
         /\ io \in ReceivePlaces => len' = len
         /\ io' = "recvfrom.size" => RecvfromHead
         /\ io' = "recvfrom.data" => RecvfromSize \/ (io = "recvfrom" /\ UNCHANGED <<port, peer, remained>>)
<1> USE DEF UdpGoto, UdpReturn, ReceivePlaces
<1>1. CASE UdpClose \/ UdpClosed \/ UdpOpen \/ UdpOpened
  BY <1>1 DEF UdpClose, UdpClosed, UdpOpen, UdpOpened
<1>2. CASE SendtoBegin \/ SendtoData \/ SendtoAnswer
  BY <1>2 DEF SendtoBegin, SendtoData, SendtoAnswer
<1>3. CASE RecvfromBegin
  BY <1>3 DEF RecvfromBegin
<1>4. CASE RecvfromHead
  BY <1>4 DEF RecvfromHead
<1>5. CASE RecvfromSize
  <2>1. io = "recvfrom.size" /\ io' = "recvfrom.data" /\ len' = len
    BY <1>5 DEF RecvfromSize
  <2> QED
    BY <1>5, <2>1
<1>6. CASE RecvfromData \/ RecvfromDone
  BY <1>6 DEF RecvfromData, RecvfromDone
<1> QED
  BY <1>1, <1>2, <1>3, <1>4, <1>5, <1>6 DEF UdpSocketC

(* The arguments of the server's recvfrom().                               *)
LEMMA ArgumentsKept ==
  ASSUME UdpInv, Echo, program = "loopback_udp", [Next]_udpVars
  PROVE  Arguments'
<1>0. Calling /\ Arguments
  BY DEF UdpInv, Echo
<1>1. CASE App
  BY <1>0, <1>1, LoopbackOnly, AppSteps DEF Arguments
<1>2. CASE WiznetToe /\ UNCHANGED udpAppVars
  BY <1>0, <1>2, ToeSteps, ToeCalls, ToeReceives DEF Arguments, udpAppVars
<1>3. CASE UdpSocketC /\ UNCHANGED <<udpToeVars, udpAppVars>>
  <2>1. UNCHANGED <<toe, app>> /\ io # "idle"
    BY <1>3, ReceiveSteps DEF udpToeVars, udpAppVars
  <2>2. toe # "recvfrom" /\ (app = "received" => io \in ReceivePlaces)
    BY <1>0, <2>1 DEF Calling
  <2> QED
    BY <1>0, <1>3, <2>1, <2>2, ReceiveSteps DEF Arguments
<1>4. CASE UNCHANGED <<udpIoVars, udpToeVars, udpAppVars>>
  BY <1>0, <1>4 DEF Arguments, udpIoVars, udpToeVars, udpAppVars
<1> QED
  BY <1>1, <1>2, <1>3, <1>4, WhoSteps

(* The rest of the datagram at hand stays where it is while nothing of it  *)
(* is read.                                                                *)
LEMMA PartStays ==
  ASSUME UdpInv, [Next]_udpVars, Rest' = Rest, Rest > 0, sr' # "CLOSED", io' # "recvfrom.done", ~RecvfromHead,
         sr = "UDP", NEW e, Part(Unread, Rest, e, 0)
  PROVE  Part(Unread, Rest, e, 0)'
<1>1. /\ Commands /\ Fields /\ Pointers /\ Receiving /\ Stream /\ Layout
      /\ Rest \in Nat /\ Ahead \in Nat
  BY RestType, Counts DEF UdpInv, Stream
<1>2. ~RecvfromData
  BY DEF RecvfromData, UdpGoto
<1>3. CASE Unread' = Unread
  BY <1>3 DEF Part
<1>4. CASE Arrive
  <2>1. \A k \in 1..Ahead : Unread'[k] = Unread[k]
    BY <1>1, <1>4, Arrives
  <2>2. Rest <= Ahead
    BY <1>1 DEF Layout, Whole
  <2>3. \A k \in 1..Rest : k \in 1..Ahead
    BY <1>1, <2>2
  <2> QED
    BY <2>1, <2>3 DEF Part
<1> QED
  BY <1>1, <1>2, <1>3, <1>4, ReadSteps

(* The header in hand is that of a datagram not answered yet, whose        *)
(* payload is next.                                                        *)
LEMMA HeaderReadKept ==
  ASSUME UdpInv, Echo, program = "loopback_udp", [Next]_udpVars
  PROVE  HeaderRead'
<1>0. /\ Calling /\ Commands /\ Answers /\ Fields /\ Pointers /\ Receiving /\ Stream /\ HeaderRead /\ Answered
      /\ arrived \in Arrivals /\ Rest \in Nat
  BY RestType DEF UdpInv, Echo, Fields, Arrivals, Stream
<1>1. SUFFICES ASSUME io' = "recvfrom.size", head'[3] > 0
               PROVE  \E e \in 1..Len(arrived') :
                        arrived'[e] = <<head'[2], head'[3]>> /\ Fresh(e)' /\ Part(Unread, Rest, e, 0)'
  BY DEF HeaderRead
<1>2. CASE RecvfromHead
  <2>1. UNCHANGED <<sr, arrived, out>>
    BY <1>2 DEF RecvfromHead
  <2>2. /\ sr = "UDP" /\ Rest = 0 /\ Ahead \in Nat /\ Ahead > 0 /\ Ahead' = Ahead - 1
        /\ head' = Unread[1] /\ Taken(Unread, Unread', Ahead, 1) /\ Whole(Unread, Ahead, 0, arrived)
    BY <1>0, <1>2, TakesHeader
  <2>3. PICK e \in 1..Len(arrived) :
           /\ arrived[e] = <<Unread[1][2], Unread[1][3]>>
           /\ Part(Unread', arrived[e][2], e, 0)
           /\ Later(Unread', Ahead - 1, arrived[e][2], e)
           /\ \A g \in Nat : Later(Unread, Ahead, 0, g) =>
                Later(Unread', Ahead - 1, arrived[e][2], g) /\ (arrived[e][2] > 0 => g < e)
    BY <1>0, <2>2, HeaderTaken
  <2>4. arrived[e] = <<head'[2], head'[3]>> /\ arrived[e][2] = head'[3] /\ Rest' = head'[3]
    BY <1>1, <2>2, <2>3 DEF Rest
  <2>5. Later(Unread, Ahead, 0, Service!Last) /\ Service!Last \in Nat
    BY <1>0, <2>2, ArrivalSize DEF Answered, Behind, Arrivals
  <2>6. Service!Last < e
    BY <1>1, <2>3, <2>4, <2>5
  <2>7. Fresh(e)'
    BY <2>1, <2>2, <2>3, <2>4, <2>6, SameLast DEF Fresh, Behind
  <2> QED
    BY <2>1, <2>3, <2>4, <2>7
<1>3. CASE io = "recvfrom.size" /\ head' = head /\ ~RecvfromHead
  <2>1. sr = "UDP" /\ sr' # "CLOSED" /\ Rest = head[3] /\ Rest' = Rest
    <3>1. Reading'
      BY ReadingKept DEF UdpInv
    <3> QED
      BY <1>0, <1>1, <1>3, <3>1 DEF Stream, Reading, Rest
  <2>2. PICK e \in 1..Len(arrived) :
           arrived[e] = <<head[2], head[3]>> /\ Fresh(e) /\ Part(Unread, Rest, e, 0)
    BY <1>0, <1>1, <1>3 DEF HeaderRead
  <2>3. Part(Unread, Rest, e, 0)'
    BY <1>1, <1>3, <2>1, <2>2, PartStays
  <2>4. UNCHANGED out
    BY <1>0, <1>3, HistorySteps DEF UdpChipSent, Answers
  <2>5. Fresh(e)'
    BY <2>2, <2>4, FreshKept
  <2>6. e \in 1..Len(arrived') /\ arrived'[e] = arrived[e]
    BY <1>0, HistorySteps
  <2> QED
    BY <1>3, <2>2, <2>3, <2>5, <2>6
<1>4. CASE App
  BY <1>1, <1>4, AppSteps
<1>5. CASE WiznetToe
  BY <1>1, <1>5, ToeCalls
<1>6. CASE UdpSocketC
  BY <1>1, <1>2, <1>6, ReceiveSteps
<1>7. CASE UNCHANGED udpIoVars
  <2>1. io = "recvfrom.size" /\ head' = head
    BY <1>1, <1>7 DEF udpIoVars
  <2>2. ~RecvfromHead
    BY <2>1 DEF RecvfromHead
  <2> QED
    BY <1>3, <2>1, <2>2
<1> QED
  BY <1>4, <1>5, <1>6, <1>7, WhoSteps

(* The payload at hand is the whole one of a datagram not answered yet.    *)
LEMMA PayloadNextKept ==
  ASSUME UdpInv, Echo, program = "loopback_udp", [Next]_udpVars
  PROVE  PayloadNext'
<1>0. /\ Calling /\ Commands /\ Answers /\ Fields /\ Pointers /\ Receiving /\ Stream
      /\ HeaderRead /\ PayloadNext /\ Arguments /\ arrived \in Arrivals /\ Rest \in Nat
  BY RestType DEF UdpInv, Echo, Fields, Arrivals, Stream
<1>1. SUFFICES ASSUME io' = "recvfrom.data", port' = 1, remained' > 0
               PROVE  \E e \in 1..Len(arrived') :
                        arrived'[e] = <<peer', remained'>> /\ Fresh(e)' /\ Part(Unread, Rest, e, 0)'
  BY DEF PayloadNext
<1>2. ASSUME Rest = remained', ~RecvfromHead, io \in {"recvfrom.size", "recvfrom.data"},
             \E e \in 1..Len(arrived) :
               arrived[e] = <<peer', remained'>> /\ Fresh(e) /\ Part(Unread, Rest, e, 0)
      PROVE  \E e \in 1..Len(arrived') :
               arrived'[e] = <<peer', remained'>> /\ Fresh(e)' /\ Part(Unread, Rest, e, 0)'
  <2>1. sr = "UDP" /\ sr' # "CLOSED" /\ Rest' = Rest
    <3>1. Reading'
      BY ReadingKept DEF UdpInv
    <3>2. Rest' = remained'
      BY <1>1 DEF Rest
    <3> QED
      BY <1>0, <1>1, <1>2, <3>1, <3>2 DEF Stream, Reading
  <2>2. PICK e \in 1..Len(arrived) :
           arrived[e] = <<peer', remained'>> /\ Fresh(e) /\ Part(Unread, Rest, e, 0)
    BY <1>2
  <2>3. Part(Unread, Rest, e, 0)'
    BY <1>1, <1>2, <2>1, <2>2, PartStays
  <2>4. UNCHANGED out
    BY <1>0, <1>2, HistorySteps DEF UdpChipSent, Answers
  <2>5. Fresh(e)'
    BY <2>2, <2>4, FreshKept
  <2>6. e \in 1..Len(arrived') /\ arrived'[e] = arrived[e]
    BY <1>0, HistorySteps
  <2> QED
    BY <2>2, <2>3, <2>5, <2>6
<1>3. CASE RecvfromSize
  <2>1. /\ io = "recvfrom.size" /\ peer' = head[2] /\ remained' = head[3]
    BY <1>3 DEF RecvfromSize
  <2>2. Rest = head[3] /\ ~RecvfromHead
    BY <2>1 DEF Rest, RecvfromHead
  <2>3. \E e \in 1..Len(arrived) :
          arrived[e] = <<head[2], head[3]>> /\ Fresh(e) /\ Part(Unread, Rest, e, 0)
    BY <1>0, <1>1, <2>1 DEF HeaderRead
  <2> QED
    BY <1>2, <2>1, <2>2, <2>3
<1>4. CASE App
  BY <1>1, <1>4, AppSteps
<1>5. CASE WiznetToe
  BY <1>1, <1>5, ToeCalls
<1>6. CASE UdpSocketC
  <2>1. RecvfromSize \/ (io = "recvfrom" /\ port' = port)
    BY <1>1, <1>6, ReceiveSteps
  <2>2. io = "recvfrom" => port = 0
    BY <1>0 DEF Arguments
  <2> QED
    BY <1>1, <1>3, <2>1, <2>2
<1>7. CASE UNCHANGED udpIoVars
  <2>1. io = "recvfrom.data" /\ UNCHANGED <<peer, port, remained>>
    BY <1>1, <1>7 DEF udpIoVars
  <2>2. ~RecvfromHead /\ Rest = remained
    BY <2>1 DEF RecvfromHead, Rest
  <2>3. \E e \in 1..Len(arrived) :
          arrived[e] = <<peer, remained>> /\ Fresh(e) /\ Part(Unread, Rest, e, 0)
    BY <1>0, <1>1, <2>1 DEF PayloadNext
  <2> QED
    BY <1>2, <2>1, <2>2, <2>3
<1> QED
  BY <1>4, <1>5, <1>6, <1>7, WhoSteps

(* What the server is about to send it has read before.                    *)
LEMMA UnsentSteps ==
  ASSUME UdpInv, Arguments, program = "loopback_udp", [Next]_udpVars, Unsent', buf' # <<>>
  PROVE  \/ RecvfromData /\ io = "recvfrom.data" /\ app = "received" /\ UNCHANGED <<peer, port, len, arrived>>
         \/ Unsent /\ UNCHANGED <<buf, peer, port, out>>
<1>0. /\ Calling /\ Commands /\ Answers
      /\ io # "idle" =>
           \/ toe \in {"bind.opened", "sendto.opened"} /\ io \in SocketPlaces /\ app = "recv"
           \/ toe = "sendto.done" /\ io \in SendPlaces /\ app = "recv"
           \/ toe = "recvfrom.done" /\ io \in ReceivePlaces /\ app = "received"
      /\ \/ app = "start" /\ toe = "idle"
         \/ app = "recv" /\ toe \in {"idle", "bind", "bind.opened", "sendto", "sendto.opened", "sendto.done"}
         \/ app = "received" /\ toe \in {"idle", "recvfrom", "recvfrom.done"}
  BY DEF UdpInv, Calling
<1> USE DEF Unsent
<1>1. CASE App
  <2>1. /\ io = "idle" /\ toe = "idle" /\ io' = "idle" /\ UNCHANGED <<out, cr, busy>>
        /\ ~Pending'
    BY <1>1, AppSteps DEF udpChipVars, Pending
  <2> QED
    BY <1>0, <1>1, <2>1, LoopbackOnly
<1>2. CASE WiznetToe /\ UNCHANGED udpAppVars
  <2>1. io = "idle" /\ app' = app /\ UNCHANGED <<buf, peer, port, out>>
    BY <1>2, ToeSteps DEF udpAppVars
  <2>2. toe = "recvfrom" => buf = <<>>
    BY DEF Arguments
  <2>3. \/ toe = "bind" /\ io' = "socket" /\ toe' = "bind.opened"
        \/ toe = "bind.opened" /\ io' = "idle" /\ toe' = "idle"
        \/ toe = "sendto.done" /\ io' = "idle" /\ toe' = "idle"
        \/ toe \in {"sendto", "sendto.opened"}
        \/ toe = "recvfrom"
        \/ toe = "recvfrom.done"
    <3> USE DEF ToeAt, ToeGoto, ToeReturn, CallIo, udpIoVars
    <3>1. CASE OpenSocket
      BY <1>0, <3>1 DEF OpenSocket, CallSocket
    <3>2. CASE SocketOpened
      BY <1>0, <3>2 DEF SocketOpened
    <3>3. CASE ToeSendto \/ ToeRecvfrom
      BY <3>3 DEF ToeSendto, ToeRecvfrom
    <3>4. CASE ToeSendtoDone
      BY <3>4 DEF ToeSendtoDone
    <3>5. CASE ToeMulticast \/ ToeMulticastOpen \/ ToeClose \/ ToeClosed \/ ToeSetsockopt
      BY <1>0, <3>5 DEF ToeMulticast, ToeMulticastOpen, ToeClose, ToeClosed, ToeSetsockopt
    <3> QED
      BY <1>2, <3>1, <3>2, <3>3, <3>4, <3>5 DEF WiznetToe
  <2>4. io' # "sendto.wait"
    BY <1>2, ToeCalls
  <2> QED
    BY <1>0, <2>1, <2>2, <2>3, <2>4 DEF Pending
<1>3. CASE UdpSocketC /\ UNCHANGED <<udpToeVars, udpAppVars>>
  <2>1. UNCHANGED <<toe, app, out>> /\ io # "idle"
    BY <1>3, SocketSteps, ReceiveSteps DEF udpToeVars, udpAppVars
  <2> USE DEF UdpGoto, UdpReturn
  <2>2. CASE UdpClose \/ UdpClosed \/ UdpOpen \/ UdpOpened
    <3>1. /\ io \in {"close", "close.wait"} \cup SocketPlaces /\ UNCHANGED <<buf, peer, port>>
          /\ io' \in {"idle", "close.wait", "socket.closed", "socket.open", "socket.wait"}
      BY <2>2 DEF UdpClose, UdpClosed, UdpOpen, UdpOpened, SocketPlaces
    <3> QED
      BY <1>0, <2>1, <3>1 DEF SocketPlaces, SendPlaces, ReceivePlaces, Pending
  <2>3. CASE SendtoBegin \/ SendtoData
    <3>1. io \in {"sendto", "sendto.data"} /\ UNCHANGED <<buf, peer, port>>
      BY <2>3 DEF SendtoBegin, SendtoData
    <3> QED
      BY <2>1, <3>1
  <2>4. CASE SendtoAnswer
    <3>1. io = "sendto.wait" /\ io' = "idle"
      BY <2>4 DEF SendtoAnswer
    <3> QED
      BY <1>0, <2>1, <3>1 DEF SocketPlaces, SendPlaces, ReceivePlaces, Pending
  <2>5. CASE RecvfromBegin
    <3>1. io = "recvfrom" /\ buf' = buf
      BY <2>5 DEF RecvfromBegin
    <3> QED
      BY <3>1 DEF Arguments
  <2>6. CASE RecvfromHead \/ RecvfromSize
    <3>1. io \in ReceivePlaces /\ io' \in {"recvfrom.size", "recvfrom.data"}
      BY <2>6 DEF RecvfromHead, RecvfromSize, ReceivePlaces
    <3> QED
      BY <1>0, <2>1, <3>1 DEF SocketPlaces, SendPlaces, ReceivePlaces, Pending
  <2>7. CASE RecvfromData
    <3>1. io = "recvfrom.data" /\ UNCHANGED <<peer, port, len, arrived>>
      BY <2>7 DEF RecvfromData
    <3>2. app = "received"
      BY <1>0, <3>1 DEF SocketPlaces, SendPlaces
    <3> QED
      BY <2>7, <3>1, <3>2
  <2>8. CASE RecvfromDone
    <3>1. io = "recvfrom.done" /\ UNCHANGED <<buf, peer, port>>
      BY <2>8 DEF RecvfromDone
    <3> QED
      BY <2>1, <3>1
  <2> QED
    BY <1>3, <2>2, <2>3, <2>4, <2>5, <2>6, <2>7, <2>8 DEF UdpSocketC
<1>4. CASE /\ UdpChip \/ Arrive \/ UNCHANGED udpChipVars
           /\ UNCHANGED <<udpIoVars, udpToeVars, udpAppVars>>
  <2>1. UNCHANGED <<io, toe, app, buf, peer, port>>
    BY <1>4 DEF udpIoVars, udpToeVars, udpAppVars
  <2>2. CASE UdpChipSent
    <3>1. io = "sendto.wait" /\ ~Pending'
      BY <1>0, <2>2 DEF UdpChipSent, Answers, Pending
    <3> QED
      BY <1>0, <2>1, <3>1 DEF SocketPlaces, SendPlaces, ReceivePlaces
  <2>3. CASE UNCHANGED out
    <3>1. Pending' => Pending
      <4>1. CASE UdpChip
        BY <2>1, <4>1 DEF Pending, UdpChip, UdpChipOpen, UdpChipClose, UdpChipSend, UdpChipRecv, UdpChipSent,
          UdpChipArpTimeout
      <4>2. CASE Arrive
        BY <2>1, <4>2 DEF Pending, Arrive
      <4>3. CASE UNCHANGED udpChipVars
        BY <2>1, <4>3 DEF Pending, udpChipVars
      <4> QED
        BY <1>4, <4>1, <4>2, <4>3
    <3> QED
      BY <2>1, <2>3, <3>1
  <2> QED
    BY <2>2, <2>3, HistorySteps DEF UdpInv
<1> QED
  BY <1>1, <1>2, <1>3, <1>4, WhoSteps

(* What the server has in hand is the beginning of a datagram not answered *)
(* yet.                                                                    *)
LEMMA ReplyNextKept ==
  ASSUME UdpInv, Echo, program = "loopback_udp", [Next]_udpVars
  PROVE  ReplyNext'
<1>0. /\ Calling /\ Commands /\ Answers /\ Fields /\ Pointers /\ Receiving /\ Stream
      /\ PayloadNext /\ ReplyNext /\ Arguments /\ arrived \in Arrivals
  BY DEF UdpInv, Echo, Fields, Arrivals
<1>1. SUFFICES ASSUME Unsent', port' = 1, buf' # <<>>
               PROVE  \E e \in 1..Len(arrived') : First(e)' /\ Fresh(e)'
  BY DEF ReplyNext
<1>2. CASE RecvfromData /\ io = "recvfrom.data" /\ app = "received" /\ UNCHANGED <<peer, port, len, arrived>>
  <2>1. PICK n \in Nat : /\ n = Len(buf') /\ n = Least(len, remained) /\ Rest = remained
                         /\ \A k \in 1..n : buf'[k] = Unread[k]
    BY <1>0, <1>2, TakesPayload
  <2>2. buf' \in Data
    BY <1>0, <1>2, Takes
  <2>3. len = BufSize /\ BufSize \in Nat /\ remained \in Nat
    BY <1>0, <1>2, UdpAppAssumption, UdpChipAssumption DEF Arguments, Fields
  <2>4. n > 0 /\ n <= remained /\ remained > 0 /\ n = Least(remained, BufSize)
    <3>1. n > 0
      <4>1. \A s \in Seq(CellType) : s # <<>> => Len(s) \in Nat \ {0}
        BY EmptySeq, Zenon
      <4>2. Len(buf') \in Nat \ {0}
        BY <1>1, <2>2, <4>1 DEF Data
      <4> QED
        BY <2>1, <4>2
    <3> QED
      BY <2>1, <2>3, <3>1 DEF Least
  <2>5. PICK e \in 1..Len(arrived) :
           arrived[e] = <<peer, remained>> /\ Fresh(e) /\ Part(Unread, Rest, e, 0)
    BY <1>0, <1>1, <1>2, <2>4 DEF PayloadNext
  <2>6. e \in Nat /\ \A k \in 1..n : buf'[k] = Payload(e, k)
    <3>1. e \in Nat
      BY <1>0, ArrivalSize
    <3>2. ASSUME NEW k \in 1..n PROVE buf'[k] = Payload(e, k)
      <4>1. k \in 1..remained /\ 0 + k = k
        BY <2>3, <2>4
      <4>2. Unread[k] = Payload(e, 0 + k)
        BY <2>1, <2>5, <4>1 DEF Part
      <4> QED
        BY <2>1, <4>1, <4>2
    <3> QED
      BY <3>1, <3>2
  <2>7. buf' = [k \in 1..n |-> Payload(e, k)]
    <3>1. buf' = [k \in 1..Len(buf') |-> buf'[k]]
      BY <2>2 DEF Data
    <3> QED
      BY <2>1, <2>6, <3>1
  <2>8. First(e)'
    <3>1. arrived[e][1] = peer /\ arrived[e][2] = remained
      BY <2>5
    <3> QED
      BY <1>2, <2>4, <2>7, <3>1 DEF First
  <2>9. Fresh(e)'
    <3>1. UNCHANGED out
      BY <1>2 DEF RecvfromData
    <3> QED
      BY <2>5, <3>1, FreshKept
  <2> QED
    BY <1>2, <2>8, <2>9
<1>3. CASE Unsent /\ UNCHANGED <<buf, peer, port, out>>
  <2>1. PICK e \in 1..Len(arrived) : First(e) /\ Fresh(e)
    BY <1>0, <1>1, <1>3 DEF ReplyNext
  <2>2. e \in 1..Len(arrived') /\ arrived'[e] = arrived[e]
    BY <1>0, HistorySteps
  <2>3. Fresh(e)'
    BY <1>3, <2>1, FreshKept
  <2>4. First(e)'
    BY <1>3, <2>1, <2>2 DEF First
  <2> QED
    BY <2>2, <2>3, <2>4
<1> QED
  BY <1>0, <1>1, <1>2, <1>3, UnsentSteps

(* The invariant of the echo server holds as long as the server runs.      *)
LEMMA EchoKept ==
  ASSUME UdpInv, Echo, BufSize <= TxSize, [Next]_udpVars
  PROVE  Echo'
BY ProgramKept, AnsweredKept, ArgumentsKept, HeaderReadKept, PayloadNextKept, ReplyNextKept DEF Echo

-----------------------------------------------------------------------------
(* The invariant and what it gives                                         *)

(* It holds before the first step.                                         *)
LEMMA UdpStarts ==
  ASSUME Init
  PROVE  UdpInv /\ Echo
<1>1. /\ sr = "CLOSED" /\ cr = "NONE" /\ ir = {} /\ dst = 0 /\ busy = FALSE
      /\ rxMem = [a \in 0..RxSize - 1 |-> Empty] /\ txMem = [a \in 0..TxSize - 1 |-> Empty]
      /\ rxWr = 0 /\ rxRd = 0 /\ rxRel = 0 /\ txRd = 0 /\ txWr = 0 /\ arrived = <<>> /\ out = <<>>
      /\ io = "idle" /\ remained = 0 /\ packInfo = {} /\ head = Empty /\ buf = <<>> /\ len = 0
      /\ peer = 0 /\ port = 0
      /\ toe = "idle" /\ opened = FALSE /\ rcvTimeout = 0
      /\ program \in {"loopback_udp", "any"} /\ app = IF program = "any" THEN "any" ELSE "start"
  BY DEF Init, UdpChipInit, UdpIoInit
<1>2. Calling /\ Commands /\ Answers
  BY <1>1 DEF Calling, ToePlaces, Commands, Answers
<1>3. Empty \in CellType /\ MaxSize \in Nat
  BY UdpChipAssumption DEF Empty, CellType
<1>4. Fields
  <2>1. <<>> \in Seq(CellType) /\ <<>> \in Seq(Nat \X (0..MaxSize)) /\ <<>> \in Seq(Nat \X Data)
    OBVIOUS
  <2>2. peer \in Nat /\ dst \in Nat /\ head \in CellType /\ buf \in Data
    BY <1>1, <1>3, <2>1 DEF Data
  <2>3. arrived \in Seq(Nat \X (0..MaxSize)) /\ out \in Seq(Nat \X Data)
    BY <1>1, <2>1
  <2>4. sr \in {"CLOSED", "UDP"} /\ busy \in BOOLEAN /\ opened \in BOOLEAN
    BY <1>1
  <2>5. rcvTimeout \in {0, 1} /\ port \in {0, 1} /\ len \in Nat
    BY <1>1
  <2>6. packInfo \in SUBSET {"FIRST", "REMAINED"} /\ toe # "setsockopt" /\ remained \in 0..MaxSize
    BY <1>1, <1>3
  <2> QED
    BY <2>2, <2>3, <2>4, <2>5, <2>6 DEF Fields
<1>5. Pointers
  BY <1>1, <1>3, Sizes DEF Pointers, Pointer
<1>6. Ahead = 0 /\ Held = 0 /\ RX_RSR = 0
  <2>1. 0 \in 0..PtrMod - 1
    BY Sizes
  <2>2. 0 % PtrMod = 0
    BY <2>1, Sizes, ModSmall
  <2>3. rxWr - rxRd = 0 /\ rxRd - rxRel = 0 /\ rxWr - rxRel = 0
    BY <1>1
  <2> QED
    BY <2>2, <2>3, Zenon DEF Ahead, Held, RX_RSR
<1>7. Receiving
  BY <1>1, <1>6, Sizes DEF Receiving
<1>8. Sending
  BY <1>1 DEF Sending, Pending
<1>9. Stream
  BY <1>1 DEF Stream, Layout, Reading
<1>10. Echo
  <2>1. Service!Last = 0 /\ Len(arrived) = 0
    BY <1>1 DEF Service!Last
  <2>2. Answered
    BY <1>1, <2>1 DEF Answered, Behind
  <2>3. program = "loopback_udp" => app = "start"
    BY <1>1
  <2>4. program = "loopback_udp" => Arguments
    BY <1>1, <2>3 DEF Arguments
  <2>5. HeaderRead /\ PayloadNext /\ ReplyNext
    BY <1>1 DEF HeaderRead, PayloadNext, ReplyNext
  <2> QED
    BY <2>2, <2>4, <2>5 DEF Echo
<1> QED
  BY <1>2, <1>4, <1>5, <1>7, <1>8, <1>9, <1>10 DEF UdpInv

(* Every step of the driver, the chip, the application and the network     *)
(* keeps it.                                                               *)
LEMMA UdpStep ==
  ASSUME UdpInv, [Next]_udpVars
  PROVE  UdpInv'
BY CallingKept, CommandsKept, FieldsKept, ReceivingKept, SendingKept, LayoutKept, ReadingKept DEF UdpInv, Stream

(* The invariant of the datagram functions, for every size of the buffers, *)
(* the datagrams and the pointers, and for both applications.              *)
THEOREM UdpInvariant == Spec => []UdpInv
<1>1. Init => UdpInv
  BY UdpStarts
<1>2. UdpInv /\ [Next]_udpVars => UdpInv'
  BY UdpStep
<1> QED
  BY <1>1, <1>2, PTL DEF Spec

(* Pointers and sizes stay in their ranges: Sn_RX_RSR and Sn_TX_FSR never  *)
(* show more than a buffer holds (socket.c, w5500.c).                      *)
THEOREM UdpTypesHold == Spec => []UdpTypeOK
<1>1. UdpInv => UdpTypeOK
  <2> SUFFICES ASSUME UdpInv PROVE UdpTypeOK
    OBVIOUS
  <2>1. Commands /\ Answers /\ Fields /\ Pointers /\ Receiving /\ Sending
    BY DEF UdpInv
  <2>2. cr \in {"NONE", "OPEN", "CLOSE", "SEND", "RECV"} /\ ir \in SUBSET {"SENDOK", "TIMEOUT"}
    BY <2>1 DEF Commands, Answers
  <2>3. RX_RSR \in 0..RxSize
    BY <2>1, Counts, Sizes DEF Receiving
  <2>4. TX_FSR \in 0..TxSize
    <3>1. CASE Pending
      <4>1. PICK g \in Nat : g = (txWr - txRd) % PtrMod /\ g <= TxSize
        <5>1. (txWr - txRd) % PtrMod = len /\ len = Least(Len(buf), TxSize) /\ len \in Nat
          BY <2>1, <3>1 DEF Sending, Pending, Fields
        <5>2. len <= TxSize
          BY <2>1, <5>1, Sizes DEF Least, Fields, Data
        <5> QED
          BY <5>1, <5>2
      <4>2. TX_FSR = TxSize - g
        BY <4>1 DEF TX_FSR
      <4> QED
        BY <4>1, <4>2, Sizes
    <3>2. CASE ~Pending
      <4>1. txWr - txRd = 0 /\ 0 \in 0..PtrMod - 1
        BY <2>1, <3>2, PointersCount, Sizes DEF Sending
      <4>2. 0 % PtrMod = 0
        BY <4>1, Sizes, ModSmall
      <4>3. TX_FSR = TxSize - 0
        BY <4>1, <4>2, Zenon DEF TX_FSR
      <4> QED
        BY <4>3, Sizes
    <3> QED
      BY <3>1, <3>2
  <2> QED
    BY <2>1, <2>2, <2>3, <2>4 DEF UdpTypeOK, Fields, Pointers
<1> QED
  BY <1>1, UdpInvariant, PTL

(* sendto() finds no answer pending that an earlier datagram left.         *)
THEOREM AnswersAreOwn == Spec => []AnswerIsOwn
<1>1. UdpInv => AnswerIsOwn
  BY DEF UdpInv, Answers, AnswerIsOwn
<1> QED
  BY <1>1, UdpInvariant, PTL

(* What sendto() gives the chip to send is the caller's datagram, cut to   *)
(* the transmit buffer, for the caller's address.                          *)
THEOREM SendsAreWhole == Spec => []SendIsWhole
<1>1. UdpInv => SendIsWhole
  <2> SUFFICES ASSUME UdpInv, cr = "SEND" PROVE Staged = SubSeq(buf, 1, len) /\ dst = peer
    BY DEF SendIsWhole
  <2>1. Commands /\ Sending /\ Fields
    BY DEF UdpInv
  <2>2. io = "sendto.wait" /\ Pending
    BY <2>1 DEF Commands, Pending
  <2>3. /\ dst = peer /\ len = Least(Len(buf), TxSize) /\ (txWr - txRd) % PtrMod = len
        /\ \A k \in 1..len : txMem[(txRd + k - 1) % TxSize] = buf[k]
    BY <2>1, <2>2 DEF Sending
  <2>4. len \in Nat /\ len <= Len(buf) /\ buf \in Seq(CellType)
    BY <2>1, <2>3, Sizes DEF Least, Fields, Data
  <2>5. Staged = [k \in 1..len |-> buf[k]]
    <3>1. Staged = [k \in 1..len |-> txMem[(txRd + k - 1) % TxSize]]
      BY <2>3 DEF Staged, Cells
    <3> QED
      BY <2>3, <3>1
  <2>6. SubSeq(buf, 1, len) = [k \in 1..len |-> buf[k]]
    BY <2>4, Front
  <2> QED
    BY <2>3, <2>5, <2>6
<1> QED
  BY <1>1, UdpInvariant, PTL

(* Between two calls, recvfrom() finds what it thinks it finds: the rest   *)
(* of one datagram, then a header.                                         *)
THEOREM StreamIsFramed == Spec => []Framed
<1>1. UdpInv => Framed
  <2> SUFFICES ASSUME UdpInv, io = "idle", sr = "UDP"
               PROVE  /\ remained <= Len(Unread)
                      /\ \A k \in 1..Len(Unread) :
                           k <= remained => Unread[k][1] = "data" /\ Unread[k][2] = Unread[1][2]
                      /\ Len(Unread) > remained => Unread[remained + 1][1] = "header"
                      /\ remained > 0 <=> "REMAINED" \in packInfo
    BY DEF Framed
  <2>1. Fields /\ Pointers /\ Layout /\ Reading
    BY DEF UdpInv, Stream
  <2>2. Rest = remained /\ remained \in Nat
    BY <2>1, UdpChipAssumption DEF Rest, Fields
  <2>3. Len(Unread) = Ahead /\ Ahead \in Nat
    BY <2>1, Counts
  <2>4. remained <= Ahead /\ (remained < Ahead => IsHeader(Unread[remained + 1]))
    BY <2>1, <2>2 DEF Layout, Whole
  <2>5. PICK e \in 0..Len(arrived), o \in 0..MaxSize : Part(Unread, remained, e, o)
    BY <2>1, <2>2 DEF Layout
  <2>6. ASSUME NEW k \in 1..Ahead, k <= remained
        PROVE  Unread[k][1] = "data" /\ Unread[k][2] = Unread[1][2]
    <3>1. k \in 1..remained /\ 1 \in 1..remained
      BY <2>2, <2>3, <2>6
    <3>2. Unread[k] = Payload(e, o + k) /\ Unread[1] = Payload(e, o + 1)
      BY <2>5, <3>1 DEF Part
    <3> QED
      BY <3>2 DEF Payload
  <2> QED
    BY <2>1, <2>2, <2>3, <2>4, <2>6 DEF IsHeader, Reading
<1> QED
  BY <1>1, UdpInvariant, PTL

(* The echo server of examples/loopback implements the datagram echo: each *)
(* datagram it sends is the beginning of one that arrived, for the address *)
(* that one came from, and later than all it has answered.  This needs a   *)
(* transmit buffer no smaller than the server's buffer, as both are 2 KB   *)
(* (LOOPBACK_BUF_SIZE in net_config.h, the sizes in wizchip_spi_esp.c):    *)
(* sendto() would cut a longer reply.                                      *)
THEOREM EchoIsServed == BufSize <= TxSize => (Spec => EchoServed)
<1> SUFFICES ASSUME BufSize <= TxSize PROVE Spec => EchoServed
  OBVIOUS
<1>1. Init => UdpInv /\ Echo
  BY UdpStarts
<1>2. UdpInv /\ Echo /\ [Next]_udpVars => (UdpInv /\ Echo)'
  BY UdpStep, EchoKept
<1>3. UdpInv /\ Echo /\ [Next]_udpVars => [program = "loopback_udp" => Service!Next]_<<arrived, out>>
  <2> SUFFICES ASSUME UdpInv, Echo, [Next]_udpVars, program = "loopback_udp"
               PROVE  Service!Next \/ UNCHANGED <<arrived, out>>
    OBVIOUS
  <2>1. Fields /\ arrived \in Arrivals
    BY DEF UdpInv, Fields, Arrivals
  <2>2. CASE Arrive
    <3>1. PICK from \in Sources, size \in 0..MaxSize : arrived' = Append(arrived, <<from, size>>)
      BY <2>2 DEF Arrive
    <3>2. <<from, size>> \in Nat \X (0..MaxSize) /\ arrived \in Seq(Nat \X (0..MaxSize))
      BY <2>1, UdpChipAssumption DEF Fields
    <3>3. /\ arrived' \in Seq(Nat \X (0..MaxSize)) /\ Len(arrived') = Len(arrived) + 1
          /\ \A k \in 1..Len(arrived) : arrived'[k] = arrived[k]
      BY <3>1, <3>2, AppendType
    <3>4. SubSeq(arrived', 1, Len(arrived)) = arrived
      <4>1. PICK n \in Nat : n = Len(arrived) /\ n <= Len(arrived')
        BY <3>2, <3>3
      <4>2. /\ SubSeq(arrived', 1, n) \in Seq(Nat \X (0..MaxSize)) /\ Len(SubSeq(arrived', 1, n)) = n
            /\ \A k \in 1..n : SubSeq(arrived', 1, n)[k] = arrived'[k]
        BY <3>3, <4>1, Front
      <4>3. SubSeq(arrived', 1, n) = [k \in 1..n |-> arrived[k]]
        BY <3>3, <4>1, <4>2
      <4> QED
        BY <3>2, <4>1, <4>3
    <3> QED
      BY <2>2, <3>3, <3>4 DEF Arrive, Service!Next, Service!Arrive
  <2>3. CASE UdpChipSent
    <3>1. PICK e \in 1..Len(arrived) :
             Fresh(e) /\ arrived[e][2] > 0 /\ out' = Append(out, Service!Reply(e))
      BY <2>3, SendsReply
    <3>2. e \in Service!Last + 1 .. Len(arrived)
      <4>1. Service!Last \in Nat /\ e \in Nat /\ Len(arrived) \in Nat
        BY <2>1, ArrivalSize DEF Echo, Answered, Arrivals
      <4> QED
        BY <3>1, <4>1 DEF Fresh
    <3>3. UNCHANGED arrived
      BY <2>3 DEF UdpChipSent
    <3> QED
      BY <3>1, <3>2, <3>3 DEF Service!Next, Service!Answer
  <2> QED
    BY <2>1, <2>2, <2>3, HistorySteps
<1> QED
  BY <1>1, <1>2, <1>3, PTL DEF Spec, EchoServed
=============================================================================
