---------------------------- MODULE EchoService ----------------------------
(***************************************************************************)
(* What a client of the example servers is promised, as the client sees    *)
(* it: one connection at a time, a greeting if the server has one, then    *)
(* its own bytes back, in order.  How much comes back before the           *)
(* connection ends is not promised here.                                   *)
(***************************************************************************)
EXTENDS Integers, Sequences

CONSTANT Greeting   \* the server greets a client before it echoes

VARIABLES
  conn,  \* number of the latest connection
  sent,  \* bytes the client has sent on it
  got    \* bytes the client has received on it

vars == <<conn, sent, got>>

Greeted(c) == IF Greeting THEN <<<<c, 0>>>> ELSE <<>>
Promised(c, n) == Greeted(c) \o [k \in 1..n |-> <<c, k>>]

Init == conn = 0 /\ sent = 0 /\ got = <<>>

Connect ==
  /\ conn' = conn + 1
  /\ sent' = 0
  /\ got' = <<>>

Send ==
  /\ conn > 0
  /\ sent' = sent + 1
  /\ UNCHANGED <<conn, got>>

Reply ==
  /\ \E n \in Len(got) + 1 .. Len(Promised(conn, sent)) :
       got' = SubSeq(Promised(conn, sent), 1, n)
  /\ UNCHANGED <<conn, sent>>

Next == Connect \/ Send \/ Reply

Spec == Init /\ [][Next]_vars
=============================================================================
