---------------------------- MODULE DatagramEcho ----------------------------
(***************************************************************************)
(* What a UDP echo server promises: a reply is the beginning of a datagram *)
(* that arrived, as much as the server's buffer holds, goes to the address *)
(* the datagram came from, and replies keep the order of arrival.  Not     *)
(* every datagram is answered, and none is answered twice.                 *)
(***************************************************************************)
EXTENDS Integers, Sequences

CONSTANT Cut   \* the most a reply holds

VARIABLES
  arrived,  \* <<source, size>> of each datagram, in order
  out       \* <<destination, data>> of each reply; cell k of the data of
            \* datagram d is the triple <<"data", d, k>>

Reply(d) ==
  LET size == IF arrived[d][2] <= Cut THEN arrived[d][2] ELSE Cut
  IN  <<arrived[d][1], [k \in 1..size |-> <<"data", d, k>>]>>

\* The datagram answered last.
Last == IF out = <<>> THEN 0 ELSE out[Len(out)][2][1][2]

Arrive ==
  /\ Len(arrived') = Len(arrived) + 1
  /\ SubSeq(arrived', 1, Len(arrived)) = arrived
  /\ UNCHANGED out

Answer ==
  /\ \E d \in Last + 1 .. Len(arrived) :
       arrived[d][2] > 0 /\ out' = Append(out, Reply(d))
  /\ UNCHANGED arrived

Next == Arrive \/ Answer
Spec == arrived = <<>> /\ out = <<>> /\ [][Next]_<<arrived, out>>
=============================================================================
