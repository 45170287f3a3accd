---------------------------- MODULE MCEthDriver ----------------------------
(* The workloads of EthDriver for TLC: reception and transmission with      *)
(* failing accesses, both together, the link with its failing accesses, the *)
(* installation, and the filter with two tasks that call it.  A failing     *)
(* access may be a lost RECV between two frames.                            *)
EXTENDS EthDriver

MCWorkloads == {
  [Nothing EXCEPT !.flips = 1, !.frames = 2, !.noMem = 1, !.faults = 1],
  [Nothing EXCEPT !.flips = 1, !.sends = 3, !.late = 1, !.faults = 1],
  [Nothing EXCEPT !.flips = 1, !.frames = 1, !.sends = 1],
  [Nothing EXCEPT !.flips = 2, !.frames = 2],
  [Nothing EXCEPT !.flips = 2, !.frames = 1, !.faults = 1],
  [Nothing EXCEPT !.flips = 3, !.stops = 1, !.faults = 1],
  [Nothing EXCEPT !.flips = 1, !.late = 1, !.faults = 1],
  [Nothing EXCEPT !.joins = 3, !.faults = 1],
  [Nothing EXCEPT !.joins = 1, !.promisc = 1, !.faults = 1],
  [Nothing EXCEPT !.joins = 2, !.allMulti = 1] }
=============================================================================
