----------------------------- MODULE MCDiscovery ----------------------------
EXTENDS Discovery

Offer(ip, c, time, t1, t2) ==
  [yiaddr |-> ip, controller |-> c, lease |-> time, t1 |-> t1, t2 |-> t2]

(* A short lease and a fuzzed one of two servers, one with both times, one  *)
(* too short to be accepted.                                                *)
MCGrants == {Offer(1, 1, 4, 0, 0), Offer(2, 2, 7, 0, 0), Offer(1, 1, 5, 1, 3),
             Offer(2, 2, 2, 0, 0)}

=============================================================================
