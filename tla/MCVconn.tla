------------------------------ MODULE MCVconn ------------------------------
EXTENDS Vconn

End(low, high) == [min_version |-> low, OFP_VERSION |-> high, early |-> {}]
Pair(a, p) == [e \in Ends |-> IF e = "active" THEN a ELSE p]

(* Two ends of this program; a peer that sends before it has negotiated,    *)
(* messages that are tolerated or not; a newer peer that accepts our        *)
(* version or does not; and a peer that is older than we accept.            *)
MCBuilds ==
  {Pair(End(1, 1), End(1, 1)),
   Pair(End(1, 1), [End(1, 1) EXCEPT !.early = {"DATA"}]),
   Pair(End(1, 1), [End(1, 1) EXCEPT !.early = {"REPLY"}]),
   Pair(End(1, 1), End(1, 2)),
   Pair(End(1, 1), End(2, 2)),
   Pair(End(3, 3), End(2, 2))}
=============================================================================
