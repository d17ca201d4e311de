---------------------------- MODULE MCStatsDump ----------------------------
(* Instances of StatsDump for TLC: two exact flows that meet in one bucket  *)
(* of each subtable, and a wildcarded flow.                                 *)
EXTENDS StatsDump

McHash(t, f) == 0
=============================================================================
