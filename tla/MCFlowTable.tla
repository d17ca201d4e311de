---------------------------- MODULE MCFlowTable ----------------------------
(***************************************************************************)
(* Instances of FlowTable for TLC.                                         *)
(***************************************************************************)
EXTENDS FlowTableRefinement

Packet(port, type, proto, src, tp) ==
  [in_port |-> port, dl_type |-> type, nw_proto |-> proto, nw_src |-> src,
   tp |-> tp]
Exact(f)   == [flow |-> f, wildcards |-> {}]
Wild(f, w) == [flow |-> f, wildcards |-> w]

A == Packet(1, IP, TCP, 1, 1)
B == Packet(2, IP, TCP, 1, 1)
C == Packet(3, IP, TCP, 1, 1)
Lldp == Packet(1, 0, 0, 0, 0)       \* neither IP nor ARP
Zero == Packet(0, 0, 0, 0, 0)

AnyFlow       == Wild(Zero, Fields)
FromPort1 == Wild(Packet(1, 0, 0, 0, 0), Fields \ {"in_port"})
AnyIp     == Wild(Packet(0, IP, 0, 0, 7), Fields \ {"dl_type"})
Udp       == Wild(Packet(1, IP, 17, 1, 9), {"tp"})   \* exact once normalised

FlowMod(command, match) ==
  [command |-> command, match |-> match, priority |-> 1, actions |-> {9},
   out_port |-> OFPP_NONE, idle_timeout |-> 0, hard_timeout |-> 0,
   flags |-> {}]
Add(match)     == FlowMod("ADD", match)
Rem(m)         == [m EXCEPT !.flags = @ \cup {"SEND_FLOW_REM"}]
Checked(m)     == [m EXCEPT !.flags = @ \cup {"CHECK_OVERLAP"}]
ForEmerg(m)    == [m EXCEPT !.flags = @ \cup {"EMERG"}]
Prio(m, p)     == [m EXCEPT !.priority = p]
IdleFor(m, n)  == [m EXCEPT !.idle_timeout = n]
HardFor(m, n)  == [m EXCEPT !.hard_timeout = n]
To(m, ports)   == [m EXCEPT !.actions = ports]
Output(m, p)   == [m EXCEPT !.out_port = p]

(* Every header in a bucket of its own, and every header in one bucket. *)
SplitHash(t, f)   == (f.in_port + f.dl_type + f.nw_proto) % N_BUCKETS
CollideHash(t, f) == 0

McPackets == {A, B, Lldp}

(* Every kind of flow_mod, on keys of every kind. *)
EveryFlowMods ==
  { Rem(Add(Exact(A))), Prio(Add(Exact(B)), 0), Add(Exact(C)),
    Rem(Add(AnyFlow)), Prio(Add(FromPort1), 65535), To(Rem(Prio(Add(AnyIp), 2)), {1}),
    To(Add(Exact(A)), {1}),                        \* output to its in_port
    To(FlowMod("MODIFY", AnyIp), {1}), To(FlowMod("MODIFY_STRICT", Exact(B)), {1}),
    FlowMod("DELETE", AnyFlow), Output(FlowMod("DELETE", AnyFlow), 1),
    FlowMod("DELETE", Exact(A)), Prio(FlowMod("DELETE_STRICT", AnyIp), 2) }

(* Flows that expire, are used, are renewed. *)
TimeoutFlowMods ==
  { Rem(IdleFor(Add(Exact(A)), 1)), Rem(HardFor(Add(Exact(B)), 2)),
    Rem(IdleFor(HardFor(Add(Exact(C)), 2), 1)), Rem(IdleFor(Add(AnyFlow), 1)),
    FlowMod("DELETE", FromPort1) }

(* Every command, and flows that expire. *)
OneTableFlowMods ==
  { Rem(IdleFor(Add(Exact(A)), 1)), To(Add(Exact(B)), {1}), Checked(Add(Udp)),
    Rem(HardFor(Add(AnyFlow), 1)), Checked(Prio(Add(FromPort1), 65535)),
    To(Prio(Add(AnyIp), 2), {8}), Add(Wild(A, {"nw_src"})),
    To(Add(Exact(A)), {1}), To(FlowMod("MODIFY", FromPort1), {8}),
    FlowMod("MODIFY_STRICT", AnyFlow),
    FlowMod("DELETE", FromPort1), Output(FlowMod("DELETE", AnyFlow), 8),
    FlowMod("DELETE", Exact(A)), Prio(FlowMod("DELETE_STRICT", AnyIp), 2) }

EmergFlowMods ==
  { ForEmerg(Add(Exact(A))), ForEmerg(Rem(Add(AnyFlow))), ForEmerg(Prio(Add(FromPort1), 2)),
    ForEmerg(IdleFor(Add(AnyFlow), 1)), ForEmerg(Prio(FlowMod("MODIFY", FromPort1), 2)),
    ForEmerg(FlowMod("DELETE", FromPort1)), ForEmerg(FlowMod("DELETE", AnyFlow)),
    Rem(IdleFor(Add(Exact(A)), 1)), Rem(Add(AnyFlow)) }

OverlapFlowMods ==
  { Checked(Add(Exact(A))), Checked(Add(Exact(B))), Checked(Add(Exact(C))),
    Checked(Add(Udp)), Checked(Add(AnyFlow)),
    Checked(Add(FromPort1)), Checked(Prio(Add(FromPort1), 65535)),
    Checked(Prio(Add(AnyIp), 2)),
    FlowMod("DELETE", FromPort1), Prio(FlowMod("DELETE_STRICT", AnyFlow), 1) }

(* The controllers of each run.                                             *)
AllControllers == {EveryFlowMods, EmergFlowMods, OverlapFlowMods, TimeoutFlowMods}
OneTableController == {OneTableFlowMods}

(* The run about one table is in the setting it is meant for.               *)
ASSUME SettingAssumption == Controllers = OneTableController => OneTableSetting
=============================================================================
