---------------------------- MODULE MCZyxelAgent ----------------------------
(***************************************************************************)
(* Instances of ZyxelAgent for TLC.  The flow_mods are those of            *)
(* testing/test_zyxel_1.sh and test_zyxel_2.sh, with small numbers:        *)
(* a flow out of the home network (nw_src, the VLAN set by an action) and  *)
(* a flow into it (nw_dst, the VLAN in the match) share one WAN service.   *)
(***************************************************************************)
EXTENDS ZyxelAgent

LOCAL_PORT == 65534      \* OFPP_LOCAL
OFP_VLAN_NONE == 65535   \* dl_vlan of an untagged packet

Output(p)  == [type |-> "OUTPUT", arg |-> p]
SetVlan(v) == [type |-> "SET_VLAN_VID", arg |-> v]
Enqueue    == [type |-> "ENQUEUE", arg |-> 0]
StripVlan  == [type |-> "OTHER", arg |-> 0]

OutMatch(a) == [in_port |-> LOCAL_PORT, dl_vlan |-> 0, arp |-> FALSE,
                nw_src |-> a, nw_dst |-> 0,
                wildcards |-> {"dl_vlan", "nw_dst"}]
InMatch(a, v) == [in_port |-> 2, dl_vlan |-> v, arp |-> FALSE,
                  nw_src |-> 0, nw_dst |-> a, wildcards |-> {"nw_src"}]
ArpMatch(a) == [OutMatch(a) EXCEPT !.arp = TRUE]
DeleteAll == [ZeroMatch EXCEPT !.wildcards = Fields]

Outgoing(a, v) == [match |-> OutMatch(a),
                   actions |-> <<SetVlan(v), Output(2)>>]
Incoming(a, v) == [match |-> InMatch(a, v),
                   actions |-> <<StripVlan, Output(LOCAL_PORT)>>]
Arp(a, v)      == [match |-> ArpMatch(a),
                   actions |-> <<SetVlan(v), Output(2)>>]
Queued(a, v)   == [match |-> InMatch(a, v),
                   actions |-> <<Enqueue, Output(LOCAL_PORT)>>]
QueuedLast(a, v) == [match |-> InMatch(a, v),
                     actions |-> <<Output(LOCAL_PORT), Enqueue>>]

(* WAN 1 is the management interface; the rest is free. *)
Management == [used |-> TRUE, addr |-> 99, vlan |-> 9]
McInitialWans == [w \in WAN_INTERFACES |-> IF w = 1 THEN Management ELSE Unused]

(* Each service has an address and a VLAN of its own; address 5 is long. *)
PairedFlowMods == {Outgoing(1, 3), Incoming(1, 3), Arp(1, 3),
                   QueuedLast(2, 4), Incoming(5, 5)}
PairedDeletes  == {ofm.match : ofm \in PairedFlowMods}

(* Every kind of flow_mod the handler tells apart: an address on two VLANs, *)
(* no address, untagged packets, a queue in front of the output, and a      *)
(* DELETE of everything.                                                    *)
AnyFlowMods ==
  {Outgoing(1, 4), Incoming(0, 3), Incoming(1, OFP_VLAN_NONE),
   Queued(1, 3)}
AnyDeletes == {ofm.match : ofm \in AnyFlowMods} \cup {DeleteAll}

MCControllers ==
  <<[adds |-> PairedFlowMods, deletes |-> PairedDeletes, faults |-> FALSE],
    [adds |-> AnyFlowMods, deletes |-> AnyDeletes, faults |-> TRUE]>>

(* What the theorems about the device assume holds of these instances.      *)
ASSUME DeviceAssumption == \A c \in PairedControllers : DeviceFits(c)
ASSUME CountAssumption == ActionsFit(3)

(* One flow, deleted by its match or with everything.                       *)
MCTaggedControllers ==
  <<[adds |-> {Incoming(1, 3)}, deletes |-> {InMatch(1, 3), DeleteAll}, faults |-> FALSE]>>
=============================================================================
