---------------------------- MODULE ZyxelClient ----------------------------
(***************************************************************************)
(* zyxel_client.py and the WAN table of the FSG2200HNU it edits over HTTP. *)
(*                                                                         *)
(* The agent runs the client synchronously (system()), so one run of the   *)
(* client is one step of the agent.  What a run leaves behind is a SET of  *)
(* possible WAN tables: the client logs in, reads the table, posts three   *)
(* forms and posts "save"; any request may fail, the client then exits at  *)
(* once, and the device only commits a configuration on "save".            *)
(***************************************************************************)
EXTENDS Integers, FiniteSets

CONSTANT WAN_INTERFACES   \* the WAN ids the client manages, range(1,9)

ASSUME ClientAssumption ==
  WAN_INTERFACES \subseteq Nat /\ IsFiniteSet(WAN_INTERFACES)

(***************************************************************************)
(* Data.  An IP address is a natural number, 0 being 0.0.0.0; a VLAN tag   *)
(* as the agent stores it is a C short.  NoTag is the None that parse_vlan *)
(* returns for a row without a decimal VLAN cell.                          *)
(***************************************************************************)
Short == {n \in Int : -32768 <= n /\ n <= 32767}
NoTag == 65536
Wan   == [used : BOOLEAN, addr : Nat, vlan : Short \cup {NoTag}]
Unused == [used |-> FALSE, addr |-> 0, vlan |-> NoTag]

(* The WAN ids whose row carries VLAN v. *)
WansOf(wan, v) == {w \in WAN_INTERFACES : wan[w].used /\ wan[w].vlan = v}

(* x is the last of the ids in S (get_all_WAN walks them upwards). *)
IsLast(x, S) == x \in S /\ \A y \in S : y <= x

(* services = get_all_WAN(): a dictionary VLAN -> WAN id.  A later row      *)
(* overwrites an earlier row of the same VLAN.                              *)
get_all_WAN(wan) ==
  [v \in {wan[w].vlan : w \in {u \in WAN_INTERFACES : wan[u].used}} |->
     CHOOSE w \in WAN_INTERFACES : IsLast(w, WansOf(wan, v))]

(* The candidates of assign_wan: the ids that are no value of services.     *)
FreeIds(services) ==
  WAN_INTERFACES \ {services[v] : v \in DOMAIN services}

(* MUTANT of assign_wan: the ids in use are not looked at.                  *)
MutAssignWan(services) == CHOOSE w \in WAN_INTERFACES : w - 1 \notin WAN_INTERFACES

(* assign_wan(services): the smallest id that is no value of services.      *)
assign_wan(services) ==
  CHOOSE w \in FreeIds(services) : \A u \in FreeIds(services) : w <= u

(* How the device shows a VLAN it was given: the page holds decimal digits, *)
(* so a negative tag reads back as None.                                    *)
Shown(v) == IF v >= 0 THEN v ELSE NoTag

(* set_wan_interface: what "setwan -i a -v v" can leave in the WAN table.   *)
(* "VLAN already configured" is only logged.  mayFail: an HTTP request may  *)
(* fail (10 s timeout).                                                     *)
set_wan_interface(wan, a, v, mayFail) ==
  LET services == get_all_WAN(wan)
      saved == [wan EXCEPT ![assign_wan(services)] =
                  [used |-> TRUE, addr |-> a, vlan |-> Shown(v)]]
  IN  IF FreeIds(services) = {}
      THEN {wan}
      ELSE {saved} \cup (IF mayFail THEN {wan} ELSE {})

(* MUTANT of del_wan_interface: the VLAN is never found in the dictionary.  *)
MutDelWan(wan, v, mayFail) == {wan}

(* del_wan_interface: what "delwan -v v" can leave in the WAN table.        *)
del_wan_interface(wan, v, mayFail) ==
  LET services == get_all_WAN(wan)
  IN  IF v \notin DOMAIN services
      THEN {wan}
      ELSE {[wan EXCEPT ![services[v]] = Unused]}
             \cup (IF mayFail THEN {wan} ELSE {})
=============================================================================
