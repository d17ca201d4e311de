----------------------------- MODULE ZyxelAgent -----------------------------
(***************************************************************************)
(* The OpenFlow agent of the ZyXEL FSG2200HNU: handleFlowMod (ofagent.c)   *)
(* with the zyxel device functions (zyxel.c).  recv_flow calls it for      *)
(* every flow_mod before the software flow table sees the message.         *)
(*                                                                         *)
(* ofdatapath is one thread, so nothing interleaves with a handler except  *)
(* the end of the process.  The loops of the handler are unfolded with pc: *)
(* one step per iteration, so that a step is one call of a device          *)
(* function and the process may be killed between two of them.             *)
(***************************************************************************)
EXTENDS ZyxelClient, FiniteSets, Sequences

CONSTANTS
  MAX_NUMBER_OF_FLOWS,  \* size of inserted_flows (10000)
  MAX_SERVICES,         \* size of created_services (7)
  Controllers,          \* what may happen to the agent, chosen once
  InitialWans,          \* the device's WAN table at the first start
  LongAddresses,        \* the addresses that overflow char command[100]
  SrvCounterBound       \* bound: reads of freed entries stop at -SrvCounterBound

(***************************************************************************)
(* Data.  A match keeps the five fields the agent's decisions depend on    *)
(* and the set of wildcarded fields; an action keeps its type and its      *)
(* 16-bit argument.  An ENQUEUE action's argument is its queue_id >> 16.   *)
(***************************************************************************)
UShort == {n \in Nat : n <= 65535}
Fields == {"in_port", "dl_vlan", "dl_type", "nw_src", "nw_dst"}
Match  == [in_port : UShort, dl_vlan : UShort, arp : BOOLEAN,
           nw_src : Nat, nw_dst : Nat, wildcards : SUBSET Fields]
Action == [type : {"OUTPUT", "ENQUEUE", "SET_VLAN_VID", "OTHER"}, arg : UShort]

(* memset(&infl->match, 0, sizeof(infl->match)) *)
ZeroMatch == [in_port |-> 0, dl_vlan |-> 0, arp |-> FALSE,
              nw_src |-> 0, nw_dst |-> 0, wildcards |-> {}]

(* struct inserted_flow.  freed: its actions were passed to free(). *)
InsertedFlow == [match : Match, actions : Seq(Action), freed : BOOLEAN]

(* struct zyxel_service_params; wan_mask is always 0 and vlan_pcp is only   *)
(* handed to the device.                                                    *)
Service == [in_port : UShort, wan_address : Nat, vlan_tag : Short,
            flow_counter : Short]
NoService == [in_port |-> 0, wan_address |-> 0, vlan_tag |-> 0,
              flow_counter |-> 0]

FlowIndex == 0 .. MAX_NUMBER_OF_FLOWS - 1
Slot      == 0 .. MAX_SERVICES - 1

(* The ADDs and the matches of the DELETEs that arrive, in any order, and   *)
(* whether the client and system() may fail.                                *)
FlowMod    == [match : Match, actions : Seq(Action)]
Controller == [adds : SUBSET FlowMod, deletes : SUBSET Match, faults : BOOLEAN]

ASSUME AgentAssumption ==
  /\ MAX_NUMBER_OF_FLOWS \in Nat \ {0}
  /\ MAX_SERVICES \in Nat \ {0} /\ MAX_SERVICES <= 32767
  /\ Controllers \in Seq(Controller)
  /\ InitialWans \in [WAN_INTERFACES -> Wan]
  /\ LongAddresses \subseteq Nat
  /\ SrvCounterBound \in Nat

VARIABLES
  pc,               \* "idle" | "apply" | "delete" | "unapply" | "lost"
  inserted_flows, flow_counter,                        \* ofagent.c
  created_services, srv_counter, service_allocator_index,  \* zyxel_props
  i,                \* the loop over inserted_flows of a DELETE
  auxInd,           \* infl->auxInd: the action being (un)applied
  ofm_match,        \* ofm->match of the DELETE in progress
  wan,              \* the device's WAN table
  controller        \* the place in Controllers of the one it has

agent == <<inserted_flows, flow_counter>>
props == <<created_services, srv_counter, service_allocator_index>>
vars  == <<pc, agent, props, i, auxInd, ofm_match, wan, controller>>

FlowMods == Controllers[controller].adds
Deletes  == Controllers[controller].deletes
MayFail  == Controllers[controller].faults

(* The zeroed static storage of a process that starts.                      *)
EmptyFlows == [f \in FlowIndex |->
                 [match |-> ZeroMatch, actions |-> <<>>, freed |-> FALSE]]
EmptyTable == [s \in Slot |-> NoService]

Init ==
  /\ pc = "idle"
  /\ inserted_flows = EmptyFlows /\ flow_counter = 0
  /\ created_services = EmptyTable
  /\ srv_counter = 0 /\ service_allocator_index = 0
  /\ i = 0 /\ auxInd = 0 /\ ofm_match = ZeroMatch
  /\ wan = InitialWans
  /\ controller \in DOMAIN Controllers

-----------------------------------------------------------------------------
(* C arithmetic: a short that wraps, and uint16_t converted to short.       *)
Increment(c) == IF c = 32767 THEN -32768 ELSE c + 1
Decrement(c) == IF c = -32768 THEN 32767 ELSE c - 1
ToShort(u)   == IF u > 32767 THEN u - 65536 ELSE u

(* The bits of zyxel_props.wildcards (0xFFFFFFFC) that are clear: the       *)
(* fields that a flow_mod has to specify.                                   *)
RequiredFields == {"in_port", "dl_vlan"}

(* ~w & ~d != ~d as C parses it: ~w & (~d != ~d).  The comparison yields    *)
(* the integer 0, which has no bit set.                                     *)
RejectedByWildcards(w) ==
  LET comparison == IF RequiredFields # RequiredFields THEN {"in_port"} ELSE {}
  IN  (Fields \ w) \cap comparison # {}

(* my_flow_fields_match: every field but the wildcards.                     *)
my_flow_fields_match(a, b) ==
  [a EXCEPT !.wildcards = {}] = [b EXCEPT !.wildcards = {}]

(* The wan_address computed by both device functions.                       *)
WanAddress(m) == IF m.nw_src = 0 THEN m.nw_dst ELSE m.nw_src

-----------------------------------------------------------------------------
(* The action list as output_conf_zyxel reads it: as an array of 8-byte     *)
(* structures.  A 16-byte ENQUEUE fills two of them; the second starts with *)
(* its padding, which reads as OUTPUT, and its port is queue_id >> 16.      *)

(* The number of 8-byte units before action k (k counts from 0).            *)
UnitOffset(acts, k) ==
  k + Cardinality({j \in 1 .. k : acts[j].type = "ENQUEUE"})

(* infl->actions[u].                                                        *)
Unit(acts, u) ==
  IF \E k \in 1 .. Len(acts) : UnitOffset(acts, k - 1) = u
  THEN acts[CHOOSE k \in 1 .. Len(acts) : UnitOffset(acts, k - 1) = u]
  ELSE [type |-> "OUTPUT",
        arg |-> acts[CHOOSE k \in 1 .. Len(acts) :
                       UnitOffset(acts, k - 1) = u - 1].arg]

(* The argument of the last unit of the type among actions[0 .. aux].       *)
LastArg(acts, aux, type, default) ==
  LET isLast(u) == /\ Unit(acts, u).type = type
                   /\ \A v \in u + 1 .. aux : Unit(acts, v).type # type
  IN  IF \E u \in 0 .. aux : isLast(u)
      THEN Unit(acts, CHOOSE u \in 0 .. aux : isLast(u)).arg
      ELSE default

OutPort(infl, aux) == LastArg(infl.actions, aux, "OUTPUT", 0)
VlanTag(infl, aux) ==
  LastArg(infl.actions, aux, "SET_VLAN_VID", infl.match.dl_vlan)

(* zyxel_props.supported_actions: both types run the same two functions.    *)
Supported(action) == action.type \in {"OUTPUT", "ENQUEUE"}

-----------------------------------------------------------------------------
(* The handler returns; its local variables are gone.                       *)
Return == pc' = "idle" /\ i' = 0 /\ auxInd' = 0 /\ ofm_match' = ZeroMatch

(* Otherwise "no more flows will be handled", for every command.            *)
TableHasRoom == flow_counter <= MAX_NUMBER_OF_FLOWS - 1

(* handleFlowMod, OFPFC_ADD: the match and the actions are copied to the    *)
(* next free entry; apply_actions starts.                                   *)
FlowModAdd ==
  /\ pc = "idle"
  /\ TableHasRoom
  /\ \E ofm \in FlowMods :
       /\ ~RejectedByWildcards(ofm.match.wildcards)
       /\ inserted_flows' = [inserted_flows EXCEPT ![flow_counter] =
            [match |-> ofm.match, actions |-> ofm.actions, freed |-> FALSE]]
  /\ auxInd' = 0
  /\ pc' = "apply"
  /\ UNCHANGED <<flow_counter, props, i, ofm_match, wan>>

(* handleFlowMod, OFPFC_DELETE: the search of inserted_flows starts.        *)
FlowModDelete ==
  /\ pc = "idle"
  /\ TableHasRoom
  /\ \E m \in Deletes : /\ ~RejectedByWildcards(m.wildcards)
                        /\ ofm_match' = m
  /\ i' = 0
  /\ pc' = "delete"
  /\ UNCHANGED <<agent, props, auxInd, wan>>

(* handleFlowMod returns at once: the table of inserted flows is full (for  *)
(* every command, DELETE too), or the command has no handler.               *)
FlowModIgnored ==
  /\ pc = "idle"
  /\ UNCHANGED vars

-----------------------------------------------------------------------------
(* apply_actions and output_conf_zyxel.                                     *)
Applying == inserted_flows[flow_counter]

ApplyNext ==
  /\ auxInd' = auxInd + 1
  /\ UNCHANGED <<pc, agent, i, ofm_match>>

InApply == pc = "apply" /\ auxInd < Len(Applying.actions)

(* output_conf_zyxel returns -1 without touching the device.                *)
ConfSkips ==
  \/ Applying.match.arp
  \/ Applying.match.in_port = 0
  \/ OutPort(Applying, auxInd) = 0
  \/ VlanTag(Applying, auxInd) = 0
  \/ service_allocator_index > MAX_SERVICES - 1

(* MUTANT of ExistingSlots: the search stops one slot early.                *)
MutExistingSlots ==
  {s \in Slot :
     /\ s < service_allocator_index - 1
     /\ created_services[s].wan_address = WanAddress(Applying.match)
     /\ created_services[s].vlan_tag = VlanTag(Applying, auxInd)}

(* The allocated slots of the service; the tag is compared as uint16_t.     *)
ExistingSlots ==
  {s \in Slot :
     /\ s < service_allocator_index
     /\ created_services[s].wan_address = WanAddress(Applying.match)
     /\ created_services[s].vlan_tag = VlanTag(Applying, auxInd)}

ConfCalled == InApply /\ Supported(Applying.actions[auxInd + 1])

(* An action type the device does not support, or an early return.          *)
ApplySkip ==
  /\ InApply
  /\ Supported(Applying.actions[auxInd + 1]) => ConfSkips
  /\ ApplyNext
  /\ UNCHANGED <<props, wan>>

(* "Service already exists": the first such slot counts one flow more.      *)
ApplyToExisting ==
  /\ ConfCalled /\ ~ConfSkips
  /\ \E s \in ExistingSlots :
       /\ \A t \in ExistingSlots : s <= t
       /\ created_services' = [created_services EXCEPT
            ![s].flow_counter = Increment(@)]
  /\ ApplyNext
  /\ UNCHANGED <<srv_counter, service_allocator_index, wan>>

(* The command line of the client.  Its -i and -m both print the static     *)
(* buffer of inet_ntoa; GCC evaluates arguments from right to left, so it   *)
(* holds the address (the client ignores -m).  The device's own address     *)
(* comes last: snprintf cuts it off when the text exceeds command[100], and *)
(* the client then talks to some other host.                                *)
ReachesDevice(a) == a \notin LongAddresses

zyxel_configure_service(a, v) ==
  IF ReachesDevice(a) THEN set_wan_interface(wan, a, v, MayFail) ELSE {wan}

zyxel_unconfigure_service(a, v) ==
  IF ReachesDevice(a) THEN del_wan_interface(wan, v, MayFail) ELSE {wan}

(* MUTANT of NewSlot: the first slot that is not in use.                    *)
MutNewSlot ==
  CHOOSE s \in Slot : \A t \in Slot :
    created_services[t].in_port = 0 => created_services[s].in_port = 0 /\ s <= t

(* The slot of a new service; slots are handed out once.                    *)
NewSlot == service_allocator_index

(* A new service: the client is run, then the next slot is filled.  The     *)
(* client's exit status is never negative, so it is never seen.             *)
ApplyToNew ==
  /\ ConfCalled /\ ~ConfSkips /\ ExistingSlots = {}
  /\ wan' \in zyxel_configure_service(WanAddress(Applying.match),
                                      ToShort(VlanTag(Applying, auxInd)))
  /\ created_services' = [created_services EXCEPT
       ![NewSlot] =
         [in_port |-> Applying.match.in_port,
          wan_address |-> WanAddress(Applying.match),
          vlan_tag |-> ToShort(VlanTag(Applying, auxInd)),
          flow_counter |-> Increment(@.flow_counter)]]
  /\ srv_counter' = Increment(srv_counter)
  /\ service_allocator_index' = service_allocator_index + 1
  /\ ApplyNext

(* system() itself failed: the only failure zyxel_configure_service sees.   *)
ApplyForkFails ==
  /\ MayFail
  /\ ConfCalled /\ ~ConfSkips /\ ExistingSlots = {}
  /\ ApplyNext
  /\ UNCHANGED <<props, wan>>

(* The end of apply_actions: the entry now counts.                          *)
ApplyDone ==
  /\ pc = "apply"
  /\ auxInd >= Len(Applying.actions)
  /\ flow_counter' = flow_counter + 1
  /\ Return
  /\ UNCHANGED <<inserted_flows, props, wan>>

-----------------------------------------------------------------------------
(* The search loop of OFPFC_DELETE.                                         *)
Candidate == inserted_flows[i]

Searching == pc = "delete" /\ i < flow_counter

DeleteMismatch ==
  /\ Searching
  /\ ~my_flow_fields_match(Candidate.match, ofm_match)
  /\ i' = i + 1
  /\ UNCHANGED <<pc, agent, props, auxInd, ofm_match, wan>>

(* unapply_actions starts on an entry whose actions are still allocated.    *)
DeleteMatch ==
  /\ Searching
  /\ my_flow_fields_match(Candidate.match, ofm_match)
  /\ ~Candidate.freed
  /\ auxInd' = 0
  /\ pc' = "unapply"
  /\ UNCHANGED <<agent, props, i, ofm_match, wan>>

(* unapply_actions starts on an entry that was deleted before: undefined    *)
(* behaviour.  The freed bytes still read as some action list, or the       *)
(* handler never returns (an action of length 0 loops for ever, the second  *)
(* free() aborts).                                                          *)
DeleteFreed ==
  /\ Searching
  /\ my_flow_fields_match(Candidate.match, ofm_match)
  /\ Candidate.freed
  /\ auxInd' = 0
  /\ \/ /\ srv_counter > 0 - SrvCounterBound
        /\ \E ofm \in FlowMods :
             inserted_flows' = [inserted_flows EXCEPT ![i].actions = ofm.actions]
        /\ pc' = "unapply"
     \/ /\ pc' = "lost"
        /\ UNCHANGED inserted_flows
  /\ UNCHANGED <<flow_counter, props, i, ofm_match, wan>>

DeleteDone ==
  /\ pc = "delete"
  /\ i >= flow_counter
  /\ Return
  /\ UNCHANGED <<agent, props, wan>>

-----------------------------------------------------------------------------
(* unapply_actions and output_unconf_zyxel.                                 *)
UnapplyNext ==
  /\ auxInd' = auxInd + 1
  /\ UNCHANGED <<pc, agent, i, ofm_match>>

InUnapply == pc = "unapply" /\ auxInd < Len(Candidate.actions)

(* The slots output_unconf_zyxel accepts: by address alone, over the whole  *)
(* table, free slots included.                                              *)
AddressSlots ==
  {s \in Slot : created_services[s].wan_address = WanAddress(Candidate.match)}

UnconfCalled ==
  /\ InUnapply
  /\ Supported(Candidate.actions[auxInd + 1])
  /\ ~Candidate.match.arp

(* The first of them is the one that is released.                           *)
Released(s) ==
  /\ s \in AddressSlots
  /\ \A t \in AddressSlots : s <= t

(* MUTANT of IsShared: the last two flows are taken for the last one.       *)
MutIsShared(s) == created_services[s].flow_counter > 2

(* Other flows still count on the service.                                  *)
IsShared(s) == created_services[s].flow_counter > 1

UnapplySkip ==
  /\ InUnapply
  /\ UnconfCalled => AddressSlots = {}
  /\ UnapplyNext
  /\ UNCHANGED <<props, wan>>

UnapplyShared ==
  /\ UnconfCalled
  /\ \E s \in Slot :
       /\ Released(s) /\ IsShared(s)
       /\ created_services' = [created_services EXCEPT
            ![s].flow_counter = Decrement(@)]
  /\ UnapplyNext
  /\ UNCHANGED <<srv_counter, service_allocator_index, wan>>

(* MUTANT of ClearService: the tag of the removed service stays.            *)
MutClearService(service) == [NoService EXCEPT !.vlan_tag = service.vlan_tag]

(* The fields of a removed service are set to 0.                            *)
ClearService(service) == NoService

OneServiceLess == srv_counter' = Decrement(srv_counter)

(* The last flow: the client removes the WAN of the slot's VLAN and the     *)
(* slot is cleared.  system()'s result is ignored.                          *)
UnapplyLast ==
  /\ UnconfCalled
  /\ \E s \in Slot :
       /\ Released(s) /\ ~IsShared(s)
       /\ wan' \in zyxel_unconfigure_service(WanAddress(Candidate.match),
                                        created_services[s].vlan_tag)
                     \cup (IF MayFail THEN {wan} ELSE {})
       /\ created_services' = [created_services EXCEPT ![s] = ClearService(@)]
  /\ OneServiceLess
  /\ UnapplyNext
  /\ UNCHANGED service_allocator_index

(* The match is cleared, the actions are freed (what a later read of them   *)
(* finds is chosen by DeleteFreed), the search goes on.  The second free()  *)
(* of an entry may abort the process.                                       *)
UnapplyDone ==
  /\ pc = "unapply"
  /\ auxInd >= Len(Candidate.actions)
  /\ inserted_flows' = [inserted_flows EXCEPT
       ![i] = [match |-> ZeroMatch, actions |-> <<>>, freed |-> TRUE]]
  /\ i' = i + 1
  /\ auxInd' = 0
  /\ pc' \in {"delete"} \cup (IF Candidate.freed THEN {"lost"} ELSE {})
  /\ UNCHANGED <<flow_counter, props, ofm_match, wan>>

-----------------------------------------------------------------------------
(* The process is killed and started again (stop_agent.sh, the start        *)
(* script): its memory is gone, the device keeps its WAN table.             *)
Restart ==
  /\ inserted_flows' = EmptyFlows /\ flow_counter' = 0
  /\ created_services' = EmptyTable
  /\ srv_counter' = 0 /\ service_allocator_index' = 0
  /\ Return
  /\ UNCHANGED wan

Handler ==
  \/ ApplySkip \/ ApplyToExisting \/ ApplyToNew \/ ApplyForkFails \/ ApplyDone
  \/ DeleteMismatch \/ DeleteMatch \/ DeleteFreed \/ DeleteDone
  \/ UnapplySkip \/ UnapplyShared \/ UnapplyLast \/ UnapplyDone

Next ==
  /\ FlowModAdd \/ FlowModDelete \/ FlowModIgnored \/ Handler \/ Restart
  /\ UNCHANGED controller

Spec == Init /\ [][Next]_vars

-----------------------------------------------------------------------------
(* PROPERTIES *)

Active(s) == created_services[s].in_port # 0

(* Type correctness.                                                        *)
TypeOK ==
  /\ pc \in {"idle", "apply", "delete", "unapply", "lost"}
  /\ inserted_flows \in [FlowIndex -> InsertedFlow]
  /\ flow_counter \in 0 .. MAX_NUMBER_OF_FLOWS
  /\ pc = "apply" => flow_counter < MAX_NUMBER_OF_FLOWS
  /\ created_services \in [Slot -> Service]
  /\ srv_counter \in Short
  /\ service_allocator_index \in 0 .. MAX_SERVICES
  /\ i \in 0 .. MAX_NUMBER_OF_FLOWS
  /\ pc = "unapply" => i < flow_counter
  /\ auxInd \in Nat
  /\ ofm_match \in Match
  /\ wan \in [WAN_INTERFACES -> Wan]
  /\ controller \in DOMAIN Controllers

(* The slot table and its allocator agree: a live service lies below        *)
(* service_allocator_index, and a slot that is not live is entirely clear,  *)
(* so that no flow is ever counted on a service that was removed (the       *)
(* search of output_conf_zyxel does not look at in_port).                   *)
SlotsTrackAllocation ==
  \A s \in Slot :
    /\ Active(s) => s < service_allocator_index
    /\ ~Active(s) => created_services[s] = NoService

(* No service is created twice: two live slots never hold the same address  *)
(* and VLAN.  (A tag that does not fit a short is excluded: it is stored as *)
(* a negative number, which the search compares with the unsigned tag.)     *)
UniqueServices ==
  \A s, t \in Slot :
    /\ Active(s) /\ Active(t)
    /\ created_services[s].vlan_tag > 0
    /\ created_services[s].vlan_tag = created_services[t].vlan_tag
    /\ created_services[s].wan_address = created_services[t].wan_address
    => s = t

(* A slot that was given up is not taken again before a restart ("no more   *)
(* services will be established - software needs to be restarted"): the     *)
(* number of services of one process is bounded by MAX_SERVICES for good.   *)
GivenUpSlotsStayFree ==
  [][ service_allocator_index' >= service_allocator_index =>
        \A s \in Slot :
          s < service_allocator_index /\ ~Active(s) => ~Active(s)' ]_vars

(* The tags of the services that the actions of a flow_mod configure.       *)
Vlans(ofm) ==
  {VlanTag(ofm, k - 1) :
     k \in {n \in 1 .. Len(ofm.actions) : Supported(ofm.actions[n])}}

(* The controllers the agent is made for: every flow has an address and a   *)
(* VLAN, each VLAN belongs to one address, a DELETE names a flow, and the   *)
(* client succeeds.                                                         *)
HaveVlans(adds) ==
  \A ofm \in adds :
    WanAddress(ofm.match) # 0 /\ \A v \in Vlans(ofm) : 0 < v /\ v <= 32767

VlansPaired(adds) ==
  \A ofm, other \in adds :
    \A v \in Vlans(ofm), u \in Vlans(other) :
      v = u <=> WanAddress(ofm.match) = WanAddress(other.match)

NameFlows(deletes, adds) == \A m \in deletes : \E ofm \in adds : m = ofm.match

PairedControllers ==
  {c \in DOMAIN Controllers :
     /\ ~Controllers[c].faults
     /\ HaveVlans(Controllers[c].adds)
     /\ VlansPaired(Controllers[c].adds)
     /\ NameFlows(Controllers[c].deletes, Controllers[c].adds)}

Paired == controller \in PairedControllers

(* The VLANs that the device's rows carry under controller c.               *)
DeviceVlans(c) ==
  {InitialWans[w].vlan : w \in {x \in WAN_INTERFACES : InitialWans[x].used}}
  \cup UNION {Vlans(ofm) : ofm \in {o \in Controllers[c].adds :
                                      ReachesDevice(WanAddress(o.match))}}

(* The device can serve controller c: it has a WAN id for each VLAN, and    *)
(* its rows from before do not give a VLAN of c to another address.         *)
DeviceFits(c) ==
  /\ IsFiniteSet(DeviceVlans(c))
  /\ Cardinality(DeviceVlans(c)) <= Cardinality(WAN_INTERFACES)
  /\ \A w \in WAN_INTERFACES, ofm \in Controllers[c].adds :
       InitialWans[w].used /\ InitialWans[w].vlan \in Vlans(ofm) =>
         InitialWans[w].addr = WanAddress(ofm.match)

(* The device carries out what the agent believes: every live service has a *)
(* WAN interface with its address and its VLAN, also when WAN interfaces    *)
(* from before a restart are still there.  It takes an address that leaves  *)
(* room on the command line.                                                *)
ServiceHasWan ==
  Paired => \A s \in Slot :
    Active(s) /\ ReachesDevice(created_services[s].wan_address) =>
      \E w \in WAN_INTERFACES :
        /\ wan[w].used
        /\ wan[w].addr = created_services[s].wan_address
        /\ wan[w].vlan = created_services[s].vlan_tag

(* The WAN interfaces the device has in use, and the services they are for. *)
UsedWans == {w \in WAN_INTERFACES : wan[w].used}
OnDevice == {s \in Slot : Active(s)
                           /\ ReachesDevice(created_services[s].wan_address)}

(* Nothing is left behind: only a restart (which the allocator's index      *)
(* tells) leaves more WAN interfaces than the services account for, so that *)
(* every WAN a service was given is taken back with it.                     *)
OnlyRestartsLeaveWans ==
  [][ Paired /\ service_allocator_index' >= service_allocator_index =>
        Cardinality(UsedWans') - Cardinality(OnDevice')
          <= Cardinality(UsedWans) - Cardinality(OnDevice) ]_vars

(* Action k of entry f is a use of the service <<address, tag>>.            *)
Uses(f, k, address, tag) ==
  LET infl == inserted_flows[f]
  IN  /\ ~infl.freed /\ ~infl.match.arp /\ infl.match.in_port # 0
      /\ k <= Len(infl.actions)
      /\ Supported(infl.actions[k])
      /\ OutPort(infl, k - 1) # 0
      /\ WanAddress(infl.match) = address
      /\ ToShort(VlanTag(infl, k - 1)) = tag

(* The actions of the inserted flows, as pairs of an entry and a place.     *)
EntryActions ==
  UNION {{f} \X (1 .. Len(inserted_flows[f].actions)) :
           f \in 0 .. flow_counter - 1}

UsesOf(address, tag) ==
  {fk \in EntryActions : Uses(fk[1], fk[2], address, tag)}

(* Flows that output_conf_zyxel does not skip for a port 0: it looks at     *)
(* in_port and out_port, and output_unconf_zyxel does not, so a flow that   *)
(* was skipped for its ports releases a use it never took.                  *)
PortsNamed(adds) ==
  \A ofm \in adds :
    ~ofm.match.arp =>
      /\ ofm.match.in_port # 0
      /\ \A k \in 1 .. Len(ofm.actions) :
           Supported(ofm.actions[k]) => OutPort(ofm, k - 1) # 0

(* With at most n actions to a flow of the paired controllers, the uses of  *)
(* one service fit its short flow_counter.                                  *)
ActionsFit(n) ==
  /\ MAX_NUMBER_OF_FLOWS * n <= 32767
  /\ \A c \in PairedControllers :
       \A ofm \in Controllers[c].adds : Len(ofm.actions) <= n

(* Between two flow_mods the flow_counter of a service is "the number of    *)
(* flows related to the service": the device is unconfigured exactly when   *)
(* the last action that configured it is unapplied.  (Once all slots are    *)
(* used, "no more services will be established", not even existing ones     *)
(* count.)                                                                  *)
ServiceCountsItsFlows ==
  /\ Paired /\ PortsNamed(FlowMods)
  /\ pc = "idle" /\ service_allocator_index < MAX_SERVICES
  =>
    /\ \A s \in Slot :
         Active(s) =>
           created_services[s].flow_counter =
             Cardinality(UsesOf(created_services[s].wan_address,
                                created_services[s].vlan_tag))
    /\ \A fk \in EntryActions :
         LET infl == inserted_flows[fk[1]]
             tag  == ToShort(VlanTag(infl, fk[2] - 1))
         IN  Uses(fk[1], fk[2], WanAddress(infl.match), tag) =>
               \E s \in Slot :
                 /\ Active(s)
                 /\ created_services[s].wan_address = WanAddress(infl.match)
                 /\ created_services[s].vlan_tag = tag

(* ofagent.c, before the memset: "Delete the match value to prevent it from *)
(* being compared in another flow deletion": no DELETE finds an entry that  *)
(* was deleted before.                                                      *)
DeletedFlowsAreNotFound ==
  Searching /\ Candidate.freed =>
    ~my_flow_fields_match(Candidate.match, ofm_match)
=============================================================================
