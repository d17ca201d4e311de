-------------------------- MODULE ZyxelAgentProofs --------------------------
(***************************************************************************)
(* Safety of the ZyXEL agent for every number of flows, of services and of *)
(* WAN interfaces, every set of flow_mods, and every failure of the client *)
(* or of fork(): first its own tables, then, for the controllers it is     *)
(* made for, the WAN table of the device.                                  *)
(***************************************************************************)
EXTENDS ZyxelAgent, NaturalsInduction, FiniteSetTheorems, TLAPS

-----------------------------------------------------------------------------
(* A tag written by SET_VLAN_VID is the argument of an action of the flow:  *)
(* the second half of an ENQUEUE is never taken for one, so the tag that    *)
(* output_conf_zyxel computes is a 16-bit number.                           *)
LEMMA VlanTagType ==
  ASSUME NEW infl \in InsertedFlow, NEW aux \in Nat
  PROVE  VlanTag(infl, aux) \in UShort
<1> DEFINE acts == infl.actions
           isLast(u) == /\ Unit(acts, u).type = "SET_VLAN_VID"
                        /\ \A v \in u + 1 .. aux :
                             Unit(acts, v).type # "SET_VLAN_VID"
<1>1. acts \in Seq(Action) /\ infl.match.dl_vlan \in UShort
  BY DEF InsertedFlow, Match
<1>2. CASE \E u \in 0 .. aux : isLast(u)
  <2> DEFINE last == CHOOSE u \in 0 .. aux : isLast(u)
  <2>1. isLast(last)
    BY <1>2
  <2>2. VlanTag(infl, aux) = Unit(acts, last).arg
    BY <1>2 DEF VlanTag, LastArg
  <2> DEFINE k0 == CHOOSE k \in 1 .. Len(acts) : UnitOffset(acts, k - 1) = last
  <2>3. /\ \E k \in 1 .. Len(acts) : UnitOffset(acts, k - 1) = last
        /\ Unit(acts, last) = acts[k0]
    BY <2>1 DEF Unit
  <2>4. \E k \in 1 .. Len(acts) : Unit(acts, last) = acts[k]
    BY <2>3
  <2> HIDE DEF acts, last
  <2>5. PICK k \in 1 .. Len(acts) : Unit(acts, last) = acts[k]
    BY <2>4
  <2>6. acts[k] \in Action
    BY <1>1, <2>5
  <2> QED
    BY <2>2, <2>5, <2>6 DEF Action
<1>3. CASE ~ \E u \in 0 .. aux : isLast(u)
  BY <1>1, <1>3 DEF VlanTag, LastArg
<1> QED
  BY <1>2, <1>3

(* uint16_t to short, and the wrapping counters, stay within a short.       *)
LEMMA ShortArithmetic ==
  /\ \A u \in UShort : ToShort(u) \in Short /\ (ToShort(u) > 0 => ToShort(u) = u)
  /\ \A c \in Short : Increment(c) \in Short /\ Decrement(c) \in Short
<1>1. ASSUME NEW u \in UShort
      PROVE  ToShort(u) \in Short /\ (ToShort(u) > 0 => ToShort(u) = u)
  BY DEF UShort, Short, ToShort
<1>2. ASSUME NEW c \in Short
      PROVE  Increment(c) \in Short /\ Decrement(c) \in Short
  BY DEF Short, Increment, Decrement
<1> QED
  BY <1>1, <1>2

(* The address the client is called with.                                   *)
LEMMA WanAddressType ==
  ASSUME NEW m \in Match
  PROVE  WanAddress(m) \in Nat
  BY DEF Match, WanAddress

(* Whatever a run of the client leaves behind is a WAN table.               *)
LEMMA ClientType ==
  ASSUME NEW w \in [WAN_INTERFACES -> Wan], NEW a \in Nat, NEW v \in Short,
         NEW fails
  PROVE  /\ set_wan_interface(w, a, v, fails) \subseteq [WAN_INTERFACES -> Wan]
         /\ del_wan_interface(w, v, fails) \subseteq [WAN_INTERFACES -> Wan]
<1>1. [used |-> TRUE, addr |-> a, vlan |-> Shown(v)] \in Wan /\ Unused \in Wan
  BY DEF Wan, Unused, Shown, Short, NoTag
<1>2. \A x : /\ [w EXCEPT ![x] = [used |-> TRUE, addr |-> a, vlan |-> Shown(v)]]
                  \in [WAN_INTERFACES -> Wan]
             /\ [w EXCEPT ![x] = Unused] \in [WAN_INTERFACES -> Wan]
  BY <1>1
<1> QED
  BY <1>2 DEF set_wan_interface, del_wan_interface
-----------------------------------------------------------------------------
(* The static storage of a new process and the values written to it.        *)
LEMMA ConstantTypes ==
  /\ ZeroMatch \in Match
  /\ NoService \in Service
  /\ EmptyFlows \in [FlowIndex -> InsertedFlow]
  /\ EmptyTable \in [Slot -> Service]
<1>1. ZeroMatch \in Match
  BY DEF ZeroMatch, Match, UShort
<1>2. NoService \in Service
  BY DEF NoService, Service, UShort, Short
<1>3. [match |-> ZeroMatch, actions |-> <<>>, freed |-> FALSE] \in InsertedFlow
  BY <1>1 DEF InsertedFlow
<1> QED
  BY <1>1, <1>2, <1>3 DEF EmptyFlows, EmptyTable

(* The state of the process as the actions change it: what every step that  *)
(* only moves the loop variables keeps.                                     *)
LEMMA TypeInit == Init => TypeOK
  BY ConstantTypes, AgentAssumption DEF Init, TypeOK, Short

(* What the controller sends.                                               *)
LEMMA ControllerType ==
  ASSUME controller \in DOMAIN Controllers
  PROVE  FlowMods \subseteq FlowMod /\ Deletes \subseteq Match
<1>1. Controllers[controller] \in Controller
  BY AgentAssumption
<1> QED
  BY <1>1 DEF Controller, FlowMods, Deletes

(* Every step of the agent keeps the types.                                 *)
LEMMA TypeStep == TypeOK /\ [Next]_vars => TypeOK'
<1> SUFFICES ASSUME TypeOK, [Next]_vars PROVE TypeOK'
  OBVIOUS
<1>a. controller' \in DOMAIN Controllers
  BY DEF TypeOK, Next, vars
<1> USE <1>a DEF TypeOK
<1>0. CASE UNCHANGED vars
  BY <1>0 DEF vars, agent, props
<1>1. CASE FlowModAdd
  <2>1. PICK ofm \in FlowMods :
          inserted_flows' = [inserted_flows EXCEPT ![flow_counter] =
            [match |-> ofm.match, actions |-> ofm.actions, freed |-> FALSE]]
    BY <1>1 DEF FlowModAdd
  <2>2. [match |-> ofm.match, actions |-> ofm.actions, freed |-> FALSE]
          \in InsertedFlow
    BY ControllerType DEF InsertedFlow, FlowMod
  <2>3. inserted_flows' \in [FlowIndex -> InsertedFlow]
    BY <2>1, <2>2
  <2> QED
    BY <1>1, <2>3, AgentAssumption DEF FlowModAdd, TableHasRoom, props
<1>2. CASE FlowModDelete
  BY <1>2, ControllerType, AgentAssumption DEF FlowModDelete, agent, props
<1>3. CASE FlowModIgnored
  BY <1>3 DEF FlowModIgnored, vars, agent, props
<1>4. CASE ApplySkip
  BY <1>4 DEF ApplySkip, ApplyNext, agent, props
<1>5. CASE ApplyToExisting
  <2>1. PICK s \in Slot : created_services' = [created_services EXCEPT
                            ![s].flow_counter = Increment(@)]
    BY <1>5 DEF ApplyToExisting, ExistingSlots
  <2>2. Increment(created_services[s].flow_counter) \in Short
    BY ShortArithmetic DEF Service
  <2>3. created_services' \in [Slot -> Service]
    BY <2>1, <2>2 DEF Service
  <2> QED
    BY <1>5, <2>3 DEF ApplyToExisting, ApplyNext, agent
<1>6. CASE ApplyToNew
  <2>1. /\ Applying \in InsertedFlow
        /\ service_allocator_index \in Slot
    BY <1>6, AgentAssumption DEF ApplyToNew, ConfCalled, InApply, Applying,
       FlowIndex, ConfSkips, Slot
  <2>2. /\ WanAddress(Applying.match) \in Nat
        /\ ToShort(VlanTag(Applying, auxInd)) \in Short
        /\ Applying.match.in_port \in UShort
    BY <2>1, WanAddressType, VlanTagType, ShortArithmetic
       DEF InsertedFlow, Match
  <2>3. wan' \in [WAN_INTERFACES -> Wan]
    <3>1. zyxel_configure_service(WanAddress(Applying.match),
                                  ToShort(VlanTag(Applying, auxInd)))
            \subseteq [WAN_INTERFACES -> Wan]
      BY <2>2, ClientType DEF zyxel_configure_service
    <3> QED
      BY <1>6, <3>1 DEF ApplyToNew
  <2>4. created_services[service_allocator_index].flow_counter \in Short
    BY <2>1 DEF Service
  <2>5. [in_port |-> Applying.match.in_port,
         wan_address |-> WanAddress(Applying.match),
         vlan_tag |-> ToShort(VlanTag(Applying, auxInd)),
         flow_counter |->
           Increment(created_services[service_allocator_index].flow_counter)]
          \in Service
    BY <2>2, <2>4, ShortArithmetic DEF Service
  <2>6. created_services' \in [Slot -> Service]
    BY <1>6, <2>5 DEF ApplyToNew, NewSlot
  <2>7. srv_counter' \in Short /\ service_allocator_index' \in 0 .. MAX_SERVICES
    BY <1>6, <2>1, ShortArithmetic, AgentAssumption DEF ApplyToNew, Slot
  <2> QED
    BY <1>6, <2>3, <2>6, <2>7 DEF ApplyToNew, ApplyNext, agent
<1>7. CASE ApplyForkFails
  BY <1>7 DEF ApplyForkFails, ApplyNext, agent, props
<1>8. CASE ApplyDone
  BY <1>8, ConstantTypes, AgentAssumption DEF ApplyDone, Return, props
<1>9. CASE DeleteMismatch
  BY <1>9, AgentAssumption DEF DeleteMismatch, Searching, agent, props
<1>10. CASE DeleteMatch
  BY <1>10 DEF DeleteMatch, Searching, agent, props
<1>11. CASE DeleteFreed
  <2>1. i \in FlowIndex
    BY <1>11, AgentAssumption DEF DeleteFreed, Searching, FlowIndex
  <2>2. \A ofm \in FlowMods : ofm.actions \in Seq(Action)
    BY ControllerType DEF FlowMod
  <2>3. \A ofm \in FlowMods :
          [inserted_flows EXCEPT ![i].actions = ofm.actions]
            \in [FlowIndex -> InsertedFlow]
    BY <2>1, <2>2 DEF InsertedFlow
  <2>4. inserted_flows' \in [FlowIndex -> InsertedFlow]
    BY <1>11, <2>3 DEF DeleteFreed
  <2> QED
    BY <1>11, <2>4 DEF DeleteFreed, Searching, props
<1>12. CASE DeleteDone
  BY <1>12, ConstantTypes, AgentAssumption DEF DeleteDone, Return, agent, props
<1>13. CASE UnapplySkip
  BY <1>13 DEF UnapplySkip, UnapplyNext, agent, props
<1>14. CASE UnapplyShared
  <2>1. PICK s \in Slot : created_services' = [created_services EXCEPT
                            ![s].flow_counter = Decrement(@)]
    BY <1>14 DEF UnapplyShared
  <2>2. Decrement(created_services[s].flow_counter) \in Short
    BY ShortArithmetic DEF Service
  <2>3. created_services' \in [Slot -> Service]
    BY <2>1, <2>2 DEF Service
  <2> QED
    BY <1>14, <2>3 DEF UnapplyShared, UnapplyNext, agent
<1>15. CASE UnapplyLast
  <2>1. PICK s \in Slot :
          /\ wan' \in zyxel_unconfigure_service(WanAddress(Candidate.match),
                                            created_services[s].vlan_tag)
                        \cup (IF MayFail THEN {wan} ELSE {})
          /\ created_services' = [created_services EXCEPT ![s] = NoService]
    BY <1>15 DEF UnapplyLast, ClearService
  <2>2. created_services[s].vlan_tag \in Short
    BY DEF Service
  <2>3. wan' \in [WAN_INTERFACES -> Wan]
    <3>1. zyxel_unconfigure_service(WanAddress(Candidate.match),
                                    created_services[s].vlan_tag)
            \subseteq [WAN_INTERFACES -> Wan]
      <4>1. del_wan_interface(wan, created_services[s].vlan_tag, MayFail)
              \subseteq [WAN_INTERFACES -> Wan]
        BY <2>2, ClientType
      <4> QED
        BY <4>1 DEF zyxel_unconfigure_service
    <3> QED
      BY <2>1, <3>1
  <2>4. created_services' \in [Slot -> Service]
    BY <2>1, ConstantTypes
  <2> QED
    BY <1>15, <2>3, <2>4, ShortArithmetic
       DEF UnapplyLast, UnapplyNext, OneServiceLess, agent
<1>16. CASE UnapplyDone
  <2>1. [match |-> ZeroMatch, actions |-> <<>>, freed |-> TRUE] \in InsertedFlow
    BY ConstantTypes DEF InsertedFlow
  <2>2. inserted_flows' \in [FlowIndex -> InsertedFlow]
    BY <1>16, <2>1 DEF UnapplyDone
  <2>3. pc' \in {"delete", "lost"}
    BY <1>16 DEF UnapplyDone
  <2> QED
    BY <1>16, <2>2, <2>3, AgentAssumption DEF UnapplyDone, props
<1>17. CASE Restart
  BY <1>17, ConstantTypes, AgentAssumption DEF Restart, Return, Short
<1> QED
  BY <1>0, <1>1, <1>2, <1>3, <1>4, <1>5, <1>6, <1>7, <1>8, <1>9, <1>10, <1>11,
     <1>12, <1>13, <1>14, <1>15, <1>16, <1>17 DEF Next, Handler

(* handleFlowMod and the device functions keep every counter, index and     *)
(* table entry within its type, for every sequence of flow_mods: in         *)
(* particular no slot beyond MAX_SERVICES and no entry beyond               *)
(* MAX_NUMBER_OF_FLOWS is ever written.                                     *)
THEOREM TypeCorrect == Spec => []TypeOK
  BY TypeInit, TypeStep, PTL DEF Spec
-----------------------------------------------------------------------------
(* The slot table.  What a step does to it is one of four things.           *)
TableUnchanged == UNCHANGED <<created_services, service_allocator_index>>

TableCleared ==
  created_services' = EmptyTable /\ service_allocator_index' = 0

(* A live slot keeps its service and counts one flow more or less.          *)
SlotCounts(s) ==
  /\ Active(s)
  /\ \E n \in Short : created_services' =
       [created_services EXCEPT ![s].flow_counter = n]
  /\ UNCHANGED service_allocator_index

SlotReleased(s) ==
  /\ created_services' = [created_services EXCEPT ![s] = NoService]
  /\ UNCHANGED service_allocator_index

(* The next slot is filled with a service that no allocated slot holds.     *)
SlotFilled ==
  /\ service_allocator_index \in Slot
  /\ service_allocator_index' = service_allocator_index + 1
  /\ \E svc \in Service :
       /\ svc.in_port # 0
       /\ \A s \in Slot :
            /\ s < service_allocator_index
            /\ svc.vlan_tag > 0
            /\ created_services[s].wan_address = svc.wan_address
            => created_services[s].vlan_tag # svc.vlan_tag
       /\ created_services' =
            [created_services EXCEPT ![service_allocator_index] = svc]

TableStep ==
  \/ TableUnchanged
  \/ TableCleared
  \/ \E s \in Slot : SlotCounts(s) \/ SlotReleased(s)
  \/ SlotFilled

(* Every step of the agent is one of the table steps.                       *)
LEMMA StepIsTableStep ==
  TypeOK /\ SlotsTrackAllocation /\ [Next]_vars => TableStep
<1> SUFFICES ASSUME TypeOK, SlotsTrackAllocation, [Next]_vars PROVE TableStep
  OBVIOUS
<1>1. CASE UNCHANGED vars
  BY <1>1 DEF vars, props, TableStep, TableUnchanged
<1>2. CASE FlowModAdd \/ FlowModDelete \/ FlowModIgnored
  BY <1>2 DEF FlowModAdd, FlowModDelete, FlowModIgnored, vars, props,
     TableStep, TableUnchanged
<1>3. CASE ApplySkip \/ ApplyForkFails \/ ApplyDone
  BY <1>3 DEF ApplySkip, ApplyForkFails, ApplyDone, props, TableStep,
     TableUnchanged
<1>4. CASE \/ DeleteMismatch \/ DeleteMatch \/ DeleteFreed \/ DeleteDone
          \/ UnapplySkip \/ UnapplyDone
  BY <1>4 DEF DeleteMismatch, DeleteMatch, DeleteFreed, DeleteDone,
     UnapplySkip, UnapplyDone, props, TableStep, TableUnchanged
<1>5. CASE ApplyToExisting
  <2>1. PICK s \in ExistingSlots :
          created_services' = [created_services EXCEPT
            ![s].flow_counter = Increment(@)]
    BY <1>5 DEF ApplyToExisting
  <2>2. /\ s \in Slot
        /\ created_services[s].vlan_tag = VlanTag(Applying, auxInd)
    BY DEF ExistingSlots
  <2>3. created_services[s].vlan_tag # 0
    BY <1>5, <2>2 DEF ApplyToExisting, ConfSkips
  <2>4. Active(s)
    BY <2>2, <2>3 DEF SlotsTrackAllocation, NoService
  <2>5. Increment(created_services[s].flow_counter) \in Short
    BY <2>2, ShortArithmetic DEF TypeOK, Service
  <2>6. SlotCounts(s)
    BY <1>5, <2>1, <2>4, <2>5 DEF ApplyToExisting, SlotCounts
  <2> QED
    BY <2>2, <2>6 DEF TableStep
<1>6. CASE ApplyToNew
  <2> DEFINE tag == VlanTag(Applying, auxInd)
             svc == [in_port |-> Applying.match.in_port,
                     wan_address |-> WanAddress(Applying.match),
                     vlan_tag |-> ToShort(tag),
                     flow_counter |-> Increment(
                       created_services[service_allocator_index].flow_counter)]
  <2>1. /\ Applying \in InsertedFlow
        /\ service_allocator_index \in Slot
    BY <1>6, AgentAssumption DEF TypeOK, ApplyToNew, ConfCalled, InApply,
       Applying, FlowIndex, ConfSkips, Slot
  <2>2. tag \in UShort
    BY <2>1, VlanTagType DEF TypeOK
  <2>3. /\ WanAddress(Applying.match) \in Nat
        /\ Applying.match.in_port \in UShort
    BY <2>1, WanAddressType DEF InsertedFlow, Match
  <2>4. created_services[service_allocator_index].flow_counter \in Short
    BY <2>1 DEF TypeOK, Service
  <2>5. svc \in Service
    BY <2>2, <2>3, <2>4, ShortArithmetic DEF Service
  <2>6. svc.in_port # 0
    BY <1>6 DEF ApplyToNew, ConfSkips
  <2>7. ASSUME NEW s \in Slot, s < service_allocator_index, svc.vlan_tag > 0,
               created_services[s].wan_address = svc.wan_address
        PROVE  created_services[s].vlan_tag # svc.vlan_tag
    <3>1. svc.vlan_tag = tag
      BY <2>2, <2>7, ShortArithmetic
    <3>2. s \notin ExistingSlots
      BY <1>6 DEF ApplyToNew
    <3> QED
      BY <2>7, <3>1, <3>2 DEF ExistingSlots
  <2>8. /\ created_services' =
             [created_services EXCEPT ![service_allocator_index] = svc]
        /\ service_allocator_index' = service_allocator_index + 1
    BY <1>6 DEF ApplyToNew, NewSlot
  <2> HIDE DEF svc
  <2> QED
    BY <2>1, <2>5, <2>6, <2>7, <2>8 DEF TableStep, SlotFilled
<1>7. CASE UnapplyShared
  <2>1. PICK s \in Slot :
          /\ created_services[s].flow_counter > 1
          /\ created_services' = [created_services EXCEPT
               ![s].flow_counter = Decrement(@)]
    BY <1>7 DEF UnapplyShared, IsShared
  <2>2. Active(s)
    BY <2>1 DEF SlotsTrackAllocation, NoService
  <2>3. Decrement(created_services[s].flow_counter) \in Short
    BY ShortArithmetic DEF TypeOK, Service
  <2> QED
    BY <1>7, <2>1, <2>2, <2>3 DEF UnapplyShared, TableStep, SlotCounts
<1>8. CASE UnapplyLast
  BY <1>8 DEF UnapplyLast, ClearService, TableStep, SlotReleased
<1>9. CASE Restart
  BY <1>9 DEF Restart, TableStep, TableCleared
<1> QED
  BY <1>1, <1>2, <1>3, <1>4, <1>5, <1>6, <1>7, <1>8, <1>9 DEF Next, Handler

(* A table step keeps the two invariants of the table.                      *)
LEMMA TableStepSafe ==
  ASSUME TypeOK, SlotsTrackAllocation, UniqueServices, TableStep
  PROVE  SlotsTrackAllocation' /\ UniqueServices'
<1> USE DEF Active
<1>0. /\ created_services \in [Slot -> Service]
      /\ service_allocator_index \in Nat
  BY AgentAssumption DEF TypeOK
<1>1. CASE TableUnchanged
  BY <1>1 DEF TableUnchanged, SlotsTrackAllocation, UniqueServices
<1>2. CASE TableCleared
  BY <1>2 DEF TableCleared, EmptyTable, NoService, SlotsTrackAllocation,
     UniqueServices
<1>3. ASSUME NEW s \in Slot, SlotCounts(s)
      PROVE  SlotsTrackAllocation' /\ UniqueServices'
  <2>1. /\ \A t \in Slot :
             /\ created_services'[t].in_port = created_services[t].in_port
             /\ created_services'[t].vlan_tag = created_services[t].vlan_tag
             /\ created_services'[t].wan_address =
                  created_services[t].wan_address
        /\ \A t \in Slot : t # s => created_services'[t] = created_services[t]
    BY <1>0, <1>3 DEF SlotCounts, Service
  <2>2. SlotsTrackAllocation'
    BY <1>3, <2>1 DEF SlotCounts, SlotsTrackAllocation
  <2>3. UniqueServices'
    BY <2>1 DEF UniqueServices
  <2> QED
    BY <2>2, <2>3
<1>4. ASSUME NEW s \in Slot, SlotReleased(s)
      PROVE  SlotsTrackAllocation' /\ UniqueServices'
  <2>1. /\ created_services'[s] = NoService
        /\ \A t \in Slot : t # s => created_services'[t] = created_services[t]
        /\ service_allocator_index' = service_allocator_index
    BY <1>0, <1>4 DEF SlotReleased
  <2> QED
    BY <2>1 DEF SlotsTrackAllocation, UniqueServices, NoService
<1>5. CASE SlotFilled
  <2>1. PICK svc \in Service :
          /\ svc.in_port # 0
          /\ \A s \in Slot :
               /\ s < service_allocator_index
               /\ svc.vlan_tag > 0
               /\ created_services[s].wan_address = svc.wan_address
               => created_services[s].vlan_tag # svc.vlan_tag
          /\ created_services' =
               [created_services EXCEPT ![service_allocator_index] = svc]
    BY <1>5 DEF SlotFilled
  <2>2. /\ service_allocator_index \in Slot
        /\ service_allocator_index' = service_allocator_index + 1
    BY <1>5 DEF SlotFilled
  <2>3. /\ created_services'[service_allocator_index] = svc
        /\ \A t \in Slot : t # service_allocator_index =>
             created_services'[t] = created_services[t]
    BY <1>0, <2>1, <2>2
  <2>4. \A t \in Slot : t \in Int
    BY AgentAssumption DEF Slot
  <2>5. SlotsTrackAllocation'
    BY <1>0, <2>1, <2>2, <2>3, <2>4 DEF SlotsTrackAllocation
  <2>6. UniqueServices'
    BY <2>1, <2>2, <2>3, <2>4 DEF UniqueServices, SlotsTrackAllocation
  <2> QED
    BY <2>5, <2>6
<1> QED
  BY <1>1, <1>2, <1>3, <1>4, <1>5 DEF TableStep

(* The inductive invariant of the service table.                            *)
TableInv == TypeOK /\ SlotsTrackAllocation /\ UniqueServices

(* A new process starts with an empty slot table.                           *)
LEMMA TableInvInit == Init => TableInv
<1>1. Init => created_services = EmptyTable
  BY DEF Init
<1>2. created_services = EmptyTable => SlotsTrackAllocation /\ UniqueServices
  BY DEF EmptyTable, NoService, Active, SlotsTrackAllocation, UniqueServices
<1> QED
  BY <1>1, <1>2, TypeInit DEF TableInv

(* Every step of the agent keeps the invariant of the slot table.           *)
LEMMA TableInvStep == TableInv /\ [Next]_vars => TableInv'
  BY TypeStep, StepIsTableStep, TableStepSafe DEF TableInv

(* The inductive invariant of the slot table, over any restarts.            *)
THEOREM TableInvariant == Spec => []TableInv
  BY TableInvInit, TableInvStep, PTL DEF Spec

(* The service table and its allocator agree in every state: flows are only *)
(* ever counted on live services.                                           *)
THEOREM AllocationSafe == Spec => []SlotsTrackAllocation
  BY TableInvariant, PTL DEF TableInv

(* output_conf_zyxel never creates a service that exists.                   *)
THEOREM ServicesUnique == Spec => []UniqueServices
  BY TableInvariant, PTL DEF TableInv

(* Between two starts of the process a slot that was given up stays empty.  *)
THEOREM SlotsNotReused == Spec => GivenUpSlotsStayFree
<1> DEFINE Kept == service_allocator_index' >= service_allocator_index =>
                     \A s \in Slot :
                       s < service_allocator_index /\ ~Active(s) => ~Active(s)'
<1>1. ASSUME TableInv, TableStep
      PROVE  Kept
  <2> USE DEF Active
  <2>0. /\ created_services \in [Slot -> Service]
        /\ service_allocator_index \in Nat
        /\ \A t \in Slot : t \in Nat
    BY <1>1, AgentAssumption DEF TableInv, TypeOK, Slot
  <2>1. CASE TableUnchanged
    BY <2>1 DEF TableUnchanged
  <2>2. CASE TableCleared
    BY <2>0, <2>2 DEF TableCleared
  <2>3. ASSUME NEW s \in Slot, SlotCounts(s)
        PROVE  Kept
    BY <2>0, <2>3 DEF SlotCounts, Service
  <2>4. ASSUME NEW s \in Slot, SlotReleased(s)
        PROVE  Kept
    BY <2>0, <2>4 DEF SlotReleased, NoService
  <2>5. CASE SlotFilled
    BY <2>0, <2>5 DEF SlotFilled
  <2> QED
    BY <1>1, <2>1, <2>2, <2>3, <2>4, <2>5 DEF TableStep
<1>2. TableInv /\ [Next]_vars => [Kept]_vars
  BY <1>1, StepIsTableStep DEF TableInv
<1> QED
  BY <1>2, TableInvariant, PTL DEF Spec, GivenUpSlotsStayFree

-----------------------------------------------------------------------------
(* The device.  ServiceHasWan is not inductive: a DELETE names a WAN by its *)
(* VLAN, and a new service takes a row that no VLAN's last row is in, so    *)
(* the invariant has to say whose VLAN each row carries, which flows the    *)
(* services come from, and which flow the handler is working on.            *)

(* An entry is clear, or holds a flow of the controller.                    *)
Cleared(f) ==
  /\ inserted_flows[f].match = ZeroMatch /\ inserted_flows[f].actions = <<>>

Holds(f, ofm) ==
  /\ inserted_flows[f].match = ofm.match
  /\ inserted_flows[f].actions = ofm.actions
  /\ ~inserted_flows[f].freed

FlowsAreSent ==
  /\ \A f \in FlowIndex : Cleared(f) \/ \E ofm \in FlowMods : Holds(f, ofm)
  /\ pc = "apply" => \E ofm \in FlowMods : Holds(flow_counter, ofm)
  /\ pc \in {"delete", "unapply"} => ofm_match \in Deletes
  /\ pc = "unapply" => \E ofm \in FlowMods : Holds(i, ofm)

ServicesAreSent ==
  \A s \in Slot : Active(s) =>
    \E ofm \in FlowMods :
      /\ created_services[s].wan_address = WanAddress(ofm.match)
      /\ created_services[s].vlan_tag \in Vlans(ofm)

WansAreKnown ==
  \A w \in WAN_INTERFACES : wan[w].used =>
    /\ wan[w].vlan \in DeviceVlans(controller)
    /\ \A ofm \in FlowMods :
         wan[w].vlan \in Vlans(ofm) => wan[w].addr = WanAddress(ofm.match)

DeviceInv == FlowsAreSent /\ ServicesAreSent /\ WansAreKnown /\ ServiceHasWan

-----------------------------------------------------------------------------
(* What a run of the client does to the rows.                               *)
LEMMA LeastNatural ==
  ASSUME NEW S \in SUBSET Nat, S # {}
  PROVE  \E m \in S : \A n \in S : m <= n
<1>1. IsWellFoundedOn(OpToRel(<, Nat), Nat)
  BY NatLessThanWellFounded
<1>2. PICK m \in S : \A n \in S : ~(<<n, m>> \in OpToRel(<, Nat))
  BY <1>1, WFMin
<1>3. \A x, y \in Nat : <<y, x>> \in OpToRel(<, Nat) <=> y < x
  BY DEF OpToRel
<1>4. \A n \in S : ~(n < m)
  BY <1>2, <1>3
<1> QED BY <1>4

(* The rows of a VLAN have a last one: the set of the rows from some row on *)
(* that no other such set is part of.                                       *)
LEMMA LastRow ==
  ASSUME NEW S \in SUBSET WAN_INTERFACES, S # {}
  PROVE  \E w \in S : IsLast(w, S)
<1> DEFINE From(x) == {y \in S : x <= y}
           C == {From(x) : x \in S}
<1>1. IsFiniteSet(S) /\ S \subseteq Nat
  BY ClientAssumption, FS_Subset
<1>2. IsWellFoundedOn(StrictSubsetOrdering(S), FiniteSubsetsOf(S))
  BY FS_StrictSubsetOrderingWellFounded
<1>3. FiniteSubsetsOf(S) = SUBSET S
  BY <1>1, FS_FiniteSubsetsOfFinite
<1>4. C \subseteq SUBSET S /\ C # {}
  OBVIOUS
<1>5. PICK T \in C : \A U \in C : ~(<<U, T>> \in StrictSubsetOrdering(S))
  <2> HIDE DEF C
  <2> QED BY <1>2, <1>3, <1>4, WFMin
<1>6. PICK w \in S : T = From(w)
  OBVIOUS
<1>7. ASSUME NEW y \in S, ~(y <= w)
      PROVE  FALSE
  <2>1. y \in Nat /\ w \in Nat /\ w < y
    BY <1>1, <1>7
  <2>2. From(y) \subseteq From(w) /\ w \in From(w) /\ w \notin From(y)
    <3>1. \A z \in S : z \in Nat
      BY <1>1
    <3>2. w \in From(w) /\ y \notin {w}
      BY <2>1, <3>1
    <3>3. w \notin From(y)
      BY <2>1, <3>1
    <3>4. ASSUME NEW z \in From(y) PROVE z \in From(w)
      BY <2>1, <3>1, <3>4
    <3> QED BY <3>2, <3>3, <3>4
  <2>3. <<From(y), T>> \in StrictSubsetOrdering(S)
    BY <2>2, <1>6, <1>4 DEF StrictSubsetOrdering
  <2> QED
    BY <2>3, <1>5
<1> QED
  BY <1>7 DEF IsLast

(* The dictionary gives every VLAN in use its last row.                     *)
LEMMA Dictionary ==
  ASSUME NEW tab \in [WAN_INTERFACES -> Wan], NEW w \in WAN_INTERFACES,
         tab[w].used
  PROVE  LET l == get_all_WAN(tab)[tab[w].vlan]
         IN  /\ tab[w].vlan \in DOMAIN get_all_WAN(tab)
             /\ l \in WAN_INTERFACES /\ tab[l].used
             /\ tab[l].vlan = tab[w].vlan
             /\ w <= l
<1> DEFINE v == tab[w].vlan
           l == CHOOSE x \in WAN_INTERFACES : IsLast(x, WansOf(tab, v))
<1>1. w \in WansOf(tab, v) /\ WansOf(tab, v) \subseteq WAN_INTERFACES
  BY DEF WansOf
<1>2. \E x \in WAN_INTERFACES : IsLast(x, WansOf(tab, v))
  BY <1>1, LastRow DEF IsLast
<1>3. l \in WAN_INTERFACES /\ IsLast(l, WansOf(tab, v))
  BY <1>2
<1>4. v \in DOMAIN get_all_WAN(tab) /\ get_all_WAN(tab)[v] = l
  BY DEF get_all_WAN
<1> QED
  BY <1>1, <1>3, <1>4 DEF IsLast, WansOf

(* The row that a run of setwan writes.                                     *)
Row(a, v) == [used |-> TRUE, addr |-> a, vlan |-> v]

(* setwan takes a row that is not the last one of any VLAN, if there is any.*)
LEMMA SetTakesFreeRow ==
  ASSUME NEW tab \in [WAN_INTERFACES -> Wan], NEW a, NEW v \in Nat,
         NEW fails, ~fails, NEW new \in set_wan_interface(tab, a, v, fails),
         FreeIds(get_all_WAN(tab)) # {}
  PROVE  \E x \in FreeIds(get_all_WAN(tab)) :
           new = [tab EXCEPT ![x] = Row(a, v)]
<1> DEFINE F == FreeIds(get_all_WAN(tab))
           x == assign_wan(get_all_WAN(tab))
<1>1. F \in SUBSET Nat /\ F # {}
  <2>1. F \subseteq WAN_INTERFACES
    BY DEF FreeIds
  <2>2. F # {}
    OBVIOUS
  <2> HIDE DEF F
  <2> QED BY <2>1, <2>2, ClientAssumption
<1>2. x \in F
  BY <1>1, LeastNatural DEF assign_wan
<1>3. Shown(v) = v
  BY DEF Shown
<1> QED
  BY <1>2, <1>3 DEF set_wan_interface, Row

(* Without one, every row is in use, for a VLAN of its own.                 *)
LEMMA NoFreeRow ==
  ASSUME NEW tab \in [WAN_INTERFACES -> Wan],
         FreeIds(get_all_WAN(tab)) = {}
  PROVE  /\ \A w \in WAN_INTERFACES : tab[w].used
         /\ \A w, x \in WAN_INTERFACES : tab[w].vlan = tab[x].vlan => w = x
<1> DEFINE services == get_all_WAN(tab)
<1>1. DOMAIN services =
        {tab[w].vlan : w \in {u \in WAN_INTERFACES : tab[u].used}}
  BY DEF get_all_WAN
<1>2. ASSUME NEW w \in WAN_INTERFACES
      PROVE  tab[w].used /\ services[tab[w].vlan] = w
  <2>1. PICK v \in DOMAIN services : services[v] = w
    BY DEF FreeIds
  <2>2. PICK u \in WAN_INTERFACES : tab[u].used /\ tab[u].vlan = v
    BY <1>1, <2>1
  <2>3. tab[w].used /\ tab[w].vlan = v
    BY <2>1, <2>2, Dictionary
  <2> QED
    BY <2>1, <2>3
<1> QED
  BY <1>2

(* delwan clears a row of the VLAN, if there is any.                        *)
LEMMA DelTakesRow ==
  ASSUME NEW tab \in [WAN_INTERFACES -> Wan], NEW v,
         NEW fails, ~fails, NEW new \in del_wan_interface(tab, v, fails)
  PROVE  \/ new = tab /\ \A w \in WAN_INTERFACES : tab[w].used => tab[w].vlan # v
         \/ \E x \in WAN_INTERFACES :
              /\ tab[x].used /\ tab[x].vlan = v
              /\ new = [tab EXCEPT ![x] = Unused]
<1> DEFINE services == get_all_WAN(tab)
<1>1. DOMAIN services =
        {tab[w].vlan : w \in {u \in WAN_INTERFACES : tab[u].used}}
  BY DEF get_all_WAN
<1>2. CASE v \notin DOMAIN services
  BY <1>1, <1>2 DEF del_wan_interface
<1>3. CASE v \in DOMAIN services
  <2>1. PICK u \in WAN_INTERFACES : tab[u].used /\ tab[u].vlan = v
    BY <1>1, <1>3
  <2>2. /\ services[v] \in WAN_INTERFACES /\ tab[services[v]].used
        /\ tab[services[v]].vlan = v
    BY <2>1, Dictionary
  <2>3. new = [tab EXCEPT ![services[v]] = Unused]
    BY <1>3 DEF del_wan_interface
  <2> QED
    BY <2>2, <2>3
<1> QED
  BY <1>2, <1>3

-----------------------------------------------------------------------------
(* What is assumed of a paired controller and its device.                   *)
LEMMA PairedFacts ==
  ASSUME TypeOK, Paired
  PROVE  /\ ~MayFail /\ FlowMods \subseteq FlowMod
         /\ HaveVlans(FlowMods) /\ VlansPaired(FlowMods)
         /\ NameFlows(Deletes, FlowMods)
<1>1. FlowMods \subseteq FlowMod
  BY ControllerType DEF TypeOK
<1>2. controller \in PairedControllers
  BY DEF Paired
<1> QED
  BY <1>1, <1>2 DEF PairedControllers, FlowMods, Deletes, MayFail

(* A DELETE of a paired controller does not find a cleared entry.           *)
LEMMA DeleteFindsFlow ==
  ASSUME TypeOK, Paired, FlowsAreSent, ofm_match \in Deletes,
         NEW f \in FlowIndex,
         my_flow_fields_match(inserted_flows[f].match, ofm_match)
  PROVE  \E ofm \in FlowMods : Holds(f, ofm)
<1>1. PICK ofm \in FlowMods : ofm_match = ofm.match
  BY PairedFacts DEF NameFlows
<1>2. WanAddress(ofm_match) # 0 /\ ofm_match \in Match
  BY <1>1, PairedFacts DEF FlowMod, HaveVlans
<1>3. ~Cleared(f)
  <2>1. SUFFICES ASSUME inserted_flows[f].match = ZeroMatch PROVE FALSE
    BY DEF Cleared
  <2>2. [ZeroMatch EXCEPT !.wildcards = {}] = [ofm_match EXCEPT !.wildcards = {}]
    BY <2>1 DEF my_flow_fields_match
  <2>3. /\ [ZeroMatch EXCEPT !.wildcards = {}].nw_src = 0
        /\ [ZeroMatch EXCEPT !.wildcards = {}].nw_dst = 0
    BY DEF ZeroMatch
  <2>4. /\ [ofm_match EXCEPT !.wildcards = {}].nw_src = ofm_match.nw_src
        /\ [ofm_match EXCEPT !.wildcards = {}].nw_dst = ofm_match.nw_dst
    BY <1>2 DEF Match
  <2> QED
    BY <1>2, <2>2, <2>3, <2>4 DEF WanAddress
<1> QED
  BY <1>3 DEF FlowsAreSent

(* The handler works on flows of the controller only.                       *)
LEMMA FlowsStep ==
  ASSUME TypeOK, Paired, FlowsAreSent, Next
  PROVE  FlowsAreSent'
<1> USE DEF TypeOK
<1>0. FlowMods' = FlowMods /\ Deletes' = Deletes
  BY DEF Next, FlowMods, Deletes
<1>a. /\ inserted_flows \in [FlowIndex -> InsertedFlow]
      /\ \A n \in Nat : n < flow_counter => n \in FlowIndex
      /\ \A f \in FlowIndex : Cleared(f) \/ \E ofm \in FlowMods : Holds(f, ofm)
  BY AgentAssumption DEF FlowIndex, FlowsAreSent
<1>b. /\ pc = "apply" => \E ofm \in FlowMods : Holds(flow_counter, ofm)
      /\ pc \in {"delete", "unapply"} => ofm_match \in Deletes
      /\ pc = "unapply" => \E ofm \in FlowMods : Holds(i, ofm)
  BY DEF FlowsAreSent
<1>1. CASE FlowModAdd
  <2>1. PICK ofm \in FlowMods :
          inserted_flows' = [inserted_flows EXCEPT ![flow_counter] =
            [match |-> ofm.match, actions |-> ofm.actions, freed |-> FALSE]]
    BY <1>1 DEF FlowModAdd
  <2>2. /\ flow_counter \in FlowIndex
        /\ flow_counter' = flow_counter /\ pc' = "apply"
    BY <1>1, AgentAssumption DEF FlowModAdd, TableHasRoom, FlowIndex
  <2>3. /\ inserted_flows'[flow_counter] =
             [match |-> ofm.match, actions |-> ofm.actions, freed |-> FALSE]
        /\ \A f \in FlowIndex \ {flow_counter} :
             inserted_flows'[f] = inserted_flows[f]
    BY <1>a, <2>1, <2>2
  <2>4. Holds(flow_counter, ofm)'
    BY <2>2, <2>3 DEF Holds
  <2>5. \A f \in FlowIndex :
          Cleared(f)' \/ \E o \in FlowMods : Holds(f, o)'
    BY <1>a, <2>3, <2>4 DEF Holds, Cleared
  <2> QED
    BY <1>0, <2>2, <2>4, <2>5 DEF FlowsAreSent
<1>2. CASE FlowModDelete
  <2>1. /\ ofm_match' \in Deletes /\ pc' = "delete"
        /\ inserted_flows' = inserted_flows
    BY <1>2 DEF FlowModDelete, agent
  <2> QED
    BY <1>0, <1>a, <2>1 DEF FlowsAreSent, Cleared, Holds
<1>3. CASE FlowModIgnored
  BY <1>0, <1>3, <1>a, <1>b DEF FlowModIgnored, vars, agent, FlowsAreSent, Cleared, Holds
<1>4. CASE \/ ApplySkip \/ ApplyToExisting \/ ApplyToNew \/ ApplyForkFails
           \/ UnapplySkip \/ UnapplyShared \/ UnapplyLast
  <2>1. UNCHANGED <<pc, inserted_flows, flow_counter, i, ofm_match>>
    BY <1>4 DEF ApplySkip, ApplyToExisting, ApplyToNew, ApplyForkFails,
       UnapplySkip, UnapplyShared, UnapplyLast, ApplyNext, UnapplyNext, agent
  <2> QED
    BY <1>0, <1>a, <1>b, <2>1 DEF FlowsAreSent, Cleared, Holds
<1>5. CASE ApplyDone \/ DeleteDone
  <2>1. pc' = "idle" /\ inserted_flows' = inserted_flows
    BY <1>5 DEF ApplyDone, DeleteDone, Return, agent
  <2> QED
    BY <1>0, <1>a, <2>1 DEF FlowsAreSent, Cleared, Holds
<1>6. CASE DeleteMismatch
  <2>1. /\ pc' = "delete" /\ inserted_flows' = inserted_flows
        /\ ofm_match' = ofm_match /\ pc = "delete"
    BY <1>6 DEF DeleteMismatch, Searching, agent
  <2> QED
    BY <1>0, <1>a, <1>b, <2>1 DEF FlowsAreSent, Cleared, Holds
<1>7. CASE DeleteMatch
  <2>1. /\ pc' = "unapply" /\ pc = "delete" /\ i < flow_counter
        /\ UNCHANGED <<inserted_flows, ofm_match, i>>
        /\ my_flow_fields_match(inserted_flows[i].match, ofm_match)
    BY <1>7 DEF DeleteMatch, Searching, Candidate, agent
  <2>2. i \in FlowIndex /\ ofm_match \in Deletes
    BY <1>a, <1>b, <2>1, AgentAssumption
  <2>3. \E ofm \in FlowMods : Holds(i, ofm)
    BY <2>1, <2>2, DeleteFindsFlow
  <2> QED
    BY <1>0, <1>a, <2>1, <2>2, <2>3 DEF FlowsAreSent, Cleared, Holds
<1>8. CASE DeleteFreed
  <2>1. /\ pc = "delete" /\ i < flow_counter /\ inserted_flows[i].freed
        /\ my_flow_fields_match(inserted_flows[i].match, ofm_match)
    BY <1>8 DEF DeleteFreed, Searching, Candidate
  <2>2. i \in FlowIndex /\ ofm_match \in Deletes
    BY <1>a, <1>b, <2>1, AgentAssumption
  <2>3. \E ofm \in FlowMods : Holds(i, ofm)
    BY <2>1, <2>2, DeleteFindsFlow
  <2> QED
    BY <2>1, <2>3 DEF Holds
<1>9. CASE UnapplyDone
  <2>1. /\ pc = "unapply" /\ i < flow_counter
        /\ inserted_flows' = [inserted_flows EXCEPT
             ![i] = [match |-> ZeroMatch, actions |-> <<>>, freed |-> TRUE]]
        /\ ofm_match' = ofm_match
    BY <1>9 DEF UnapplyDone
  <2>2. i \in FlowIndex /\ ofm_match \in Deletes
    BY <1>a, <1>b, <2>1, AgentAssumption
  <2>3. pc' \in {"delete", "lost"}
    BY <1>9 DEF UnapplyDone
  <2>4. /\ inserted_flows'[i] =
             [match |-> ZeroMatch, actions |-> <<>>, freed |-> TRUE]
        /\ \A f \in FlowIndex \ {i} : inserted_flows'[f] = inserted_flows[f]
    BY <1>a, <2>1, <2>2
  <2>5. \A f \in FlowIndex :
          Cleared(f)' \/ \E o \in FlowMods : Holds(f, o)'
    BY <1>a, <2>4 DEF Holds, Cleared
  <2> QED
    BY <1>0, <2>1, <2>2, <2>3, <2>5 DEF FlowsAreSent
<1>10. CASE Restart
  <2>1. pc' = "idle" /\ inserted_flows' = EmptyFlows
    BY <1>10 DEF Restart, Return
  <2> QED
    BY <1>0, <2>1 DEF FlowsAreSent, Cleared, EmptyFlows
<1> QED
  BY <1>1, <1>2, <1>3, <1>4, <1>5, <1>6, <1>7, <1>8, <1>9, <1>10
  DEF Next, Handler

-----------------------------------------------------------------------------
(* Every slot that is live after the step was live before, for the same     *)
(* address and VLAN.                                                        *)
NoServiceAdded ==
  \A s \in Slot : Active(s)' =>
    /\ Active(s)
    /\ created_services'[s].wan_address = created_services[s].wan_address
    /\ created_services'[s].vlan_tag = created_services[s].vlan_tag

LEMMA OldServices ==
  ASSUME TypeOK, TableStep,
         service_allocator_index' # service_allocator_index + 1
  PROVE  NoServiceAdded
<1> USE DEF Active
<1>0. created_services \in [Slot -> Service]
  BY DEF TypeOK
<1>1. CASE TableUnchanged
  BY <1>1 DEF TableUnchanged, NoServiceAdded
<1>2. CASE TableCleared
  BY <1>2 DEF TableCleared, EmptyTable, NoService, NoServiceAdded
<1>3. ASSUME NEW s \in Slot, SlotCounts(s)
      PROVE  NoServiceAdded
  BY <1>0, <1>3 DEF SlotCounts, Service, NoServiceAdded
<1>4. ASSUME NEW s \in Slot, SlotReleased(s)
      PROVE  NoServiceAdded
  BY <1>0, <1>4 DEF SlotReleased, NoService, NoServiceAdded
<1>5. ~SlotFilled
  BY DEF SlotFilled
<1> QED
  BY <1>1, <1>2, <1>3, <1>4, <1>5 DEF TableStep

(* A live service that the device was told of.                              *)
OnDeviceNow(s) == Active(s) /\ ReachesDevice(created_services[s].wan_address)

(* A step that adds no service and touches no row that a service has.       *)
LEMMA OldWans ==
  ASSUME TypeOK, Paired, DeviceInv, NoServiceAdded,
         controller' = controller,
         \A w \in WAN_INTERFACES :
           wan'[w].used => wan[w].used /\ wan'[w] = wan[w],
         \A s \in Slot, w \in WAN_INTERFACES :
           /\ OnDeviceNow(s) /\ Active(s)'
           /\ wan[w].used /\ wan[w].vlan = created_services[s].vlan_tag
           => wan'[w] = wan[w]
  PROVE  ServicesAreSent' /\ WansAreKnown' /\ ServiceHasWan'
<1>0. FlowMods' = FlowMods /\ DeviceVlans(controller') = DeviceVlans(controller)
  BY DEF FlowMods
<1>1. ServicesAreSent'
  BY <1>0 DEF NoServiceAdded, DeviceInv, ServicesAreSent
<1>2. WansAreKnown'
  BY <1>0 DEF DeviceInv, WansAreKnown
<1>3. ServiceHasWan'
  <2> SUFFICES ASSUME NEW s \in Slot, Active(s)',
                      ReachesDevice(created_services'[s].wan_address)
               PROVE  \E w \in WAN_INTERFACES :
                        /\ wan'[w].used
                        /\ wan'[w].addr = created_services'[s].wan_address
                        /\ wan'[w].vlan = created_services'[s].vlan_tag
    BY DEF ServiceHasWan, ReachesDevice
  <2>1. /\ OnDeviceNow(s)
        /\ created_services'[s].wan_address = created_services[s].wan_address
        /\ created_services'[s].vlan_tag = created_services[s].vlan_tag
    BY DEF NoServiceAdded, OnDeviceNow
  <2>2. PICK w \in WAN_INTERFACES :
          /\ wan[w].used
          /\ wan[w].addr = created_services[s].wan_address
          /\ wan[w].vlan = created_services[s].vlan_tag
    BY <2>1 DEF DeviceInv, ServiceHasWan, OnDeviceNow
  <2>3. wan'[w] = wan[w]
    BY <2>1, <2>2
  <2> QED
    BY <2>1, <2>2, <2>3
<1> QED
  BY <1>1, <1>2, <1>3

(* Two live services differ in their VLANs.                                 *)
LEMMA ServicesDiffer ==
  ASSUME TypeOK, Paired, ServicesAreSent, UniqueServices,
         NEW s \in Slot, NEW t \in Slot, Active(s), Active(t),
         created_services[s].vlan_tag = created_services[t].vlan_tag
  PROVE  s = t
<1>1. PICK ofm \in FlowMods :
        /\ created_services[s].wan_address = WanAddress(ofm.match)
        /\ created_services[s].vlan_tag \in Vlans(ofm)
  BY DEF ServicesAreSent
<1>2. PICK other \in FlowMods :
        /\ created_services[t].wan_address = WanAddress(other.match)
        /\ created_services[t].vlan_tag \in Vlans(other)
  BY DEF ServicesAreSent
<1>3. WanAddress(ofm.match) = WanAddress(other.match)
  BY <1>1, <1>2, PairedFacts DEF VlansPaired
<1>4. created_services[s].vlan_tag > 0
  <2>1. 0 < created_services[s].vlan_tag
    BY <1>1, PairedFacts DEF HaveVlans
  <2>2. created_services[s].vlan_tag \in Int
    BY DEF TypeOK, Service, Short
  <2> QED
    BY <2>1, <2>2
<1> QED
  BY <1>1, <1>2, <1>3, <1>4 DEF UniqueServices

(* The last flow of a service takes its WAN with it, and no other.          *)
LEMMA UnapplyLastStep ==
  ASSUME TableInv, Paired, DeviceInv, UnapplyLast, NoServiceAdded,
         controller' = controller
  PROVE  ServicesAreSent' /\ WansAreKnown' /\ ServiceHasWan'
<1> USE DEF TableInv
<1>1. PICK s \in Slot :
        /\ Released(s)
        /\ wan' \in zyxel_unconfigure_service(WanAddress(Candidate.match),
                                         created_services[s].vlan_tag)
                      \cup (IF MayFail THEN {wan} ELSE {})
        /\ created_services' = [created_services EXCEPT ![s] = NoService]
  BY DEF UnapplyLast, ClearService
<1>2. pc = "unapply"
  BY DEF UnapplyLast, UnconfCalled, InUnapply
<1>3. PICK ofm \in FlowMods : Holds(i, ofm)
  BY <1>2 DEF DeviceInv, FlowsAreSent
<1>4. created_services[s].wan_address # 0
  <2>1. created_services[s].wan_address = WanAddress(Candidate.match)
    BY <1>1 DEF Released, AddressSlots
  <2>2. Candidate.match = ofm.match
    BY <1>3 DEF Holds, Candidate
  <2> QED
    BY <2>1, <2>2, PairedFacts DEF HaveVlans
<1>5. Active(s)
  BY <1>4 DEF SlotsTrackAllocation, NoService
<1>6. ~Active(s)'
  BY <1>1 DEF TypeOK, NoService, Active
<1> DEFINE v == created_services[s].vlan_tag
<1>7. \/ wan' = wan
      \/ \E x \in WAN_INTERFACES :
           wan[x].used /\ wan[x].vlan = v /\ wan' = [wan EXCEPT ![x] = Unused]
  <2>1. \/ wan' = wan
        \/ wan' \in del_wan_interface(wan, v, MayFail)
    BY <1>1 DEF zyxel_unconfigure_service
  <2>2. wan \in [WAN_INTERFACES -> Wan]
    BY DEF TypeOK
  <2> HIDE DEF v
  <2>3. CASE wan' \in del_wan_interface(wan, v, MayFail)
    <3>1. ~MayFail
      BY PairedFacts
    <3> QED
      BY <2>2, <2>3, <3>1, DelTakesRow
  <2> QED
    BY <2>1, <2>3
<1>8. ASSUME NEW t \in Slot, NEW w \in WAN_INTERFACES,
             OnDeviceNow(t), Active(t)', wan[w].used,
             wan[w].vlan = created_services[t].vlan_tag
      PROVE  wan'[w] = wan[w]
  <2>1. wan[w].vlan # v
    BY <1>5, <1>6, <1>8, ServicesDiffer DEF OnDeviceNow, DeviceInv
  <2> QED
    BY <1>7, <2>1 DEF TypeOK
<1>9. \A w \in WAN_INTERFACES :
        wan'[w].used => wan[w].used /\ wan'[w] = wan[w]
  BY <1>7 DEF TypeOK, Unused
<1> QED
  BY <1>8, <1>9, OldWans

(* If the device has a WAN id for every VLAN, a VLAN finds a free row or is *)
(* there already: with every row in use for a VLAN of its own, two of them  *)
(* would share one.                                                         *)
LEMMA RowForVlan ==
  ASSUME NEW tab \in [WAN_INTERFACES -> Wan], NEW V, IsFiniteSet(V),
         Cardinality(V) <= Cardinality(WAN_INTERFACES),
         \A w \in WAN_INTERFACES : tab[w].used => tab[w].vlan \in V,
         NEW v \in V, FreeIds(get_all_WAN(tab)) = {}
  PROVE  \E w \in WAN_INTERFACES : tab[w].used /\ tab[w].vlan = v
<1> SUFFICES ASSUME \A w \in WAN_INTERFACES : tab[w].vlan # v
             PROVE  FALSE
  BY NoFreeRow
<1> DEFINE f == [w \in WAN_INTERFACES |-> tab[w].vlan]
<1>1. f \in [WAN_INTERFACES -> V \ {v}]
  BY NoFreeRow
<1>2. /\ IsFiniteSet(V \ {v})
      /\ Cardinality(V \ {v}) = Cardinality(V) - 1
  BY FS_RemoveElement
<1>3. Cardinality(V \ {v}) < Cardinality(WAN_INTERFACES)
  BY <1>2, ClientAssumption, FS_CardinalityType
<1>4. PICK x, y \in WAN_INTERFACES : x # y /\ f[x] = f[y]
  <2> DEFINE T == V \ {v}
  <2>1. /\ IsFiniteSet(WAN_INTERFACES) /\ IsFiniteSet(T)
        /\ Cardinality(T) < Cardinality(WAN_INTERFACES)
        /\ f \in [WAN_INTERFACES -> T]
    BY <1>1, <1>2, <1>3, ClientAssumption
  <2> HIDE DEF f, T
  <2>2. \A g \in [WAN_INTERFACES -> T] :
          \E x, y \in WAN_INTERFACES : x # y /\ g[x] = g[y]
    BY <2>1, FS_PigeonHole, Zenon
  <2> QED BY <2>1, <2>2
<1> QED
  BY <1>4, NoFreeRow

(* A VLAN of a paired controller is the same as a short.                    *)
LEMMA SmallTag == \A t \in UShort : 0 < t /\ t <= 32767 => ToShort(t) = t
BY DEF UShort, ToShort

(* A new service is given a row of its own; the rows that other services    *)
(* have are the last ones of their VLANs, or there is another.              *)
LEMMA ApplyToNewStep ==
  ASSUME TableInv, Paired, DeviceFits(controller), DeviceInv, ApplyToNew,
         controller' = controller
  PROVE  ServicesAreSent' /\ WansAreKnown' /\ ServiceHasWan'
<1> USE DEF TableInv
<1> DEFINE a == WanAddress(Applying.match)
           tag == VlanTag(Applying, auxInd)
           n == service_allocator_index
<1>1. /\ pc = "apply" /\ n \in Slot
      /\ auxInd < Len(Applying.actions)
      /\ Supported(Applying.actions[auxInd + 1])
  BY AgentAssumption
  DEF ApplyToNew, ConfCalled, InApply, ConfSkips, Slot, TypeOK
<1>2. PICK ofm \in FlowMods : Holds(flow_counter, ofm)
  BY <1>1 DEF DeviceInv, FlowsAreSent
<1>3. Applying.match = ofm.match /\ Applying.actions = ofm.actions
  BY <1>2 DEF Holds, Applying
<1>4. a = WanAddress(ofm.match) /\ tag = VlanTag(ofm, auxInd)
  BY <1>3 DEF VlanTag
<1>a. tag \in UShort
  <2>1. Applying \in InsertedFlow /\ auxInd \in Nat
    BY <1>1, AgentAssumption DEF Applying, TypeOK, FlowIndex
  <2> QED
    BY <2>1, VlanTagType
<1>b. /\ wan' \in zyxel_configure_service(a, ToShort(tag))
      /\ created_services' = [created_services EXCEPT ![n] =
           [in_port |-> Applying.match.in_port, wan_address |-> a,
            vlan_tag |-> ToShort(tag),
            flow_counter |-> Increment(created_services[n].flow_counter)]]
  BY DEF ApplyToNew, NewSlot
<1> HIDE DEF a, tag, n
<1>5. tag \in Vlans(ofm)
  <2>1. ofm.actions \in Seq(Action) /\ auxInd \in Nat
    BY PairedFacts DEF FlowMod, TypeOK
  <2>2. auxInd + 1 \in 1 .. Len(ofm.actions) /\ (auxInd + 1) - 1 = auxInd
    BY <1>1, <1>3, <2>1
  <2>3. Supported(ofm.actions[auxInd + 1])
    BY <1>1, <1>3
  <2>4. \E k \in {m \in 1 .. Len(ofm.actions) : Supported(ofm.actions[m])} :
          tag = VlanTag(ofm, k - 1)
    BY <1>4, <2>2, <2>3
  <2> QED
    BY <2>4 DEF Vlans
<1>6. 0 < tag /\ tag <= 32767
  BY <1>5, PairedFacts DEF HaveVlans
<1>7. ToShort(tag) = tag
  BY <1>6, <1>a, SmallTag
<1>8. /\ wan' \in zyxel_configure_service(a, tag)
      /\ \E c : created_services' = [created_services EXCEPT ![n] =
           [in_port |-> Applying.match.in_port, wan_address |-> a,
            vlan_tag |-> tag, flow_counter |-> c]]
  BY <1>7, <1>b
<1>9. /\ created_services'[n].wan_address = a
      /\ created_services'[n].vlan_tag = tag
      /\ \A s \in Slot \ {n} : created_services'[s] = created_services[s]
  BY <1>1, <1>8 DEF TypeOK
<1>10. ServicesAreSent'
  BY <1>4, <1>5, <1>9 DEF DeviceInv, ServicesAreSent, Active, FlowMods
<1> DEFINE rows == Row(a, tag)
           free == FreeIds(get_all_WAN(wan))
<1>11. \/ ~ReachesDevice(a) /\ wan' = wan
       \/ ReachesDevice(a) /\ free = {} /\ wan' = wan
       \/ ReachesDevice(a) /\ \E x \in free : wan' = [wan EXCEPT ![x] = rows]
  <2>1. CASE ~ReachesDevice(a)
    BY <1>8, <2>1 DEF zyxel_configure_service
  <2>2. CASE ReachesDevice(a)
    <3>1. ~MayFail
      BY PairedFacts
    <3>2. wan' \in set_wan_interface(wan, a, tag, MayFail)
      BY <1>8, <2>2 DEF zyxel_configure_service
    <3>3. CASE free = {}
      BY <3>2, <3>3, <2>2 DEF set_wan_interface
    <3>4. CASE free # {}
      <4>1. wan \in [WAN_INTERFACES -> Wan]
        BY DEF TypeOK
      <4>2. \E x \in FreeIds(get_all_WAN(wan)) :
              wan' = [wan EXCEPT ![x] = rows]
        <5>1. tag \in Nat
          BY <1>a DEF UShort
        <5> HIDE DEF rows, free
        <5>2. FreeIds(get_all_WAN(wan)) # {}
          BY <3>4 DEF free
        <5>3. \E x \in FreeIds(get_all_WAN(wan)) :
                wan' = [wan EXCEPT ![x] = Row(a, tag)]
          BY <3>1, <3>2, <4>1, <5>1, <5>2, SetTakesFreeRow
        <5> QED
          BY <5>3 DEF rows
      <4> QED
        BY <4>2, <2>2
    <3> QED
      BY <3>3, <3>4
  <2> QED
    BY <2>1, <2>2
<1>12. ReachesDevice(a) => tag \in DeviceVlans(controller)
  BY <1>4, <1>5 DEF DeviceVlans, FlowMods
<1>13. \A other \in FlowMods : tag \in Vlans(other) => a = WanAddress(other.match)
  BY <1>4, <1>5, PairedFacts DEF VlansPaired
<1>14. WansAreKnown'
  <2> SUFFICES ASSUME NEW w \in WAN_INTERFACES, wan'[w].used
               PROVE  /\ wan'[w].vlan \in DeviceVlans(controller)
                      /\ \A other \in FlowMods : wan'[w].vlan \in Vlans(other)
                           => wan'[w].addr = WanAddress(other.match)
    BY DEF WansAreKnown, FlowMods
  <2>1. CASE wan'[w] = wan[w]
    BY <2>1 DEF DeviceInv, WansAreKnown
  <2>2. CASE ReachesDevice(a) /\ wan'[w] = rows
    BY <2>2, <1>12, <1>13 DEF Row
  <2> QED
    BY <1>11, <2>1, <2>2 DEF TypeOK
<1>15. ServiceHasWan'
  <2> SUFFICES ASSUME NEW s \in Slot, Active(s)',
                      ReachesDevice(created_services'[s].wan_address)
               PROVE  \E w \in WAN_INTERFACES :
                        /\ wan'[w].used
                        /\ wan'[w].addr = created_services'[s].wan_address
                        /\ wan'[w].vlan = created_services'[s].vlan_tag
    BY DEF ServiceHasWan, ReachesDevice
  <2>1. CASE s # n
    <3>1. created_services'[s] = created_services[s]
      BY <2>1, <1>9
    <3>2. Active(s) /\ ReachesDevice(created_services[s].wan_address)
      BY <3>1 DEF Active
    <3>3. PICK w \in WAN_INTERFACES :
            /\ wan[w].used
            /\ wan[w].addr = created_services[s].wan_address
            /\ wan[w].vlan = created_services[s].vlan_tag
      BY <3>2 DEF DeviceInv, ServiceHasWan
    <3>4. PICK other \in FlowMods :
            /\ created_services[s].wan_address = WanAddress(other.match)
            /\ created_services[s].vlan_tag \in Vlans(other)
      BY <3>2 DEF DeviceInv, ServicesAreSent
    <3> DEFINE l == get_all_WAN(wan)[wan[w].vlan]
    <3>5. /\ wan[w].vlan \in DOMAIN get_all_WAN(wan)
          /\ l \in WAN_INTERFACES /\ wan[l].used
          /\ wan[l].vlan = wan[w].vlan
      BY <3>3, Dictionary DEF TypeOK
    <3>6. l \notin free
      BY <3>5 DEF FreeIds
    <3> HIDE DEF l
    <3>7. wan[l].addr = created_services[s].wan_address
      BY <3>3, <3>4, <3>5 DEF DeviceInv, WansAreKnown
    <3>8. wan'[l] = wan[l]
      BY <3>5, <3>6, <1>11 DEF TypeOK
    <3> QED
      BY <3>1, <3>3, <3>5, <3>7, <3>8
  <2>2. CASE s = n
    <3>1. ReachesDevice(a)
      BY <2>2, <1>9
    <3>2. CASE free = {} /\ wan' = wan
      <4>1. /\ IsFiniteSet(DeviceVlans(controller))
            /\ Cardinality(DeviceVlans(controller))
                 <= Cardinality(WAN_INTERFACES)
        BY DEF DeviceFits
      <4>2. \A w \in WAN_INTERFACES :
              wan[w].used => wan[w].vlan \in DeviceVlans(controller)
        BY DEF DeviceInv, WansAreKnown
      <4>3. wan \in [WAN_INTERFACES -> Wan] /\ tag \in DeviceVlans(controller)
        BY <3>1, <1>12 DEF TypeOK
      <4>4. PICK w \in WAN_INTERFACES : wan[w].used /\ wan[w].vlan = tag
        BY <3>2, <4>1, <4>2, <4>3, RowForVlan
      <4>5. wan[w].addr = a
        BY <4>4, <1>4, <1>5 DEF DeviceInv, WansAreKnown
      <4> QED
        BY <3>2, <4>4, <4>5, <2>2, <1>9
    <3>3. CASE \E x \in free : wan' = [wan EXCEPT ![x] = rows]
      <4>1. PICK x \in free : wan' = [wan EXCEPT ![x] = rows]
        BY <3>3
      <4>2. x \in WAN_INTERFACES
        BY DEF FreeIds
      <4>3. wan'[x] = rows
        BY <4>1, <4>2 DEF TypeOK
      <4> QED
        BY <4>2, <4>3, <2>2, <1>9 DEF Row
    <3> QED
      BY <3>1, <3>2, <3>3, <1>11
  <2> QED
    BY <2>1, <2>2
<1> QED
  BY <1>10, <1>14, <1>15

(* Only a new service and the last flow of one make the agent run the       *)
(* client.                                                                  *)
LEMMA ClientRuns ==
  [Next]_vars =>
    \/ ApplyToNew
    \/ UnapplyLast
    \/ wan' = wan /\ service_allocator_index' \in {0, service_allocator_index}
BY DEF Next, Handler, vars, props, agent, FlowModAdd, FlowModDelete,
   FlowModIgnored, ApplySkip, ApplyToExisting, ApplyForkFails, ApplyDone,
   DeleteMismatch, DeleteMatch, DeleteFreed, DeleteDone, UnapplySkip,
   UnapplyShared, UnapplyDone, Restart

(* Every step keeps what the invariant says of the device.                  *)
LEMMA DeviceStep ==
  ASSUME TableInv, Paired, DeviceFits(controller), DeviceInv, [Next]_vars
  PROVE  DeviceInv'
<1>1. controller' = controller
  BY DEF Next, vars
<1>2. FlowsAreSent'
  <2>1. CASE Next
    BY <2>1, FlowsStep DEF TableInv, DeviceInv
  <2>2. CASE UNCHANGED vars
    BY <2>2 DEF vars, agent, DeviceInv, FlowsAreSent, Cleared, Holds,
       FlowMods, Deletes
  <2> QED
    BY <2>1, <2>2
<1>3. TypeOK /\ TableStep /\ service_allocator_index \in Nat
  BY StepIsTableStep, AgentAssumption DEF TableInv, TypeOK
<1>4. ServicesAreSent' /\ WansAreKnown' /\ ServiceHasWan'
  <2>1. CASE ApplyToNew
    BY <1>1, <2>1, ApplyToNewStep
  <2>2. CASE UnapplyLast
    <3>1. service_allocator_index' = service_allocator_index
      BY <2>2 DEF UnapplyLast
    <3>2. NoServiceAdded
      BY <3>1, <1>3, OldServices
    <3> QED
      BY <1>1, <2>2, <3>2, UnapplyLastStep
  <2>3. CASE /\ wan' = wan
             /\ service_allocator_index' \in {0, service_allocator_index}
    <3>1. NoServiceAdded
      BY <1>3, <2>3, OldServices
    <3> QED
      BY <1>1, <1>3, <2>3, <3>1, OldWans
  <2> QED
    BY <2>1, <2>2, <2>3, ClientRuns
<1> QED
  BY <1>2, <1>4 DEF DeviceInv

LEMMA DeviceInit ==
  ASSUME Init, DeviceFits(controller)
  PROVE  DeviceInv
<1>1. FlowsAreSent
  BY DEF Init, FlowsAreSent, Cleared, EmptyFlows
<1>2. ServicesAreSent /\ ServiceHasWan
  BY DEF Init, ServicesAreSent, ServiceHasWan, Active, EmptyTable, NoService
<1>3. WansAreKnown
  BY DEF Init, WansAreKnown, DeviceFits, DeviceVlans, FlowMods
<1> QED
  BY <1>1, <1>2, <1>3 DEF DeviceInv

(* The inductive invariant of the agent and its device.                     *)
PairedInv == TableInv /\ (Paired => DeviceInv)

(* It holds of every flow_mod, call of the client and restart, when the     *)
(* device has room for the VLANs of the paired controllers.                 *)
THEOREM PairedInvariant ==
  ASSUME \A c \in PairedControllers : DeviceFits(c)
  PROVE  Spec => []PairedInv
<1>1. Init => PairedInv
  BY TableInvInit, DeviceInit DEF PairedInv, Paired
<1>2. PairedInv /\ [Next]_vars => PairedInv'
  <2> SUFFICES ASSUME PairedInv, [Next]_vars PROVE PairedInv'
    OBVIOUS
  <2>1. Paired' => Paired
    BY DEF Next, vars, Paired
  <2>2. Paired => DeviceInv'
    BY DeviceStep DEF PairedInv, Paired
  <2>3. TableInv'
    BY TableInvStep DEF PairedInv
  <2> QED
    BY <2>1, <2>2, <2>3 DEF PairedInv
<1> QED
  BY <1>1, <1>2, PTL DEF Spec

(* The device carries out what the agent believes, for every controller     *)
(* whose VLANs fit on the device, over any number of restarts that leave    *)
(* WAN interfaces behind: each live service has a WAN with its address and  *)
(* VLAN.                                                                    *)
THEOREM ServicesHaveWans ==
  ASSUME \A c \in PairedControllers : DeviceFits(c)
  PROVE  Spec => []ServiceHasWan
<1>1. PairedInv => ServiceHasWan
  BY DEF PairedInv, DeviceInv, ServiceHasWan
<1> QED
  BY <1>1, PairedInvariant, PTL

-----------------------------------------------------------------------------
(* Counting the rows in use against the services on the device.             *)
LEMMA Countable ==
  /\ IsFiniteSet(UsedWans) /\ Cardinality(UsedWans) \in Nat
  /\ IsFiniteSet(OnDevice) /\ Cardinality(OnDevice) \in Nat
<1>1. IsFiniteSet(UsedWans)
  BY ClientAssumption, FS_Subset DEF UsedWans
<1>2. IsFiniteSet(OnDevice)
  <2>1. IsFiniteSet(Slot)
    BY AgentAssumption, FS_Interval DEF Slot
  <2> QED
    BY <2>1, FS_Subset DEF OnDevice
<1> QED
  BY <1>1, <1>2, FS_CardinalityType

NoWanLeft ==
  Cardinality(UsedWans') - Cardinality(OnDevice')
    <= Cardinality(UsedWans) - Cardinality(OnDevice)

(* A new service takes at most one row that was not in use.                 *)
LEMMA NewServiceCounts ==
  ASSUME TableInv, Paired, ApplyToNew
  PROVE  NoWanLeft
<1> USE DEF TableInv
<1> DEFINE a == WanAddress(Applying.match)
           tag == VlanTag(Applying, auxInd)
           n == service_allocator_index
           free == FreeIds(get_all_WAN(wan))
<1>1. /\ n \in Slot /\ Applying.match.in_port # 0
      /\ wan' \in zyxel_configure_service(a, ToShort(tag))
      /\ created_services' = [created_services EXCEPT ![n] =
           [in_port |-> Applying.match.in_port, wan_address |-> a,
            vlan_tag |-> ToShort(tag),
            flow_counter |-> Increment(created_services[n].flow_counter)]]
  BY AgentAssumption DEF ApplyToNew, NewSlot, ConfSkips, Slot, TypeOK
<1> HIDE DEF a, tag, n
<1>2. /\ created_services'[n].wan_address = a
      /\ created_services'[n].in_port # 0
      /\ \A s \in Slot \ {n} : created_services'[s] = created_services[s]
  BY <1>1 DEF TypeOK
<1>3. ~Active(n)
  BY <1>1, AgentAssumption DEF SlotsTrackAllocation, TypeOK, n
<1>4. OnDevice' = OnDevice \cup (IF ReachesDevice(a) THEN {n} ELSE {})
  BY <1>1, <1>2, <1>3 DEF OnDevice, Active, ReachesDevice
<1>5. n \notin OnDevice
  BY <1>3 DEF OnDevice
<1>6. CASE ~ReachesDevice(a)
  <2>1. wan' = wan /\ OnDevice' = OnDevice
    BY <1>1, <1>4, <1>6 DEF zyxel_configure_service
  <2>2. UsedWans' = UsedWans
    BY <2>1 DEF UsedWans
  <2> QED
    BY <2>1, <2>2, Countable DEF NoWanLeft
<1>7. CASE ReachesDevice(a)
  <2>1. Cardinality(OnDevice') = Cardinality(OnDevice) + 1
    BY <1>4, <1>5, <1>7, Countable, FS_AddElement
  <2>2. \E x : UsedWans' = UsedWans \cup {x} \/ UsedWans' = UsedWans
    <3> DEFINE svc == get_all_WAN(wan)
               x == assign_wan(svc)
    <3>1. \/ wan' = wan
          \/ wan' = [wan EXCEPT ![x] =
                       [used |-> TRUE, addr |-> a, vlan |-> Shown(ToShort(tag))]]
      BY <1>1, <1>7 DEF zyxel_configure_service, set_wan_interface
    <3> HIDE DEF x
    <3>2. CASE wan' = wan
      BY <3>2 DEF UsedWans
    <3>3. CASE wan' = [wan EXCEPT ![x] =
                         [used |-> TRUE, addr |-> a, vlan |-> Shown(ToShort(tag))]]
      <4>1. CASE x \in WAN_INTERFACES
        BY <3>3, <4>1 DEF UsedWans, TypeOK
      <4>2. CASE x \notin WAN_INTERFACES
        BY <3>3, <4>2 DEF UsedWans, TypeOK
      <4> QED
        BY <4>1, <4>2
    <3> QED
      BY <3>1, <3>2, <3>3
  <2>3. Cardinality(UsedWans') <= Cardinality(UsedWans) + 1
    <3>1. PICK x : UsedWans' = UsedWans \cup {x} \/ UsedWans' = UsedWans
      BY <2>2
    <3>2. Cardinality(UsedWans \cup {x}) =
            (IF x \in UsedWans THEN Cardinality(UsedWans)
                               ELSE Cardinality(UsedWans) + 1)
      BY Countable, FS_AddElement
    <3>3. CASE UsedWans' = UsedWans
      BY <3>3, Countable
    <3>4. CASE UsedWans' = UsedWans \cup {x}
      BY <3>2, <3>4, Countable
    <3> QED
      BY <3>1, <3>3, <3>4
  <2>4. Cardinality(UsedWans') \in Nat
    <3>1. IsFiniteSet(UsedWans')
      BY ClientAssumption, FS_Subset DEF UsedWans
    <3> QED
      BY <3>1, FS_CardinalityType
  <2> QED
    BY <2>1, <2>3, <2>4, Countable DEF NoWanLeft
<1> QED
  BY <1>6, <1>7

(* The last flow of a service that is on the device clears a row in use.    *)
LEMMA OldServiceCounts ==
  ASSUME TableInv, Paired, DeviceInv, UnapplyLast
  PROVE  NoWanLeft
<1> USE DEF TableInv
<1>1. PICK s \in Slot :
        /\ Released(s)
        /\ wan' \in zyxel_unconfigure_service(WanAddress(Candidate.match),
                                         created_services[s].vlan_tag)
                      \cup (IF MayFail THEN {wan} ELSE {})
        /\ created_services' = [created_services EXCEPT ![s] = NoService]
  BY DEF UnapplyLast, ClearService
<1> DEFINE a == created_services[s].wan_address
           v == created_services[s].vlan_tag
<1>2. a = WanAddress(Candidate.match)
  BY <1>1 DEF Released, AddressSlots
<1>3. ~MayFail
  BY PairedFacts
<1>4. Active(s)
  <2>1. pc = "unapply"
    BY DEF UnapplyLast, UnconfCalled, InUnapply
  <2>2. PICK ofm \in FlowMods : Holds(i, ofm)
    BY <2>1 DEF DeviceInv, FlowsAreSent
  <2>3. Candidate.match = ofm.match
    BY <2>2 DEF Holds, Candidate
  <2>4. created_services[s].wan_address # 0
    BY <1>2, <2>3, PairedFacts DEF HaveVlans
  <2> QED
    BY <2>4 DEF SlotsTrackAllocation, NoService
<1>5. OnDevice' = OnDevice \ {s}
  BY <1>1 DEF OnDevice, Active, ReachesDevice, TypeOK, NoService
<1> HIDE DEF a, v
<1>6. CASE ~ReachesDevice(a)
  <2>1. wan' = wan
    BY <1>1, <1>2, <1>3, <1>6 DEF zyxel_unconfigure_service
  <2>2. UsedWans' = UsedWans
    BY <2>1 DEF UsedWans
  <2>3. OnDevice' = OnDevice
    BY <1>5, <1>6 DEF OnDevice, a
  <2> QED
    BY <2>2, <2>3, Countable DEF NoWanLeft
<1>7. CASE ReachesDevice(a)
  <2>1. s \in OnDevice
    BY <1>4, <1>7 DEF OnDevice, a
  <2>2. PICK w \in WAN_INTERFACES : wan[w].used /\ wan[w].vlan = v
    BY <1>4, <1>7 DEF DeviceInv, ServiceHasWan, a, v
  <2>3. wan' \in del_wan_interface(wan, v, MayFail)
    BY <1>1, <1>2, <1>3, <1>7 DEF zyxel_unconfigure_service, v
  <2>4. wan \in [WAN_INTERFACES -> Wan]
    BY DEF TypeOK
  <2>5. PICK x \in WAN_INTERFACES :
          wan[x].used /\ wan' = [wan EXCEPT ![x] = Unused]
    BY <1>3, <2>2, <2>3, <2>4, DelTakesRow
  <2>6. UsedWans' = UsedWans \ {x} /\ x \in UsedWans
    BY <2>4, <2>5 DEF UsedWans, Unused
  <2>7. Cardinality(UsedWans') = Cardinality(UsedWans) - 1
    BY <2>6, Countable, FS_RemoveElement
  <2>8. Cardinality(OnDevice') = Cardinality(OnDevice) - 1
    BY <1>5, <2>1, Countable, FS_RemoveElement
  <2> QED
    BY <2>7, <2>8, Countable DEF NoWanLeft
<1> QED
  BY <1>6, <1>7

(* The other steps leave the device alone, and the services on it, unless   *)
(* the process starts again.                                                *)
LEMMA OtherCounts ==
  ASSUME TableInv, [Next]_vars, ~ApplyToNew, ~UnapplyLast,
         service_allocator_index' >= service_allocator_index
  PROVE  NoWanLeft
<1> USE DEF TableInv
<1>1. UsedWans' = UsedWans
  BY ClientRuns DEF UsedWans
<1>2. CASE Restart
  <2>1. service_allocator_index = 0
    BY <1>2, AgentAssumption DEF Restart, TypeOK
  <2>2. OnDevice = {}
    BY <2>1, AgentAssumption DEF OnDevice, SlotsTrackAllocation, Slot
  <2>3. OnDevice' = {}
    BY <1>2 DEF Restart, OnDevice, Active, EmptyTable, NoService
  <2> QED
    BY <1>1, <2>2, <2>3, Countable DEF NoWanLeft
<1>3. CASE ~Restart
  <2>1. \/ created_services' = created_services
        \/ \E s \in Slot : \E c : created_services' =
             [created_services EXCEPT ![s].flow_counter = c]
    <3>1. CASE ApplyToExisting
      <4>1. \E s \in Slot : created_services' =
              [created_services EXCEPT ![s].flow_counter = Increment(@)]
        BY <3>1 DEF ApplyToExisting, ExistingSlots
      <4> QED BY <4>1
    <3>2. CASE UnapplyShared
      <4>1. \E s \in Slot : created_services' =
              [created_services EXCEPT ![s].flow_counter = Decrement(@)]
        BY <3>2 DEF UnapplyShared
      <4> QED BY <4>1
    <3>3. CASE ~ApplyToExisting /\ ~UnapplyShared
      BY <1>3, <3>3 DEF Next, Handler, vars, props, agent, FlowModAdd,
         FlowModDelete, FlowModIgnored, ApplySkip, ApplyForkFails, ApplyDone,
         DeleteMismatch, DeleteMatch, DeleteFreed, DeleteDone, UnapplySkip,
         UnapplyDone
    <3> QED
      BY <3>1, <3>2, <3>3
  <2>2. \A s \in Slot :
          /\ created_services'[s].in_port = created_services[s].in_port
          /\ created_services'[s].wan_address = created_services[s].wan_address
    BY <2>1 DEF TypeOK, Service
  <2>3. OnDevice' = OnDevice
    BY <2>2 DEF OnDevice, Active, ReachesDevice
  <2> QED
    BY <1>1, <2>3, Countable DEF NoWanLeft
<1> QED
  BY <1>2, <1>3

(* No WAN interface is left behind but by a restart: a service that is      *)
(* given up takes its WAN with it.                                          *)
THEOREM WansAreTakenBack ==
  ASSUME \A c \in PairedControllers : DeviceFits(c)
  PROVE  Spec => OnlyRestartsLeaveWans
<1>1. PairedInv /\ [Next]_vars =>
        [Paired /\ service_allocator_index' >= service_allocator_index =>
           Cardinality(UsedWans') - Cardinality(OnDevice')
             <= Cardinality(UsedWans) - Cardinality(OnDevice)]_vars
  BY NewServiceCounts, OldServiceCounts, OtherCounts DEF PairedInv, NoWanLeft
<1> QED
  BY <1>1, PairedInvariant, PTL DEF Spec, OnlyRestartsLeaveWans

-----------------------------------------------------------------------------
(* The flow_counter of a service.  In the middle of a handler some actions  *)
(* of one entry count and the others do not, so the invariant counts the    *)
(* uses that were taken and not yet released.                               *)

(* Action k of entry f was applied and not yet unapplied.                   *)
Counting(f, k) ==
  \/ f < flow_counter /\ (pc = "unapply" /\ f = i => k > auxInd)
  \/ pc = "apply" /\ f = flow_counter /\ k <= auxInd

InUse(f, k, a, t) == Counting(f, k) /\ Uses(f, k, a, t)

Positive == Nat \ {0}

UsesNow(a, t) ==
  {fk \in FlowIndex \X Positive : InUse(fk[1], fk[2], a, t)}

Serves(s, a, t) ==
  /\ Active(s)
  /\ created_services[s].wan_address = a
  /\ created_services[s].vlan_tag = t

CountInv ==
  service_allocator_index < MAX_SERVICES =>
    /\ \A s \in Slot : \A a, t : Serves(s, a, t) =>
         created_services[s].flow_counter = Cardinality(UsesNow(a, t))
    /\ \A a, t : UsesNow(a, t) # {} => \E s \in Slot : Serves(s, a, t)

(* An entry with a use holds a flow of the controller with that service.    *)
LEMMA UseIsSent ==
  ASSUME TypeOK, Paired, FlowsAreSent, NEW f \in FlowIndex,
         NEW k \in Positive, NEW a, NEW t, Uses(f, k, a, t)
  PROVE  \E ofm \in FlowMods : Holds(f, ofm) /\ k \in 1 .. Len(ofm.actions)
<1>1. k <= Len(inserted_flows[f].actions)
  BY DEF Uses
<1>2. ~Cleared(f)
  <2>1. Len(<<>>) = 0
    OBVIOUS
  <2> QED
    BY <1>1, <2>1 DEF Cleared, Positive
<1>3. PICK ofm \in FlowMods : Holds(f, ofm)
  BY <1>2 DEF FlowsAreSent
<1>4. k <= Len(ofm.actions) /\ Len(ofm.actions) \in Nat
  BY <1>1, <1>3, PairedFacts DEF Holds, FlowMod
<1> QED
  BY <1>3, <1>4 DEF Positive

(* A supported action of a paired flow is a use of one service, which its   *)
(* address tells; of a flow for ARP it is none.                             *)
LEMMA ActionUses ==
  ASSUME TypeOK, Paired, PortsNamed(FlowMods), NEW f \in FlowIndex,
         NEW ofm \in FlowMods, Holds(f, ofm),
         NEW k \in 1 .. Len(ofm.actions), Supported(ofm.actions[k]),
         NEW tag, tag = VlanTag(inserted_flows[f], k - 1)
  PROVE  /\ tag \in Vlans(ofm) /\ tag \in UShort /\ 0 < tag
         /\ ToShort(tag) = tag
         /\ ofm.match.arp => \A a, t : ~Uses(f, k, a, t)
         /\ ~ofm.match.arp => \A a, t :
              Uses(f, k, a, t) <=> a = WanAddress(ofm.match) /\ t = tag
<1>1. /\ inserted_flows[f].match = ofm.match
      /\ inserted_flows[f].actions = ofm.actions
      /\ inserted_flows[f].freed = FALSE
      /\ inserted_flows[f] \in InsertedFlow
  BY DEF Holds, TypeOK, InsertedFlow
<1>2. ofm.actions \in Seq(Action) /\ k \in Nat /\ k - 1 \in Nat
      /\ k <= Len(ofm.actions)
  BY PairedFacts DEF FlowMod
<1>3. tag \in UShort
  BY <1>1, <1>2, VlanTagType
<1>4. tag = VlanTag(ofm, k - 1)
  BY <1>1 DEF VlanTag
<1>5. tag \in Vlans(ofm)
  BY <1>4 DEF Vlans
<1>6. 0 < tag /\ tag <= 32767
  BY <1>5, PairedFacts DEF HaveVlans
<1>7. ToShort(tag) = tag
  BY <1>3, <1>6, SmallTag
<1>8. ofm.match.arp => \A a, t : ~Uses(f, k, a, t)
  BY <1>1 DEF Uses
<1>9. ASSUME ~ofm.match.arp, NEW a, NEW t
      PROVE  Uses(f, k, a, t) <=> a = WanAddress(ofm.match) /\ t = tag
  <2>1. OutPort(ofm, k - 1) # 0 /\ ofm.match.in_port # 0
    BY <1>9 DEF PortsNamed
  <2>2. OutPort(inserted_flows[f], k - 1) # 0
    BY <1>1, <2>1 DEF OutPort
  <2>3. ToShort(VlanTag(inserted_flows[f], k - 1)) = tag
    BY <1>7
  <2> QED
    BY <1>1, <1>2, <1>9, <2>1, <2>2, <2>3 DEF Uses
<1> QED
  BY <1>3, <1>5, <1>6, <1>7, <1>8, <1>9

(* An action that the device does not support is none either.               *)
LEMMA UnsupportedUses ==
  ASSUME NEW f, NEW k, ~Supported(inserted_flows[f].actions[k])
  PROVE  \A a, t : ~Uses(f, k, a, t)
  BY DEF Uses

(* The uses of a service are finitely many, and fit a short.                *)
LEMMA UsesFit ==
  ASSUME NEW n \in Nat, ActionsFit(n), NEW S,
         S \subseteq FlowIndex \X (1 .. n)
  PROVE  IsFiniteSet(S) /\ Cardinality(S) \in Nat /\ Cardinality(S) <= 32767
<1> DEFINE A == FlowIndex
           B == 1 .. n
<1>1. IsFiniteSet(A) /\ Cardinality(A) = MAX_NUMBER_OF_FLOWS
  <2>1. /\ 0 \in Int /\ MAX_NUMBER_OF_FLOWS - 1 \in Int
        /\ 0 <= MAX_NUMBER_OF_FLOWS - 1
    BY AgentAssumption
  <2>2. /\ IsFiniteSet(0 .. MAX_NUMBER_OF_FLOWS - 1)
        /\ Cardinality(0 .. MAX_NUMBER_OF_FLOWS - 1) =
             (IF 0 > MAX_NUMBER_OF_FLOWS - 1 THEN 0
              ELSE (MAX_NUMBER_OF_FLOWS - 1) - 0 + 1)
    BY <2>1, FS_Interval
  <2> QED
    BY <2>1, <2>2, AgentAssumption DEF FlowIndex
<1>2. IsFiniteSet(B) /\ Cardinality(B) = n
  <2>1. IsFiniteSet(1 .. n) /\ Cardinality(1 .. n) = (IF 1 > n THEN 0 ELSE n - 1 + 1)
    BY FS_Interval
  <2> QED
    BY <2>1
<1> HIDE DEF A, B
<1>3. IsFiniteSet(A \X B) /\ Cardinality(A \X B) = Cardinality(A) * Cardinality(B)
  BY <1>1, <1>2, FS_Product
<1>4. IsFiniteSet(S) /\ Cardinality(S) <= Cardinality(A \X B)
  BY <1>3, FS_Subset DEF A, B
<1>5. Cardinality(S) \in Nat
  BY <1>4, FS_CardinalityType
<1>6. Cardinality(A \X B) = MAX_NUMBER_OF_FLOWS * n
  BY <1>1, <1>2, <1>3
<1> QED
  BY <1>4, <1>5, <1>6, AgentAssumption DEF ActionsFit

(* No more uses than places in the action lists.                            *)
LEMMA UsesBounded ==
  ASSUME TypeOK, Paired, FlowsAreSent, NEW n \in Nat, ActionsFit(n),
         NEW a, NEW t
  PROVE  UsesNow(a, t) \subseteq FlowIndex \X (1 .. n)
<1> SUFFICES ASSUME NEW f \in FlowIndex, NEW k \in Positive, InUse(f, k, a, t)
             PROVE  k \in 1 .. n
  BY DEF UsesNow
<1>1. PICK ofm \in FlowMods : Holds(f, ofm) /\ k \in 1 .. Len(ofm.actions)
  BY UseIsSent DEF InUse
<1>2. Len(ofm.actions) <= n
  BY DEF ActionsFit, Paired, FlowMods
<1>3. Len(ofm.actions) \in Nat
  BY PairedFacts DEF FlowMod
<1> QED
  BY <1>1, <1>2, <1>3

(* A step that changes what is counted on one service at most.              *)
LEMMA OneServiceCounts ==
  ASSUME CountInv,
         service_allocator_index' < MAX_SERVICES =>
           service_allocator_index < MAX_SERVICES,
         NEW a0, NEW t0,
         \A a, t : a # a0 \/ t # t0 => UsesNow(a, t)' = UsesNow(a, t),
         \A s \in Slot : \A a, t : a # a0 \/ t # t0 =>
           /\ Serves(s, a, t)' <=> Serves(s, a, t)
           /\ Serves(s, a, t) => created_services'[s].flow_counter =
                                   created_services[s].flow_counter,
         \A s \in Slot : Serves(s, a0, t0)' =>
           created_services'[s].flow_counter = Cardinality(UsesNow(a0, t0)'),
         UsesNow(a0, t0)' # {} => \E s \in Slot : Serves(s, a0, t0)'
  PROVE  CountInv'
<1> SUFFICES ASSUME service_allocator_index' < MAX_SERVICES
             PROVE  /\ \A s \in Slot : \A a, t : Serves(s, a, t)' =>
                         created_services'[s].flow_counter =
                           Cardinality(UsesNow(a, t)')
                    /\ \A a, t : UsesNow(a, t)' # {} =>
                         \E s \in Slot : Serves(s, a, t)'
  BY DEF CountInv
<1>1. /\ \A s \in Slot : \A a, t : Serves(s, a, t) =>
           created_services[s].flow_counter = Cardinality(UsesNow(a, t))
      /\ \A a, t : UsesNow(a, t) # {} => \E s \in Slot : Serves(s, a, t)
  BY DEF CountInv
<1>2. ASSUME NEW s \in Slot, NEW a, NEW t, Serves(s, a, t)'
      PROVE  created_services'[s].flow_counter = Cardinality(UsesNow(a, t)')
  BY <1>1, <1>2
<1>3. ASSUME NEW a, NEW t, UsesNow(a, t)' # {}
      PROVE  \E s \in Slot : Serves(s, a, t)'
  BY <1>1, <1>3
<1> QED
  BY <1>2, <1>3

(* Two live slots do not serve the same address and VLAN.                   *)
LEMMA OneSlotServes ==
  ASSUME TableInv, Paired, ServicesAreSent, NEW a, NEW t,
         NEW s \in Slot, NEW r \in Slot, Serves(s, a, t), Serves(r, a, t)
  PROVE  s = r
  BY ServicesDiffer DEF TableInv, Serves

(* A step that takes or releases no use.                                    *)
SameUses ==
  \A f \in FlowIndex, k \in Positive : \A a, t :
    InUse(f, k, a, t)' <=> InUse(f, k, a, t)

(* Then no counter may change.                                              *)
LEMMA SameCounts ==
  ASSUME CountInv, SameUses,
         UNCHANGED <<created_services, service_allocator_index>>
  PROVE  CountInv'
<1>1. ASSUME NEW a, NEW t
      PROVE  UsesNow(a, t)' = UsesNow(a, t)
  <2>1. ASSUME NEW fk \in FlowIndex \X Positive
        PROVE  InUse(fk[1], fk[2], a, t)' <=> InUse(fk[1], fk[2], a, t)
    BY DEF SameUses
  <2> QED
    BY <2>1 DEF UsesNow
<1>2. ASSUME NEW s \in Slot, NEW a, NEW t
      PROVE  /\ Serves(s, a, t)' <=> Serves(s, a, t)
             /\ created_services'[s].flow_counter =
                  created_services[s].flow_counter
  BY DEF Serves, Active
<1> QED
  BY <1>1, <1>2 DEF CountInv

(* Action k0 of entry f0 begins, or ceases, to be a use of one service.     *)
OneUse(f0, k0) ==
  \A f \in FlowIndex, k \in Positive : \A a, t :
    f # f0 \/ k # k0 => (InUse(f, k, a, t)' <=> InUse(f, k, a, t))

(* An action that is applied.                                               *)
LEMMA UseTaken ==
  ASSUME NEW f0 \in FlowIndex, NEW k0 \in Positive, NEW a0, NEW t0,
         OneUse(f0, k0),
         \A a, t : ~InUse(f0, k0, a, t),
         \A a, t : InUse(f0, k0, a, t)' <=> a = a0 /\ t = t0
  PROVE  /\ \A a, t : a # a0 \/ t # t0 => UsesNow(a, t)' = UsesNow(a, t)
         /\ UsesNow(a0, t0)' = UsesNow(a0, t0) \cup {<<f0, k0>>}
         /\ <<f0, k0>> \notin UsesNow(a0, t0)
<1>1. ASSUME NEW fk \in FlowIndex \X Positive, fk # <<f0, k0>>, NEW a, NEW t
      PROVE  InUse(fk[1], fk[2], a, t)' <=> InUse(fk[1], fk[2], a, t)
  BY <1>1 DEF OneUse
<1>2. ASSUME NEW a, NEW t, a # a0 \/ t # t0
      PROVE  UsesNow(a, t)' = UsesNow(a, t)
  <2>1. ASSUME NEW fk \in FlowIndex \X Positive
        PROVE  InUse(fk[1], fk[2], a, t)' <=> InUse(fk[1], fk[2], a, t)
    <3>1. CASE fk = <<f0, k0>>
      <4>1. fk[1] = f0 /\ fk[2] = k0
        BY <3>1
      <4>2. ~InUse(f0, k0, a, t)' /\ ~InUse(f0, k0, a, t)
        BY <1>2
      <4> QED
        BY <4>1, <4>2
    <3> QED
      BY <1>1, <3>1
  <2> QED
    BY <2>1 DEF UsesNow
<1>3. UsesNow(a0, t0)' = UsesNow(a0, t0) \cup {<<f0, k0>>}
  <2>1. <<f0, k0>> \in UsesNow(a0, t0)'
    BY DEF UsesNow
  <2>2. \A fk \in FlowIndex \X Positive : fk # <<f0, k0>> =>
          (InUse(fk[1], fk[2], a0, t0)' <=> InUse(fk[1], fk[2], a0, t0))
    BY <1>1
  <2> QED
    BY <2>1, <2>2 DEF UsesNow
<1>4. <<f0, k0>> \notin UsesNow(a0, t0)
  BY DEF UsesNow
<1> QED
  BY <1>2, <1>3, <1>4

(* An action that is unapplied.                                             *)
LEMMA UseReleased ==
  ASSUME NEW f0 \in FlowIndex, NEW k0 \in Positive, NEW a0, NEW t0,
         OneUse(f0, k0),
         \A a, t : InUse(f0, k0, a, t) <=> a = a0 /\ t = t0,
         \A a, t : ~InUse(f0, k0, a, t)'
  PROVE  /\ \A a, t : a # a0 \/ t # t0 => UsesNow(a, t)' = UsesNow(a, t)
         /\ UsesNow(a0, t0)' = UsesNow(a0, t0) \ {<<f0, k0>>}
         /\ <<f0, k0>> \in UsesNow(a0, t0)
<1>1. ASSUME NEW fk \in FlowIndex \X Positive, fk # <<f0, k0>>, NEW a, NEW t
      PROVE  InUse(fk[1], fk[2], a, t)' <=> InUse(fk[1], fk[2], a, t)
  BY <1>1 DEF OneUse
<1>2. ASSUME NEW a, NEW t, a # a0 \/ t # t0
      PROVE  UsesNow(a, t)' = UsesNow(a, t)
  <2>1. ASSUME NEW fk \in FlowIndex \X Positive
        PROVE  InUse(fk[1], fk[2], a, t)' <=> InUse(fk[1], fk[2], a, t)
    <3>1. CASE fk = <<f0, k0>>
      <4>1. fk[1] = f0 /\ fk[2] = k0
        BY <3>1
      <4>2. ~InUse(f0, k0, a, t)' /\ ~InUse(f0, k0, a, t)
        BY <1>2
      <4> QED
        BY <4>1, <4>2
    <3> QED
      BY <1>1, <3>1
  <2> QED
    BY <2>1 DEF UsesNow
<1>3. UsesNow(a0, t0)' = UsesNow(a0, t0) \ {<<f0, k0>>}
  <2>1. <<f0, k0>> \notin UsesNow(a0, t0)'
    BY DEF UsesNow
  <2>2. \A fk \in FlowIndex \X Positive : fk # <<f0, k0>> =>
          (InUse(fk[1], fk[2], a0, t0)' <=> InUse(fk[1], fk[2], a0, t0))
    BY <1>1
  <2> QED
    BY <2>1, <2>2 DEF UsesNow
<1>4. <<f0, k0>> \in UsesNow(a0, t0)
  BY DEF UsesNow
<1> QED
  BY <1>2, <1>3, <1>4

(* The loops of the handler move on by one action.                          *)
LEMMA ApplyMoves ==
  ASSUME TypeOK, pc = "apply", ApplyNext,
         NEW f0, f0 = flow_counter, NEW k0, k0 = auxInd + 1
  PROVE  /\ f0 \in FlowIndex /\ k0 \in Positive
         /\ OneUse(f0, k0)
         /\ \A a, t : ~InUse(f0, k0, a, t)
         /\ \A a, t : InUse(f0, k0, a, t)' <=> Uses(f0, k0, a, t)
<1>1. /\ f0 \in FlowIndex /\ flow_counter \in Nat /\ auxInd \in Nat
      /\ \A f \in FlowIndex : f \in Nat
  BY AgentAssumption DEF TypeOK, FlowIndex
<1>2. UNCHANGED <<pc, inserted_flows, flow_counter, i>> /\ auxInd' = auxInd + 1
  BY DEF ApplyNext, agent
<1>3. \A f, k, a, t : Uses(f, k, a, t)' <=> Uses(f, k, a, t)
  BY <1>2 DEF Uses
<1>4. \A f, k : Counting(f, k)' <=>
                  (f < flow_counter \/ (f = flow_counter /\ k <= auxInd + 1))
  BY <1>2 DEF Counting
<1>5. \A f, k : Counting(f, k) <=>
                  (f < flow_counter \/ (f = flow_counter /\ k <= auxInd))
  BY DEF Counting
<1>6. \A f \in FlowIndex, k \in Positive :
        f # f0 \/ k # k0 => (Counting(f, k)' <=> Counting(f, k))
  BY <1>1, <1>4, <1>5 DEF Positive
<1>7. ~Counting(f0, k0) /\ Counting(f0, k0)'
  BY <1>1, <1>4, <1>5
<1>8. k0 \in Positive
  BY <1>1 DEF Positive
<1> QED
  BY <1>1, <1>3, <1>6, <1>7, <1>8 DEF OneUse, InUse

(* unapply_actions, likewise.                                               *)
LEMMA UnapplyMoves ==
  ASSUME TypeOK, pc = "unapply", UnapplyNext,
         NEW f0, f0 = i, NEW k0, k0 = auxInd + 1
  PROVE  /\ f0 \in FlowIndex /\ k0 \in Positive
         /\ OneUse(f0, k0)
         /\ \A a, t : InUse(f0, k0, a, t) <=> Uses(f0, k0, a, t)
         /\ \A a, t : ~InUse(f0, k0, a, t)'
<1>1. /\ f0 \in FlowIndex /\ i < flow_counter /\ auxInd \in Nat
  BY AgentAssumption DEF TypeOK, FlowIndex
<1>2. UNCHANGED <<pc, inserted_flows, flow_counter, i>> /\ auxInd' = auxInd + 1
  BY DEF UnapplyNext, agent
<1>3. \A f, k, a, t : Uses(f, k, a, t)' <=> Uses(f, k, a, t)
  BY <1>2 DEF Uses
<1>4. \A f, k : Counting(f, k)' <=>
                  (f < flow_counter /\ (f = i => k > auxInd + 1))
  BY <1>2 DEF Counting
<1>5. \A f, k : Counting(f, k) <=> (f < flow_counter /\ (f = i => k > auxInd))
  BY DEF Counting
<1>6. \A f \in FlowIndex, k \in Positive :
        f # f0 \/ k # k0 => (Counting(f, k)' <=> Counting(f, k))
  BY <1>1, <1>4, <1>5 DEF Positive
<1>7. Counting(f0, k0) /\ ~Counting(f0, k0)'
  BY <1>1, <1>4, <1>5
<1>8. k0 \in Positive
  BY <1>1 DEF Positive
<1> QED
  BY <1>1, <1>3, <1>6, <1>7, <1>8 DEF OneUse, InUse

(* The action that output_conf_zyxel is called for.                         *)
LEMMA ConfUses ==
  ASSUME TypeOK, Paired, PortsNamed(FlowMods), FlowsAreSent, ConfCalled,
         ApplyNext, NEW f0, f0 = flow_counter, NEW k0, k0 = auxInd + 1,
         NEW a0, a0 = WanAddress(Applying.match),
         NEW t0, t0 = VlanTag(Applying, auxInd)
  PROVE  /\ t0 \in UShort /\ 0 < t0 /\ ToShort(t0) = t0
         /\ \E ofm \in FlowMods :
              /\ a0 = WanAddress(ofm.match) /\ t0 \in Vlans(ofm)
              /\ k0 \in 1 .. Len(ofm.actions)
         /\ Applying.match.arp => \A a, t : ~Uses(f0, k0, a, t)
         /\ ~Applying.match.arp =>
              /\ Applying.match.in_port # 0 /\ OutPort(Applying, auxInd) # 0
              /\ \A a, t : Uses(f0, k0, a, t) <=> a = a0 /\ t = t0
<1>1. pc = "apply" /\ auxInd < Len(Applying.actions)
      /\ Supported(Applying.actions[auxInd + 1])
  BY DEF ConfCalled, InApply
<1>2. PICK ofm \in FlowMods : Holds(flow_counter, ofm)
  BY <1>1 DEF FlowsAreSent
<1>3. /\ Applying.match = ofm.match /\ Applying.actions = ofm.actions
      /\ Applying = inserted_flows[f0]
  BY <1>2 DEF Holds, Applying
<1>4. f0 \in FlowIndex /\ auxInd \in Nat
  BY <1>1, AgentAssumption DEF TypeOK, FlowIndex
<1>5. Len(ofm.actions) \in Nat
  BY PairedFacts DEF FlowMod
<1>6. k0 \in 1 .. Len(ofm.actions) /\ k0 - 1 = auxInd
  BY <1>1, <1>3, <1>4, <1>5
<1>7. Supported(ofm.actions[k0]) /\ Holds(f0, ofm)
  BY <1>1, <1>2, <1>3
<1>8. t0 = VlanTag(inserted_flows[f0], k0 - 1)
  BY <1>3, <1>6
<1>9. /\ t0 \in Vlans(ofm) /\ t0 \in UShort /\ 0 < t0
      /\ ToShort(t0) = t0
      /\ ofm.match.arp => \A a, t : ~Uses(f0, k0, a, t)
      /\ ~ofm.match.arp => \A a, t :
           Uses(f0, k0, a, t) <=> a = WanAddress(ofm.match) /\ t = t0
  BY ONLY TypeOK, Paired, PortsNamed(FlowMods), <1>4, <1>6, <1>7, <1>8, ActionUses
<1>10. ~ofm.match.arp => ofm.match.in_port # 0 /\ OutPort(ofm, auxInd) # 0
  BY <1>6, <1>7 DEF PortsNamed
<1>11. OutPort(Applying, auxInd) = OutPort(ofm, auxInd)
  BY <1>3 DEF OutPort
<1> QED
  BY <1>3, <1>6, <1>9, <1>10, <1>11

(* An existing service counts the action that was applied to it.            *)
LEMMA ExistingCounts ==
  ASSUME TableInv, Paired, PortsNamed(FlowMods), FlowsAreSent, ServicesAreSent,
         CountInv, ApplyToExisting, NEW n \in Nat, ActionsFit(n)
  PROVE  CountInv'
<1> USE DEF TableInv
<1>1. PICK f0, k0, a0, t0 :
        /\ f0 = flow_counter /\ k0 = auxInd + 1
        /\ a0 = WanAddress(Applying.match) /\ t0 = VlanTag(Applying, auxInd)
  OBVIOUS
<1>2. /\ ConfCalled /\ ~ConfSkips /\ ApplyNext /\ pc = "apply"
      /\ service_allocator_index' = service_allocator_index
      /\ ~Applying.match.arp
  BY DEF ApplyToExisting, ConfCalled, InApply, ConfSkips
<1>3. PICK s \in ExistingSlots :
        created_services' = [created_services EXCEPT
          ![s].flow_counter = Increment(@)]
  BY DEF ApplyToExisting
<1>4. /\ t0 \in UShort /\ 0 < t0
      /\ \A a, t : Uses(f0, k0, a, t) <=> a = a0 /\ t = t0
      /\ \E ofm \in FlowMods : k0 \in 1 .. Len(ofm.actions)
  BY <1>1, <1>2, ConfUses
<1>5. /\ f0 \in FlowIndex /\ k0 \in Positive /\ OneUse(f0, k0)
      /\ \A a, t : ~InUse(f0, k0, a, t)
      /\ \A a, t : InUse(f0, k0, a, t)' <=> Uses(f0, k0, a, t)
  BY <1>1, <1>2, ApplyMoves
<1>6. /\ \A a, t : a # a0 \/ t # t0 => UsesNow(a, t)' = UsesNow(a, t)
      /\ UsesNow(a0, t0)' = UsesNow(a0, t0) \cup {<<f0, k0>>}
      /\ <<f0, k0>> \notin UsesNow(a0, t0)
  BY <1>4, <1>5, UseTaken
<1>7. s \in Slot /\ Serves(s, a0, t0)
  <2>1. /\ s \in Slot /\ created_services[s].wan_address = a0
        /\ created_services[s].vlan_tag = t0
    BY <1>1 DEF ExistingSlots
  <2>2. t0 # 0
    BY <1>4 DEF UShort
  <2> QED
    BY <2>1, <2>2 DEF SlotsTrackAllocation, NoService, Serves
<1>8. /\ \A r \in Slot : \A a, t : Serves(r, a, t)' <=> Serves(r, a, t)
      /\ \A r \in Slot \ {s} : created_services'[r] = created_services[r]
      /\ created_services'[s].flow_counter =
           Increment(created_services[s].flow_counter)
  <2>1. created_services \in [Slot -> Service]
    BY DEF TypeOK
  <2>2. /\ \A r \in Slot :
             /\ created_services'[r].in_port = created_services[r].in_port
             /\ created_services'[r].vlan_tag = created_services[r].vlan_tag
             /\ created_services'[r].wan_address =
                  created_services[r].wan_address
        /\ \A r \in Slot \ {s} : created_services'[r] = created_services[r]
        /\ created_services'[s].flow_counter =
             Increment(created_services[s].flow_counter)
    BY <1>3, <1>7, <2>1 DEF Service
  <2> QED
    BY <2>2 DEF Serves, Active
<1>9. SUFFICES ASSUME service_allocator_index < MAX_SERVICES
               PROVE  CountInv'
  BY <1>2 DEF CountInv
<1>10. created_services'[s].flow_counter = Cardinality(UsesNow(a0, t0)')
  <2> DEFINE U == UsesNow(a0, t0)
             V == U \cup {<<f0, k0>>}
  <2>1. created_services[s].flow_counter = Cardinality(U)
    BY <1>7, <1>9 DEF CountInv
  <2>2. U \subseteq FlowIndex \X (1 .. n)
    BY UsesBounded
  <2>3. k0 \in 1 .. n
    <3>1. PICK ofm \in FlowMods : k0 \in 1 .. Len(ofm.actions)
      BY <1>4
    <3>2. Len(ofm.actions) <= n
      BY DEF ActionsFit, Paired, FlowMods
    <3>3. Len(ofm.actions) \in Nat
      BY PairedFacts DEF FlowMod
    <3> QED BY <3>1, <3>2, <3>3
  <2>4. V \subseteq FlowIndex \X (1 .. n)
    BY <1>5, <2>2, <2>3
  <2> HIDE DEF U, V
  <2>5. IsFiniteSet(U) /\ Cardinality(U) \in Nat
    BY <2>2, UsesFit
  <2>6. Cardinality(V) <= 32767
    BY <2>4, UsesFit
  <2>7. Cardinality(V) = Cardinality(U) + 1
    BY <1>6, <2>5, FS_AddElement DEF U, V
  <2>8. Increment(Cardinality(U)) = Cardinality(U) + 1
    BY <2>5, <2>6, <2>7 DEF Increment
  <2>9. UsesNow(a0, t0)' = V
    BY <1>6 DEF U, V
  <2> QED
    BY <1>8, <2>1, <2>7, <2>8, <2>9
<1>11. ASSUME NEW r \in Slot, NEW a, NEW t, a # a0 \/ t # t0, Serves(r, a, t)
       PROVE  created_services'[r].flow_counter = created_services[r].flow_counter
  <2>1. r # s
    BY <1>7, <1>11 DEF Serves
  <2> QED
    BY <1>8, <2>1
<1>12. ASSUME NEW r \in Slot, Serves(r, a0, t0)'
       PROVE  created_services'[r].flow_counter = Cardinality(UsesNow(a0, t0)')
  <2>1. r = s
    BY <1>7, <1>8, <1>12, OneSlotServes
  <2> QED
    BY <1>10, <2>1
<1>13. \E r \in Slot : Serves(r, a0, t0)'
  BY <1>7, <1>8
<1> QED
  BY <1>6, <1>8, <1>9, <1>11, <1>12, <1>13, OneServiceCounts

(* A new service counts the action that created it.                         *)
LEMMA NewCounts ==
  ASSUME TableInv, Paired, PortsNamed(FlowMods), FlowsAreSent, ServicesAreSent,
         CountInv, ApplyToNew
  PROVE  CountInv'
<1> USE DEF TableInv
<1>1. PICK f0, k0, a0, t0, m :
        /\ f0 = flow_counter /\ k0 = auxInd + 1
        /\ a0 = WanAddress(Applying.match) /\ t0 = VlanTag(Applying, auxInd)
        /\ m = service_allocator_index
  OBVIOUS
<1>2. /\ ConfCalled /\ ~ConfSkips /\ ApplyNext /\ pc = "apply"
      /\ service_allocator_index' = service_allocator_index + 1
      /\ ~Applying.match.arp /\ Applying.match.in_port # 0
      /\ ExistingSlots = {}
  BY DEF ApplyToNew, ConfCalled, InApply, ConfSkips
<1>3. /\ t0 \in UShort /\ 0 < t0 /\ ToShort(t0) = t0
      /\ \A a, t : Uses(f0, k0, a, t) <=> a = a0 /\ t = t0
  BY <1>1, <1>2, ConfUses
<1>4. m \in Slot /\ m \in Nat /\ \A s \in Slot : s \in Nat
  BY <1>1, <1>2, AgentAssumption DEF ConfSkips, Slot, TypeOK
<1>5. /\ f0 \in FlowIndex /\ k0 \in Positive /\ OneUse(f0, k0)
      /\ \A a, t : ~InUse(f0, k0, a, t)
      /\ \A a, t : InUse(f0, k0, a, t)' <=> Uses(f0, k0, a, t)
  BY <1>1, <1>2, ApplyMoves
<1>6. /\ \A a, t : a # a0 \/ t # t0 => UsesNow(a, t)' = UsesNow(a, t)
      /\ UsesNow(a0, t0)' = UsesNow(a0, t0) \cup {<<f0, k0>>}
      /\ <<f0, k0>> \notin UsesNow(a0, t0)
  <2>1. \A a, t : InUse(f0, k0, a, t)' <=> a = a0 /\ t = t0
    BY <1>3, <1>5
  <2> QED
    BY ONLY <1>5, <2>1, UseTaken
<1>7. \A s \in Slot : ~Serves(s, a0, t0)
  <2> SUFFICES ASSUME NEW s \in Slot, Serves(s, a0, t0) PROVE FALSE
    OBVIOUS
  <2>1. s < service_allocator_index
    BY DEF Serves, SlotsTrackAllocation
  <2>2. s \in ExistingSlots
    BY <1>1, <2>1 DEF Serves, ExistingSlots
  <2> QED BY <1>2, <2>2
<1>8. created_services[m] = NoService /\ ~Active(m)
  BY <1>1, <1>4 DEF SlotsTrackAllocation
<1>9. SUFFICES ASSUME service_allocator_index' < MAX_SERVICES
               PROVE  CountInv'
  BY DEF CountInv
<1>10. service_allocator_index < MAX_SERVICES
  BY <1>1, <1>2, <1>4, <1>9, AgentAssumption
<1>11. UsesNow(a0, t0)' = {<<f0, k0>>}
  <2>1. UsesNow(a0, t0) = {}
    BY <1>7, <1>10 DEF CountInv
  <2> QED
    BY <1>6, <2>1
<1>12. /\ created_services'[m].in_port # 0
       /\ created_services'[m].wan_address = a0
       /\ created_services'[m].vlan_tag = t0
       /\ created_services'[m].flow_counter = 1
       /\ \A s \in Slot \ {m} : created_services'[s] = created_services[s]
  <2>1. created_services' = [created_services EXCEPT ![m] =
          [in_port |-> Applying.match.in_port, wan_address |-> a0,
           vlan_tag |-> ToShort(t0),
           flow_counter |-> Increment(created_services[m].flow_counter)]]
    BY <1>1 DEF ApplyToNew, NewSlot
  <2>2. Increment(created_services[m].flow_counter) = 1
    BY <1>8 DEF NoService, Increment
  <2> QED
    BY <1>2, <1>3, <1>4, <2>1, <2>2 DEF TypeOK
<1>13. ASSUME NEW s \in Slot, NEW a, NEW t, a # a0 \/ t # t0
       PROVE  /\ Serves(s, a, t)' <=> Serves(s, a, t)
              /\ Serves(s, a, t) => created_services'[s].flow_counter =
                                      created_services[s].flow_counter
  <2>1. CASE s = m
    BY <1>8, <1>12, <1>13, <2>1 DEF Serves, Active
  <2>2. CASE s # m
    BY <1>12, <2>2 DEF Serves, Active
  <2> QED BY <2>1, <2>2
<1>14. ASSUME NEW s \in Slot, Serves(s, a0, t0)'
       PROVE  created_services'[s].flow_counter = Cardinality(UsesNow(a0, t0)')
  <2>1. s = m
    BY <1>7, <1>12, <1>14 DEF Serves, Active
  <2>2. Cardinality({<<f0, k0>>}) = 1
    BY FS_Singleton
  <2> QED
    BY <1>11, <1>12, <2>1, <2>2
<1>15. Serves(m, a0, t0)'
  BY <1>12 DEF Serves, Active
<1> QED
  BY <1>4, <1>6, <1>10, <1>13, <1>14, <1>15, OneServiceCounts

(* What output_conf_zyxel skips is no use.                                  *)
LEMMA SkipCounts ==
  ASSUME TableInv, Paired, PortsNamed(FlowMods), FlowsAreSent, CountInv,
         ApplySkip
  PROVE  CountInv'
<1> USE DEF TableInv
<1>1. PICK f0, k0 : f0 = flow_counter /\ k0 = auxInd + 1
  OBVIOUS
<1>2. /\ InApply /\ pc = "apply" /\ ApplyNext
      /\ UNCHANGED <<created_services, service_allocator_index>>
  BY DEF ApplySkip, InApply, props
<1>3. SUFFICES ASSUME service_allocator_index < MAX_SERVICES
               PROVE  CountInv'
  BY <1>2 DEF CountInv
<1>4. \A a, t : ~Uses(f0, k0, a, t)
  <2>1. CASE ~Supported(Applying.actions[auxInd + 1])
    BY <1>1, <2>1, UnsupportedUses DEF Applying
  <2>2. CASE Supported(Applying.actions[auxInd + 1])
    <3>1. PICK a0, t0 : a0 = WanAddress(Applying.match)
                        /\ t0 = VlanTag(Applying, auxInd)
      OBVIOUS
    <3>2. ConfCalled /\ ConfSkips
      BY <1>2, <2>2 DEF ConfCalled, ApplySkip
    <3>3. /\ t0 \in UShort /\ 0 < t0
          /\ Applying.match.arp => \A a, t : ~Uses(f0, k0, a, t)
          /\ ~Applying.match.arp =>
               Applying.match.in_port # 0 /\ OutPort(Applying, auxInd) # 0
      BY <1>1, <1>2, <3>1, <3>2, ConfUses
    <3>4. ~(service_allocator_index > MAX_SERVICES - 1)
      BY <1>3, AgentAssumption DEF TypeOK
    <3>5. t0 # 0
      BY <3>3 DEF UShort
    <3>6. Applying.match.arp
      BY <3>1, <3>2, <3>3, <3>4, <3>5 DEF ConfSkips
    <3> QED
      BY <3>3, <3>6
  <2> QED BY <2>1, <2>2
<1>5. /\ OneUse(f0, k0)
      /\ \A a, t : ~InUse(f0, k0, a, t)
      /\ \A a, t : InUse(f0, k0, a, t)' <=> Uses(f0, k0, a, t)
  BY <1>1, <1>2, ApplyMoves
<1>6. SameUses
  BY <1>4, <1>5 DEF SameUses, OneUse
<1> QED
  BY <1>2, <1>6, SameCounts

(* The action that output_unconf_zyxel is called for, and the service that  *)
(* the address finds: it is the one the action is a use of.                 *)
LEMMA UnconfUses ==
  ASSUME TableInv, Paired, PortsNamed(FlowMods), FlowsAreSent, ServicesAreSent,
         UnconfCalled, NEW f0, f0 = i, NEW k0, k0 = auxInd + 1
  PROVE  \E a0, t0 :
           /\ a0 = WanAddress(Candidate.match)
           /\ \A a, t : Uses(f0, k0, a, t) <=> a = a0 /\ t = t0
           /\ \A s \in AddressSlots : Serves(s, a0, t0)
<1> USE DEF TableInv
<1>1. /\ pc = "unapply" /\ auxInd < Len(Candidate.actions)
      /\ Supported(Candidate.actions[auxInd + 1]) /\ ~Candidate.match.arp
  BY DEF UnconfCalled, InUnapply
<1>2. PICK ofm \in FlowMods : Holds(i, ofm)
  BY <1>1 DEF FlowsAreSent
<1>3. /\ Candidate.match = ofm.match /\ Candidate.actions = ofm.actions
      /\ Candidate = inserted_flows[f0]
  BY <1>2 DEF Holds, Candidate
<1>4. f0 \in FlowIndex /\ auxInd \in Nat
  BY <1>1, AgentAssumption DEF TypeOK, FlowIndex
<1>5. Len(ofm.actions) \in Nat
  BY PairedFacts DEF FlowMod
<1>6. k0 \in 1 .. Len(ofm.actions) /\ k0 - 1 = auxInd
  BY <1>1, <1>3, <1>4, <1>5
<1>7. Supported(ofm.actions[k0]) /\ Holds(f0, ofm)
  BY <1>1, <1>2, <1>3
<1>8. PICK t0 : t0 = VlanTag(inserted_flows[f0], k0 - 1)
  OBVIOUS
<1>9. /\ t0 \in Vlans(ofm)
      /\ ~ofm.match.arp => \A a, t :
           Uses(f0, k0, a, t) <=> a = WanAddress(ofm.match) /\ t = t0
  BY ONLY TypeOK, Paired, PortsNamed(FlowMods), <1>4, <1>6, <1>7, <1>8, ActionUses
<1>10. PICK a0 : a0 = WanAddress(ofm.match)
  OBVIOUS
<1>11. ASSUME NEW s \in AddressSlots
       PROVE  Serves(s, a0, t0)
  <2>1. s \in Slot /\ created_services[s].wan_address = a0
    BY <1>3, <1>10 DEF AddressSlots
  <2>2. a0 # 0
    BY <1>10, PairedFacts DEF HaveVlans
  <2>3. Active(s)
    BY <2>1, <2>2 DEF SlotsTrackAllocation, NoService
  <2>4. PICK other \in FlowMods :
          /\ created_services[s].wan_address = WanAddress(other.match)
          /\ created_services[s].vlan_tag \in Vlans(other)
    BY <2>1, <2>3 DEF ServicesAreSent
  <2>5. WanAddress(other.match) = WanAddress(ofm.match)
    BY <1>10, <2>1, <2>4
  <2>6. VlansPaired(FlowMods)
    BY PairedFacts
  <2>7. created_services[s].vlan_tag = t0
    BY <1>9, <2>4, <2>5, <2>6 DEF VlansPaired
  <2> QED
    BY <2>1, <2>3, <2>7 DEF Serves
<1> QED
  BY <1>1, <1>3, <1>9, <1>10, <1>11

(* A use that is released while others remain.                              *)
LEMMA SharedCounts ==
  ASSUME TableInv, Paired, PortsNamed(FlowMods), FlowsAreSent, ServicesAreSent,
         CountInv, UnapplyShared, NEW n \in Nat, ActionsFit(n)
  PROVE  CountInv'
<1> USE DEF TableInv
<1>1. PICK f0, k0 : f0 = i /\ k0 = auxInd + 1
  OBVIOUS
<1>2. /\ UnconfCalled /\ UnapplyNext /\ pc = "unapply"
      /\ service_allocator_index' = service_allocator_index
  BY DEF UnapplyShared, UnconfCalled, InUnapply
<1>3. PICK s \in Slot :
        /\ Released(s) /\ IsShared(s)
        /\ created_services' = [created_services EXCEPT
             ![s].flow_counter = Decrement(@)]
  BY DEF UnapplyShared
<1>4. PICK a0, t0 :
        /\ \A a, t : Uses(f0, k0, a, t) <=> a = a0 /\ t = t0
        /\ \A r \in AddressSlots : Serves(r, a0, t0)
  BY <1>1, <1>2, UnconfUses
<1>5. /\ f0 \in FlowIndex /\ k0 \in Positive /\ OneUse(f0, k0)
      /\ \A a, t : InUse(f0, k0, a, t) <=> Uses(f0, k0, a, t)
      /\ \A a, t : ~InUse(f0, k0, a, t)'
  BY <1>1, <1>2, UnapplyMoves
<1>6. /\ \A a, t : a # a0 \/ t # t0 => UsesNow(a, t)' = UsesNow(a, t)
      /\ UsesNow(a0, t0)' = UsesNow(a0, t0) \ {<<f0, k0>>}
      /\ <<f0, k0>> \in UsesNow(a0, t0)
  <2>1. \A a, t : InUse(f0, k0, a, t) <=> a = a0 /\ t = t0
    BY <1>4, <1>5
  <2> QED
    BY ONLY <1>5, <2>1, UseReleased
<1>7. Serves(s, a0, t0)
  BY <1>3, <1>4 DEF Released
<1>8. /\ \A r \in Slot : \A a, t : Serves(r, a, t)' <=> Serves(r, a, t)
      /\ \A r \in Slot \ {s} : created_services'[r] = created_services[r]
      /\ created_services'[s].flow_counter =
           Decrement(created_services[s].flow_counter)
  <2>1. created_services \in [Slot -> Service]
    BY DEF TypeOK
  <2>2. /\ \A r \in Slot :
             /\ created_services'[r].in_port = created_services[r].in_port
             /\ created_services'[r].vlan_tag = created_services[r].vlan_tag
             /\ created_services'[r].wan_address =
                  created_services[r].wan_address
        /\ \A r \in Slot \ {s} : created_services'[r] = created_services[r]
        /\ created_services'[s].flow_counter =
             Decrement(created_services[s].flow_counter)
    BY <1>3, <2>1 DEF Service
  <2> QED
    BY <2>2 DEF Serves, Active
<1>9. SUFFICES ASSUME service_allocator_index < MAX_SERVICES
               PROVE  CountInv'
  BY <1>2 DEF CountInv
<1>10. created_services'[s].flow_counter = Cardinality(UsesNow(a0, t0)')
  <2> DEFINE U == UsesNow(a0, t0)
  <2>1. created_services[s].flow_counter = Cardinality(U)
    BY <1>7, <1>9 DEF CountInv
  <2>2. U \subseteq FlowIndex \X (1 .. n)
    BY UsesBounded
  <2> HIDE DEF U
  <2>3. IsFiniteSet(U) /\ Cardinality(U) \in Nat
    BY <2>2, UsesFit
  <2>4. Cardinality(U \ {<<f0, k0>>}) = Cardinality(U) - 1
    BY <1>6, <2>3, FS_RemoveElement DEF U
  <2>5. Decrement(Cardinality(U)) = Cardinality(U) - 1
    BY <2>3 DEF Decrement
  <2>6. UsesNow(a0, t0)' = U \ {<<f0, k0>>}
    BY <1>6 DEF U
  <2> QED
    BY <1>8, <2>1, <2>4, <2>5, <2>6
<1>11. ASSUME NEW r \in Slot, NEW a, NEW t, a # a0 \/ t # t0, Serves(r, a, t)
       PROVE  created_services'[r].flow_counter = created_services[r].flow_counter
  <2>1. r # s
    BY <1>7, <1>11 DEF Serves
  <2> QED
    BY <1>8, <2>1
<1>12. ASSUME NEW r \in Slot, Serves(r, a0, t0)'
       PROVE  created_services'[r].flow_counter = Cardinality(UsesNow(a0, t0)')
  <2>1. r = s
    BY <1>7, <1>8, <1>12, OneSlotServes
  <2> QED
    BY <1>10, <2>1
<1>13. \E r \in Slot : Serves(r, a0, t0)'
  BY <1>7, <1>8
<1> QED
  BY <1>6, <1>8, <1>9, <1>11, <1>12, <1>13, OneServiceCounts

(* The service is given up with its last use, and no sooner.                *)
LEMMA LastCounts ==
  ASSUME TableInv, Paired, PortsNamed(FlowMods), FlowsAreSent, ServicesAreSent,
         CountInv, UnapplyLast, NEW n \in Nat, ActionsFit(n)
  PROVE  CountInv'
<1> USE DEF TableInv
<1>1. PICK f0, k0 : f0 = i /\ k0 = auxInd + 1
  OBVIOUS
<1>2. /\ UnconfCalled /\ UnapplyNext /\ pc = "unapply"
      /\ service_allocator_index' = service_allocator_index
  BY DEF UnapplyLast, UnconfCalled, InUnapply
<1>3. PICK s \in Slot :
        /\ Released(s) /\ ~IsShared(s)
        /\ created_services' = [created_services EXCEPT ![s] = NoService]
  BY DEF UnapplyLast, ClearService
<1>4. PICK a0, t0 :
        /\ \A a, t : Uses(f0, k0, a, t) <=> a = a0 /\ t = t0
        /\ \A r \in AddressSlots : Serves(r, a0, t0)
  BY <1>1, <1>2, UnconfUses
<1>5. /\ f0 \in FlowIndex /\ k0 \in Positive /\ OneUse(f0, k0)
      /\ \A a, t : InUse(f0, k0, a, t) <=> Uses(f0, k0, a, t)
      /\ \A a, t : ~InUse(f0, k0, a, t)'
  BY <1>1, <1>2, UnapplyMoves
<1>6. /\ \A a, t : a # a0 \/ t # t0 => UsesNow(a, t)' = UsesNow(a, t)
      /\ UsesNow(a0, t0)' = UsesNow(a0, t0) \ {<<f0, k0>>}
      /\ <<f0, k0>> \in UsesNow(a0, t0)
  <2>1. \A a, t : InUse(f0, k0, a, t) <=> a = a0 /\ t = t0
    BY <1>4, <1>5
  <2> QED
    BY ONLY <1>5, <2>1, UseReleased
<1>7. Serves(s, a0, t0)
  BY <1>3, <1>4 DEF Released
<1>8. /\ \A r \in Slot \ {s} : created_services'[r] = created_services[r]
      /\ created_services'[s].in_port = 0
  BY <1>3 DEF TypeOK, NoService
<1>9. SUFFICES ASSUME service_allocator_index < MAX_SERVICES
               PROVE  CountInv'
  BY <1>2 DEF CountInv
<1>10. UsesNow(a0, t0)' = {}
  <2> DEFINE U == UsesNow(a0, t0)
             V == U \ {<<f0, k0>>}
  <2>1. Cardinality(U) <= 1
    <3>1. created_services[s].flow_counter = Cardinality(U)
      BY <1>7, <1>9 DEF CountInv
    <3>2. created_services[s].flow_counter \in Int
      BY DEF TypeOK, Service, Short
    <3> QED
      BY <1>3, <3>1, <3>2 DEF IsShared
  <2>2. U \subseteq FlowIndex \X (1 .. n)
    BY UsesBounded
  <2> HIDE DEF U
  <2>3. IsFiniteSet(U) /\ Cardinality(U) \in Nat
    BY <2>2, UsesFit
  <2>4. Cardinality(V) = Cardinality(U) - 1 /\ IsFiniteSet(V)
    BY <1>6, <2>3, FS_RemoveElement DEF U
  <2> HIDE DEF V
  <2>5. Cardinality(V) \in Nat
    BY <2>4, FS_CardinalityType
  <2>6. Cardinality(V) = 0
    BY <2>1, <2>3, <2>4, <2>5
  <2>7. V = {}
    BY <2>4, <2>6, FS_EmptySet
  <2> QED
    BY <1>6, <2>7 DEF U, V
<1>11. ASSUME NEW r \in Slot, NEW a, NEW t, a # a0 \/ t # t0
       PROVE  /\ Serves(r, a, t)' <=> Serves(r, a, t)
              /\ Serves(r, a, t) => created_services'[r].flow_counter =
                                      created_services[r].flow_counter
  <2>1. CASE r = s
    BY <1>7, <1>8, <1>11, <2>1 DEF Serves, Active
  <2>2. CASE r # s
    BY <1>8, <2>2 DEF Serves, Active
  <2> QED BY <2>1, <2>2
<1>12. ASSUME NEW r \in Slot
       PROVE  ~Serves(r, a0, t0)'
  <2>1. CASE r = s
    BY <1>8, <2>1 DEF Serves, Active
  <2>2. CASE r # s
    <3>1. ~Serves(r, a0, t0)
      BY <1>7, <2>2, OneSlotServes
    <3> QED
      BY <1>8, <2>2, <3>1 DEF Serves, Active
  <2> QED BY <2>1, <2>2
<1> QED
  BY <1>6, <1>9, <1>10, <1>11, <1>12, OneServiceCounts

(* What output_unconf_zyxel skips was no use.                               *)
LEMMA UnapplySkipCounts ==
  ASSUME TableInv, Paired, PortsNamed(FlowMods), FlowsAreSent, ServicesAreSent,
         CountInv, UnapplySkip
  PROVE  CountInv'
<1> USE DEF TableInv
<1>1. PICK f0, k0 : f0 = i /\ k0 = auxInd + 1
  OBVIOUS
<1>2. /\ InUnapply /\ pc = "unapply" /\ UnapplyNext
      /\ UNCHANGED <<created_services, service_allocator_index>>
  BY DEF UnapplySkip, InUnapply, props
<1>3. SUFFICES ASSUME service_allocator_index < MAX_SERVICES
               PROVE  CountInv'
  BY <1>2 DEF CountInv
<1>5. /\ f0 \in FlowIndex /\ k0 \in Positive /\ OneUse(f0, k0)
      /\ \A a, t : InUse(f0, k0, a, t) <=> Uses(f0, k0, a, t)
      /\ \A a, t : ~InUse(f0, k0, a, t)'
  BY <1>1, <1>2, UnapplyMoves
<1>4. \A a, t : ~Uses(f0, k0, a, t)
  <2>1. CASE ~Supported(Candidate.actions[auxInd + 1])
    BY <1>1, <2>1, UnsupportedUses DEF Candidate
  <2>2. CASE Candidate.match.arp
    BY <1>1, <2>2 DEF Candidate, Uses
  <2>3. CASE UnconfCalled
    <3>1. PICK a0, t0 :
            /\ a0 = WanAddress(Candidate.match)
            /\ \A a, t : Uses(f0, k0, a, t) <=> a = a0 /\ t = t0
            /\ \A r \in AddressSlots : Serves(r, a0, t0)
      BY <1>1, <2>3, UnconfUses
    <3>2. InUse(f0, k0, a0, t0)
      BY <1>5, <3>1
    <3>3. <<f0, k0>> \in UsesNow(a0, t0)
      BY <1>5, <3>2 DEF UsesNow
    <3>4. PICK s \in Slot : Serves(s, a0, t0)
      BY <1>3, <3>3 DEF CountInv
    <3>5. s \in AddressSlots
      BY <3>1, <3>4 DEF Serves, AddressSlots
    <3> QED
      BY <2>3, <3>5 DEF UnapplySkip
  <2> QED BY <1>2, <2>1, <2>2, <2>3 DEF UnconfCalled
<1>6. SameUses
  BY <1>4, <1>5 DEF SameUses, OneUse
<1> QED
  BY <1>2, <1>6, SameCounts

(* The services come from the flows of the controller, whatever the device  *)
(* has room for.                                                            *)
LEMMA ServicesStep ==
  ASSUME TableInv, Paired, FlowsAreSent, ServicesAreSent, PortsNamed(FlowMods),
         [Next]_vars
  PROVE  ServicesAreSent'
<1> USE DEF TableInv
<1>1. FlowMods' = FlowMods
  BY DEF Next, vars, FlowMods
<1>2. TypeOK /\ TableStep /\ service_allocator_index \in Nat
  BY StepIsTableStep, AgentAssumption DEF TypeOK
<1>3. CASE NoServiceAdded
  BY <1>1, <1>3 DEF NoServiceAdded, ServicesAreSent
<1>4. CASE ApplyToNew
  <2>1. PICK f0, k0, a0, t0 :
          /\ f0 = flow_counter /\ k0 = auxInd + 1
          /\ a0 = WanAddress(Applying.match) /\ t0 = VlanTag(Applying, auxInd)
    OBVIOUS
  <2>2. ConfCalled /\ ApplyNext
    BY <1>4 DEF ApplyToNew
  <2>3. /\ ToShort(t0) = t0
        /\ \E ofm \in FlowMods :
             a0 = WanAddress(ofm.match) /\ t0 \in Vlans(ofm)
    BY <2>1, <2>2, ConfUses
  <2>4. PICK m \in Slot : m = service_allocator_index
    BY <1>2, <1>4, AgentAssumption DEF ApplyToNew, ConfSkips, Slot
  <2>5. /\ created_services'[m].wan_address = a0
        /\ created_services'[m].vlan_tag = t0
        /\ \A s \in Slot \ {m} : created_services'[s] = created_services[s]
    <3>1. \E c : created_services' = [created_services EXCEPT ![m] =
            [in_port |-> Applying.match.in_port, wan_address |-> a0,
             vlan_tag |-> t0, flow_counter |-> c]]
      BY <1>4, <2>1, <2>3, <2>4 DEF ApplyToNew, NewSlot
    <3> QED
      BY <2>4, <3>1 DEF TypeOK
  <2> QED
    BY <1>1, <2>3, <2>5 DEF ServicesAreSent, Active
<1>5. CASE service_allocator_index' # service_allocator_index + 1
  BY <1>2, <1>3, <1>5, OldServices
<1>6. ApplyToNew \/ service_allocator_index' \in {0, service_allocator_index}
  <2>1. UnapplyLast => service_allocator_index' = service_allocator_index
    BY DEF UnapplyLast
  <2> QED
    BY <2>1, ClientRuns
<1> QED
  BY <1>2, <1>4, <1>5, <1>6

(* The remaining steps of the handler.                                      *)
LEMMA OtherStepsCount ==
  ASSUME TableInv, Paired, FlowsAreSent, CountInv,
         \/ FlowModAdd \/ FlowModDelete \/ FlowModIgnored \/ ApplyDone
         \/ DeleteMismatch \/ DeleteMatch \/ DeleteDone \/ UnapplyDone
         \/ UNCHANGED vars
  PROVE  CountInv'
<1> USE DEF TableInv
<1>1. UNCHANGED <<created_services, service_allocator_index>>
  BY DEF FlowModAdd, FlowModDelete, FlowModIgnored, ApplyDone, DeleteMismatch,
     DeleteMatch, DeleteDone, UnapplyDone, vars, props
<1>2. /\ flow_counter \in Nat /\ auxInd \in Nat /\ i \in Nat
      /\ inserted_flows \in [FlowIndex -> InsertedFlow]
      /\ \A f \in FlowIndex : f \in Nat
      /\ \A f \in FlowIndex : Len(inserted_flows[f].actions) \in Nat
  BY AgentAssumption DEF TypeOK, FlowIndex, InsertedFlow
<1> SUFFICES ASSUME NEW f \in FlowIndex, NEW k \in Positive, NEW a, NEW t
             PROVE  InUse(f, k, a, t)' <=> InUse(f, k, a, t)
  BY <1>1, SameCounts DEF SameUses
<1>3. k \in Nat /\ k > 0
  BY DEF Positive
<1>4. inserted_flows'[f] = inserted_flows[f] =>
        (Uses(f, k, a, t)' <=> Uses(f, k, a, t))
  BY DEF Uses
<1>5. CASE FlowModAdd
  <2>1. /\ pc = "idle" /\ pc' = "apply" /\ auxInd' = 0
        /\ flow_counter' = flow_counter
    BY <1>5 DEF FlowModAdd
  <2>2. f # flow_counter => inserted_flows'[f] = inserted_flows[f]
    BY <1>2, <1>5 DEF FlowModAdd
  <2>3. /\ Counting(f, k) <=> f < flow_counter
        /\ Counting(f, k)' <=> f < flow_counter
    BY <1>3, <2>1 DEF Counting
  <2> QED
    BY <1>2, <1>4, <2>2, <2>3 DEF InUse
<1>6. CASE \/ FlowModDelete \/ FlowModIgnored \/ DeleteMismatch \/ DeleteDone
           \/ DeleteMatch
  <2>1. /\ pc \in {"idle", "delete"} /\ UNCHANGED <<inserted_flows, flow_counter>>
        /\ (pc' \in {"idle", "delete"}) \/ (pc' = "unapply" /\ auxInd' = 0)
    BY <1>6 DEF FlowModDelete, FlowModIgnored, DeleteMismatch, DeleteDone,
       DeleteMatch, Searching, Return, vars, agent
  <2>2. Counting(f, k) <=> f < flow_counter
    BY <2>1 DEF Counting
  <2>3. Counting(f, k)' <=> f < flow_counter
    BY <1>3, <2>1 DEF Counting
  <2> QED
    BY <1>4, <2>1, <2>2, <2>3 DEF InUse
<1>7. CASE ApplyDone
  <2>1. /\ pc = "apply" /\ pc' = "idle" /\ inserted_flows' = inserted_flows
        /\ flow_counter' = flow_counter + 1
        /\ auxInd >= Len(inserted_flows[flow_counter].actions)
    BY <1>7 DEF ApplyDone, Return, Applying
  <2>2. Counting(f, k)' <=> (f < flow_counter \/ f = flow_counter)
    BY <1>2, <2>1 DEF Counting
  <2>3. Counting(f, k) <=>
          (f < flow_counter \/ (f = flow_counter /\ k <= auxInd))
    BY <2>1 DEF Counting
  <2>4. f = flow_counter /\ Uses(f, k, a, t) => k <= auxInd
    <3>1. Uses(f, k, a, t) => k <= Len(inserted_flows[f].actions)
      BY DEF Uses
    <3> QED
      BY <1>2, <1>3, <2>1, <3>1
  <2> QED
    BY <1>4, <2>1, <2>2, <2>3, <2>4 DEF InUse
<1>8. CASE UnapplyDone
  <2>1. /\ pc = "unapply" /\ flow_counter' = flow_counter
        /\ inserted_flows' = [inserted_flows EXCEPT
             ![i] = [match |-> ZeroMatch, actions |-> <<>>, freed |-> TRUE]]
        /\ auxInd >= Len(inserted_flows[i].actions)
        /\ pc' \in {"delete", "lost"}
    BY <1>8 DEF UnapplyDone, Candidate
  <2>2. Counting(f, k)' <=> f < flow_counter
    BY <2>1 DEF Counting
  <2>3. Counting(f, k) <=> (f < flow_counter /\ (f = i => k > auxInd))
    BY <2>1 DEF Counting
  <2>4. CASE f = i
    <3>1. ~Uses(f, k, a, t)'
      BY <1>2, <2>1, <2>4 DEF Uses
    <3>2. Uses(f, k, a, t) => k <= auxInd
      <4>1. Uses(f, k, a, t) => k <= Len(inserted_flows[f].actions)
        BY DEF Uses
      <4> QED
        BY <1>2, <1>3, <2>1, <2>4, <4>1
    <3> QED
      BY <1>2, <1>3, <2>3, <2>4, <3>1, <3>2 DEF InUse
  <2>5. CASE f # i
    <3>1. inserted_flows'[f] = inserted_flows[f]
      BY <1>2, <2>1, <2>5
    <3> QED
      BY <1>4, <2>2, <2>3, <2>5, <3>1 DEF InUse
  <2> QED BY <2>4, <2>5
<1>9. CASE UNCHANGED vars
  BY <1>9 DEF vars, agent, InUse, Counting, Uses
<1> QED
  BY <1>5, <1>6, <1>7, <1>8, <1>9

(* A new process has no flows and no services.                              *)
LEMMA NothingCounted ==
  ASSUME created_services = EmptyTable, flow_counter = 0, pc = "idle"
  PROVE  CountInv
<1>1. \A s \in Slot : \A a, t : ~Serves(s, a, t)
  BY DEF Serves, Active, EmptyTable, NoService
<1>2. \A f \in FlowIndex, k \in Positive : \A a, t : ~InUse(f, k, a, t)
  BY AgentAssumption DEF InUse, Counting, FlowIndex
<1>3. \A a, t : UsesNow(a, t) = {}
  BY <1>2 DEF UsesNow
<1> QED
  BY <1>1, <1>3 DEF CountInv

(* A restart makes one.                                                     *)
LEMMA RestartCounts ==
  ASSUME Restart
  PROVE  CountInv'
<1>0. created_services' = EmptyTable /\ flow_counter' = 0 /\ pc' = "idle"
  BY DEF Restart, Return
<1>1. \A s \in Slot : \A a, t : ~Serves(s, a, t)'
  BY <1>0 DEF Serves, Active, EmptyTable, NoService
<1>2. \A f \in FlowIndex, k \in Positive : \A a, t : ~InUse(f, k, a, t)'
  BY <1>0, AgentAssumption DEF InUse, Counting, FlowIndex
<1>3. \A a, t : UsesNow(a, t)' = {}
  BY <1>2 DEF UsesNow
<1> QED
  BY <1>1, <1>3 DEF CountInv

(* A DELETE of a paired controller finds no freed entry, and its client     *)
(* does not fail.                                                           *)
LEMMA NoFailure ==
  ASSUME TypeOK, Paired, FlowsAreSent
  PROVE  ~DeleteFreed /\ ~ApplyForkFails
<1>1. ~ApplyForkFails
  BY PairedFacts DEF ApplyForkFails
<1>2. ASSUME DeleteFreed PROVE FALSE
  <2>1. /\ pc = "delete" /\ i < flow_counter /\ inserted_flows[i].freed
        /\ my_flow_fields_match(inserted_flows[i].match, ofm_match)
    BY <1>2 DEF DeleteFreed, Searching, Candidate
  <2>2. i \in FlowIndex /\ ofm_match \in Deletes
    BY <2>1, AgentAssumption DEF TypeOK, FlowIndex, FlowsAreSent
  <2>3. \E ofm \in FlowMods : Holds(i, ofm)
    BY <2>1, <2>2, DeleteFindsFlow
  <2> QED
    BY <2>1, <2>3 DEF Holds
<1> QED BY <1>1, <1>2

(* The inductive invariant of the counters.                                 *)
CountedInv ==
  /\ TableInv
  /\ Paired /\ PortsNamed(FlowMods) =>
       FlowsAreSent /\ ServicesAreSent /\ CountInv

(* Every step of the agent keeps it.                                        *)
LEMMA CountedStep ==
  ASSUME NEW n \in Nat, ActionsFit(n), CountedInv, [Next]_vars
  PROVE  CountedInv'
<1>1. TableInv /\ TableInv'
  BY TableInvStep DEF CountedInv
<1>2. controller' = controller
  BY DEF Next, vars
<1>3. (Paired' <=> Paired) /\ (PortsNamed(FlowMods)' <=> PortsNamed(FlowMods))
  BY <1>2 DEF Paired, FlowMods, PortsNamed
<1> SUFFICES ASSUME Paired, PortsNamed(FlowMods)
             PROVE  FlowsAreSent' /\ ServicesAreSent' /\ CountInv'
  BY <1>1, <1>3 DEF CountedInv
<1>4. TypeOK /\ FlowsAreSent /\ ServicesAreSent /\ CountInv
  BY DEF CountedInv, TableInv
<1>5. ServicesAreSent'
  BY <1>1, <1>4, ServicesStep
<1>6. FlowsAreSent'
  <2>1. CASE Next
    BY <1>4, <2>1, FlowsStep
  <2>2. CASE UNCHANGED vars
    BY <1>4, <2>2 DEF vars, agent, FlowsAreSent, Cleared, Holds, FlowMods,
       Deletes
  <2> QED BY <2>1, <2>2
<1>7. CountInv'
  <2>1. CASE \/ FlowModAdd \/ FlowModDelete \/ FlowModIgnored \/ ApplyDone
             \/ DeleteMismatch \/ DeleteMatch \/ DeleteDone \/ UnapplyDone
             \/ UNCHANGED vars
    BY <1>1, <1>4, <2>1, OtherStepsCount
  <2>2. CASE ApplySkip
    BY <1>1, <1>4, <2>2, SkipCounts
  <2>3. CASE ApplyToExisting
    BY <1>1, <1>4, <2>3, ExistingCounts
  <2>4. CASE ApplyToNew
    BY <1>1, <1>4, <2>4, NewCounts
  <2>5. CASE UnapplySkip
    BY <1>1, <1>4, <2>5, UnapplySkipCounts
  <2>6. CASE UnapplyShared
    BY <1>1, <1>4, <2>6, SharedCounts
  <2>7. CASE UnapplyLast
    BY <1>1, <1>4, <2>7, LastCounts
  <2>8. CASE Restart
    BY <2>8, RestartCounts
  <2>9. ~DeleteFreed /\ ~ApplyForkFails
    BY <1>4, NoFailure
  <2> QED
    BY <2>1, <2>2, <2>3, <2>4, <2>5, <2>6, <2>7, <2>8, <2>9 DEF Next, Handler
<1> QED
  BY <1>5, <1>6, <1>7

(* The first process starts with it.                                        *)
LEMMA CountedInit == Init => CountedInv
<1> SUFFICES ASSUME Init PROVE CountedInv
  OBVIOUS
<1>1. TableInv
  BY TableInvInit
<1>2. FlowsAreSent
  BY DEF Init, FlowsAreSent, Cleared, EmptyFlows
<1>3. ServicesAreSent
  BY DEF Init, ServicesAreSent, Active, EmptyTable, NoService
<1>4. CountInv
  BY NothingCounted DEF Init
<1> QED
  BY <1>1, <1>2, <1>3, <1>4 DEF CountedInv

(* Between two flow_mods every action of the entries counts.                *)
LEMMA IdleUses ==
  ASSUME TypeOK, pc = "idle", NEW a, NEW t
  PROVE  UsesOf(a, t) = UsesNow(a, t)
<1>1. /\ flow_counter \in Nat /\ 0 .. flow_counter - 1 \subseteq FlowIndex
      /\ \A f \in FlowIndex : f < flow_counter <=> f \in 0 .. flow_counter - 1
  BY AgentAssumption DEF TypeOK, FlowIndex
<1>2. \A f \in FlowIndex, k \in Positive :
        InUse(f, k, a, t) <=> (f < flow_counter /\ Uses(f, k, a, t))
  BY DEF InUse, Counting
<1>3. \A f \in FlowIndex : Len(inserted_flows[f].actions) \in Nat
  BY DEF TypeOK, InsertedFlow
<1>4. ASSUME NEW fk \in UsesOf(a, t)
      PROVE  fk \in UsesNow(a, t)
  <2>1. PICK f \in 0 .. flow_counter - 1 :
          fk \in {f} \X (1 .. Len(inserted_flows[f].actions))
    BY DEF UsesOf, EntryActions
  <2>2. PICK k \in 1 .. Len(inserted_flows[f].actions) : fk = <<f, k>>
    BY <2>1
  <2>3. f \in FlowIndex /\ k \in Positive
    BY <1>1, <1>3, <2>2 DEF Positive
  <2>4. Uses(f, k, a, t)
    BY <2>2 DEF UsesOf
  <2>5. InUse(f, k, a, t)
    BY <1>1, <1>2, <2>3, <2>4
  <2> QED
    BY <2>2, <2>3, <2>5 DEF UsesNow
<1>5. ASSUME NEW fk \in UsesNow(a, t)
      PROVE  fk \in UsesOf(a, t)
  <2>1. PICK f \in FlowIndex, k \in Positive : fk = <<f, k>>
    BY DEF UsesNow
  <2>2. InUse(f, k, a, t)
    BY <2>1 DEF UsesNow
  <2>3. f \in 0 .. flow_counter - 1 /\ Uses(f, k, a, t)
    BY <1>1, <1>2, <2>2
  <2>4. k \in 1 .. Len(inserted_flows[f].actions)
    BY <1>3, <2>3 DEF Uses, Positive
  <2>5. fk \in {f} \X (1 .. Len(inserted_flows[f].actions))
    BY <2>1, <2>4
  <2>6. fk \in EntryActions
    BY <2>3, <2>5 DEF EntryActions
  <2> QED
    BY <2>1, <2>3, <2>6 DEF UsesOf
<1> QED
  BY <1>4, <1>5

(* The flow_counter of every live service is the number of the actions of   *)
(* the inserted flows that use it, after every sequence of flow_mods and    *)
(* restarts: output_unconf_zyxel unconfigures the device with the last use  *)
(* of a service, never earlier and never later.  The short counter must not *)
(* wrap: at most n actions to a flow (3 for the agent's 10000 flows).       *)
THEOREM CountersExact ==
  ASSUME NEW n \in Nat, ActionsFit(n)
  PROVE  Spec => []ServiceCountsItsFlows
<1>1. CountedInv /\ [Next]_vars => CountedInv'
  BY CountedStep
<1>2. CountedInv => ServiceCountsItsFlows
  <2> SUFFICES ASSUME CountedInv, Paired, PortsNamed(FlowMods), pc = "idle",
                      service_allocator_index < MAX_SERVICES
               PROVE  ServiceCountsItsFlows
    BY DEF ServiceCountsItsFlows
  <2>1. TypeOK /\ CountInv
    BY DEF CountedInv, TableInv
  <2>2. \A a, t : UsesOf(a, t) = UsesNow(a, t)
    BY <2>1, IdleUses
  <2>3. ASSUME NEW s \in Slot, Active(s)
        PROVE  created_services[s].flow_counter =
                 Cardinality(UsesOf(created_services[s].wan_address,
                                    created_services[s].vlan_tag))
    <3>1. PICK a, t : /\ a = created_services[s].wan_address
                      /\ t = created_services[s].vlan_tag
      OBVIOUS
    <3>2. created_services[s].flow_counter = Cardinality(UsesNow(a, t))
      BY <2>1, <2>3, <3>1 DEF CountInv, Serves
    <3> QED
      BY <2>2, <3>1, <3>2
  <2>4. ASSUME NEW fk \in EntryActions, NEW a, NEW t,
               Uses(fk[1], fk[2], a, t)
        PROVE  \E s \in Slot :
                 /\ Active(s)
                 /\ created_services[s].wan_address = a
                 /\ created_services[s].vlan_tag = t
    <3>1. fk \in UsesNow(a, t)
      BY <2>2, <2>4 DEF UsesOf
    <3> QED
      BY <2>1, <3>1 DEF CountInv, Serves
  <2> QED
    BY <2>3, <2>4 DEF ServiceCountsItsFlows
<1> QED
  BY CountedInit, <1>1, <1>2, PTL DEF Spec
=============================================================================
