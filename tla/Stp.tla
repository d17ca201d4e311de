--------------------------------- MODULE Stp ---------------------------------
(***************************************************************************)
(* The spanning tree protocol of ofprotocol: lib/stp.c, and stp-secchan.c  *)
(* which runs it on the ports of the switch and sets their NO_FLOOD flags. *)
(*                                                                         *)
(* Several switches are bridges between LANs.  A bridge is a record with   *)
(* the fields of struct stp; an operator with the name of a function of    *)
(* stp.c takes the bridge before the call to the bridge after it.  out     *)
(* holds the BPDUs it sends, which an action then puts on the LANs.        *)
(*                                                                         *)
(* A time unit stands for the second after which stp_wait_cb wakes the     *)
(* main loop; what stp_tick does when it is called sooner is left out.     *)
(* All bridges have the same timeouts, those stp_create sets.              *)
(***************************************************************************)
EXTENDS Integers, Sequences, SequencesExt, FiniteSetsExt

CONSTANTS
  Bridges, NumPorts,
  Networks,        \* functions from Bridges \X Ports to LANs (0: no LAN)
  Orders,          \* in which the bridges may run
  Late,            \* sets of ports that may be down in the beginning
  BridgeIds,       \* of the bridges, and others they may change to
  PathCosts,
  HelloTime, MaxAge, ForwardDelay, HoldTime, MESSAGE_AGE_INCREMENT,
  Builds,          \* byte orders: "big", "little"
  MAX_FAULTS       \* bound: changes of links or bridge ids, and lost BPDUs

Ports  == 1 .. NumPorts
InOrder == [p \in Ports |-> p]

ASSUME StpAssumption ==
  /\ NumPorts \in Nat \ {0} /\ BridgeIds \subseteq Nat /\ Bridges \subseteq BridgeIds
  /\ Networks \subseteq [Bridges \X Ports -> Nat]
  /\ Orders \subseteq SetToSeqs(Bridges) /\ Late \subseteq SUBSET (Bridges \X Ports)
  /\ PathCosts \subseteq Nat \ {0}
  /\ HelloTime > 0 /\ HoldTime > 0
  /\ MaxAge >= 2 * (HelloTime + HoldTime) /\ 2 * (ForwardDelay - HoldTime) >= MaxAge

VARIABLES
  build,           \* the byte order of the machines
  lan,             \* the LAN of each port
  bridge,          \* the bridges, see NewBridge
  flood,           \* flood[b][p]: the datapath floods to the port
  rxq,             \* BPDUs on their way to a port
  order,           \* in which the bridges run in each time unit
  faults           \* how many there were, see MAX_FAULTS

vars == <<build, lan, bridge, flood, rxq, order, faults>>

NULL == 0
Off  == -1         \* a timer that is not active
-----------------------------------------------------------------------------
(* stp.c, from its helpers up.                                              *)

Enabled(s, p) == s.ports[p].state # "DISABLED"

stp_is_root_bridge(s) == s.bridge_id = s.designated_root

stp_is_designated_port(s, p) ==
  s.ports[p].designated_bridge = s.bridge_id /\ s.ports[p].designated_port = p

(* FOR_EACH_ENABLED_PORT.                                                   *)
ForEachEnabledPort(s, Op(_, _)) ==
  FoldLeft(LAMBDA t, p : IF Enabled(t, p) THEN Op(t, p) ELSE t, s, InOrder)

stp_send_bpdu(s, p, bpdu) == [s EXCEPT !.out = Append(@, [port |-> p, bpdu |-> bpdu])]

(* config.flags has one byte and the flags are put through htons, which     *)
(* moves them out of it where the byte order is little endian.              *)
Flag(on) == on /\ build = "big"

stp_transmit_tcn(s) ==
  IF s.root_port = NULL THEN s ELSE stp_send_bpdu(s, s.root_port, [type |-> "tcn"])

(* config.message_age.                                                      *)
MessageAge(s) ==
  IF stp_is_root_bridge(s) THEN 0
  ELSE s.ports[s.root_port].message_age_timer + MESSAGE_AGE_INCREMENT

stp_transmit_config(s, p) ==
  IF ~stp_is_root_bridge(s) /\ s.root_port = NULL THEN s
  ELSE IF s.ports[p].hold_timer # Off THEN [s EXCEPT !.ports[p].config_pending = TRUE]
  ELSE IF MessageAge(s) >= MaxAge THEN s
  ELSE stp_send_bpdu(
         [s EXCEPT !.ports[p].topology_change_ack = FALSE,
                   !.ports[p].config_pending = FALSE,
                   !.ports[p].hold_timer = 0],
         p,
         [type |-> "config",
          ack |-> Flag(s.ports[p].topology_change_ack), change |-> Flag(s.topology_change),
          root_id |-> s.designated_root, root_path_cost |-> s.root_path_cost,
          bridge_id |-> s.bridge_id, port_id |-> p, message_age |-> MessageAge(s)])

stp_config_bpdu_generation(s) ==
  ForEachEnabledPort(s, LAMBDA t, p :
    IF stp_is_designated_port(t, p) THEN stp_transmit_config(t, p) ELSE t)

stp_topology_change_detection(s) ==
  LET t == IF stp_is_root_bridge(s)
           THEN [s EXCEPT !.topology_change = TRUE, !.topology_change_timer = 0]
           ELSE IF ~s.topology_change_detected
           THEN [stp_transmit_tcn(s) EXCEPT !.tcn_timer = 0]
           ELSE s
  IN  [t EXCEPT !.topology_change_detected = TRUE]

stp_set_port_state(s, p, state) ==
  LET new == s.ports[p].state # state /\ ~s.ports[p].state_changed
  IN  [s EXCEPT !.ports[p].state = state,
                !.ports[p].state_changed = @ \/ new,
                !.first_changed_port = IF new THEN Min({p, @}) ELSE @]

stp_make_forwarding(s, p) ==
  IF s.ports[p].state # "BLOCKING" THEN s
  ELSE [stp_set_port_state(s, p, "LISTENING") EXCEPT !.ports[p].forward_delay_timer = 0]

(* MUTANT of stp_make_blocking: a port that does not forward is left alone. *)
MutMakeBlocking(s, p) ==
  IF s.ports[p].state # "FORWARDING" THEN s
  ELSE [stp_set_port_state(stp_topology_change_detection(s), p, "BLOCKING") EXCEPT
          !.ports[p].forward_delay_timer = Off]

stp_make_blocking(s, p) ==
  IF s.ports[p].state \in {"DISABLED", "BLOCKING"} THEN s
  ELSE LET t == IF s.ports[p].state = "LISTENING" THEN s ELSE stp_topology_change_detection(s)
       IN  [stp_set_port_state(t, p, "BLOCKING") EXCEPT !.ports[p].forward_delay_timer = Off]

stp_become_designated_port(s, p) ==
  [s EXCEPT !.ports[p].designated_root = s.designated_root,
            !.ports[p].designated_cost = s.root_path_cost,
            !.ports[p].designated_bridge = s.bridge_id,
            !.ports[p].designated_port = p]

(* Which of two tuples of numbers comes first.                              *)
Precedes(v, w) ==
  \E k \in DOMAIN v : v[k] < w[k] /\ \A j \in 1 .. k - 1 : v[j] = w[j]

stp_supersedes_port_info(s, p, config) ==
  LET i   == s.ports[p]
      new == <<config.root_id, config.root_path_cost, config.bridge_id>>
      old == <<i.designated_root, i.designated_cost, i.designated_bridge>>
  IN  \/ Precedes(new, old)
      \/ /\ new = old
         /\ config.bridge_id # s.bridge_id \/ config.port_id <= i.designated_port

(* MUTANT of PathToRoot: the cost of the port itself is forgotten.          *)
MutPathToRoot(s, p) ==
  LET i == s.ports[p]
  IN  <<i.designated_root, i.designated_cost, i.designated_bridge, i.designated_port, p>>

(* stp_supersedes_root compares these.                                      *)
PathToRoot(s, p) ==
  LET i == s.ports[p]
  IN  <<i.designated_root, i.designated_cost + i.path_cost,
        i.designated_bridge, i.designated_port, p>>

stp_root_selection(s) ==
  LET candidates == {p \in Ports : /\ Enabled(s, p)
                                   /\ ~stp_is_designated_port(s, p)
                                   /\ s.ports[p].designated_root < s.bridge_id}
      root == CHOOSE p \in candidates :
                \A o \in candidates \ {p} : Precedes(PathToRoot(s, p), PathToRoot(s, o))
  IN  IF candidates = {}
      THEN [s EXCEPT !.root_port = NULL, !.designated_root = s.bridge_id, !.root_path_cost = 0]
      ELSE [s EXCEPT !.root_port = root,
                     !.designated_root = s.ports[root].designated_root,
                     !.root_path_cost = s.ports[root].designated_cost + s.ports[root].path_cost]

(* The bridge is closer to the root than the designated bridge of the LAN.  *)
ServesLanBetter(s, p) ==
  LET i   == s.ports[p]
      own == <<s.root_path_cost, s.bridge_id, p>>
      theirs == <<i.designated_cost, i.designated_bridge, i.designated_port>>
  IN  own = theirs \/ Precedes(own, theirs)

stp_designated_port_selection(s) ==
  ForEachEnabledPort(s, LAMBDA t, p :
    IF \/ stp_is_designated_port(t, p)
       \/ t.ports[p].designated_root # t.designated_root
       \/ ServesLanBetter(t, p)
    THEN stp_become_designated_port(t, p) ELSE t)

stp_configuration_update(s) == stp_designated_port_selection(stp_root_selection(s))

stp_port_state_selection(s) ==
  ForEachEnabledPort(s, LAMBDA t, p :
    IF stp_is_designated_port(t, p) /\ p # t.root_port
    THEN stp_make_forwarding([t EXCEPT !.ports[p].message_age_timer = Off], p)
    ELSE LET u == [t EXCEPT !.ports[p].config_pending = FALSE,
                            !.ports[p].topology_change_ack = FALSE]
         IN  IF p = t.root_port THEN stp_make_forwarding(u, p) ELSE stp_make_blocking(u, p))

stp_become_root_bridge(s) ==
  [stp_config_bpdu_generation([stp_topology_change_detection(s) EXCEPT !.tcn_timer = Off])
     EXCEPT !.hello_timer = 0]

(* What stp_port_disable, set_bridge_id and the expiry of a message age end *)
(* with: s was changed from a bridge which was the root or not.             *)
Reconsider(s, wasRoot) ==
  LET t == stp_port_state_selection(stp_configuration_update(s))
  IN  IF stp_is_root_bridge(t) /\ ~wasRoot THEN stp_become_root_bridge(t) ELSE t

stp_initialize_port(s, p, state) ==
  [stp_set_port_state(stp_become_designated_port(s, p), p, state) EXCEPT
     !.ports[p].topology_change_ack = FALSE, !.ports[p].config_pending = FALSE,
     !.ports[p].message_age_timer = Off, !.ports[p].forward_delay_timer = Off,
     !.ports[p].hold_timer = Off]

stp_port_enable(s, p) ==
  IF Enabled(s, p) THEN s
  ELSE stp_port_state_selection(stp_initialize_port(s, p, "BLOCKING"))

stp_port_disable(s, p) ==
  IF ~Enabled(s, p) THEN s
  ELSE Reconsider([stp_set_port_state(stp_become_designated_port(s, p), p, "DISABLED") EXCEPT
                     !.ports[p].topology_change_ack = FALSE, !.ports[p].config_pending = FALSE,
                     !.ports[p].message_age_timer = Off, !.ports[p].forward_delay_timer = Off],
                  stp_is_root_bridge(s))

stp_port_set_path_cost(s, p, cost) ==
  IF s.ports[p].path_cost = cost THEN s
  ELSE stp_port_state_selection(stp_configuration_update([s EXCEPT !.ports[p].path_cost = cost]))

set_bridge_id(s, id) ==
  LET t == ForEachEnabledPort(s, LAMBDA u, p :
             IF stp_is_designated_port(s, p) THEN [u EXCEPT !.ports[p].designated_bridge = id]
             ELSE u)
  IN  IF id = s.bridge_id THEN s
      ELSE Reconsider([t EXCEPT !.bridge_id = id], stp_is_root_bridge(s))

-----------------------------------------------------------------------------
(* stp_received_bpdu.                                                       *)

stp_record_config_information(s, p, config) ==
  [s EXCEPT !.ports[p].designated_root = config.root_id,
            !.ports[p].designated_cost = config.root_path_cost,
            !.ports[p].designated_bridge = config.bridge_id,
            !.ports[p].designated_port = config.port_id,
            !.ports[p].message_age_timer = config.message_age]

(* MUTANT of YieldsRoot: the hellos go on.                                  *)
MutYieldsRoot(s) ==
  IF ~s.topology_change_detected THEN s
  ELSE [stp_transmit_tcn([s EXCEPT !.topology_change_timer = Off]) EXCEPT !.tcn_timer = 0]

(* A bridge that is no longer the root leaves the hellos to the new one.    *)
YieldsRoot(s) ==
  LET t == [s EXCEPT !.hello_timer = Off]
  IN  IF ~s.topology_change_detected THEN t
      ELSE [stp_transmit_tcn([t EXCEPT !.topology_change_timer = Off]) EXCEPT !.tcn_timer = 0]

(* MUTANT of PassesOn: the acknowledgement is not looked at.                *)
MutPassesOn(s, config) ==
  stp_config_bpdu_generation([s EXCEPT !.topology_change = config.change])

(* What comes from the root is passed on, with its flags.                   *)
PassesOn(s, config) ==
  LET t == stp_config_bpdu_generation([s EXCEPT !.topology_change = config.change])
  IN  IF config.ack THEN [t EXCEPT !.topology_change_detected = FALSE, !.tcn_timer = Off] ELSE t

stp_received_config_bpdu(s, p, config) ==
  IF config.message_age >= MaxAge THEN s
  ELSE IF stp_supersedes_port_info(s, p, config)
  THEN LET t == stp_port_state_selection(
                  stp_configuration_update(stp_record_config_information(s, p, config)))
           u == IF stp_is_root_bridge(s) /\ ~stp_is_root_bridge(t) THEN YieldsRoot(t) ELSE t
       IN  IF p = u.root_port THEN PassesOn(u, config) ELSE u
  ELSE IF stp_is_designated_port(s, p) THEN stp_transmit_config(s, p)
  ELSE s

stp_acknowledge_topology_change(s, p) ==
  stp_transmit_config([s EXCEPT !.ports[p].topology_change_ack = TRUE], p)

stp_received_tcn_bpdu(s, p) ==
  IF ~stp_is_designated_port(s, p) THEN s
  ELSE stp_acknowledge_topology_change(stp_topology_change_detection(s), p)

stp_received_bpdu(s, p, bpdu) ==
  IF ~Enabled(s, p) THEN s
  ELSE IF bpdu.type = "config" THEN stp_received_config_bpdu(s, p, bpdu)
  ELSE stp_received_tcn_bpdu(s, p)

-----------------------------------------------------------------------------
(* stp_tick: one unit of time passes for each timer in turn.                *)

Expires(timer, timeout) == timer # Off /\ timer + 1 >= timeout
Advance(timer, timeout) == IF timer = Off \/ Expires(timer, timeout) THEN Off ELSE timer + 1

TickHello(s) ==
  LET t == [s EXCEPT !.hello_timer = Advance(@, HelloTime)]
  IN  IF ~Expires(s.hello_timer, HelloTime) THEN t
      ELSE [stp_config_bpdu_generation(t) EXCEPT !.hello_timer = 0]

TickTcn(s) ==
  IF Expires(s.tcn_timer, HelloTime) THEN [stp_transmit_tcn(s) EXCEPT !.tcn_timer = 0]
  ELSE [s EXCEPT !.tcn_timer = Advance(@, HelloTime)]

TickTopologyChange(s) ==
  LET t == [s EXCEPT !.topology_change_timer = Advance(@, MaxAge + ForwardDelay)]
  IN  IF ~Expires(s.topology_change_timer, MaxAge + ForwardDelay) THEN t
      ELSE [t EXCEPT !.topology_change_detected = FALSE, !.topology_change = FALSE]

stp_message_age_timer_expiry(s, p) ==
  Reconsider(stp_become_designated_port(s, p), stp_is_root_bridge(s))

TickMessageAge(s, p) ==
  LET t == [s EXCEPT !.ports[p].message_age_timer = Advance(@, MaxAge)]
  IN  IF Expires(s.ports[p].message_age_timer, MaxAge)
      THEN stp_message_age_timer_expiry(t, p) ELSE t

stp_forward_delay_timer_expiry(s, p) ==
  IF s.ports[p].state = "LISTENING"
  THEN [stp_set_port_state(s, p, "LEARNING") EXCEPT !.ports[p].forward_delay_timer = 0]
  ELSE IF s.ports[p].state # "LEARNING" THEN s
  ELSE LET t == stp_set_port_state(s, p, "FORWARDING")
       IN  IF \E o \in Ports : Enabled(s, o) /\ s.ports[o].designated_bridge = s.bridge_id
           THEN stp_topology_change_detection(t) ELSE t

TickForwardDelay(s, p) ==
  LET t == [s EXCEPT !.ports[p].forward_delay_timer = Advance(@, ForwardDelay)]
  IN  IF Expires(s.ports[p].forward_delay_timer, ForwardDelay)
      THEN stp_forward_delay_timer_expiry(t, p) ELSE t

TickHold(s, p) ==
  LET t == [s EXCEPT !.ports[p].hold_timer = Advance(@, HoldTime)]
  IN  IF Expires(s.ports[p].hold_timer, HoldTime) /\ s.ports[p].config_pending
      THEN stp_transmit_config(t, p) ELSE t

stp_tick(s) ==
  LET t == ForEachEnabledPort(TickTopologyChange(TickTcn(TickHello(s))), TickMessageAge)
  IN  ForEachEnabledPort(t, LAMBDA u, p : TickHold(TickForwardDelay(u, p), p))

-----------------------------------------------------------------------------
(* stp_create, and the ports as the first features reply has them.          *)
NewBridge(id, up) ==
  LET port == [state |-> "DISABLED", path_cost |-> Min(PathCosts), designated_root |-> id,
               designated_cost |-> 0, designated_bridge |-> id, designated_port |-> 0,
               topology_change_ack |-> FALSE, config_pending |-> FALSE,
               message_age_timer |-> Off, forward_delay_timer |-> Off, hold_timer |-> Off,
               state_changed |-> FALSE]
      s == [bridge_id |-> id, designated_root |-> id, root_path_cost |-> 0, root_port |-> NULL,
            topology_change_detected |-> FALSE, topology_change |-> FALSE,
            hello_timer |-> 0, tcn_timer |-> Off, topology_change_timer |-> Off,
            ports |-> [p \in Ports |-> [port EXCEPT !.designated_port = p]],
            first_changed_port |-> NumPorts + 1, out |-> <<>>]
  IN  FoldLeft(LAMBDA t, p : IF p \in up THEN stp_port_enable(t, p) ELSE t, s, InOrder)

Init ==
  /\ build \in Builds /\ lan \in Networks
  /\ \E down \in Late : bridge = [b \in Bridges |->
       NewBridge(b, {p \in Ports : lan[b, p] # 0 /\ <<b, p>> \notin down})]
  /\ flood = [b \in Bridges |-> [p \in Ports |-> TRUE]]
  /\ rxq = [q \in Bridges \X Ports |-> <<>>]
  /\ order \in Orders
  /\ faults = 0

-----------------------------------------------------------------------------
(* Bridge b becomes s, and what it sends reaches the other ports on the LAN *)
(* behind the BPDUs in q.                                                   *)
Becomes(b, s, q) ==
  LET hears(r, o) == r # <<b, o.port>> /\ lan[r] # 0 /\ lan[r] = lan[b, o.port]
      heard(r)    == SelectSeq(s.out, LAMBDA o : hears(r, o))
  IN  /\ bridge' = [bridge EXCEPT ![b] = [s EXCEPT !.out = <<>>]]
      /\ rxq' = [r \in Bridges \X Ports |->
                   q[r] \o [k \in DOMAIN heard(r) |-> heard(r)[k].bpdu]]

stp_forward_in_state(state) == state \in {"DISABLED", "FORWARDING"}

(* The ports stp_get_changed_port returns.                                  *)
ChangedPorts(s) == {p \in Ports : p >= s.first_changed_port /\ s.ports[p].state_changed}

(* BPDUs take no time: the next second comes when none is on its way.  A    *)
(* port with OFPPC_NO_STP is disabled like one whose link is down           *)
(* (stp_port_changed_cb), but its flags are left alone.                     *)
stp_periodic_cb(b) ==
  LET s == stp_tick(bridge[b])
  IN  /\ b = Head(order) /\ order' = Append(Tail(order), b)
      /\ \A r \in Bridges \X Ports : rxq[r] = <<>>
      /\ \E noStp \in SUBSET {p \in ChangedPorts(s) : ~Enabled(s, p)} :
           flood' = [flood EXCEPT ![b] =
             [p \in Ports |-> IF p \in ChangedPorts(s) \ noStp
                              THEN stp_forward_in_state(s.ports[p].state) ELSE @[p]]]
      /\ Becomes(b,
           [s EXCEPT !.first_changed_port = NumPorts + 1,
                     !.ports = [p \in Ports |-> IF p \in ChangedPorts(s)
                                                THEN [@[p] EXCEPT !.state_changed = FALSE]
                                                ELSE @[p]]],
           rxq)
      /\ UNCHANGED <<build, lan, faults>>

(* stp_local_packet_cb: a packet-in with a BPDU (on a port with             *)
(* OFPPC_NO_STP it goes to the controller; the bridge would ignore it too). *)
stp_local_packet_cb(b, p) ==
  /\ rxq[b, p] # <<>>
  /\ Becomes(b, stp_received_bpdu(bridge[b], p, Head(rxq[b, p])), [rxq EXCEPT ![b, p] = Tail(@)])
  /\ UNCHANGED <<build, lan, flood, order, faults>>

Fault == faults < MAX_FAULTS /\ faults' = faults + 1

Lose(b, p) ==
  /\ rxq[b, p] # <<>> /\ Fault
  /\ rxq' = [rxq EXCEPT ![b, p] = Tail(@)]
  /\ UNCHANGED <<build, lan, bridge, flood, order>>

Changing == Fault /\ UNCHANGED <<build, lan, flood, order>>

(* stp_port_changed_cb: the link of a port goes down or the port gets       *)
(* OFPPC_NO_STP, ...                                                        *)
PortDown(b, p) ==
  /\ Changing /\ Enabled(bridge[b], p)
  /\ Becomes(b, stp_port_disable(bridge[b], p), rxq)

(* ... it comes up, loses the flag, or changes its speed.                   *)
PortUp(b, p) ==
  /\ Changing /\ lan[b, p] # 0
  /\ \E cost \in PathCosts :
       /\ ~Enabled(bridge[b], p) \/ bridge[b].ports[p].path_cost # cost
       /\ Becomes(b, stp_port_set_path_cost(stp_port_enable(bridge[b], p), p, cost), rxq)

(* stp_local_port_changed_cb: the local port has another address.           *)
LocalPortChanged(b) ==
  /\ Changing
  /\ \E id \in BridgeIds \ (Bridges \cup {bridge[c].bridge_id : c \in Bridges}) :
       Becomes(b, set_bridge_id(bridge[b], id), rxq)

Next ==
  \/ \E b \in Bridges : stp_periodic_cb(b) \/ LocalPortChanged(b)
  \/ \E b \in Bridges, p \in Ports :
       stp_local_packet_cb(b, p) \/ Lose(b, p) \/ PortDown(b, p) \/ PortUp(b, p)

Spec == Init /\ [][Next]_vars

(* Every bridge runs, and BPDUs arrive.  One of them always can do so: this *)
(* is the weak fairness of the two actions, said without ENABLED.           *)
FairSpec == Spec /\ []<><<UNCHANGED faults>>_vars

-----------------------------------------------------------------------------
(* PROPERTIES *)

InState(b, states) == {p \in Ports : bridge[b].ports[p].state \in states}

(* Frames never go round: there are no LANs and bridges with forwarding     *)
(* ports that form a cycle, while the tree is built, when links come and go *)
(* and when BPDUs are lost.                                                 *)
NoLoop ==
  LET sameIds    == \A b \in Bridges : bridge[b].bridge_id = b
      forwarding == UNION {{b} \X InState(b, {"FORWARDING"}) : b \in Bridges}
      twice(S, key(_)) == \A e \in S : \E f \in S \ {e} : key(f) = key(e)
  IN  sameIds => \A S \in SUBSET forwarding :
        S # {} => ~(twice(S, LAMBDA e : e[1]) /\ twice(S, LAMBDA e : lan[e]))

Up == {r \in Bridges \X Ports : Enabled(bridge[r[1]], r[2])}
Linked ==
  LET up == Up
  IN  {e \in Bridges \X Bridges : \E p, q \in Ports :
         <<e[1], p>> \in up /\ <<e[2], q>> \in up /\ lan[e[1], p] = lan[e[2], q]}
Reachable(b) ==
  LET linked    == Linked
      closed(S) == \A e \in linked : e[1] \in S => e[2] \in S
  IN  {c \in Bridges : \A S \in SUBSET Bridges : b \in S /\ closed(S) => c \in S}

(* The tree IEEE 802.1D asks for.                                           *)
Root(b) == Min({bridge[c].bridge_id : c \in Reachable(b)})
Offer(r) == <<bridge[r[1]].root_path_cost, bridge[r[1]].bridge_id, r[2]>>
Tree ==
  LET up == Up
      designated(r) == \A o \in up : o # r /\ lan[o] = lan[r] => Precedes(Offer(r), Offer(o))
  IN  \A b \in Bridges :
        LET s    == bridge[b]
            root == Root(b)
            via(p) == {bridge[r[1]].root_path_cost + s.ports[p].path_cost :
                         r \in {r \in up : r[1] # b /\ lan[r] = lan[b, p]}}
        IN  /\ s.designated_root = root
            /\ IF root = s.bridge_id THEN s.root_port = NULL /\ s.root_path_cost = 0
               ELSE s.root_path_cost = Min(UNION {via(p) : p \in {p \in Ports : <<b, p>> \in up}})
            /\ \A p \in Ports : <<b, p>> \in up =>
                 s.ports[p].state = IF p = s.root_port \/ designated(<<b, p>>)
                                    THEN "FORWARDING" ELSE "BLOCKING"

(* Once links and addresses stop changing, the bridges agree on the tree    *)
(* and stay with it: the lowest bridge id is the root, paths are the        *)
(* shortest, one port of a LAN is designated, all others block.             *)
TreeFound == <>[]Tree

(* Nobody believes in a root for ever: information from another bridge has  *)
(* a timer running, and the root, and only the root, sends hellos.  The     *)
(* hellos of a bridge with two ports on one LAN are left out once its id    *)
(* changed: set_bridge_id lets them go on when the blocked port, which      *)
(* still has the old id, becomes its root port.                             *)
BeliefsAge ==
  \A b \in Bridges :
    LET s == bridge[b]
        hearsItself == \E p, q \in Ports : p # q /\ lan[b, p] = lan[b, q] /\ lan[b, p] # 0
    IN  /\ s.bridge_id = b \/ ~hearsItself
             => ((s.hello_timer # Off) <=> stp_is_root_bridge(s))
        /\ \A p \in Ports : Enabled(s, p) /\ ~stp_is_designated_port(s, p)
                              => s.ports[p].message_age_timer # Off

(* What becomes of a topology change once the network is quiet.  In every   *)
(* build the root alone goes on telling of a change, and exactly as long as *)
(* another bridge goes on reporting one.  Where the byte order is big       *)
(* endian the reports are acknowledged, so that nothing is left of it.  On  *)
(* a little endian machine they are not: htons moves the flag out of the    *)
(* byte (stp_transmit_config), and a bridge that has reported a change      *)
(* keeps the root from forgetting it for as long as both are there.         *)
ChangesForgotten ==
  LET reported(b) == \E c \in Bridges \ {b} :
                       bridge[c].topology_change_detected /\ c \in Reachable(b)
  IN  <>[](\A b \in Bridges :
             /\ bridge[b].topology_change <=> stp_is_root_bridge(bridge[b]) /\ reported(b)
             /\ build = "big" => ~bridge[b].topology_change_detected)
=============================================================================
