----------------------------- MODULE FlowTable -----------------------------
(***************************************************************************)
(* The software flow table of ofdatapath: the chain of a double-hashing    *)
(* table and a linear table, the emergency table beside it, and the        *)
(* handlers of datapath.c and private-msg.c that change them (chain.c,     *)
(* table-hash.c, table-linear.c, switch-flow.c).                           *)
(*                                                                         *)
(* One thread runs the handlers, so each of them is one step; between two  *)
(* of them the clock may advance by any number of ticks.                   *)
(***************************************************************************)
EXTENDS Integers, FiniteSets, Sequences, SequencesExt

CONSTANTS
  N_BUCKETS,              \* buckets of each hash subtable (65536)
  TABLE_LINEAR_MAX_FLOWS, \* capacity of a linear table (100)
  Hash(_, _),             \* crc32 of a header for subtable 0 or 1
  NoFlow,                 \* an empty bucket, a null sw_flow pointer
  Controllers,            \* the controllers: each is the set of its flow_mods
  Packets,                \* the headers of the packets that arrive
  Protection              \* TRUE when EMERG_FLOW_PROTECTION may arrive

(***************************************************************************)
(* Data.  A header keeps one field of each kind that the code treats       *)
(* differently: in_port stands for all fields that are always defined,     *)
(* nw_src for the network fields that follow dl_type, tp for the transport *)
(* fields, which follow nw_proto.  An address mask is all or nothing.      *)
(***************************************************************************)
Fields == {"in_port", "dl_type", "nw_proto", "nw_src", "tp"}
IP == 1
ARP == 2
TCP == 6
OFPP_NONE == 65535
HIGHEST == 65535         \* the priority -1 of an exact-match flow
PERMANENT == 0           \* OFP_FLOW_PERMANENT

Header == [Fields -> Nat]
Match  == [flow : Header, wildcards : SUBSET Fields]

(* struct ofp_flow_mod; actions are the ports the flow outputs to.          *)
OfpFlowMod ==
  [command : {"ADD", "MODIFY", "MODIFY_STRICT", "DELETE", "DELETE_STRICT"},
   match : Match, priority : 0 .. HIGHEST, actions : SUBSET Nat,
   out_port : Nat, idle_timeout : Nat, hard_timeout : Nat,
   flags : SUBSET {"SEND_FLOW_REM", "CHECK_OVERLAP", "EMERG"}]

ASSUME TableAssumption ==
  /\ N_BUCKETS \in Nat \ {0}
  /\ TABLE_LINEAR_MAX_FLOWS \in Nat \ {0}
  /\ Protection \in BOOLEAN
  /\ Packets \subseteq Header
  /\ UNION Controllers \subseteq OfpFlowMod

VARIABLES
  FlowMods,  \* the flow_mods of the controller that is connected
  hash2,     \* the two hash subtables: [buckets, n_flows]
  linear,    \* the linear table: [flows, iter_flows, n_flows]
  emerg,     \* the emergency table, a linear table too
  copying,   \* do_protection: the emergency flows still to be copied
  due,       \* dp->last_timeout is not the present second
  sent       \* the messages the last handler sent

tables == <<hash2, linear>>
vars   == <<FlowMods, hash2, linear, emerg, copying, due, sent>>

EmptyLinear == [flows |-> <<>>, iter_flows |-> <<>>, n_flows |-> 0]

(* chain_create *)
Init ==
  /\ FlowMods \in Controllers
  /\ hash2 = [t \in 0 .. 1 |->
       [buckets |-> [b \in 0 .. N_BUCKETS - 1 |-> NoFlow], n_flows |-> 0]]
  /\ linear = EmptyLinear
  /\ emerg = EmptyLinear
  /\ copying = <<>>
  /\ due = FALSE
  /\ sent = {}

-----------------------------------------------------------------------------
(* switch-flow.c: keys and how they match.                                  *)

(* flow_extract_match: fields that the packet type does not define are 0.   *)
flow_extract_match(match) ==
  LET w == match.wildcards
      f == match.flow
      l2 == [f EXCEPT !.nw_proto = 0, !.nw_src = 0, !.tp = 0]
      l3 == [f EXCEPT !.tp = 0]
  IN  IF "dl_type" \in w
      THEN [flow |-> l2, wildcards |-> w \cup {"nw_proto", "nw_src", "tp"}]
      ELSE IF f.dl_type = IP
      THEN IF "nw_proto" \in w
           THEN [flow |-> l3, wildcards |-> w \cup {"tp"}]
           ELSE IF f.nw_proto = TCP
           THEN [flow |-> f, wildcards |-> w]
           ELSE [flow |-> l3, wildcards |-> w \ {"tp"}]
      ELSE IF f.dl_type = ARP
      THEN [flow |-> l3, wildcards |-> w \ {"tp"}]
      ELSE [flow |-> l2, wildcards |-> w]

(* flow_extract: the undefined fields of a packet are 0.                    *)
flow_extract(p) == flow_extract_match([flow |-> p, wildcards |-> {}]).flow

(* struct sw_flow, and the keys that flow_mods give to flows.               *)
Keys == {flow_extract_match(m.match) : m \in UNION Controllers}

SwFlow == [key : Keys, priority : 0 .. HIGHEST, actions : SUBSET Nat,
           idle_timeout : Nat, hard_timeout : Nat, idle_age : Nat, age : Nat,
           send_flow_rem : BOOLEAN, emerg_flow : BOOLEAN]

ASSUME HashAssumption ==
  /\ NoFlow \notin SwFlow
  /\ \A t \in 0 .. 1 :
       /\ \A k \in Keys : Hash(t, k.flow) \in 0 .. N_BUCKETS - 1
       /\ \A p \in Packets : Hash(t, flow_extract(p)) \in 0 .. N_BUCKETS - 1

flow_fields_match(a, b, w) == \A f \in Fields \ w : a[f] = b[f]

flow_matches_1wild(a, b) == flow_fields_match(a.flow, b.flow, b.wildcards)

flow_matches_2wild(a, b) ==
  flow_fields_match(a.flow, b.flow, a.wildcards \cup b.wildcards)

flow_matches_desc(t, d, strict) ==
  /\ strict => d.wildcards = t.wildcards
  /\ flow_matches_1wild(t, d)

flow_has_out_port(flow, out_port) ==
  out_port = OFPP_NONE \/ out_port \in flow.actions

(* What a MODIFY or a DELETE asks for, and the flows it concerns.           *)
Selects(d, flow) ==
  /\ flow_matches_desc(flow.key, d.key, d.strict)
  /\ flow_has_out_port(flow, d.out_port)
  /\ d.strict => flow.priority = d.priority

(* Two flows that are one entry: the later one replaces the earlier one.    *)
SameEntry(f, g) ==
  /\ f.priority = g.priority
  /\ f.key.wildcards = g.key.wildcards
  /\ flow_matches_2wild(f.key, g.key)

(* flow_timeout.  An age counts ticks, up to the first one past the timeout *)
(* (and stays 0 when there is none).                                        *)
IdleExpired(flow) ==
  flow.idle_timeout # PERMANENT /\ flow.idle_age > flow.idle_timeout
HardExpired(flow) ==
  flow.hard_timeout # PERMANENT /\ flow.age > flow.hard_timeout

flow_timeout(flow) == IdleExpired(flow) \/ HardExpired(flow)

Older(age, timeout) ==
  IF timeout = PERMANENT \/ age > timeout THEN age ELSE age + 1

-----------------------------------------------------------------------------
(* table-hash.c.                                                            *)
Buckets == 0 .. N_BUCKETS - 1

(* The buckets that MODIFY and DELETE look at.                              *)
Examined(t, key) ==
  IF key.wildcards = {} THEN {Hash(t, key.flow)} ELSE Buckets

(* find_bucket, table_hash_lookup: the flow of subtable t, or none.         *)
HashHas(h, t, flow) ==
  LET f == h[t].buckets[Hash(t, flow)]
  IN  f # NoFlow /\ f.key.flow = flow

(* table_hash_insert succeeds: an exact key, and a bucket that is empty or  *)
(* holds the same key.                                                      *)
HashAccepts(h, t, f) ==
  /\ f.key.wildcards = {}
  /\ h[t].buckets[Hash(t, f.key.flow)] = NoFlow \/ HashHas(h, t, f.key.flow)

HashPut(h, t, f) ==
  LET b == Hash(t, f.key.flow)
  IN  [h EXCEPT ![t].buckets[b] = f,
                ![t].n_flows = @ + IF h[t].buckets[b] = NoFlow THEN 1 ELSE 0]

(* The buckets of subtable t whose flow a request selects.                  *)
HashSelected(h, t, d) ==
  {b \in Examined(t, d.key) :
     h[t].buckets[b] # NoFlow /\ Selects(d, h[t].buckets[b])}

(* MUTANT of HashModify: the flows are counted but keep their actions.      *)
MutHashModify(h, d, actions) == h

HashModify(h, d, actions) ==
  [t \in 0 .. 1 |->
     [h[t] EXCEPT !.buckets =
        [b \in Buckets |-> IF b \in HashSelected(h, t, d)
                           THEN [h[t].buckets[b] EXCEPT !.actions = actions]
                           ELSE h[t].buckets[b]]]]

(* Empties the buckets in gone[t].                                          *)
HashRemove(h, gone) ==
  [t \in 0 .. 1 |->
     [buckets |-> [b \in Buckets |-> IF b \in gone[t] THEN NoFlow
                                     ELSE h[t].buckets[b]],
      n_flows |-> h[t].n_flows - Cardinality(gone[t])]]

HashFlows(h) ==
  {h[t].buckets[b] : t \in 0 .. 1, b \in Buckets} \ {NoFlow}

-----------------------------------------------------------------------------
(* table-linear.c.  iter_flows is the list for iteration, newest first; an  *)
(* entry is named there by its key and its priority.                        *)
Name(f) == [key |-> f.key, priority |-> f.priority]

(* MUTANT of InsertionPoint: behind every flow, whatever its priority.      *)
MutInsertionPoint(tl, f) ==
  CHOOSE i \in 1 .. Len(tl.flows) + 1 :
    IF \E j \in 1 .. Len(tl.flows) : SameEntry(tl.flows[j], f)
    THEN i <= Len(tl.flows) /\ SameEntry(tl.flows[i], f)
    ELSE i = Len(tl.flows) + 1

(* Where the search of table_linear_insert stops: at the entry itself or in *)
(* front of the first flow of a lower priority.                             *)
InsertionPoint(tl, f) ==
  CHOOSE i \in 1 .. Len(tl.flows) + 1 :
    /\ \A j \in 1 .. i - 1 : ~SameEntry(tl.flows[j], f)
                             /\ tl.flows[j].priority >= f.priority
    /\ i <= Len(tl.flows) => \/ SameEntry(tl.flows[i], f)
                             \/ tl.flows[i].priority < f.priority

Replaces(tl, f) ==
  LET i == InsertionPoint(tl, f)
  IN  i <= Len(tl.flows) /\ SameEntry(tl.flows[i], f)

LinearAccepts(tl, f) ==
  Replaces(tl, f) \/ tl.n_flows < TABLE_LINEAR_MAX_FLOWS

table_linear_insert(tl, f) ==
  LET i == InsertionPoint(tl, f)
  IN  IF Replaces(tl, f)
      THEN [tl EXCEPT
              !.flows = ReplaceAt(@, i, f),
              !.iter_flows = [k \in DOMAIN @ |->
                 IF @[k] = Name(tl.flows[i]) THEN Name(f) ELSE @[k]]]
      ELSE [flows |-> InsertAt(tl.flows, i, f),
            iter_flows |-> <<Name(f)>> \o tl.iter_flows,
            n_flows |-> tl.n_flows + 1]

LinearModify(tl, d, actions) ==
  [tl EXCEPT !.flows = [i \in DOMAIN @ |->
     IF Selects(d, @[i]) THEN [@[i] EXCEPT !.actions = actions] ELSE @[i]]]

LinearFlows(tl) == ToSet(tl.flows)

(* The places in a list that are left, in their order.                      *)
Increasing(K) ==
  CHOOSE e \in [1 .. Cardinality(K) -> K] :
    \A i, j \in 1 .. Cardinality(K) : i < j => e[i] < e[j]

(* The list s without the members of gone: list_remove for each of them.    *)
Without(s, gone) ==
  LET kept == Increasing({i \in 1 .. Len(s) : s[i] \notin gone})
  IN  [k \in DOMAIN kept |-> s[kept[k]]]

LinearRemove(tl, gone) ==
  [flows |-> Without(tl.flows, gone),
   iter_flows |-> Without(tl.iter_flows, {Name(f) : f \in gone}),
   n_flows |-> tl.n_flows - Cardinality(gone)]

-----------------------------------------------------------------------------
(* chain.c, for the chain [hash2, linear].                                  *)
Chain == [hash2 |-> hash2, linear |-> linear]

ChainFlows(c) == HashFlows(c.hash2) \cup LinearFlows(c.linear)

(* chain_lookup: subtable 0, subtable 1, then the linear table in order.    *)
HashFound(c, flow) ==
  {t \in 0 .. 1 : /\ HashHas(c.hash2, t, flow)
                  /\ \A u \in 0 .. t - 1 : ~HashHas(c.hash2, u, flow)}

LinearMatches(c, flow) ==
  {i \in 1 .. Len(c.linear.flows) :
     flow_fields_match(flow, c.linear.flows[i].key.flow,
                       c.linear.flows[i].key.wildcards)}

LinearFound(c, flow) ==
  {i \in LinearMatches(c, flow) : /\ HashFound(c, flow) = {}
                                  /\ \A j \in LinearMatches(c, flow) : i <= j}

(* chain_insert: the first table that takes the flow; [ok |-> FALSE] is     *)
(* -ENOBUFS.                                                                *)
chain_insert(c, f) ==
  IF HashAccepts(c.hash2, 0, f)
  THEN [ok |-> TRUE, chain |-> [c EXCEPT !.hash2 = HashPut(@, 0, f)]]
  ELSE IF HashAccepts(c.hash2, 1, f)
  THEN [ok |-> TRUE, chain |-> [c EXCEPT !.hash2 = HashPut(@, 1, f)]]
  ELSE IF LinearAccepts(c.linear, f)
  THEN [ok |-> TRUE, chain |-> [c EXCEPT !.linear = table_linear_insert(@, f)]]
  ELSE [ok |-> FALSE, chain |-> c]

(* chain_has_conflict, not strict: over the working tables only.            *)
chain_has_conflict(c, key, priority) ==
  \/ \E t \in 0 .. 1, b \in Buckets :
       LET f == c.hash2[t].buckets[b]
       IN  /\ b \in Examined(t, key)
           /\ f # NoFlow
           /\ flow_matches_2wild(f.key, key) /\ f.priority = priority
  \/ \E f \in LinearFlows(c.linear) :
       flow_matches_2wild(f.key, key) /\ f.priority = priority

(* The flows of the chain that a request selects: counted by chain_modify,  *)
(* removed by chain_delete.                                                 *)
ChainSelected(c, d) ==
  {c.hash2[0].buckets[b] : b \in HashSelected(c.hash2, 0, d)}
    \cup {c.hash2[1].buckets[b] : b \in HashSelected(c.hash2, 1, d)}
    \cup {f \in LinearFlows(c.linear) : Selects(d, f)}

chain_delete(c, d) ==
  [hash2 |-> HashRemove(c.hash2, [t \in 0 .. 1 |-> HashSelected(c.hash2, t, d)]),
   linear |-> LinearRemove(c.linear,
                           {f \in LinearFlows(c.linear) : Selects(d, f)})]

-----------------------------------------------------------------------------
(* datapath.c: messages.                                                    *)
Error(code) == [type |-> "ERROR", code |-> code]

(* flow->reason: what ended the flow.                                       *)
TimedOut(f) == IF IdleExpired(f) THEN "IDLE_TIMEOUT" ELSE "HARD_TIMEOUT"
Reason(f, deleted) == IF deleted THEN "DELETE" ELSE TimedOut(f)

(* MUTANT of dp_send_flow_end: nothing is said about exact-match flows.     *)
MutSendFlowEnd(flows, deleted) ==
  {[type |-> "FLOW_REMOVED", entry |-> Name(f), reason |-> Reason(f, deleted)] :
     f \in {g \in flows : g.send_flow_rem /\ ~g.emerg_flow
                          /\ g.key.wildcards # {}}}

(* dp_send_flow_end for each of the flows.                                  *)
dp_send_flow_end(flows, deleted) ==
  {[type |-> "FLOW_REMOVED", entry |-> Name(f), reason |-> Reason(f, deleted)] :
     f \in {g \in flows : g.send_flow_rem /\ ~g.emerg_flow}}

(* validate_output, for every output of the list.                           *)
validate_actions(key, actions) ==
  \A p \in actions :
    /\ p # OFPP_NONE
    /\ "in_port" \in key.wildcards \/ p # key.flow.in_port

Emerg(ofm) == "EMERG" \in ofm.flags

Priority(ofm, key) == IF key.wildcards # {} THEN ofm.priority ELSE HIGHEST

(* "Fill out flow."                                                         *)
NewFlow(ofm) ==
  LET key == flow_extract_match(ofm.match)
  IN  [key |-> key, priority |-> Priority(ofm, key), actions |-> ofm.actions,
       idle_timeout |-> ofm.idle_timeout, hard_timeout |-> ofm.hard_timeout,
       idle_age |-> 0, age |-> 0,
       send_flow_rem |-> "SEND_FLOW_REM" \in ofm.flags,
       emerg_flow |-> Emerg(ofm)]

Request(ofm, strict, out_port) ==
  LET key == flow_extract_match(ofm.match)
  IN  [key |-> key, priority |-> Priority(ofm, key), strict |-> strict,
       out_port |-> out_port]

Working(c) == hash2' = c.hash2 /\ linear' = c.linear

(* No handler is in the middle of its loop.                                 *)
Idle == copying = <<>>

(* The call of chain_insert in add_flow and mod_flow, with its error.       *)
Insert(f) ==
  IF f.emerg_flow
  THEN /\ UNCHANGED tables
       /\ IF LinearAccepts(emerg, f)
          THEN emerg' = table_linear_insert(emerg, f) /\ sent' = {}
          ELSE UNCHANGED emerg /\ sent' = {Error("ALL_TABLES_FULL")}
  ELSE LET r == chain_insert(Chain, f)
       IN  /\ Working(r.chain)
           /\ UNCHANGED emerg
           /\ sent' = IF r.ok THEN {} ELSE {Error("ALL_TABLES_FULL")}

Refuse(code) == UNCHANGED <<tables, emerg>> /\ sent' = {Error(code)}

(* MUTANT of Overlaps: the flag is not looked at.                           *)
MutOverlaps(ofm, f) == FALSE

Overlaps(ofm, f) ==
  /\ "CHECK_OVERLAP" \in ofm.flags
  /\ chain_has_conflict(Chain, f.key, f.priority)

(* add_flow.                                                                *)
AddFlow ==
  /\ Idle
  /\ \E ofm \in FlowMods :
       LET f == NewFlow(ofm)
       IN  /\ ofm.command = "ADD"
           /\ IF ~validate_actions(f.key, f.actions) THEN Refuse("BAD_OUT_PORT")
              ELSE IF Overlaps(ofm, f) THEN Refuse("OVERLAP")
              ELSE IF /\ Emerg(ofm)
                      /\ \/ f.idle_timeout # PERMANENT
                         \/ f.hard_timeout # PERMANENT
              THEN Refuse("BAD_EMERG_TIMEOUT")
              ELSE Insert(f)
  /\ UNCHANGED <<FlowMods, copying, due>>

(* mod_flow: the flow is added when there is nothing to modify.             *)
ModFlow ==
  /\ Idle
  /\ \E ofm \in FlowMods :
       LET f == NewFlow(ofm)
           d == Request(ofm, ofm.command = "MODIFY_STRICT", OFPP_NONE)
       IN  /\ ofm.command \in {"MODIFY", "MODIFY_STRICT"}
           /\ IF ~validate_actions(f.key, f.actions) THEN Refuse("BAD_OUT_PORT")
              ELSE IF Emerg(ofm)
              THEN IF \E g \in LinearFlows(emerg) : Selects(d, g)
                   THEN /\ emerg' = LinearModify(emerg, d, ofm.actions)
                        /\ sent' = {}
                        /\ UNCHANGED tables
                   ELSE Insert(f)
              ELSE IF ChainSelected(Chain, d) # {}
                   THEN /\ hash2' = HashModify(hash2, d, ofm.actions)
                        /\ linear' = LinearModify(linear, d, ofm.actions)
                        /\ sent' = {}
                        /\ UNCHANGED emerg
                   ELSE Insert(f)
  /\ UNCHANGED <<FlowMods, copying, due>>

(* recv_flow, OFPFC_DELETE and OFPFC_DELETE_STRICT.                         *)
DeleteFlows ==
  /\ Idle
  /\ \E ofm \in FlowMods :
       LET d == Request(ofm, ofm.command = "DELETE_STRICT", ofm.out_port)
           gone == {g \in LinearFlows(emerg) : Selects(d, g)}
       IN  /\ ofm.command \in {"DELETE", "DELETE_STRICT"}
           /\ IF Emerg(ofm)
              THEN /\ emerg' = LinearRemove(emerg, gone)
                   /\ sent' = dp_send_flow_end(gone, TRUE)
                   /\ UNCHANGED tables
              ELSE /\ Working(chain_delete(Chain, d))
                   /\ sent' = dp_send_flow_end(ChainSelected(Chain, d), TRUE)
                   /\ UNCHANGED emerg
  /\ UNCHANGED <<FlowMods, copying, due>>

-----------------------------------------------------------------------------
(* private-msg.c, EMERG_FLOW_PROTECTION: flush_working and do_protection.   *)
Everything == [key |-> [flow |-> [f \in Fields |-> 0], wildcards |-> Fields],
               priority |-> 0, strict |-> FALSE, out_port |-> OFPP_NONE]

(* protection_callback: a permanent copy; its priority is kept.             *)
ProtectionFlow(name) ==
  LET f == CHOOSE g \in LinearFlows(emerg) : Name(g) = name
  IN  [f EXCEPT !.key = flow_extract_match(f.key),
                !.idle_timeout = PERMANENT, !.hard_timeout = PERMANENT,
                !.idle_age = 0, !.age = 0, !.emerg_flow = FALSE]

EmergProtection ==
  /\ Protection /\ Idle
  /\ Working(chain_delete(Chain, Everything))
  /\ copying' = emerg.iter_flows
  /\ sent' = dp_send_flow_end(ChainSelected(Chain, Everything), TRUE)
  /\ UNCHANGED <<FlowMods, emerg, due>>

(* One iteration of do_protection.  The first error ends the loop.          *)
CopyEmergFlow ==
  LET r == chain_insert(Chain, ProtectionFlow(Head(copying)))
  IN  /\ ~Idle
      /\ Working(r.chain)
      /\ copying' = IF r.ok THEN Tail(copying) ELSE <<>>
      /\ sent' = {}
      /\ UNCHANGED <<FlowMods, emerg, due>>

-----------------------------------------------------------------------------
(* fwd_port_input, run_flow_through_tables: flow_used on the flow that was  *)
(* found.  (A packet that is dropped as a fragment or by its port changes   *)
(* nothing here.)                                                           *)
PacketInHash ==
  /\ Idle
  /\ \E p \in Packets : \E t \in HashFound(Chain, flow_extract(p)) :
       hash2' = [hash2 EXCEPT
         ![t].buckets[Hash(t, flow_extract(p))].idle_age = 0]
  /\ sent' = {}
  /\ UNCHANGED <<FlowMods, linear, emerg, copying, due>>

PacketInLinear ==
  /\ Idle
  /\ \E p \in Packets : \E i \in LinearFound(Chain, flow_extract(p)) :
       linear' = [linear EXCEPT !.flows[i].idle_age = 0]
  /\ sent' = {}
  /\ UNCHANGED <<FlowMods, hash2, emerg, copying, due>>

PacketMiss ==
  /\ Idle
  /\ \E p \in Packets : /\ HashFound(Chain, flow_extract(p)) = {}
                        /\ LinearFound(Chain, flow_extract(p)) = {}
  /\ sent' = {[type |-> "PACKET_IN"]}
  /\ UNCHANGED <<FlowMods, tables, emerg, copying, due>>

-----------------------------------------------------------------------------
(* The clock advances by one tick; a tick is a fraction of a second, and    *)
(* the timeouts are counted in ticks.                                       *)
Aged(f) == [f EXCEPT !.idle_age = Older(@, f.idle_timeout),
                     !.age = Older(@, f.hard_timeout)]

Tick ==
  /\ Idle
  /\ hash2' = [t \in 0 .. 1 |-> [hash2[t] EXCEPT !.buckets =
       [b \in Buckets |-> IF @[b] = NoFlow THEN NoFlow ELSE Aged(@[b])]]]
  /\ linear' = [linear EXCEPT !.flows = [i \in DOMAIN @ |-> Aged(@[i])]]
  /\ due' = TRUE
  /\ sent' = {}
  /\ UNCHANGED <<FlowMods, emerg, copying>>

(* MUTANT of Timeout: the linear table is not swept.                        *)
MutTimeout ==
  /\ Idle /\ due /\ due' = FALSE
  /\ hash2' = HashRemove(hash2, [t \in 0 .. 1 |->
       {b \in Buckets : hash2[t].buckets[b] # NoFlow
                          /\ flow_timeout(hash2[t].buckets[b])}])
  /\ sent' = dp_send_flow_end({f \in HashFlows(hash2) : flow_timeout(f)}, FALSE)
  /\ UNCHANGED <<FlowMods, linear, emerg, copying>>

(* dp_run, once a second: chain_timeout and the messages for its flows.     *)
Timeout ==
  LET gone(t) == {b \in Buckets : hash2[t].buckets[b] # NoFlow
                                   /\ flow_timeout(hash2[t].buckets[b])}
      goneLinear == {f \in LinearFlows(linear) : flow_timeout(f)}
  IN  /\ Idle /\ due
      /\ due' = FALSE
      /\ hash2' = HashRemove(hash2, [t \in 0 .. 1 |-> gone(t)])
      /\ linear' = LinearRemove(linear, goneLinear)
      /\ sent' = dp_send_flow_end(
           {f \in ChainFlows(Chain) : flow_timeout(f)}, FALSE)
      /\ UNCHANGED <<FlowMods, emerg, copying>>

Next ==
  \/ AddFlow \/ ModFlow \/ DeleteFlows
  \/ EmergProtection \/ CopyEmergFlow
  \/ PacketInHash \/ PacketInLinear \/ PacketMiss
  \/ Tick \/ Timeout

Spec == Init /\ [][Next]_vars

(* The poll loop wakes up at least once a second (poll_timer_wait(1000) in  *)
(* dp_run) and looks at the clock first; a handler that has begun ends.     *)
FairSpec == Spec /\ WF_vars(Timeout) /\ WF_vars(CopyEmergFlow)

-----------------------------------------------------------------------------
(* PROPERTIES *)

(* The flow the chain finds for a packet has the highest priority of all    *)
(* flows that match the packet, in whichever table they are, and a packet   *)
(* misses only when no flow matches it.  It takes the order of the linear   *)
(* table, the priority given to exact-match flows and the keys normalised   *)
(* by flow_extract_match together.                                          *)
Matching(flow) ==
  {f \in ChainFlows(Chain) :
     flow_fields_match(flow, f.key.flow, f.key.wildcards)}

Found(flow) ==
  {hash2[t].buckets[Hash(t, flow)] : t \in HashFound(Chain, flow)}
    \cup {linear.flows[i] : i \in LinearFound(Chain, flow)}

LookupFindsHighest ==
  \A p \in Packets :
    LET flow == flow_extract(p)
    IN  /\ Matching(flow) # {} => Found(flow) # {}
        /\ \A f \in Found(flow) :
             /\ f \in Matching(flow)
             /\ \A g \in Matching(flow) : g.priority <= f.priority

(* A flow with SEND_FLOW_REM never vanishes silently: when it leaves the    *)
(* working tables, by a DELETE, a timeout or the flush of the emergency     *)
(* protection, a FLOW_REMOVED is sent for it, unless a newer flow took its  *)
(* place as the same entry.  And no FLOW_REMOVED names any other flow.      *)
Reported ==
  LET before == {f \in ChainFlows(Chain) : f.send_flow_rem}
      named == {m.entry : m \in {n \in sent' : n.type = "FLOW_REMOVED"}}
  IN  /\ \A f \in before : \/ Name(f) \in named
                           \/ \E g \in ChainFlows(Chain)' : SameEntry(f, g)
      /\ named \subseteq {Name(f) : f \in before}

RemovalsReported == [][Reported]_vars

(* Every flow that is past one of its timeouts leaves the working tables,   *)
(* also when new ones keep coming.                                          *)
OverdueFlowsLeave ==
  []<>(\A f \in ChainFlows(Chain) : ~flow_timeout(f))

(* All places in the working tables that hold a flow.                       *)
Places ==
  {p \in (0 .. 1) \X Buckets : hash2[p[1]].buckets[p[2]] # NoFlow}
    \cup {<<2, i>> : i \in 1 .. Len(linear.flows)}

At(place) == IF place[1] = 2 THEN linear.flows[place[2]]
             ELSE hash2[place[1]].buckets[place[2]]

(* A controller that only adds flows with CHECK_OVERLAP, and no emergency   *)
(* flows.                                                                   *)
AlwaysChecks ==
  \A m \in FlowMods : /\ m.command \notin {"MODIFY", "MODIFY_STRICT"}
                      /\ m.command = "ADD" => /\ "CHECK_OVERLAP" \in m.flags
                                             /\ ~Emerg(m)

(* A controller that adds flows with CHECK_OVERLAP, never by a MODIFY       *)
(* (which does not look at the flag) and no emergency flows (which are only *)
(* compared with the working tables, and copied there unchecked), gets a    *)
(* table in which no packet can match two flows of one priority, wherever   *)
(* collisions put them.                                                     *)
NoOverlap ==
  AlwaysChecks => \A p, q \in Places :
    p # q /\ At(p).priority = At(q).priority =>
      ~flow_matches_2wild(At(p).key, At(q).key)
=============================================================================
