----------------------------- MODULE StatsDump -----------------------------
(***************************************************************************)
(* The reply to a flow statistics request (datapath.c: recv_stats_request, *)
(* stats_dump, flow_stats_dump; the iterate functions of table-hash.c and  *)
(* table-linear.c).                                                        *)
(*                                                                         *)
(* The reply takes several messages.  Each of them is filled in one go,    *)
(* but between two of them the poll loop runs other handlers (timeouts,    *)
(* flow_mods of another connection) that change the tables; the place to   *)
(* go on from is kept in a sw_table_position of unsigned long words.       *)
(***************************************************************************)
EXTENDS Integers, FiniteSets

CONSTANTS
  ExactFlows, WildFlows,  \* the flows that come and go
  Hash(_, _),             \* the bucket of an exact flow in subtable 0 or 1
  N_BUCKETS,
  NoFlow,                 \* a null sw_flow pointer
  PAGE,                   \* flows that fill a message (MAX_FLOW_STATS_BYTES)
  ULONG_MAX,
  MAX_SERIAL              \* bound: serials given to flows

Flows == ExactFlows \cup WildFlows

ASSUME DumpAssumption ==
  /\ N_BUCKETS \in Nat \ {0} /\ PAGE \in Nat \ {0}
  /\ ULONG_MAX \in Nat /\ N_BUCKETS < ULONG_MAX
  /\ MAX_SERIAL \in Nat /\ MAX_SERIAL < ULONG_MAX
  /\ ExactFlows \cap WildFlows = {}
  /\ NoFlow \notin Flows
  /\ \A t \in 0 .. 1, f \in ExactFlows : Hash(t, f) \in 0 .. N_BUCKETS - 1

Buckets == 0 .. N_BUCKETS - 1

(* An entry is a flow in subtable 0 or 1, or in the linear table (2).  An   *)
(* exact flow can have several: chain_insert does not look at the tables    *)
(* behind the one that takes the flow.                                      *)
LINEAR == 2
Entry  == (0 .. 2) \X Flows
ALL_TABLES == 255        \* table_id 0xff

VARIABLES
  buckets,       \* buckets[t][b]: the flow, or NoFlow
  linear,        \* linear[f]: the serial of f, for the flows of the table
  next_serial,
  pc,            \* "none" | "between" two messages | "filling" one
  table_id, key, \* of the request; key is a flow, or NoFlow for any flow
  table_idx,     \* flow_stats_state
  private,       \* position.private[0] and [1]
  cur,           \* the loop variable of the iterate function
  fill,          \* flows in the message
  reported,      \* history: how often each entry was reported, 2 is more than once
  stayed,        \* history: the entries that were there all the time
  wrapped        \* history: the flow with serial 0 filled a message of the reply

tabs == <<buckets, linear, next_serial>>
req  == <<table_id, key>>
vars == <<tabs, pc, req, table_idx, private, cur, fill, reported, stayed, wrapped>>

HasEntry(e) == IF e[1] = LINEAR THEN e[2] \in DOMAIN linear
               ELSE e[2] \in ExactFlows /\ buckets[e[1]][Hash(e[1], e[2])] = e[2]
Present == {e \in Entry : HasEntry(e)}

Init ==
  /\ buckets = [t \in 0 .. 1 |-> [b \in Buckets |-> NoFlow]]
  /\ linear = [f \in {} |-> 0]
  /\ next_serial = 0
  /\ pc = "none" /\ table_id = ALL_TABLES /\ key = NoFlow
  /\ table_idx = 0 /\ private = <<0, 0>> /\ cur = 0 /\ fill = 0
  /\ reported = [e \in Entry |-> 0] /\ stayed = {} /\ wrapped = FALSE

-----------------------------------------------------------------------------
(* The tables change, while no message is being filled.                     *)
Unchanged == <<pc, req, table_idx, private, cur, fill, reported, wrapped>>

NextSerial == next_serial + 1

(* table_hash_insert: the bucket is free, or has the same flow, which is    *)
(* replaced.                                                                *)
Takes(t, f) == f \in ExactFlows /\ buckets[t][Hash(t, f)] \in {NoFlow, f}

(* chain_insert: the first table that takes the flow gets it, also when the *)
(* flow has an entry in a later one, left there by a collision that is      *)
(* over.  A flow that replaces itself keeps its bucket or serial.           *)
InsertFlow ==
  /\ pc # "filling"
  /\ \E f \in Flows :
       \/ \E t \in 0 .. 1 :
            /\ Takes(t, f) /\ (t = 1 => ~Takes(0, f))
            /\ buckets' = [buckets EXCEPT ![t][Hash(t, f)] = f]
            /\ UNCHANGED <<linear, next_serial>>
       \/ /\ ~Takes(0, f) /\ ~Takes(1, f)
          /\ f \notin DOMAIN linear /\ next_serial <= MAX_SERIAL
          /\ linear' = [g \in DOMAIN linear \cup {f} |->
                          IF g = f THEN next_serial ELSE linear[g]]
          /\ next_serial' = NextSerial
          /\ UNCHANGED buckets
  /\ UNCHANGED <<Unchanged, stayed>>

(* A DELETE or the timeouts take entries away.                              *)
RemoveFlow ==
  /\ pc # "filling"
  /\ \E gone \in SUBSET Present \ {{}} :
       /\ buckets' = [t \in 0 .. 1 |-> [b \in Buckets |->
            IF <<t, buckets[t][b]>> \in gone THEN NoFlow ELSE buckets[t][b]]]
       /\ linear' = [f \in {g \in DOMAIN linear : <<LINEAR, g>> \notin gone}
                       |-> linear[f]]
       /\ stayed' = stayed \ gone
  /\ UNCHANGED <<next_serial, Unchanged>>

-----------------------------------------------------------------------------
(* The match of the request: everything, or one exact flow.                 *)
Matches(f) == key = NoFlow \/ f = key
NotWord(x) == ULONG_MAX - x                             \* ~x
MinusOne(x) == IF x = 0 THEN ULONG_MAX ELSE x - 1       \* x - 1, unsigned

(* recv_stats_request, flow_stats_init and remote_start_dump.               *)
StartDump ==
  /\ pc = "none"
  /\ table_id' \in {ALL_TABLES, 0, 1}
  /\ key' \in {NoFlow} \cup ExactFlows
  /\ table_idx' = IF table_id' = ALL_TABLES THEN 0 ELSE table_id'
  /\ private' = <<0, 0>>
  /\ pc' = "between"
  /\ cur' = 0 /\ fill' = 0
  /\ reported' = [e \in Entry |-> 0]
  /\ stayed' = Present
  /\ wrapped' = FALSE
  /\ UNCHANGED tabs

(* Where the loop of an iterate function starts.                            *)
StartOf(idx, p) == IF idx = 1 THEN NotWord(p[1]) ELSE p[1]

(* flow_stats_dump is called: a new message.                                *)
BeginMessage ==
  /\ pc = "between"
  /\ pc' = "filling" /\ fill' = 0
  /\ cur' = StartOf(table_idx, private)
  /\ UNCHANGED <<tabs, req, table_idx, private, reported, stayed, wrapped>>

Wanted(idx) == idx < 2 /\ table_id \in {ALL_TABLES, idx}
InTable(idx) == pc = "filling" /\ table_idx = idx /\ Wanted(idx)

(* The callback: the entry is added; a full message stops the iteration, at  *)
(* the position stop, and otherwise it goes on at next.                     *)
Report(e, stop, next) ==
  /\ reported' = [reported EXCEPT ![e] = IF @ < 2 THEN @ + 1 ELSE 2]
  /\ fill' = fill + 1
  /\ \/ fill + 1 >= PAGE /\ pc' = "between" /\ private' = stop /\ cur' = 0
     \/ fill + 1 < PAGE /\ cur' = next /\ UNCHANGED <<pc, private>>
  /\ UNCHANGED <<tabs, req, table_idx, stayed>>

(* table_hash_iterate for subtable private[1]: a key without wildcards is   *)
(* looked up, otherwise the buckets are walked through.                     *)
Sub == private[2]

HashLeft ==
  IF key # NoFlow
  THEN {b \in Buckets : cur < N_BUCKETS /\ b = Hash(Sub, key) /\ buckets[Sub][b] = key}
  ELSE {b \in Buckets : cur <= b /\ buckets[Sub][b] # NoFlow}

(* MUTANT of AfterBucket: the bucket is not left behind.                    *)
MutAfterBucket(b) == b

(* position->private[0] = i + 1, or -1 after a lookup.                      *)
AfterBucket(b) == IF key # NoFlow THEN ULONG_MAX ELSE b + 1

HashFlow ==
  /\ InTable(0) /\ Sub < 2
  /\ \E b \in HashLeft :
       /\ \A c \in HashLeft : b <= c
       /\ Report(<<Sub, buckets[Sub][b]>>, <<AfterBucket(b), Sub>>,
                 AfterBucket(b))
  /\ UNCHANGED wrapped

NextTable ==
  /\ table_idx' = table_idx + 1
  /\ private' = <<0, 0>>
  /\ cur' = StartOf(table_idx + 1, <<0, 0>>)

(* table_hash2_iterate goes on with the other subtable, or is done.         *)
HashDone ==
  /\ InTable(0)
  /\ Sub < 2 => HashLeft = {}
  /\ IF Sub < 2 THEN private' = <<0, Sub + 1>> /\ cur' = 0 /\ UNCHANGED table_idx
     ELSE NextTable
  /\ UNCHANGED <<tabs, req, pc, fill, reported, stayed, wrapped>>

(* table_linear_iterate: newest first.                                      *)
LinearLeft == {f \in DOMAIN linear : linear[f] <= cur /\ Matches(f)}

(* MUTANT of LinearStop: the flow that filled the message is not skipped.   *)
MutLinearStop(f) == <<NotWord(linear[f]), 0>>

(* MUTANT of LinearStop: the flow that follows is skipped as well.          *)
MutLinearSkip(f) == <<NotWord(MinusOne(MinusOne(linear[f]))), 0>>

(* position->private[0] = ~(flow->serial - 1).                              *)
LinearStop(f) == <<NotWord(MinusOne(linear[f])), 0>>

LinearFlow ==
  /\ InTable(1)
  /\ \E f \in LinearLeft :
       /\ \A g \in LinearLeft : linear[g] <= linear[f]
       /\ Report(<<LINEAR, f>>, LinearStop(f), linear[f] - 1)
       /\ wrapped' = (wrapped \/ (linear[f] = 0 /\ pc' = "between"))

LinearDone ==
  /\ InTable(1)
  /\ LinearLeft = {}
  /\ NextTable
  /\ UNCHANGED <<tabs, req, pc, fill, reported, stayed, wrapped>>

(* flow_stats_dump returns 0: the last message is sent, and stats_done      *)
(* frees the state of the dump (its values here are then of no use).        *)
DumpDone ==
  /\ pc = "filling"
  /\ ~Wanted(table_idx)
  /\ pc' = "none" /\ table_id' = ALL_TABLES /\ key' = NoFlow
  /\ table_idx' = 0 /\ private' = <<0, 0>> /\ cur' = 0 /\ fill' = 0
  /\ reported' = [e \in Entry |-> 0] /\ stayed' = {} /\ wrapped' = FALSE
  /\ UNCHANGED tabs

Dump == BeginMessage \/ HashFlow \/ HashDone \/ LinearFlow \/ LinearDone \/ DumpDone

Next == InsertFlow \/ RemoveFlow \/ StartDump \/ Dump

Spec == Init /\ [][Next]_vars

(* remote_run calls cb_dump as long as the transmit queue has room, and the *)
(* controller reads its messages.                                           *)
FairSpec == Spec /\ WF_vars(Dump)

-----------------------------------------------------------------------------
(* PROPERTIES *)

(* Type correctness.                                                        *)
TypeOK ==
  /\ buckets \in [0 .. 1 -> [Buckets -> ExactFlows \cup {NoFlow}]]
  /\ DOMAIN linear \subseteq Flows
  /\ \A f \in DOMAIN linear : linear[f] \in 0 .. next_serial - 1
  /\ \A f, g \in DOMAIN linear : linear[f] = linear[g] => f = g
  /\ pc \in {"none", "between", "filling"}
  /\ table_idx \in 0 .. 2
  /\ private \in (0 .. ULONG_MAX) \X (0 .. 2)
  /\ fill \in 0 .. PAGE

(* The request asks for the entry: table 0 is the hash table, 1 the linear. *)
Asked(e) == /\ Matches(e[2])
            /\ table_id \in {ALL_TABLES, IF e[1] = LINEAR THEN 1 ELSE 0}

(* "resume iteration later with the following flow": an entry that is there *)
(* from the request to the end of the reply is reported in it, whatever     *)
(* comes and goes between two messages.                                     *)
NoFlowMissed ==
  pc = "filling" /\ ~Wanted(table_idx) =>
    \A e \in stayed : Asked(e) => reported[e] >= 1

(* ... and it is not reported twice, as long as the flow with serial 0, the *)
(* first one the linear table ever got, has not filled a message.  When it  *)
(* has, ~(0 - 1) is the position that starts the table, and the reply       *)
(* repeats all of it (table_linear_iterate).  A flow with several entries   *)
(* is reported once for each.                                               *)
NoFlowTwice == ~wrapped => \A e \in stayed : reported[e] <= 1

(* The reply comes to an end, unless the flow with serial 0 fills a         *)
(* message.  If it fills the last message each time, the reply never ends.  *)
DumpEnds == pc # "none" ~> pc = "none" \/ wrapped
=============================================================================
