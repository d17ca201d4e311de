------------------------ MODULE FlowTableRefinement ------------------------
(***************************************************************************)
(* The chain of hash tables and linear table implements ONE set of         *)
(* entries, as long as no two keys meet in a bucket of the first hash      *)
(* subtable and the emergency table is not used.  A flow that collided and *)
(* is added again after its partner left would be in two places.           *)
(***************************************************************************)
EXTENDS FlowTable

(* No two exact keys have one bucket of the first subtable.                 *)
NoCollisions ==
  \A j, k \in Keys :
    /\ j.wildcards = {} /\ k.wildcards = {}
    /\ Hash(0, j.flow) = Hash(0, k.flow)
    => j.flow = k.flow

(* Where the tables are one set of entries.                                 *)
OneTableSetting ==
  /\ NoCollisions
  /\ ~Protection
  /\ \A m \in UNION Controllers : ~Emerg(m)

RequestOf(ofm) ==
  Request(ofm, ofm.command \in {"MODIFY_STRICT", "DELETE_STRICT"},
          IF ofm.command \in {"DELETE", "DELETE_STRICT"} THEN ofm.out_port
          ELSE OFPP_NONE)

AskedFor(ofm, e) == Selects(RequestOf(ofm), e)

InConflict(ofm, e, entries) ==
  /\ "CHECK_OVERLAP" \in ofm.flags
  /\ \E g \in entries : /\ flow_matches_2wild(g.key, e.key)
                        /\ g.priority = e.priority

ValidActions(ofm, e) == validate_actions(e.key, ofm.actions)

MatchesPacket(p, e) ==
  flow_fields_match(flow_extract(p), e.key.flow, e.key.wildcards)

OneTable == INSTANCE FlowTableSpec WITH
  Capacity <- TABLE_LINEAR_MAX_FLOWS, FlowMods <- UNION Controllers,
  NewEntry <- NewFlow,
  Selects <- AskedFor, Conflicts <- InConflict, Valid <- ValidActions,
  Matches <- MatchesPacket, Expired <- flow_timeout,
  Entry <- Name, Reason <- TimedOut,
  entries <- ChainFlows(Chain)

(* Every step of the tables is a step of the one set of entries: what the   *)
(* controller is told, and which entry a packet renews, does not depend on  *)
(* where the entries are kept.                                              *)
ImplementsOneTable == OneTable!Spec
=============================================================================
