--------------------------- MODULE FlowTableSpec ---------------------------
(***************************************************************************)
(* What the flow table of a switch promises to its controller: ONE set of  *)
(* entries, whatever data structures hold them.                            *)
(*                                                                         *)
(* An entry is identified by its match and its priority; a packet goes to  *)
(* one of the matching entries of the highest priority; a new entry may be *)
(* refused only when the table has at least Capacity entries.              *)
(***************************************************************************)
EXTENDS Integers, FiniteSets

CONSTANTS
  Capacity,             \* entries the table must be able to hold
  FlowMods, Packets,    \* what may arrive
  NewEntry(_),          \* the entry a flow_mod describes
  Selects(_, _),        \* flow_mod m concerns entry e (MODIFY, DELETE)
  Conflicts(_, _, _),   \* flow_mod m is in conflict with one of the entries
  Valid(_, _),          \* the action list of a flow_mod is acceptable
  SameEntry(_, _), Matches(_, _), Expired(_), Aged(_), Entry(_), Reason(_)

VARIABLES
  entries,   \* the entries of the table
  due,       \* the clock has advanced since the last sweep
  sent       \* the messages of the last step

vars == <<entries, due, sent>>

Init == entries = {} /\ due = FALSE /\ sent = {}

Report(gone, reason(_)) ==
  {[type |-> "FLOW_REMOVED", entry |-> Entry(e), reason |-> reason(e)] :
     e \in {g \in gone : g.send_flow_rem}}

Error(code) == [type |-> "ERROR", code |-> code]

(* The entry replaces its predecessor; without one it may be refused when   *)
(* the table is full.                                                       *)
Put(e) ==
  \/ /\ entries' = {g \in entries : ~SameEntry(g, e)} \cup {e}
     /\ sent' = {}
  \/ /\ \A g \in entries : ~SameEntry(g, e)
     /\ Cardinality(entries) >= Capacity
     /\ sent' = {Error("ALL_TABLES_FULL")}
     /\ UNCHANGED entries

Add ==
  \E m \in FlowMods :
    /\ m.command = "ADD"
    /\ \/ /\ Valid(m, NewEntry(m)) /\ ~Conflicts(m, NewEntry(m), entries)
          /\ Put(NewEntry(m))
       \/ /\ Valid(m, NewEntry(m)) /\ Conflicts(m, NewEntry(m), entries)
          /\ sent' = {Error("OVERLAP")}
          /\ UNCHANGED entries
       \/ /\ ~Valid(m, NewEntry(m))
          /\ sent' = {Error("BAD_OUT_PORT")}
          /\ UNCHANGED entries
    /\ UNCHANGED due

Modify ==
  \E m \in FlowMods :
    LET hit == {e \in entries : Selects(m, e)}
    IN  /\ m.command \in {"MODIFY", "MODIFY_STRICT"}
        /\ \/ /\ Valid(m, NewEntry(m)) /\ hit # {}
              /\ entries' = (entries \ hit)
                              \cup {[e EXCEPT !.actions = m.actions] : e \in hit}
              /\ sent' = {}
           \/ Valid(m, NewEntry(m)) /\ hit = {} /\ Put(NewEntry(m))
           \/ /\ ~Valid(m, NewEntry(m))
              /\ sent' = {Error("BAD_OUT_PORT")}
              /\ UNCHANGED entries
        /\ UNCHANGED due

Delete ==
  \E m \in FlowMods :
    LET hit == {e \in entries : Selects(m, e)}
        reason(e) == "DELETE"
    IN  /\ m.command \in {"DELETE", "DELETE_STRICT"}
        /\ entries' = entries \ hit
        /\ sent' = Report(hit, reason)
        /\ UNCHANGED due

(* A packet renews one of the best matching entries, or goes up.            *)
Packet ==
  \E p \in Packets :
    LET matching == {e \in entries : Matches(p, e)}
    IN  /\ \/ \E e \in matching :
                /\ \A g \in matching : g.priority <= e.priority
                /\ entries' = (entries \ {e}) \cup {[e EXCEPT !.idle_age = 0]}
                /\ sent' = {}
           \/ /\ matching = {}
              /\ sent' = {[type |-> "PACKET_IN"]}
              /\ UNCHANGED entries
        /\ UNCHANGED due

Tick == /\ entries' = {Aged(e) : e \in entries}
        /\ due' = TRUE
        /\ sent' = {}

Sweep ==
  LET gone == {e \in entries : Expired(e)}
  IN  /\ due /\ due' = FALSE
      /\ entries' = entries \ gone
      /\ sent' = Report(gone, Reason)

Next == Add \/ Modify \/ Delete \/ Packet \/ Tick \/ Sweep

Spec == Init /\ [][Next]_vars
=============================================================================
