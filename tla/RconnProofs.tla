----------------------------- MODULE RconnProofs -----------------------------
(***************************************************************************)
(* The vconn and the queue of an rconn, for every owner, any queue limit   *)
(* and any timing.  The invariant joins both: what happens to the queue    *)
(* when a connection is lost depends on the state, and the state says      *)
(* whether there is a vconn.  At the end, the rconn in the main loop of    *)
(* ofprotocol (module ControllerLink).                                     *)
(***************************************************************************)
EXTENDS Rconn, FunctionTheorems, FiniteSetTheorems, TLAPS

States == {"VOID", "BACKOFF", "CONNECTING", "ACTIVE", "IDLE"}

(* The queue and its counter agree and fit the limit.                       *)
QueueFits(q, nq) == q \in Seq(Message) /\ nq = Counted(q) /\ nq <= TXQ_LIMIT

RconnInv == state \in States /\ VconnMatchesState /\ QueueFits(txq, n_queued)

-----------------------------------------------------------------------------
(* How many messages of a queue are counted.                                *)
Places(q) == {k \in 1 .. Len(q) : q[k].counted}

(* The places of the queue that are counted are finitely many.              *)
LEMMA PlacesFinite ==
  ASSUME NEW q \in Seq(Message)
  PROVE  IsFiniteSet(Places(q)) /\ Counted(q) = Cardinality(Places(q)) /\ Counted(q) \in Nat
<1>1. IsFiniteSet(1 .. Len(q))
  BY FS_Interval
<1>2. Places(q) \subseteq 1 .. Len(q)
  BY DEF Places
<1>3. IsFiniteSet(Places(q))
  BY <1>1, <1>2, FS_Subset
<1> QED
  BY <1>3, FS_CardinalityType DEF Counted, Places

(* queue_clear leaves nothing to count.                                     *)
LEMMA CountedEmpty == Counted(<<>>) = 0
<1>1. Places(<<>>) = {}
  BY DEF Places
<1>2. <<>> \in Seq(Message)
  OBVIOUS
<1> QED
  BY <1>1, <1>2, PlacesFinite, FS_EmptySet

(* rconn_send adds one message.                                             *)
LEMMA CountedAppend ==
  ASSUME NEW q \in Seq(Message), NEW m \in Message
  PROVE  Counted(Append(q, m)) = Counted(q) + (IF m.counted THEN 1 ELSE 0)
<1> DEFINE n == Len(q) + 1
<1>1. Append(q, m) \in Seq(Message) /\ Len(Append(q, m)) = n
  OBVIOUS
<1>2. Places(Append(q, m)) = IF m.counted THEN Places(q) \cup {n} ELSE Places(q)
  BY DEF Places
<1>3. n \notin Places(q)
  BY DEF Places
<1>4. IsFiniteSet(Places(q)) /\ Counted(q) = Cardinality(Places(q)) /\ Counted(q) \in Nat
  BY PlacesFinite
<1>5. Cardinality(Places(q) \cup {n}) = Cardinality(Places(q)) + 1
  BY <1>3, <1>4, FS_AddElement
<1>6. Counted(Append(q, m)) = Cardinality(Places(Append(q, m)))
  BY <1>1, PlacesFinite
<1> HIDE DEF n
<1> QED
  BY <1>2, <1>4, <1>5, <1>6

(* try_send takes messages off the head.                                    *)
LEMMA CountedSplit ==
  ASSUME NEW q \in Seq(Message), NEW k \in 0 .. Len(q)
  PROVE  /\ SubSeq(q, 1, k) \in Seq(Message) /\ SubSeq(q, k + 1, Len(q)) \in Seq(Message)
         /\ Counted(q) = Counted(SubSeq(q, 1, k)) + Counted(SubSeq(q, k + 1, Len(q)))
<1> DEFINE head == SubSeq(q, 1, k)
           rest == SubSeq(q, k + 1, Len(q))
           A    == {j \in Places(q) : j <= k}
           B    == {j \in Places(q) : j > k}
           f    == [j \in Places(rest) |-> j + k]
<1>1. /\ head \in Seq(Message) /\ Len(head) = k
      /\ \A j \in 1 .. k : head[j] = q[j]
  OBVIOUS
<1>2. /\ rest \in Seq(Message) /\ Len(rest) = Len(q) - k
      /\ \A j \in 1 .. Len(q) - k : rest[j] = q[j + k]
  OBVIOUS
<1>3. Places(head) = A
  BY <1>1 DEF Places
<1>4. ExistsBijection(Places(rest), B)
  <2>1. \A j \in Places(rest) : j \in Int /\ j + k \in B
    BY <1>2 DEF Places
  <2>2. \A b \in B : b - k \in Places(rest) /\ (b - k) + k = b
    BY <1>2 DEF Places
  <2>3. f \in [Places(rest) -> B]
    BY <2>1
  <2>4. \A i, j \in Places(rest) : f[i] = f[j] => i = j
    BY <2>1
  <2>5. \A b \in B : \E j \in Places(rest) : f[j] = b
    BY <2>2
  <2> HIDE DEF f, B, rest
  <2>6. f \in Bijection(Places(rest), B)
    BY <2>3, <2>4, <2>5 DEF Bijection, Injection, Surjection, IsInjective
  <2> QED
    BY <2>6 DEF ExistsBijection
<1>5. /\ IsFiniteSet(Places(q)) /\ Counted(q) = Cardinality(Places(q))
      /\ IsFiniteSet(Places(head)) /\ Counted(head) = Cardinality(Places(head))
      /\ IsFiniteSet(Places(rest)) /\ Counted(rest) = Cardinality(Places(rest))
      /\ Counted(head) \in Nat /\ Counted(rest) \in Nat
  <2> HIDE DEF head, rest
  <2> QED BY <1>1, <1>2, PlacesFinite
<1>6. A \cup B = Places(q) /\ A \cap B = {}
  BY DEF Places
<1> HIDE DEF A, B, f, head, rest
<1>7. IsFiniteSet(B) /\ Cardinality(B) = Counted(rest)
  BY <1>4, <1>5, FS_Bijection
<1>8. Cardinality(A \cup B) = Cardinality(A) + Cardinality(B) - Cardinality(A \cap B)
  BY <1>3, <1>5, <1>7, FS_Union
<1>9. Cardinality(A \cap B) = 0
  BY <1>6, FS_EmptySet
<1>10. Counted(q) = Counted(head) + Counted(rest)
  <2>1. Cardinality(A) = Counted(head) /\ Cardinality(A \cup B) = Counted(q)
    BY <1>3, <1>5, <1>6
  <2>2. Counted(head) \in Nat /\ Counted(rest) \in Nat
    BY <1>5
  <2> QED
    BY <2>1, <2>2, <1>7, <1>8, <1>9
<1> QED
  BY <1>1, <1>2, <1>10 DEF head, rest

(* A new probe makes the earlier ones old, which changes no count.          *)
LEMMA CountedOutdated ==
  ASSUME NEW q \in Seq(Message)
  PROVE  LET r == [k \in DOMAIN q |-> [q[k] EXCEPT !.xid = Outdated(@)]]
         IN  r \in Seq(Message) /\ Counted(r) = Counted(q)
<1> DEFINE r == [k \in DOMAIN q |-> [q[k] EXCEPT !.xid = Outdated(@)]]
<1>1. \A k \in DOMAIN q : r[k] \in Message /\ r[k].counted = q[k].counted
  <2>1. ASSUME NEW m \in Message
        PROVE  LET o == [m EXCEPT !.xid = Outdated(@)]
               IN  o \in Message /\ o.counted = m.counted
    <3>1. Outdated(m.xid) \in Xid
      BY DEF Message, Xid, Outdated
    <3> QED
      BY <3>1 DEF Message
  <2>2. \A k \in DOMAIN q : q[k] \in Message
    OBVIOUS
  <2> QED
    BY <2>1, <2>2
<1>2. r \in Seq(Message) /\ Len(r) = Len(q)
  BY <1>1
<1>3. Places(r) = Places(q)
  BY <1>1, <1>2 DEF Places
<1> HIDE DEF r
<1>4. Counted(r) = Counted(q)
  BY <1>2, <1>3, PlacesFinite
<1> QED
  BY <1>2, <1>4 DEF r

-----------------------------------------------------------------------------
(* The functions of rconn.c that change the connection.                     *)

(* disconnect: a connection that is lost takes its queue along.             *)
LEMMA DisconnectKeeps ==
  ASSUME NEW STATE q, NEW STATE nq, NEW keep,
         state \in States, VconnMatchesState, QueueFits(q, nq),
         disconnect(q, nq, keep)
  PROVE  RconnInv'
<1>1. /\ state' \in States
      /\ (vconn' <=> state' \in {"CONNECTING", "ACTIVE", "IDLE"})
      /\ \/ txq' = q /\ n_queued' = nq
         \/ txq' = <<>> /\ n_queued' = nq - Counted(q)
  BY DEF disconnect, rconn_disconnect, state_transition, States, VconnMatchesState,
         Flushed, FlushedCount
<1>2. QueueFits(txq', n_queued')
  <2>1. q \in Seq(Message) /\ nq = Counted(q) /\ nq <= TXQ_LIMIT
    BY DEF QueueFits
  <2>2. Counted(q) \in Nat
    BY <2>1, PlacesFinite
  <2>3. CASE txq' = q /\ n_queued' = nq
    BY <2>1, <2>3 DEF QueueFits
  <2>4. CASE txq' = <<>> /\ n_queued' = nq - Counted(q)
    <3>1. n_queued' = 0
      BY <2>1, <2>2, <2>4
    <3> QED
      BY <2>4, <3>1, CountedEmpty, RconnAssumption DEF QueueFits
  <2> QED
    BY <1>1, <2>3, <2>4
<1> QED
  BY <1>1, <1>2 DEF RconnInv, VconnMatchesState, QueueFits

(* state_transition between states with a vconn.                            *)
LEMMA StayOrKeeps ==
  ASSUME NEW s \in {"ACTIVE", "IDLE"},
         state \in {"CONNECTING", "ACTIVE", "IDLE"}, VconnMatchesState,
         QueueFits(txq', n_queued'), StayOr(s)
  PROVE  RconnInv'
BY DEF StayOr, state_transition, RconnInv, VconnMatchesState, QueueFits, States

(* try_send: what was sent leaves the queue and the counter.                *)
LEMMA TransmitKeeps ==
  ASSUME NEW STATE q, NEW STATE nq, NEW STATE ask, NEW STATE s,
         s \in {"ACTIVE", "IDLE"},
         Connected, VconnMatchesState, QueueFits(q, nq),
         Transmit(q, nq, ask, s)
  PROVE  RconnInv'
<1>1. PICK k \in 0 .. Len(q) :
        LET rest  == SubSeq(q, k + 1, Len(q))
            nrest == nq - Counted(SubSeq(q, 1, k))
        IN  \/ txq' = rest /\ n_queued' = nrest /\ StayOr(s)
            \/ disconnect(rest, nrest, FALSE)
  BY DEF Transmit
<1> DEFINE rest  == SubSeq(q, k + 1, Len(q))
           nrest == nq - Counted(SubSeq(q, 1, k))
<1>2. QueueFits(rest, nrest)
  <2>1. q \in Seq(Message) /\ nq = Counted(q) /\ nq <= TXQ_LIMIT
    BY DEF QueueFits
  <2>2. /\ SubSeq(q, 1, k) \in Seq(Message) /\ rest \in Seq(Message)
        /\ Counted(q) = Counted(SubSeq(q, 1, k)) + Counted(rest)
    BY <2>1, CountedSplit
  <2>3. Counted(SubSeq(q, 1, k)) \in Nat /\ Counted(rest) \in Nat
    BY <2>2, PlacesFinite
  <2> HIDE DEF rest
  <2>4. nrest = Counted(rest) /\ nrest <= TXQ_LIMIT
    BY <2>1, <2>2, <2>3, RconnAssumption
  <2> QED
    BY <2>2, <2>4 DEF QueueFits
<1>3. state \in States /\ state \in {"CONNECTING", "ACTIVE", "IDLE"}
  BY DEF Connected, States
<1> HIDE DEF rest, nrest
<1>4. CASE txq' = rest /\ n_queued' = nrest /\ StayOr(s)
  BY <1>2, <1>3, <1>4, StayOrKeeps
<1>5. CASE disconnect(rest, nrest, FALSE)
  BY <1>2, <1>3, <1>5, DisconnectKeeps
<1> QED
  BY <1>1, <1>4, <1>5 DEF rest, nrest

(* rconn_send on a connection.                                              *)
LEMMA PushKeeps ==
  ASSUME NEW STATE q, NEW STATE nq, NEW STATE ask, NEW STATE xid, NEW STATE s,
         s \in {"ACTIVE", "IDLE"},
         Connected, VconnMatchesState, QueueFits(q, nq),
         Push(q, nq, ask, xid, s)
  PROVE  RconnInv'
<1>1. CASE Transmit(q, nq, ask, s)
  BY <1>1, TransmitKeeps
<1>2. CASE txq' = q /\ n_queued' = nq /\ StayOr(s)
  <2>1. QueueFits(txq', n_queued')
    BY <1>2 DEF QueueFits
  <2>2. state \in {"CONNECTING", "ACTIVE", "IDLE"}
    BY DEF Connected
  <2> QED
    BY <1>2, <2>1, <2>2, StayOrKeeps
<1> QED
  BY <1>1, <1>2 DEF Push

(* do_tx_work.                                                              *)
LEMMA TxWorkKeeps ==
  ASSUME RconnInv, Connected, do_tx_work
  PROVE  RconnInv'
<1>1. CASE Transmit(txq, n_queued, asked, state)
  <2>1. state \in {"ACTIVE", "IDLE"} /\ QueueFits(txq, n_queued) /\ VconnMatchesState
    BY DEF Connected, RconnInv
  <2> QED
    BY <1>1, <2>1, TransmitKeeps
<1>2. CASE UNCHANGED <<link, txq, n_queued>>
  BY <1>2 DEF RconnInv, VconnMatchesState, QueueFits, link
<1> QED
  BY <1>1, <1>2 DEF do_tx_work

-----------------------------------------------------------------------------
(* Every step keeps the invariant.                                          *)
LEMMA RconnInvStep ==
  ASSUME RconnInv, [Next]_vars
  PROVE  RconnInv'
<1> DEFINE Same == UNCHANGED <<state, vconn, txq, n_queued>>
<1>0. state \in States /\ VconnMatchesState /\ QueueFits(txq, n_queued)
  BY DEF RconnInv
<1>1. ASSUME Same PROVE RconnInv'
  BY <1>1 DEF RconnInv, VconnMatchesState, QueueFits
<1>2. ASSUME NEW keep, disconnect(txq, n_queued, keep) PROVE RconnInv'
  BY <1>0, <1>2, DisconnectKeeps
<1>3. ASSUME NEW s \in {"ACTIVE", "IDLE"}, StayOr(s), UNCHANGED <<txq, n_queued>>,
             state \in {"CONNECTING", "ACTIVE", "IDLE"}
      PROVE  RconnInv'
  <2>1. QueueFits(txq', n_queued')
    BY <1>0, <1>3 DEF QueueFits
  <2> QED
    BY <1>0, <1>3, <2>1, StayOrKeeps
<1>4. CASE UNCHANGED vars \/ Run \/ run_VOID \/ Tick \/ PeerChanges
  BY <1>1, <1>4 DEF vars, link, Run, run_VOID, Tick, PeerChanges
<1>5. CASE run_BACKOFF
  <2>1. CASE disconnect(txq, n_queued, TRUE)
    BY <1>2, <2>1
  <2>2. CASE vconn' = TRUE /\ state_transition("CONNECTING") /\ UNCHANGED <<txq, n_queued>>
    BY <1>0, <2>2 DEF state_transition, RconnInv, VconnMatchesState, QueueFits, States
  <2>3. CASE UNCHANGED <<link, txq, n_queued, asked>>
    BY <1>1, <2>3 DEF link
  <2> QED
    BY <1>5, <2>1, <2>2, <2>3 DEF run_BACKOFF, reconnect
<1>6. CASE run_CONNECTING
  <2>1. state \in {"CONNECTING", "ACTIVE", "IDLE"}
    BY <1>6 DEF run_CONNECTING, In
  <2>2. CASE StayOr("ACTIVE") /\ UNCHANGED <<txq, n_queued, asked>>
    BY <1>3, <2>1, <2>2
  <2>3. CASE \E keep \in BOOLEAN : disconnect(txq, n_queued, keep)
    BY <1>2, <2>3
  <2>4. CASE UNCHANGED <<link, txq, n_queued, asked>>
    BY <1>1, <2>4 DEF link
  <2> QED
    BY <1>6, <2>2, <2>3, <2>4 DEF run_CONNECTING
<1>7. CASE ActiveProbes
  <2> DEFINE old == [k \in DOMAIN txq |-> [txq[k] EXCEPT !.xid = Outdated(@)]]
             q   == Append(old, Probe)
  <2>1. txq \in Seq(Message) /\ n_queued = Counted(txq) /\ n_queued <= TXQ_LIMIT
    BY <1>0 DEF QueueFits
  <2>2. old \in Seq(Message) /\ Counted(old) = Counted(txq)
    BY <2>1, CountedOutdated
  <2>3. Probe \in Message /\ Probe.counted = FALSE
    BY DEF Probe, Message, Xid
  <2>4. Connected
    BY <1>7 DEF ActiveProbes, In, Connected
  <2>5. Push(q, n_queued, {Outdated(x) : x \in asked}, Outdated(idle_echo_xid), "IDLE")
    BY <1>7 DEF ActiveProbes
  <2> HIDE DEF old
  <2>6. q \in Seq(Message)
    BY <2>2, <2>3
  <2>7. Counted(q) = Counted(old)
    <3>1. Counted(old) \in Nat
      BY <2>2, PlacesFinite
    <3> QED
      BY <2>2, <2>3, <3>1, CountedAppend
  <2>8. QueueFits(q, n_queued)
    BY <2>1, <2>2, <2>6, <2>7 DEF QueueFits
  <2> HIDE DEF q
  <2> QED
    BY <1>0, <2>4, <2>5, <2>8, PushKeeps
<1>8. CASE ActiveSends \/ IdleSends
  <2>1. Connected /\ do_tx_work
    BY <1>8 DEF ActiveSends, IdleSends, In, Connected
  <2> QED
    BY <2>1, TxWorkKeeps
<1>9. CASE IdleGivesUp \/ RecvError
  BY <1>2, <1>9 DEF IdleGivesUp, RecvError
<1>10. CASE RecvMessage \/ RecvEchoReply
  <2>1. /\ state \in {"CONNECTING", "ACTIVE", "IDLE"}
        /\ UNCHANGED <<txq, n_queued>>
        /\ StayOr("ACTIVE") \/ StayOr("IDLE")
    BY <1>10 DEF RecvMessage, RecvEchoReply, Receiving, Connected
  <2> QED
    BY <1>3, <2>1
<1>11. CASE Send
  <2>1. Connected /\ txq \in Seq(Message) /\ n_queued = Counted(txq) /\ n_queued <= TXQ_LIMIT
    BY <1>0, <1>11 DEF Send, QueueFits
  <2>2. PICK counted \in BOOLEAN, xid \in {"zero", "other"} :
          LET m == [xid |-> xid, counted |-> counted]
          IN  /\ MayQueue(m)
              /\ Push(Append(txq, m), n_queued + IF counted THEN 1 ELSE 0,
                      asked, idle_echo_xid, state)
    BY <1>11 DEF Send
  <2> DEFINE m == [xid |-> xid, counted |-> counted]
             q == Append(txq, m)
             n == n_queued + IF counted THEN 1 ELSE 0
  <2>3. m \in Message /\ m.counted = counted
    BY DEF Message, Xid
  <2>4. counted => n_queued < TXQ_LIMIT
    BY <2>2, <2>3 DEF MayQueue
  <2>5. Push(q, n, asked, idle_echo_xid, state)
    BY <2>2
  <2> HIDE DEF m
  <2>6. q \in Seq(Message)
    BY <2>1, <2>3
  <2>7. n = Counted(q)
    BY <2>1, <2>3, CountedAppend
  <2>8. n <= TXQ_LIMIT
    <3>1. Counted(txq) \in Nat
      BY <2>1, PlacesFinite
    <3> QED
      BY <2>1, <2>4, <3>1, RconnAssumption
  <2> HIDE DEF q, n
  <2>9. QueueFits(q, n) /\ state \in {"ACTIVE", "IDLE"}
    BY <2>1, <2>6, <2>7, <2>8 DEF QueueFits, Connected
  <2> QED
    BY <1>0, <2>1, <2>5, <2>9, PushKeeps
<1>12. CASE Connect \/ Disconnect
  <2>1. /\ UNCHANGED <<txq, n_queued>> /\ state' \in States
        /\ vconn' <=> state' \in {"CONNECTING", "ACTIVE", "IDLE"}
    BY <1>12 DEF Connect, rconn_connect, Disconnect, rconn_disconnect, state_transition, States
  <2> QED
    BY <1>0, <2>1 DEF RconnInv, VconnMatchesState, QueueFits
<1>13. CASE Accept
  <2>1. QueueFits(txq', n_queued')
    BY <1>13, CountedEmpty, RconnAssumption DEF Accept, QueueFits
  <2> QED
    BY <1>13, <2>1 DEF Accept, RconnInv, VconnMatchesState, QueueFits, States
<1> QED
  BY <1>4, <1>5, <1>6, <1>7, <1>8, <1>9, <1>10, <1>11, <1>12, <1>13 DEF Next, Looping

(* The invariant holds of every behaviour of one rconn.                     *)
LEMMA RconnInvHolds == Spec => []RconnInv
<1>1. Init => RconnInv
  BY CountedEmpty, RconnAssumption
     DEF Init, RconnInv, VconnMatchesState, QueueFits, States
<1>2. RconnInv /\ [Next]_vars => RconnInv'
  BY RconnInvStep
<1> QED
  BY <1>1, <1>2, PTL DEF Spec

(* try_send and vconn_recv are only called with an open vconn, and a        *)
(* disconnection closes it, whatever fails inside run_ACTIVE and run_IDLE.  *)
THEOREM NeverWithoutVconn == Spec => []VconnMatchesState
<1>1. RconnInv => VconnMatchesState
  BY DEF RconnInv
<1> QED
  BY <1>1, RconnInvHolds, PTL

(* The counter passed to rconn_send_with_limit is the number of its         *)
(* messages in the queue, through partial sends, flushes and new            *)
(* connections, for any limit.                                              *)
THEOREM CounterIsExact == Spec => []QueueCounted
<1>1. RconnInv => QueueCounted
  BY DEF RconnInv, QueueFits, QueueCounted
<1> QED
  BY <1>1, RconnInvHolds, PTL

-----------------------------------------------------------------------------
(***************************************************************************)
(* The rconn inside the main loop: QueueNotPassedOn of ControllerLink for  *)
(* any number of controllers and any timing.                               *)
(*                                                                         *)
(* It rests on two facts: the rconn to the controller stays reliable, so   *)
(* that a lost connection always flushes its queue (rconn_disconnect alone *)
(* would not), and failover moves only an rconn that is not connected.     *)
(***************************************************************************)
CONSTANTS NumControllers, AdmitTime
VARIABLES alive, admits, phase, index, epoch, connected_for, unadmitted, boot, lswitch

L == INSTANCE ControllerLink

LinkInv == reliable = TRUE /\ state \in States /\ L!QueueNotPassedOn

(* disconnect flushes the queue of a connection; there is none to flush     *)
(* otherwise.                                                               *)
LEMMA LinkDisconnect ==
  ASSUME NEW STATE q, NEW STATE nq, NEW keep,
         reliable = TRUE, state \in States,
         state \in {"CONNECTING", "ACTIVE", "IDLE"} \/ q = <<>>,
         L!R!disconnect(q, nq, keep)
  PROVE  LinkInv'
BY DEF L!R!disconnect, L!R!state_transition, L!R!Flushed, LinkInv,
       L!QueueNotPassedOn, L!Connected, L!R!Connected, States

(* state_transition to a connected state, or none at all.                   *)
LEMMA LinkStays ==
  ASSUME NEW STATE s, s \in {"ACTIVE", "IDLE"}, reliable = TRUE, L!R!StayOr(s)
  PROVE  LinkInv'
BY DEF L!R!StayOr, L!R!state_transition, LinkInv, L!QueueNotPassedOn, L!Connected,
       L!R!Connected, States

(* try_send.                                                                *)
LEMMA LinkTransmits ==
  ASSUME NEW STATE q, NEW STATE nq, NEW STATE ask, NEW STATE s,
         s \in {"ACTIVE", "IDLE"}, LinkInv, L!Connected, L!R!Transmit(q, nq, ask, s)
  PROVE  LinkInv'
<1>1. PICK k \in 0 .. Len(q) :
        LET rest  == SubSeq(q, k + 1, Len(q))
            nrest == nq - L!R!Counted(SubSeq(q, 1, k))
        IN  L!R!StayOr(s) \/ L!R!disconnect(rest, nrest, FALSE)
  BY DEF L!R!Transmit
<1>2. reliable = TRUE /\ state \in States /\ state \in {"CONNECTING", "ACTIVE", "IDLE"}
  BY DEF LinkInv, L!Connected, L!R!Connected
<1> QED
  BY <1>1, <1>2, LinkStays, LinkDisconnect

(* rconn_run, rconn_recv.                                                   *)
LEMMA LinkLoops ==
  ASSUME LinkInv, L!R!Looping
  PROVE  LinkInv'
<1>0. reliable = TRUE /\ state \in States /\ (L!Connected \/ txq = <<>>)
  BY DEF LinkInv, L!QueueNotPassedOn
<1>1. ASSUME UNCHANGED <<L!R!link, txq>> PROVE LinkInv'
  BY <1>1 DEF L!R!link, LinkInv, L!QueueNotPassedOn, L!Connected, L!R!Connected
<1>2. CASE L!R!run_VOID
  BY <1>1, <1>2 DEF L!R!run_VOID
<1>3. CASE L!R!run_BACKOFF
  <2>1. txq = <<>>
    BY <1>0, <1>3 DEF L!R!run_BACKOFF, L!R!In, L!Connected, L!R!Connected
  <2>2. CASE L!R!disconnect(txq, n_queued, TRUE)
    BY <1>0, <2>1, <2>2, LinkDisconnect
  <2>3. CASE L!R!state_transition("CONNECTING") /\ UNCHANGED <<reliable, txq>>
    BY <1>0, <2>1, <2>3 DEF L!R!state_transition, LinkInv, L!QueueNotPassedOn, States
  <2>4. CASE UNCHANGED <<L!R!link, txq>>
    BY <1>1, <2>4
  <2> QED
    BY <1>3, <2>2, <2>3, <2>4 DEF L!R!run_BACKOFF, L!R!reconnect
<1>4. CASE L!R!run_CONNECTING
  <2>1. state \in {"CONNECTING", "ACTIVE", "IDLE"}
    BY <1>4 DEF L!R!run_CONNECTING, L!R!In
  <2>2. CASE L!R!StayOr("ACTIVE")
    BY <1>0, <2>2, LinkStays
  <2>3. CASE \E keep \in BOOLEAN : L!R!disconnect(txq, n_queued, keep)
    BY <1>0, <2>1, <2>3, LinkDisconnect
  <2>4. CASE UNCHANGED <<L!R!link, txq>>
    BY <1>1, <2>4
  <2> QED
    BY <1>4, <2>2, <2>3, <2>4 DEF L!R!run_CONNECTING
<1>5. CASE L!R!ActiveProbes
  <2>1. L!Connected
    BY <1>5 DEF L!R!ActiveProbes, L!R!In, L!Connected, L!R!Connected
  <2>2. \/ L!R!StayOr("IDLE")
        \/ L!R!Transmit(Append([k \in DOMAIN txq |-> [txq[k] EXCEPT !.xid = L!R!Outdated(@)]],
                             L!R!Probe),
                      n_queued, {L!R!Outdated(x) : x \in asked}, "IDLE")
    BY <1>5 DEF L!R!ActiveProbes, L!R!Push
  <2> QED
    BY <1>0, <2>1, <2>2, LinkStays, LinkTransmits
<1>6. CASE L!R!ActiveSends \/ L!R!IdleSends
  <2>1. L!Connected /\ state \in {"ACTIVE", "IDLE"} /\ L!R!do_tx_work
    BY <1>6 DEF L!R!ActiveSends, L!R!IdleSends, L!R!In, L!Connected, L!R!Connected
  <2>2. CASE L!R!Transmit(txq, n_queued, asked, state)
    BY <2>1, <2>2, LinkTransmits
  <2>3. CASE UNCHANGED <<L!R!link, txq>>
    BY <1>1, <2>3
  <2> QED
    BY <2>1, <2>2, <2>3 DEF L!R!do_tx_work
<1>7. CASE L!R!IdleGivesUp
  <2>1. /\ state \in {"CONNECTING", "ACTIVE", "IDLE"}
        /\ L!R!disconnect(txq, n_queued, FALSE)
    BY <1>7 DEF L!R!IdleGivesUp, L!R!In
  <2> QED
    BY <1>0, <2>1, LinkDisconnect
<1> QED
  BY <1>2, <1>3, <1>4, <1>5, <1>6, <1>7 DEF L!R!Looping

(* rconn_connect to the next controller.                                    *)
LEMMA LinkFailsOver ==
  ASSUME LinkInv, L!failover_periodic
  PROVE  LinkInv'
<1>1. CASE ~L!FailoverDue /\ UNCHANGED <<L!rconn, index, epoch>>
  BY <1>1 DEF L!rconn, LinkInv, L!QueueNotPassedOn, L!Connected, L!R!Connected
<1>2. CASE L!FailoverDue /\ L!R!rconn_connect(index' \in alive)
  <2>1. txq = <<>>
    BY <1>2 DEF L!FailoverDue, LinkInv, L!QueueNotPassedOn
  <2>2. reliable' = TRUE /\ state' \in States /\ txq' = txq
    BY <1>2 DEF L!R!rconn_connect, L!R!state_transition, States
  <2> QED
    BY <2>1, <2>2 DEF LinkInv, L!QueueNotPassedOn
<1> QED
  BY <1>1, <1>2 DEF L!failover_periodic

(* Every step of the main loop or its environment keeps the invariant.      *)
LEMMA LinkInvStep ==
  ASSUME LinkInv, [L!Next]_(L!vars)
  PROVE  LinkInv'
<1>0. reliable = TRUE /\ state \in States
  BY DEF LinkInv
<1>1. ASSUME UNCHANGED <<reliable, state, txq>> PROVE LinkInv'
  BY <1>1 DEF LinkInv, L!QueueNotPassedOn, L!Connected, L!R!Connected
<1>2. CASE \/ UNCHANGED L!vars \/ L!Run \/ L!Wake \/ L!Tick
           \/ L!ControllerChanges \/ L!PolicyChanges
  BY <1>1, <1>2 DEF L!vars, L!rconn, L!Run, L!R!Run, L!R!link, L!Wake, L!Tick, L!R!Tick,
                    L!ControllerChanges, L!PolicyChanges
<1>3. CASE L!Looping
  BY <1>3, LinkLoops DEF L!Looping
<1>4. CASE L!RecvMessage \/ L!RecvEchoReply
  <2>1. L!R!StayOr("ACTIVE") \/ L!R!StayOr("IDLE")
    BY <1>4 DEF L!RecvMessage, L!RecvEchoReply, L!R!RecvMessage, L!R!RecvEchoReply
  <2> QED
    BY <1>0, <2>1, LinkStays
<1>5. CASE L!RecvError
  <2>1. /\ state \in {"CONNECTING", "ACTIVE", "IDLE"}
        /\ L!R!disconnect(txq, n_queued, FALSE)
    BY <1>5 DEF L!RecvError, L!R!RecvError, L!R!Receiving, L!R!Connected
  <2> QED
    BY <1>0, <2>1, LinkDisconnect
<1>6. CASE L!Hooks
  BY <1>6, LinkFailsOver DEF L!Hooks
<1> QED
  BY <1>2, <1>3, <1>4, <1>5, <1>6 DEF L!Next

(* failover_periodic_cb calls rconn_disconnect and rconn_connect, neither   *)
(* of which flushes: still no message for one controller reaches another.   *)
THEOREM NothingPassedOn == L!Spec => []L!QueueNotPassedOn
<1>1. L!Init => LinkInv
  BY DEF L!Init, LinkInv, L!QueueNotPassedOn, States
<1>2. LinkInv /\ [L!Next]_(L!vars) => LinkInv'
  BY LinkInvStep
<1>3. LinkInv => L!QueueNotPassedOn
  BY DEF LinkInv
<1> QED
  BY <1>1, <1>2, <1>3, PTL DEF L!Spec
=============================================================================
