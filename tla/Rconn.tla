------------------------------- MODULE Rconn -------------------------------
(***************************************************************************)
(* rconn.c: the connection of ofprotocol to its controller and to the      *)
(* datapath, and of the datapath to ofprotocol.  It queues what is sent,   *)
(* probes a silent peer and connects again with exponential backoff.       *)
(*                                                                         *)
(* The owner calls rconn_run, rconn_recv and rconn_send from one poll      *)
(* loop.  Every iteration of the loop in rconn_run is a step; the owner    *)
(* does nothing else until the loop ends.  Points in time are kept         *)
(* relative to now, in seconds, and capped.                                *)
(***************************************************************************)
EXTENDS Integers, Sequences, FiniteSets

CONSTANTS
  ProbeInterval,   \* probe_interval, 0 disables the inactivity probe
  MaxBackoff,      \* max_backoff
  HandshakeTime,   \* seconds a peer that is up may take to accept
  TXQ_LIMIT,       \* queue_limit of rconn_send_with_limit
  MAX_TXQ,         \* bound: messages in the queue when the owner sends,
                   \* receives or moves
  Owners           \* what kinds of owners there are

(* An owner connects once and leaves the rest to the rconn (ofprotocol), or *)
(* also calls rconn_disconnect and rconn_connect later (failover.c, the     *)
(* discovery in secchan.c), or accepts connections (dp_run).                *)
OwnerKinds == {"connects", "moves", "accepts"}

(* Transaction ids: none, that of the newest probe, of an older probe, and  *)
(* of any other message.                                                    *)
Xid == {"zero", "probe", "old", "other"}
Message == [xid : Xid, counted : BOOLEAN]

(* The time since the last message is told apart up to here.                *)
QuietCap == 2 * ProbeInterval

ASSUME RconnAssumption ==
  /\ ProbeInterval \in Nat /\ MaxBackoff \in Nat \ {0}
  /\ HandshakeTime \in 0 .. MaxBackoff
  /\ TXQ_LIMIT \in Nat /\ MAX_TXQ \in Nat
  /\ Owners \subseteq OwnerKinds

VARIABLES
  owner,          \* the kind of owner
  pc,             \* "owner" | "run": inside the loop of rconn_run
  state,          \* "VOID" | "BACKOFF" | "CONNECTING" | "ACTIVE" | "IDLE"
  elapsed,        \* now - state_entered
  vconn,          \* rc->vconn # NULL
  reliable,
  backoff,
  deadline,       \* backoff_deadline - now, 0 when it has passed
  txq, n_queued,  \* the queue, and the counter of its owner
  quiet,          \* now - last_received
  idle_echo_xid,
  up,             \* the peer is running and reachable
  asked           \* the probes that reached the peer and are not answered

link == <<state, elapsed, vconn, reliable, backoff, deadline>>
vars == <<owner, pc, link, txq, n_queued, quiet, idle_echo_xid, up, asked>>

Connected == state \in {"ACTIVE", "IDLE"}
Counted(q) == Cardinality({k \in 1 .. Len(q) : q[k].counted})

(* rconn_create, and the first rconn_connect that is to follow.             *)
Init ==
  /\ owner \in Owners
  /\ pc = "owner" /\ state = "VOID" /\ elapsed = 0
  /\ vconn = FALSE /\ reliable = FALSE /\ backoff = 0 /\ deadline = 0
  /\ txq = <<>> /\ n_queued = 0 /\ quiet = 0 /\ idle_echo_xid = "zero"
  /\ up \in BOOLEAN /\ asked = {}

-----------------------------------------------------------------------------
(* The connection sequence number is left out: nothing reads it.            *)
state_transition(s) == state' = s /\ elapsed' = 0

StayOr(s) ==
  /\ IF s = state THEN UNCHANGED <<state, elapsed>> ELSE state_transition(s)
  /\ UNCHANGED <<vconn, reliable, backoff, deadline>>

(* rconn_disconnect, with q and nq the queue and its counter; the queue is  *)
(* not flushed.                                                             *)
rconn_disconnect(q, nq) ==
  /\ vconn' = FALSE /\ reliable' = FALSE
  /\ backoff' = 0 /\ deadline' = 0
  /\ state_transition("VOID")
  /\ txq' = q /\ n_queued' = nq /\ asked' = {}

Smaller(a, b) == IF a < b THEN a ELSE b
Larger(a, b)  == IF a > b THEN a ELSE b

(* flush_queue drops all messages ...                                       *)
Flushed(q) == <<>>

(* MUTANT of FlushedCount: the counters of the messages are left alone.     *)
MutFlushedCount(q, nq) == nq

(* ... and decrements the counter for every message that has one.           *)
FlushedCount(q, nq) == nq - Counted(q)

(* MUTANT of NextBackoff: TIME_MAX does not keep the backoff from a reset.  *)
MutNextBackoff(keep) ==
  IF deadline = 0 THEN 1 ELSE Smaller(MaxBackoff, Larger(1, 2 * backoff))

(* keep: backoff_deadline was set to TIME_MAX, "Prevent resetting backoff". *)
NextBackoff(keep) ==
  IF ~keep /\ deadline = 0 THEN 1
  ELSE Smaller(MaxBackoff, Larger(1, 2 * backoff))

(* disconnect, with q and nq the queue and its counter.                     *)
disconnect(q, nq, keep) ==
  \/ /\ reliable
     /\ backoff' = NextBackoff(keep)
     /\ deadline' = backoff'
     /\ IF state \in {"CONNECTING", "ACTIVE", "IDLE"}
        THEN txq' = Flushed(q) /\ n_queued' = FlushedCount(q, nq) /\ vconn' = FALSE
        ELSE txq' = q /\ n_queued' = nq /\ UNCHANGED vconn
     /\ asked' = {}
     /\ state_transition("BACKOFF")
     /\ UNCHANGED reliable
  \/ ~reliable /\ rconn_disconnect(q, nq)

(* try_send for the messages at the head of q, until the queue is empty or  *)
(* vconn_send fails: EAGAIN, or an error when the peer is gone.  ask are    *)
(* the probes the peer has; the state is s unless the connection is lost.   *)
Transmit(q, nq, ask, s) ==
  \E k \in 0 .. Len(q) :
    LET rest  == SubSeq(q, k + 1, Len(q))
        nrest == nq - Counted(SubSeq(q, 1, k))
        got   == {q[j].xid : j \in 1 .. k} \cap {"probe", "old"}
    IN  \/ /\ idle_echo_xid' = IF rest = <<>> THEN q[k].xid ELSE "zero"
           /\ txq' = rest /\ n_queued' = nrest
           /\ asked' = ask \cup got
           /\ StayOr(s)
        \/ /\ rest # <<>> /\ ~up
           /\ idle_echo_xid' = "zero"
           /\ disconnect(rest, nrest, FALSE)

(* rconn_send on a connection: only a queue that was empty is tried.        *)
Push(q, nq, ask, xid, s) ==
  \/ Len(q) = 1 /\ Transmit(q, nq, ask, s)
  \/ /\ Len(q) > 1
     /\ txq' = q /\ n_queued' = nq /\ asked' = ask /\ idle_echo_xid' = xid
     /\ StayOr(s)

do_tx_work ==
  \/ txq # <<>> /\ Transmit(txq, n_queued, asked, state)
  \/ txq = <<>> /\ UNCHANGED <<link, txq, n_queued, idle_echo_xid, asked>>

-----------------------------------------------------------------------------
(* vconn_open succeeds at once when the peer is up (the connection itself   *)
(* is established later), and may or may not when it is not.  The queue is  *)
(* that of the connection before.                                           *)
reconnect ==
  \/ /\ vconn' = TRUE
     /\ deadline' = backoff
     /\ state_transition("CONNECTING")
     /\ UNCHANGED <<reliable, backoff, txq, n_queued, asked>>
  \/ ~up /\ disconnect(txq, n_queued, TRUE)

Timeout ==
  CASE state = "BACKOFF" -> elapsed >= backoff
    [] state = "CONNECTING" -> elapsed >= Larger(1, backoff)
    [] state = "ACTIVE" ->
         ProbeInterval > 0 /\ Smaller(quiet, elapsed) >= ProbeInterval
    [] state = "IDLE" -> elapsed >= ProbeInterval
    [] OTHER -> FALSE

(* rconn_run: the owner calls it; the loop goes on while the state changes. *)
Run ==
  /\ pc = "owner" /\ pc' = "run"
  /\ UNCHANGED <<owner, link, txq, n_queued, quiet, idle_echo_xid, up, asked>>

In(s) == pc = "run" /\ state = s

Loop ==
  /\ pc' = IF state' # state THEN "run" ELSE "owner"
  /\ UNCHANGED <<owner, quiet, up>>

run_VOID ==
  /\ In("VOID")
  /\ UNCHANGED <<link, txq, n_queued, idle_echo_xid, asked>>
  /\ Loop

run_BACKOFF ==
  /\ In("BACKOFF")
  /\ \/ Timeout /\ reconnect
     \/ ~Timeout /\ UNCHANGED <<link, txq, n_queued, asked>>
  /\ UNCHANGED idle_echo_xid
  /\ Loop

(* vconn_connect: a peer that is up accepts within HandshakeTime.           *)
run_CONNECTING ==
  /\ In("CONNECTING")
  /\ \/ /\ up                                             \* 0
        /\ StayOr("ACTIVE")
        /\ UNCHANGED <<txq, n_queued, asked>>
     \/ ~up /\ disconnect(txq, n_queued, FALSE)           \* an error
     \/ /\ ~(up /\ elapsed >= HandshakeTime)              \* EAGAIN
        /\ \/ Timeout /\ disconnect(txq, n_queued, TRUE)
           \/ ~Timeout /\ UNCHANGED <<link, txq, n_queued, asked>>
  /\ UNCHANGED idle_echo_xid
  /\ Loop

(* A new probe: what is left of the probe before is an old one.             *)
Outdated(x) == IF x = "probe" THEN "old" ELSE x
Probe == [xid |-> "probe", counted |-> FALSE]

(* MUTANT of ActiveProbes: the state changes after the probe was sent.      *)
MutActiveProbes ==
  /\ pc = "run" /\ state = "ACTIVE" /\ Timeout
  /\ pc' = "run" /\ UNCHANGED <<owner, quiet, up>>
  /\ \/ Push(Append(txq, Probe), n_queued, asked, idle_echo_xid, "IDLE")
     \/ /\ ~up /\ state_transition("IDLE")
        /\ vconn' = FALSE /\ txq' = <<>> /\ n_queued' = n_queued - Counted(txq)
        /\ UNCHANGED <<reliable, backoff, deadline, idle_echo_xid, asked>>

(* run_ACTIVE, the probe is due: the state changes first ("Ordering is      *)
(* important here"), then the probe is sent.                                *)
ActiveProbes ==
  /\ In("ACTIVE") /\ Timeout
  /\ Push(Append([k \in DOMAIN txq |-> [txq[k] EXCEPT !.xid = Outdated(@)]], Probe),
          n_queued, {Outdated(x) : x \in asked}, Outdated(idle_echo_xid), "IDLE")
  /\ Loop

ActiveSends ==
  /\ In("ACTIVE") /\ ~Timeout
  /\ do_tx_work
  /\ Loop

(* MUTANT of IdleGivesUp: the probe is sent over and over.                  *)
MutIdleGivesUp ==
  /\ In("IDLE") /\ Timeout
  /\ StayOr("ACTIVE")
  /\ UNCHANGED <<txq, n_queued, asked, idle_echo_xid>>
  /\ Loop

(* run_IDLE, "no response to inactivity probe".                             *)
IdleGivesUp ==
  /\ In("IDLE") /\ Timeout
  /\ disconnect(txq, n_queued, FALSE)
  /\ UNCHANGED idle_echo_xid
  /\ Loop

IdleSends ==
  /\ In("IDLE") /\ ~Timeout
  /\ do_tx_work
  /\ Loop

-----------------------------------------------------------------------------
(* rconn_recv: a message, an echo reply to a probe, or an error.            *)
Receiving == pc = "owner" /\ Connected /\ UNCHANGED <<owner, pc, up>>

RecvMessage ==
  /\ Receiving /\ up /\ Len(txq) <= MAX_TXQ
  /\ quiet' = 0
  /\ StayOr("ACTIVE")
  /\ UNCHANGED <<txq, n_queued, idle_echo_xid, asked>>

(* Replies come in the order of the probes.                                 *)
RecvEchoReply ==
  /\ Receiving /\ up /\ Len(txq) <= MAX_TXQ
  /\ \E xid \in asked :
       /\ "old" \in asked => xid = "old"
       /\ asked' = asked \ {xid}
       /\ \/ state = "ACTIVE" /\ StayOr("ACTIVE") /\ UNCHANGED idle_echo_xid
          \/ /\ state = "IDLE" /\ idle_echo_xid \in {"zero", xid}
             /\ StayOr("ACTIVE") /\ idle_echo_xid' = "zero"
          \/ /\ state = "IDLE" /\ idle_echo_xid \notin {"zero", xid}
             /\ StayOr("IDLE") /\ idle_echo_xid' = "zero"
  /\ quiet' = 0
  /\ UNCHANGED <<txq, n_queued>>

RecvError ==
  /\ Receiving /\ ~up
  /\ disconnect(txq, n_queued, FALSE)
  /\ UNCHANGED <<quiet, idle_echo_xid>>

(* rconn_send_with_limit returns EAGAIN otherwise.                          *)
MayQueue(m) == m.counted => n_queued < TXQ_LIMIT

(* rconn_send and rconn_send_with_limit, without and with a counter.        *)
Send ==
  /\ pc = "owner" /\ Connected /\ Len(txq) < MAX_TXQ
  /\ \E counted \in BOOLEAN, xid \in {"zero", "other"} :
       LET m == [xid |-> xid, counted |-> counted]
       IN  /\ MayQueue(m)
           /\ Push(Append(txq, m), n_queued + IF counted THEN 1 ELSE 0,
                   asked, idle_echo_xid, state)
  /\ UNCHANGED <<owner, pc, quiet, up>>

-----------------------------------------------------------------------------
(* rconn_connect: rconn_disconnect, then reconnect to the new peer.         *)
rconn_connect(reachable) ==
  /\ reliable' = TRUE
  /\ \/ /\ vconn' = TRUE
        /\ backoff' = 0 /\ deadline' = 0
        /\ state_transition("CONNECTING")
     \/ /\ ~reachable
        /\ vconn' = FALSE
        /\ backoff' = 1 /\ deadline' = 1
        /\ state_transition("BACKOFF")
  /\ asked' = {}
  /\ UNCHANGED <<txq, n_queued, quiet, idle_echo_xid>>

(* The owner's first connection, and later ones when it moves to another    *)
(* peer.                                                                    *)
Connect ==
  /\ pc = "owner"
  /\ \/ owner = "connects" /\ state = "VOID"
     \/ owner = "moves"
  /\ Len(txq) <= MAX_TXQ
  /\ rconn_connect(up)
  /\ UNCHANGED <<owner, pc, up>>

Disconnect ==
  /\ owner = "moves"
  /\ pc = "owner" /\ state # "VOID"
  /\ Len(txq) <= MAX_TXQ
  /\ rconn_disconnect(txq, n_queued)
  /\ UNCHANGED <<owner, pc, quiet, idle_echo_xid, up>>

(* A connection is accepted (dp_run): the rconn of the one before is gone   *)
(* (remote_destroy), a new one is made for it by rconn_new_from_vconn.      *)
Accept ==
  /\ owner = "accepts"
  /\ pc = "owner" /\ up /\ state = "VOID"
  /\ vconn' = TRUE /\ state' = "ACTIVE" /\ elapsed' = 0
  /\ txq' = <<>> /\ n_queued' = 0 /\ quiet' = 0 /\ idle_echo_xid' = "zero"
  /\ UNCHANGED <<owner, pc, reliable, backoff, deadline, up, asked>>

(* Time passes.                                                             *)
Later(t, cap) == IF t < cap THEN t + 1 ELSE t

Tick ==
  /\ elapsed' = Later(elapsed, IF Connected THEN ProbeInterval ELSE MaxBackoff)
  /\ quiet' = Later(quiet, QuietCap)
  /\ deadline' = IF deadline > 0 THEN deadline - 1 ELSE 0
  /\ UNCHANGED <<owner, pc, state, vconn, reliable, backoff, txq, n_queued,
                 idle_echo_xid, up, asked>>

(* The peer comes and goes.                                                 *)
PeerChanges ==
  /\ up' = ~up
  /\ UNCHANGED <<owner, pc, link, txq, n_queued, quiet, idle_echo_xid, asked>>

Looping ==
  \/ run_VOID \/ run_BACKOFF \/ run_CONNECTING
  \/ ActiveProbes \/ ActiveSends \/ IdleGivesUp \/ IdleSends

Next ==
  \/ Run \/ Looping
  \/ RecvMessage \/ RecvEchoReply \/ RecvError \/ Send
  \/ Connect \/ Disconnect \/ Accept
  \/ Tick \/ PeerChanges

Spec == Init /\ [][Next]_vars

(* Time passes; the owner gets round to its first rconn_connect and calls   *)
(* rconn_run again and again: rconn_run_wait wakes the poll loop at every   *)
(* timeout of the state.  Nothing is assumed of the peer.                   *)
FairSpec ==
  /\ Spec
  /\ WF_vars(Tick) /\ WF_vars(Run) /\ WF_vars(Looping)
  /\ SF_vars(state = "VOID" /\ Connect)
-----------------------------------------------------------------------------
(* PROPERTIES *)

(* Type correctness.                                                        *)
TypeOK ==
  /\ owner \in Owners
  /\ pc \in {"owner", "run"}
  /\ state \in {"VOID", "BACKOFF", "CONNECTING", "ACTIVE", "IDLE"}
  /\ elapsed \in Nat /\ quiet \in 0 .. QuietCap
  /\ {vconn, reliable, up} \subseteq BOOLEAN
  /\ backoff \in 0 .. MaxBackoff /\ deadline \in 0 .. MaxBackoff
  /\ txq \in Seq(Message) /\ n_queued \in Int
  /\ idle_echo_xid \in Xid
  /\ asked \subseteq {"probe", "old"}

(* A message is only ever queued or sent on an open vconn ("otherwise we    *)
(* can end up queuing a packet with vconn == NULL and then *boom*"), and a  *)
(* vconn that is not used any more is closed.                               *)
VconnMatchesState == vconn <=> state \in {"CONNECTING", "ACTIVE", "IDLE"}

(* The counter that limits what an owner may queue is the number of its     *)
(* messages in the queue, across failures inside rconn_send, flushes and    *)
(* new connections, and stays within the limit.                             *)
QueueCounted == n_queued = Counted(txq) /\ n_queued <= TXQ_LIMIT

(* An rconn is connected again and again once its peer is up for good, even *)
(* when the peer takes longer to accept than the first backoffs allow: the  *)
(* time to connect grows with the backoff.  (One that was accepted, or that *)
(* its owner disconnects, does not come back by itself.)                    *)
Reconnects == owner = "connects" /\ <>[]up => []<>Connected

(* A peer that went silent is noticed: a connection on which nothing is     *)
(* received any more does not stay up.                                      *)
SilenceNoticed == []<>(~Connected \/ quiet < QuietCap)

=============================================================================
