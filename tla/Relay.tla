-------------------------------- MODULE Relay --------------------------------
(***************************************************************************)
(* The relay of ofprotocol (secchan.c) between the datapath ("local") and  *)
(* a controller ("remote"), with the hooks that take or send messages: the *)
(* rate limiter, fail-open, the status replies and emerg-flow.             *)
(*                                                                         *)
(* A half of the relay receives from its own rconn and sends to that of    *)
(* the other half.  What the rconns do is module Rconn: here each is       *)
(* connected or not and has a queue, which is dropped with the connection. *)
(* The counter n_txq of a half is the number of its messages in the queue  *)
(* (Rconn!QueueCounted).                                                   *)
(***************************************************************************)
EXTENDS RateLimiter

CONSTANTS
  MAX_ITERATIONS,  \* of relay_run (50)
  MAX_DRAIN,       \* iterations of rate_limit_periodic_cb (50)
  TXQ_LIMIT,       \* messages of the limiter in the queue of the rconn (10)
  Uses,            \* the relays to look at
  MAX_TXQ          \* bound: messages in a queue when a connection is lost
                   \* or a status request comes

(* The relay of the controller with the option --rate-limit or --emerg-flow *)
(* (a hook that is not asked for is not there), or a management connection. *)
(* With the limiter only the messages to the controller and the loss of its *)
(* connection are looked at.                                                *)
RelayUses == {"rate_limit", "emerg_flow", "management"}

ASSUME RelayAssumption ==
  /\ Uses \subseteq RelayUses
  /\ MAX_ITERATIONS \in Nat \ {0} /\ MAX_DRAIN \in Nat \ {0} /\ TXQ_LIMIT \in Nat /\ MAX_TXQ \in Nat

Half == {"local", "remote"}
Peer(h) == CHOOSE o \in Half : o # h

(* "first" and "second" stand for any two packet-ins of one port, each of   *)
(* them of an unknown flow or sent by an action.                            *)
Tag == {"none", "first", "second"}
Reasons == {"packet_in", "action_in"}     \* OFPR_NO_MATCH, OFPR_ACTION
PacketIn(k, p, t) == [kind |-> k, port |-> p, tag |-> t]
(* Past the limiter only the tag of a packet-in is told apart.              *)
Relayed(m) == IF m.kind \in Reasons THEN [m EXCEPT !.kind = "other", !.port = 0] ELSE m
Plain(k) == [kind |-> k, port |-> 0, tag |-> "none"]
Emergency == {"PROTECTION", "RESTORATION"}

VARIABLES
  use,            \* one of Uses
  pc,             \* "relay" | "hooks" | "drain" | "sleep" | "gone"
  half, iteration, progress,   \* of the loops in relay_run
  drained,        \* iterations of rate_limit_periodic_cb
  link,           \* which rconns are connected
  rxbuf,          \* <<>> or the message a half holds
  txq,            \* the queue of the rconn of a half, of [msg, by]
  emerg,          \* emerg-flow: "PROTECTION" | "RESTORATION"
  got,            \* history: the tags the controller received
  tagged,         \* history: the reasons of the tagged packets that were sent
  told,           \* history: the last emergency message of the datapath
  intact          \* history: it has been connected since the start

loop == <<half, iteration, progress, drained>>
hist == <<got, tagged, told, intact>>
vars == <<use, pc, loop, link, rxbuf, txq, emerg, hist, limiter>>

mgmt == use = "management"

n_txq(h) == Cardinality({k \in DOMAIN txq[Peer(h)] : txq[Peer(h)][k].by = h})

Init ==
  /\ use \in Uses
  /\ pc = "sleep" /\ half = "local" /\ iteration = 0 /\ progress = FALSE /\ drained = 0
  /\ link \in {l \in [Half -> BOOLEAN] : use # "emerg_flow" => l["local"] /\ l["remote"]}
  /\ rxbuf = [h \in Half |-> <<>>] /\ txq = [h \in Half |-> <<>>]
  /\ emerg = "PROTECTION"
  /\ got = <<>> /\ tagged = <<>> /\ told = "PROTECTION" /\ intact = link["local"]
  /\ rate_limit_start

-----------------------------------------------------------------------------
(* What the other end makes of a message.                                   *)
Deliver(h, msg) ==
  /\ got' = IF h = "remote" /\ msg.tag # "none" THEN Append(got, msg.tag) ELSE got
  /\ told' = IF h = "local" /\ msg.kind \in Emergency THEN msg.kind ELSE told

(* rconn_send on a connection: a queue that was empty is tried at once.     *)
Send(h, msg, by) ==
  LET e == [msg |-> msg, by |-> by]
  IN  \/ /\ txq[h] = <<>>
         /\ Deliver(h, msg) /\ UNCHANGED txq
      \/ txq' = [txq EXCEPT ![h] = Append(@, e)] /\ UNCHANGED <<got, told>>

(* The main loop wakes up.  rconn_run, first in relay_run: the vconn of a   *)
(* half takes one more message.                                             *)
Transmit(h) ==
  /\ pc = "sleep" /\ link[h] /\ txq[h] # <<>>
  /\ Deliver(h, Head(txq[h]).msg)
  /\ txq' = [txq EXCEPT ![h] = Tail(@)]
  /\ UNCHANGED <<use, pc, loop, link, rxbuf, emerg, tagged, intact, limiter>>

(* relay_run goes on to its two halves.                                     *)
WakesUp ==
  /\ pc = "sleep" /\ pc' = "relay"
  /\ half' = "local" /\ iteration' = 0 /\ progress' = FALSE
  /\ UNCHANGED <<use, drained, link, rxbuf, txq, emerg, hist, limiter>>

-----------------------------------------------------------------------------
(* Where relay_run goes after a half: p tells whether it made progress,     *)
(* broke whether the rest of this iteration is left out.                    *)
Goes(p, broke) ==
  IF half = "local" /\ ~broke
  THEN /\ half' = "remote" /\ progress' = p
       /\ UNCHANGED <<pc, iteration>>
  ELSE /\ half' = "local" /\ progress' = FALSE
       /\ IF (progress \/ p) /\ iteration + 1 < MAX_ITERATIONS
          THEN iteration' = iteration + 1 /\ UNCHANGED pc
          ELSE /\ iteration' = 0
               /\ pc' = IF ~mgmt THEN "hooks"
                        ELSE IF \A h \in Half : link[h] THEN "sleep" ELSE "gone"

(* What rconn_recv may return: packet-ins for either reason and other       *)
(* messages of the datapath, status requests and other ones of a            *)
(* controller.                                                              *)
Messages(h) ==
  IF h = "local"
  THEN IF use # "rate_limit" THEN {Plain("other")} ELSE
         {PacketIn("packet_in", p, "none") : p \in Ports} \cup
         {PacketIn("action_in", 0, "none")} \cup
         IF Len(tagged) = 2 THEN {}
         ELSE {PacketIn(k, NumPorts - 1, IF tagged = <<>> THEN "first" ELSE "second") :
                 k \in Reasons}
  ELSE IF use = "rate_limit" THEN {} ELSE {Plain("other")} \cup
       IF mgmt /\ Len(txq[h]) <= MAX_TXQ THEN {Plain("status")} ELSE {}

(* rconn_recv has message m for the half.                                   *)
Received(m) ==
  /\ rxbuf[half] = <<>> /\ link[half]
  /\ m \in Messages(half)
  /\ tagged' = IF m.tag = "none" THEN tagged ELSE Append(tagged, m.kind)

HoldsBack == n_txq(half) > 0

(* MUTANT of Drops: the message is kept until there is a connection.        *)
MutDrops == FALSE

(* rconn_send says ENOTCONN.                                                *)
Drops == ~link[Peer(half)]

(* The second part: the message in buf is sent, dropped, or kept for later. *)
Forward(buf) ==
  IF buf = <<>> \/ HoldsBack \/ ~(Drops \/ link[Peer(half)])
  THEN /\ rxbuf' = [rxbuf EXCEPT ![half] = buf]
       /\ Goes(FALSE, FALSE) /\ UNCHANGED <<txq, got, told>>
  ELSE /\ rxbuf' = [rxbuf EXCEPT ![half] = <<>>]
       /\ IF link[Peer(half)]
          THEN Send(Peer(half), Head(buf), half) /\ Goes(TRUE, FALSE)
          ELSE UNCHANGED <<txq, got, told>> /\ Goes(FALSE, FALSE)

AtHalf == pc = "relay" /\ UNCHANGED <<use, drained, link, emerg, intact>>

(* No new message.                                                          *)
RelayHeld ==
  /\ AtHalf
  /\ Forward(rxbuf[half])
  /\ UNCHANGED <<tagged, limiter>>

(* A message that no hook takes: the limiter lets it go on.                 *)
RelayPasses ==
  /\ AtHalf
  /\ \E m \in Messages(half) :
       /\ Received(m) /\ m.kind # "status"
       /\ PassesLimiter(m)
       /\ Forward(<<Relayed(m)>>)

(* call_local_packet_cbs: the learning switch takes everything while there  *)
(* is no controller and fail-open is on, else the limiter may take a        *)
(* packet-in.  The rest of the iteration is left out.  (What the learning   *)
(* switch sends to the datapath is in no counter of the relay.)             *)
HookTakesLocal ==
  /\ AtHalf /\ half = "local" /\ ~mgmt
  /\ \E m \in Messages(half) :
       /\ Received(m)
       /\ \/ ~link["remote"] /\ UNCHANGED limiter
          \/ QueuedByLimiter(m)
  /\ Goes(TRUE, TRUE)
  /\ UNCHANGED <<rxbuf, txq, got, told>>

(* call_remote_packet_cbs: a status request is answered.                    *)
HookTakesRemote ==
  /\ AtHalf /\ half = "remote"
  /\ Received(Plain("status"))
  /\ Send("remote", Plain("other"), "none")
  /\ Goes(TRUE, TRUE)
  /\ UNCHANGED <<rxbuf, limiter>>

-----------------------------------------------------------------------------
(* MUTANT of emerg_flow_periodic: the loss is not reported.                 *)
MutEmergFlow ==
  LET new == IF link["remote"] THEN "RESTORATION" ELSE "PROTECTION"
  IN  /\ emerg' = new
      /\ IF emerg # new /\ link["local"] /\ link["remote"] THEN Send("local", Plain(new), "none")
         ELSE UNCHANGED <<txq, got, told>>

(* A message for the datapath when the connection was lost or made; it is   *)
(* lost itself when the datapath is not connected.                          *)
emerg_flow_periodic ==
  LET new == IF link["remote"] THEN "RESTORATION" ELSE "PROTECTION"
  IN  /\ emerg' = new
      /\ IF emerg # new /\ link["local"] THEN Send("local", Plain(new), "none")
         ELSE UNCHANGED <<txq, got, told>>

(* The periodic hooks: the limiter fills its bucket and starts to drain its *)
(* queues (the drain goes on below), emerg-flow comes after it.             *)
Hooks ==
  /\ pc = "hooks" /\ pc' = "drain"
  /\ IF use = "rate_limit" THEN refill_bucket ELSE UNCHANGED <<tokens, unfilled>>
  /\ drained' = 0
  /\ UNCHANGED <<use, half, iteration, progress, link, rxbuf, txq, emerg, hist,
                 queues, n_queued, next_tx_port, allowance>>

Draining == pc = "drain" /\ n_queued > 0 /\ tokens >= Cost

(* One packet leaves its queue, for the rconn or for good.                  *)
Drain ==
  /\ Draining /\ drained < MAX_DRAIN
  /\ get_token /\ dequeue_packet
  /\ LET msg    == Head(queues[NextPort])
         queued == Cardinality({k \in DOMAIN txq["remote"] : txq["remote"][k].by = "limiter"})
     IN  IF queued < TXQ_LIMIT /\ link["remote"]
         THEN Send("remote", Relayed(msg), "limiter")
         ELSE UNCHANGED <<txq, got, told>>
  /\ drained' = drained + 1
  /\ UNCHANGED <<use, pc, half, iteration, progress, link, rxbuf, emerg, tagged, intact,
                 unfilled>>

(* The loop ends; at its limit it has already taken a token.                *)
DrainEnds ==
  /\ pc = "drain" /\ pc' = "sleep"
  /\ ~Draining \/ drained = MAX_DRAIN
  /\ IF Draining THEN get_token ELSE UNCHANGED <<tokens, allowance>>
  /\ IF use = "emerg_flow" THEN emerg_flow_periodic
     ELSE UNCHANGED <<txq, emerg, got, told>>
  /\ drained' = 0
  /\ UNCHANGED <<use, half, iteration, progress, link, rxbuf, tagged, intact,
                 queues, n_queued, next_tx_port, unfilled>>

-----------------------------------------------------------------------------
(* A management connection is accepted in place of one that was destroyed.  *)
relay_accept ==
  /\ pc = "gone" /\ pc' = "sleep"
  /\ link' = [h \in Half |-> TRUE]
  /\ rxbuf' = [h \in Half |-> <<>>] /\ txq' = [h \in Half |-> <<>>]
  /\ UNCHANGED <<use, loop, emerg, hist, limiter>>

(* A connection is lost inside an rconn call: its queue is dropped, but not *)
(* the message a half has received from it.                                 *)
Lose(h) ==
  /\ use = "rate_limit" => h = "remote"
  /\ pc \in {"sleep", "relay"} \cup IF h = "remote" /\ drained > 0 THEN {"drain"} ELSE {}
  /\ link[h] /\ Len(txq["local"]) <= MAX_TXQ
  /\ link' = [link EXCEPT ![h] = FALSE]
  /\ txq' = [txq EXCEPT ![h] = <<>>]
  /\ intact' = (intact /\ h = "remote")
  /\ UNCHANGED <<use, pc, loop, rxbuf, emerg, got, tagged, told, limiter>>

(* rconn_run connects again (not for the relay of a management connection). *)
Reconnect(h) ==
  /\ pc = "sleep" /\ ~mgmt /\ ~link[h]
  /\ link' = [link EXCEPT ![h] = TRUE]
  /\ UNCHANGED <<use, pc, loop, rxbuf, txq, emerg, hist, limiter>>

Tick ==
  /\ pc = "sleep" /\ use = "rate_limit" /\ BucketTick
  /\ UNCHANGED <<use, pc, loop, link, rxbuf, txq, emerg, hist>>

Relaying == RelayHeld \/ RelayPasses \/ HookTakesLocal \/ HookTakesRemote

Next ==
  \/ WakesUp \/ Relaying
  \/ Hooks \/ Drain \/ DrainEnds \/ relay_accept
  \/ \E h \in Half : Transmit(h) \/ Lose(h) \/ Reconnect(h)
  \/ Tick

Spec == Init /\ [][Next]_vars

(* The loop goes round, time passes, and both peers read what is sent.      *)
FairSpec ==
  /\ Spec
  /\ WF_vars(WakesUp) /\ WF_vars(Relaying)
  /\ WF_vars(Hooks) /\ WF_vars(Drain \/ DrainEnds)
  /\ SF_vars(Tick)
  /\ \A h \in Half : SF_vars(Transmit(h))
-----------------------------------------------------------------------------
(* PROPERTIES *)

(* A packet-in reaches the controller at most once, and two of one port in  *)
(* order, whether they pass the limiter, wait in a queue or in the buffer   *)
(* of the relay.  The one exception is the one the code makes: a packet-in  *)
(* that an action sends is not limited, and may overtake an older one of an *)
(* unknown flow that waits (rate_limit_local_packet_cb).                    *)
PacketsInOrder ==
  \/ got \in {<<>>, <<"first">>, <<"second">>, <<"first", "second">>}
  \/ got = <<"second", "first">> /\ tagged = <<"packet_in", "action_in">>

(* A message a half holds back is sent or dropped in the end, whatever      *)
(* happens to the two connections, if relay_run comes to that half at all:  *)
(* the half of the controller gets no turn while hooks take all that the    *)
(* datapath sends.                                                          *)
HeldMessageLeaves ==
  \A h \in Half : []<>(pc = "relay" /\ half = h) => []<>(rxbuf[h] = <<>> \/ pc = "gone")

(* A packet-in waiting in a queue leaves it, whatever other ports send.     *)
QueuedPacketLeaves ==
  LET waits == \E p \in Ports : \E k \in DOMAIN queues[p] : queues[p][k].tag = "first"
  IN  waits ~> ~waits

(* A datapath that has been connected since the start has been told, or is  *)
(* about to be told, the newest state of the emergency protection, however  *)
(* fast the connection to the controller comes and goes.                    *)
News(q) == {k \in DOMAIN q : q[k].msg.kind \in Emergency}
Newest(q, t) == IF News(q) = {} THEN t ELSE q[Max(News(q))].msg.kind
DatapathTold == intact /\ ~mgmt => emerg = Newest(txq["local"], told)

=============================================================================
