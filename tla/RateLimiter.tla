----------------------------- MODULE RateLimiter -----------------------------
(***************************************************************************)
(* ratelimit.c: a token bucket for the packet-ins of unknown flows, and a  *)
(* queue per port for those that find the bucket empty.  Relay calls its   *)
(* operations from the relay and from the main loop.                       *)
(***************************************************************************)
EXTENDS Integers, Sequences, FiniteSets, FiniteSetsExt

CONSTANTS
  NumPorts,      \* OFPP_MAX
  Rate,          \* tokens per tick (rate_limit)
  Cost,          \* tokens per packet (1000)
  Burst,         \* burst_limit
  InitTokens     \* rate_limit * 100

Ports == 0 .. NumPorts - 1
Full  == Burst * Cost

(* rate_limit_start does not look at the burst limit: the initial tokens    *)
(* may be more than the bucket ever holds again.                            *)
ASSUME LimiterAssumption ==
  /\ NumPorts \in Nat \ {0} /\ Rate \in Nat \ {0} /\ Cost \in Nat \ {0}
  /\ Burst \in Nat \ {0} /\ InitTokens \in Nat

VARIABLES
  queues,        \* one per port
  n_queued,
  next_tx_port,
  tokens,
  unfilled,      \* (now - last_fill) * rate_limit, up to Full
  allowance      \* history: what a bucket that is always up to date holds

limiter == <<queues, n_queued, next_tx_port, tokens, unfilled, allowance>>

rate_limit_start ==
  /\ queues = [p \in Ports |-> <<>>] /\ n_queued = 0 /\ next_tx_port = 0
  /\ tokens = InitTokens /\ unfilled = 0 /\ allowance = Full

(* drop_packet: the oldest packet of one of the longest queues.             *)
AfterDrop ==
  {[queues EXCEPT ![p] = Tail(@)] :
     p \in {p \in Ports : \A o \in Ports : Len(queues[o]) <= Len(queues[p])}}

(* MUTANT of Limited: the test of the reason is the wrong way round.        *)
MutLimited(m) == m.kind = "action_in"

(* rate_limit_local_packet_cb: only the packet-ins of unknown flows are     *)
(* limited.  Those that a flow of the controller sends (OFPR_ACTION, kind   *)
(* "action_in") go on whoever is waiting, and so does any other message.    *)
Limited(m) == m.kind = "packet_in"

(* A limited one may go on ...                                              *)
TakesToken == n_queued = 0 /\ tokens >= Cost

get_token == tokens' = tokens - Cost /\ allowance' = allowance - Cost

PassesLimiter(m) ==
  IF Limited(m)
  THEN TakesToken /\ get_token /\ UNCHANGED <<queues, n_queued, next_tx_port, unfilled>>
  ELSE UNCHANGED limiter

(* ... or is queued, which takes it from the relay.                         *)
QueuedByLimiter(m) ==
  /\ Limited(m) /\ ~TakesToken
  /\ \E q \in IF n_queued >= Burst THEN AfterDrop ELSE {queues} :
       queues' = [q EXCEPT ![m.port] = Append(@, m)]
  /\ n_queued' = IF n_queued >= Burst THEN n_queued ELSE n_queued + 1
  /\ UNCHANGED <<next_tx_port, tokens, unfilled, allowance>>

(* MUTANT of refill_bucket: the time of the last fill is not moved.         *)
MutRefill ==
  /\ tokens' = IF unfilled + tokens >= Cost THEN Min({unfilled + tokens, Full}) ELSE tokens
  /\ UNCHANGED unfilled

refill_bucket ==
  IF unfilled + tokens >= Cost
  THEN tokens' = Min({unfilled + tokens, Full}) /\ unfilled' = 0
  ELSE UNCHANGED <<tokens, unfilled>>

(* MUTANT of NextPort: the search always starts at the first port.          *)
MutNextPort == CHOOSE p \in Ports :
  queues[p] # <<>> /\ \A o \in Ports : queues[o] # <<>> => p <= o

(* dequeue_packet: round robin over the ports.                              *)
NextPort ==
  LET distance(p) == (p - next_tx_port + NumPorts) % NumPorts
  IN  CHOOSE p \in Ports :
        /\ queues[p] # <<>>
        /\ \A o \in Ports : queues[o] # <<>> => distance(p) <= distance(o)

dequeue_packet ==
  /\ queues' = [queues EXCEPT ![NextPort] = Tail(@)]
  /\ next_tx_port' = (NextPort + 1) % NumPorts
  /\ n_queued' = n_queued - 1

(* Time passes.                                                             *)
BucketTick ==
  /\ unfilled' = Min({unfilled + Rate, Full})
  /\ allowance' = Min({allowance + Rate, Full})
  /\ UNCHANGED <<queues, n_queued, next_tx_port, tokens>>

-----------------------------------------------------------------------------
(* PROPERTIES *)

(* In any interval the limiter lets through what a bucket of Burst packets  *)
(* would, plus one more bucket, or the initial tokens if they are more.     *)
(* --burst-limit promises less, "the maximum number of unused packet        *)
(* credits that the switch will allow to accumulate"; the code does not     *)
(* keep that: the bucket is filled only after the packets that were waiting *)
(* have used it (rate_limit_periodic_cb), and rate_limit_start fills it     *)
(* without looking at the burst limit.  More than this it never does.       *)
RateBounded == allowance >= -Max({Full, InitTokens})

=============================================================================
